----------------------------- MODULE PesudoEvent -----------------------------
(***************************************************************************)
(* The events of PesudoOS (pesudo_event.c): sets of bits that tasks and    *)
(* interrupts send and that tasks receive, any of them (OR) or all (AND),  *)
(* clearing what they receive (CLEAR) or not.  A send by a task looks for  *)
(* waiters at once; the bits an interrupt sends are dealt out by           *)
(* process_pesudo_event_from_isr() at the end of the loop's pass.          *)
(*                                                                         *)
(* bits |= and bits &= ~ of main-level code are a load and a store that an *)
(* interrupt can come between, and the scan for waiters loads the bits     *)
(* again for every waiter, so each is a step of its own.  A test and a     *)
(* load that follow each other are one step: an interrupt in between only  *)
(* adds bits, and could as well have come before the test.                 *)
(***************************************************************************)
EXTENDS PesudoOS

CONSTANTS
    Events,     \* addresses a struct pesudo_event may have
    Bits,       \* the bits of a mask
    Opts,       \* bound: values of opt & PESUDO_OPT_MASK
    RecvFlags,  \* bound: values of the flag of pesudo_event_receive()
    MaxSent,    \* bound: how often a bit is put into one event
    MaxIsr      \* bound: sends of interrupts to one event

ASSUME EventAssumption ==
    /\ Events \subseteq Objects
    /\ Timers = {}
    /\ Opts \subseteq {"FIFO", "LIFO", "OTHER"}
    /\ RecvFlags \subseteq SUBSET {"AND", "OR", "CLEAR"}
    /\ MaxSent \in Nat /\ MaxIsr \in Nat

VARIABLES
    pesudo_event_list,                 \* events created and not deleted
    opt, bits,
    wait_event_bits, wait_event_flag,  \* fields of struct pesudo_task
    op, on, loaded, use_bits,          \* main level inside an event function
    left, find_task,                   \* pesudo_event_receive_internal(): waiters to look at, candidate
    drained,                           \* the events the deferred work has been through
    sent, isrSends, consumed,          \* history: how often each bit was put in and cleared
    unseen,                            \* history: bits put in since the last scan of the waiters began
    wish                               \* history: the bits a blocked receiver asked for

regVars == <<op, on, loaded, use_bits, left, find_task>>
waitVars == <<wait_event_bits, wait_event_flag>>
eventFields == <<pesudo_event_list, opt, bits>>
histVars == <<sent, isrSends, consumed, unseen, wish>>
eventVars == <<eventFields, waitVars, regVars, drained, histVars>>
vars == <<kernelVars, eventVars>>

Masks == SUBSET Bits
NoBits == [b \in Bits |-> 0]
Idle == op = "none"

ValidFlags == {{"OR"}, {"AND"}, {"OR", "CLEAR"}, {"AND", "CLEAR"}}

TypeOK ==
    /\ KernelTypeOK
    /\ block_obj \in [Tasks -> Events \cup {NoObj}]
    /\ pesudo_event_list \subseteq Events
    /\ opt \in [Events -> {"FIFO", "LIFO", "OTHER"}]
    /\ bits \in [Events -> Masks]
    /\ wait_event_bits \in [Tasks -> Masks]
    /\ wait_event_flag \in [Tasks -> ValidFlags \cup {{}}]
    /\ op \in {"none", "send", "scan", "clear"}
    /\ on \in Events \cup {NoObj}
    /\ op # "none" => on \in pesudo_event_list
    /\ loaded \in Masks /\ use_bits \in Masks
    /\ left \subseteq Tasks
    /\ find_task \in Tasks \cup {NoTask}
    /\ drained \subseteq Events
    /\ sent \in [Events -> [Bits -> Nat]]
    /\ consumed \in [Events -> [Bits -> Nat]]
    /\ isrSends \in [Events -> Nat]
    /\ unseen \in [Events -> Masks]
    /\ wish \in [Tasks -> Masks]

Init ==
    /\ KernelInit
    /\ pesudo_event_list = {}
    /\ opt = [e \in Events |-> "FIFO"]
    /\ bits = [e \in Events |-> {}]
    /\ wait_event_bits = [t \in Tasks |-> {}]
    /\ wait_event_flag = [t \in Tasks |-> {}]
    /\ op = "none" /\ on = NoObj /\ loaded = {} /\ use_bits = {}
    /\ left = {} /\ find_task = NoTask
    /\ drained = {}
    /\ sent = [e \in Events |-> NoBits]
    /\ isrSends = [e \in Events |-> 0]
    /\ consumed = [e \in Events |-> NoBits]
    /\ unseen = [e \in Events |-> {}]
    /\ wish = [t \in Tasks |-> {}]

-----------------------------------------------------------------------------
Plus(f, e, mask) == [f EXCEPT ![e] = [b \in Bits |-> IF b \in mask THEN @[b] + 1 ELSE @[b]]]

MaySend(e, mask) == \A b \in mask : sent[e][b] < MaxSent

Done ==
    /\ op' = "none" /\ on' = NoObj /\ loaded' = {} /\ use_bits' = {}
    /\ left' = {} /\ find_task' = NoTask

\* the test of pesudo_event_set_usage() and of the scan
Satisfied(present, mask, flag) ==
    \/ "OR" \in flag /\ present \cap mask # {}
    \/ "AND" \in flag /\ mask \subseteq present

\* Mutant: keeps any flag.
AnyFlag(flag) == flag

\* every flag that is not one of the four means OR and CLEAR
Normal(flag) == IF flag \in ValidFlags THEN flag ELSE {"OR", "CLEAR"}

\* the content of free memory, as nobody looks at it
Fresh(e) ==
    /\ bits' = [bits EXCEPT ![e] = {}]
    /\ sent' = [sent EXCEPT ![e] = NoBits]
    /\ isrSends' = [isrSends EXCEPT ![e] = 0]
    /\ consumed' = [consumed EXCEPT ![e] = NoBits]
    /\ unseen' = [unseen EXCEPT ![e] = {}]

\* bound: malloc does not return the memory of an event a task still waits for
pesudo_event_create(e, o) ==
    /\ InTask /\ Idle
    /\ e \in Events \ pesudo_event_list
    /\ \A t \in Tasks : block_obj[t] # e
    /\ pesudo_event_list' = pesudo_event_list \cup {e}
    /\ opt' = [opt EXCEPT ![e] = o]
    /\ Fresh(e)
    /\ UNCHANGED <<kernelVars, waitVars, regVars, drained, wish>>

\* the waiters are left to time out
pesudo_event_delete(e) ==
    /\ InTask /\ Idle
    /\ e \in pesudo_event_list
    /\ pesudo_event_list' = pesudo_event_list \ {e}
    /\ Fresh(e)
    /\ opt' = [opt EXCEPT ![e] = "FIFO"]
    /\ UNCHANGED <<kernelVars, waitVars, regVars, drained, wish>>

\* replaces the bits and looks for no waiter
pesudo_event_set(e, mask) ==
    /\ InTask /\ Idle
    /\ e \in pesudo_event_list
    /\ MaySend(e, mask)
    /\ bits' = [bits EXCEPT ![e] = mask]
    /\ sent' = Plus(sent, e, mask)
    /\ unseen' = [unseen EXCEPT ![e] = @ \cup mask]
    /\ UNCHANGED <<kernelVars, pesudo_event_list, opt, waitVars, regVars, drained, isrSends,
                   consumed, wish>>

(***************************************************************************)
(* pesudo_event_send().                                                    *)
(***************************************************************************)
SendLoad(e, mask) ==
    /\ InTask /\ Idle
    /\ e \in pesudo_event_list
    /\ mask # {}
    /\ MaySend(e, mask)
    /\ op' = "send" /\ on' = e /\ loaded' = bits[e] /\ use_bits' = mask
    /\ UNCHANGED <<kernelVars, eventFields, waitVars, left, find_task, drained, histVars>>

\* pesudo_event_receive_internal() begins
BeginScan(e) ==
    /\ op' = "scan" /\ on' = e /\ loaded' = {} /\ use_bits' = {}
    /\ left' = Waiting("EVENT", e)
    /\ find_task' = NoTask
    /\ unseen' = [unseen EXCEPT ![e] = {}]

SendStore ==
    /\ op = "send"
    /\ bits' = [bits EXCEPT ![on] = loaded \cup use_bits]
    /\ sent' = Plus(sent, on, use_bits)
    /\ BeginScan(on)
    /\ UNCHANGED <<kernelVars, pesudo_event_list, opt, waitVars, drained, isrSends, consumed,
                   wish>>

\* in an interrupt: the bits are left to the end of the pass
IsrSend(e, mask) ==
    /\ e \in pesudo_event_list
    /\ mask # {}
    /\ MaySend(e, mask)
    /\ isrSends[e] < MaxIsr
    /\ bits' = [bits EXCEPT ![e] = @ \cup mask]
    /\ sent' = Plus(sent, e, mask)
    /\ isrSends' = [isrSends EXCEPT ![e] = @ + 1]
    /\ unseen' = [unseen EXCEPT ![e] = @ \cup mask]
    /\ UNCHANGED <<kernelVars, pesudo_event_list, opt, waitVars, regVars, drained, consumed, wish>>

(***************************************************************************)
(* pesudo_event_receive_internal(): the waiters in the order of the task   *)
(* list.  With FIFO or LIFO the scan keeps one candidate; with any other   *)
(* option every waiter that is satisfied is served on the way.             *)
(***************************************************************************)
\* the waiter that TAILQ_FOREACH comes to next
NextWaiter == CHOOSE t \in left : \A u \in left : Pos(t) <= Pos(u)

OthersLeft == {t \in left : t # NextWaiter}

Satisfies(t) == Satisfied(bits[on], wait_event_bits[t], wait_event_flag[t])

GrantTo(t, mask) ==
    /\ state' = [state EXCEPT ![t] = @ \cup {"RECV_EVENT"}]
    /\ wait_event_bits' = [wait_event_bits EXCEPT ![t] = mask]
    /\ UNCHANGED <<now, list, objFields, runFields, loopVars, wait_event_flag>>

\* Mutant: hands over every bit that is set.
ServeAllBits(t) ==
    /\ op' = "clear" /\ loaded' = bits[on] /\ use_bits' = bits[on]
    /\ UNCHANGED <<kernelVars, waitVars, on, left, find_task>>

\* Mutant: the scan ends with the first waiter served.
ServeFirstOnly(t) ==
    /\ GrantTo(t, bits[on] \cap wait_event_bits[t])
    /\ left' = {}
    /\ find_task' = NoTask
    /\ UNCHANGED <<op, on, loaded, use_bits>>

\* set_usage() of waiter t: with CLEAR the first half of bits &= ~use_bits
Serve(t) ==
    IF "CLEAR" \in wait_event_flag[t]
    THEN /\ op' = "clear" /\ loaded' = bits[on]
         /\ use_bits' = bits[on] \cap wait_event_bits[t]
         /\ UNCHANGED <<kernelVars, waitVars, on, left, find_task>>
    ELSE /\ GrantTo(t, bits[on] \cap wait_event_bits[t])
         /\ left' = OthersLeft
         /\ find_task' = NoTask
         /\ UNCHANGED <<op, on, loaded, use_bits>>

Keep(t) ==
    \/ find_task = NoTask
    \/ opt[on] = "FIFO" /\ block_when[t] > block_when[find_task]
    \/ opt[on] = "LIFO" /\ block_when[t] < block_when[find_task]

Look ==
    /\ op = "scan"
    /\ left # {} /\ bits[on] # {}
    /\ LET t == NextWaiter IN
       IF Satisfies(t) /\ opt[on] = "OTHER"
       THEN Serve(t)
       ELSE /\ find_task' = IF Satisfies(t) /\ Keep(t) THEN t ELSE find_task
            /\ left' = OthersLeft
            /\ UNCHANGED <<kernelVars, waitVars, op, on, loaded, use_bits>>
    /\ UNCHANGED <<eventFields, drained, histVars>>

ScanEnds ==
    /\ op = "scan"
    /\ left = {} \/ bits[on] = {}
    /\ IF find_task # NoTask /\ Satisfies(find_task)
       THEN Serve(find_task)
       ELSE Done /\ UNCHANGED <<kernelVars, waitVars>>
    /\ UNCHANGED <<eventFields, drained, histVars>>

\* the waiter pesudo_event_set_usage() clears the bits for
Receiver ==
    IF find_task # NoTask THEN find_task ELSE NextWaiter

ClearTo(mask) ==
    /\ op = "clear"
    /\ bits' = [bits EXCEPT ![on] = mask]
    /\ consumed' = Plus(consumed, on, use_bits)
    /\ IF find_task # NoTask \/ left # {}
       THEN /\ GrantTo(Receiver, use_bits)
            /\ op' = "scan" /\ loaded' = {} /\ use_bits' = {}
            /\ left' = OthersLeft
            /\ find_task' = NoTask
            /\ UNCHANGED on
       ELSE Done /\ UNCHANGED <<kernelVars, waitVars>>
    /\ UNCHANGED <<pesudo_event_list, opt, drained, sent, isrSends, unseen, wish>>

\* Mutant: forgets to clear.
ClearNothing == ClearTo(loaded)

\* the second half of bits &= ~use_bits
ClearStore == ClearTo(loaded \ use_bits)

(***************************************************************************)
(* pesudo_event_receive().  Without CLEAR an immediate success changes     *)
(* nothing, nor does a failure with timeout 0.                             *)
(***************************************************************************)
ReceiveLoad(e, mask, flag) ==
    /\ InTask /\ Idle
    /\ e \in pesudo_event_list
    /\ Satisfied(bits[e], mask, Normal(flag))
    /\ "CLEAR" \in Normal(flag)
    /\ op' = "clear" /\ on' = e /\ loaded' = bits[e] /\ use_bits' = bits[e] \cap mask
    /\ UNCHANGED <<kernelVars, eventFields, waitVars, left, find_task, drained, histVars>>

ReceiveBlocks(e, mask, flag, timeout_ms) ==
    /\ Idle
    /\ e \in pesudo_event_list
    /\ ~Satisfied(bits[e], mask, Normal(flag))
    /\ Block("EVENT", e, timeout_ms)
    /\ wait_event_bits' = [wait_event_bits EXCEPT ![Me] = mask]
    /\ wait_event_flag' = [wait_event_flag EXCEPT ![Me] = Normal(flag)]
    /\ wish' = [wish EXCEPT ![Me] = mask]
    /\ UNCHANGED <<eventFields, regVars, drained, sent, isrSends, consumed, unseen>>

\* "blocked back": the bits in wait_event_bits if granted, else 0 and ETIMEDOUT
ReceiveReturns ==
    /\ Unblock("EVENT")
    /\ wait_event_bits' = [wait_event_bits EXCEPT ![Me] = {}]
    /\ wait_event_flag' = [wait_event_flag EXCEPT ![Me] = {}]
    /\ wish' = [wish EXCEPT ![Me] = {}]
    /\ UNCHANGED <<eventFields, regVars, drained, sent, isrSends, consumed, unseen>>

(***************************************************************************)
(* process_pesudo_event_from_isr(): one scan of each event that has bits.  *)
(***************************************************************************)
DrainEvent(e) ==
    /\ pc = "drain" /\ Idle
    /\ e \in pesudo_event_list \ drained
    /\ drained' = drained \cup {e}
    /\ IF bits[e] # {}
       THEN BeginScan(e)
       ELSE unseen' = [unseen EXCEPT ![e] = {}] /\ UNCHANGED regVars
    /\ UNCHANGED <<kernelVars, eventFields, waitVars, sent, isrSends, consumed, wish>>

DrainEnds ==
    /\ Idle
    /\ pesudo_event_list \subseteq drained
    /\ drained' = {}
    /\ StartPass
    /\ UNCHANGED <<eventFields, waitVars, regVars, histVars>>

-----------------------------------------------------------------------------
EventStep ==
    \/ SendStore \/ Look \/ ScanEnds \/ ClearStore
    \/ ReceiveReturns
    \/ DrainEnds
    \/ \E e \in Events : DrainEvent(e)

SenderCall(e) ==
    \/ \E o \in Opts : pesudo_event_create(e, o)
    \/ pesudo_event_delete(e)
    \/ \E mask \in Masks : pesudo_event_set(e, mask) \/ SendLoad(e, mask)

ReceiverCall(e, flags) ==
    \E mask \in Masks \ {{}}, flag \in flags :
        \/ ReceiveLoad(e, mask, flag)
        \/ \E ms \in Delays : ReceiveBlocks(e, mask, flag, ms)

EventCall == \E e \in Events : SenderCall(e) \/ ReceiverCall(e, RecvFlags)

KernelStep == (LoopStep \/ HandlerReturns \/ TaskCall) /\ Idle /\ UNCHANGED eventVars

Interrupt ==
    \/ Tick /\ UNCHANGED eventVars
    \/ \E e \in Events, mask \in Masks : IsrSend(e, mask)

Next == KernelStep \/ Interrupt \/ EventStep \/ EventCall

Spec == Init /\ [][Next]_vars

-----------------------------------------------------------------------------
(***************************************************************************)
(* Correctness properties.                                                 *)
(***************************************************************************)
Granted(t) == "RECV_EVENT" \in state[t]

\* What a blocked receiver will return keeps its promise however many sends came
\* since it was granted, though each may write its wait_event_bits again: bits it
\* asked for, at least one, and all of them when it asked with AND.
GrantHonoursWish ==
    \A t \in Tasks : Granted(t) =>
        /\ wait_event_bits[t] # {}
        /\ wait_event_bits[t] \subseteq wish[t]
        /\ "AND" \in wait_event_flag[t] => wait_event_bits[t] = wish[t]

\* Whatever interrupts come between a load and a store, one occurrence of a bit is
\* cleared by at most one receiver: the times it was cleared, and once more if it is
\* there, are no more than the times it was put in.
ClearedOnce ==
    \A e \in pesudo_event_list, b \in Bits :
        consumed[e][b] + (IF b \in bits[e] THEN 1 ELSE 0) <= sent[e][b]

\* waiters the bits a scan has seen would satisfy
Overlooked(e) ==
    {t \in Waiting("EVENT", e) :
        ~Granted(t) /\ Satisfied(bits[e] \ unseen[e], wait_event_bits[t], wait_event_flag[t])}

\* When an event has been through the deferred work, no waiter is overlooked unless
\* another waiter of it is granted and will run in the coming pass (FIFO and LIFO
\* serve one); with any other option none is overlooked at all, also after a send.
WaitersServed ==
    \A e \in pesudo_event_list : Idle =>
        /\ opt[e] = "OTHER" => Overlooked(e) = {}
        /\ pc = "drain" /\ e \in drained /\ Overlooked(e) # {} =>
              \E t \in Waiting("EVENT", e) : Granted(t)
=============================================================================
