------------------------------ MODULE PesudoMq ------------------------------
(***************************************************************************)
(* The message queues of PesudoOS (pesudo_mq.c): a ring of item_count      *)
(* slots.  A send by a task grants a waiter at once, but reserves nothing  *)
(* for it: the waiter reads when the loop resumes it, if there is still a  *)
(* message.  A send by an interrupt only writes, and the waiters are       *)
(* granted by process_pesudo_mq_from_isr() at the end of the loop's pass.  *)
(*                                                                         *)
(* The fields of a queue are changed by main-level code and by interrupts. *)
(* ++, --, |= and &= of main-level code are a load and a store, and steps  *)
(* of their own; what the function does up to the next load is in the step *)
(* of the store.  An interrupt's send is one step.  MQ_OPT_EMPTY is never  *)
(* read and left out.                                                      *)
(***************************************************************************)
EXTENDS PesudoOS, Integers

CONSTANTS
    Queues,     \* addresses a struct pesudo_mq may have
    Msgs,       \* contents of a message
    Opts,       \* bound: values of opt & PESUDO_OPT_MASK
    MaxSize,    \* bound: max_msgs
    MaxIsr,     \* bound: sends of interrupts to one queue
    Masked      \* the application calls the queue with interrupts masked

ASSUME MqAssumption ==
    /\ Queues \subseteq Objects
    /\ Timers = {}
    /\ Opts \subseteq {"FIFO", "LIFO", "OTHER"}
    /\ Msgs # {}
    /\ MaxSize \in Nat \ {0}
    /\ MaxIsr \in Nat
    /\ Masked \in BOOLEAN

VARIABLES
    pesudo_mq_list,                 \* queues created and not deleted
    opt, item_count,
    msg_count, wr_index, rd_index,
    data,                           \* slot -> message
    full,                           \* MQ_OPT_FULL
    msg,                            \* the receive buffer of each task
    op, on, loaded, item, flag,     \* main level inside a queue function: step, queue, registers
    drained,                        \* the queues process_pesudo_mq_from_isr() has been through
    isrSends, buffered,             \* history: sends of interrupts, messages in the buffer
    late,                           \* history: messages that came after the scan of this pass
    robbed                          \* history: granted waiters whose queue another task has read since

regVars == <<op, on, loaded, item, flag>>
ringVars == <<msg_count, wr_index, rd_index, data, full>>
mqFields == <<pesudo_mq_list, opt, item_count>>
histVars == <<isrSends, buffered, late, robbed>>
mqVars == <<mqFields, ringVars, msg, regVars, drained, histVars>>
vars == <<kernelVars, mqVars>>

Idle == op = "none"
Slots == 0..MaxSize     \* the last is the memory behind a buffer of the largest size
SomeMsg == CHOOSE m \in Msgs : TRUE

TypeOK ==
    /\ KernelTypeOK
    /\ block_obj \in [Tasks -> Queues \cup {NoObj}]
    /\ pesudo_mq_list \subseteq Queues
    /\ opt \in [Queues -> {"FIFO", "LIFO", "OTHER"}]
    /\ item_count \in [Queues -> 1..MaxSize]
    /\ msg_count \in [Queues -> Nat]
    /\ wr_index \in [Queues -> Nat]
    /\ rd_index \in [Queues -> Nat]
    /\ data \in [Queues -> [Slots -> Msgs]]
    /\ full \in [Queues -> BOOLEAN]
    /\ msg \in [Tasks -> Msgs]
    /\ op \in {"none", "write", "count", "index", "wrap", "flag", "scan", "take", "back",
               "leave", "flush"}
    /\ on \in Queues \cup {NoObj}
    /\ op # "none" => on \in pesudo_mq_list
    /\ loaded \in Nat
    /\ item \in Msgs
    /\ flag \in BOOLEAN
    /\ drained \subseteq Queues
    /\ isrSends \in [Queues -> Nat]
    /\ buffered \in [Queues -> Int]
    /\ late \in [Queues -> Nat]
    /\ robbed \subseteq Tasks

Init ==
    /\ KernelInit
    /\ pesudo_mq_list = {}
    /\ opt = [q \in Queues |-> "FIFO"]
    /\ item_count = [q \in Queues |-> 1]
    /\ msg_count = [q \in Queues |-> 0]
    /\ wr_index = [q \in Queues |-> 0]
    /\ rd_index = [q \in Queues |-> 0]
    /\ data = [q \in Queues |-> [i \in Slots |-> SomeMsg]]
    /\ full = [q \in Queues |-> FALSE]
    /\ msg = [t \in Tasks |-> SomeMsg]
    /\ op = "none" /\ on = NoObj /\ loaded = 0 /\ item = SomeMsg /\ flag = FALSE
    /\ drained = {}
    /\ isrSends = [q \in Queues |-> 0]
    /\ buffered = [q \in Queues |-> 0]
    /\ late = [q \in Queues |-> 0]
    /\ robbed = {}

-----------------------------------------------------------------------------
Waiters(q) == Waiting("MQ", q)
Granted(t) == "RECV_MQ" \in state[t]
Rob(q) == robbed' = robbed \cup {t \in Waiters(q) \ {Me} : Granted(t)}

Step(what) == op' = what /\ UNCHANGED on

Done ==
    /\ op' = "none" /\ on' = NoObj /\ loaded' = 0 /\ item' = SomeMsg /\ flag' = FALSE

Wrapped(q, i) == IF i >= item_count[q] THEN 0 ELSE i

\* a new queue, and what is left of a deleted one, as nobody looks at it
Fresh(q) ==
    /\ msg_count' = [msg_count EXCEPT ![q] = 0]
    /\ wr_index' = [wr_index EXCEPT ![q] = 0]
    /\ rd_index' = [rd_index EXCEPT ![q] = 0]
    /\ data' = [data EXCEPT ![q] = [i \in Slots |-> SomeMsg]]
    /\ full' = [full EXCEPT ![q] = FALSE]
    /\ isrSends' = [isrSends EXCEPT ![q] = 0]
    /\ buffered' = [buffered EXCEPT ![q] = 0]

\* bound: malloc does not return the memory of a queue a task still waits for
pesudo_mq_create(q, o, max_msgs) ==
    /\ InTask /\ Idle
    /\ q \in Queues \ pesudo_mq_list
    /\ \A t \in Tasks : block_obj[t] # q
    /\ pesudo_mq_list' = pesudo_mq_list \cup {q}
    /\ opt' = [opt EXCEPT ![q] = o]
    /\ item_count' = [item_count EXCEPT ![q] = max_msgs]
    /\ Fresh(q)
    /\ UNCHANGED <<kernelVars, msg, regVars, drained, late, robbed>>

\* The waiters are left to time out.
\* bound: no waiter is granted, for it would read the freed queue
pesudo_mq_delete(q) ==
    /\ InTask /\ Idle
    /\ q \in pesudo_mq_list
    /\ \A t \in Waiters(q) : ~Granted(t)
    /\ pesudo_mq_list' = pesudo_mq_list \ {q}
    /\ opt' = [opt EXCEPT ![q] = "FIFO"]
    /\ item_count' = [item_count EXCEPT ![q] = 1]
    /\ Fresh(q)
    /\ UNCHANGED <<kernelVars, msg, regVars, drained, late, robbed>>

(***************************************************************************)
(* pesudo_mq_write(), begun by a send of a task that finds room.  A send   *)
(* that finds the queue full changes nothing.                              *)
(***************************************************************************)
SendTest(q, m) ==
    /\ InTask /\ Idle
    /\ q \in pesudo_mq_list
    /\ msg_count[q] # item_count[q]
    /\ op' = "write" /\ on' = q /\ item' = m
    /\ UNCHANGED <<kernelVars, mqFields, ringVars, msg, loaded, flag, drained, histVars>>

WriteCopy ==
    /\ op = "write"
    /\ data' = [data EXCEPT ![on][wr_index[on]] = item]
    /\ buffered' = [buffered EXCEPT ![on] = @ + 1]
    /\ loaded' = msg_count[on]
    /\ Step("count")
    /\ UNCHANGED <<kernelVars, mqFields, msg_count, wr_index, rd_index, full, msg, item, flag,
                   drained, isrSends, late, robbed>>

WriteCount ==
    /\ op = "count"
    /\ msg_count' = [msg_count EXCEPT ![on] = loaded + 1]
    /\ loaded' = wr_index[on]
    /\ Step("index")
    /\ UNCHANGED <<kernelVars, mqFields, wr_index, rd_index, data, full, msg, item, flag,
                   drained, histVars>>

WriteIndex ==
    /\ op = "index"
    /\ wr_index' = [wr_index EXCEPT ![on] = loaded + 1]
    /\ Step("wrap")
    /\ UNCHANGED <<kernelVars, mqFields, msg_count, rd_index, data, full, msg, loaded, item,
                   flag, drained, histVars>>

\* Mutant: sets the flag one message too early, and clears it with the last.
WrapMiscounts ==
    /\ op = "wrap"
    /\ wr_index' = [wr_index EXCEPT ![on] = Wrapped(on, @)]
    /\ flag' = (msg_count[on] + 1 = item_count[on])
    /\ Step("flag")
    /\ UNCHANGED <<kernelVars, mqFields, msg_count, rd_index, data, full, msg, loaded, item,
                   drained, histVars>>

WriteWrap ==
    /\ op = "wrap"
    /\ wr_index' = [wr_index EXCEPT ![on] = Wrapped(on, @)]
    /\ flag' = (msg_count[on] = item_count[on])
    /\ Step("flag")
    /\ UNCHANGED <<kernelVars, mqFields, msg_count, rd_index, data, full, msg, loaded, item,
                   drained, histVars>>

WriteFlag ==
    /\ op = "flag"
    /\ full' = [full EXCEPT ![on] = flag]
    /\ Step("scan")
    /\ UNCHANGED <<kernelVars, mqFields, msg_count, wr_index, rd_index, data, msg, loaded, item,
                   flag, drained, histVars>>

\* Mutant: the waiters are left to the end of the pass, and there to the next send.
ScanNothing ==
    /\ op = "scan"
    /\ Done
    /\ UNCHANGED <<kernelVars, mqFields, ringVars, msg, drained, histVars>>

\* pesudo_mq_receive_internal(): the message is not taken from the queue
Scan ==
    /\ op = "scan"
    /\ LET found == IF msg_count[on] <= 0 THEN {} ELSE Selected(opt[on], Waiters(on)) IN
         /\ state' = [t \in Tasks |-> IF t \in found THEN state[t] \cup {"RECV_MQ"} ELSE state[t]]
         /\ robbed' = robbed \ found
    /\ Done
    /\ UNCHANGED <<now, list, objFields, runFields, loopVars, mqFields, ringVars, msg, drained,
                   isrSends, buffered, late>>

\* pesudo_mq_send() in an interrupt
IsrSend(q, m) ==
    /\ q \in pesudo_mq_list
    /\ Masked => Idle
    /\ isrSends[q] < MaxIsr
    /\ isrSends' = [isrSends EXCEPT ![q] = @ + 1]
    /\ IF msg_count[q] = item_count[q]
       THEN UNCHANGED <<ringVars, buffered, late>>
       ELSE /\ data' = [data EXCEPT ![q][wr_index[q]] = m]
            /\ msg_count' = [msg_count EXCEPT ![q] = @ + 1]
            /\ wr_index' = [wr_index EXCEPT ![q] = Wrapped(q, @ + 1)]
            /\ full' = [full EXCEPT ![q] = (msg_count[q] + 1 = item_count[q])]
            /\ buffered' = [buffered EXCEPT ![q] = @ + 1]
            /\ late' = IF q \in drained THEN [late EXCEPT ![q] = @ + 1] ELSE late
            /\ UNCHANGED rd_index
    /\ UNCHANGED <<kernelVars, mqFields, msg, regVars, drained, robbed>>

(***************************************************************************)
(* pesudo_mq_receive().  With timeout 0 it returns ENODATA and changes     *)
(* nothing.                                                                *)
(***************************************************************************)
\* pesudo_mq_read(): msg_count of q is not 0
ReadCopy(q) ==
    /\ op' = "take" /\ on' = q
    /\ item' = data[q][rd_index[q]]
    /\ loaded' = msg_count[q]
    /\ UNCHANGED <<kernelVars, mqFields, ringVars, msg, flag, drained, histVars>>

\* Mutant: forgets the test.
ReadsUnchecked(q) ==
    /\ InTask /\ Idle
    /\ q \in pesudo_mq_list
    /\ ReadCopy(q)

ReceiveReads(q) ==
    /\ InTask /\ Idle
    /\ q \in pesudo_mq_list
    /\ msg_count[q] > 0
    /\ ReadCopy(q)

ReadTake ==
    /\ op = "take"
    /\ msg' = [msg EXCEPT ![Me] = item]
    /\ msg_count' = [msg_count EXCEPT ![on] = loaded - 1]
    /\ rd_index' = [rd_index EXCEPT ![on] = Wrapped(on, @ + 1)]
    /\ buffered' = [buffered EXCEPT ![on] = @ - 1]
    /\ Rob(on)
    /\ flag' = full[on]
    /\ Step("back")
    /\ UNCHANGED <<kernelVars, mqFields, wr_index, data, full, loaded, item, drained, isrSends,
                   late>>

\* the store of opt, with the FULL flag as it was loaded
ReadBack ==
    /\ op = "back"
    /\ full' = [full EXCEPT ![on] = flag]
    /\ IF pc = "resumed" THEN Step("leave") /\ UNCHANGED <<loaded, item, flag>> ELSE Done
    /\ UNCHANGED <<kernelVars, mqFields, msg_count, wr_index, rd_index, data, msg, drained,
                   histVars>>

ReceiveBlocks(q, timeout_ms) ==
    /\ Idle
    /\ q \in pesudo_mq_list
    /\ msg_count[q] <= 0
    /\ Block("MQ", q, timeout_ms)
    /\ UNCHANGED mqVars

\* "blocked back" with a grant, and there is a message
ReturnReads ==
    /\ Resumed("MQ") /\ Idle
    /\ ret = "RECV_MQ"
    /\ msg_count[block_obj[Me]] > 0
    /\ ReadCopy(block_obj[Me])

Return ==
    /\ Unblock("MQ")
    /\ Done
    /\ robbed' = robbed \ {Me}
    /\ UNCHANGED <<mqFields, ringVars, msg, drained, isrSends, buffered, late>>

ReturnRead == op = "leave" /\ Return

\* With ETIMEDOUT; or with a grant whose message somebody else has read: then
\* the call returns item_size all the same, and the buffer is as it was.
ReturnWithout ==
    /\ Idle
    /\ ~(ret = "RECV_MQ" /\ msg_count[block_obj[Me]] > 0)
    /\ Return

\* Mutant: leaves wr_index.
FlushReadEnd ==
    /\ op = "flush"
    /\ rd_index' = [rd_index EXCEPT ![on] = 0]
    /\ Done
    /\ UNCHANGED <<kernelVars, mqFields, msg_count, wr_index, data, full, msg, drained, histVars>>

\* pesudo_mq_flush()
FlushCount(q) ==
    /\ InTask /\ Idle
    /\ q \in pesudo_mq_list
    /\ msg_count' = [msg_count EXCEPT ![q] = 0]
    /\ buffered' = [buffered EXCEPT ![q] = 0]
    /\ Rob(q)
    /\ op' = "flush" /\ on' = q
    /\ UNCHANGED <<kernelVars, mqFields, wr_index, rd_index, data, full, msg, loaded, item, flag,
                   drained, isrSends, late>>

FlushIndexes ==
    /\ op = "flush"
    /\ wr_index' = [wr_index EXCEPT ![on] = 0]
    /\ rd_index' = [rd_index EXCEPT ![on] = 0]
    /\ Done
    /\ UNCHANGED <<kernelVars, mqFields, msg_count, data, full, msg, drained, histVars>>

(***************************************************************************)
(* process_pesudo_mq_from_isr(): one scan of each queue with messages.     *)
(***************************************************************************)
DrainMq(q) ==
    /\ pc = "drain" /\ Idle
    /\ q \in pesudo_mq_list \ drained
    /\ drained' = drained \cup {q}
    /\ IF msg_count[q] > 0
       THEN op' = "scan" /\ on' = q
       ELSE UNCHANGED <<op, on>>
    /\ UNCHANGED <<kernelVars, mqFields, ringVars, msg, loaded, item, flag, histVars>>

DrainEnds ==
    /\ Idle
    /\ pesudo_mq_list \subseteq drained
    /\ drained' = {}
    /\ late' = [q \in Queues |-> 0]
    /\ StartPass
    /\ UNCHANGED <<mqFields, ringVars, msg, regVars, isrSends, buffered, robbed>>

-----------------------------------------------------------------------------
MqStep ==
    \/ WriteCopy \/ WriteCount \/ WriteIndex \/ WriteWrap \/ WriteFlag \/ Scan
    \/ ReadTake \/ ReadBack
    \/ ReturnReads \/ ReturnRead \/ ReturnWithout
    \/ FlushIndexes
    \/ DrainEnds
    \/ \E q \in Queues : DrainMq(q)

MqCall ==
    \E q \in Queues :
        \/ \E o \in Opts, n \in 1..MaxSize : pesudo_mq_create(q, o, n)
        \/ pesudo_mq_delete(q)
        \/ \E m \in Msgs : SendTest(q, m)
        \/ ReceiveReads(q)
        \/ \E ms \in Delays : ReceiveBlocks(q, ms)
        \/ FlushCount(q)

KernelStep == (LoopStep \/ HandlerReturns \/ TaskCall) /\ Idle /\ UNCHANGED mqVars

Interrupt ==
    \/ Tick /\ UNCHANGED mqVars
    \/ \E q \in Queues, m \in Msgs : IsrSend(q, m)

Next == KernelStep \/ Interrupt \/ MqStep \/ MqCall

Spec == Init /\ [][Next]_vars

-----------------------------------------------------------------------------
(***************************************************************************)
(* Correctness properties.                                                 *)
(***************************************************************************)
\* the slot of the i-th message
Slot(q, i) == LET s == rd_index[q] + i - 1
              IN  IF s >= item_count[q] THEN s - item_count[q] ELSE s

Content(q) == [i \in 1..msg_count[q] |-> data[q][Slot(q, i)]]

Fifo == INSTANCE BoundedFifo WITH
    Clients <- Tasks,
    size <- [q \in Queues |-> IF q \in pesudo_mq_list THEN item_count[q] ELSE 0],
    queue <- [q \in Queues |-> Content(q)],
    inbox <- msg

\* Called with interrupts masked, every queue is a bounded first-in first-out
\* queue for tasks and interrupts together, between any two steps of a call: what
\* is read is the oldest message, unchanged, and none is lost or read twice.
IsBoundedFifo == Fifo!Spec

\* pesudo_mq_is_full() may call a queue full that is not (a read leaves the flag),
\* but a queue that is full is never said to have room.
FullNeverMissed ==
    \A q \in pesudo_mq_list : Idle /\ msg_count[q] = item_count[q] => full[q]

\* When a queue has been through the deferred work, a message in it and a waiter
\* for it mean that some waiter is granted and will read in the coming pass.
MessagesReachWaiters ==
    \A q \in pesudo_mq_list :
        /\ pc = "drain" /\ Idle /\ q \in drained
        /\ opt[q] \in {"FIFO", "LIFO"}
        /\ msg_count[q] > late[q] /\ Waiters(q) # {}
        => \E t \in Waiters(q) : Granted(t)

\* A grant leads to a message unless another task has read or flushed the queue
\* after it, however many grants and messages are on their way: as nothing is
\* reserved, only the count stands for it.
GrantsAreBacked ==
    \A q \in pesudo_mq_list, t \in Tasks :
        Idle /\ t \in Waiters(q) /\ Granted(t) /\ t \notin robbed => msg_count[q] > 0

\* "int msg_count; the number of buffered messages".
CountIsBuffered == \A q \in pesudo_mq_list : Idle => msg_count[q] = buffered[q]
=============================================================================
