-------------------------- MODULE PesudoEventProofs --------------------------
(***************************************************************************)
(* Proofs about the PesudoOS events, for any number of tasks, events and   *)
(* bits, and interrupts anywhere.                                          *)
(***************************************************************************)
EXTENDS PesudoEvent, PesudoOSProofs

-----------------------------------------------------------------------------
(***************************************************************************)
(* The invariant.                                                          *)
(***************************************************************************)
BlockTypes == block_obj \in [Tasks -> Events \cup {NoObj}]

\* The types of the events.
EventTypes ==
    /\ pesudo_event_list \subseteq Events
    /\ opt \in [Events -> {"FIFO", "LIFO", "OTHER"}]
    /\ bits \in [Events -> Masks]
    /\ drained \subseteq Events
    /\ unseen \in [Events -> Masks]

\* The types of what a task waits for.
WaitTypes ==
    /\ wait_event_bits \in [Tasks -> Masks]
    /\ wait_event_flag \in [Tasks -> ValidFlags \cup {{}}]
    /\ wish \in [Tasks -> Masks]

\* The types of the history of the bits.
CountTypes ==
    /\ sent \in [Events -> [Bits -> Nat]]
    /\ consumed \in [Events -> [Bits -> Nat]]
    /\ isrSends \in [Events -> Nat]

\* The types of where the main level is.
RegTypes ==
    /\ op \in {"none", "send", "scan", "clear"}
    /\ on \in Events \cup {NoObj}
    /\ op # "none" => on \in pesudo_event_list
    /\ loaded \in Masks /\ use_bits \in Masks

\* Where the main level is while it is inside an event function.
PcOfOp ==
    /\ op = "send" => InTask
    /\ op \in {"scan", "clear"} => pc \in {"running", "drain"}

Blocked(t) == "BLOCKED_EVENT" \in state[t]

\* The bits are what task t may get: some of those it asks for, and all with AND.
Fits(t, mask) ==
    /\ mask # {}
    /\ mask \subseteq wait_event_bits[t]
    /\ "AND" \in wait_event_flag[t] => mask = wait_event_bits[t]

\* The waiters that a scan still has to look at, and its candidate, wait; with another
\* option than FIFO and LIFO there is no candidate; and the bits being cleared for a
\* waiter are ones it may get.
ScanInv ==
    /\ op \notin {"scan", "clear"} => left = {} /\ find_task = NoTask
    /\ \A t \in left : t \in Linked /\ Blocked(t)
    /\ find_task # NoTask => find_task \in Tasks /\ Blocked(find_task)
    /\ op \in {"scan", "clear"} /\ opt[on] = "OTHER" => find_task = NoTask
    /\ op = "clear" /\ (find_task # NoTask \/ left # {}) => Fits(Receiver, use_bits)

\* What a blocked task waits for, or was granted, is within what it asked for.
Wishes ==
    \A t \in Tasks : Blocked(t) =>
        /\ wait_event_bits[t] # {}
        /\ wait_event_bits[t] \subseteq wish[t]
        /\ "AND" \in wait_event_flag[t] => wait_event_bits[t] = wish[t]

EventInv ==
    /\ KernelInv
    /\ BlockTypes /\ EventTypes /\ WaitTypes /\ CountTypes /\ RegTypes
    /\ PcOfOp
    /\ ScanInv
    /\ Wishes

\* The invariant implies TypeOK.
LEMMA EventInvTypes == EventInv => TypeOK
<1> SUFFICES ASSUME EventInv PROVE TypeOK
  OBVIOUS
<1>1. left \subseteq Tasks /\ find_task \in Tasks \cup {NoTask}
  BY LinkedAreTasks DEF EventInv, ScanInv, KernelInv, KernelTypeOK
<1> QED BY <1>1 DEF EventInv, KernelInv, TypeOK, BlockTypes, EventTypes, WaitTypes, CountTypes,
                    RegTypes

\* A granted task is blocked, so the invariant implies GrantHonoursWish.
LEMMA EventInvWish == ASSUME EventAssumption, EventInv PROVE GrantHonoursWish
<1> SUFFICES ASSUME NEW t \in Tasks, Granted(t)
             PROVE  Blocked(t)
  BY DEF EventInv, Wishes, GrantHonoursWish
<1>1. CallKept(t) /\ "EVENT" \in Kinds
  BY DEF EventAssumption, EventInv, KernelInv, PendingCallKept, Kinds
<1> QED BY <1>1 DEF CallKept, GrantFlag, BlockedFlag, Granted, Blocked

\* The invariant holds before any event is created.
LEMMA InitEventInv ==
    ASSUME EventAssumption, TasksAssumption, Init
    PROVE  EventInv
<1> USE DEF Init
<1>1. KernelInv
  BY InitInv
<1>2. BlockTypes
  BY DEF KernelInit, BlockTypes
<1>3. EventTypes /\ WaitTypes /\ RegTypes
  BY DEF EventTypes, WaitTypes, RegTypes, Masks
<1>4. CountTypes
  BY DEF CountTypes, NoBits
<1>5. PcOfOp /\ ScanInv
  BY DEF PcOfOp, ScanInv
<1>6. Wishes
  BY DEF Wishes, Blocked, KernelInit
<1> QED BY <1>1, <1>2, <1>3, <1>4, <1>5, <1>6 DEF EventInv

\* The running task waits for no event, and has no grant of one.
LEMMA MeNotWaiting ==
    ASSUME EventAssumption, KernelInv, InTask
    PROVE  /\ Me \in Tasks /\ Me \in Linked
           /\ "RECV_EVENT" \notin state[Me] /\ "BLOCKED_EVENT" \notin state[Me]
           /\ block_obj[Me] = NoObj
<1>1. Me \notin Timers /\ Me \in Linked
  BY DEF EventAssumption, KernelInv, LoopOnLiveTasks, InTask, Me
<1>2. {"RECV_EVENT", "BLOCKED_EVENT"} \subseteq CallFlags
  BY DEF CallFlags, BlockingFlags, GrantFlags
<1> QED BY <1>1, <1>2, MeOutsideCalls

\* As long as waiters are left, there is a next one.
LEMMA NextWaiterWaits ==
    ASSUME EventInv, left # {}
    PROVE  NextWaiter \in left
<1>1. \A t \in left : t \in Linked /\ Pos(t) \in Nat
  BY PosInList, LenProperties DEF EventInv, ScanInv, KernelInv, KernelTypeOK
<1> DEFINE Places == {Pos(t) : t \in left}
<1>2. PICK i \in Places : \A j \in Places : i <= j
  <2>1. Places \in SUBSET Nat /\ Places # {}
    BY <1>1
  <2> QED BY <2>1, LeastExists
<1>3. \E t \in left : \A u \in left : Pos(t) <= Pos(u)
  BY <1>2
<1> QED BY <1>3 DEF NextWaiter

\* Whoever is served is a waiter, and so is the one the bits are cleared for.
LEMMA ServedWaits ==
    ASSUME EventInv
    PROVE  /\ left # {} => NextWaiter \in Tasks /\ Blocked(NextWaiter)
           /\ find_task # NoTask => find_task \in Tasks /\ Blocked(find_task)
           /\ find_task # NoTask \/ left # {} => Receiver \in Tasks /\ Blocked(Receiver)
<1>1. Linked \subseteq Tasks
  BY LinkedAreTasks DEF EventInv, KernelInv, KernelTypeOK
<1> QED BY <1>1, NextWaiterWaits DEF EventInv, ScanInv, Receiver

\* A waiter that the bits of an event satisfy may get those it asks for.
LEMMA SatisfiedFits ==
    ASSUME EventInv, NEW t \in Tasks, Blocked(t), op # "none", Satisfies(t)
    PROVE  Fits(t, bits[on] \cap wait_event_bits[t]) /\ bits[on] \cap wait_event_bits[t] \in Masks
<1>1. /\ wait_event_bits[t] \in Masks /\ wait_event_bits[t] # {} /\ bits[on] \in Masks
      /\ wait_event_flag[t] \in ValidFlags \cup {{}}
  BY DEF EventInv, WaitTypes, EventTypes, RegTypes, Wishes
<1>2. ~({"AND", "OR"} \subseteq wait_event_flag[t])
  BY <1>1 DEF ValidFlags
<1> QED BY <1>1, <1>2 DEF Satisfies, Satisfied, Fits, Masks

\* What a step of a scan does to the tasks: nothing, or it grants a waiter bits that it
\* may get.
GrantsFit ==
    \/ UNCHANGED <<kernelVars, waitVars>>
    \/ \E t \in Tasks, mask \in Masks : Blocked(t) /\ Fits(t, mask) /\ GrantTo(t, mask)

\* Every step of a scan is of that kind.
LEMMA ScanGrants ==
    ASSUME EventInv, Look \/ ScanEnds \/ ClearStore
    PROVE  GrantsFit
<1>1. ASSUME NEW t \in Tasks, Blocked(t), op # "none", Satisfies(t), Serve(t) PROVE GrantsFit
  BY <1>1, SatisfiedFits DEF Serve, GrantsFit
<1>2. CASE Look
  BY <1>1, <1>2, ServedWaits DEF Look, GrantsFit
<1>3. CASE ScanEnds
  BY <1>1, <1>3, ServedWaits DEF ScanEnds, GrantsFit
<1>4. CASE ClearStore
  <2>1. CASE find_task # NoTask \/ left # {}
    <3>1. GrantTo(Receiver, use_bits) /\ Fits(Receiver, use_bits)
      BY <1>4, <2>1 DEF ClearStore, ClearTo, EventInv, ScanInv
    <3>2. Receiver \in Tasks /\ Blocked(Receiver) /\ use_bits \in Masks
      BY <2>1, ServedWaits DEF EventInv, RegTypes
    <3> QED BY <3>1, <3>2 DEF GrantsFit
  <2>2. CASE ~(find_task # NoTask \/ left # {})
    BY <1>4, <2>2 DEF ClearStore, ClearTo, GrantsFit
  <2> QED BY <2>1, <2>2
<1> QED BY <1>2, <1>3, <1>4

-----------------------------------------------------------------------------
(***************************************************************************)
(* The parts of the invariant, one lemma each.                             *)
(***************************************************************************)

\* A grant is one the kernel allows for.
LEMMA GrantsKernel ==
    ASSUME EventInv, op # "none", op # "send", GrantsFit
    PROVE  KernelInv'
<1>0. KernelInv /\ pc # "resumed" /\ "EVENT" \in Kinds
  BY DEF EventInv, PcOfOp, RegTypes, Kinds
<1>1. CASE UNCHANGED kernelVars
  BY <1>0, <1>1, KernelStutterInv
<1>2. CASE ~UNCHANGED kernelVars
  <2>1. PICK w \in Tasks : Blocked(w) /\ \E mask \in Masks : GrantTo(w, mask)
    BY <1>2 DEF GrantsFit
  <2> DEFINE G == {w}
  <2>2. state' = [t \in Tasks |-> IF t \in G THEN state[t] \cup {GrantFlag("EVENT")} ELSE state[t]]
    BY <1>0, <2>1 DEF KernelInv, KernelTypeOK, GrantFlag, GrantTo
  <2>3. G \in SUBSET Tasks /\ \A t \in G : BlockedFlag("EVENT") \in state[t]
    BY <2>1 DEF BlockedFlag, Blocked
  <2>4. UNCHANGED <<now, list, objFields, runFields, loopVars>>
    BY <2>1 DEF GrantTo
  <2> HIDE DEF G
  <2> QED BY <1>0, <2>2, <2>3, <2>4, GrantAllInv
<1> QED BY <1>1, <1>2

\* The kernel's part of the steps of the events.
LEMMA NextKernelPart ==
    ASSUME EventAssumption, TasksAssumption, TimeAssumption, EventInv, [Next]_vars
    PROVE  KernelInv'
<1>0. KernelInv /\ RegTypes /\ "EVENT" \in Kinds /\ Events \subseteq Objects
  BY DEF EventInv, Kinds, EventAssumption
<1>1. CASE UNCHANGED kernelVars
  BY <1>0, <1>1, KernelStutterInv
<1>2. CASE KernelNext
  BY <1>0, <1>2, KernelNextInv
<1>3. CASE \E e \in Events, mask \in Masks, flag \in RecvFlags, ms \in Delays :
             ReceiveBlocks(e, mask, flag, ms)
  BY <1>0, <1>3, BlockInv DEF ReceiveBlocks
<1>4. CASE ReceiveReturns
  BY <1>0, <1>4, UnblockInv DEF ReceiveReturns
<1>5. CASE Look \/ ScanEnds \/ ClearStore
  <2>1. op # "none" /\ op # "send"
    BY <1>5 DEF Look, ScanEnds, ClearStore, ClearTo
  <2> QED BY <1>5, <2>1, ScanGrants, GrantsKernel
<1>6. CASE EventStep
  BY <1>1, <1>2, <1>4, <1>5, <1>6
     DEF EventStep, SendStore, DrainEnds, DrainEvent, KernelNext
<1>7. CASE EventCall
  BY <1>1, <1>3, <1>7
     DEF EventCall, SenderCall, ReceiverCall, pesudo_event_create, pesudo_event_delete,
         pesudo_event_set, SendLoad, ReceiveLoad
<1>8. CASE KernelStep \/ Interrupt \/ UNCHANGED vars
  BY <1>1, <1>2, <1>8 DEF KernelStep, KernelNext, Interrupt, IsrSend, vars
<1> QED BY <1>6, <1>7, <1>8 DEF Next

\* A resumed receiver is a task.
LEMMA ResumedIsTask ==
    ASSUME EventInv, Unblock("EVENT")
    PROVE  Me \in Tasks
  BY DEF EventInv, KernelInv, KernelTypeOK, Unblock, Resumed, Me

\* What the steps of the events do to block_obj.
LEMMA NextBlockPart ==
    ASSUME EventAssumption, EventInv, [Next]_vars
    PROVE  BlockTypes'
<1>0. BlockTypes /\ RegTypes
  BY DEF EventInv
<1> USE DEF objFields, kernelVars
<1>1. CASE KernelNext
  <2>1. \/ block_obj' = block_obj
        \/ \E t \in Tasks : block_obj' = [block_obj EXCEPT ![t] = NoObj]
    BY <1>1 DEF KernelNext, Tick, LoopStep, VisitNext, VisitDispatch, VisitWakeup, VisitGranted,
           VisitTimeout, VisitSkip, Resume, EndPass, LoopAstray, kernelVars, StartPass,
           HandlerReturns, TaskCall,
           pesudo_task_create, Allocate, pesudo_task_delete, pesudo_task_suspend,
           pesudo_task_resume, pesudo_task_sleep, pesudo_task_sleep_until, SleepFor,
           SleepUntilLate, DelayEnds, SleepTail
  <2> QED BY <1>0, <2>1 DEF BlockTypes
<1>2. CASE \E e \in Events, mask \in Masks, flag \in RecvFlags, ms \in Delays :
             ReceiveBlocks(e, mask, flag, ms)
  <2>1. PICK e \in Events : block_obj' = [block_obj EXCEPT ![Me] = e]
    BY <1>2 DEF ReceiveBlocks, Block
  <2> QED BY <1>0, <2>1 DEF BlockTypes
<1>3. CASE ReceiveReturns
  BY <1>0, <1>3 DEF ReceiveReturns, Unblock, BlockTypes
<1>4. CASE block_obj' = block_obj
  BY <1>0, <1>4 DEF BlockTypes
<1>5. CASE Look \/ ScanEnds \/ ClearStore
  BY <1>4, <1>5, ScanGrants DEF GrantsFit, GrantTo
<1>6. CASE EventStep
  BY <1>3, <1>4, <1>5, <1>6
     DEF EventStep, SendStore, DrainEnds, StartPass, DrainEvent
<1>7. CASE EventCall
  BY <1>2, <1>4, <1>7
     DEF EventCall, SenderCall, ReceiverCall, pesudo_event_create, pesudo_event_delete,
         pesudo_event_set, SendLoad, ReceiveLoad
<1>8. CASE KernelStep \/ Interrupt \/ UNCHANGED vars
  BY <1>1, <1>4, <1>8 DEF KernelStep, KernelNext, Interrupt, IsrSend, vars
<1> QED BY <1>6, <1>7, <1>8 DEF Next

\* What tasks wait for stays in its types.
LEMMA NextWaitTypes ==
    ASSUME EventAssumption, EventInv, [Next]_vars
    PROVE  WaitTypes'
<1>0. WaitTypes /\ \A flag : Normal(flag) \in ValidFlags
  BY DEF EventInv, Normal, ValidFlags
<1> USE <1>0 DEF WaitTypes, waitVars, histVars
<1>1. CASE UNCHANGED <<waitVars, wish>>
  BY <1>1
<1>2. CASE \E e \in Events, mask \in Masks, flag \in RecvFlags, ms \in Delays :
             ReceiveBlocks(e, mask, flag, ms)
  <2>1. PICK mask \in Masks, flag \in RecvFlags :
            /\ wait_event_bits' = [wait_event_bits EXCEPT ![Me] = mask]
            /\ wait_event_flag' = [wait_event_flag EXCEPT ![Me] = Normal(flag)]
            /\ wish' = [wish EXCEPT ![Me] = mask]
    BY <1>2 DEF ReceiveBlocks
  <2> QED BY <2>1
<1>3. CASE ReceiveReturns
  BY <1>3 DEF ReceiveReturns, Masks
<1>4. CASE Look \/ ScanEnds \/ ClearStore
  <2>1. wish' = wish
    BY <1>4 DEF Look, ScanEnds, ClearStore, ClearTo
  <2> QED BY <1>4, <2>1, ScanGrants DEF GrantsFit, GrantTo
<1>5. CASE EventStep
  BY <1>1, <1>3, <1>4, <1>5
     DEF EventStep, SendStore, DrainEnds, DrainEvent
<1>6. CASE EventCall
  BY <1>1, <1>2, <1>6
     DEF EventCall, SenderCall, ReceiverCall, pesudo_event_create, pesudo_event_delete,
         pesudo_event_set, SendLoad, ReceiveLoad
<1>7. CASE KernelStep \/ Interrupt \/ UNCHANGED vars
  BY <1>1, <1>7 DEF KernelStep, Interrupt, IsrSend, vars, eventVars
<1> QED BY <1>5, <1>6, <1>7 DEF Next

\* What a step of a scan does to the events and to where the main level is.
ScanMoves ==
    /\ UNCHANGED <<eventFields, drained, histVars>>
    /\ \/ op' = "none" /\ on' = NoObj /\ loaded' = {} /\ use_bits' = {}
       \/ op' = "scan" /\ UNCHANGED <<on, loaded, use_bits>>
       \/ /\ op' = "clear" /\ on' = on /\ loaded' = bits[on]
          /\ \E t \in Tasks : use_bits' = bits[on] \cap wait_event_bits[t]

\* The steps that look at waiters are of that kind.
LEMMA ScanMovesOn ==
    ASSUME EventInv, Look \/ ScanEnds
    PROVE  ScanMoves
<1>1. ASSUME NEW t \in Tasks, Serve(t), op = "scan", UNCHANGED <<eventFields, drained, histVars>>
      PROVE  ScanMoves
  BY <1>1 DEF Serve, ScanMoves
<1>2. CASE Look
  BY <1>1, <1>2, ServedWaits DEF Look, ScanMoves
<1>3. CASE ScanEnds
  BY <1>1, <1>3, ServedWaits DEF ScanEnds, ScanMoves, Done
<1> QED BY <1>2, <1>3

\* The events stay in their types.
LEMMA NextEventTypes ==
    ASSUME EventAssumption, EventInv, [Next]_vars
    PROVE  EventTypes'
<1>0. /\ EventTypes /\ loaded \in Masks /\ use_bits \in Masks
      /\ op # "none" => on \in Events
  BY DEF EventInv, EventTypes, RegTypes
<1>m. {} \in Masks /\ \A A, B \in Masks : A \cup B \in Masks /\ A \ B \in Masks
  BY DEF Masks
<1>s. bits \in [Events -> Masks] /\ unseen \in [Events -> Masks]
  BY <1>0 DEF EventTypes
<1> USE <1>0 DEF EventTypes
<1>1. CASE UNCHANGED <<eventFields, drained, unseen>>
  BY <1>1 DEF eventFields
<1>2. CASE SendStore
  <2>1. /\ bits' = [bits EXCEPT ![on] = loaded \cup use_bits]
        /\ unseen' = [unseen EXCEPT ![on] = {}] /\ on \in Events
        /\ UNCHANGED <<pesudo_event_list, opt, drained>>
    BY <1>2 DEF SendStore, BeginScan
  <2>2. loaded \cup use_bits \in Masks
    BY <1>m
  <2> QED BY <1>m, <2>1, <2>2
<1>3. CASE Look \/ ScanEnds
  BY <1>1, <1>3 DEF Look, ScanEnds, histVars
<1>4. CASE ClearStore
  <2>1. /\ bits' = [bits EXCEPT ![on] = loaded \ use_bits] /\ on \in Events
        /\ UNCHANGED <<pesudo_event_list, opt, drained, unseen>>
    BY <1>4 DEF ClearStore, ClearTo
  <2>2. loaded \ use_bits \in Masks
    BY <1>m
  <2> QED BY <2>1, <2>2
<1>5. CASE DrainEnds \/ \E e \in Events : DrainEvent(e)
  BY <1>5, <1>m DEF DrainEnds, DrainEvent, BeginScan, eventFields, histVars
<1>6. ASSUME NEW e \in Events, NEW mask \in Masks, pesudo_event_set(e, mask) \/ IsrSend(e, mask)
      PROVE  EventTypes'
  <2>1. /\ bits' = [bits EXCEPT ![e] = mask] \/ bits' = [bits EXCEPT ![e] = bits[e] \cup mask]
        /\ unseen' = [unseen EXCEPT ![e] = unseen[e] \cup mask]
        /\ UNCHANGED <<pesudo_event_list, opt, drained>>
    BY <1>6, <1>s DEF pesudo_event_set, IsrSend
  <2>2. bits[e] \cup mask \in Masks /\ unseen[e] \cup mask \in Masks
    BY <1>m, <1>s
  <2>3. bits' \in [Events -> Masks] /\ unseen' \in [Events -> Masks]
    <3>1. \A f \in [Events -> Masks], A \in Masks : [f EXCEPT ![e] = A] \in [Events -> Masks]
      OBVIOUS
    <3>2. bits' \in [Events -> Masks]
      BY ONLY <1>s, <2>1, <2>2, <3>1, mask \in Masks
    <3>3. unseen' \in [Events -> Masks]
      BY ONLY <1>s, <2>1, <2>2, <3>1
    <3> QED BY <3>2, <3>3
  <2> QED BY <2>1, <2>3
<1>7. ASSUME NEW e \in Events, NEW o \in Opts \cup {"FIFO"}, Fresh(e),
             opt' = [opt EXCEPT ![e] = o], drained' = drained,
             pesudo_event_list' \subseteq pesudo_event_list \cup {e}
      PROVE  EventTypes'
  BY <1>7, <1>m DEF Fresh, EventAssumption
<1>8. CASE EventStep
  BY <1>1, <1>2, <1>3, <1>4, <1>5, <1>8 DEF EventStep, ReceiveReturns
<1>9. CASE EventCall
  BY <1>1, <1>6, <1>7, <1>9
     DEF EventCall, SenderCall, ReceiverCall, pesudo_event_create, pesudo_event_delete, SendLoad,
         ReceiveLoad, ReceiveBlocks, histVars
<1>10. CASE KernelStep \/ Interrupt \/ UNCHANGED vars
  BY <1>1, <1>6, <1>10 DEF KernelStep, Interrupt, vars, eventVars, histVars
<1> QED BY <1>8, <1>9, <1>10 DEF Next

\* Where the main level is stays in its types.
LEMMA NextRegTypes ==
    ASSUME EventAssumption, EventInv, [Next]_vars
    PROVE  RegTypes'
<1>0. /\ RegTypes /\ pesudo_event_list \subseteq Events /\ bits \in [Events -> Masks]
      /\ wait_event_bits \in [Tasks -> Masks]
  BY DEF EventInv, EventTypes, WaitTypes
<1>m. {} \in Masks /\ \A A, B \in Masks : A \cap B \in Masks
  BY DEF Masks
<1> USE <1>0 DEF RegTypes
<1>1. CASE UNCHANGED regVars /\ (op = "none" \/ pesudo_event_list' = pesudo_event_list)
  BY <1>1 DEF regVars
<1>2. CASE op' = "none" /\ on' = NoObj /\ loaded' = {} /\ use_bits' = {}
  BY <1>2, <1>m
<1>3. ASSUME NEW e \in pesudo_event_list, BeginScan(e), pesudo_event_list' = pesudo_event_list
      PROVE  RegTypes'
  BY <1>3, <1>m DEF BeginScan
<1>4. CASE Look \/ ScanEnds
  <2>1. /\ pesudo_event_list' = pesudo_event_list /\ op = "scan"
        /\ op' # "none" => on' = on
        /\ \/ loaded' = {} /\ use_bits' = {} /\ on' = NoObj /\ op' = "none"
           \/ op' = "scan" /\ UNCHANGED <<on, loaded, use_bits>>
           \/ /\ op' = "clear" /\ loaded' = bits[on] /\ on' = on
              /\ \E t \in Tasks : use_bits' = bits[on] \cap wait_event_bits[t]
    BY <1>4, ScanMovesOn DEF ScanMoves, eventFields, Look, ScanEnds
  <2>2. bits[on] \in Masks /\ \A t \in Tasks : bits[on] \cap wait_event_bits[t] \in Masks
    BY <1>m, <2>1
  <2> QED BY <1>m, <2>1, <2>2
<1>5. CASE ClearStore
  <2>1. /\ pesudo_event_list' = pesudo_event_list /\ op = "clear"
        /\ loaded' = {} /\ use_bits' = {}
        /\ (op' = "scan" /\ on' = on) \/ (op' = "none" /\ on' = NoObj)
    BY <1>5 DEF ClearStore, ClearTo, Done
  <2> QED BY <1>m, <2>1
<1>6. CASE EventStep
  <2>1. CASE SendStore
    <3>1. on \in pesudo_event_list
      BY <2>1 DEF SendStore
    <3> QED BY <1>3, <2>1, <3>1 DEF SendStore
  <2>2. CASE \E e \in Events : DrainEvent(e)
    BY <1>1, <1>3, <2>2 DEF DrainEvent, eventFields
  <2>3. CASE ReceiveReturns \/ DrainEnds
    BY <1>1, <2>3 DEF ReceiveReturns, DrainEnds, eventFields
  <2> QED BY <1>4, <1>5, <1>6, <2>1, <2>2, <2>3 DEF EventStep
<1>7. ASSUME NEW e \in Events, NEW mask \in Masks, NEW flag,
             SendLoad(e, mask) \/ ReceiveLoad(e, mask, flag)
      PROVE  RegTypes'
  <2>1. /\ pesudo_event_list' = pesudo_event_list /\ on' = e /\ e \in pesudo_event_list
        /\ op' \in {"send", "clear"} /\ loaded' = bits[e]
        /\ use_bits' = mask \/ use_bits' = bits[e] \cap mask
    BY <1>7 DEF SendLoad, ReceiveLoad, eventFields
  <2> QED BY <1>m, <2>1
<1>8. CASE EventCall
  BY <1>1, <1>7, <1>8
     DEF EventCall, SenderCall, ReceiverCall, pesudo_event_create, pesudo_event_delete,
         pesudo_event_set, ReceiveBlocks, Idle, eventFields
<1>9. CASE KernelStep \/ Interrupt \/ UNCHANGED vars
  BY <1>1, <1>9 DEF KernelStep, Interrupt, IsrSend, vars, eventVars, eventFields
<1> QED BY <1>6, <1>8, <1>9 DEF Next

\* Counting the bits of a mask.
LEMMA PlusType ==
    ASSUME NEW f \in [Events -> [Bits -> Nat]], NEW e \in Events, NEW mask
    PROVE  /\ Plus(f, e, mask) \in [Events -> [Bits -> Nat]]
           /\ \A d \in Events : d # e => Plus(f, e, mask)[d] = f[d]
           /\ \A b \in Bits : Plus(f, e, mask)[e][b] = IF b \in mask THEN f[e][b] + 1 ELSE f[e][b]
<1> DEFINE g == [b \in Bits |-> IF b \in mask THEN f[e][b] + 1 ELSE f[e][b]]
<1>1. g \in [Bits -> Nat] /\ f[e] \in [Bits -> Nat]
  OBVIOUS
<1>2. Plus(f, e, mask) = [f EXCEPT ![e] = g]
  BY DEF Plus
<1>3. \A b \in Bits : g[b] = IF b \in mask THEN f[e][b] + 1 ELSE f[e][b]
  OBVIOUS
<1> HIDE DEF g
<1> QED BY <1>1, <1>2, <1>3

\* The history of the bits stays in its types.
LEMMA NextCountTypes ==
    ASSUME EventAssumption, EventInv, [Next]_vars
    PROVE  CountTypes'
<1>0. /\ CountTypes /\ NoBits \in [Bits -> Nat]
      /\ op # "none" => on \in Events
  BY DEF EventInv, EventTypes, RegTypes, NoBits
<1> USE <1>0 DEF CountTypes, histVars
<1>1. CASE UNCHANGED <<sent, consumed, isrSends>>
  BY <1>1
<1>2. CASE SendStore
  <2>1. sent' = Plus(sent, on, use_bits) /\ UNCHANGED <<consumed, isrSends>> /\ on \in Events
    BY <1>2 DEF SendStore
  <2> QED BY <2>1, PlusType
<1>3. CASE Look \/ ScanEnds \/ DrainEnds \/ ReceiveReturns \/ \E e \in Events : DrainEvent(e)
  BY <1>1, <1>3 DEF Look, ScanEnds, DrainEnds, ReceiveReturns, DrainEvent
<1>4. CASE ClearStore
  <2>1. consumed' = Plus(consumed, on, use_bits) /\ UNCHANGED <<sent, isrSends>> /\ on \in Events
    BY <1>4 DEF ClearStore, ClearTo
  <2> QED BY <2>1, PlusType
<1>5. ASSUME NEW e \in Events, NEW mask \in Masks, pesudo_event_set(e, mask) \/ IsrSend(e, mask)
      PROVE  CountTypes'
  <2>1. sent' = Plus(sent, e, mask) /\ consumed' = consumed
        /\ (isrSends' = isrSends \/ isrSends' = [isrSends EXCEPT ![e] = @ + 1])
    BY <1>5 DEF pesudo_event_set, IsrSend
  <2>2. sent' \in [Events -> [Bits -> Nat]]
    BY <2>1, PlusType
  <2>3. isrSends' \in [Events -> Nat]
    BY <2>1
  <2> QED BY <2>1, <2>2, <2>3
<1>6. ASSUME NEW e \in Events, Fresh(e)
      PROVE  CountTypes'
  BY <1>6 DEF Fresh
<1>7. CASE EventStep
  BY <1>2, <1>3, <1>4, <1>7 DEF EventStep
<1>8. CASE EventCall
  BY <1>1, <1>5, <1>6, <1>8
     DEF EventCall, SenderCall, ReceiverCall, pesudo_event_create, pesudo_event_delete,
         SendLoad, ReceiveLoad, ReceiveBlocks
<1>9. CASE KernelStep \/ Interrupt \/ UNCHANGED vars
  BY <1>1, <1>5, <1>9 DEF KernelStep, Interrupt, vars, eventVars
<1> QED BY <1>7, <1>8, <1>9 DEF Next

\* The place of the main level in the loop while it is inside an event function.
LEMMA NextPcPart ==
    ASSUME EventAssumption, EventInv, [Next]_vars
    PROVE  PcOfOp'
<1>0. PcOfOp
  BY DEF EventInv
<1> USE <1>0 DEF PcOfOp, InTask, Done, Idle, loopVars, kernelVars, regVars
<1>1. CASE UNCHANGED <<op, pc>> \/ op' = "none"
  BY <1>1
<1>2. CASE SendStore
  BY <1>2 DEF SendStore, BeginScan
<1>3. CASE Look \/ ScanEnds
  <2>1. pc' = pc
    BY <1>3, ScanGrants DEF GrantsFit, GrantTo
  <2>2. op = "scan" /\ op' \in {"none", "scan", "clear"}
    BY <1>3 DEF Look, ScanEnds, Serve
  <2> QED BY <2>1, <2>2
<1>4. CASE ClearStore
  BY <1>4 DEF ClearStore, ClearTo, GrantTo
<1>5. CASE \E e \in Events : DrainEvent(e)
  BY <1>5 DEF DrainEvent, BeginScan
<1>6. CASE ReceiveReturns
  BY <1>6 DEF ReceiveReturns, Unblock, LeaveCall
<1>7. CASE DrainEnds
  BY <1>7 DEF DrainEnds
<1>8. CASE EventStep
  BY <1>2, <1>3, <1>4, <1>5, <1>6, <1>7, <1>8 DEF EventStep
<1>9. CASE EventCall
  BY <1>1, <1>9
     DEF EventCall, SenderCall, ReceiverCall, pesudo_event_create, pesudo_event_delete,
         pesudo_event_set, SendLoad, ReceiveLoad, ReceiveBlocks
<1>10. CASE KernelStep \/ Interrupt \/ UNCHANGED vars
  BY <1>1, <1>10 DEF KernelStep, Interrupt, Tick, IsrSend, vars, eventVars
<1> QED BY <1>8, <1>9, <1>10 DEF Next

\* While no waiter is looked at, ScanInv holds.
LEMMA ScanEmpty ==
    ASSUME left' = {}, find_task' = NoTask
    PROVE  ScanInv'
  BY DEF ScanInv

\* Outside a scan no waiter is looked at.
LEMMA NothingLeft ==
    ASSUME EventInv, op \notin {"scan", "clear"}
    PROVE  left = {} /\ find_task = NoTask
  BY DEF EventInv, ScanInv

\* A step that leaves the scan alone preserves ScanInv, an interrupt's for instance.
LEMMA ScanKept ==
    ASSUME EventInv, UNCHANGED <<list, state, waitVars, regVars, opt>>
    PROVE  ScanInv'
<1>1. Receiver' = Receiver /\ \A t, mask : Fits(t, mask)' <=> Fits(t, mask)
  BY DEF Receiver, NextWaiter, Pos, Fits, waitVars, regVars
<1> QED BY <1>1 DEF EventInv, ScanInv, waitVars, regVars, Blocked, Linked

\* So does a step of a scan to the next waiter.
LEMMA ScanGoesOn ==
    ASSUME EventInv, op' = "scan", list' = list,
           \A t \in Tasks : Blocked(t) => Blocked(t)',
           left' \subseteq left,
           \/ find_task' = NoTask
           \/ find_task' \in left \cup {find_task} /\ opt'[on'] # "OTHER"
    PROVE  ScanInv'
<1>1. left \subseteq Tasks /\ Linked' = Linked
  BY LinkedAreTasks DEF EventInv, ScanInv, KernelInv, KernelTypeOK, Linked
<1> QED BY <1>1 DEF EventInv, ScanInv

\* What set_usage() does with waiter t preserves ScanInv.
LEMMA ServeKeepsScan ==
    ASSUME EventInv, op = "scan", NEW t \in Tasks, Blocked(t), Satisfies(t), Serve(t), opt' = opt,
           \/ find_task # NoTask /\ t = find_task
           \/ find_task = NoTask /\ left # {} /\ t = NextWaiter
    PROVE  ScanInv'
<1>1. CASE "CLEAR" \in wait_event_flag[t]
  <2>1. /\ op' = "clear" /\ use_bits' = bits[on] \cap wait_event_bits[t]
        /\ UNCHANGED <<list, state, waitVars, on, left, find_task>>
    BY <1>1 DEF Serve, kernelVars
  <2>2. Receiver' = Receiver
    BY <2>1 DEF Receiver, NextWaiter, Pos
  <2>3. find_task # NoTask \/ left # {} => Receiver = t
    BY DEF Receiver
  <2>4. Fits(t, use_bits')
    BY <2>1, SatisfiedFits
  <2>5. find_task # NoTask \/ left # {} => Fits(Receiver, use_bits)'
    BY <2>1, <2>2, <2>3, <2>4 DEF Fits, waitVars
  <2> QED BY <2>1, <2>5 DEF EventInv, ScanInv, Blocked, Linked
<1>2. CASE "CLEAR" \notin wait_event_flag[t]
  <2>1. /\ op' = "scan" /\ list' = list /\ left' = OthersLeft /\ find_task' = NoTask
        /\ state' = [state EXCEPT ![t] = @ \cup {"RECV_EVENT"}]
    BY <1>2 DEF Serve, GrantTo
  <2>2. \A u \in Tasks : Blocked(u) => Blocked(u)'
    BY <2>1 DEF Blocked, EventInv, KernelInv, KernelTypeOK
  <2> QED BY <2>1, <2>2, ScanGoesOn DEF OthersLeft
<1> QED BY <1>1, <1>2

\* The steps of the main level inside an event function preserve ScanInv.
LEMMA MainLevelScan ==
    ASSUME EventInv, Look \/ ScanEnds \/ ClearStore
    PROVE  ScanInv'
<1>0. KernelInv /\ ScanInv /\ state \in [Tasks -> SUBSET Flags] /\ OthersLeft \subseteq left
  BY DEF EventInv, KernelInv, KernelTypeOK, OthersLeft
<1>1. CASE Look
  <2>1. op = "scan" /\ left # {} /\ opt' = opt /\ NextWaiter \in left
    BY <1>1, NextWaiterWaits DEF Look, eventFields
  <2>2. CASE Satisfies(NextWaiter) /\ opt[on] = "OTHER"
    <3>1. Serve(NextWaiter)
      BY <1>1, <2>2 DEF Look
    <3>2. find_task = NoTask
      BY <1>0, <2>1, <2>2 DEF ScanInv
    <3> QED BY <2>1, <2>2, <3>1, <3>2, ServedWaits, ServeKeepsScan
  <2>3. CASE ~(Satisfies(NextWaiter) /\ opt[on] = "OTHER")
    <3>1. /\ find_task' = IF Satisfies(NextWaiter) /\ Keep(NextWaiter) THEN NextWaiter ELSE find_task
          /\ left' = OthersLeft /\ op' = "scan" /\ on' = on
          /\ UNCHANGED <<list, state>>
      BY <1>1, <2>1, <2>3 DEF Look, kernelVars
    <3>2. \A t \in Tasks : Blocked(t) => Blocked(t)'
      BY <3>1 DEF Blocked
    <3>3. \/ find_task' = NoTask
          \/ find_task' \in left \cup {find_task} /\ opt'[on'] # "OTHER"
      BY <1>0, <2>1, <2>3, <3>1 DEF ScanInv
    <3> QED BY <1>0, <3>1, <3>2, <3>3, ScanGoesOn
  <2> QED BY <2>2, <2>3
<1>2. CASE ScanEnds
  <2>1. CASE find_task # NoTask /\ Satisfies(find_task)
    <3>1. op = "scan" /\ opt' = opt /\ Serve(find_task)
      BY <1>2, <2>1 DEF ScanEnds, eventFields
    <3> QED BY <2>1, <3>1, ServedWaits, ServeKeepsScan
  <2>2. CASE ~(find_task # NoTask /\ Satisfies(find_task))
    BY <1>2, <2>2, ScanEmpty DEF ScanEnds, Done
  <2> QED BY <2>1, <2>2
<1>3. CASE ClearStore
  <2>1. CASE find_task # NoTask \/ left # {}
    <3>1. /\ op' = "scan" /\ list' = list /\ left' = OthersLeft /\ find_task' = NoTask
          /\ state' = [state EXCEPT ![Receiver] = @ \cup {"RECV_EVENT"}]
      BY <1>3, <2>1 DEF ClearStore, ClearTo, GrantTo
    <3>2. \A u \in Tasks : Blocked(u) => Blocked(u)'
      BY <1>0, <3>1 DEF Blocked
    <3> QED BY <1>0, <3>1, <3>2, ScanGoesOn
  <2>2. CASE ~(find_task # NoTask \/ left # {})
    BY <1>3, <2>2, ScanEmpty DEF ClearStore, ClearTo, Done
  <2> QED BY <2>1, <2>2
<1> QED BY <1>1, <1>2, <1>3

\* A scan begins with the waiters of the event.
LEMMA BeginKeepsScan ==
    ASSUME EventInv, NEW e \in Events, BeginScan(e), UNCHANGED <<list, state>>
    PROVE  ScanInv'
  BY DEF BeginScan, ScanInv, Waiting, Blocked, BlockedFlag, Linked

\* Every step preserves ScanInv.
LEMMA NextScanInv ==
    ASSUME EventInv, [Next]_vars
    PROVE  ScanInv'
<1> USE DEF Idle, regVars
<1>1. CASE op = "none" /\ UNCHANGED regVars
  BY <1>1, NothingLeft, ScanEmpty
<1>2. CASE EventStep
  <2>1. CASE SendStore
    <3>1. PICK e \in Events : e = on
      BY <2>1 DEF SendStore, EventInv, RegTypes, EventTypes
    <3> QED BY <2>1, <3>1, BeginKeepsScan DEF SendStore, kernelVars
  <2>2. CASE \E e \in Events : DrainEvent(e)
    BY <1>1, <2>2, BeginKeepsScan DEF DrainEvent, kernelVars
  <2>3. CASE DrainEnds
    BY <1>1, <2>3 DEF DrainEnds
  <2>4. CASE ReceiveReturns
    <3>1. op = "none"
      BY <2>4 DEF ReceiveReturns, Unblock, Resumed, EventInv, PcOfOp, RegTypes, InTask
    <3> QED BY <1>1, <2>4, <3>1 DEF ReceiveReturns
  <2> QED BY <1>2, <2>1, <2>2, <2>3, <2>4, MainLevelScan DEF EventStep
<1>3. ASSUME NEW e \in Events, NEW mask, NEW flag, SendLoad(e, mask) \/ ReceiveLoad(e, mask, flag)
      PROVE  ScanInv'
  BY <1>3, NothingLeft, ScanEmpty DEF SendLoad, ReceiveLoad
<1>4. CASE EventCall
  BY <1>1, <1>3, <1>4
     DEF EventCall, SenderCall, ReceiverCall, pesudo_event_create, pesudo_event_delete,
         pesudo_event_set, ReceiveBlocks
<1>5. CASE KernelStep
  BY <1>1, <1>5 DEF KernelStep, eventVars
<1>6. CASE Interrupt \/ UNCHANGED vars
  BY <1>6, ScanKept DEF Interrupt, Tick, IsrSend, vars, eventVars, kernelVars, eventFields
<1> QED BY <1>2, <1>4, <1>5, <1>6 DEF Next

\* Every step preserves Wishes.
LEMMA NextWishes ==
    ASSUME EventAssumption, EventInv, [Next]_vars
    PROVE  Wishes'
<1>0. /\ Wishes /\ WaitTypes /\ KernelInv /\ state \in [Tasks -> SUBSET Flags]
  BY DEF EventInv, KernelInv, KernelTypeOK
<1>1. ASSUME UNCHANGED <<waitVars, wish>>, \A t \in Tasks : Blocked(t)' => Blocked(t)
      PROVE  Wishes'
  BY <1>0, <1>1 DEF Wishes, waitVars
<1>2. CASE KernelNext /\ UNCHANGED <<waitVars, wish>>
  <2>1. "BLOCKED_EVENT" \in (BlockingFlags \cup GrantFlags) \ {"SLEEP"}
    BY DEF BlockingFlags
  <2>2. \A t \in Tasks : Blocked(t)' => Blocked(t)
    BY <1>0, <1>2, <2>1, KernelFlags DEF Blocked
  <2> QED BY <1>1, <1>2, <2>2
<1>3. CASE Look \/ ScanEnds \/ ClearStore
  <2>1. wish' = wish
    BY <1>3 DEF Look, ScanEnds, ClearStore, ClearTo, histVars
  <2>2. CASE UNCHANGED <<kernelVars, waitVars>>
    BY <1>1, <2>1, <2>2 DEF Blocked, kernelVars
  <2>3. CASE \E t \in Tasks, mask \in Masks : Blocked(t) /\ Fits(t, mask) /\ GrantTo(t, mask)
    <3>1. PICK w \in Tasks, mask \in Masks : Blocked(w) /\ Fits(w, mask) /\ GrantTo(w, mask)
      BY <2>3
    <3>2. /\ state' = [state EXCEPT ![w] = @ \cup {"RECV_EVENT"}]
          /\ wait_event_bits' = [wait_event_bits EXCEPT ![w] = mask]
          /\ wait_event_flag' = wait_event_flag
      BY <3>1 DEF GrantTo
    <3>3. ASSUME NEW t \in Tasks, Blocked(t)'
          PROVE  /\ wait_event_bits'[t] # {}
                 /\ wait_event_bits'[t] \subseteq wish[t]
                 /\ "AND" \in wait_event_flag[t] => wait_event_bits'[t] = wish[t]
      <4>1. Blocked(t)
        BY <1>0, <3>2, <3>3 DEF Blocked
      <4>2. /\ wait_event_bits[t] \subseteq wish[t] /\ wait_event_bits[t] # {}
            /\ "AND" \in wait_event_flag[t] => wait_event_bits[t] = wish[t]
        BY <1>0, <4>1 DEF Wishes
      <4>3. CASE t = w
        <5>1. wait_event_bits'[t] = mask
          BY <1>0, <3>2, <4>3 DEF WaitTypes
        <5> QED BY <3>1, <4>2, <4>3, <5>1 DEF Fits
      <4>4. CASE t # w
        BY <1>0, <3>2, <4>2, <4>4 DEF WaitTypes
      <4> QED BY <4>3, <4>4
    <3> QED BY <2>1, <3>2, <3>3 DEF Wishes
  <2> QED BY <1>3, <2>2, <2>3, ScanGrants DEF GrantsFit
<1>4. CASE ReceiveReturns
  <2>1. /\ Me \in Tasks
        /\ state' = [state EXCEPT ![Me] = (@ \ {"BLOCKED_EVENT", "RECV_EVENT"}) \cup {"RUNNING"}]
        /\ wait_event_bits' = [wait_event_bits EXCEPT ![Me] = {}]
        /\ wait_event_flag' = [wait_event_flag EXCEPT ![Me] = {}]
        /\ wish' = [wish EXCEPT ![Me] = {}]
    BY <1>4, ResumedIsTask DEF ReceiveReturns, Unblock, LeaveCall, BlockedFlag, GrantFlag
  <2>2. ASSUME NEW t \in Tasks, Blocked(t)'
        PROVE  t # Me /\ Blocked(t)
    BY <1>0, <2>1, <2>2 DEF Blocked
  <2> QED BY <1>0, <2>1, <2>2 DEF Wishes, WaitTypes
<1>5. ASSUME NEW e \in Events, NEW mask \in Masks \ {{}}, NEW flag \in RecvFlags, NEW ms \in Delays,
             ReceiveBlocks(e, mask, flag, ms)
      PROVE  Wishes'
  <2>1. /\ Me \in Tasks
        /\ state' = [state EXCEPT ![Me] = (@ \ {"RUNNING"}) \cup {"BLOCKED_EVENT"}]
        /\ wait_event_bits' = [wait_event_bits EXCEPT ![Me] = mask]
        /\ wait_event_flag' = [wait_event_flag EXCEPT ![Me] = Normal(flag)]
        /\ wish' = [wish EXCEPT ![Me] = mask]
    BY <1>0, <1>5, MeNotWaiting DEF ReceiveBlocks, Block, MayBlock, SaveContext, BlockedFlag
  <2>2. ASSUME NEW t \in Tasks, Blocked(t)', t # Me
        PROVE  Blocked(t)
    BY <1>0, <2>1, <2>2 DEF Blocked
  <2> QED BY <1>0, <2>1, <2>2 DEF Wishes, WaitTypes
<1>6. CASE UNCHANGED <<state, waitVars, wish>>
  BY <1>1, <1>6 DEF Blocked
<1>7. CASE EventStep
  BY <1>2, <1>3, <1>4, <1>6, <1>7
     DEF EventStep, SendStore, DrainEnds, DrainEvent, KernelNext, kernelVars, histVars
<1>8. CASE EventCall
  BY <1>5, <1>6, <1>8
     DEF EventCall, SenderCall, ReceiverCall, pesudo_event_create, pesudo_event_delete,
         pesudo_event_set, SendLoad, ReceiveLoad, kernelVars, histVars
<1>9. CASE KernelStep \/ Interrupt \/ UNCHANGED vars
  BY <1>2, <1>6, <1>9
     DEF KernelStep, KernelNext, Interrupt, IsrSend, vars, eventVars, kernelVars, histVars
<1> QED BY <1>7, <1>8, <1>9 DEF Next

\* EventInv is an invariant.
LEMMA EventInvAlways == Spec => []EventInv
<1>1. Init => EventInv
  BY EventAssumption, TasksAssumption, InitEventInv
<1>2. EventInv /\ [Next]_vars => EventInv'
  <2> SUFFICES ASSUME EventInv, [Next]_vars PROVE EventInv'
    OBVIOUS
  <2>1. KernelInv' /\ BlockTypes' /\ EventTypes' /\ WaitTypes' /\ CountTypes' /\ RegTypes'
    BY EventAssumption, TasksAssumption, TimeAssumption, NextKernelPart, NextBlockPart,
       NextEventTypes, NextWaitTypes, NextCountTypes, NextRegTypes
  <2>2. PcOfOp' /\ ScanInv' /\ Wishes'
    BY EventAssumption, NextPcPart, NextScanInv, NextWishes
  <2> QED BY <2>1, <2>2 DEF EventInv
<1> QED BY <1>1, <1>2, PTL DEF Spec

\* The variables of the kernel and of the events stay in their types: every function is
\* inside an event that exists, and looks at tasks.
THEOREM EventTypeOK == Spec => []TypeOK
BY EventInvAlways, EventInvTypes, PTL

\* Whatever a receiver is granted, and however often its wait_event_bits are written
\* again before it runs, is within what it asked for, not empty, and all of it with AND.
THEOREM GrantsHonourWishes == Spec => []GrantHonoursWish
<1>1. EventInv => GrantHonoursWish
  BY EventAssumption, EventInvWish
<1> QED BY <1>1, EventInvAlways, PTL

-----------------------------------------------------------------------------
(***************************************************************************)
(* One occurrence of a bit is cleared once.                                *)
(***************************************************************************)
Present(e, b) == IF b \in bits[e] THEN 1 ELSE 0

\* ClearedOnce for one bit, and what holds between the load and the store of the bits,
\* when an interrupt may already have added some: a bit that was loaded is still owed.
OnceOf(e, b) ==
    /\ consumed[e][b] + Present(e, b) <= sent[e][b]
    /\ on = e /\ op \in {"send", "clear"} /\ b \in loaded => consumed[e][b] + 1 <= sent[e][b]

Once == \A e \in pesudo_event_list, b \in Bits : OnceOf(e, b)

ClearsLoaded == op = "clear" => use_bits \subseteq loaded

OnceInv == Once /\ ClearsLoaded

\* The account of event d, taken apart.
LEMMA Account ==
    ASSUME EventInv, OnceInv, NEW e \in pesudo_event_list, NEW b \in Bits
    PROVE  /\ sent \in [Events -> [Bits -> Nat]] /\ consumed \in [Events -> [Bits -> Nat]]
           /\ bits \in [Events -> Masks] /\ e \in Events
           /\ sent[e][b] \in Nat /\ consumed[e][b] \in Nat
           /\ consumed[e][b] <= sent[e][b]
           /\ b \in bits[e] => consumed[e][b] + 1 <= sent[e][b]
           /\ on = e /\ op \in {"send", "clear"} /\ b \in loaded => consumed[e][b] + 1 <= sent[e][b]
<1>0. /\ sent \in [Events -> [Bits -> Nat]] /\ consumed \in [Events -> [Bits -> Nat]]
      /\ bits \in [Events -> Masks] /\ e \in Events /\ OnceOf(e, b)
  BY DEF EventInv, CountTypes, EventTypes, OnceInv, Once
<1>1. sent[e][b] \in Nat /\ consumed[e][b] \in Nat
  BY <1>0
<1> QED BY <1>0, <1>1 DEF OnceOf, Present

\* The other events' accounts stay as they are.
LEMMA OthersOnce ==
    ASSUME EventInv, OnceInv, NEW e \in pesudo_event_list, NEW b \in Bits,
           bits'[e] = bits[e], sent'[e] = sent[e], consumed'[e] = consumed[e],
           \/ UNCHANGED <<op, on, loaded>>
           \/ op' \in {"scan", "none"}
    PROVE  OnceOf(e, b)'
<1>1. OnceOf(e, b)
  BY DEF OnceInv, Once
<1> QED BY <1>1 DEF OnceOf, Present

\* A bit that is put into event d counts once more.
LEMMA SentOnce ==
    ASSUME EventInv, OnceInv, NEW e \in pesudo_event_list, NEW b \in Bits,
           NEW d \in pesudo_event_list, NEW mask \in Masks, NEW new \in Masks,
           bits' = [bits EXCEPT ![d] = new],
           sent' = Plus(sent, d, mask), consumed' = consumed,
           \A c \in new : c \in mask \/ c \in bits[d] \/ (on = d /\ op = "send" /\ c \in loaded),
           UNCHANGED <<op, on, loaded>> \/ op' = "scan"
    PROVE  OnceOf(e, b)'
<1>0. sent \in [Events -> [Bits -> Nat]] /\ bits \in [Events -> Masks] /\ d \in Events /\ e \in Events
  BY Account DEF EventInv, EventTypes
<1>1. CASE e # d
  <2>1. sent'[e] = sent[e] /\ bits'[e] = bits[e]
    BY <1>0, <1>1, PlusType
  <2> QED BY <2>1, OthersOnce
<1>2. CASE e = d
  <2>1. /\ sent'[e][b] = IF b \in mask THEN sent[e][b] + 1 ELSE sent[e][b]
        /\ consumed'[e][b] = consumed[e][b] /\ bits'[e] = new
    BY <1>0, <1>2, PlusType
  <2>2. /\ sent[e][b] \in Nat /\ consumed[e][b] \in Nat /\ consumed[e][b] <= sent[e][b]
        /\ on = e /\ op \in {"send", "clear"} /\ b \in loaded => consumed[e][b] + 1 <= sent[e][b]
    BY Account
  <2>3. b \in new => b \in mask \/ consumed[e][b] + 1 <= sent[e][b]
    BY <1>2, Account
  <2>4. UNCHANGED <<op, on, loaded>> \/ op' = "scan"
    OBVIOUS
  <2> QED BY ONLY <2>1, <2>2, <2>3, <2>4 DEF OnceOf, Present
<1> QED BY <1>1, <1>2

\* A bit that is cleared in event d was loaded, and is consumed once.
LEMMA ConsumedOnce ==
    ASSUME EventInv, OnceInv, NEW e \in pesudo_event_list, NEW b \in Bits,
           NEW d \in pesudo_event_list, on = d, op = "clear", op' \in {"scan", "none"},
           bits' = [bits EXCEPT ![d] = loaded \ use_bits],
           consumed' = Plus(consumed, d, use_bits), sent' = sent
    PROVE  OnceOf(e, b)'
<1>0. /\ consumed \in [Events -> [Bits -> Nat]] /\ bits \in [Events -> Masks]
      /\ d \in Events /\ e \in Events
  BY Account DEF EventInv, EventTypes
<1>1. CASE e # d
  <2>1. consumed'[e] = consumed[e] /\ bits'[e] = bits[e]
    BY <1>0, <1>1, PlusType
  <2> QED BY <2>1, OthersOnce
<1>2. CASE e = d
  <2>1. /\ consumed'[e][b] = IF b \in use_bits THEN consumed[e][b] + 1 ELSE consumed[e][b]
        /\ sent'[e][b] = sent[e][b] /\ bits'[e] = loaded \ use_bits /\ op' \in {"scan", "none"}
    BY <1>0, <1>2, PlusType
  <2>2. /\ sent[e][b] \in Nat /\ consumed[e][b] \in Nat /\ consumed[e][b] <= sent[e][b]
        /\ b \in loaded => consumed[e][b] + 1 <= sent[e][b]
    BY <1>2, Account
  <2>3. b \in use_bits => b \in loaded
    BY DEF OnceInv, ClearsLoaded
  <2> QED BY ONLY <2>1, <2>2, <2>3 DEF OnceOf, Present
<1> QED BY <1>1, <1>2

\* A step that stores no bits keeps the account, if it loads at most the bits there are.
LEMMA LoadOnce ==
    ASSUME EventInv, OnceInv, UNCHANGED <<pesudo_event_list, bits, sent, consumed>>,
           \/ UNCHANGED <<op, on, loaded>>
           \/ op' \notin {"send", "clear"}
           \/ loaded' = bits[on']
    PROVE  Once'
<1> SUFFICES ASSUME NEW e \in pesudo_event_list, NEW b \in Bits PROVE OnceOf(e, b)'
  BY DEF Once
<1>1. OnceOf(e, b) /\ Present(e, b)' = Present(e, b)
  BY DEF OnceInv, Once, Present
<1>2. b \in bits[e] => Present(e, b) = 1
  BY DEF Present
<1> QED BY <1>1, <1>2 DEF OnceOf

\* The step of an event that comes or goes.
LEMMA FreshOnce ==
    ASSUME EventInv, OnceInv, NEW d \in Events, Fresh(d), op = "none", UNCHANGED regVars,
           pesudo_event_list' \subseteq pesudo_event_list \cup {d}
    PROVE  Once'
<1> SUFFICES ASSUME NEW e \in pesudo_event_list', NEW b \in Bits PROVE OnceOf(e, b)'
  BY DEF Once
<1>0. /\ sent \in [Events -> [Bits -> Nat]] /\ consumed \in [Events -> [Bits -> Nat]]
      /\ bits \in [Events -> Masks] /\ pesudo_event_list \subseteq Events /\ op' = "none"
  BY DEF EventInv, CountTypes, EventTypes, regVars
<1>1. CASE e = d
  <2>1. sent'[e][b] = 0 /\ consumed'[e][b] = 0 /\ bits'[e] = {}
    BY <1>0, <1>1 DEF Fresh, NoBits
  <2> QED BY <1>0, <2>1 DEF OnceOf, Present
<1>2. CASE e # d
  <2>1. /\ sent'[e] = sent[e] /\ consumed'[e] = consumed[e] /\ bits'[e] = bits[e]
        /\ e \in pesudo_event_list
    BY <1>0, <1>2 DEF Fresh
  <2>2. OnceOf(e, b)
    BY <2>1 DEF OnceInv, Once
  <2> QED BY <1>0, <2>1, <2>2 DEF OnceOf, Present
<1> QED BY <1>1, <1>2

\* Every step preserves OnceInv.
LEMMA NextOnceInv ==
    ASSUME EventAssumption, EventInv, OnceInv, [Next]_vars
    PROVE  OnceInv'
<1>0. /\ pesudo_event_list \subseteq Events /\ bits \in [Events -> Masks]
      /\ loaded \in Masks /\ use_bits \in Masks
      /\ op # "none" => on \in pesudo_event_list
      /\ \A A, B \in Masks : A \cup B \in Masks /\ A \ B \in Masks
  BY DEF EventInv, EventTypes, RegTypes, Masks
<1> USE DEF eventFields, regVars, histVars, Idle
<1>1. CASE UNCHANGED <<pesudo_event_list, bits, sent, consumed, regVars>>
  BY <1>1, LoadOnce DEF OnceInv, ClearsLoaded
<1>2. ASSUME NEW e \in Events, BeginScan(e), UNCHANGED <<pesudo_event_list, bits, sent, consumed>>
      PROVE  OnceInv'
  BY <1>2, LoadOnce DEF BeginScan, OnceInv, ClearsLoaded
<1>3. CASE Look \/ ScanEnds
  BY <1>3, ScanMovesOn, LoadOnce DEF ScanMoves, OnceInv, ClearsLoaded
<1>4. CASE SendStore
  <2>1. PICK d \in pesudo_event_list : d = on
    BY <1>0, <1>4 DEF SendStore
  <2>2. /\ bits' = [bits EXCEPT ![d] = loaded \cup use_bits]
        /\ sent' = Plus(sent, d, use_bits) /\ UNCHANGED <<pesudo_event_list, consumed>>
        /\ op = "send" /\ op' = "scan"
    BY <1>4, <2>1 DEF SendStore, BeginScan
  <2>3. PICK new \in Masks : new = loaded \cup use_bits
    BY <1>0
  <2>m. PICK mask \in Masks : mask = use_bits
    BY <1>0
  <2>4. ASSUME NEW e \in pesudo_event_list, NEW b \in Bits PROVE OnceOf(e, b)'
    BY <2>1, <2>2, <2>3, <2>m, SentOnce
  <2> QED BY <2>2, <2>4 DEF OnceInv, Once, ClearsLoaded
<1>5. CASE ClearStore
  <2>1. PICK d \in pesudo_event_list : d = on
    BY <1>0, <1>5 DEF ClearStore, ClearTo
  <2>2. /\ bits' = [bits EXCEPT ![d] = loaded \ use_bits]
        /\ consumed' = Plus(consumed, d, use_bits) /\ UNCHANGED <<pesudo_event_list, sent>>
        /\ op = "clear" /\ op' \in {"scan", "none"}
    BY <1>5, <2>1 DEF ClearStore, ClearTo, Done
  <2>3. ASSUME NEW e \in pesudo_event_list, NEW b \in Bits PROVE OnceOf(e, b)'
    BY <2>1, <2>2, ConsumedOnce
  <2> QED BY <2>2, <2>3 DEF OnceInv, Once, ClearsLoaded
<1>6. ASSUME NEW d \in Events, NEW mask \in Masks, pesudo_event_set(d, mask) \/ IsrSend(d, mask)
      PROVE  OnceInv'
  <2>1. /\ d \in pesudo_event_list /\ sent' = Plus(sent, d, mask)
        /\ UNCHANGED <<pesudo_event_list, consumed, regVars>>
    BY <1>6 DEF pesudo_event_set, IsrSend
  <2>2. PICK new \in Masks : bits' = [bits EXCEPT ![d] = new] /\ new \subseteq bits[d] \cup mask
    <3>1. CASE pesudo_event_set(d, mask)
      BY <3>1 DEF pesudo_event_set
    <3>2. CASE IsrSend(d, mask)
      <4>1. bits' = [bits EXCEPT ![d] = bits[d] \cup mask]
        BY <1>0, <3>2 DEF IsrSend
      <4> QED BY <1>0, <4>1
    <3> QED BY <1>6, <3>1, <3>2
  <2>3. ASSUME NEW e \in pesudo_event_list, NEW b \in Bits PROVE OnceOf(e, b)'
    BY <2>1, <2>2, SentOnce
  <2> QED BY <2>1, <2>3 DEF OnceInv, Once, ClearsLoaded
<1>7. ASSUME NEW e \in Events, \/ pesudo_event_delete(e)
                               \/ \E o \in Opts : pesudo_event_create(e, o)
      PROVE  OnceInv'
  BY <1>7, FreshOnce DEF pesudo_event_create, pesudo_event_delete, OnceInv, ClearsLoaded
<1>8. ASSUME NEW e \in Events, NEW mask, NEW flag, SendLoad(e, mask) \/ ReceiveLoad(e, mask, flag)
      PROVE  OnceInv'
  BY <1>8, LoadOnce DEF SendLoad, ReceiveLoad, OnceInv, ClearsLoaded
<1>9. CASE EventStep
  BY <1>1, <1>2, <1>3, <1>4, <1>5, <1>9 DEF EventStep, ReceiveReturns, DrainEnds, DrainEvent
<1>10. CASE EventCall
  BY <1>1, <1>6, <1>7, <1>8, <1>10 DEF EventCall, SenderCall, ReceiverCall, ReceiveBlocks
<1>11. CASE KernelStep \/ Interrupt \/ UNCHANGED vars
  BY <1>1, <1>6, <1>11 DEF KernelStep, Interrupt, vars, eventVars
<1> QED BY <1>9, <1>10, <1>11 DEF Next

\* Whatever interrupts come between the load and the store of the bits, no occurrence of
\* a bit is cleared by two receivers.
THEOREM BitsAreClearedOnce == Spec => []ClearedOnce
<1>1. Init => OnceInv
  BY DEF Init, OnceInv, Once, ClearsLoaded
<1>2. EventInv /\ OnceInv /\ [Next]_vars => OnceInv'
  BY EventAssumption, NextOnceInv
<1>3. OnceInv => ClearedOnce
  BY DEF OnceInv, Once, OnceOf, Present, ClearedOnce
<1> QED BY <1>1, <1>2, <1>3, EventInvAlways, PTL DEF Spec

-----------------------------------------------------------------------------
(***************************************************************************)
(* No waiter is overlooked.                                                *)
(***************************************************************************)

\* The bits of an event that a scan has seen.
Seen(e) == bits[e] \ unseen[e]

\* The waiters of the event that the scan under way has still to look at.
LeftOf(e) == IF on = e THEN left ELSE {}

SomeGranted(e) == \E t \in Waiting("EVENT", e) : Granted(t)

\* Whom a scan deals with waits for its event; its candidate is satisfied as long as
\* nobody clears bits; bits that were loaded are still there, as an interrupt only adds
\* some; and events have been through the deferred work only while it is under way.
ScanRight ==
    /\ drained # {} => pc = "drain"
    /\ left \subseteq Waiting("EVENT", on)
    /\ find_task # NoTask => find_task \in Waiting("EVENT", on)
    /\ op = "clear" => loaded \subseteq bits[on]
    /\ op = "scan" /\ find_task # NoTask => Satisfies(find_task)

\* Whoever is overlooked, the scan has still to look at, or another waiter is granted
\* or a candidate; with another option than FIFO and LIFO, only the former.
ServedOf(e) ==
    /\ opt[e] = "OTHER" => Overlooked(e) \subseteq LeftOf(e)
    /\ e \in drained => \/ SomeGranted(e)
                        \/ Overlooked(e) \subseteq LeftOf(e)
                        \/ on = e /\ find_task # NoTask

ServeInv ==
    /\ ScanRight
    /\ \A e \in pesudo_event_list : ServedOf(e)

\* More bits satisfy whoever fewer bits satisfy.
LEMMA SatisfiedMore ==
    ASSUME NEW A, NEW B, A \subseteq B, NEW mask, NEW flag, Satisfied(A, mask, flag)
    PROVE  Satisfied(B, mask, flag)
  BY DEF Satisfied

\* No bits satisfy nobody who asks for some.
LEMMA NoBitsSatisfyNobody ==
    ASSUME NEW mask, mask # {}, NEW flag
    PROVE  ~Satisfied({}, mask, flag)
  BY DEF Satisfied

\* Whoever waits ungranted after the step did so before, for the same bits.
NoNewWaiter(e) ==
    \A t \in Waiting("EVENT", e)' :
        ~Granted(t)' => /\ t \in Waiting("EVENT", e) /\ ~Granted(t)
                        /\ wait_event_bits'[t] = wait_event_bits[t]
                        /\ wait_event_flag'[t] = wait_event_flag[t]

\* Then nobody is overlooked who was not before, unless the scans have seen more bits.
LEMMA OverlookedShrinks ==
    ASSUME NEW e, NoNewWaiter(e), Seen(e)' \subseteq Seen(e)
    PROVE  Overlooked(e)' \subseteq Overlooked(e)
<1> SUFFICES ASSUME NEW t \in Overlooked(e)' PROVE t \in Overlooked(e)
  OBVIOUS
<1>1. /\ t \in Waiting("EVENT", e)' /\ ~Granted(t)'
      /\ Satisfied(Seen(e)', wait_event_bits'[t], wait_event_flag'[t])
  BY DEF Overlooked, Seen
<1>2. /\ t \in Waiting("EVENT", e) /\ ~Granted(t)
      /\ Satisfied(Seen(e)', wait_event_bits[t], wait_event_flag[t])
  BY <1>1 DEF NoNewWaiter
<1>3. Satisfied(Seen(e), wait_event_bits[t], wait_event_flag[t])
  BY <1>2, SatisfiedMore
<1> QED BY <1>2, <1>3 DEF Overlooked, Seen

\* Who waits for an event is a blocked task, and asks for some bits.
LEMMA WaiterAsks ==
    ASSUME EventInv, NEW e, NEW t \in Waiting("EVENT", e)
    PROVE  t \in Tasks /\ Blocked(t) /\ block_obj[t] = e /\ wait_event_bits[t] # {}
<1>1. t \in Linked /\ Blocked(t) /\ block_obj[t] = e
  BY DEF Waiting, BlockedFlag, Blocked
<1>2. t \in Tasks
  BY <1>1, LinkedAreTasks DEF EventInv, KernelInv, KernelTypeOK
<1> QED BY <1>1, <1>2 DEF EventInv, Wishes

\* An event none of whose bits were seen overlooks nobody.
LEMMA NothingSeen ==
    ASSUME EventInv, NEW e, Seen(e) = {}
    PROVE  Overlooked(e) = {}
<1> SUFFICES ASSUME NEW t \in Overlooked(e) PROVE FALSE
  OBVIOUS
<1>1. t \in Waiting("EVENT", e) /\ Satisfied({}, wait_event_bits[t], wait_event_flag[t])
  BY DEF Overlooked, Seen
<1> QED BY <1>1, WaiterAsks, NoBitsSatisfyNobody

\* Steps that leave the tasks alone, and who waits for what.
LEMMA WaitersKept ==
    ASSUME UNCHANGED <<list, state, block_obj, waitVars>>, NEW e
    PROVE  /\ Waiting("EVENT", e)' = Waiting("EVENT", e)
           /\ NoNewWaiter(e)
           /\ SomeGranted(e)' <=> SomeGranted(e)
<1>1. Waiting("EVENT", e)' = Waiting("EVENT", e)
  BY DEF Waiting, Linked
<1>2. \A t : Granted(t)' <=> Granted(t)
  BY DEF Granted
<1> QED BY <1>1, <1>2 DEF NoNewWaiter, SomeGranted, waitVars

\* A grant adds to the granted waiters, and takes the one it serves from the others.
LEMMA GrantServes ==
    ASSUME EventInv, NEW t \in Tasks, NEW mask, GrantTo(t, mask), NEW e
    PROVE  /\ Waiting("EVENT", e)' = Waiting("EVENT", e)
           /\ NoNewWaiter(e)
           /\ SomeGranted(e) => SomeGranted(e)'
           /\ t \in Waiting("EVENT", e) => SomeGranted(e)'
           /\ t \notin Overlooked(e)'
<1>1. /\ UNCHANGED <<list, block_obj, wait_event_flag>>
      /\ state' = [state EXCEPT ![t] = @ \cup {"RECV_EVENT"}]
      /\ wait_event_bits' = [wait_event_bits EXCEPT ![t] = mask]
      /\ state \in [Tasks -> SUBSET Flags] /\ wait_event_bits \in [Tasks -> Masks]
      /\ Linked \subseteq Tasks
  BY LinkedAreTasks DEF GrantTo, objFields, EventInv, KernelInv, KernelTypeOK, WaitTypes
<1>2. Linked' = Linked
  BY <1>1 DEF Linked
<1>3. \A u \in Tasks : Blocked(u)' <=> Blocked(u)
  BY <1>1 DEF Blocked
<1>4. Waiting("EVENT", e)' = Waiting("EVENT", e)
  BY <1>1, <1>2, <1>3 DEF Waiting, BlockedFlag, Blocked
<1>5. \A u \in Tasks : Granted(u)' <=> Granted(u) \/ u = t
  BY <1>1 DEF Granted
<1>6. \A u \in Tasks \ {t} : wait_event_bits'[u] = wait_event_bits[u]
  BY <1>1
<1>7. Waiting("EVENT", e) \subseteq Tasks
  BY <1>1 DEF Waiting
<1>8. NoNewWaiter(e)
  BY <1>1, <1>4, <1>5, <1>6, <1>7 DEF NoNewWaiter
<1>9. /\ SomeGranted(e) => SomeGranted(e)'
      /\ t \in Waiting("EVENT", e) => SomeGranted(e)'
  BY <1>4, <1>5, <1>7 DEF SomeGranted
<1>10. t \notin Overlooked(e)'
  BY <1>5 DEF Overlooked
<1> QED BY <1>4, <1>8, <1>9, <1>10

\* A step of a scan overlooks nobody who was not overlooked before, and takes no grant.
LEMMA ScanShrinks ==
    ASSUME EventInv, ScanRight, Look \/ ScanEnds \/ ClearStore, NEW e \in Events
    PROVE  /\ Waiting("EVENT", e)' = Waiting("EVENT", e)
           /\ Overlooked(e)' \subseteq Overlooked(e)
           /\ SomeGranted(e) => SomeGranted(e)'
<1>1. Seen(e)' \subseteq Seen(e)
  <2>1. CASE Look \/ ScanEnds
    BY <2>1 DEF Look, ScanEnds, Seen, eventFields, histVars
  <2>2. CASE ClearStore
    <3>1. /\ op = "clear" /\ unseen' = unseen /\ bits \in [Events -> Masks]
          /\ bits' = [bits EXCEPT ![on] = loaded \ use_bits]
      BY <2>2 DEF ClearStore, ClearTo, EventInv, EventTypes
    <3>2. bits'[e] \subseteq bits[e]
      BY <3>1 DEF ScanRight
    <3> QED BY <3>1, <3>2 DEF Seen
  <2> QED BY <2>1, <2>2
<1>2. CASE UNCHANGED <<kernelVars, waitVars>>
  BY <1>1, <1>2, WaitersKept, OverlookedShrinks DEF kernelVars, objFields
<1>3. CASE \E t \in Tasks, mask \in Masks : GrantTo(t, mask)
  BY <1>1, <1>3, GrantServes, OverlookedShrinks
<1> QED BY <1>2, <1>3, ScanGrants DEF GrantsFit

\* The events that are not being scanned stay served.
LEMMA OthersServed ==
    ASSUME NEW e, ServedOf(e), e # on, opt' = opt, drained' = drained,
           Overlooked(e)' \subseteq Overlooked(e), SomeGranted(e) => SomeGranted(e)'
    PROVE  ServedOf(e)'
<1>1. LeftOf(e) = {} /\ {} \subseteq LeftOf(e)'
  BY DEF LeftOf
<1> QED BY <1>1 DEF ServedOf

\* The next waiter is served, kept as the candidate, or not satisfied.
LEMMA LookServes ==
    ASSUME EventInv, ServeInv, Look
    PROVE  ServeInv'
<1> DEFINE t == NextWaiter
<1>1. /\ op = "scan" /\ left # {} /\ bits[on] # {} /\ on \in pesudo_event_list /\ on \in Events
      /\ UNCHANGED <<pesudo_event_list, opt, bits, unseen, drained>>
  BY DEF Look, EventInv, RegTypes, EventTypes, eventFields, histVars
<1>2. t \in left /\ t \in Tasks /\ Blocked(t) /\ t \in Waiting("EVENT", on)
  BY <1>1, NextWaiterWaits, ServedWaits DEF ServeInv, ScanRight
<1>3. \A e \in Events : /\ Waiting("EVENT", e)' = Waiting("EVENT", e)
                        /\ Overlooked(e)' \subseteq Overlooked(e)
                        /\ SomeGranted(e) => SomeGranted(e)'
  BY ScanShrinks DEF ServeInv
<1>4. ScanRight /\ ServedOf(on) /\ pesudo_event_list \subseteq Events
  BY <1>1 DEF ServeInv, EventInv, EventTypes
<1>5. \A e \in pesudo_event_list : e # on => ServedOf(e)'
  BY <1>1, <1>3, <1>4, OthersServed DEF ServeInv
<1>6. op \in {"scan", "clear"} /\ opt[on] = "OTHER" => find_task = NoTask
  BY DEF EventInv, ScanInv
<1>pc. pc' = pc
  BY ScanGrants DEF GrantsFit, GrantTo, kernelVars, loopVars
<1> HIDE DEF t
<1>7. CASE Satisfies(t) /\ opt[on] = "OTHER"
  <2>1. Serve(t)
    BY <1>7 DEF Look, t
  <2>2. CASE "CLEAR" \in wait_event_flag[t]
    <3>1. op' = "clear" /\ loaded' = bits[on] /\ UNCHANGED <<on, left, find_task, waitVars>>
      BY <2>1, <2>2 DEF Serve
    <3>2. ScanRight'
      BY <1>1, <1>3, <1>4, <1>pc, <3>1 DEF ScanRight
    <3>3. ServedOf(on)'
      BY <1>1, <1>3, <1>4, <3>1 DEF ServedOf, LeftOf
    <3> QED BY <1>1, <1>5, <3>1, <3>2, <3>3 DEF ServeInv
  <2>3. CASE "CLEAR" \notin wait_event_flag[t]
    <3>1. /\ op' = "scan" /\ on' = on /\ left' = left \ {t} /\ find_task' = NoTask
          /\ \E mask : GrantTo(t, mask)
      BY <1>1, <2>1, <2>3 DEF Serve, OthersLeft, t
    <3>2. SomeGranted(on)' /\ t \notin Overlooked(on)'
      BY <1>1, <1>2, <3>1, GrantServes
    <3>3. ScanRight'
      BY <1>1, <1>3, <1>4, <1>pc, <3>1 DEF ScanRight
    <3>4. ServedOf(on)'
      BY <1>1, <1>3, <1>4, <1>7, <3>1, <3>2 DEF ServedOf, LeftOf
    <3> QED BY <1>1, <1>5, <3>1, <3>3, <3>4 DEF ServeInv
  <2> QED BY <2>2, <2>3
<1>8. CASE ~(Satisfies(t) /\ opt[on] = "OTHER")
  <2>1. /\ find_task' = IF Satisfies(t) /\ Keep(t) THEN t ELSE find_task
        /\ left' = left \ {t}
        /\ UNCHANGED <<kernelVars, waitVars, op, on, loaded, use_bits>>
    BY <1>8 DEF Look, OthersLeft, t
  <2>2. ~Satisfies(t) => t \notin Overlooked(on)
    <3>1. Seen(on) \subseteq bits[on]
      BY DEF Seen
    <3>2. t \in Overlooked(on) => Satisfies(t)
      BY <3>1, SatisfiedMore DEF Overlooked, Seen, Satisfies
    <3> QED BY <3>2
  <2>3. Satisfies(t) => find_task' # NoTask
    <3>1. NoTask \notin Tasks
      BY TasksAssumption DEF TasksAssumption
    <3> QED BY <1>2, <2>1, <3>1 DEF Keep
  <2>4. ScanRight'
    <3>1. find_task' # NoTask => find_task' \in Waiting("EVENT", on)
      BY <1>2, <1>4, <2>1 DEF ScanRight
    <3>2. find_task' # NoTask => Satisfies(find_task')
      BY <1>1, <1>4, <2>1 DEF ScanRight
    <3>3. \A u : Satisfies(u)' <=> Satisfies(u)
      BY <1>1, <2>1 DEF Satisfies, waitVars
    <3>4. PICK f : f = find_task'
      OBVIOUS
    <3>5. find_task' # NoTask => Satisfies(find_task)'
      BY <3>2, <3>3, <3>4 DEF Satisfies
    <3> QED BY <1>1, <1>3, <1>4, <1>pc, <2>1, <3>1, <3>5 DEF ScanRight
  <2>5. ServedOf(on)'
    <3>1. CASE Satisfies(t)
      BY <1>1, <1>8, <2>1, <2>3, <3>1 DEF ServedOf
    <3>2. CASE ~Satisfies(t)
      BY <1>1, <1>3, <1>4, <2>1, <2>2, <3>2 DEF ServedOf, LeftOf
    <3> QED BY <3>1, <3>2
  <2> QED BY <1>1, <1>5, <2>1, <2>4, <2>5 DEF ServeInv
<1> QED BY <1>7, <1>8

\* The candidate is served at the end of a scan; without one nobody is overlooked.
LEMMA ScanEndServes ==
    ASSUME EventInv, ServeInv, ScanEnds
    PROVE  ServeInv'
<1>1. /\ op = "scan" /\ on \in pesudo_event_list /\ on \in Events
      /\ UNCHANGED <<pesudo_event_list, opt, bits, unseen, drained>>
      /\ left = {} \/ bits[on] = {}
  BY DEF ScanEnds, EventInv, RegTypes, EventTypes, eventFields, histVars
<1>2. \A e \in Events : /\ Waiting("EVENT", e)' = Waiting("EVENT", e)
                        /\ Overlooked(e)' \subseteq Overlooked(e)
                        /\ SomeGranted(e) => SomeGranted(e)'
  BY ScanShrinks DEF ServeInv
<1>3. ScanRight /\ ServedOf(on) /\ pesudo_event_list \subseteq Events
  BY <1>1 DEF ServeInv, EventInv, EventTypes
<1>4. \A e \in pesudo_event_list : e # on => ServedOf(e)'
  BY <1>1, <1>2, <1>3, OthersServed DEF ServeInv
<1>5. pc' = pc
  BY ScanGrants DEF GrantsFit, GrantTo, kernelVars, loopVars
<1>6. bits[on] = {} => Overlooked(on) = {}
  <2>1. bits[on] = {} => Seen(on) = {}
    BY DEF Seen
  <2> QED BY <2>1, NothingSeen
<1>7. CASE find_task # NoTask
  <2> DEFINE t == find_task
  <2>1. t \in Waiting("EVENT", on) /\ t \in Tasks /\ Satisfies(t)
    BY <1>1, <1>3, <1>7, WaiterAsks DEF ScanRight
  <2>2. Serve(t)
    BY <1>7, <2>1 DEF ScanEnds
  <2>3. bits[on] # {}
    <3>1. wait_event_bits[t] # {}
      BY <2>1, WaiterAsks
    <3>2. Satisfied(bits[on], wait_event_bits[t], wait_event_flag[t])
      BY <2>1 DEF Satisfies
    <3> QED BY <3>1, <3>2, NoBitsSatisfyNobody
  <2>4. left = {}
    BY <1>1, <2>3
  <2>5. CASE "CLEAR" \in wait_event_flag[t]
    <3>1. op' = "clear" /\ loaded' = bits[on] /\ UNCHANGED <<on, left, find_task>>
      BY <2>2, <2>5 DEF Serve
    <3>2. ScanRight'
      BY <1>1, <1>2, <1>3, <1>5, <3>1 DEF ScanRight
    <3>3. ServedOf(on)'
      BY <1>1, <1>2, <1>3, <3>1 DEF ServedOf, LeftOf
    <3> QED BY <1>1, <1>4, <3>1, <3>2, <3>3 DEF ServeInv
  <2>6. CASE "CLEAR" \notin wait_event_flag[t]
    <3>1. /\ op' = "scan" /\ on' = on /\ left' = {} /\ find_task' = NoTask
          /\ \E mask : GrantTo(t, mask)
      BY <1>1, <2>2, <2>4, <2>6 DEF Serve, OthersLeft
    <3> HIDE DEF t
    <3>2. SomeGranted(on)'
      BY <1>1, <2>1, <3>1, GrantServes
    <3>3. ScanRight'
      BY <1>1, <1>3, <1>5, <3>1 DEF ScanRight
    <3>4. ServedOf(on)'
      BY <1>1, <1>2, <1>3, <2>4, <3>1, <3>2 DEF ServedOf, LeftOf
    <3> QED BY <1>1, <1>4, <3>1, <3>3, <3>4 DEF ServeInv
  <2> QED BY <2>5, <2>6
<1>8. CASE find_task = NoTask
  <2>1. Done
    BY <1>8 DEF ScanEnds
  <2>2. ScanRight'
    BY <1>1, <1>3, <1>5, <2>1 DEF ScanRight, Done
  <2>3. ASSUME NEW e \in pesudo_event_list, e = on PROVE ServedOf(e)'
    <3>1. ServedOf(e) /\ Overlooked(e)' \subseteq Overlooked(e)
      BY <1>1, <1>2, <1>3, <2>3
    <3>2. LeftOf(e) = {} \/ Overlooked(e) = {}
      BY <1>1, <1>6, <2>3 DEF LeftOf
    <3>3. SomeGranted(e) => SomeGranted(e)'
      BY <1>1, <1>2, <2>3
    <3> QED BY <1>1, <1>8, <3>1, <3>2, <3>3 DEF ServedOf
  <2> QED BY <1>1, <1>4, <2>2, <2>3 DEF ServeInv
<1> QED BY <1>7, <1>8

\* The receiver the bits are cleared for is granted; a receive that did not wait takes
\* bits away, which satisfies nobody.
LEMMA ClearServes ==
    ASSUME EventInv, ServeInv, ClearStore
    PROVE  ServeInv'
<1>1. /\ op = "clear" /\ on \in pesudo_event_list /\ on \in Events
      /\ UNCHANGED <<pesudo_event_list, opt, unseen, drained>>
  BY DEF ClearStore, ClearTo, EventInv, RegTypes, EventTypes
<1>2. \A e \in Events : /\ Waiting("EVENT", e)' = Waiting("EVENT", e)
                        /\ Overlooked(e)' \subseteq Overlooked(e)
                        /\ SomeGranted(e) => SomeGranted(e)'
  BY ScanShrinks DEF ServeInv
<1>3. ScanRight /\ ServedOf(on) /\ pesudo_event_list \subseteq Events
  BY <1>1 DEF ServeInv, EventInv, EventTypes
<1>4. \A e \in pesudo_event_list : e # on => ServedOf(e)'
  BY <1>1, <1>2, <1>3, OthersServed DEF ServeInv
<1>5. pc' = pc
  BY ScanGrants DEF GrantsFit, GrantTo, kernelVars, loopVars
<1>6. CASE find_task # NoTask \/ left # {}
  <2>1. /\ GrantTo(Receiver, use_bits) /\ op' = "scan" /\ left' = OthersLeft
        /\ find_task' = NoTask /\ on' = on
    BY <1>6 DEF ClearStore, ClearTo
  <2>2. Receiver \in Waiting("EVENT", on) /\ Receiver \in Tasks
    <3>1. left # {} => NextWaiter \in left
      BY NextWaiterWaits
    <3>2. Receiver \in Waiting("EVENT", on)
      BY <1>3, <1>6, <3>1 DEF ScanRight, Receiver
    <3> QED BY <3>2, WaiterAsks
  <2>3. SomeGranted(on)' /\ Receiver \notin Overlooked(on)'
    BY <1>1, <2>1, <2>2, GrantServes
  <2>4. opt[on] = "OTHER" => Receiver = NextWaiter
    BY <1>1 DEF EventInv, ScanInv, Receiver
  <2>5. OthersLeft = left \ {NextWaiter}
    BY DEF OthersLeft
  <2>6. ScanRight'
    BY <1>1, <1>2, <1>3, <1>5, <2>1, <2>5 DEF ScanRight
  <2>7. ServedOf(on)'
    <3>1. Overlooked(on)' \subseteq Overlooked(on) /\ LeftOf(on) = left /\ LeftOf(on)' = left'
      BY <1>1, <1>2, <2>1 DEF LeftOf
    <3>2. opt[on] = "OTHER" => Overlooked(on)' \subseteq LeftOf(on)'
      BY <1>3, <2>1, <2>3, <2>4, <2>5, <3>1 DEF ServedOf
    <3> QED BY <1>1, <2>1, <2>3, <3>2 DEF ServedOf
  <2> QED BY <1>1, <1>4, <2>1, <2>6, <2>7 DEF ServeInv
<1>7. CASE ~(find_task # NoTask \/ left # {})
  <2>1. Done
    BY <1>7 DEF ClearStore, ClearTo
  <2>2. ScanRight'
    BY <1>1, <1>3, <1>5, <2>1 DEF ScanRight, Done
  <2>3. ASSUME NEW e \in pesudo_event_list, e = on PROVE ServedOf(e)'
    BY <1>1, <1>2, <1>3, <1>7, <2>1, <2>3 DEF ServedOf, LeftOf
  <2> QED BY <1>1, <1>4, <2>2, <2>3 DEF ServeInv
<1> QED BY <1>6, <1>7

\* What a step has to do with the events when no scan is at work in it.
LEMMA RestServed ==
    ASSUME NEW e, ServedOf(e), Overlooked(e)' \subseteq Overlooked(e),
           opt'[e] = opt[e], e \in drained' => e \in drained /\ (SomeGranted(e) => SomeGranted(e)'),
           \/ UNCHANGED <<on, left, find_task>>
           \/ left = {} /\ find_task = NoTask
    PROVE  ServedOf(e)'
<1>1. \/ UNCHANGED <<on, left, find_task>>
      \/ LeftOf(e) = {} /\ find_task = NoTask
  BY DEF LeftOf
<1>2. LeftOf(e) \subseteq LeftOf(e)' \/ LeftOf(e) = {}
  BY <1>1 DEF LeftOf
<1> QED BY <1>1, <1>2 DEF ServedOf

\* A scan begins with all the waiters of its event.
LEMMA BeginServes ==
    ASSUME EventInv, ServeInv, NEW d \in pesudo_event_list, BeginScan(d), op \notin {"scan", "clear"},
           UNCHANGED <<list, state, block_obj, waitVars, pesudo_event_list, opt, pc>>,
           \A e \in Events : e # d => bits'[e] = bits[e],
           drained' \subseteq drained \cup {d}, drained' # {} => pc = "drain"
    PROVE  ServeInv'
<1>1. /\ op' = "scan" /\ on' = d /\ left' = Waiting("EVENT", d) /\ find_task' = NoTask
      /\ unseen' = [unseen EXCEPT ![d] = {}] /\ unseen \in [Events -> Masks]
      /\ pesudo_event_list \subseteq Events
  BY DEF BeginScan, EventInv, EventTypes
<1>2. left = {} /\ find_task = NoTask
  BY NothingLeft
<1>3. \A e : /\ Waiting("EVENT", e)' = Waiting("EVENT", e) /\ NoNewWaiter(e)
             /\ SomeGranted(e)' <=> SomeGranted(e)
  BY WaitersKept
<1>4. ScanRight'
  BY <1>1, <1>3 DEF ScanRight
<1>5. ASSUME NEW e \in pesudo_event_list PROVE ServedOf(e)'
  <2>1. CASE e = d
    <3>1. Overlooked(e)' \subseteq LeftOf(e)'
      BY <1>1, <1>3, <2>1 DEF Overlooked, LeftOf
    <3> QED BY <3>1 DEF ServedOf
  <2>2. CASE e # d
    <3>1. Seen(e)' = Seen(e)
      BY <1>1, <2>2 DEF Seen
    <3>2. Overlooked(e)' \subseteq Overlooked(e)
      BY <1>3, <3>1, OverlookedShrinks
    <3>3. ServedOf(e)
      BY DEF ServeInv
    <3> QED BY <1>2, <1>3, <2>2, <3>2, <3>3, RestServed
  <2> QED BY <2>1, <2>2
<1> QED BY <1>4, <1>5 DEF ServeInv

\* An event whose bits no scan has seen after a step that leaves the waiters alone
\* overlooks nobody.
LEMMA NobodyLeftOut ==
    ASSUME EventInv, UNCHANGED <<list, state, block_obj, waitVars>>, NEW e, Seen(e)' = {}
    PROVE  Overlooked(e)' = {}
<1> SUFFICES ASSUME NEW t \in Overlooked(e)' PROVE FALSE
  OBVIOUS
<1>1. t \in Waiting("EVENT", e)' /\ Satisfied({}, wait_event_bits'[t], wait_event_flag'[t])
  BY DEF Overlooked, Seen
<1>2. t \in Waiting("EVENT", e) /\ wait_event_bits' = wait_event_bits
  BY <1>1, WaitersKept DEF waitVars
<1>3. wait_event_bits'[t] # {}
  BY <1>2, WaiterAsks
<1> QED BY <1>1, <1>3, NoBitsSatisfyNobody

\* A step outside the scans, or one that leaves the scan alone, keeps the events served
\* if it overlooks nobody of an event, or leaves the event as it was.
LEMMA StepServes ==
    ASSUME EventInv, ServeInv,
           UNCHANGED <<on, left, find_task>> \/ op \notin {"scan", "clear"},
           \A e \in pesudo_event_list' :
               \/ Overlooked(e)' = {}
               \/ /\ e \in pesudo_event_list /\ opt'[e] = opt[e]
                  /\ Overlooked(e)' \subseteq Overlooked(e)
                  /\ e \in drained' => e \in drained /\ (SomeGranted(e) => SomeGranted(e)')
    PROVE  \A e \in pesudo_event_list' : ServedOf(e)'
<1> SUFFICES ASSUME NEW e \in pesudo_event_list' PROVE ServedOf(e)'
  OBVIOUS
<1>1. CASE Overlooked(e)' = {}
  BY <1>1 DEF ServedOf
<1>2. CASE /\ e \in pesudo_event_list /\ opt'[e] = opt[e]
           /\ Overlooked(e)' \subseteq Overlooked(e)
           /\ e \in drained' => e \in drained /\ (SomeGranted(e) => SomeGranted(e)')
  <2>1. ServedOf(e)
    BY <1>2 DEF ServeInv
  <2>2. UNCHANGED <<on, left, find_task>> \/ (left = {} /\ find_task = NoTask)
    BY NothingLeft
  <2> QED BY <1>2, <2>1, <2>2, RestServed
<1> QED BY <1>1, <1>2

\* A step after which no scan is under way leaves no scan wrong.
LEMMA QuietScanRight ==
    ASSUME left' = {}, find_task' = NoTask, drained' # {} => pc' = "drain",
           op' = "clear" => loaded' \subseteq bits'[on']
    PROVE  ScanRight'
  BY DEF ScanRight

\* Interrupts, which put in bits that no scan has seen, leave a scan right and the events
\* served.
LEMMA InterruptServes ==
    ASSUME EventInv, ServeInv,
           UNCHANGED <<list, state, block_obj, waitVars, regVars, drained, pc, pesudo_event_list, opt>>,
           \A e \in Events : bits[e] \subseteq bits'[e] /\ Seen(e)' \subseteq Seen(e)
    PROVE  ServeInv'
<1>1. /\ pesudo_event_list \subseteq Events /\ ScanRight
      /\ op # "none" => on \in Events
  BY DEF EventInv, EventTypes, RegTypes, ServeInv
<1>2. \A e : /\ Waiting("EVENT", e)' = Waiting("EVENT", e) /\ NoNewWaiter(e)
             /\ SomeGranted(e)' <=> SomeGranted(e)
  BY WaitersKept
<1>3. \A e \in Events : Overlooked(e)' \subseteq Overlooked(e)
  BY <1>2, OverlookedShrinks
<1>4. \A e \in pesudo_event_list' : ServedOf(e)'
  BY <1>1, <1>2, <1>3, StepServes DEF regVars
<1>5. UNCHANGED <<op, on, loaded, left, find_task>>
  BY DEF regVars
<1>6. op = "scan" /\ find_task # NoTask => Satisfies(find_task)'
  <2> SUFFICES ASSUME op = "scan", find_task # NoTask PROVE Satisfies(find_task)'
    OBVIOUS
  <2>1. Satisfied(bits[on], wait_event_bits[find_task], wait_event_flag[find_task])
    BY <1>1 DEF ScanRight, Satisfies
  <2>2. bits[on] \subseteq bits'[on]
    BY <1>1
  <2>3. Satisfied(bits'[on], wait_event_bits[find_task], wait_event_flag[find_task])
    BY <2>1, <2>2, SatisfiedMore
  <2> QED BY <1>5, <2>3 DEF Satisfies, waitVars
<1>7. op = "clear" => loaded \subseteq bits'[on]
  BY <1>1 DEF ScanRight
<1>8. ScanRight'
  BY <1>1, <1>2, <1>5, <1>6, <1>7 DEF ScanRight
<1> QED BY <1>4, <1>8 DEF ServeInv

\* Steps outside the event functions and the deferred work that only lose waiters.
LEMMA OutsideServes ==
    ASSUME EventInv, ServeInv, pc # "drain", op = "none",
           UNCHANGED <<pesudo_event_list, opt, bits, regVars, drained, unseen>>,
           \A e \in pesudo_event_list : Overlooked(e)' \subseteq Overlooked(e)
    PROVE  ServeInv'
<1>1. drained = {} /\ drained' = {} /\ left' = {} /\ find_task' = NoTask /\ op' = "none"
  BY NothingLeft DEF ServeInv, ScanRight, regVars
<1>2. ScanRight'
  BY <1>1, QuietScanRight
<1>3. \A e \in pesudo_event_list' : ServedOf(e)'
  BY <1>1, StepServes
<1> QED BY <1>2, <1>3 DEF ServeInv

\* Calls that change one event, of which no scan has seen any bit afterwards.
LEMMA FreshServes ==
    ASSUME EventInv, ServeInv, InTask, op = "none", NEW d,
           UNCHANGED <<kernelVars, waitVars, regVars, drained>>,
           Seen(d)' = {},
           \A e \in pesudo_event_list' :
               e # d => e \in pesudo_event_list /\ opt'[e] = opt[e] /\ Seen(e)' = Seen(e)
    PROVE  ServeInv'
<1>1. drained = {} /\ drained' = {} /\ left' = {} /\ find_task' = NoTask /\ op' = "none"
  BY NothingLeft DEF ServeInv, ScanRight, regVars, InTask
<1>2. UNCHANGED <<list, state, block_obj, waitVars>>
  BY DEF kernelVars, objFields
<1>3. ScanRight'
  BY <1>1, QuietScanRight
<1>4. Overlooked(d)' = {}
  BY <1>2, NobodyLeftOut
<1>5. \A e : NoNewWaiter(e)
  BY <1>2, WaitersKept
<1>6. \A e \in pesudo_event_list' : e # d => Overlooked(e)' \subseteq Overlooked(e)
  BY <1>5, OverlookedShrinks
<1>7. \A e \in pesudo_event_list' : ServedOf(e)'
  BY <1>1, <1>4, <1>6, StepServes
<1> QED BY <1>3, <1>7 DEF ServeInv

\* The loop, the tasks' handlers and the task calls make nobody wait for an event.
LEMMA KernelServes ==
    ASSUME EventAssumption, EventInv, ServeInv, KernelStep
    PROVE  ServeInv'
<1>1. KernelNext /\ pc # "drain" /\ op = "none" /\ UNCHANGED eventVars
  BY DEF KernelStep, KernelNext, LoopStep, VisitNext, VisitDispatch, VisitWakeup, VisitGranted,
         VisitTimeout, VisitSkip, Resume, Visit, EndPass, LoopAstray, Astray, HandlerReturns,
         TaskCall, pesudo_task_create, pesudo_task_delete, pesudo_task_suspend, pesudo_task_resume,
         pesudo_task_sleep, pesudo_task_sleep_until, MayBlock, SleepUntilLate, DelayEnds,
         SleepTail, Resumed, InTask, Idle
<1>2. /\ KernelInv /\ Timers = {} /\ "EVENT" \in Kinds
      /\ BlockedFlag("EVENT") = "BLOCKED_EVENT" /\ GrantFlag("EVENT") = "RECV_EVENT"
  BY DEF EventInv, EventAssumption, Kinds, BlockedFlag, GrantFlag
<1>3. UNCHANGED <<pesudo_event_list, opt, bits, regVars, drained, unseen, waitVars>>
  BY <1>1 DEF eventVars, eventFields, histVars
<1>4. ASSUME NEW e PROVE NoNewWaiter(e)
  <2>1. ASSUME NEW t \in Waiting("EVENT", e)', ~Granted(t)'
        PROVE  t \in Waiting("EVENT", e) /\ ~Granted(t)
    <3>1. t \in Linked' /\ "BLOCKED_EVENT" \in state'[t] /\ block_obj'[t] = e
      BY <1>2, <2>1 DEF Waiting
    <3>2. /\ t \in Linked /\ "BLOCKED_EVENT" \in state[t] /\ block_obj'[t] = block_obj[t]
          /\ "RECV_EVENT" \in state'[t] <=> "RECV_EVENT" \in state[t]
      BY <1>1, <1>2, <3>1, KernelWaiters
    <3> QED BY <1>2, <2>1, <3>1, <3>2 DEF Waiting, Granted
  <2> QED BY <1>3, <2>1 DEF NoNewWaiter, waitVars
<1>5. \A e : Overlooked(e)' \subseteq Overlooked(e)
  <2>1. \A e : Seen(e)' = Seen(e)
    BY <1>3 DEF Seen
  <2> QED BY <1>4, <2>1, OverlookedShrinks
<1> QED BY <1>1, <1>3, <1>5, OutsideServes

\* The clock and the interrupts that send.
LEMMA IsrServes ==
    ASSUME EventInv, ServeInv, Interrupt \/ UNCHANGED vars
    PROVE  ServeInv'
<1>1. CASE (Tick /\ UNCHANGED eventVars) \/ UNCHANGED vars
  <2>1. UNCHANGED <<list, state, block_obj, waitVars, regVars, drained, pc, pesudo_event_list,
                    opt, bits, unseen>>
    BY <1>1 DEF Tick, vars, eventVars, eventFields, histVars, kernelVars, objFields, loopVars
  <2>2. \A e \in Events : bits[e] \subseteq bits'[e] /\ Seen(e)' \subseteq Seen(e)
    BY <2>1 DEF Seen
  <2> QED BY <2>1, <2>2, InterruptServes
<1>2. ASSUME NEW d \in Events, NEW mask \in Masks, IsrSend(d, mask) PROVE ServeInv'
  <2>1. /\ UNCHANGED <<list, state, block_obj, waitVars, regVars, drained, pc,
                       pesudo_event_list, opt>>
        /\ bits' = [bits EXCEPT ![d] = @ \cup mask]
        /\ unseen' = [unseen EXCEPT ![d] = @ \cup mask]
    BY <1>2 DEF IsrSend, kernelVars, objFields, loopVars
  <2>2. bits \in [Events -> Masks] /\ unseen \in [Events -> Masks]
    BY DEF EventInv, EventTypes
  <2>3. \A e \in Events : bits[e] \subseteq bits'[e] /\ Seen(e)' \subseteq Seen(e)
    BY <2>1, <2>2 DEF Seen
  <2> QED BY <2>1, <2>3, InterruptServes
<1> QED BY <1>1, <1>2 DEF Interrupt

\* A send by a task looks at all the waiters.
LEMMA SendServes ==
    ASSUME EventInv, ServeInv, SendStore
    PROVE  ServeInv'
<1>1. PICK d \in pesudo_event_list : d = on
  BY DEF SendStore, EventInv, RegTypes
<1>2. /\ op = "send" /\ BeginScan(d) /\ drained' = drained /\ bits \in [Events -> Masks]
      /\ bits' = [bits EXCEPT ![d] = loaded \cup use_bits]
      /\ UNCHANGED <<list, state, block_obj, waitVars, pesudo_event_list, opt, pc>>
  BY <1>1 DEF SendStore, EventInv, EventTypes, kernelVars, objFields, loopVars
<1>3. drained = {}
  BY <1>2 DEF ServeInv, ScanRight, EventInv, PcOfOp, InTask
<1>4. \A e \in Events : e # d => bits'[e] = bits[e]
  BY <1>2
<1> QED BY <1>2, <1>3, <1>4, BeginServes

\* So does the deferred work, if the event has bits; without bits there is nobody to serve.
LEMMA DrainServes ==
    ASSUME EventInv, ServeInv, NEW d \in Events, DrainEvent(d)
    PROVE  ServeInv'
<1>1. /\ pc = "drain" /\ op = "none" /\ d \in pesudo_event_list /\ drained' = drained \cup {d}
      /\ UNCHANGED <<list, state, block_obj, waitVars, pesudo_event_list, opt, bits, pc>>
  BY DEF DrainEvent, Idle, eventFields, kernelVars, objFields, loopVars
<1>2. CASE bits[d] # {}
  <2>1. BeginScan(d)
    BY <1>2 DEF DrainEvent
  <2> QED BY <1>1, <2>1, BeginServes
<1>3. CASE bits[d] = {}
  <2>1. unseen' = [unseen EXCEPT ![d] = {}] /\ UNCHANGED regVars /\ unseen \in [Events -> Masks]
    BY <1>3 DEF DrainEvent, EventInv, EventTypes
  <2>2. left' = {} /\ find_task' = NoTask /\ op' = "none"
    BY <1>1, <2>1, NothingLeft DEF regVars
  <2>3. ScanRight'
    BY <1>1, <2>2, QuietScanRight
  <2>4. Overlooked(d)' = {}
    <3>1. Seen(d)' = {}
      BY <1>1, <1>3 DEF Seen
    <3> QED BY <1>1, <3>1, NobodyLeftOut
  <2>5. \A e : /\ NoNewWaiter(e)
               /\ SomeGranted(e)' <=> SomeGranted(e)
    BY <1>1, WaitersKept
  <2>6. \A e \in pesudo_event_list' : e # d => Overlooked(e)' \subseteq Overlooked(e)
    <3>1. \A e \in Events : e # d => Seen(e)' = Seen(e)
      BY <1>1, <2>1 DEF Seen
    <3>2. pesudo_event_list' \subseteq Events
      BY <1>1 DEF EventInv, EventTypes
    <3> QED BY <2>5, <3>1, <3>2, OverlookedShrinks
  <2>7. \A e \in pesudo_event_list' : ServedOf(e)'
    BY <1>1, <2>4, <2>5, <2>6, StepServes
  <2> QED BY <2>3, <2>7 DEF ServeInv
<1> QED BY <1>2, <1>3

\* When the deferred work is done, nothing of it is left.
LEMMA DrainEndServes ==
    ASSUME EventInv, ServeInv, DrainEnds
    PROVE  ServeInv'
<1>1. /\ op = "none" /\ drained' = {} /\ UNCHANGED regVars
      /\ UNCHANGED <<list, state, block_obj, waitVars, pesudo_event_list, opt, bits, unseen>>
  BY DEF DrainEnds, Idle, StartPass, eventFields, histVars, objFields
<1>2. left' = {} /\ find_task' = NoTask /\ op' = "none"
  BY <1>1, NothingLeft DEF regVars
<1>3. ScanRight'
  BY <1>1, <1>2, QuietScanRight
<1>4. \A e : Overlooked(e)' \subseteq Overlooked(e)
  <2>1. \A e : NoNewWaiter(e)
    BY <1>1, WaitersKept
  <2>2. \A e : Seen(e)' = Seen(e)
    BY <1>1 DEF Seen
  <2> QED BY <2>1, <2>2, OverlookedShrinks
<1>5. \A e \in pesudo_event_list' : ServedOf(e)'
  BY <1>1, <1>4, StepServes
<1> QED BY <1>3, <1>5 DEF ServeInv

\* The load of a send or of a receive changes registers only.
LEMMA LoadServes ==
    ASSUME EventInv, ServeInv, op = "none", op' = "clear" => loaded' \subseteq bits'[on'],
           UNCHANGED <<left, find_task, drained, pc>>,
           UNCHANGED <<list, state, block_obj, waitVars, pesudo_event_list, opt, bits, unseen>>
    PROVE  ServeInv'
<1>1. left' = {} /\ find_task' = NoTask /\ (drained' # {} => pc' = "drain")
  BY NothingLeft DEF ServeInv, ScanRight
<1>2. ScanRight'
  BY <1>1, QuietScanRight
<1>3. \A e : NoNewWaiter(e) /\ (SomeGranted(e)' <=> SomeGranted(e))
  BY WaitersKept
<1>4. \A e : Overlooked(e)' \subseteq Overlooked(e)
  <2>1. \A e : Seen(e)' = Seen(e)
    BY DEF Seen
  <2> QED BY <1>3, <2>1, OverlookedShrinks
<1>5. \A e \in pesudo_event_list' : ServedOf(e)'
  BY <1>3, <1>4, StepServes
<1> QED BY <1>2, <1>5 DEF ServeInv

\* Calls of senders that begin no scan: creating, deleting and setting an event leave no
\* bit that a scan has seen.
LEMMA CallServes ==
    ASSUME EventInv, ServeInv, NEW d \in Events, SenderCall(d)
    PROVE  ServeInv'
<1> USE DEF Idle
<1>0. bits \in [Events -> Masks] /\ unseen \in [Events -> Masks] /\ pesudo_event_list \subseteq Events
      /\ opt \in [Events -> {"FIFO", "LIFO", "OTHER"}]
  BY DEF EventInv, EventTypes
<1>1. ASSUME /\ InTask /\ op = "none"
             /\ UNCHANGED <<kernelVars, waitVars, regVars, drained>>
             /\ Fresh(d)
             /\ \A e \in pesudo_event_list' : e # d => e \in pesudo_event_list
             /\ \A e \in Events : e # d => opt'[e] = opt[e]
      PROVE  ServeInv'
  <2>1. bits' = [bits EXCEPT ![d] = {}] /\ unseen' = [unseen EXCEPT ![d] = {}]
    BY <1>1 DEF Fresh
  <2>2. Seen(d)' = {} /\ \A e \in Events : e # d => Seen(e)' = Seen(e)
    BY <1>0, <2>1 DEF Seen
  <2> QED BY <1>0, <1>1, <2>2, FreshServes
<1>2. CASE \E o \in Opts : pesudo_event_create(d, o)
  BY <1>0, <1>1, <1>2 DEF pesudo_event_create
<1>3. CASE pesudo_event_delete(d)
  BY <1>0, <1>1, <1>3 DEF pesudo_event_delete
<1>4. ASSUME NEW mask \in Masks, pesudo_event_set(d, mask) PROVE ServeInv'
  <2>1. /\ InTask /\ op = "none"
        /\ UNCHANGED <<kernelVars, waitVars, regVars, drained, pesudo_event_list, opt>>
        /\ bits' = [bits EXCEPT ![d] = mask]
        /\ unseen' = [unseen EXCEPT ![d] = @ \cup mask]
    BY <1>4 DEF pesudo_event_set
  <2>2. Seen(d)' = {} /\ \A e \in Events : e # d => Seen(e)' = Seen(e)
    BY <1>0, <2>1 DEF Seen
  <2> QED BY <1>0, <2>1, <2>2, FreshServes
<1>5. ASSUME NEW mask \in Masks, SendLoad(d, mask) PROVE ServeInv'
  <2>1. /\ InTask /\ op = "none" /\ op' = "send" /\ UNCHANGED <<left, find_task, drained, pc>>
        /\ UNCHANGED <<list, state, block_obj, waitVars, pesudo_event_list, opt, bits, unseen>>
    BY <1>5 DEF SendLoad, eventFields, histVars, kernelVars, objFields, loopVars
  <2> QED BY <2>1, LoadServes
<1> QED BY <1>2, <1>3, <1>4, <1>5 DEF SenderCall

\* A receiver that blocks is not satisfied by the bits that are there; one that returns
\* waits no more.
LEMMA BlockServes ==
    ASSUME EventAssumption, EventInv, ServeInv, NEW d \in Events, NEW mask \in Masks \ {{}},
           NEW flag \in RecvFlags, NEW ms \in Delays, ReceiveBlocks(d, mask, flag, ms)
    PROVE  ServeInv'
<1>1. /\ InTask /\ op = "none" /\ ~Satisfied(bits[d], mask, Normal(flag))
      /\ list' = list
      /\ block_obj' = [block_obj EXCEPT ![Me] = d]
      /\ state' = [state EXCEPT ![Me] = (@ \ {"RUNNING"}) \cup {"BLOCKED_EVENT"}]
      /\ wait_event_bits' = [wait_event_bits EXCEPT ![Me] = mask]
      /\ wait_event_flag' = [wait_event_flag EXCEPT ![Me] = Normal(flag)]
      /\ UNCHANGED <<pesudo_event_list, opt, bits, regVars, drained, unseen>>
  BY DEF ReceiveBlocks, Block, MayBlock, SaveContext, BlockedFlag, Idle, eventFields
<1>2. /\ KernelInv /\ state \in [Tasks -> SUBSET Flags] /\ Linked \subseteq Tasks
      /\ block_obj \in [Tasks -> Events \cup {NoObj}]
      /\ wait_event_bits \in [Tasks -> Masks] /\ wait_event_flag \in [Tasks -> ValidFlags \cup {{}}]
  BY LinkedAreTasks DEF EventInv, KernelInv, KernelTypeOK, BlockTypes, WaitTypes
<1>3. Me \in Tasks
  BY <1>1, <1>2, MeNotWaiting
<1>4. Linked' = Linked
  BY <1>1 DEF Linked
<1>5. ASSUME NEW e, NEW t \in Overlooked(e)' PROVE t \in Overlooked(e)
  <2>1. /\ t \in Linked /\ t \in Tasks /\ "BLOCKED_EVENT" \in state'[t] /\ block_obj'[t] = e
        /\ "RECV_EVENT" \notin state'[t]
        /\ Satisfied(Seen(e)', wait_event_bits'[t], wait_event_flag'[t])
    BY <1>2, <1>4, <1>5 DEF Overlooked, Waiting, BlockedFlag, Granted, Seen
  <2>2. Seen(e)' = Seen(e) /\ Seen(e) \subseteq bits[e]
    BY <1>1 DEF Seen
  <2>3. t # Me
    <3> SUFFICES ASSUME t = Me PROVE FALSE
      OBVIOUS
    <3>1. e = d /\ wait_event_bits'[t] = mask /\ wait_event_flag'[t] = Normal(flag)
      BY <1>1, <1>2, <1>3, <2>1
    <3>2. Satisfied(bits[d], mask, Normal(flag))
      BY <2>1, <2>2, <3>1, SatisfiedMore
    <3> QED BY <1>1, <3>2
  <2>4. /\ state'[t] = state[t] /\ block_obj'[t] = block_obj[t]
        /\ wait_event_bits'[t] = wait_event_bits[t] /\ wait_event_flag'[t] = wait_event_flag[t]
    BY <1>1, <1>2, <2>1, <2>3
  <2> QED BY <2>1, <2>2, <2>4 DEF Overlooked, Waiting, BlockedFlag, Granted, Seen
<1>6. pc # "drain"
  BY <1>1 DEF InTask
<1> QED BY <1>1, <1>5, <1>6, OutsideServes

\* The same for the return of a blocked receiver.
LEMMA ReturnServes ==
    ASSUME EventInv, ServeInv, ReceiveReturns
    PROVE  ServeInv'
<1>1. /\ pc = "resumed" /\ list' = list
      /\ block_obj' = [block_obj EXCEPT ![Me] = NoObj]
      /\ state' = [state EXCEPT ![Me] = (@ \ {"BLOCKED_EVENT", "RECV_EVENT"}) \cup {"RUNNING"}]
      /\ wait_event_bits' = [wait_event_bits EXCEPT ![Me] = {}]
      /\ wait_event_flag' = [wait_event_flag EXCEPT ![Me] = {}]
      /\ UNCHANGED <<pesudo_event_list, opt, bits, regVars, drained, unseen>>
  BY DEF ReceiveReturns, Unblock, Resumed, LeaveCall, BlockedFlag, GrantFlag, eventFields
<1>2. /\ state \in [Tasks -> SUBSET Flags] /\ Linked \subseteq Tasks
      /\ block_obj \in [Tasks -> Events \cup {NoObj}]
      /\ wait_event_bits \in [Tasks -> Masks] /\ wait_event_flag \in [Tasks -> ValidFlags \cup {{}}]
  BY LinkedAreTasks DEF EventInv, KernelInv, KernelTypeOK, BlockTypes, WaitTypes
<1>3. Linked' = Linked
  BY <1>1 DEF Linked
<1>4. ASSUME NEW e, NEW t \in Overlooked(e)' PROVE t \in Overlooked(e)
  <2>1. /\ t \in Linked /\ t \in Tasks /\ "BLOCKED_EVENT" \in state'[t] /\ block_obj'[t] = e
        /\ "RECV_EVENT" \notin state'[t]
        /\ Satisfied(Seen(e)', wait_event_bits'[t], wait_event_flag'[t])
    BY <1>2, <1>3, <1>4 DEF Overlooked, Waiting, BlockedFlag, Granted, Seen
  <2>2. Seen(e)' = Seen(e)
    BY <1>1 DEF Seen
  <2>3. t # Me
    BY <1>1, <1>2, <2>1
  <2>4. /\ state'[t] = state[t] /\ block_obj'[t] = block_obj[t]
        /\ wait_event_bits'[t] = wait_event_bits[t] /\ wait_event_flag'[t] = wait_event_flag[t]
    BY <1>1, <1>2, <2>1, <2>3
  <2> QED BY <2>1, <2>2, <2>4 DEF Overlooked, Waiting, BlockedFlag, Granted, Seen
<1>5. op = "none"
  BY <1>1 DEF EventInv, PcOfOp, RegTypes, InTask
<1> QED BY <1>1, <1>4, <1>5, OutsideServes

\* Every step preserves ServeInv.
LEMMA NextServeInv ==
    ASSUME EventAssumption, EventInv, ServeInv, [Next]_vars
    PROVE  ServeInv'
<1>1. CASE EventStep
  BY <1>1, SendServes, LookServes, ScanEndServes, ClearServes, ReturnServes, DrainServes,
     DrainEndServes DEF EventStep
<1>2. ASSUME NEW d \in Events, NEW mask \in Masks, NEW flag, ReceiveLoad(d, mask, flag)
      PROVE  ServeInv'
  <2>1. /\ op = "none" /\ op' = "clear" /\ UNCHANGED <<left, find_task, drained, pc>>
        /\ on' = d /\ loaded' = bits[d]
        /\ UNCHANGED <<list, state, block_obj, waitVars, pesudo_event_list, opt, bits, unseen>>
    BY <1>2 DEF ReceiveLoad, Idle, eventFields, histVars, kernelVars, objFields, loopVars
  <2>2. loaded' \subseteq bits'[on']
    BY <2>1
  <2> QED BY <2>1, <2>2, LoadServes
<1>3. CASE EventCall
  BY <1>2, <1>3, CallServes, BlockServes DEF EventCall, ReceiverCall
<1>4. CASE KernelStep
  BY <1>4, KernelServes
<1> QED BY <1>1, <1>3, <1>4, IsrServes DEF Next

\* Whatever is sent and received, and wherever the interrupts come: an event that has been
\* through the deferred work leaves no waiter behind that the bits its scan has seen would
\* satisfy, unless another waiter of the event is granted; with an option that is neither
\* FIFO nor LIFO nobody is left behind after any scan, a send's too
\* (pesudo_event_receive_internal(), process_pesudo_event_from_isr()).
THEOREM WaitersAreServed == Spec => []WaitersServed
<1>1. Init => ServeInv
  BY DEF Init, ServeInv, ScanRight
<1>2. EventInv /\ ServeInv /\ [Next]_vars => ServeInv'
  BY EventAssumption, NextServeInv
<1>3. EventInv /\ ServeInv => WaitersServed
  <2> SUFFICES ASSUME EventInv, ServeInv, NEW e \in pesudo_event_list, Idle
               PROVE  /\ opt[e] = "OTHER" => Overlooked(e) = {}
                      /\ pc = "drain" /\ e \in drained /\ Overlooked(e) # {} => SomeGranted(e)
    BY DEF WaitersServed, SomeGranted
  <2>1. left = {} /\ find_task = NoTask
    BY NothingLeft DEF Idle
  <2>2. LeftOf(e) = {}
    BY <2>1 DEF LeftOf
  <2>3. ServedOf(e)
    BY DEF ServeInv
  <2> QED BY <2>1, <2>2, <2>3 DEF ServedOf
<1> QED BY <1>1, <1>2, <1>3, EventInvAlways, PTL DEF Spec
=============================================================================
