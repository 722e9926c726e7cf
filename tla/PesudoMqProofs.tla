--------------------------- MODULE PesudoMqProofs ---------------------------
(***************************************************************************)
(* Proofs about the PesudoOS message queues, for any number of tasks and   *)
(* queues and any sizes.  The types and what is said of grants hold with   *)
(* interrupts anywhere; that a queue is a bounded FIFO queue is proved for *)
(* applications that mask interrupts around their calls.                   *)
(***************************************************************************)
EXTENDS PesudoMq, PesudoOSProofs

-----------------------------------------------------------------------------
(***************************************************************************)
(* TypeOK, made inductive.                                                 *)
(***************************************************************************)

\* Where the main level is while it is inside a queue function.
PcOfOp ==
    /\ op \in {"write", "count", "index", "wrap", "flag", "flush"} => InTask
    /\ op = "scan" => pc \in {"running", "drain"}
    /\ op \in {"take", "back"} => pc \in {"running", "resumed"}
    /\ op = "leave" => pc = "resumed"

\* A read stays inside the buffer, and takes a message that was counted.
ReadsInside ==
    /\ \A q \in Queues : rd_index[q] < item_count[q]
    /\ op = "take" => loaded > 0

\* Nothing is read from a queue that does not exist.
DeletedAreEmpty == \A q \in Queues \ pesudo_mq_list : msg_count[q] = 0

\* The types of which queues there are, and how large.
ListTypes ==
    /\ pesudo_mq_list \subseteq Queues
    /\ opt \in [Queues -> {"FIFO", "LIFO", "OTHER"}]
    /\ item_count \in [Queues -> 1..MaxSize]

\* The types of the counts and indexes.
CountTypes ==
    /\ msg_count \in [Queues -> Nat]
    /\ wr_index \in [Queues -> Nat]
    /\ rd_index \in [Queues -> Nat]
    /\ isrSends \in [Queues -> Nat]
    /\ buffered \in [Queues -> Int]
    /\ late \in [Queues -> Nat]
    /\ loaded \in Nat

\* The types of what holds messages.
DataTypes ==
    /\ data \in [Queues -> [Slots -> Msgs]]
    /\ msg \in [Tasks -> Msgs]
    /\ item \in Msgs

\* The types of the flags.
FlagTypes ==
    /\ full \in [Queues -> BOOLEAN]
    /\ flag \in BOOLEAN

\* The types of where the main level is, and of the sets.
RegTypes ==
    /\ op \in {"none", "write", "count", "index", "wrap", "flag", "scan", "take", "back",
               "leave", "flush"}
    /\ on \in Queues \cup {NoObj}
    /\ op # "none" => on \in pesudo_mq_list
    /\ drained \subseteq Queues
    /\ robbed \subseteq Tasks

BlockTypes == block_obj \in [Tasks -> Queues \cup {NoObj}]

\* The types, but for those of the kernel.
MqTypes == BlockTypes /\ ListTypes /\ CountTypes /\ DataTypes /\ FlagTypes /\ RegTypes

TypeInv ==
    /\ KernelInv
    /\ MqTypes
    /\ PcOfOp
    /\ ReadsInside
    /\ DeletedAreEmpty

\* The invariant implies TypeOK.
LEMMA TypeInvTypes == TypeInv => TypeOK
  BY DEF TypeInv, KernelInv, MqTypes, TypeOK, BlockTypes, ListTypes, CountTypes, DataTypes,
         FlagTypes, RegTypes

\* There is a message, and a buffer has a first slot.
LEMMA Values ==
    ASSUME MqAssumption
    PROVE  SomeMsg \in Msgs /\ MaxSize \in Nat /\ MaxSize >= 1 /\ 1 \in 1..MaxSize
  BY DEF MqAssumption, SomeMsg

\* TypeInv holds before any queue is created.
LEMMA InitTypeInv ==
    ASSUME MqAssumption, TasksAssumption, Init
    PROVE  TypeInv
<1> USE DEF Init
<1>1. KernelInv
  BY InitInv
<1>2. BlockTypes
  BY DEF KernelInit, BlockTypes
<1>3. ListTypes /\ CountTypes
  BY Values DEF ListTypes, CountTypes
<1>4. DataTypes
  BY Values DEF DataTypes
<1>5. FlagTypes
  BY DEF FlagTypes
<1>6. RegTypes
  BY DEF RegTypes
<1>7. PcOfOp /\ ReadsInside /\ DeletedAreEmpty
  BY DEF PcOfOp, ReadsInside, DeletedAreEmpty
<1> QED BY <1>1, <1>2, <1>3, <1>4, <1>5, <1>6, <1>7 DEF TypeInv, MqTypes

\* Steps that leave the kernel alone.
LEMMA KernelSame ==
    ASSUME TypeInv, UNCHANGED kernelVars
    PROVE  KernelInv' /\ BlockTypes' /\ pc' = pc
  BY KernelStutterInv DEF TypeInv, kernelVars, objFields, loopVars, BlockTypes, MqTypes

\* The running task is not waiting for a queue, and has no grant of one.
LEMMA MeNotWaiting ==
    ASSUME MqAssumption, KernelInv, InTask
    PROVE  /\ Me \in Tasks /\ Me \notin Timers /\ Me \in Linked
           /\ "RECV_MQ" \notin state[Me] /\ "BLOCKED_MQ" \notin state[Me]
           /\ block_obj[Me] = NoObj
<1>1. Me \notin Timers /\ Me \in Linked
  BY DEF MqAssumption, KernelInv, LoopOnLiveTasks, InTask, Me
<1>2. {"RECV_MQ", "BLOCKED_MQ"} \subseteq CallFlags
  BY DEF CallFlags, BlockingFlags, GrantFlags
<1> QED BY <1>1, <1>2, MeOutsideCalls

\* The loop, the clock and the pesudo_task_* calls preserve TypeInv.
LEMMA KernelStepTypeInv ==
    ASSUME MqAssumption, TasksAssumption, TimeAssumption, TypeInv,
           KernelNext, Idle \/ Tick, UNCHANGED mqVars
    PROVE  TypeInv'
<1>1. KernelInv'
  BY KernelNextInv DEF TypeInv
<1>0. BlockTypes /\ ListTypes /\ CountTypes /\ DataTypes /\ FlagTypes /\ RegTypes
  BY DEF TypeInv, MqTypes
<1>2. BlockTypes'
  <2>1. \/ block_obj' = block_obj
        \/ \E t \in Tasks : block_obj' = [block_obj EXCEPT ![t] = NoObj]
    BY DEF KernelNext, Tick, LoopStep, VisitNext, VisitDispatch, VisitWakeup, VisitGranted,
           VisitTimeout, VisitSkip, Resume, EndPass, LoopAstray, kernelVars, StartPass,
           HandlerReturns, TaskCall,
           pesudo_task_create, Allocate, pesudo_task_delete, pesudo_task_suspend,
           pesudo_task_resume, pesudo_task_sleep, pesudo_task_sleep_until, SleepFor,
           SleepUntilLate, DelayEnds, SleepTail, objFields
  <2> QED BY <1>0, <2>1 DEF BlockTypes
<1> USE DEF mqVars, mqFields, ringVars, regVars, histVars
<1>3. ListTypes' /\ CountTypes'
  BY <1>0 DEF ListTypes, CountTypes
<1>4. DataTypes' /\ RegTypes'
  BY <1>0 DEF DataTypes, RegTypes
<1>5. FlagTypes'
  BY <1>0, Zenon DEF FlagTypes
<1>6. PcOfOp' /\ ReadsInside' /\ DeletedAreEmpty'
  BY DEF TypeInv, PcOfOp, ReadsInside, DeletedAreEmpty, Idle, Tick, loopVars, InTask
<1> QED BY <1>1, <1>2, <1>3, <1>4, <1>5, <1>6 DEF TypeInv, MqTypes

\* A queue that is reset, as it is by its creation and its deletion.
LEMMA FreshTypeInv ==
    ASSUME MqAssumption, TypeInv, Idle, NEW q \in Queues, Fresh(q),
           UNCHANGED <<kernelVars, msg, regVars, drained, late, robbed>>,
           NEW S \in SUBSET Queues, pesudo_mq_list' = S, pesudo_mq_list \subseteq S \cup {q},
           NEW o \in {"FIFO", "LIFO", "OTHER"}, opt' = [opt EXCEPT ![q] = o],
           NEW n \in 1..MaxSize, item_count' = [item_count EXCEPT ![q] = n]
    PROVE  TypeInv'
<1>1. KernelInv' /\ BlockTypes' /\ pc' = pc
  BY KernelSame
<1>0. BlockTypes /\ ListTypes /\ CountTypes /\ DataTypes /\ FlagTypes /\ RegTypes
  BY DEF TypeInv, MqTypes
<1> USE DEF Fresh, regVars
<1>3. ListTypes'
  BY <1>0 DEF ListTypes
<1>4. CountTypes'
  BY <1>0 DEF CountTypes
<1>5. DataTypes'
  BY <1>0, Values DEF DataTypes
<1>6. FlagTypes'
  BY <1>0, Zenon DEF FlagTypes
<1>7. RegTypes'
  BY <1>0 DEF RegTypes, Idle
<1>8. PcOfOp' /\ DeletedAreEmpty'
  BY <1>0 DEF TypeInv, PcOfOp, DeletedAreEmpty, Idle, CountTypes
<1>9. ReadsInside'
  BY <1>0 DEF TypeInv, ReadsInside, Idle, CountTypes, ListTypes
<1> QED BY <1>1, <1>3, <1>4, <1>5, <1>6, <1>7, <1>8, <1>9 DEF TypeInv, MqTypes

\* Creating and deleting a queue preserve TypeInv.
LEMMA CreateTypeInv ==
    ASSUME MqAssumption, TypeInv, NEW q \in Queues,
           \/ \E o \in Opts, n \in 1..MaxSize : pesudo_mq_create(q, o, n)
           \/ pesudo_mq_delete(q)
    PROVE  TypeInv'
<1>0. pesudo_mq_list \subseteq Queues
  BY DEF TypeInv, MqTypes, ListTypes
<1>1. ASSUME NEW o \in Opts, NEW n \in 1..MaxSize, pesudo_mq_create(q, o, n)
      PROVE  TypeInv'
  <2>1. o \in {"FIFO", "LIFO", "OTHER"} /\ pesudo_mq_list \cup {q} \in SUBSET Queues
    BY <1>0 DEF MqAssumption
  <2> QED BY <1>1, <2>1, FreshTypeInv DEF pesudo_mq_create
<1>2. ASSUME pesudo_mq_delete(q)
      PROVE  TypeInv'
  <2>1. 1 \in 1..MaxSize /\ pesudo_mq_list \ {q} \in SUBSET Queues
    BY <1>0, Values
  <2> QED BY <1>2, <2>1, FreshTypeInv DEF pesudo_mq_delete
<1> QED BY <1>1, <1>2

\* A step that leaves the kernel and the list of queues alone.
LEMMA QuietTypeInv ==
    ASSUME TypeInv, UNCHANGED <<kernelVars, mqFields>>,
           CountTypes', DataTypes', FlagTypes', RegTypes', PcOfOp', ReadsInside',
           DeletedAreEmpty'
    PROVE  TypeInv'
<1>1. KernelInv' /\ BlockTypes'
  BY KernelSame
<1>2. ListTypes'
  BY DEF TypeInv, MqTypes, ListTypes, mqFields
<1> QED BY <1>1, <1>2 DEF TypeInv, MqTypes

\* TypeInv, taken apart; a queue function is inside a queue that exists.
LEMMA TypesNow ==
    ASSUME TypeInv
    PROVE  /\ KernelInv /\ BlockTypes /\ ListTypes /\ CountTypes /\ DataTypes /\ FlagTypes
           /\ RegTypes /\ PcOfOp /\ ReadsInside /\ DeletedAreEmpty
           /\ op # "none" => on \in Queues /\ on \in pesudo_mq_list
           /\ \A q \in pesudo_mq_list : q \in Queues
  BY DEF TypeInv, MqTypes, ListTypes, RegTypes

\* The steps of pesudo_mq_write() up to the scan preserve TypeInv.
LEMMA WriteTypeInv ==
    ASSUME MqAssumption, TypeInv,
           WriteCopy \/ WriteCount \/ WriteIndex \/ WriteWrap \/ WriteFlag
    PROVE  TypeInv'
<1>0. /\ CountTypes /\ DataTypes /\ FlagTypes /\ RegTypes /\ ListTypes /\ PcOfOp /\ ReadsInside
      /\ DeletedAreEmpty
      /\ op # "none" => on \in Queues /\ on \in pesudo_mq_list
  BY TypesNow
<1> USE DEF Step, mqFields, kernelVars, loopVars, histVars, InTask
<1>1. CASE WriteCopy
  <2> USE <1>0, <1>1 DEF WriteCopy
  <2>1. CountTypes'
    BY DEF CountTypes
  <2>2. DataTypes'
    BY DEF DataTypes, CountTypes
  <2>3. FlagTypes'
    BY Zenon DEF FlagTypes
  <2>4. RegTypes' /\ PcOfOp'
    BY DEF RegTypes, PcOfOp
  <2>5. ReadsInside' /\ DeletedAreEmpty'
    BY DEF ReadsInside, DeletedAreEmpty, CountTypes, ListTypes
  <2> QED BY <2>1, <2>2, <2>3, <2>4, <2>5, QuietTypeInv
<1>2. CASE WriteCount
  <2> USE <1>0, <1>2 DEF WriteCount
  <2>1. CountTypes'
    BY DEF CountTypes
  <2>2. DataTypes'
    BY DEF DataTypes, CountTypes
  <2>3. FlagTypes'
    BY Zenon DEF FlagTypes
  <2>4. RegTypes' /\ PcOfOp'
    BY DEF RegTypes, PcOfOp
  <2>5. ReadsInside' /\ DeletedAreEmpty'
    BY DEF ReadsInside, DeletedAreEmpty, CountTypes, ListTypes
  <2> QED BY <2>1, <2>2, <2>3, <2>4, <2>5, QuietTypeInv
<1>3. CASE WriteIndex
  <2> USE <1>0, <1>3 DEF WriteIndex
  <2>1. CountTypes'
    BY DEF CountTypes
  <2>2. DataTypes'
    BY DEF DataTypes, CountTypes
  <2>3. FlagTypes'
    BY Zenon DEF FlagTypes
  <2>4. RegTypes' /\ PcOfOp'
    BY DEF RegTypes, PcOfOp
  <2>5. ReadsInside' /\ DeletedAreEmpty'
    BY DEF ReadsInside, DeletedAreEmpty, CountTypes, ListTypes
  <2> QED BY <2>1, <2>2, <2>3, <2>4, <2>5, QuietTypeInv
<1>4. CASE WriteWrap
  <2>0. /\ op = "wrap" /\ op' = "flag" /\ on' = on
        /\ wr_index' = [wr_index EXCEPT ![on] = Wrapped(on, @)]
        /\ UNCHANGED <<kernelVars, mqFields, msg_count, rd_index, data, full, msg, loaded, item,
                       drained, histVars>>
    BY <1>4 DEF WriteWrap
  <2> USE <1>0, <2>0
  <2>1. CountTypes'
    BY DEF CountTypes, Wrapped
  <2>2. DataTypes'
    BY DEF DataTypes
  <2>3. FlagTypes'
    <3>1. flag' \in BOOLEAN
      BY <1>4, Zenon DEF WriteWrap
    <3> QED BY <3>1, Zenon DEF FlagTypes
  <2>4. RegTypes' /\ PcOfOp'
    BY DEF RegTypes, PcOfOp
  <2>5. ReadsInside' /\ DeletedAreEmpty'
    BY DEF ReadsInside, DeletedAreEmpty
  <2> QED BY <2>1, <2>2, <2>3, <2>4, <2>5, QuietTypeInv
<1>5. CASE WriteFlag
  <2> USE <1>0, <1>5 DEF WriteFlag
  <2>1. CountTypes'
    BY DEF CountTypes
  <2>2. DataTypes'
    BY DEF DataTypes, CountTypes
  <2>3. FlagTypes'
    BY Zenon DEF FlagTypes
  <2>4. RegTypes' /\ PcOfOp'
    BY DEF RegTypes, PcOfOp
  <2>5. ReadsInside' /\ DeletedAreEmpty'
    BY DEF ReadsInside, DeletedAreEmpty, CountTypes, ListTypes
  <2> QED BY <2>1, <2>2, <2>3, <2>4, <2>5, QuietTypeInv
<1> QED BY <1>1, <1>2, <1>3, <1>4, <1>5

\* The test that begins a send preserves TypeInv.
LEMMA SendTypeInv ==
    ASSUME MqAssumption, TypeInv, NEW q \in Queues, NEW m \in Msgs, SendTest(q, m)
    PROVE  TypeInv'
<1> USE TypesNow DEF SendTest, mqFields, ringVars, kernelVars, loopVars, histVars, InTask, Idle
<1>1. CountTypes' /\ DataTypes'
  BY DEF CountTypes, DataTypes
<1>2. FlagTypes'
  BY Zenon DEF FlagTypes
<1>3. RegTypes' /\ PcOfOp'
  BY DEF RegTypes, PcOfOp
<1>4. ReadsInside' /\ DeletedAreEmpty'
  BY DEF ReadsInside, DeletedAreEmpty
<1> QED BY <1>1, <1>2, <1>3, <1>4, QuietTypeInv

\* Only tasks on the list wait.
LEMMA WaitersAreTasks ==
    ASSUME KernelInv, NEW q
    PROVE  Waiters(q) \subseteq Tasks /\ Waiters(q) \subseteq Linked
  BY LinkedAreTasks DEF Waiters, Waiting, KernelInv, KernelTypeOK

\* A copy of the next message preserves TypeInv: the read index is in the buffer.
LEMMA ReadCopyTypeInv ==
    ASSUME MqAssumption, TypeInv, NEW q \in pesudo_mq_list, msg_count[q] > 0,
           pc \in {"running", "resumed"}, ReadCopy(q)
    PROVE  TypeInv'
<1>0. /\ CountTypes /\ DataTypes /\ FlagTypes /\ RegTypes /\ ListTypes /\ PcOfOp /\ ReadsInside
      /\ DeletedAreEmpty /\ q \in Queues
  BY TypesNow
<1> USE <1>0 DEF ReadCopy, mqFields, ringVars, kernelVars, loopVars, histVars, InTask
<1>1. CountTypes'
  BY DEF CountTypes
<1>2. DataTypes'
  <2>1. rd_index[q] \in Slots
    BY DEF ReadsInside, CountTypes, ListTypes, Slots, MqAssumption
  <2> QED BY <2>1 DEF DataTypes
<1>3. FlagTypes'
  BY Zenon DEF FlagTypes
<1>4. RegTypes' /\ PcOfOp'
  BY DEF RegTypes, PcOfOp
<1>5. ReadsInside' /\ DeletedAreEmpty'
  BY DEF ReadsInside, DeletedAreEmpty, CountTypes
<1> QED BY <1>1, <1>2, <1>3, <1>4, <1>5, QuietTypeInv

\* The other steps of reads and of pesudo_mq_flush() preserve TypeInv.
LEMMA ReadTypeInv ==
    ASSUME MqAssumption, TypeInv,
           ReadTake \/ ReadBack \/ FlushIndexes \/ \E q \in Queues : FlushCount(q)
    PROVE  TypeInv'
<1>0. /\ CountTypes /\ DataTypes /\ FlagTypes /\ RegTypes /\ ListTypes /\ PcOfOp /\ ReadsInside
      /\ DeletedAreEmpty /\ KernelInv
      /\ op # "none" => on \in Queues /\ on \in pesudo_mq_list
  BY TypesNow
<1>v. SomeMsg \in Msgs /\ FALSE \in BOOLEAN
  BY Values
<1> USE DEF Step, Done, Idle, Rob, mqFields, kernelVars, loopVars, histVars, InTask
<1>1. CASE ReadTake
  <2> USE <1>0, <1>1 DEF ReadTake
  <2>1. CountTypes'
    BY DEF CountTypes, ReadsInside, Wrapped
  <2>2. DataTypes'
    BY DEF DataTypes
  <2>3. FlagTypes'
    BY Zenon DEF FlagTypes
  <2>4. RegTypes' /\ PcOfOp'
    BY WaitersAreTasks DEF RegTypes, PcOfOp
  <2>5. ReadsInside' /\ DeletedAreEmpty'
    BY DEF ReadsInside, DeletedAreEmpty, CountTypes, ListTypes, Wrapped
  <2> QED BY <2>1, <2>2, <2>3, <2>4, <2>5, QuietTypeInv
<1>2. CASE ReadBack
  <2> USE <1>0, <1>v, <1>2 DEF ReadBack, ringVars
  <2>1. CountTypes'
    BY DEF CountTypes
  <2>2. DataTypes'
    BY DEF DataTypes, CountTypes
  <2>3. FlagTypes'
    BY Zenon DEF FlagTypes
  <2>4. RegTypes' /\ PcOfOp'
    BY DEF RegTypes, PcOfOp
  <2>5. ReadsInside' /\ DeletedAreEmpty'
    BY DEF ReadsInside, DeletedAreEmpty, CountTypes, ListTypes
  <2> QED BY <2>1, <2>2, <2>3, <2>4, <2>5, QuietTypeInv
<1>3. CASE FlushIndexes
  <2> USE <1>0, <1>v, <1>3 DEF FlushIndexes
  <2>1. CountTypes'
    BY DEF CountTypes
  <2>2. DataTypes'
    BY DEF DataTypes, CountTypes
  <2>3. FlagTypes'
    BY Zenon DEF FlagTypes
  <2>4. RegTypes' /\ PcOfOp'
    BY DEF RegTypes, PcOfOp
  <2>5. ReadsInside' /\ DeletedAreEmpty'
    BY DEF ReadsInside, DeletedAreEmpty, CountTypes, ListTypes
  <2> QED BY <2>1, <2>2, <2>3, <2>4, <2>5, QuietTypeInv
<1>4. ASSUME NEW q \in Queues, FlushCount(q) PROVE TypeInv'
  <2> USE <1>0, <1>4 DEF FlushCount
  <2>1. CountTypes'
    BY DEF CountTypes
  <2>2. DataTypes'
    BY DEF DataTypes
  <2>3. FlagTypes'
    BY Zenon DEF FlagTypes
  <2>4. RegTypes' /\ PcOfOp'
    BY WaitersAreTasks DEF RegTypes, PcOfOp
  <2>5. ReadsInside' /\ DeletedAreEmpty'
    BY DEF ReadsInside, DeletedAreEmpty, CountTypes, ListTypes
  <2> QED BY <2>1, <2>2, <2>3, <2>4, <2>5, QuietTypeInv
<1> QED BY <1>1, <1>2, <1>3, <1>4

\* The send of an interrupt, and the start of the deferred scan of a queue, preserve
\* TypeInv.
LEMMA IsrTypeInv ==
    ASSUME MqAssumption, TypeInv,
           \E q \in Queues : DrainMq(q) \/ \E m \in Msgs : IsrSend(q, m)
    PROVE  TypeInv'
<1>0. /\ CountTypes /\ DataTypes /\ FlagTypes /\ RegTypes /\ ListTypes /\ PcOfOp /\ ReadsInside
      /\ DeletedAreEmpty
  BY TypesNow
<1> USE <1>0 DEF mqFields, kernelVars, loopVars, InTask
<1>1. ASSUME NEW q \in Queues, DrainMq(q)
      PROVE  TypeInv'
  <2> USE <1>1 DEF DrainMq, ringVars, histVars, Idle
  <2>1. CountTypes' /\ DataTypes'
    BY DEF CountTypes, DataTypes
  <2>2. FlagTypes'
    BY Zenon DEF FlagTypes
  <2>3. RegTypes' /\ PcOfOp'
    BY DEF RegTypes, PcOfOp
  <2>4. ReadsInside' /\ DeletedAreEmpty'
    BY DEF ReadsInside, DeletedAreEmpty
  <2> QED BY <2>1, <2>2, <2>3, <2>4, QuietTypeInv
<1>2. ASSUME NEW q \in Queues, NEW m \in Msgs, IsrSend(q, m), msg_count[q] = item_count[q]
      PROVE  TypeInv'
  <2>0. /\ UNCHANGED <<kernelVars, mqFields, ringVars, msg, regVars, drained, robbed, buffered, late>>
        /\ isrSends' = [isrSends EXCEPT ![q] = @ + 1]
    BY <1>2 DEF IsrSend
  <2> USE <2>0 DEF ringVars, regVars
  <2>1. CountTypes' /\ DataTypes'
    BY DEF CountTypes, DataTypes
  <2>2. FlagTypes'
    BY Zenon DEF FlagTypes
  <2>3. RegTypes' /\ PcOfOp'
    BY DEF RegTypes, PcOfOp
  <2>4. ReadsInside' /\ DeletedAreEmpty'
    BY DEF ReadsInside, DeletedAreEmpty
  <2> QED BY <2>1, <2>2, <2>3, <2>4, QuietTypeInv
<1>3. ASSUME NEW q \in Queues, NEW m \in Msgs, IsrSend(q, m), msg_count[q] # item_count[q]
      PROVE  TypeInv'
  <2>0. /\ UNCHANGED <<kernelVars, mqFields, rd_index, msg, regVars, drained, robbed>>
        /\ isrSends' = [isrSends EXCEPT ![q] = @ + 1]
        /\ data' = [data EXCEPT ![q][wr_index[q]] = m]
        /\ msg_count' = [msg_count EXCEPT ![q] = @ + 1]
        /\ wr_index' = [wr_index EXCEPT ![q] = Wrapped(q, @ + 1)]
        /\ buffered' = [buffered EXCEPT ![q] = @ + 1]
        /\ late' = [late EXCEPT ![q] = @ + 1] \/ late' = late
        /\ q \in pesudo_mq_list
    BY <1>3 DEF IsrSend
  <2>f. full' = [full EXCEPT ![q] = (msg_count[q] + 1 = item_count[q])]
    BY <1>3 DEF IsrSend
  <2> USE <2>0 DEF regVars
  <2>1. CountTypes'
    <3>1. Wrapped(q, wr_index[q] + 1) \in Nat
      BY DEF CountTypes, Wrapped
    <3> QED BY <3>1 DEF CountTypes
  <2>5. DataTypes'
    BY DEF DataTypes
  <2>2. FlagTypes'
    <3>1. (msg_count[q] + 1 = item_count[q]) \in BOOLEAN
      OBVIOUS
    <3> QED BY <2>f, <3>1, Zenon DEF FlagTypes
  <2>3. RegTypes' /\ PcOfOp'
    BY DEF RegTypes, PcOfOp
  <2>4. ReadsInside' /\ DeletedAreEmpty'
    BY DEF ReadsInside, DeletedAreEmpty
  <2> QED BY <2>1, <2>2, <2>3, <2>4, <2>5, QuietTypeInv
<1> QED BY <1>1, <1>2, <1>3

\* The steps that change the tasks preserve TypeInv: the scan, blocking and returning
\* in pesudo_mq_receive(), the end of the deferred work.
LEMMA TaskTypeInv ==
    ASSUME MqAssumption, TasksAssumption, TimeAssumption, TypeInv,
           \/ Scan \/ ReturnRead \/ ReturnWithout \/ DrainEnds
           \/ \E q \in Queues, ms \in Delays : ReceiveBlocks(q, ms)
    PROVE  TypeInv'
<1>0. /\ CountTypes /\ DataTypes /\ FlagTypes /\ RegTypes /\ ListTypes /\ PcOfOp /\ ReadsInside
      /\ DeletedAreEmpty /\ BlockTypes /\ KernelInv
      /\ op # "none" => on \in Queues /\ on \in pesudo_mq_list
  BY TypesNow
<1>v. SomeMsg \in Msgs /\ FALSE \in BOOLEAN
  BY Values
<1>m. "MQ" \in Kinds /\ BlockedFlag("MQ") = "BLOCKED_MQ" /\ GrantFlag("MQ") = "RECV_MQ"
  BY DEF Kinds, BlockedFlag, GrantFlag
<1> USE <1>0, <1>v DEF mqFields, ringVars, regVars, loopVars, Idle, Done, InTask
<1>1. CASE Scan
  <2> DEFINE found == IF msg_count[on] <= 0 THEN {} ELSE Selected(opt[on], Waiters(on))
  <2>1. /\ state' = [t \in Tasks |-> IF t \in found THEN state[t] \cup {"RECV_MQ"} ELSE state[t]]
        /\ robbed' = robbed \ found
        /\ UNCHANGED <<now, list, objFields, runFields, loopVars, mqFields, ringVars, msg,
                       drained, isrSends, buffered, late>>
        /\ op = "scan" /\ Done
    BY <1>1 DEF Scan
  <2>2. found \subseteq Tasks /\ \A t \in found : "BLOCKED_MQ" \in state[t]
    BY <1>m, WaitersAreTasks DEF Selected, Waiters, Waiting
  <2> HIDE DEF found
  <2>3. KernelInv'
    <3>1. pc # "resumed" /\ found \in SUBSET Tasks
      BY <2>1, <2>2 DEF PcOfOp
    <3>2. \A t \in found : BlockedFlag("MQ") \in state[t]
      BY <1>m, <2>2
    <3>3. state' = [t \in Tasks |-> IF t \in found THEN state[t] \cup {GrantFlag("MQ")} ELSE state[t]]
      BY <1>m, <2>1
    <3>4. UNCHANGED <<now, list, objFields, runFields, loopVars>>
      BY <2>1
    <3> QED BY <1>m, <3>1, <3>2, <3>3, <3>4, GrantAllInv
  <2>4. BlockTypes' /\ ListTypes' /\ CountTypes' /\ DataTypes'
    BY <2>1 DEF BlockTypes, objFields, ListTypes, CountTypes, DataTypes
  <2>5. FlagTypes'
    BY <2>1, Zenon DEF FlagTypes
  <2>6. RegTypes' /\ PcOfOp' /\ ReadsInside' /\ DeletedAreEmpty'
    BY <2>1 DEF RegTypes, PcOfOp, ReadsInside, DeletedAreEmpty
  <2> QED BY <2>3, <2>4, <2>5, <2>6 DEF TypeInv, MqTypes
<1>2. CASE ReturnRead \/ ReturnWithout
  <2>1. /\ Unblock("MQ") /\ Done
        /\ robbed' = robbed \ {Me}
        /\ UNCHANGED <<mqFields, ringVars, msg, drained, isrSends, buffered, late>>
    BY <1>2 DEF ReturnRead, ReturnWithout, Return
  <2>2. KernelInv'
    BY <1>m, <2>1, UnblockInv
  <2>3. BlockTypes'
    BY <2>1 DEF BlockTypes, Unblock
  <2>4. ListTypes' /\ CountTypes' /\ DataTypes'
    BY <2>1 DEF ListTypes, CountTypes, DataTypes
  <2>5. FlagTypes'
    BY <2>1, Zenon DEF FlagTypes
  <2>6. RegTypes' /\ PcOfOp' /\ ReadsInside' /\ DeletedAreEmpty'
    BY <2>1 DEF RegTypes, PcOfOp, ReadsInside, DeletedAreEmpty
  <2> QED BY <2>2, <2>3, <2>4, <2>5, <2>6 DEF TypeInv, MqTypes
<1>3. ASSUME NEW q \in Queues, NEW ms \in Delays, ReceiveBlocks(q, ms)
      PROVE  TypeInv'
  <2>1. op = "none" /\ Block("MQ", q, ms) /\ UNCHANGED mqVars
    BY <1>3 DEF ReceiveBlocks
  <2> USE <2>1 DEF mqVars, histVars
  <2>2. KernelInv'
    BY <1>m, BlockInv DEF MqAssumption
  <2>3. BlockTypes'
    BY DEF BlockTypes, Block
  <2>4. ListTypes' /\ CountTypes' /\ DataTypes'
    BY DEF ListTypes, CountTypes, DataTypes
  <2>5. FlagTypes'
    BY Zenon DEF FlagTypes
  <2>6. RegTypes' /\ PcOfOp' /\ ReadsInside' /\ DeletedAreEmpty'
    BY DEF RegTypes, PcOfOp, ReadsInside, DeletedAreEmpty
  <2> QED BY <2>2, <2>3, <2>4, <2>5, <2>6 DEF TypeInv, MqTypes
<1>4. CASE DrainEnds
  <2> USE <1>4 DEF DrainEnds
  <2>2. KernelInv'
    BY StartPassInv
  <2>3. BlockTypes'
    BY DEF BlockTypes, StartPass, objFields
  <2>4. ListTypes' /\ CountTypes' /\ DataTypes'
    BY DEF ListTypes, CountTypes, DataTypes
  <2>5. FlagTypes'
    BY Zenon DEF FlagTypes
  <2>6. RegTypes' /\ PcOfOp' /\ ReadsInside' /\ DeletedAreEmpty'
    BY DEF RegTypes, PcOfOp, ReadsInside, DeletedAreEmpty
  <2> QED BY <2>2, <2>3, <2>4, <2>5, <2>6 DEF TypeInv, MqTypes
<1> QED BY <1>1, <1>2, <1>3, <1>4

\* The task that a grant resumes reads from the queue it waits for.
LEMMA ResumedOnQueue ==
    ASSUME MqAssumption, TypeInv, Resumed("MQ"), msg_count[block_obj[Me]] > 0
    PROVE  block_obj[Me] \in pesudo_mq_list
<1>1. Me \in Tasks /\ block_obj[Me] # NoObj
  BY ResumedFlags, TypesNow DEF Resumed, CallKept, Kinds
<1>2. block_obj[Me] \in Queues
  BY <1>1, TypesNow DEF BlockTypes
<1> QED BY <1>2, TypesNow DEF DeletedAreEmpty

\* Every step preserves TypeInv.
LEMMA NextTypeInv ==
    ASSUME MqAssumption, TasksAssumption, TimeAssumption, TypeInv, Next
    PROVE  TypeInv'
<1>1. CASE KernelStep
  BY <1>1, KernelStepTypeInv DEF KernelStep, KernelNext
<1>2. CASE Interrupt
  BY <1>2, KernelStepTypeInv, IsrTypeInv DEF Interrupt, KernelNext
<1>3. CASE MqStep
  <2>1. CASE ReturnReads
    <3>1. /\ block_obj[Me] \in pesudo_mq_list /\ msg_count[block_obj[Me]] > 0
          /\ pc = "resumed" /\ ReadCopy(block_obj[Me])
      BY <2>1, ResumedOnQueue DEF ReturnReads, Resumed
    <3> QED BY <3>1, ReadCopyTypeInv
  <2>2. CASE \E q \in Queues : DrainMq(q)
    BY <2>2, IsrTypeInv
  <2>3. CASE WriteCopy \/ WriteCount \/ WriteIndex \/ WriteWrap \/ WriteFlag
    BY <2>3, WriteTypeInv
  <2>4. CASE ReadTake \/ ReadBack \/ FlushIndexes
    BY <2>4, ReadTypeInv
  <2>5. CASE Scan \/ ReturnRead \/ ReturnWithout \/ DrainEnds
    BY <2>5, TaskTypeInv
  <2> QED BY <1>3, <2>1, <2>2, <2>3, <2>4, <2>5 DEF MqStep
<1>4. CASE MqCall
  <2>1. PICK q \in Queues :
            \/ \E o \in Opts, n \in 1..MaxSize : pesudo_mq_create(q, o, n)
            \/ pesudo_mq_delete(q)
            \/ \E m \in Msgs : SendTest(q, m)
            \/ ReceiveReads(q)
            \/ \E ms \in Delays : ReceiveBlocks(q, ms)
            \/ FlushCount(q)
    BY <1>4 DEF MqCall
  <2>2. CASE (\E o \in Opts, n \in 1..MaxSize : pesudo_mq_create(q, o, n)) \/ pesudo_mq_delete(q)
    BY <2>2, CreateTypeInv
  <2>3. CASE \E m \in Msgs : SendTest(q, m)
    BY <2>3, SendTypeInv
  <2>4. CASE ReceiveReads(q)
    BY <2>4, ReadCopyTypeInv DEF ReceiveReads, InTask
  <2>5. CASE \E ms \in Delays : ReceiveBlocks(q, ms)
    BY <2>5, TaskTypeInv
  <2>6. CASE FlushCount(q)
    BY <2>6, ReadTypeInv
  <2> QED BY <2>1, <2>2, <2>3, <2>4, <2>5, <2>6
<1> QED BY <1>1, <1>2, <1>3, <1>4 DEF Next

\* Stuttering steps preserve TypeInv.
LEMMA StutterTypeInv ==
    ASSUME TypeInv, UNCHANGED vars
    PROVE  TypeInv'
<1> USE TypesNow DEF vars, mqVars, mqFields, ringVars, regVars, histVars
<1>1. KernelInv' /\ BlockTypes' /\ pc' = pc
  BY KernelSame
<1>2. ListTypes' /\ CountTypes' /\ DataTypes' /\ RegTypes'
  BY DEF ListTypes, CountTypes, DataTypes, RegTypes
<1>3. FlagTypes'
  BY Zenon DEF FlagTypes
<1>4. PcOfOp' /\ ReadsInside' /\ DeletedAreEmpty'
  BY <1>1 DEF PcOfOp, ReadsInside, DeletedAreEmpty, InTask
<1> QED BY <1>1, <1>2, <1>3, <1>4 DEF TypeInv, MqTypes

\* TypeInv is an invariant of the queues.
LEMMA TypeInvAlways == Spec => []TypeInv
<1>1. Init => TypeInv
  BY MqAssumption, TasksAssumption, InitTypeInv
<1>2. TypeInv /\ [Next]_vars => TypeInv'
  BY MqAssumption, TasksAssumption, TimeAssumption, NextTypeInv, StutterTypeInv
<1> QED BY <1>1, <1>2, PTL DEF Spec

\* Every field stays in its type, with interrupts at any point of a queue function: a
\* read never leaves the buffer, and no call goes on inside a queue that was deleted.
THEOREM MqTypeOK == Spec => []TypeOK
  BY TypeInvAlways, TypeInvTypes, PTL

-----------------------------------------------------------------------------
(***************************************************************************)
(* GrantsAreBacked, made inductive.                                        *)
(***************************************************************************)

\* The call that reads for its own grant, until it has returned.
Reading(t) == op \in {"back", "leave"} /\ t = Me

\* A granted waiter nobody has robbed finds a message, also inside the functions.
Backed ==
    \A q \in pesudo_mq_list, t \in Tasks :
        t \in Waiters(q) /\ Granted(t) /\ t \notin robbed /\ ~Reading(t) => msg_count[q] > 0

\* What a waiter is.
LEMMA WaiterParts ==
    ASSUME NEW t, NEW q
    PROVE  t \in Waiters(q) <=> t \in Linked /\ "BLOCKED_MQ" \in state[t] /\ block_obj[t] = q
  BY DEF Waiters, Waiting, BlockedFlag

\* If no task becomes a granted waiter, or is taken for one that is not robbed, and no
\* queue that has one gets empty, Backed is preserved.
LEMMA BackedFrame ==
    ASSUME Backed,
           \A q \in pesudo_mq_list', t \in Tasks :
               (t \in Waiters(q) /\ Granted(t) /\ t \notin robbed /\ ~Reading(t))'
                 => \/ msg_count'[q] > 0
                    \/ /\ q \in pesudo_mq_list /\ t \in Waiters(q) /\ Granted(t)
                       /\ t \notin robbed /\ ~Reading(t)
                       /\ msg_count[q] > 0 => msg_count'[q] > 0
    PROVE  Backed'
  BY DEF Backed

\* Steps that leave the tasks, the grants and the counts alone, and no call that reads.
LEMMA QuietBacked ==
    ASSUME Backed, UNCHANGED <<list, state, objFields, current, robbed>>,
           pesudo_mq_list' \subseteq pesudo_mq_list,
           op' \in {"back", "leave"} \/ op \notin {"back", "leave"},
           \A q \in pesudo_mq_list' : msg_count'[q] > 0 \/ msg_count'[q] = msg_count[q]
    PROVE  Backed'
<1>1. /\ \A t, q : t \in Waiters(q)' <=> t \in Waiters(q)
      /\ \A t : Granted(t)' <=> Granted(t)
      /\ \A t : Reading(t) => Reading(t)'
  BY DEF Waiters, Waiting, Granted, Reading, Linked, objFields, Me
<1> QED BY <1>1, BackedFrame

\* The loop, the clock and the pesudo_task_* calls preserve Backed.
LEMMA KernelStepBacked ==
    ASSUME MqAssumption, TypeInv, Backed, KernelNext, Idle \/ Tick, UNCHANGED mqVars
    PROVE  Backed'
<1> USE DEF mqVars, mqFields, ringVars, regVars, histVars
<1>1. CASE Tick
  BY <1>1, QuietBacked DEF Tick, loopVars
<1>2. CASE Idle
  <2>1. KernelInv /\ Timers = {} /\ "MQ" \in Kinds /\ BlockedFlag("MQ") = "BLOCKED_MQ"
        /\ GrantFlag("MQ") = "RECV_MQ"
    BY TypesNow DEF MqAssumption, Kinds, BlockedFlag, GrantFlag
  <2>2. ASSUME NEW q \in pesudo_mq_list', NEW t \in Tasks,
               (t \in Waiters(q) /\ Granted(t) /\ t \notin robbed /\ ~Reading(t))'
        PROVE  /\ q \in pesudo_mq_list /\ t \in Waiters(q) /\ Granted(t)
               /\ t \notin robbed /\ ~Reading(t)
    <3>1. t \in Linked' /\ "BLOCKED_MQ" \in state'[t] /\ block_obj'[t] = q
      BY <2>2 DEF Waiters, Waiting, BlockedFlag
    <3>2. /\ t \in Linked /\ "BLOCKED_MQ" \in state[t] /\ block_obj'[t] = block_obj[t]
          /\ "RECV_MQ" \in state'[t] <=> "RECV_MQ" \in state[t]
      BY <2>1, <3>1, KernelWaiters
    <3> QED BY <1>2, <2>2, <3>1, <3>2, WaiterParts DEF Granted, Reading, Idle
  <2> QED BY <2>2, BackedFrame
<1> QED BY <1>1, <1>2

\* The scan grants only when there is a message.
LEMMA ScanBacked ==
    ASSUME MqAssumption, TypeInv, Backed, Scan
    PROVE  Backed'
<1> DEFINE found == IF msg_count[on] <= 0 THEN {} ELSE Selected(opt[on], Waiters(on))
<1>1. /\ state' = [t \in Tasks |-> IF t \in found THEN state[t] \cup {"RECV_MQ"} ELSE state[t]]
      /\ robbed' = robbed \ found
      /\ UNCHANGED <<list, block_obj, current, pesudo_mq_list, msg_count>>
      /\ op = "scan" /\ op' = "none" /\ on \in pesudo_mq_list
  BY TypesNow DEF Scan, Done, objFields, loopVars, mqFields, ringVars
<1>2. \A t \in found : t \in Waiters(on) /\ msg_count[on] > 0
  BY <1>1, TypesNow DEF Selected, CountTypes
<1> HIDE DEF found
<1>3. ASSUME NEW q \in pesudo_mq_list', NEW t \in Tasks,
             (t \in Waiters(q) /\ Granted(t) /\ t \notin robbed)'
      PROVE  \/ msg_count'[q] > 0
             \/ /\ q \in pesudo_mq_list /\ t \in Waiters(q) /\ Granted(t)
                /\ t \notin robbed /\ ~Reading(t)
                /\ msg_count[q] > 0 => msg_count'[q] > 0
  <2>1. t \in Linked /\ block_obj[t] = q /\ "BLOCKED_MQ" \in state'[t] /\ "RECV_MQ" \in state'[t]
    BY <1>1, <1>3 DEF Waiters, Waiting, BlockedFlag, Granted, Linked
  <2>2. CASE t \in found
    BY <1>1, <1>2, <2>1, <2>2, WaiterParts
  <2>3. CASE t \notin found
    BY <1>1, <1>3, <2>1, <2>3, WaiterParts DEF Granted, Reading
  <2> QED BY <2>2, <2>3
<1> QED BY <1>3, BackedFrame

\* A task begins to wait without a grant, and has none left when it returns.
LEMMA WaitBacked ==
    ASSUME MqAssumption, TypeInv, Backed,
           ReturnRead \/ ReturnWithout \/ \E q \in Queues, ms \in Delays : ReceiveBlocks(q, ms)
    PROVE  Backed'
<1>1. /\ state \in [Tasks -> SUBSET Flags] /\ block_obj \in [Tasks -> Queues \cup {NoObj}]
      /\ KernelInv
  BY TypesNow DEF BlockTypes, KernelInv, KernelTypeOK
<1>2. CASE ReturnRead \/ ReturnWithout
  <2>1. /\ state' = [state EXCEPT ![Me] = (@ \ {"BLOCKED_MQ", "RECV_MQ"}) \cup {"RUNNING"}]
        /\ block_obj' = [block_obj EXCEPT ![Me] = NoObj]
        /\ UNCHANGED <<list, current, pesudo_mq_list, msg_count>>
        /\ robbed' = robbed \ {Me} /\ op' = "none"
    BY <1>2 DEF ReturnRead, ReturnWithout, Return, Unblock, LeaveCall, BlockedFlag, GrantFlag,
                Done, mqFields, ringVars
  <2>2. ASSUME NEW q \in pesudo_mq_list', NEW t \in Tasks,
               (t \in Waiters(q) /\ Granted(t) /\ t \notin robbed)'
        PROVE  /\ q \in pesudo_mq_list /\ t \in Waiters(q) /\ Granted(t)
               /\ t \notin robbed /\ ~Reading(t)
    <3>1. t \in Linked /\ block_obj'[t] = q /\ "BLOCKED_MQ" \in state'[t] /\ "RECV_MQ" \in state'[t]
      BY <2>1, <2>2 DEF Waiters, Waiting, BlockedFlag, Granted, Linked
    <3>2. t # Me
      BY <1>1, <2>1, <3>1
    <3> QED BY <1>1, <2>1, <2>2, <3>1, <3>2, WaiterParts DEF Granted, Reading
  <2> QED BY <2>1, <2>2, BackedFrame
<1>3. ASSUME NEW p \in Queues, NEW ms \in Delays, ReceiveBlocks(p, ms)
      PROVE  Backed'
  <2>1. /\ state' = [state EXCEPT ![Me] = (@ \ {"RUNNING"}) \cup {"BLOCKED_MQ"}]
        /\ block_obj' = [block_obj EXCEPT ![Me] = p]
        /\ UNCHANGED <<list, current, pesudo_mq_list, msg_count, robbed, op>>
        /\ op = "none" /\ InTask
    BY <1>3 DEF ReceiveBlocks, Block, SaveContext, MayBlock, BlockedFlag, Idle, mqVars, mqFields,
                ringVars, regVars, histVars
  <2>2. "RECV_MQ" \notin state[Me]
    BY <1>1, <2>1, MeNotWaiting
  <2>3. ASSUME NEW q \in pesudo_mq_list', NEW t \in Tasks,
               (t \in Waiters(q) /\ Granted(t) /\ t \notin robbed)'
        PROVE  /\ q \in pesudo_mq_list /\ t \in Waiters(q) /\ Granted(t)
               /\ t \notin robbed /\ ~Reading(t)
    <3>1. t \in Linked /\ block_obj'[t] = q /\ "BLOCKED_MQ" \in state'[t] /\ "RECV_MQ" \in state'[t]
      BY <2>1, <2>3 DEF Waiters, Waiting, BlockedFlag, Granted, Linked
    <3>2. t # Me
      BY <1>1, <2>1, <2>2, <3>1
    <3> QED BY <1>1, <2>1, <2>3, <3>1, <3>2, WaiterParts DEF Granted, Reading
  <2> QED BY <2>1, <2>3, BackedFrame
<1> QED BY <1>2, <1>3

\* A read or a flush by the running task robs everybody else who is granted.
LEMMA RobBacked ==
    ASSUME MqAssumption, TypeInv, Backed, ReadTake \/ \E q \in Queues : FlushCount(q)
    PROVE  Backed'
<1>1. PICK p \in Queues :
          /\ Rob(p)
          /\ UNCHANGED <<list, state, block_obj, current, pesudo_mq_list>>
          /\ \A q \in Queues : q # p => msg_count'[q] = msg_count[q]
          /\ op \notin {"back", "leave"}
          /\ op' = "back" \/ InTask
  <2>1. ASSUME ReadTake
        PROVE  /\ Rob(on) /\ UNCHANGED <<list, state, block_obj, current, pesudo_mq_list>>
               /\ \A q \in Queues : q # on => msg_count'[q] = msg_count[q]
               /\ op = "take" /\ op' = "back"
    BY <2>1, TypesNow DEF ReadTake, Step, kernelVars, objFields, loopVars, mqFields, CountTypes
  <2>2. ASSUME NEW q \in Queues, FlushCount(q)
        PROVE  /\ Rob(q) /\ UNCHANGED <<list, state, block_obj, current, pesudo_mq_list>>
               /\ \A r \in Queues : r # q => msg_count'[r] = msg_count[r]
               /\ op = "none" /\ InTask
    BY <2>2, TypesNow DEF FlushCount, kernelVars, objFields, loopVars, mqFields, CountTypes, Idle
  <2> QED BY <2>1, <2>2, TypesNow DEF ReadTake
<1>2. ASSUME NEW q \in pesudo_mq_list', NEW t \in Tasks,
             (t \in Waiters(q) /\ Granted(t) /\ t \notin robbed /\ ~Reading(t))'
      PROVE  /\ q \in pesudo_mq_list /\ t \in Waiters(q) /\ Granted(t)
             /\ t \notin robbed /\ ~Reading(t)
             /\ msg_count[q] > 0 => msg_count'[q] > 0
  <2>1. q \in pesudo_mq_list /\ q \in Queues /\ t \in Waiters(q) /\ Granted(t)
    BY <1>1, <1>2, TypesNow DEF Waiters, Waiting, Granted, Linked
  <2>2. t \notin robbed /\ ~Reading(t)
    BY <1>1, <1>2 DEF Rob, Reading
  <2>3. t # Me
    <3>1. CASE op' = "back"
      BY <1>1, <1>2, <3>1 DEF Reading, Me
    <3>2. CASE InTask
      BY <2>1, <3>2, MeNotWaiting, TypesNow DEF Granted
    <3> QED BY <1>1, <3>1, <3>2
  <2>4. q # p
    BY <1>1, <1>2, <2>1, <2>3 DEF Rob
  <2> QED BY <1>1, <2>1, <2>2, <2>4
<1> QED BY <1>2, BackedFrame

\* A read that did not wait ends in the handler, which waits for nothing; one that did
\* goes on to the return.
LEMMA ReadBackBacked ==
    ASSUME MqAssumption, TypeInv, Backed, ReadBack
    PROVE  Backed'
<1>1. /\ UNCHANGED <<list, state, block_obj, current, pesudo_mq_list, msg_count, robbed>>
      /\ op = "back" /\ pc \in {"running", "resumed"}
      /\ pc = "resumed" => op' = "leave"
  BY TypesNow DEF ReadBack, Step, PcOfOp, kernelVars, objFields, loopVars, mqFields, histVars
<1>2. ASSUME NEW q \in pesudo_mq_list', NEW t \in Tasks,
             (t \in Waiters(q) /\ Granted(t) /\ t \notin robbed /\ ~Reading(t))'
      PROVE  /\ q \in pesudo_mq_list /\ t \in Waiters(q) /\ Granted(t)
             /\ t \notin robbed /\ ~Reading(t)
  <2>1. q \in pesudo_mq_list /\ t \in Waiters(q) /\ Granted(t) /\ t \notin robbed
    BY <1>1, <1>2 DEF Waiters, Waiting, Granted, Linked
  <2>2. t # Me
    <3>1. CASE pc = "resumed"
      BY <1>1, <1>2, <3>1 DEF Reading, Me
    <3>2. CASE pc = "running"
      BY <2>1, <3>2, MeNotWaiting, TypesNow DEF Granted, InTask
    <3> QED BY <1>1, <3>1, <3>2
  <2> QED BY <2>1, <2>2 DEF Reading
<1> QED BY <1>1, <1>2, BackedFrame

\* A queue is created when nobody waits at its address.
LEMMA CreateBacked ==
    ASSUME MqAssumption, TypeInv, Backed, NEW p \in Queues,
           \/ \E o \in Opts, n \in 1..MaxSize : pesudo_mq_create(p, o, n)
           \/ pesudo_mq_delete(p)
    PROVE  Backed'
<1>1. /\ UNCHANGED <<list, state, block_obj, current, robbed>>
      /\ op = "none" /\ op' = "none"
      /\ \A q \in pesudo_mq_list' : \/ q \in pesudo_mq_list /\ q # p
                                    \/ \A t \in Tasks : block_obj[t] # q
      /\ \A q \in Queues : q # p => msg_count'[q] = msg_count[q]
  BY TypesNow DEF pesudo_mq_create, pesudo_mq_delete, Fresh, Idle, kernelVars, objFields, loopVars,
                  regVars, CountTypes
<1>2. ASSUME NEW q \in pesudo_mq_list', NEW t \in Tasks,
             (t \in Waiters(q) /\ Granted(t) /\ t \notin robbed)'
      PROVE  /\ q \in pesudo_mq_list /\ t \in Waiters(q) /\ Granted(t)
             /\ t \notin robbed /\ ~Reading(t)
             /\ msg_count[q] > 0 => msg_count'[q] > 0
  <2>1. t \in Waiters(q) /\ Granted(t) /\ t \notin robbed /\ block_obj[t] = q
    BY <1>1, <1>2 DEF Waiters, Waiting, Granted, Linked
  <2>2. q \in pesudo_mq_list /\ q # p /\ q \in Queues
    BY <1>1, <2>1, TypesNow
  <2> QED BY <1>1, <2>1, <2>2 DEF Reading
<1> QED BY <1>2, BackedFrame

\* The send of an interrupt only adds a message.
LEMMA IsrBacked ==
    ASSUME TypeInv, Backed, NEW p \in Queues, NEW m \in Msgs, IsrSend(p, m)
    PROVE  Backed'
<1>1. /\ UNCHANGED <<list, state, objFields, current, robbed, pesudo_mq_list, op>>
      /\ msg_count' = [msg_count EXCEPT ![p] = @ + 1] \/ msg_count' = msg_count
  BY DEF IsrSend, kernelVars, loopVars, mqFields, ringVars, regVars
<1>2. \A q \in Queues : msg_count'[q] > 0 \/ msg_count'[q] = msg_count[q]
  BY <1>1, TypesNow DEF CountTypes
<1> QED BY <1>1, <1>2, TypesNow, QuietBacked

\* The steps of a write, and those that touch neither counts nor grants.
LEMMA RestBacked ==
    ASSUME MqAssumption, TypeInv, Backed,
           \/ WriteCopy \/ WriteCount \/ WriteIndex \/ WriteWrap \/ WriteFlag
           \/ FlushIndexes \/ DrainEnds
           \/ \E q \in Queues : \/ DrainMq(q)
                                \/ ReadCopy(q) /\ op = "none"
                                \/ \E m \in Msgs : SendTest(q, m)
    PROVE  Backed'
<1> USE DEF kernelVars, objFields, loopVars, mqFields, histVars
<1>1. CASE WriteCount
  <2>1. /\ UNCHANGED <<list, state, objFields, current, robbed, pesudo_mq_list>>
        /\ op = "count" /\ op' = "index"
        /\ msg_count' = [msg_count EXCEPT ![on] = loaded + 1] /\ loaded \in Nat
    BY <1>1, TypesNow DEF WriteCount, Step, CountTypes
  <2>2. \A q \in Queues : msg_count'[q] > 0 \/ msg_count'[q] = msg_count[q]
    BY <2>1, TypesNow DEF CountTypes
  <2> QED BY <2>1, <2>2, TypesNow, QuietBacked
<1>2. CASE WriteCopy \/ WriteIndex \/ WriteWrap \/ WriteFlag \/ FlushIndexes \/ DrainEnds
  <2>1. /\ UNCHANGED <<list, state, objFields, current, robbed, pesudo_mq_list, msg_count>>
        /\ op \notin {"back", "leave"} /\ op' \notin {"back", "leave"}
    BY <1>2 DEF WriteCopy, WriteIndex, WriteWrap, WriteFlag, FlushIndexes, DrainEnds, StartPass,
                Step, Done, Idle, regVars, ringVars
  <2> QED BY <2>1, QuietBacked
<1>3. ASSUME NEW q \in Queues,
             DrainMq(q) \/ (ReadCopy(q) /\ op = "none") \/ \E m \in Msgs : SendTest(q, m)
      PROVE  Backed'
  <2>1. /\ UNCHANGED <<list, state, objFields, current, robbed, pesudo_mq_list, msg_count>>
        /\ op \notin {"back", "leave"} /\ op' \notin {"back", "leave"}
    BY <1>3 DEF DrainMq, ReadCopy, SendTest, Idle, regVars, ringVars
  <2> QED BY <2>1, QuietBacked
<1> QED BY <1>1, <1>2, <1>3

\* Every step preserves Backed.
LEMMA NextBacked ==
    ASSUME MqAssumption, TypeInv, Backed, Next
    PROVE  Backed'
<1>1. CASE KernelStep
  BY <1>1, KernelStepBacked DEF KernelStep, KernelNext
<1>2. CASE Interrupt
  BY <1>2, KernelStepBacked, IsrBacked DEF Interrupt, KernelNext
<1>3. CASE MqStep
  <2>1. CASE ReturnReads
    <3>1. block_obj[Me] \in Queues /\ ReadCopy(block_obj[Me]) /\ op = "none"
      BY <2>1, ResumedOnQueue, TypesNow DEF ReturnReads, Idle
    <3> QED BY <3>1, RestBacked
  <2>2. CASE ReadTake \/ ReadBack \/ Scan \/ ReturnRead \/ ReturnWithout
    BY <2>2, RobBacked, ReadBackBacked, ScanBacked, WaitBacked
  <2>3. CASE \/ WriteCopy \/ WriteCount \/ WriteIndex \/ WriteWrap \/ WriteFlag \/ FlushIndexes
             \/ DrainEnds \/ \E q \in Queues : DrainMq(q)
    BY <2>3, RestBacked
  <2> QED BY <1>3, <2>1, <2>2, <2>3 DEF MqStep
<1>4. CASE MqCall
  <2>1. PICK q \in Queues :
            \/ \E o \in Opts, n \in 1..MaxSize : pesudo_mq_create(q, o, n)
            \/ pesudo_mq_delete(q)
            \/ \E m \in Msgs : SendTest(q, m)
            \/ ReceiveReads(q)
            \/ \E ms \in Delays : ReceiveBlocks(q, ms)
            \/ FlushCount(q)
    BY <1>4 DEF MqCall
  <2>2. CASE (\E o \in Opts, n \in 1..MaxSize : pesudo_mq_create(q, o, n)) \/ pesudo_mq_delete(q)
    BY <2>2, CreateBacked
  <2>3. CASE (\E m \in Msgs : SendTest(q, m)) \/ ReceiveReads(q)
    BY <2>3, RestBacked DEF ReceiveReads, Idle
  <2>4. CASE FlushCount(q) \/ \E ms \in Delays : ReceiveBlocks(q, ms)
    BY <2>4, RobBacked, WaitBacked
  <2> QED BY <2>1, <2>2, <2>3, <2>4
<1> QED BY <1>1, <1>2, <1>3, <1>4 DEF Next

\* A task that the queue has granted, and that no other task has robbed, finds a message,
\* whatever interrupts do: the single count stands for all the grants under way.
THEOREM GrantsLeadToMessages == Spec => []GrantsAreBacked
<1>1. Init => Backed
  BY DEF Init, Backed
<1>2. TypeInv /\ Backed /\ [Next]_vars => Backed'
  <2>1. TypeInv /\ Backed /\ UNCHANGED vars => Backed'
    BY QuietBacked DEF vars, kernelVars, loopVars, mqVars, mqFields, ringVars, regVars, histVars
  <2> QED BY <2>1, MqAssumption, NextBacked
<1>3. Backed => GrantsAreBacked
  BY DEF Backed, GrantsAreBacked, Idle, Reading
<1> QED BY <1>1, <1>2, <1>3, TypeInvAlways, PTL DEF Spec

-----------------------------------------------------------------------------
(***************************************************************************)
(* MessagesReachWaiters, made inductive.                                   *)
(***************************************************************************)

\* A queue has a waiter, and more messages than came after its deferred scan.
Owed(q) ==
    /\ q \in drained /\ ~(op = "scan" /\ on = q)
    /\ opt[q] \in {"FIFO", "LIFO"}
    /\ msg_count[q] > late[q] /\ Waiters(q) # {}

\* Outside the deferred work no queue has been through it; a queue that has, and is
\* not being scanned, has granted a waiter if it owes anybody a message.
Reached ==
    /\ BlockedInPast
    /\ pc # "drain" => drained = {}
    /\ \A q \in pesudo_mq_list : Owed(q) => \E t \in Waiters(q) : Granted(t)

\* Steps outside the deferred work only have to keep block_when in the past.
LEMMA OutsideReached ==
    ASSUME BlockedInPast', drained' = {}
    PROVE  Reached'
  BY DEF Reached, Owed

\* Steps that leave the tasks alone.
LEMMA QuietReached ==
    ASSUME Reached, UNCHANGED <<list, state, objFields, now, pc, opt, pesudo_mq_list, op, on>>,
           drained' = drained,
           \A q \in drained \cap pesudo_mq_list : msg_count'[q] > late'[q] => msg_count[q] > late[q]
    PROVE  Reached'
<1>1. /\ \A t, q : t \in Waiters(q)' <=> t \in Waiters(q)
      /\ \A t : Granted(t)' <=> Granted(t)
  BY DEF Waiters, Waiting, Granted, Linked, objFields
<1>2. BlockedInPast' /\ (pc # "drain" => drained = {})'
  BY DEF Reached, BlockedInPast, objFields
<1>3. ASSUME NEW q \in pesudo_mq_list', Owed(q)'
      PROVE  \E t \in Waiters(q)' : Granted(t)'
  <2>1. q \in pesudo_mq_list /\ Owed(q)
    BY <1>1, <1>3 DEF Owed
  <2> QED BY <1>1, <2>1 DEF Reached
<1> QED BY <1>2, <1>3 DEF Reached

\* The scan of a queue that owes a message grants a waiter.
LEMMA ScanReached ==
    ASSUME TypeInv, Reached, Scan
    PROVE  Reached'
<1> DEFINE found == IF msg_count[on] <= 0 THEN {} ELSE Selected(opt[on], Waiters(on))
<1>1. /\ state' = [t \in Tasks |-> IF t \in found THEN state[t] \cup {"RECV_MQ"} ELSE state[t]]
      /\ UNCHANGED <<now, list, block_when, block_obj, pc, opt, pesudo_mq_list, msg_count, late,
                     drained>>
      /\ op = "scan" /\ op' = "none" /\ on \in pesudo_mq_list /\ on \in Queues
      /\ state \in [Tasks -> SUBSET Flags] /\ Linked \subseteq Tasks
  BY TypesNow, LinkedAreTasks
     DEF Scan, Done, objFields, loopVars, mqFields, ringVars, KernelInv, KernelTypeOK
<1>2. found \subseteq Waiters(on)
  BY DEF Selected
<1>3. ASSUME opt[on] \in {"FIFO", "LIFO"}, msg_count[on] > late[on], Waiters(on) # {}
      PROVE  found # {}
  <2>1. Waiters(on) \in SUBSET Linked /\ KernelTypeOK /\ BlockedInPast
    BY WaitersAreTasks, TypesNow DEF Reached, KernelInv
  <2>2. Selected(opt[on], Waiters(on)) # {}
    BY <1>3, <2>1, SelectedExists
  <2>3. ~(msg_count[on] <= 0)
    BY <1>1, <1>3, TypesNow DEF CountTypes
  <2> QED BY <2>2, <2>3
<1> HIDE DEF found
<1>4. \A t \in Tasks : \A q : t \in Waiters(q)' <=> t \in Waiters(q)
  BY <1>1 DEF Waiters, Waiting, Linked, BlockedFlag
<1>5. \A t \in Tasks : Granted(t)' <=> Granted(t) \/ t \in found
  BY <1>1 DEF Granted
<1>6. \A q : Waiters(q) \subseteq Tasks /\ Waiters(q)' \subseteq Tasks
  BY <1>1 DEF Waiters, Waiting, Linked
<1>7. ASSUME NEW q \in pesudo_mq_list', Owed(q)'
      PROVE  \E t \in Waiters(q)' : Granted(t)'
  <2>1. /\ q \in pesudo_mq_list /\ q \in drained /\ opt[q] \in {"FIFO", "LIFO"}
        /\ msg_count[q] > late[q] /\ Waiters(q) # {}
    BY <1>1, <1>4, <1>6, <1>7 DEF Owed
  <2>2. CASE q = on
    BY <1>2, <1>3, <1>4, <1>5, <1>6, <2>1, <2>2
  <2>3. CASE q # on
    <3>1. PICK t \in Waiters(q) : Granted(t)
      BY <2>1, <2>3 DEF Reached, Owed
    <3> QED BY <1>4, <1>5, <1>6, <3>1
  <2> QED BY <2>2, <2>3
<1>8. BlockedInPast' /\ (pc # "drain" => drained = {})'
  BY <1>1 DEF Reached, BlockedInPast
<1> QED BY <1>7, <1>8 DEF Reached

\* The deferred work comes to a queue: it is scanned, or it has no message.
LEMMA DrainReached ==
    ASSUME TypeInv, Reached, NEW p \in Queues, DrainMq(p)
    PROVE  Reached'
<1>1. /\ UNCHANGED <<list, state, objFields, now, pc, opt, pesudo_mq_list, msg_count, late>>
      /\ drained' = drained \cup {p} /\ pc = "drain" /\ op = "none"
      /\ IF msg_count[p] > 0 THEN op' = "scan" /\ on' = p ELSE op' = "none"
  BY DEF DrainMq, kernelVars, loopVars, mqFields, ringVars, histVars, Idle
<1>2. /\ \A t, q : t \in Waiters(q)' <=> t \in Waiters(q)
      /\ \A t : Granted(t)' <=> Granted(t)
  BY <1>1 DEF Waiters, Waiting, Granted, Linked, objFields
<1>3. ASSUME NEW q \in pesudo_mq_list', Owed(q)'
      PROVE  \E t \in Waiters(q)' : Granted(t)'
  <2>1. q # p
    BY <1>1, <1>3, TypesNow DEF Owed, CountTypes
  <2>2. q \in pesudo_mq_list /\ Owed(q)
    BY <1>1, <1>2, <1>3, <2>1 DEF Owed
  <2> QED BY <1>2, <2>2 DEF Reached
<1>4. BlockedInPast' /\ (pc # "drain" => drained = {})'
  BY <1>1 DEF Reached, BlockedInPast, objFields
<1> QED BY <1>3, <1>4 DEF Reached

\* A message that an interrupt sends after the scan of its queue is owed in the next
\* pass.
LEMMA IsrReached ==
    ASSUME TypeInv, Reached, NEW p \in Queues, NEW m \in Msgs, IsrSend(p, m)
    PROVE  Reached'
<1>1. /\ UNCHANGED <<list, state, objFields, now, pc, opt, pesudo_mq_list, op, on, drained>>
      /\ \/ msg_count' = msg_count /\ late' = late
         \/ /\ msg_count' = [msg_count EXCEPT ![p] = @ + 1]
            /\ late' = IF p \in drained THEN [late EXCEPT ![p] = @ + 1] ELSE late
  BY DEF IsrSend, kernelVars, loopVars, mqFields, ringVars, regVars
<1>2. \A q \in drained \cap pesudo_mq_list :
          msg_count'[q] > late'[q] => msg_count[q] > late[q]
  BY <1>1, TypesNow DEF CountTypes
<1> QED BY <1>1, <1>2, QuietReached

\* Steps of functions and calls that are not part of the deferred work.
LEMMA CallReached ==
    ASSUME TypeInv, Reached, pc # "drain", drained' = drained,
           \/ UNCHANGED <<now, block_when>>
           \/ Unblock("MQ")
           \/ \E q \in Objects, ms \in Delays : Block("MQ", q, ms)
    PROVE  Reached'
<1>1. KernelInv /\ BlockedInPast /\ drained' = {} /\ "MQ" \in Kinds
  BY TypesNow DEF Reached, Kinds
<1>2. CASE UNCHANGED <<now, block_when>>
  BY <1>1, <1>2, OutsideReached DEF BlockedInPast
<1> QED BY <1>1, <1>2, BlockUnblockInPast, OutsideReached

\* Every step preserves Reached.
LEMMA NextReached ==
    ASSUME MqAssumption, TypeInv, Reached, Next
    PROVE  Reached'
<1> USE DEF mqVars, mqFields, kernelVars, objFields, histVars
<1>0. KernelInv /\ PcOfOp
  BY TypesNow
<1>1. CASE KernelStep
  <2>1. KernelNext /\ pc # "drain" /\ drained' = drained
    BY <1>1 DEF KernelStep, KernelNext, LoopStep, VisitNext, VisitDispatch, VisitWakeup,
                VisitGranted, VisitTimeout, VisitSkip, Resume, Visit, EndPass, LoopAstray,
                Astray, HandlerReturns, TaskCall, pesudo_task_create, pesudo_task_delete, pesudo_task_suspend,
                pesudo_task_resume, pesudo_task_sleep, pesudo_task_sleep_until, MayBlock,
                SleepUntilLate, DelayEnds, SleepTail, Resumed, InTask
  <2> QED BY <1>0, <2>1, KernelBlockedInPast, OutsideReached DEF Reached
<1>2. CASE Interrupt
  <2>1. CASE Tick /\ UNCHANGED mqVars
    <3>1. BlockedInPast'
      BY <1>0, <2>1, KernelBlockedInPast DEF KernelNext, Reached
    <3>2. /\ \A t, q : t \in Waiters(q)' <=> t \in Waiters(q)
          /\ \A t : Granted(t)' <=> Granted(t)
      BY <2>1 DEF Tick, Waiters, Waiting, Granted, Linked
    <3>3. ASSUME NEW q \in pesudo_mq_list', Owed(q)'
          PROVE  \E t \in Waiters(q)' : Granted(t)'
      <4>1. q \in pesudo_mq_list /\ Owed(q)
        BY <2>1, <3>2, <3>3 DEF Owed, ringVars, regVars
      <4> QED BY <3>2, <4>1 DEF Reached
    <3> QED BY <2>1, <3>1, <3>3 DEF Reached, Tick, loopVars
  <2> QED BY <1>2, <2>1, IsrReached DEF Interrupt
<1>3. CASE MqStep
  <2>1. CASE Scan \/ \E q \in Queues : DrainMq(q)
    BY <2>1, ScanReached, DrainReached
  <2>2. CASE DrainEnds
    BY <2>2, OutsideReached DEF DrainEnds, StartPass, Reached, BlockedInPast
  <2>3. CASE ReturnRead \/ ReturnWithout
    BY <2>3, CallReached DEF ReturnRead, ReturnWithout, Return, Unblock, Resumed
  <2>4. CASE \/ WriteCopy \/ WriteCount \/ WriteIndex \/ WriteWrap \/ WriteFlag
             \/ ReadTake \/ ReadBack \/ ReturnReads \/ FlushIndexes
    <3>1. UNCHANGED <<now, block_when, drained>> /\ pc # "drain"
      BY <1>0, <2>4 DEF WriteCopy, WriteCount, WriteIndex, WriteWrap, WriteFlag, ReadTake,
                        ReadBack, ReturnReads, ReadCopy, FlushIndexes, PcOfOp, InTask, Resumed
    <3> QED BY <3>1, CallReached
  <2> QED BY <1>3, <2>1, <2>2, <2>3, <2>4 DEF MqStep
<1>4. CASE MqCall
  <2>1. PICK q \in Queues :
            \/ \E o \in Opts, n \in 1..MaxSize : pesudo_mq_create(q, o, n)
            \/ pesudo_mq_delete(q)
            \/ \E m \in Msgs : SendTest(q, m)
            \/ ReceiveReads(q)
            \/ \E ms \in Delays : ReceiveBlocks(q, ms)
            \/ FlushCount(q)
    BY <1>4 DEF MqCall
  <2>2. CASE \E ms \in Delays : ReceiveBlocks(q, ms)
    BY <2>2, CallReached DEF ReceiveBlocks, Block, MayBlock, InTask, MqAssumption
  <2>3. CASE \/ \E o \in Opts, n \in 1..MaxSize : pesudo_mq_create(q, o, n)
             \/ pesudo_mq_delete(q)
             \/ \E m \in Msgs : SendTest(q, m)
             \/ ReceiveReads(q)
             \/ FlushCount(q)
    <3>1. UNCHANGED <<now, block_when, drained>> /\ pc # "drain"
      BY <2>3 DEF pesudo_mq_create, pesudo_mq_delete, SendTest, ReceiveReads, ReadCopy,
                  FlushCount, InTask
    <3> QED BY <3>1, CallReached
  <2> QED BY <2>1, <2>2, <2>3
<1> QED BY <1>1, <1>2, <1>3, <1>4 DEF Next

\* When a queue has been through the deferred work, a message that came before and a
\* waiter mean a grant, whoever blocked in the same tick.
THEOREM DeferredWorkGrants == Spec => []MessagesReachWaiters
<1>1. Init => Reached
  BY DEF Init, KernelInit, Reached, Owed, BlockedInPast
<1>2. TypeInv /\ Reached /\ [Next]_vars => Reached'
  <2>1. TypeInv /\ Reached /\ UNCHANGED vars => Reached'
    BY QuietReached DEF vars, kernelVars, loopVars, mqVars, mqFields, ringVars, regVars, histVars
  <2> QED BY <2>1, MqAssumption, NextReached
<1>3. Reached => MessagesReachWaiters
  BY DEF Reached, MessagesReachWaiters, Owed, Idle
<1> QED BY <1>1, <1>2, <1>3, TypeInvAlways, PTL DEF Spec

-----------------------------------------------------------------------------
(***************************************************************************)
(* The ring, while interrupts are masked inside the queue functions.       *)
(***************************************************************************)

\* Where the next message goes when `count` messages are inside.
Behind(q, count) ==
    LET s == rd_index[q] + count IN IF s >= item_count[q] THEN s - item_count[q] ELSE s

\* The write index follows from the read index and the count, and no more messages are
\* counted than fit.
Ring(q) ==
    /\ msg_count[q] <= item_count[q]
    /\ wr_index[q] = Behind(q, msg_count[q])

FullKnown(q) == msg_count[q] = item_count[q] => full[q]

\* What holds of the queue a function is inside, at each of its steps.
InFunction ==
    /\ op \in {"write", "count"} => Ring(on) /\ msg_count[on] < item_count[on]
    /\ op = "count" => loaded = msg_count[on] /\ data[on][wr_index[on]] = item
    /\ op \in {"index", "wrap"} => msg_count[on] > 0 /\ msg_count[on] <= item_count[on]
    /\ op = "index" => loaded = wr_index[on] /\ wr_index[on] = Behind(on, msg_count[on] - 1)
    /\ op = "wrap" => wr_index[on] = Behind(on, msg_count[on] - 1) + 1
    /\ op \in {"flag", "scan", "take", "back", "leave"} => Ring(on)
    /\ op = "flag" => (msg_count[on] = item_count[on] => flag)
    /\ op \in {"scan", "leave"} => FullKnown(on)
    /\ op = "take" => /\ loaded = msg_count[on] /\ msg_count[on] > 0
                      /\ item = data[on][rd_index[on]]
    /\ op = "back" => msg_count[on] < item_count[on]
    /\ op = "flush" => msg_count[on] = 0

\* Every queue that no function is inside is a ring, and knows when it is full.
RingInv ==
    /\ InFunction
    /\ \A q \in Queues : op = "none" \/ q # on => Ring(q) /\ FullKnown(q)

\* Indexes are inside the buffer.
LEMMA BehindInside ==
    ASSUME TypeInv, NEW q \in Queues, NEW c \in 0..item_count[q]
    PROVE  Behind(q, c) \in 0..(item_count[q] - 1)
  BY TypesNow DEF Behind, ReadsInside, CountTypes, ListTypes

\* The slot behind the last message, wrapped, is the slot of the next one.
LEMMA BehindNext ==
    ASSUME TypeInv, NEW q \in Queues, NEW c \in 0..(item_count[q] - 1)
    PROVE  Wrapped(q, Behind(q, c) + 1) = Behind(q, c + 1)
  BY TypesNow DEF Behind, Wrapped, ReadsInside, CountTypes, ListTypes

\* Reading the first message moves the ring, not its end.
LEMMA BehindRead ==
    ASSUME TypeInv, NEW q \in Queues, NEW c \in 1..item_count[q],
           rd_index'[q] = Wrapped(q, rd_index[q] + 1), item_count'[q] = item_count[q]
    PROVE  Behind(q, c - 1)' = Behind(q, c)
  BY TypesNow DEF Behind, Wrapped, ReadsInside, CountTypes, ListTypes

\* What a queue's ring depends on.
LEMMA RingSame ==
    ASSUME NEW q, msg_count'[q] = msg_count[q], item_count'[q] = item_count[q],
           rd_index'[q] = rd_index[q], wr_index'[q] = wr_index[q]
    PROVE  Ring(q)' <=> Ring(q)
  BY DEF Ring, Behind

\* What the ring lemmas use of the types.
LEMMA RingTypes ==
    ASSUME TypeInv, NEW q \in Queues
    PROVE  /\ msg_count[q] \in Nat /\ wr_index[q] \in Nat /\ rd_index[q] \in Nat
           /\ item_count[q] \in Nat /\ item_count[q] > 0 /\ rd_index[q] < item_count[q]
           /\ loaded \in Nat
  BY TypesNow DEF CountTypes, ListTypes, ReadsInside

\* A step inside a function changes the ring of its own queue only.
LEMMA OthersKept ==
    ASSUME RingInv, NEW p \in Queues,
           \A q \in Queues \ {p} :
               /\ msg_count'[q] = msg_count[q] /\ item_count'[q] = item_count[q]
               /\ rd_index'[q] = rd_index[q] /\ wr_index'[q] = wr_index[q]
               /\ full'[q] = full[q],
           op = "none" \/ on = p
    PROVE  \A q \in Queues \ {p} : Ring(q)' /\ FullKnown(q)'
<1> TAKE q \in Queues \ {p}
<1>1. Ring(q) /\ FullKnown(q)
  BY DEF RingInv
<1>2. Ring(q)'
  BY <1>1, RingSame
<1>3. FullKnown(q)'
  BY <1>1, Zenon DEF FullKnown
<1> QED BY <1>2, <1>3

\* Steps that leave the rings, and what the functions keep of them, alone.
LEMMA QuietRing ==
    ASSUME RingInv, UNCHANGED <<item_count, ringVars>>,
           \/ UNCHANGED <<op, on, loaded, item, flag>>
           \/ op = "none" /\ op' = "none"
    PROVE  RingInv'
<1> USE DEF ringVars
<1>1. \A q : (Ring(q)' <=> Ring(q)) /\ (FullKnown(q)' <=> FullKnown(q))
      /\ \A c : Behind(q, c)' = Behind(q, c)
  BY DEF Ring, FullKnown, Behind
<1>2. InFunction'
  <2>1. CASE op' = "none"
    BY <2>1 DEF InFunction
  <2>2. CASE UNCHANGED <<op, on, loaded, item, flag>>
    BY <1>1, <2>2, Zenon DEF InFunction, RingInv
  <2> QED BY <2>1, <2>2
<1> QED BY <1>1, <1>2 DEF RingInv

\* A step of a function on queue p preserves RingInv: what it leaves is the next line
\* of InFunction, or a ring.
LEMMA RingStep ==
    ASSUME RingInv, NEW p \in Queues, op = "none" \/ on = p,
           \A q \in Queues \ {p} :
               /\ msg_count'[q] = msg_count[q] /\ item_count'[q] = item_count[q]
               /\ rd_index'[q] = rd_index[q] /\ wr_index'[q] = wr_index[q]
               /\ full'[q] = full[q],
           InFunction',
           (op' # "none" /\ on' = p) \/ (Ring(p)' /\ FullKnown(p)')
    PROVE  RingInv'
<1>1. \A q \in Queues \ {p} : Ring(q)' /\ FullKnown(q)'
  BY OthersKept
<1> QED BY <1>1 DEF RingInv

\* The steps of pesudo_mq_write() up to the wrap keep the ring.
LEMMA WriteRing ==
    ASSUME MqAssumption, TypeInv, RingInv, NEW p \in Queues, p = on,
           WriteCopy \/ WriteCount \/ WriteIndex
    PROVE  RingInv'
<1> USE DEF Step, mqFields
<1>1. CASE WriteCopy
  <2>1. /\ op = "write" /\ op' = "count" /\ on = p /\ on' = p
        /\ UNCHANGED <<item_count, msg_count, wr_index, rd_index, full, item>>
        /\ loaded' = msg_count[p]
        /\ data' = [data EXCEPT ![p][wr_index[p]] = item]
    BY <1>1 DEF WriteCopy
  <2>2. Ring(p)' /\ msg_count[p] < item_count[p]
    BY <2>1, RingSame DEF RingInv, InFunction
  <2>3. data'[p][wr_index[p]] = item
    <3>1. wr_index[p] \in Slots
      <4>1. Ring(p)
        BY <2>1 DEF RingInv, InFunction
      <4>2. msg_count[p] \in 0..item_count[p] /\ item_count[p] \in 1..MaxSize
        BY <2>1, <2>2, TypesNow DEF CountTypes, ListTypes
      <4>3. wr_index[p] \in 0..(item_count[p] - 1)
        BY <4>1, <4>2, BehindInside DEF Ring
      <4> QED BY <4>2, <4>3, Values DEF Slots
    <3> QED BY <2>1, <3>1, TypesNow DEF DataTypes
  <2>4. InFunction'
    BY <2>1, <2>2, <2>3 DEF InFunction
  <2> QED BY <2>1, <2>4, RingStep
<1>2. CASE WriteCount
  <2>1. /\ op = "count" /\ op' = "index" /\ on = p /\ on' = p
        /\ UNCHANGED <<item_count, wr_index, rd_index, full>>
        /\ loaded' = wr_index[p]
        /\ msg_count' = [msg_count EXCEPT ![p] = loaded + 1]
    BY <1>2 DEF WriteCount
  <2>2. Ring(p) /\ msg_count[p] < item_count[p] /\ loaded = msg_count[p]
    BY <2>1 DEF RingInv, InFunction
  <2>3. msg_count'[p] = msg_count[p] + 1 /\ msg_count[p] \in Nat /\ item_count[p] \in Nat
        /\ \A q \in Queues \ {p} : msg_count'[q] = msg_count[q]
    BY <2>1, <2>2, TypesNow DEF CountTypes, ListTypes
  <2>4. wr_index'[p] = Behind(p, msg_count[p] - 1)'
    BY <2>1, <2>2, <2>3, RingTypes DEF Ring, Behind
  <2>5. InFunction'
    BY <2>1, <2>2, <2>3, <2>4 DEF InFunction
  <2> QED BY <2>1, <2>3, <2>5, RingStep
<1>3. CASE WriteIndex
  <2>1. /\ op = "index" /\ op' = "wrap" /\ on = p /\ on' = p
        /\ UNCHANGED <<item_count, msg_count, rd_index, full>>
        /\ wr_index' = [wr_index EXCEPT ![p] = loaded + 1]
    BY <1>3 DEF WriteIndex
  <2>2. msg_count[p] > 0 /\ msg_count[p] <= item_count[p] /\ loaded = Behind(p, msg_count[p] - 1)
    BY <2>1 DEF RingInv, InFunction
  <2>3. wr_index'[p] = loaded + 1 /\ \A q \in Queues \ {p} : wr_index'[q] = wr_index[q]
    BY <2>1, TypesNow DEF CountTypes
  <2>4. wr_index'[p] = Behind(p, msg_count[p] - 1)' + 1
    BY <2>1, <2>2, <2>3 DEF Behind
  <2>5. InFunction'
    BY <2>1, <2>2, <2>4 DEF InFunction
  <2> QED BY <2>1, <2>3, <2>5, RingStep
<1> QED BY <1>1, <1>2, <1>3

\* After the wrap the ring is whole again, and the flag that follows is right.
LEMMA WrapRing ==
    ASSUME TypeInv, RingInv, NEW p \in Queues, p = on, WriteWrap \/ WriteFlag
    PROVE  RingInv'
<1> USE DEF Step, mqFields
<1>1. CASE WriteWrap
  <2>1. /\ op = "wrap" /\ op' = "flag" /\ on = p /\ on' = p
        /\ UNCHANGED <<item_count, msg_count, rd_index, full>>
        /\ wr_index' = [wr_index EXCEPT ![p] = Wrapped(p, @)]
    BY <1>1 DEF WriteWrap
  <2>2. /\ msg_count[p] > 0 /\ msg_count[p] <= item_count[p]
        /\ wr_index[p] = Behind(p, msg_count[p] - 1) + 1
    BY <2>1 DEF RingInv, InFunction
  <2>3. /\ wr_index'[p] = Wrapped(p, wr_index[p])
        /\ \A q \in Queues \ {p} : wr_index'[q] = wr_index[q]
    BY <2>1, TypesNow DEF CountTypes
  <2>4. msg_count[p] - 1 \in 0..(item_count[p] - 1) /\ msg_count[p] - 1 + 1 = msg_count[p]
    BY <2>1, <2>2, TypesNow DEF CountTypes, ListTypes
  <2>5. wr_index'[p] = Behind(p, msg_count[p])
    BY <2>1, <2>2, <2>3, <2>4, BehindNext
  <2>6. Ring(p)'
    BY <2>1, <2>2, <2>5 DEF Ring, Behind
  <2>7. msg_count'[p] = item_count'[p] => flag'
    BY <1>1, <2>1, Zenon DEF WriteWrap
  <2>8. InFunction'
    BY <2>1, <2>6, <2>7, Zenon DEF InFunction
  <2> QED BY <2>1, <2>3, <2>8, RingStep
<1>2. CASE WriteFlag
  <2>1. /\ op = "flag" /\ op' = "scan" /\ on = p /\ on' = p
        /\ UNCHANGED <<item_count, msg_count, wr_index, rd_index>>
        /\ full' = [full EXCEPT ![p] = flag]
    BY <1>2 DEF WriteFlag
  <2>2. Ring(p)
    BY <2>1 DEF RingInv, InFunction
  <2>3. msg_count[p] = item_count[p] => flag
    BY <2>1, Zenon DEF RingInv, InFunction
  <2>4. full'[p] = flag /\ \A q \in Queues \ {p} : full'[q] = full[q]
    BY <2>1, TypesNow, Zenon DEF FlagTypes
  <2>5. Ring(p)'
    BY <2>1, <2>2, RingSame
  <2>6. FullKnown(p)'
    BY <2>1, <2>3, <2>4, Zenon DEF FullKnown
  <2>7. InFunction'
    BY <2>1, <2>5, <2>6, Zenon DEF InFunction
  <2> QED BY <2>1, <2>4, <2>7, RingStep
<1> QED BY <1>1, <1>2

\* The same for steps that leave the rings alone.
LEMMA RegStep ==
    ASSUME RingInv, NEW p \in Queues, op = "none" \/ on = p,
           UNCHANGED <<item_count, ringVars>>, InFunction',
           (op' # "none" /\ on' = p) \/ (Ring(p) /\ FullKnown(p))
    PROVE  RingInv'
<1>1. /\ msg_count' = msg_count /\ item_count' = item_count /\ rd_index' = rd_index
      /\ wr_index' = wr_index
  BY DEF ringVars
<1>2. full' = full
  BY DEF ringVars
<1>3. Ring(p) => Ring(p)'
  BY <1>1, RingSame
<1>4. FullKnown(p) => FullKnown(p)'
  BY <1>1, <1>2, Zenon DEF FullKnown
<1> QED BY <1>1, <1>2, <1>3, <1>4, RingStep, Zenon

\* A function that begins finds its queue a ring.
LEMMA EnterRing ==
    ASSUME TypeInv, RingInv, NEW p \in Queues, op = "none",
           \/ \E m \in Msgs : SendTest(p, m)
           \/ ReadCopy(p) /\ msg_count[p] > 0
           \/ DrainMq(p)
    PROVE  RingInv'
<1>0. Ring(p)
  BY DEF RingInv
<1>f. FullKnown(p)
  BY DEF RingInv
<1> USE DEF ringVars, mqFields
<1>1. ASSUME NEW m \in Msgs, SendTest(p, m)
      PROVE  RingInv'
  <2>1. /\ op' = "write" /\ on' = p /\ msg_count[p] # item_count[p]
        /\ UNCHANGED <<item_count, msg_count, wr_index, rd_index>>
    BY <1>1 DEF SendTest
  <2>2. Ring(p)' /\ msg_count[p] < item_count[p]
    BY <1>0, <2>1, RingSame, RingTypes DEF Ring
  <2>3. InFunction'
    BY <2>1, <2>2 DEF InFunction
  <2>4. UNCHANGED <<item_count, ringVars>>
    BY <1>1 DEF SendTest
  <2> QED BY <2>1, <2>3, <2>4, RegStep
<1>2. ASSUME ReadCopy(p), msg_count[p] > 0
      PROVE  RingInv'
  <2>1. /\ op' = "take" /\ on' = p /\ item' = data[p][rd_index[p]] /\ loaded' = msg_count[p]
        /\ UNCHANGED <<item_count, msg_count, wr_index, rd_index, data>>
    BY <1>2 DEF ReadCopy
  <2>2. Ring(p)'
    BY <1>0, <2>1, RingSame
  <2>3. InFunction'
    BY <1>2, <2>1, <2>2 DEF InFunction
  <2>4. UNCHANGED <<item_count, ringVars>>
    BY <1>2 DEF ReadCopy
  <2> QED BY <2>1, <2>3, <2>4, RegStep
<1>3. CASE DrainMq(p)
  <2>1. /\ UNCHANGED <<item_count, msg_count, wr_index, rd_index>>
        /\ (op' = "scan" /\ on' = p) \/ op' = "none"
    BY <1>3 DEF DrainMq
  <2>2. UNCHANGED <<item_count, ringVars>>
    BY <1>3 DEF DrainMq
  <2>3. Ring(p)'
    BY <1>0, <2>1, RingSame
  <2>4. FullKnown(p)'
    BY <1>f, <2>2, Zenon DEF FullKnown
  <2>5. InFunction'
    BY <2>1, <2>3, <2>4, Zenon DEF InFunction
  <2> QED BY <1>0, <1>f, <2>1, <2>2, <2>5, RegStep
<1> QED BY <1>1, <1>2, <1>3

\* A function that ends leaves its queue a ring.
LEMMA LeaveRing ==
    ASSUME TypeInv, RingInv, NEW p \in Queues, p = on, Scan \/ ReturnRead
    PROVE  RingInv'
<1>1. /\ op \in {"scan", "leave"} /\ op' = "none" /\ UNCHANGED <<item_count, ringVars>>
  BY DEF Scan, ReturnRead, Return, Done, mqFields
<1>2. Ring(p)
  BY <1>1 DEF RingInv, InFunction
<1>3. FullKnown(p)
  BY <1>1 DEF RingInv, InFunction
<1>4. InFunction'
  BY <1>1 DEF InFunction
<1> QED BY <1>1, <1>2, <1>3, <1>4, RegStep

\* A read takes the first message off the ring.
LEMMA ReadRing ==
    ASSUME TypeInv, RingInv, NEW p \in Queues, p = on, ReadTake \/ ReadBack
    PROVE  RingInv'
<1> USE DEF Step, mqFields
<1>1. CASE ReadTake
  <2>1. /\ op = "take" /\ op' = "back" /\ on = p /\ on' = p
        /\ UNCHANGED <<item_count, wr_index, full>>
        /\ msg_count' = [msg_count EXCEPT ![p] = loaded - 1]
        /\ rd_index' = [rd_index EXCEPT ![p] = Wrapped(p, @ + 1)]
    BY <1>1 DEF ReadTake
  <2>2. /\ Ring(p) /\ loaded = msg_count[p] /\ msg_count[p] > 0
    BY <2>1 DEF RingInv, InFunction
  <2>3. /\ msg_count'[p] = msg_count[p] - 1 /\ rd_index'[p] = Wrapped(p, rd_index[p] + 1)
        /\ \A q \in Queues \ {p} : msg_count'[q] = msg_count[q] /\ rd_index'[q] = rd_index[q]
    BY <2>1, <2>2, TypesNow DEF CountTypes
  <2>4. msg_count[p] \in 1..item_count[p] /\ item_count'[p] = item_count[p]
    BY <2>1, <2>2, RingTypes DEF Ring
  <2>5. Ring(p)'
    <3>1. PICK c \in 1..item_count[p] : c = msg_count[p]
      BY <2>4
    <3>2. Behind(p, c - 1)' = Behind(p, c)
      BY <2>3, <2>4, BehindRead
    <3>3. wr_index'[p] = Behind(p, c - 1)'
      BY <2>1, <2>2, <3>1, <3>2 DEF Ring
    <3> QED BY <2>3, <2>4, <3>1, <3>3, RingTypes DEF Ring, Behind
  <2>6. msg_count'[p] < item_count'[p]
    BY <2>3, <2>4, RingTypes
  <2>7. InFunction'
    BY <2>1, <2>5, <2>6 DEF InFunction
  <2> QED BY <2>1, <2>3, <2>7, RingStep
<1>2. CASE ReadBack
  <2>1. /\ op = "back" /\ on = p
        /\ UNCHANGED <<item_count, msg_count, wr_index, rd_index>>
        /\ full' = [full EXCEPT ![p] = flag]
        /\ (op' = "leave" /\ on' = p) \/ op' = "none"
    BY <1>2 DEF ReadBack, Done
  <2>2. Ring(p) /\ msg_count[p] < item_count[p]
    BY <2>1 DEF RingInv, InFunction
  <2>3. \A q \in Queues \ {p} : full'[q] = full[q]
    BY <2>1, TypesNow, Zenon DEF FlagTypes
  <2>4. Ring(p)'
    BY <2>1, <2>2, RingSame
  <2>5. msg_count'[p] # item_count'[p]
    BY <2>1, <2>2, RingTypes
  <2>6. FullKnown(p)'
    BY <2>5, Zenon DEF FullKnown
  <2>7. InFunction'
    BY <2>1, <2>4, <2>6, Zenon DEF InFunction
  <2> QED BY <2>1, <2>3, <2>4, <2>6, <2>7, RingStep
<1> QED BY <1>1, <1>2

\* A flush empties the ring, and then brings its ends together.
LEMMA FlushRing ==
    ASSUME TypeInv, RingInv, NEW p \in Queues,
           FlushCount(p) \/ (FlushIndexes /\ p = on)
    PROVE  RingInv'
<1>0. p \in Queues /\ item_count[p] \in Nat /\ item_count[p] > 0
  BY RingTypes
<1> USE DEF mqFields
<1>1. CASE FlushCount(p)
  <2>1. /\ op = "none" /\ op' = "flush" /\ on' = p
        /\ UNCHANGED <<item_count, wr_index, rd_index, full>>
        /\ msg_count' = [msg_count EXCEPT ![p] = 0]
    BY <1>1 DEF FlushCount, Idle
  <2>2. msg_count'[p] = 0 /\ \A q \in Queues \ {p} : msg_count'[q] = msg_count[q]
    BY <2>1, TypesNow DEF CountTypes
  <2>3. InFunction'
    BY <2>1, <2>2 DEF InFunction
  <2> QED BY <2>1, <2>2, <2>3, RingStep
<1>2. CASE FlushIndexes /\ p = on
  <2>1. /\ op = "flush" /\ op' = "none" /\ on = p
        /\ UNCHANGED <<item_count, msg_count, full>>
        /\ wr_index' = [wr_index EXCEPT ![p] = 0]
        /\ rd_index' = [rd_index EXCEPT ![p] = 0]
    BY <1>2 DEF FlushIndexes, Done
  <2>2. /\ wr_index'[p] = 0 /\ rd_index'[p] = 0 /\ msg_count'[p] = 0
        /\ item_count'[p] = item_count[p]
        /\ \A q \in Queues \ {p} : wr_index'[q] = wr_index[q] /\ rd_index'[q] = rd_index[q]
    BY <2>1, TypesNow DEF CountTypes, RingInv, InFunction
  <2>3. Ring(p)'
    BY <1>0, <2>2 DEF Ring, Behind
  <2>4. FullKnown(p)'
    <3>1. msg_count'[p] # item_count'[p]
      BY <1>0, <2>2
    <3> QED BY <3>1, Zenon DEF FullKnown
  <2>5. InFunction'
    BY <2>1 DEF InFunction
  <2> QED BY <2>1, <2>2, <2>3, <2>4, <2>5, RingStep
<1> QED BY <1>1, <1>2

\* The send of an interrupt that finds the main level outside the queue functions.
LEMMA IsrRing ==
    ASSUME TypeInv, RingInv, NEW p \in Queues, NEW m \in Msgs, IsrSend(p, m), Masked
    PROVE  RingInv'
<1>0. op = "none" /\ op' = "none"
  BY DEF IsrSend, Idle, regVars
<1>1. CASE msg_count[p] = item_count[p]
  <2>1. UNCHANGED <<item_count, ringVars>>
    BY <1>1 DEF IsrSend, mqFields
  <2> QED BY <1>0, <2>1, QuietRing
<1>2. CASE msg_count[p] # item_count[p]
  <2>1. /\ UNCHANGED <<item_count, rd_index>>
        /\ msg_count' = [msg_count EXCEPT ![p] = @ + 1]
        /\ wr_index' = [wr_index EXCEPT ![p] = Wrapped(p, @ + 1)]
    BY <1>2 DEF IsrSend, mqFields
  <2>2. full' = [full EXCEPT ![p] = (msg_count[p] + 1 = item_count[p])]
    BY <1>2 DEF IsrSend
  <2>3. /\ msg_count'[p] = msg_count[p] + 1 /\ wr_index'[p] = Wrapped(p, wr_index[p] + 1)
        /\ \A q \in Queues \ {p} : msg_count'[q] = msg_count[q] /\ wr_index'[q] = wr_index[q]
    BY <2>1, TypesNow DEF CountTypes
  <2>4. /\ full'[p] = (msg_count[p] + 1 = item_count[p])
        /\ \A q \in Queues \ {p} : full'[q] = full[q]
    BY <2>2, TypesNow, Zenon DEF FlagTypes
  <2>5. Ring(p) /\ msg_count[p] \in 0..(item_count[p] - 1)
    BY <1>0, <1>2, RingTypes DEF RingInv, Ring
  <2>6. Ring(p)'
    <3>1. wr_index'[p] = Behind(p, msg_count[p] + 1)
      BY <2>3, <2>5, BehindNext DEF Ring
    <3> QED BY <2>1, <2>3, <2>5, <3>1, RingTypes DEF Ring, Behind
  <2>7. FullKnown(p)'
    BY <2>1, <2>3, <2>4, Zenon DEF FullKnown
  <2>8. InFunction'
    BY <1>0 DEF InFunction
  <2> QED BY <1>0, <2>1, <2>3, <2>4, <2>6, <2>7, <2>8, RingStep
<1> QED BY <1>1, <1>2

\* A queue is created, and left when it is deleted, as an empty ring.
LEMMA CreateRing ==
    ASSUME MqAssumption, TypeInv, RingInv, NEW p \in Queues,
           \/ \E o \in Opts, n \in 1..MaxSize : pesudo_mq_create(p, o, n)
           \/ pesudo_mq_delete(p)
    PROVE  RingInv'
<1>1. /\ Fresh(p) /\ op = "none" /\ op' = "none"
      /\ \E n \in 1..MaxSize : item_count' = [item_count EXCEPT ![p] = n]
  BY Values DEF pesudo_mq_create, pesudo_mq_delete, Idle, regVars
<1>2. /\ msg_count'[p] = 0 /\ wr_index'[p] = 0 /\ rd_index'[p] = 0 /\ item_count'[p] \in 1..MaxSize
      /\ \A q \in Queues \ {p} :
            /\ msg_count'[q] = msg_count[q] /\ item_count'[q] = item_count[q]
            /\ rd_index'[q] = rd_index[q] /\ wr_index'[q] = wr_index[q]
  BY <1>1, TypesNow DEF Fresh, CountTypes, ListTypes
<1>3. \A q \in Queues \ {p} : full'[q] = full[q]
  <2>1. full' = [full EXCEPT ![p] = FALSE]
    BY <1>1 DEF Fresh
  <2> QED BY <2>1, TypesNow, Zenon DEF FlagTypes
<1>4. Ring(p)' /\ msg_count'[p] # item_count'[p]
  BY <1>2, Values DEF Ring, Behind
<1>5. FullKnown(p)'
  BY <1>4, Zenon DEF FullKnown
<1>6. InFunction'
  BY <1>1 DEF InFunction
<1> QED BY <1>1, <1>2, <1>3, <1>4, <1>5, <1>6, RingStep

\* Every step preserves RingInv, when no interrupt sends inside a queue function.
LEMMA NextRing ==
    ASSUME MqAssumption, Masked, TypeInv, RingInv, Next
    PROVE  RingInv'
<1> USE DEF mqVars, mqFields, regVars
<1>0. op # "none" => on \in Queues
  BY TypesNow
<1>1. CASE KernelStep
  BY <1>1, QuietRing DEF KernelStep
<1>2. CASE Interrupt
  BY <1>2, QuietRing, IsrRing DEF Interrupt
<1>3. CASE MqStep
  <2>1. CASE \/ WriteCopy \/ WriteCount \/ WriteIndex \/ WriteWrap \/ WriteFlag \/ Scan
             \/ ReadTake \/ ReadBack \/ ReturnRead \/ FlushIndexes
    <3>1. PICK p \in Queues : p = on
      BY <1>0, <2>1 DEF WriteCopy, WriteCount, WriteIndex, WriteWrap, WriteFlag, Scan,
                        ReadTake, ReadBack, ReturnRead, FlushIndexes
    <3> QED BY <2>1, <3>1, WriteRing, WrapRing, LeaveRing, ReadRing, FlushRing
  <2>2. CASE ReturnReads
    <3>1. PICK p \in Queues : p = block_obj[Me]
      BY <2>2, ResumedOnQueue, TypesNow DEF ReturnReads
    <3> QED BY <2>2, <3>1, EnterRing DEF ReturnReads, Idle
  <2>3. CASE ReturnWithout \/ DrainEnds
    BY <2>3, QuietRing DEF ReturnWithout, Return, DrainEnds, Done, Idle
  <2>4. ASSUME NEW q \in Queues, DrainMq(q)
        PROVE  RingInv'
    BY <2>4, EnterRing DEF DrainMq, Idle
  <2> QED BY <1>3, <2>1, <2>2, <2>3, <2>4 DEF MqStep
<1>4. CASE MqCall
  <2>1. PICK q \in Queues :
            \/ \E o \in Opts, n \in 1..MaxSize : pesudo_mq_create(q, o, n)
            \/ pesudo_mq_delete(q)
            \/ \E m \in Msgs : SendTest(q, m)
            \/ ReceiveReads(q)
            \/ \E ms \in Delays : ReceiveBlocks(q, ms)
            \/ FlushCount(q)
    BY <1>4 DEF MqCall
  <2>2. CASE (\E o \in Opts, n \in 1..MaxSize : pesudo_mq_create(q, o, n)) \/ pesudo_mq_delete(q)
    BY <2>2, CreateRing
  <2>3. CASE (\E m \in Msgs : SendTest(q, m)) \/ ReceiveReads(q)
    BY <2>3, EnterRing DEF SendTest, ReceiveReads, Idle
  <2>4. CASE \E ms \in Delays : ReceiveBlocks(q, ms)
    BY <2>4, QuietRing DEF ReceiveBlocks
  <2>5. CASE FlushCount(q)
    BY <2>5, FlushRing
  <2> QED BY <2>1, <2>2, <2>3, <2>4, <2>5
<1> QED BY <1>1, <1>2, <1>3, <1>4 DEF Next

\* RingInv is an invariant of queues that are called with interrupts masked.
LEMMA RingAlways ==
    ASSUME Masked
    PROVE  Spec => []RingInv
<1>1. Init => RingInv
  <2>1. Init => op = "none" /\ \A q \in Queues : Ring(q) /\ msg_count[q] # item_count[q]
    BY DEF Init, Ring, Behind
  <2> QED BY <2>1 DEF RingInv, InFunction, FullKnown
<1>2. TypeInv /\ RingInv /\ [Next]_vars => RingInv'
  <2>1. TypeInv /\ RingInv /\ UNCHANGED vars => RingInv'
    BY QuietRing DEF vars, mqVars, mqFields, regVars
  <2> QED BY <2>1, MqAssumption, NextRing
<1> QED BY <1>1, <1>2, TypeInvAlways, PTL DEF Spec

\* With interrupts masked inside the calls, a queue that is full is never said to have
\* room: the flag that is computed before it is stored is still right when it is.
THEOREM FullIsNeverMissed ==
    ASSUME Masked
    PROVE  Spec => []FullNeverMissed
<1>1. TypeInv /\ RingInv => FullNeverMissed
  <2>1. ASSUME TypeInv, RingInv, NEW q \in pesudo_mq_list, op = "none"
        PROVE  FullKnown(q)
    BY <2>1, TypesNow DEF RingInv
  <2> QED BY <2>1, Zenon DEF FullNeverMissed, FullKnown, Idle
<1> QED BY <1>1, TypeInvAlways, RingAlways, PTL

-----------------------------------------------------------------------------
(***************************************************************************)
(* The count of a queue that no interrupt comes into.                      *)
(***************************************************************************)

\* Messages copied into a queue and not counted yet.
Uncounted(q) == IF op = "count" /\ on = q THEN 1 ELSE 0

CountInv == \A q \in Queues : buffered[q] = msg_count[q] + Uncounted(q)

\* Steps that change no count.
LEMMA QuietCount ==
    ASSUME CountInv, UNCHANGED <<buffered, msg_count>>,
           UNCHANGED <<op, on>> \/ (op # "count" /\ op' # "count")
    PROVE  CountInv'
<1>1. \A q : Uncounted(q)' = Uncounted(q)
  BY DEF Uncounted
<1> QED BY <1>1 DEF CountInv

\* Steps after which queue p is counted, and nothing else has changed.
LEMMA CountStep ==
    ASSUME CountInv, NEW p \in Queues, op = "count" => on = p, op' = "count" => on' = p,
           \A q \in Queues \ {p} : buffered'[q] = buffered[q] /\ msg_count'[q] = msg_count[q],
           buffered'[p] = msg_count'[p] + (IF op' = "count" THEN 1 ELSE 0)
    PROVE  CountInv'
<1>1. \A q \in Queues \ {p} : Uncounted(q) = 0 /\ Uncounted(q)' = 0
  BY DEF Uncounted
<1>2. Uncounted(p)' = IF op' = "count" THEN 1 ELSE 0
  BY DEF Uncounted
<1> QED BY <1>1, <1>2 DEF CountInv

\* A message that is copied is counted next, from a count that is still right.
LEMMA WriteCounts ==
    ASSUME TypeInv, RingInv, CountInv, NEW p \in Queues, p = on, WriteCopy \/ WriteCount
    PROVE  CountInv'
<1> USE DEF Step
<1>0. msg_count[p] \in Nat /\ buffered[p] \in Int /\ msg_count \in [Queues -> Nat]
      /\ buffered \in [Queues -> Int] /\ buffered[p] = msg_count[p] + Uncounted(p)
  BY TypesNow DEF CountTypes, CountInv
<1>1. CASE WriteCopy
  <2>1. /\ op = "write" /\ op' = "count" /\ on' = p /\ msg_count' = msg_count
        /\ buffered' = [buffered EXCEPT ![p] = @ + 1]
    BY <1>1 DEF WriteCopy
  <2>2. buffered[p] = msg_count[p]
    BY <1>0, <2>1 DEF Uncounted
  <2> QED BY <1>0, <2>1, <2>2, CountStep
<1>2. CASE WriteCount
  <2>1. /\ op = "count" /\ op' = "index" /\ on' = p /\ buffered' = buffered
        /\ msg_count' = [msg_count EXCEPT ![p] = loaded + 1]
    BY <1>2 DEF WriteCount, histVars
  <2>2. loaded = msg_count[p]
    BY <2>1 DEF RingInv, InFunction
  <2>3. buffered[p] = msg_count[p] + 1
    BY <1>0, <2>1 DEF Uncounted
  <2> QED BY <1>0, <2>1, <2>2, <2>3, CountStep
<1> QED BY <1>1, <1>2

\* A read and a flush change count and messages at once.
LEMMA ReadCounts ==
    ASSUME TypeInv, RingInv, CountInv, NEW p \in Queues, (ReadTake /\ p = on) \/ FlushCount(p)
    PROVE  CountInv'
<1>0. msg_count[p] \in Nat /\ buffered[p] \in Int /\ msg_count \in [Queues -> Nat]
      /\ buffered \in [Queues -> Int] /\ buffered[p] = msg_count[p] + Uncounted(p)
  BY TypesNow DEF CountTypes, CountInv
<1>1. CASE ReadTake /\ p = on
  <2>1. /\ op = "take" /\ op' = "back" /\ buffered' = [buffered EXCEPT ![p] = @ - 1]
        /\ msg_count' = [msg_count EXCEPT ![p] = loaded - 1]
    BY <1>1 DEF ReadTake, Step
  <2>2. loaded = msg_count[p]
    BY <1>1, <2>1 DEF RingInv, InFunction
  <2>3. buffered[p] = msg_count[p]
    BY <1>0, <2>1 DEF Uncounted
  <2> QED BY <1>0, <2>1, <2>2, <2>3, CountStep
<1>2. CASE FlushCount(p)
  <2>1. /\ op = "none" /\ op' = "flush" /\ buffered' = [buffered EXCEPT ![p] = 0]
        /\ msg_count' = [msg_count EXCEPT ![p] = 0]
    BY <1>2 DEF FlushCount, Idle
  <2> QED BY <1>0, <2>1, CountStep
<1> QED BY <1>1, <1>2

\* So does the send of an interrupt that comes into no function.
LEMMA IsrCounts ==
    ASSUME TypeInv, CountInv, NEW p \in Queues, NEW m \in Msgs, IsrSend(p, m), Masked
    PROVE  CountInv'
<1>0. op = "none" /\ op' = "none" /\ UNCHANGED <<op, on>>
  BY DEF IsrSend, Idle, regVars
<1>1. msg_count[p] \in Nat /\ msg_count \in [Queues -> Nat]
      /\ buffered \in [Queues -> Int] /\ buffered[p] = msg_count[p]
  BY <1>0, TypesNow DEF CountTypes, CountInv, Uncounted
<1>2. CASE UNCHANGED <<buffered, msg_count>>
  BY <1>0, <1>2, QuietCount
<1>3. CASE /\ buffered' = [buffered EXCEPT ![p] = @ + 1]
           /\ msg_count' = [msg_count EXCEPT ![p] = @ + 1]
  BY <1>0, <1>1, <1>3, CountStep
<1> QED BY <1>2, <1>3 DEF IsrSend, ringVars

\* A queue begins with no message, and none is left of a deleted one.
LEMMA FreshCounts ==
    ASSUME TypeInv, CountInv, NEW p \in Queues, Fresh(p), op = "none", op' = "none"
    PROVE  CountInv'
<1>1. /\ buffered' = [buffered EXCEPT ![p] = 0] /\ msg_count' = [msg_count EXCEPT ![p] = 0]
      /\ buffered \in [Queues -> Int] /\ msg_count \in [Queues -> Nat]
  BY TypesNow DEF Fresh, CountTypes
<1> QED BY <1>1, CountStep

\* Every step preserves CountInv, when no interrupt sends inside a queue function.
LEMMA NextCounts ==
    ASSUME MqAssumption, Masked, TypeInv, RingInv, CountInv, Next
    PROVE  CountInv'
<1> USE DEF mqVars, ringVars, regVars, histVars
<1>0. op # "none" => on \in Queues
  BY TypesNow
<1>1. CASE KernelStep
  BY <1>1, QuietCount DEF KernelStep
<1>2. CASE Interrupt
  BY <1>2, QuietCount, IsrCounts DEF Interrupt
<1>3. CASE MqStep
  <2>1. CASE WriteCopy \/ WriteCount \/ ReadTake
    <3>1. PICK p \in Queues : p = on
      BY <1>0, <2>1 DEF WriteCopy, WriteCount, ReadTake
    <3> QED BY <2>1, <3>1, WriteCounts, ReadCounts
  <2>2. CASE \/ WriteIndex \/ WriteWrap \/ WriteFlag \/ Scan \/ ReadBack \/ ReturnReads
             \/ ReturnRead \/ ReturnWithout \/ FlushIndexes \/ DrainEnds
    <3>1. UNCHANGED <<buffered, msg_count>> /\ op # "count" /\ op' # "count"
      BY <2>2 DEF WriteIndex, WriteWrap, WriteFlag, Scan, ReadBack, ReturnReads, ReadCopy,
                  ReturnRead, ReturnWithout, Return, FlushIndexes, DrainEnds, Step, Done, Idle
    <3> QED BY <3>1, QuietCount
  <2>3. CASE \E q \in Queues : DrainMq(q)
    <3>1. UNCHANGED <<buffered, msg_count>> /\ op # "count" /\ op' # "count"
      BY <2>3 DEF DrainMq, Idle
    <3> QED BY <3>1, QuietCount
  <2> QED BY <1>3, <2>1, <2>2, <2>3 DEF MqStep
<1>4. CASE MqCall
  <2>1. PICK q \in Queues :
            \/ \E o \in Opts, n \in 1..MaxSize : pesudo_mq_create(q, o, n)
            \/ pesudo_mq_delete(q)
            \/ \E m \in Msgs : SendTest(q, m)
            \/ ReceiveReads(q)
            \/ \E ms \in Delays : ReceiveBlocks(q, ms)
            \/ FlushCount(q)
    BY <1>4 DEF MqCall
  <2>2. CASE (\E o \in Opts, n \in 1..MaxSize : pesudo_mq_create(q, o, n)) \/ pesudo_mq_delete(q)
    BY <2>2, FreshCounts DEF pesudo_mq_create, pesudo_mq_delete, Idle
  <2>3. CASE \/ \E m \in Msgs : SendTest(q, m)
             \/ ReceiveReads(q)
             \/ \E ms \in Delays : ReceiveBlocks(q, ms)
    <3>1. UNCHANGED <<buffered, msg_count>> /\ op # "count" /\ op' # "count"
      BY <2>3 DEF SendTest, ReceiveReads, ReadCopy, ReceiveBlocks, Idle
    <3> QED BY <3>1, QuietCount
  <2>4. CASE FlushCount(q)
    BY <2>4, ReadCounts
  <2> QED BY <2>1, <2>2, <2>3, <2>4
<1> QED BY <1>1, <1>2, <1>3, <1>4 DEF Next

\* With interrupts masked inside the calls, msg_count is "the number of buffered messages"
\* (pesudo_mq.c:38), as the run mq_isr shows it is not without.
THEOREM MaskedCountIsBuffered ==
    ASSUME Masked
    PROVE  Spec => []CountIsBuffered
<1>1. Init => CountInv
  BY DEF Init, CountInv, Uncounted
<1>2. TypeInv /\ RingInv /\ CountInv /\ [Next]_vars => CountInv'
  <2>1. CountInv /\ UNCHANGED vars => CountInv'
    BY QuietCount DEF vars, mqVars, ringVars, regVars, histVars
  <2> QED BY <2>1, MqAssumption, NextCounts
<1>3. TypeInv /\ CountInv => CountIsBuffered
  <2>1. ASSUME TypeInv, CountInv, NEW q \in pesudo_mq_list, op = "none"
        PROVE  msg_count[q] = buffered[q]
    <3>1. q \in Queues /\ msg_count[q] \in Nat
      BY <2>1, TypesNow DEF CountTypes
    <3> QED BY <2>1, <3>1 DEF CountInv, Uncounted
  <2> QED BY <2>1 DEF CountIsBuffered, Idle
<1> QED BY <1>1, <1>2, <1>3, TypeInvAlways, RingAlways, PTL DEF Spec

-----------------------------------------------------------------------------
(***************************************************************************)
(* A queue implements BoundedFifo.                                         *)
(***************************************************************************)

\* A function on 1..n is a sequence.
LEMMA FunIsSeq ==
    ASSUME NEW S, NEW n \in Nat, NEW f \in [1..n -> S]
    PROVE  f \in Seq(S) /\ Len(f) = n
<1>1. f \in Seq(S)
  BY SeqDef
<1>2. DOMAIN f = 1..n /\ DOMAIN f = 1..Len(f) /\ Len(f) \in Nat
  BY <1>1, LenProperties
<1> QED BY <1>1, <1>2

\* No message: the empty sequence.
LEMMA EmptyFun ==
    ASSUME NEW S, NEW f \in [1..0 -> S]
    PROVE  f = <<>>
<1>1. f \in Seq(S) /\ Len(f) = 0
  BY FunIsSeq
<1> QED BY <1>1, EmptySeq

\* One message more behind the others.
LEMMA AppendFun ==
    ASSUME NEW S, NEW n \in Nat, NEW f \in [1..n -> S], NEW g \in [1..(n + 1) -> S],
           \A i \in 1..n : g[i] = f[i]
    PROVE  g = Append(f, g[n + 1])
<1>1. f \in Seq(S) /\ Len(f) = n /\ g \in Seq(S) /\ Len(g) = n + 1 /\ g[n + 1] \in S
  BY FunIsSeq
<1>2. /\ Append(f, g[n + 1]) \in Seq(S) /\ Len(Append(f, g[n + 1])) = n + 1
      /\ \A i \in 1..n : Append(f, g[n + 1])[i] = f[i]
      /\ Append(f, g[n + 1])[n + 1] = g[n + 1]
  BY <1>1, AppendProperties
<1>3. \A i \in 1..Len(g) : g[i] = Append(f, g[n + 1])[i]
  BY <1>1, <1>2
<1> QED BY <1>1, <1>2, <1>3, SeqEqual

\* One message less in front of the others.
LEMMA TailFun ==
    ASSUME NEW S, NEW n \in Nat, NEW f \in [1..(n + 1) -> S], NEW g \in [1..n -> S],
           \A i \in 1..n : g[i] = f[i + 1]
    PROVE  f # <<>> /\ Head(f) = f[1] /\ g = Tail(f)
<1>1. f \in Seq(S) /\ Len(f) = n + 1 /\ g \in Seq(S) /\ Len(g) = n
  BY FunIsSeq
<1>2. f # <<>>
  BY <1>1, EmptySeq
<1>3. Tail(f) \in Seq(S) /\ Len(Tail(f)) = n /\ \A i \in 1..n : Tail(f)[i] = f[i + 1]
  BY <1>1, <1>2, HeadTailProperties
<1>4. g = Tail(f)
  BY <1>1, <1>3, SeqEqual
<1> QED BY <1>1, <1>2, <1>4

\* What the content of a queue is.
ContentFacts(q) ==
    /\ msg_count[q] \in Nat
    /\ Content(q) \in [1..msg_count[q] -> Msgs]
    /\ \A i \in 1..msg_count[q] :
          /\ Content(q)[i] = data[q][Slot(q, i)]
          /\ Slot(q, i) = Behind(q, i - 1)
          /\ Slot(q, i) \in 0..(item_count[q] - 1)

ContentsAre == \A q \in Queues : ContentFacts(q)

\* No queue ever holds more than fits.
LEMMA CountFits ==
    ASSUME TypeInv, RingInv, NEW q \in Queues
    PROVE  msg_count[q] \in 0..item_count[q]
<1>1. CASE op = "none" \/ q # on
  BY <1>1, RingTypes DEF RingInv, Ring
<1>2. CASE op # "none" /\ q = on
  BY <1>2, TypesNow, RingTypes DEF RingInv, InFunction, Ring, RegTypes
<1> QED BY <1>1, <1>2

\* The messages of a queue lie in its buffer.
LEMMA ContentIs == TypeInv /\ RingInv => ContentsAre
<1> SUFFICES ASSUME TypeInv, RingInv, NEW q \in Queues
             PROVE  ContentFacts(q)
  BY DEF ContentsAre
<1>1. /\ msg_count[q] \in 0..item_count[q] /\ item_count[q] \in 1..MaxSize
      /\ rd_index[q] \in Nat /\ rd_index[q] < item_count[q] /\ data[q] \in [Slots -> Msgs]
  BY CountFits, RingTypes, TypesNow DEF ListTypes, DataTypes
<1>2. \A i \in 1..msg_count[q] : Slot(q, i) = Behind(q, i - 1) /\ Slot(q, i) \in 0..(item_count[q] - 1)
  BY <1>1 DEF Slot, Behind
<1>3. \A i \in 1..msg_count[q] : data[q][Slot(q, i)] \in Msgs
  BY <1>1, <1>2, MqAssumption DEF Slots, MqAssumption
<1> QED BY <1>1, <1>2, <1>3 DEF ContentFacts, Content

\* The same after a step.
LEMMA ContentIsNext == TypeInv' /\ RingInv' => ContentsAre'
  BY ContentIs, PTL

\* The state that the queues stand for.
size == [q \in Queues |-> IF q \in pesudo_mq_list THEN item_count[q] ELSE 0]
queue == [q \in Queues |-> Content(q)]
fifoVars == <<size, queue, msg>>

\* The content of a queue whose slots, count and read end are left alone.
LEMMA ContentSame ==
    ASSUME NEW q, msg_count'[q] = msg_count[q], item_count'[q] = item_count[q],
           rd_index'[q] = rd_index[q], data'[q] = data[q]
    PROVE  Content(q)' = Content(q)
  BY DEF Content, Slot

\* Steps that change no size, no content and no buffer of a task are no steps of
\* BoundedFifo.
LEMMA StutterMaps ==
    ASSUME UNCHANGED <<pesudo_mq_list, item_count, msg>>,
           \A q \in Queues : Content(q)' = Content(q)
    PROVE  [Fifo!Next]_fifoVars
<1>1. size' = size /\ queue' = queue /\ msg' = msg
  BY DEF size, queue
<1> QED BY <1>1 DEF fifoVars

\* Init of the queues is Init of BoundedFifo.
LEMMA InitMaps ==
    ASSUME MqAssumption, TasksAssumption, Init
    PROVE  Fifo!Init
<1>1. msg \in [Tasks -> Msgs] /\ pesudo_mq_list = {} /\ \A q \in Queues : msg_count[q] = 0
  BY Values DEF Init
<1>2. \A q \in Queues : Content(q) = <<>>
  BY <1>1 DEF Content
<1> QED BY <1>1, <1>2 DEF Fifo!Init

\* One more message at the end of a queue's content is a send.
LEMMA SendMaps ==
    ASSUME NEW p \in Queues, p \in pesudo_mq_list, NEW m \in Msgs,
           UNCHANGED <<pesudo_mq_list, item_count, msg>>,
           Len(Content(p)) < item_count[p], Content(p)' = Append(Content(p), m),
           \A q \in Queues \ {p} : Content(q)' = Content(q)
    PROVE  [Fifo!Next]_fifoVars
<1> HIDE DEF Content
<1>1. Fifo!Send(p, m)
  BY DEF Fifo!Send
<1> QED BY <1>1 DEF Fifo!Next

\* The first message gone to the buffer of a task is a receive.
LEMMA ReceiveMaps ==
    ASSUME NEW p \in Queues, NEW t \in Tasks,
           UNCHANGED <<pesudo_mq_list, item_count>>,
           Content(p) # <<>>, Content(p)' = Tail(Content(p)),
           msg' = [msg EXCEPT ![t] = Head(Content(p))],
           \A q \in Queues \ {p} : Content(q)' = Content(q)
    PROVE  [Fifo!Next]_fifoVars
<1>1. Fifo!Receive(t, p)
  BY DEF Fifo!Receive
<1> QED BY <1>1 DEF Fifo!Next

\* A content that is emptied is a flush.
LEMMA FlushMaps ==
    ASSUME NEW p \in Queues, UNCHANGED <<pesudo_mq_list, item_count, msg>>,
           Content(p)' = <<>>, \A q \in Queues \ {p} : Content(q)' = Content(q)
    PROVE  [Fifo!Next]_fifoVars
<1>1. Fifo!Flush(p)
  BY DEF Fifo!Flush
<1> QED BY <1>1 DEF Fifo!Next

\* A creation and a deletion are a change of the size.
LEMMA ResizeMaps ==
    ASSUME TypeInv, TypeInv', NEW p \in Queues, msg' = msg, Content(p)' = <<>>,
           \A q \in Queues \ {p} :
               /\ Content(q)' = Content(q) /\ item_count'[q] = item_count[q]
               /\ q \in pesudo_mq_list' <=> q \in pesudo_mq_list
    PROVE  [Fifo!Next]_fifoVars
<1>1. item_count'[p] \in Nat
  BY TypesNow DEF TypeInv, MqTypes, ListTypes
<1>2. Fifo!Resize(p)
  BY <1>1 DEF Fifo!Resize
<1> QED BY <1>2 DEF Fifo!Next

\* The slot of the next message holds none of those inside.
LEMMA SlotsDiffer ==
    ASSUME TypeInv, NEW q \in Queues, NEW c \in 0..(item_count[q] - 1), NEW i \in 1..c
    PROVE  Slot(q, i) # Behind(q, c)
  BY RingTypes DEF Slot, Behind

\* A message written behind the others, once it is counted, is the last of the content.
LEMMA ContentGrows ==
    ASSUME NEW p \in Queues, ContentFacts(p), ContentFacts(p)',
           NEW n \in Nat, msg_count[p] = n, msg_count'[p] = n + 1,
           rd_index'[p] = rd_index[p], item_count'[p] = item_count[p],
           \A i \in 1..n : data'[p][Slot(p, i)] = data[p][Slot(p, i)]
    PROVE  /\ Len(Content(p)) = n
           /\ Content(p)' = Append(Content(p), data'[p][Behind(p, n)])
<1> HIDE DEF Content
<1> DEFINE f == Content(p)
           g == Content(p)'
<1>1. f \in [1..n -> Msgs] /\ g \in [1..(n + 1) -> Msgs]
  BY DEF ContentFacts
<1>2. \A i \in 1..(n + 1) : Slot(p, i)' = Slot(p, i)
  BY DEF Slot
<1>3. \A i \in 1..n : f[i] = data[p][Slot(p, i)]
  BY DEF ContentFacts
<1>4. \A i \in 1..(n + 1) : g[i] = data'[p][Slot(p, i)]
  BY <1>2 DEF ContentFacts
<1>5. \A i \in 1..n : g[i] = f[i]
  BY <1>3, <1>4
<1>6. g[n + 1] = data'[p][Behind(p, n)]
  <2>1. Slot(p, n + 1) = Behind(p, n)
    BY DEF Slot, Behind, ContentFacts
  <2> QED BY <1>4, <2>1
<1> HIDE DEF f, g
<1>7. Len(f) = n /\ g = Append(f, g[n + 1])
  BY <1>1, <1>5, FunIsSeq, AppendFun
<1> QED BY <1>6, <1>7 DEF f, g

\* The count that follows a write is the send.
LEMMA WriteCountMaps ==
    ASSUME TypeInv, RingInv, TypeInv', RingInv', NEW p \in Queues, p = on, WriteCount
    PROVE  [Fifo!Next]_fifoVars
<1>1. ContentsAre /\ ContentsAre'
  BY ContentIs, ContentIsNext
<1>2. PICK n \in Nat : n = msg_count[p]
  BY RingTypes
<1>3. /\ op = "count" /\ UNCHANGED <<pesudo_mq_list, item_count, rd_index, data, msg>>
      /\ msg_count' = [msg_count EXCEPT ![p] = loaded + 1] /\ p \in pesudo_mq_list
  BY TypesNow DEF WriteCount, mqFields
<1>4. /\ Ring(p) /\ n < item_count[p] /\ loaded = n /\ data[p][wr_index[p]] = item
  BY <1>2, <1>3 DEF RingInv, InFunction
<1>5. msg_count'[p] = n + 1 /\ \A q \in Queues \ {p} : msg_count'[q] = msg_count[q]
  BY <1>3, <1>4, TypesNow DEF CountTypes
<1>6. data'[p][Behind(p, n)] = item
  BY <1>2, <1>3, <1>4 DEF Ring
<1>7. Len(Content(p)) = n /\ Content(p)' = Append(Content(p), item)
  BY <1>1, <1>2, <1>3, <1>5, <1>6, ContentGrows DEF ContentsAre
<1>8. \A q \in Queues \ {p} : Content(q)' = Content(q)
  BY <1>3, <1>5, ContentSame
<1>9. PICK m \in Msgs : m = item
  BY TypesNow DEF DataTypes
<1> QED BY <1>3, <1>4, <1>7, <1>8, <1>9, SendMaps

\* The send of an interrupt is a send, or finds the queue full.
LEMMA IsrMaps ==
    ASSUME MqAssumption, Masked, TypeInv, RingInv, TypeInv', RingInv',
           NEW p \in Queues, NEW m \in Msgs, IsrSend(p, m)
    PROVE  [Fifo!Next]_fifoVars
<1>1. ContentsAre /\ ContentsAre'
  BY ContentIs, ContentIsNext
<1>2. PICK n \in Nat : n = msg_count[p]
  BY RingTypes
<1>3. CASE msg_count[p] = item_count[p]
  <2>1. UNCHANGED <<pesudo_mq_list, item_count, rd_index, data, msg_count, msg>>
    BY <1>3 DEF IsrSend, ringVars, mqFields
  <2>2. \A q \in Queues : Content(q)' = Content(q)
    BY <2>1, ContentSame
  <2> QED BY <2>1, <2>2, StutterMaps
<1>4. CASE msg_count[p] # item_count[p]
  <2>1. /\ op = "none" /\ UNCHANGED <<pesudo_mq_list, item_count, rd_index, msg>>
        /\ data' = [data EXCEPT ![p][wr_index[p]] = m]
        /\ msg_count' = [msg_count EXCEPT ![p] = @ + 1] /\ p \in pesudo_mq_list
    BY <1>4 DEF IsrSend, mqFields, Idle
  <2>2. Ring(p) /\ n \in 0..(item_count[p] - 1)
    BY <1>2, <1>4, <2>1, RingTypes DEF RingInv, Ring
  <2>3. wr_index[p] = Behind(p, n) /\ Behind(p, n) \in 0..(item_count[p] - 1)
    BY <1>2, <2>2, BehindInside, RingTypes DEF Ring
  <2>4. data[p] \in [Slots -> Msgs] /\ Behind(p, n) \in Slots /\ item_count[p] \in 1..MaxSize
    BY <2>3, TypesNow DEF DataTypes, ListTypes, Slots
  <2>5. /\ data'[p] = [data[p] EXCEPT ![Behind(p, n)] = m]
        /\ \A q \in Queues \ {p} : data'[q] = data[q] /\ msg_count'[q] = msg_count[q]
        /\ msg_count'[p] = n + 1
    BY <1>2, <2>1, <2>3, TypesNow DEF DataTypes, CountTypes
  <2>6. \A i \in 1..n : Slot(p, i) # Behind(p, n) /\ Slot(p, i) \in Slots
    BY <1>1, <1>2, <2>2, <2>4, SlotsDiffer DEF ContentsAre, ContentFacts, Slots
  <2>7. /\ \A i \in 1..n : data'[p][Slot(p, i)] = data[p][Slot(p, i)]
        /\ data'[p][Behind(p, n)] = m
    BY <2>4, <2>5, <2>6
  <2>8. Len(Content(p)) = n /\ Content(p)' = Append(Content(p), m)
    BY <1>1, <1>2, <2>1, <2>5, <2>7, ContentGrows DEF ContentsAre
  <2>9. \A q \in Queues \ {p} : Content(q)' = Content(q)
    BY <2>1, <2>5, ContentSame
  <2>10. Len(Content(p)) < item_count[p]
    BY <2>2, <2>4, <2>8
  <2> QED BY <2>1, <2>8, <2>9, <2>10, SendMaps
<1> QED BY <1>3, <1>4

\* The copy of a send goes to a slot that holds no message.
LEMMA WriteCopyMaps ==
    ASSUME MqAssumption, TypeInv, RingInv, NEW p \in Queues, p = on, WriteCopy
    PROVE  [Fifo!Next]_fifoVars
<1>1. ContentsAre
  BY ContentIs
<1>2. PICK n \in Nat : n = msg_count[p]
  BY RingTypes
<1>3. /\ op = "write" /\ UNCHANGED <<pesudo_mq_list, item_count, rd_index, msg_count, msg>>
      /\ data' = [data EXCEPT ![p][wr_index[p]] = item]
  BY DEF WriteCopy, mqFields
<1>4. Ring(p) /\ n \in 0..(item_count[p] - 1)
  BY <1>2, <1>3, RingTypes DEF RingInv, InFunction
<1>5. wr_index[p] = Behind(p, n)
  BY <1>2, <1>4 DEF Ring
<1>6. /\ \A i \in Slots : i # Behind(p, n) => data'[p][i] = data[p][i]
      /\ \A q \in Queues \ {p} : data'[q] = data[q]
  BY <1>3, <1>5, TypesNow DEF DataTypes
<1>7. \A i \in 1..n : Slot(p, i) # Behind(p, n) /\ Slot(p, i) \in Slots
  BY <1>1, <1>2, <1>4, SlotsDiffer, TypesNow DEF ContentsAre, ContentFacts, Slots, ListTypes
<1>8. Content(p)' = Content(p)
  <2>1. \A i \in 1..n : Slot(p, i)' = Slot(p, i)
    BY <1>3 DEF Slot
  <2>2. \A i \in 1..n : data'[p][Slot(p, i)'] = data[p][Slot(p, i)]
    BY <1>6, <1>7, <2>1
  <2> QED BY <1>2, <1>3, <2>2 DEF Content
<1>9. \A q \in Queues \ {p} : Content(q)' = Content(q)
  BY <1>3, <1>6, ContentSame
<1> QED BY <1>3, <1>8, <1>9, StutterMaps

\* Taking the first message is a receive.
LEMMA ReadTakeMaps ==
    ASSUME MqAssumption, TypeInv, RingInv, TypeInv', RingInv', NEW p \in Queues, p = on, ReadTake
    PROVE  [Fifo!Next]_fifoVars
<1>1. ContentFacts(p) /\ ContentFacts(p)'
  BY ContentIs, ContentIsNext DEF ContentsAre
<1>2. /\ op = "take" /\ UNCHANGED <<pesudo_mq_list, item_count, data>>
      /\ msg_count' = [msg_count EXCEPT ![p] = loaded - 1]
      /\ rd_index' = [rd_index EXCEPT ![p] = Wrapped(p, @ + 1)]
      /\ msg' = [msg EXCEPT ![Me] = item]
  BY DEF ReadTake, mqFields
<1>3. loaded = msg_count[p] /\ msg_count[p] > 0 /\ item = data[p][rd_index[p]]
  BY <1>2 DEF RingInv, InFunction
<1>4. PICK n \in Nat : msg_count[p] = n + 1
  <2>1. msg_count[p] - 1 \in Nat /\ msg_count[p] = msg_count[p] - 1 + 1
    BY <1>3, RingTypes
  <2> QED BY <2>1
<1>5. /\ msg_count'[p] = n /\ rd_index'[p] = Wrapped(p, rd_index[p] + 1)
      /\ item_count'[p] = item_count[p]
      /\ \A q \in Queues \ {p} : msg_count'[q] = msg_count[q] /\ rd_index'[q] = rd_index[q]
  BY <1>2, <1>3, <1>4, TypesNow DEF CountTypes
<1>6. n + 1 \in 0..item_count[p]
  BY <1>4, CountFits
<1> DEFINE f == Content(p)
           g == Content(p)'
<1> HIDE DEF Content
<1>7. f \in [1..(n + 1) -> Msgs] /\ g \in [1..n -> Msgs]
  BY <1>1, <1>4, <1>5 DEF ContentFacts
<1>8. ASSUME NEW i \in 1..n PROVE g[i] = f[i + 1]
  <2>1. i \in 1..item_count[p] /\ i + 1 \in 1..(n + 1)
    BY <1>6, RingTypes
  <2>2. Behind(p, i - 1)' = Behind(p, i)
    BY <1>5, <2>1, BehindRead
  <2>3. Slot(p, i)' = Behind(p, i - 1)' /\ g[i] = data'[p][Slot(p, i)']
    BY <1>1, <1>5 DEF ContentFacts
  <2>4. Slot(p, i + 1) = Behind(p, i + 1 - 1) /\ f[i + 1] = data[p][Slot(p, i + 1)]
    BY <1>1, <1>4, <2>1 DEF ContentFacts
  <2> QED BY <1>2, <2>2, <2>3, <2>4
<1>9. f[1] = item
  <2>1. Slot(p, 1) = rd_index[p]
    BY RingTypes DEF Slot
  <2>2. 1 \in 1..msg_count[p]
    BY <1>4
  <2> QED BY <1>1, <1>3, <2>1, <2>2 DEF ContentFacts
<1> HIDE DEF f, g
<1>10. f # <<>> /\ Head(f) = item /\ g = Tail(f)
  BY <1>7, <1>8, <1>9, TailFun
<1>11. \A q \in Queues \ {p} : Content(q)' = Content(q)
  BY <1>2, <1>5, ContentSame
<1>12. PICK t \in Tasks : t = Me
  BY <1>2, TypesNow DEF PcOfOp, KernelInv, KernelTypeOK, Me
<1> QED BY <1>2, <1>10, <1>11, <1>12, ReceiveMaps DEF f, g

\* Setting the count to 0 is a flush; where an empty queue begins does not matter.
LEMMA FlushCountMaps ==
    ASSUME TypeInv, NEW p \in Queues, FlushCount(p)
    PROVE  [Fifo!Next]_fifoVars
<1>1. /\ UNCHANGED <<pesudo_mq_list, item_count, rd_index, data, msg>>
      /\ msg_count' = [msg_count EXCEPT ![p] = 0]
  BY DEF FlushCount, mqFields
<1>2. msg_count'[p] = 0 /\ \A q \in Queues \ {p} : msg_count'[q] = msg_count[q]
  BY <1>1, TypesNow DEF CountTypes
<1>3. Content(p)' = <<>>
  BY <1>2 DEF Content
<1>4. \A q \in Queues \ {p} : Content(q)' = Content(q)
  BY <1>1, <1>2, ContentSame
<1> QED BY <1>1, <1>3, <1>4, FlushMaps

\* See FlushCountMaps.
LEMMA FlushIndexesMaps ==
    ASSUME TypeInv, RingInv, NEW p \in Queues, p = on, FlushIndexes
    PROVE  [Fifo!Next]_fifoVars
<1>1. /\ op = "flush" /\ UNCHANGED <<pesudo_mq_list, item_count, msg_count, data, msg>>
      /\ rd_index' = [rd_index EXCEPT ![p] = 0]
  BY DEF FlushIndexes, mqFields
<1>2. msg_count[p] = 0 /\ msg_count'[p] = 0
  BY <1>1 DEF RingInv, InFunction
<1>3. Content(p) = <<>> /\ Content(p)' = <<>>
  BY <1>2 DEF Content
<1>4. \A q \in Queues \ {p} : rd_index'[q] = rd_index[q]
  BY <1>1, TypesNow DEF CountTypes
<1>5. \A q \in Queues \ {p} : Content(q)' = Content(q)
  BY <1>1, <1>4, ContentSame
<1> QED BY <1>1, <1>3, <1>5, StutterMaps

\* Creating and deleting a queue.
LEMMA CreateMaps ==
    ASSUME TypeInv, TypeInv', NEW p \in Queues,
           \/ \E o \in Opts, n \in 1..MaxSize : pesudo_mq_create(p, o, n)
           \/ pesudo_mq_delete(p)
    PROVE  [Fifo!Next]_fifoVars
<1>1. /\ Fresh(p) /\ msg' = msg
      /\ pesudo_mq_list' = pesudo_mq_list \cup {p} \/ pesudo_mq_list' = pesudo_mq_list \ {p}
      /\ \E n : item_count' = [item_count EXCEPT ![p] = n]
  BY DEF pesudo_mq_create, pesudo_mq_delete
<1>2. /\ msg_count'[p] = 0
      /\ \A q \in Queues \ {p} :
            /\ msg_count'[q] = msg_count[q] /\ rd_index'[q] = rd_index[q]
            /\ data'[q] = data[q] /\ item_count'[q] = item_count[q]
  BY <1>1, TypesNow DEF Fresh, CountTypes, DataTypes, ListTypes
<1>3. Content(p)' = <<>>
  BY <1>2 DEF Content
<1>4. \A q \in Queues \ {p} : Content(q)' = Content(q)
  BY <1>2, ContentSame
<1> QED BY <1>1, <1>2, <1>3, <1>4, ResizeMaps

\* Every step of the queues is a step of BoundedFifo, or none.
LEMMA NextMaps ==
    ASSUME MqAssumption, Masked, TypeInv, RingInv, TypeInv', RingInv', Next
    PROVE  [Fifo!Next]_fifoVars
<1> USE DEF mqVars, mqFields, ringVars
<1>0. op # "none" => on \in Queues
  BY TypesNow
<1>s. ASSUME UNCHANGED <<pesudo_mq_list, item_count, msg_count, rd_index, data, msg>>
      PROVE  [Fifo!Next]_fifoVars
  <2>1. \A q \in Queues : Content(q)' = Content(q)
    BY <1>s, ContentSame
  <2> QED BY <1>s, <2>1, StutterMaps
<1>1. CASE KernelStep
  BY <1>1, <1>s DEF KernelStep
<1>2. CASE Interrupt
  BY <1>2, <1>s, IsrMaps DEF Interrupt
<1>3. CASE MqStep
  <2>1. CASE WriteCopy \/ WriteCount \/ ReadTake \/ FlushIndexes
    <3>1. PICK p \in Queues : p = on
      BY <1>0, <2>1 DEF WriteCopy, WriteCount, ReadTake, FlushIndexes
    <3> QED BY <2>1, <3>1, WriteCopyMaps, WriteCountMaps, ReadTakeMaps, FlushIndexesMaps
  <2>2. CASE \/ WriteIndex \/ WriteWrap \/ WriteFlag \/ Scan \/ ReadBack \/ ReturnReads
             \/ ReturnRead \/ ReturnWithout \/ DrainEnds \/ \E q \in Queues : DrainMq(q)
    BY <1>s, <2>2 DEF WriteIndex, WriteWrap, WriteFlag, Scan, ReadBack, ReturnReads, ReadCopy,
                      ReturnRead, ReturnWithout, Return, DrainEnds, DrainMq
  <2> QED BY <1>3, <2>1, <2>2 DEF MqStep
<1>4. CASE MqCall
  <2>1. PICK q \in Queues :
            \/ \E o \in Opts, n \in 1..MaxSize : pesudo_mq_create(q, o, n)
            \/ pesudo_mq_delete(q)
            \/ \E m \in Msgs : SendTest(q, m)
            \/ ReceiveReads(q)
            \/ \E ms \in Delays : ReceiveBlocks(q, ms)
            \/ FlushCount(q)
    BY <1>4 DEF MqCall
  <2>2. CASE (\E o \in Opts, n \in 1..MaxSize : pesudo_mq_create(q, o, n)) \/ pesudo_mq_delete(q)
    BY <2>2, CreateMaps
  <2>3. CASE FlushCount(q)
    BY <2>3, FlushCountMaps
  <2>4. CASE \/ \E m \in Msgs : SendTest(q, m)
             \/ ReceiveReads(q)
             \/ \E ms \in Delays : ReceiveBlocks(q, ms)
    BY <1>s, <2>4 DEF SendTest, ReceiveReads, ReadCopy, ReceiveBlocks
  <2> QED BY <2>1, <2>2, <2>3, <2>4
<1> QED BY <1>1, <1>2, <1>3, <1>4 DEF Next

\* With interrupts masked inside the calls, a queue is a bounded FIFO queue for tasks and
\* interrupts together, between any two steps of a call: messages come out once, in
\* order and unchanged, and never more are inside than fit.
THEOREM QueueIsBoundedFifo ==
    ASSUME Masked
    PROVE  Spec => IsBoundedFifo
<1>1. Init => Fifo!Init
  BY MqAssumption, TasksAssumption, InitMaps
<1>2. TypeInv /\ RingInv /\ TypeInv' /\ RingInv' /\ [Next]_vars => [Fifo!Next]_fifoVars
  <2>1. UNCHANGED vars => [Fifo!Next]_fifoVars
    <3>1. ASSUME UNCHANGED vars
          PROVE  [Fifo!Next]_fifoVars
      <4>1. UNCHANGED <<pesudo_mq_list, item_count, msg_count, rd_index, data, msg>>
        BY <3>1 DEF vars, mqVars, mqFields, ringVars
      <4>2. \A q \in Queues : Content(q)' = Content(q)
        BY <4>1, ContentSame
      <4> QED BY <4>1, <4>2, StutterMaps
    <3> QED BY <3>1
  <2> QED BY <2>1, MqAssumption, NextMaps
<1> QED BY <1>1, <1>2, TypeInvAlways, RingAlways, PTL
        DEF Spec, IsBoundedFifo, Fifo!Spec, fifoVars, size, queue
=============================================================================
