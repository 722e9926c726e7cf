--------------------------- MODULE PesudoOSProofs ---------------------------
(***************************************************************************)
(* Proofs about the PesudoOS kernel, for any number of tasks, any delays   *)
(* and any horizon: KernelInv is inductive.  The lemmas about single       *)
(* actions are also cited by the proofs of the modules that extend the     *)
(* kernel.                                                                 *)
(***************************************************************************)
EXTENDS PesudoOS, SequenceTheorems, WellFoundedInduction, TLAPS

(***************************************************************************)
(* The task list.                                                          *)
(***************************************************************************)

\* Removing one element of a sequence moves those behind it one place forward.
LEMMA RemoveAtMoves ==
    ASSUME NEW S, NEW s \in Seq(S), NEW i \in 1..Len(s)
    PROVE  /\ RemoveAt(s, i) \in Seq(S)
           /\ Len(RemoveAt(s, i)) = Len(s) - 1
           /\ \A k \in 1..(Len(s) - 1) : RemoveAt(s, i)[k] = IF k < i THEN s[k] ELSE s[k + 1]
<1> DEFINE p == SubSeq(s, 1, i - 1)
           q == SubSeq(s, i + 1, Len(s))
           r == p \o q
<1>1. Len(s) \in Nat /\ i \in Nat /\ i >= 1 /\ i <= Len(s)
  BY LenProperties
<1>2. \A j \in 1..Len(s) : s[j] \in S
  BY ElementOfSeq
<1>3. p \in Seq(S) /\ Len(p) = i - 1 /\ \A k \in 1..(i - 1) : p[k] = s[k]
  <2>1. \A j \in 1..(i - 1) : s[j] \in S
    BY <1>1, <1>2
  <2>2. 1 \in Int /\ i - 1 \in Int
    BY <1>1
  <2>3. /\ p \in Seq(S)
        /\ Len(p) = IF 1 <= i - 1 THEN i - 1 - 1 + 1 ELSE 0
        /\ \A k \in 1..(i - 1 - 1 + 1) : p[k] = s[1 + k - 1]
    BY <2>1, <2>2, SubSeqProperties
  <2> QED BY <2>3, <1>1
<1>4. q \in Seq(S) /\ Len(q) = Len(s) - i /\ \A k \in 1..(Len(s) - i) : q[k] = s[i + k]
  <2>1. \A j \in (i + 1)..Len(s) : s[j] \in S
    BY <1>1, <1>2
  <2>2. i + 1 \in Int /\ Len(s) \in Int
    BY <1>1
  <2>3. /\ q \in Seq(S)
        /\ Len(q) = IF i + 1 <= Len(s) THEN Len(s) - (i + 1) + 1 ELSE 0
        /\ \A k \in 1..(Len(s) - (i + 1) + 1) : q[k] = s[i + 1 + k - 1]
    BY <2>1, <2>2, SubSeqProperties
  <2> QED BY <2>3, <1>1
<1>5. RemoveAt(s, i) = r
  BY DEF RemoveAt
<1> HIDE DEF p, q
<1>6. /\ r \in Seq(S)
      /\ Len(r) = Len(s) - 1
      /\ \A k \in 1..(Len(s) - 1) : r[k] = IF k <= i - 1 THEN p[k] ELSE q[k - (i - 1)]
  <2>1. /\ r \in Seq(S)
        /\ Len(r) = Len(p) + Len(q)
        /\ \A k \in 1..(Len(p) + Len(q)) : r[k] = IF k <= Len(p) THEN p[k] ELSE q[k - Len(p)]
    BY <1>3, <1>4, ConcatProperties
  <2> QED BY <2>1, <1>1, <1>3, <1>4
<1> HIDE DEF r
<1>7. ASSUME NEW k \in 1..(Len(s) - 1)
      PROVE  r[k] = IF k < i THEN s[k] ELSE s[k + 1]
  <2>1. CASE k < i
    <3>1. k \in 1..(i - 1) /\ k <= i - 1
      BY <2>1, <1>1
    <3> QED BY <2>1, <3>1, <1>3, <1>6
  <2>2. CASE ~(k < i)
    <3>1. ~(k <= i - 1) /\ k - (i - 1) \in 1..(Len(s) - i) /\ i + (k - (i - 1)) = k + 1
      BY <2>2, <1>1
    <3>2. q[k - (i - 1)] = s[k + 1]
      BY <3>1, <1>4
    <3> QED BY <2>2, <3>1, <3>2, <1>6
  <2> QED BY <2>1, <2>2
<1> QED BY <1>5, <1>6, <1>7

\* Removing one element of a sequence keeps every other one and adds none.
LEMMA RemoveAtKeeps ==
    ASSUME NEW S, NEW s \in Seq(S), NEW i \in 1..Len(s)
    PROVE  /\ RemoveAt(s, i) \in Seq(S)
           /\ \A j \in 1..Len(s) : j # i => s[j] \in ToSet(RemoveAt(s, i))
           /\ ToSet(RemoveAt(s, i)) \subseteq ToSet(s)
<1> DEFINE r == RemoveAt(s, i)
<1>1. Len(s) \in Nat /\ i \in Nat /\ i >= 1 /\ i <= Len(s)
  BY LenProperties
<1>2. /\ r \in Seq(S) /\ Len(r) = Len(s) - 1
      /\ \A k \in 1..(Len(s) - 1) : r[k] = IF k < i THEN s[k] ELSE s[k + 1]
  BY RemoveAtMoves
<1>3. DOMAIN r = 1..(Len(s) - 1) /\ DOMAIN s = 1..Len(s)
  BY <1>2, LenProperties
<1> HIDE DEF r
<1>4. ASSUME NEW j \in 1..Len(s), j # i
      PROVE  \E k \in DOMAIN r : s[j] = r[k]
  <2>1. CASE j < i
    <3>1. j \in 1..(Len(s) - 1) /\ r[j] = s[j]
      BY <2>1, <1>1, <1>2
    <3> QED BY <3>1, <1>3
  <2>2. CASE j > i
    <3>1. j - 1 \in 1..(Len(s) - 1) /\ ~(j - 1 < i) /\ j - 1 + 1 = j
      BY <2>2, <1>1
    <3>2. r[j - 1] = s[j]
      BY <3>1, <1>2
    <3> QED BY <3>1, <3>2, <1>3
  <2> QED BY <1>4, <1>1, <2>1, <2>2
<1>5. ASSUME NEW k \in 1..(Len(s) - 1)
      PROVE  \E j \in 1..Len(s) : r[k] = s[j]
  <2>1. k \in 1..Len(s) /\ k + 1 \in 1..Len(s)
    BY <1>1
  <2> QED BY <1>2, <2>1
<1>6. ToSet(r) \subseteq ToSet(s)
  BY <1>3, <1>5 DEF ToSet
<1> QED BY <1>2, <1>4, <1>6 DEF r, ToSet

\* Appending an element adds it to the elements.
LEMMA AppendAdds ==
    ASSUME NEW S, NEW s \in Seq(S), NEW e \in S
    PROVE  /\ Append(s, e) \in Seq(S)
           /\ ToSet(Append(s, e)) = ToSet(s) \cup {e}
<1>1. /\ Append(s, e) \in Seq(S)
      /\ Len(Append(s, e)) = Len(s) + 1
      /\ \A i \in 1..Len(s) : Append(s, e)[i] = s[i]
      /\ Append(s, e)[Len(s) + 1] = e
  BY AppendProperties
<1>2. DOMAIN s = 1..Len(s) /\ DOMAIN Append(s, e) = 1..(Len(s) + 1) /\ Len(s) \in Nat
  BY <1>1, LenProperties
<1> QED BY <1>1, <1>2 DEF ToSet

\* A linked task has a position in the list.
LEMMA PosInList ==
    ASSUME list \in Seq(Tasks), NEW t \in Linked
    PROVE  Pos(t) \in 1..Len(list) /\ list[Pos(t)] = t /\ t \in Tasks
<1>1. PICK i \in DOMAIN list : list[i] = t
  BY DEF Linked, ToSet
<1>2. DOMAIN list = 1..Len(list) /\ t \in Tasks
  BY <1>1, LenProperties, ElementOfSeq
<1> QED BY <1>1, <1>2 DEF Pos

\* The loop's saved successor, and its first task, are linked, or the end of the list.
LEMMA NextIsTask ==
    ASSUME list \in Seq(Tasks), NEW t \in Linked
    PROVE  pesudoos_task_list_next(t) \in Linked \cup {NoTask}
<1>1. Pos(t) \in 1..Len(list) /\ Len(list) \in Nat
  BY PosInList, LenProperties
<1>2. CASE Pos(t) < Len(list)
  <2>1. Pos(t) + 1 \in 1..Len(list)
    BY <1>1, <1>2
  <2> QED BY <2>1, <1>2, LenProperties DEF pesudoos_task_list_next, Linked, ToSet
<1>3. CASE ~(Pos(t) < Len(list))
  BY <1>3 DEF pesudoos_task_list_next
<1> QED BY <1>2, <1>3

\* The list holds tasks only.
LEMMA LinkedAreTasks ==
    ASSUME list \in Seq(Tasks)
    PROVE  Linked \subseteq Tasks
  BY PosInList

\* The first task of the list is linked, or the list is empty.
LEMMA FirstIsTask ==
    ASSUME list \in Seq(Tasks)
    PROVE  pesudoos_task_list_first \in Linked \cup {NoTask}
<1>1. CASE list = <<>>
  BY <1>1 DEF pesudoos_task_list_first
<1>2. CASE list # <<>>
  <2>1. 1 \in 1..Len(list)
    BY <1>2, EmptySeq, LenProperties
  <2> QED BY <2>1, <1>2, LenProperties DEF pesudoos_task_list_first, Linked, ToSet
<1> QED BY <1>1, <1>2

(***************************************************************************)
(* The flags.                                                              *)
(***************************************************************************)

\* The blocking and the granting flags of the four kinds of objects are all
\* different, and different from every other flag.
LEMMA KindFlags ==
    ASSUME NEW k \in Kinds
    PROVE  /\ BlockedFlag(k) \in {"BLOCKED_MUTEX", "BLOCKED_SEM", "BLOCKED_EVENT", "BLOCKED_MQ"}
           /\ GrantFlag(k) \in GrantFlags
           /\ k \in Calls
           /\ \A j \in Kinds : j # k => /\ BlockedFlag(j) # BlockedFlag(k)
                                       /\ GrantFlag(j) # GrantFlag(k)
  BY DEF Kinds, BlockedFlag, GrantFlag, GrantFlags, Calls

CallFlags == BlockingFlags \cup GrantFlags

\* An action keeps a task's pending call if it leaves alone the blocking and
\* granting flags, the saved context and the object of that task.
LEMMA FrameKept ==
    ASSUME NEW t \in Tasks, CallKept(t),
           \A f \in CallFlags : f \in state'[t] <=> f \in state[t],
           func_exit_pos'[t] = func_exit_pos[t],
           block_obj'[t] = block_obj[t]
    PROVE  CallKept(t)'
<1>1. \A k \in Kinds : BlockedFlag(k) \in CallFlags /\ GrantFlag(k) \in CallFlags
  BY KindFlags DEF CallFlags, BlockingFlags
<1>2. "SLEEP" \in CallFlags
  BY DEF CallFlags, BlockingFlags
<1> QED BY <1>1, <1>2 DEF CallKept

\* A task inside no call has no blocking or granting flag, and conversely.
LEMMA NoCallNoFlag ==
    ASSUME KernelTypeOK, NEW t \in Tasks, CallKept(t)
    PROVE  /\ func_exit_pos[t] = "none" => state[t] \cap CallFlags = {} /\ block_obj[t] = NoObj
           /\ state[t] \cap CallFlags = {} => func_exit_pos[t] = "none" /\ block_obj[t] = NoObj
<1>1. \A f \in CallFlags : f = "SLEEP" \/ \E k \in Kinds : f \in {BlockedFlag(k), GrantFlag(k)}
  BY DEF CallFlags, BlockingFlags, GrantFlags, Kinds, BlockedFlag, GrantFlag
<1>2. func_exit_pos[t] \in {"none", "sleep", "sleep_until"} \cup Kinds
  BY DEF KernelTypeOK, Calls
<1>3. "none" \notin Kinds \cup {"sleep", "sleep_until"}
  BY DEF Kinds
<1>4. "SLEEP" \in CallFlags /\ \A k \in Kinds : BlockedFlag(k) \in CallFlags
  BY KindFlags DEF CallFlags, BlockingFlags
<1>5. ASSUME func_exit_pos[t] = "none"
      PROVE  state[t] \cap CallFlags = {} /\ block_obj[t] = NoObj
  <2>1. block_obj[t] = NoObj
    BY <1>3, <1>5 DEF CallKept
  <2>2. ASSUME NEW f \in CallFlags, f \in state[t] PROVE FALSE
    BY <1>1, <1>3, <1>5, <2>2 DEF CallKept
  <2> QED BY <2>1, <2>2
<1>6. ASSUME state[t] \cap CallFlags = {}
      PROVE  func_exit_pos[t] = "none" /\ block_obj[t] = NoObj
  <2>1. "SLEEP" \notin state[t] /\ \A k \in Kinds : BlockedFlag(k) \notin state[t]
    BY <1>4, <1>6
  <2>2. func_exit_pos[t] = "none"
    BY <1>2, <2>1 DEF CallKept
  <2> QED BY <2>2, <1>3 DEF CallKept
<1> QED BY <1>5, <1>6

\* A task left with no such flag, no context and no object is outside every call.
LEMMA NoFlagKept ==
    ASSUME NEW t \in Tasks, state'[t] \cap CallFlags = {},
           func_exit_pos'[t] = "none", block_obj'[t] = NoObj
    PROVE  CallKept(t)'
<1>1. "SLEEP" \in CallFlags /\ \A k \in Kinds : BlockedFlag(k) \in CallFlags /\ GrantFlag(k) \in CallFlags
  BY KindFlags DEF CallFlags, BlockingFlags
<1>2. "none" \notin Kinds \cup {"sleep", "sleep_until"}
  BY DEF Kinds
<1> QED BY <1>1, <1>2 DEF CallKept

\* The flags that only say how a task is scheduled belong to no call.
LEMMA RestFlags ==
    /\ {"RUNNING", "READY", "IDLE", "SUSPEND", "WANT_SUSPEND", "WANT_DELETE"} \cap CallFlags = {}
    /\ {"RUNNING", "READY", "IDLE", "SUSPEND", "WANT_SUSPEND", "WANT_DELETE"} \subseteq Flags
  BY DEF CallFlags, BlockingFlags, GrantFlags, Flags

-----------------------------------------------------------------------------
(***************************************************************************)
(* KernelInv is inductive: one lemma per action.                           *)
(***************************************************************************)
\* KernelInv holds when pesudoos_run() starts on the tasks created at boot.
LEMMA InitInv ==
    ASSUME TasksAssumption, KernelInit
    PROVE  KernelInv
<1>1. list \in Seq(Tasks)
  <2>1. Boot \in Seq(Tasks \ Timers)
    BY DEF TasksAssumption
  <2>2. Boot \in Seq(Tasks)
    BY <2>1, SeqMonotonic
  <2> QED BY <2>2 DEF KernelInit
<1>2. pesudoos_task_list_first \in Linked \cup {NoTask}
  BY <1>1, FirstIsTask
<1>3. KernelTypeOK
  BY <1>1, <1>2, LinkedAreTasks, RestFlags DEF KernelInit, KernelTypeOK, Calls
<1>4. ASSUME NEW t \in Tasks \ Timers PROVE CallKept(t)
  BY DEF KernelInit, CallKept, Kinds, BlockedFlag, GrantFlag
<1>5. LoopOnLiveTasks
  BY <1>2 DEF KernelInit, LoopOnLiveTasks
<1>6. SuccessorLinked /\ RunningOutsideCalls /\ ResumedAsGranted /\ TimersNeverBlock
  BY DEF KernelInit, SuccessorLinked, RunningOutsideCalls, ResumedAsGranted, TimersNeverBlock
<1> QED BY <1>3, <1>4, <1>5, <1>6 DEF KernelInv, PendingCallKept

\* The clock interrupt preserves KernelInv.
LEMMA TickInv ==
    ASSUME KernelInv, Tick
    PROVE  KernelInv'
<1> USE DEF Tick, objFields, runFields, loopVars
<1>1. KernelTypeOK'
  <2>1. now' \in Nat
    BY DEF KernelInv, KernelTypeOK
  <2> QED BY <2>1 DEF KernelInv, KernelTypeOK
<1>2. PendingCallKept'
  BY DEF KernelInv, PendingCallKept, CallKept
<1>3. LoopOnLiveTasks' /\ SuccessorLinked'
  BY DEF KernelInv, LoopOnLiveTasks, SuccessorLinked, Linked
<1>4. TimersNeverBlock' /\ RunningOutsideCalls' /\ ResumedAsGranted'
  BY DEF KernelInv, TimersNeverBlock, RunningOutsideCalls, ResumedAsGranted
<1> QED BY <1>1, <1>2, <1>3, <1>4 DEF KernelInv

\* What every visit does: the cursor's successor is linked, and so is the task.
LEMMA VisitFacts ==
    ASSUME KernelInv, NEW t \in Tasks, Visit(t)
    PROVE  /\ tmp' \in Linked \cup {NoTask}
           /\ tmp' \in Tasks \cup {NoTask}
           /\ freed' = NoTask
           /\ current' = t /\ t \in Linked
           /\ \A u \in Tasks : "RUNNING" \notin state[u]
<1>1. list \in Seq(Tasks)
  BY DEF KernelInv, KernelTypeOK
<1>2. \A u \in Tasks : "RUNNING" \notin state[u]
  BY DEF KernelInv, LoopOnLiveTasks, Visit
<1> QED BY <1>1, <1>2, NextIsTask, LinkedAreTasks DEF Visit

\* Starting a handler preserves KernelInv.
LEMMA VisitDispatchInv ==
    ASSUME KernelInv, NEW t \in Tasks, VisitDispatch(t)
    PROVE  KernelInv'
<1> USE DEF VisitDispatch, objFields
<1>1. state[t] \in {{"READY"}, {"IDLE"}}
  BY DEF Promoted
<1>2. KernelTypeOK'
  BY VisitFacts, RestFlags DEF KernelInv, KernelTypeOK, Calls
<1>3. ASSUME NEW u \in Tasks \ Timers PROVE CallKept(u)'
  <2>1. CallKept(u)
    BY DEF KernelInv, PendingCallKept
  <2>2. CASE u = t
    <3>1. state[t] \cap CallFlags = {}
      BY <1>1, RestFlags
    <3>2. block_obj[t] = NoObj
      BY <2>1, <2>2, <3>1, NoCallNoFlag DEF KernelInv
    <3>3. state'[t] = {"RUNNING"} /\ func_exit_pos'[t] = "none" /\ block_obj'[t] = NoObj
      BY <3>2 DEF KernelInv, KernelTypeOK
    <3>4. state'[t] \cap CallFlags = {}
      BY <3>3, RestFlags
    <3> QED BY <2>2, <3>3, <3>4, NoFlagKept
  <2>3. CASE u # t
    <3>1. /\ state'[u] = state[u] /\ func_exit_pos'[u] = func_exit_pos[u]
          /\ block_obj'[u] = block_obj[u]
      BY <2>3 DEF KernelInv, KernelTypeOK
    <3> QED BY <2>1, <3>1, FrameKept
  <2> QED BY <2>2, <2>3
<1>4. LoopOnLiveTasks' /\ SuccessorLinked'
  BY VisitFacts DEF KernelInv, KernelTypeOK, LoopOnLiveTasks, SuccessorLinked, Linked
<1>5. TimersNeverBlock' /\ RunningOutsideCalls' /\ ResumedAsGranted'
  BY VisitFacts DEF KernelInv, KernelTypeOK, TimersNeverBlock, RunningOutsideCalls, ResumedAsGranted
<1> QED BY <1>2, <1>3, <1>4, <1>5 DEF KernelInv, PendingCallKept

\* A visit that leaves the task as it is.
LEMMA VisitUnchangedInv ==
    ASSUME KernelInv, NEW t \in Tasks, Visit(t),
           UNCHANGED <<now, list, state, objFields, runFields, delay_until>>,
           task' \in {task, tmp'},
           ret' \in {"none", "wakeup", "ETIMEDOUT"} \cup GrantFlags \cup {ret},
           \/ pc' = "foreach" /\ task' = tmp'
           \/ /\ pc' = "resumed" /\ t \notin Timers
              /\ \A k \in Kinds : func_exit_pos[t] = k =>
                    (ret' = GrantFlag(k) <=> GrantFlag(k) \in state[t])
    PROVE  KernelInv'
<1> USE DEF objFields, runFields
<1>1. KernelTypeOK'
  BY VisitFacts DEF KernelInv, KernelTypeOK
<1>2. PendingCallKept'
  BY DEF KernelInv, PendingCallKept, CallKept
<1>3. LoopOnLiveTasks' /\ SuccessorLinked'
  BY VisitFacts DEF KernelInv, LoopOnLiveTasks, SuccessorLinked, Linked
<1>4. TimersNeverBlock' /\ RunningOutsideCalls' /\ ResumedAsGranted'
  BY VisitFacts DEF KernelInv, TimersNeverBlock, RunningOutsideCalls, ResumedAsGranted
<1> QED BY <1>1, <1>2, <1>3, <1>4 DEF KernelInv

\* Resuming a task whose sleep is over preserves KernelInv.
LEMMA VisitWakeupInv ==
    ASSUME KernelInv, NEW t \in Tasks, VisitWakeup(t)
    PROVE  KernelInv'
<1>1. CallKept(t) /\ t \notin Timers /\ "SLEEP" \in state[t]
  BY DEF VisitWakeup, KernelInv, PendingCallKept
<1>2. \A k \in Kinds : func_exit_pos[t] # k
  BY <1>1 DEF CallKept, Kinds
<1> QED BY <1>1, <1>2, VisitUnchangedInv DEF VisitWakeup, Resume

\* Resuming a granted or timed-out waiter preserves KernelInv: it gets what it was granted.
LEMMA VisitGrantedInv ==
    ASSUME KernelInv, NEW t \in Tasks, NEW k \in Kinds, VisitGranted(t, k) \/ VisitTimeout(t, k)
    PROVE  KernelInv'
<1>1. k \in BlockedOn(t)
  BY DEF VisitGranted, VisitTimeout
<1>2. t \notin Timers
  BY <1>1 DEF BlockedOn, KernelInv, TimersNeverBlock
<1>3. func_exit_pos[t] = k
  BY <1>1, <1>2 DEF BlockedOn, KernelInv, PendingCallKept, CallKept
<1>4. CASE VisitGranted(t, k)
  BY <1>2, <1>3, <1>4, KindFlags, VisitUnchangedInv DEF VisitGranted, Resume
<1>5. CASE VisitTimeout(t, k)
  <2>1. GrantFlag(k) # "ETIMEDOUT"
    BY KindFlags DEF GrantFlags
  <2> QED BY <1>2, <1>3, <1>5, <2>1, VisitUnchangedInv DEF VisitTimeout, Resume
<1> QED BY <1>4, <1>5

\* Passing over a task preserves KernelInv.
LEMMA VisitSkipInv ==
    ASSUME KernelInv, NEW t \in Tasks, VisitSkip(t)
    PROVE  KernelInv'
  BY VisitUnchangedInv DEF VisitSkip, GoOn

\* The end of a pass preserves KernelInv.
LEMMA EndPassInv ==
    ASSUME KernelInv, EndPass
    PROVE  KernelInv'
<1> USE DEF EndPass, objFields, runFields
<1>1. list' = list
  BY DEF Reaped
<1>2. KernelTypeOK'
  BY <1>1 DEF KernelInv, KernelTypeOK
<1>3. PendingCallKept'
  BY DEF KernelInv, PendingCallKept, CallKept
<1>4. LoopOnLiveTasks' /\ SuccessorLinked'
  BY <1>1 DEF KernelInv, LoopOnLiveTasks, SuccessorLinked, Linked
<1>5. TimersNeverBlock' /\ RunningOutsideCalls' /\ ResumedAsGranted'
  BY DEF KernelInv, TimersNeverBlock, RunningOutsideCalls, ResumedAsGranted
<1> QED BY <1>2, <1>3, <1>4, <1>5 DEF KernelInv

\* The first step of a pass preserves KernelInv.
LEMMA StartPassInv ==
    ASSUME KernelInv, StartPass
    PROVE  KernelInv'
<1> USE DEF StartPass, objFields, runFields
<1>1. pesudoos_task_list_first \in Linked \cup {NoTask}
  BY FirstIsTask DEF KernelInv, KernelTypeOK
<1>2. Linked \subseteq Tasks
  BY LinkedAreTasks DEF KernelInv, KernelTypeOK
<1>3. KernelTypeOK'
  BY <1>1, <1>2 DEF KernelInv, KernelTypeOK
<1>4. PendingCallKept'
  BY DEF KernelInv, PendingCallKept, CallKept
<1>5. LoopOnLiveTasks' /\ SuccessorLinked'
  BY <1>1 DEF KernelInv, LoopOnLiveTasks, SuccessorLinked, Linked
<1>6. TimersNeverBlock' /\ RunningOutsideCalls' /\ ResumedAsGranted'
  BY DEF KernelInv, TimersNeverBlock, RunningOutsideCalls, ResumedAsGranted
<1> QED BY <1>3, <1>4, <1>5, <1>6 DEF KernelInv

\* The running task leaves its handler for the loop, returning or blocked in a call.
LEMMA BackInLoopInv ==
    ASSUME KernelInv, InTask, Me \notin Timers, BackInLoop,
           UNCHANGED <<now, list, tmp, freed, current, ret, delay_until>>,
           first_run_until' \in [Tasks -> Nat], sleep_until' \in [Tasks -> Nat],
           block_when' \in [Tasks -> Nat], block_until' \in [Tasks -> Nat],
           prev_ticks' \in [Tasks -> Nat],
           NEW s \in SUBSET Flags, state' = [state EXCEPT ![Me] = s],
           NEW c \in Calls, func_exit_pos' = [func_exit_pos EXCEPT ![Me] = c],
           NEW o \in Objects \cup {NoObj}, block_obj' = [block_obj EXCEPT ![Me] = o],
           "RUNNING" \notin s,
           CallKept(Me)'
    PROVE  KernelInv'
<1> USE DEF BackInLoop, InTask, Me
<1>1. KernelTypeOK'
  BY DEF KernelInv, KernelTypeOK
<1>2. ASSUME NEW u \in Tasks \ Timers PROVE CallKept(u)'
  <2>1. CASE u # Me
    BY <2>1, FrameKept DEF KernelInv, KernelTypeOK, PendingCallKept
  <2> QED BY <2>1
<1>3. LoopOnLiveTasks' /\ SuccessorLinked'
  BY DEF KernelInv, KernelTypeOK, LoopOnLiveTasks, SuccessorLinked, Linked
<1>4. TimersNeverBlock' /\ RunningOutsideCalls' /\ ResumedAsGranted'
  BY DEF KernelInv, KernelTypeOK, TimersNeverBlock, RunningOutsideCalls, ResumedAsGranted
<1> QED BY <1>1, <1>2, <1>3, <1>4 DEF KernelInv, PendingCallKept

\* The running task is in no call.
LEMMA MeOutsideCalls ==
    ASSUME KernelInv, InTask, Me \notin Timers
    PROVE  /\ Me \in Tasks
           /\ CallKept(Me)
           /\ state[Me] \in SUBSET Flags
           /\ state[Me] \cap CallFlags = {}
           /\ func_exit_pos[Me] = "none" /\ block_obj[Me] = NoObj
<1>1. Me \in Tasks /\ func_exit_pos[Me] = "none" /\ state[Me] \in SUBSET Flags
  BY DEF KernelInv, KernelTypeOK, RunningOutsideCalls, InTask, Me
<1>2. CallKept(Me)
  BY <1>1 DEF KernelInv, PendingCallKept
<1> QED BY <1>1, <1>2, NoCallNoFlag DEF KernelInv

\* The return of a handler to the loop preserves KernelInv.
LEMMA HandlerReturnsInv ==
    ASSUME KernelInv, HandlerReturns
    PROVE  KernelInv'
<1> USE DEF HandlerReturns, objFields
<1> DEFINE s == IF "RUNNING" \notin state[Me] THEN state[Me]
                ELSE IF "WANT_SUSPEND" \in state[Me] THEN {"SUSPEND"} ELSE {"READY"}
<1>1. s \in SUBSET Flags /\ "RUNNING" \notin s /\ s \cap CallFlags = {}
  BY MeOutsideCalls, RestFlags
<1>2. /\ state' = [state EXCEPT ![Me] = s]
      /\ func_exit_pos' = [func_exit_pos EXCEPT ![Me] = "none"]
      /\ block_obj' = [block_obj EXCEPT ![Me] = NoObj]
  BY MeOutsideCalls DEF KernelInv, KernelTypeOK
<1>3. CallKept(Me)'
  <2>1. Me' = Me
    BY DEF Me
  <2>2. state'[Me] = s /\ func_exit_pos'[Me] = "none" /\ block_obj'[Me] = NoObj
    BY <1>2, MeOutsideCalls DEF KernelInv, KernelTypeOK
  <2> HIDE DEF s
  <2>3. ASSUME NEW t \in Tasks, t = Me PROVE CallKept(t)'
    BY <1>1, <2>2, <2>3, NoFlagKept
  <2> QED BY <2>1, <2>3, MeOutsideCalls
<1>4. /\ first_run_until' \in [Tasks -> Nat] /\ sleep_until' \in [Tasks -> Nat]
      /\ block_when' \in [Tasks -> Nat] /\ block_until' \in [Tasks -> Nat]
      /\ prev_ticks' \in [Tasks -> Nat]
  BY MeOutsideCalls DEF KernelInv, KernelTypeOK
<1>5. "none" \in Calls /\ NoObj \in Objects \cup {NoObj}
  BY DEF Calls
<1> HIDE DEF s
<1> QED BY <1>1, <1>2, <1>3, <1>4, <1>5, BackInLoopInv

-----------------------------------------------------------------------------
(***************************************************************************)
(* The pesudo_task_* calls.                                                *)
(***************************************************************************)
\* pesudo_task_create(): linking zeroed memory preserves KernelInv.
LEMMA AllocateInv ==
    ASSUME KernelInv, InTask, NEW t \in Tasks, NEW until \in Nat,
           NEW s \in {{"IDLE"}, {"SUSPEND"}}, Allocate(t, s, until)
    PROVE  KernelInv'
<1> USE DEF Allocate, loopVars, InTask
<1>1. list \in Seq(Tasks)
  BY DEF KernelInv, KernelTypeOK
<1>2. list' \in Seq(Tasks) /\ Linked' = Linked \cup {t}
  BY <1>1, AppendAdds DEF Linked
<1>3. KernelTypeOK'
  BY <1>2, RestFlags DEF KernelInv, KernelTypeOK, Calls
<1>4. ASSUME NEW u \in Tasks \ Timers PROVE CallKept(u)'
  <2>1. CASE u = t
    BY <2>1, RestFlags, NoFlagKept DEF KernelInv, KernelTypeOK
  <2>2. CASE u # t
    BY <2>2, FrameKept DEF KernelInv, KernelTypeOK, PendingCallKept
  <2> QED BY <2>1, <2>2
<1>5. LoopOnLiveTasks' /\ SuccessorLinked'
  BY <1>2 DEF KernelInv, KernelTypeOK, LoopOnLiveTasks, SuccessorLinked
<1>6. TimersNeverBlock' /\ RunningOutsideCalls' /\ ResumedAsGranted'
  BY DEF KernelInv, KernelTypeOK, TimersNeverBlock, RunningOutsideCalls, ResumedAsGranted
<1> QED BY <1>3, <1>4, <1>5, <1>6 DEF KernelInv, PendingCallKept

\* pesudo_task_create() preserves KernelInv.
LEMMA CreateInv ==
    ASSUME TimeAssumption, KernelInv,
           NEW t \in Tasks, NEW ms \in Delays \cup {0}, pesudo_task_create(t, ms)
    PROVE  KernelInv'
<1>1. U32(now + ms) \in Nat
  BY DEF TimeAssumption, U32, KernelInv, KernelTypeOK
<1> QED BY <1>1, AllocateInv DEF pesudo_task_create

\* A change of the scheduling flags of one task by the task that runs.
LEMMA FlagsChangeInv ==
    ASSUME KernelInv, InTask,
           UNCHANGED <<now, objFields, runFields, pc, task, tmp, current, ret, delay_until>>,
           list' \in Seq(Tasks), current \in Linked', SuccessorLinked',
           NEW t \in Tasks, NEW s \in SUBSET Flags, state' = [state EXCEPT ![t] = s],
           \A f \in CallFlags \cup {"RUNNING"} : f \in s <=> f \in state[t]
    PROVE  KernelInv'
<1> USE DEF objFields, runFields, InTask
<1>1. KernelTypeOK'
  <2>1. freed' \in Tasks \cup {NoTask}
    BY DEF KernelInv, KernelTypeOK, SuccessorLinked
  <2> QED BY <2>1 DEF KernelInv, KernelTypeOK
<1>2. ASSUME NEW u \in Tasks \ Timers PROVE CallKept(u)'
  <2>1. \A f \in CallFlags : f \in state'[u] <=> f \in state[u]
    BY DEF KernelInv, KernelTypeOK
  <2> QED BY <2>1, FrameKept DEF KernelInv, PendingCallKept
<1>3. LoopOnLiveTasks' /\ SuccessorLinked'
  BY DEF KernelInv, KernelTypeOK, LoopOnLiveTasks, SuccessorLinked
<1>4. TimersNeverBlock' /\ RunningOutsideCalls' /\ ResumedAsGranted'
  BY DEF KernelInv, TimersNeverBlock, RunningOutsideCalls, ResumedAsGranted
<1> QED BY <1>1, <1>2, <1>3, <1>4 DEF KernelInv, PendingCallKept

\* pesudo_task_delete() of a task at rest unlinks no other task and links none.
LEMMA UnlinkKeeps ==
    ASSUME list \in Seq(Tasks), NEW t \in Linked, Unlink(t)
    PROVE  /\ list' \in Seq(Tasks)
           /\ \A u \in Linked : u # t => u \in Linked'
           /\ Linked' \subseteq Linked
<1>1. Pos(t) \in 1..Len(list) /\ list[Pos(t)] = t
  BY PosInList
<1>2. list' = RemoveAt(list, Pos(t))
  BY DEF Unlink
<1>3. /\ list' \in Seq(Tasks)
      /\ \A j \in 1..Len(list) : j # Pos(t) => list[j] \in ToSet(list')
      /\ ToSet(list') \subseteq ToSet(list)
  BY <1>1, <1>2, RemoveAtKeeps
<1>4. ASSUME NEW u \in Linked, u # t PROVE u \in Linked'
  <2>1. Pos(u) \in 1..Len(list) /\ list[Pos(u)] = u
    BY PosInList
  <2> QED BY <1>1, <1>3, <1>4, <2>1 DEF Linked
<1> QED BY <1>3, <1>4 DEF Linked

\* Unlinking a task at rest and marking an active one preserve KernelInv.
LEMMA UnlinkOrMarkInv ==
    ASSUME KernelInv, InTask, NEW t \in Tasks, t \in Linked,
           Unlink(t) \/ MarkDelete(t),
           UNCHANGED <<now, objFields, runFields, pc, task, tmp, current, ret, delay_until>>
    PROVE  KernelInv'
<1>1. /\ list \in Seq(Tasks) /\ state[t] \in SUBSET Flags
      /\ state \in [Tasks -> SUBSET Flags]
      /\ current \in Linked /\ SuccessorLinked /\ tmp \in Tasks \cup {NoTask}
  BY DEF KernelInv, KernelTypeOK, LoopOnLiveTasks, InTask
<1>2. CASE MarkDelete(t)
  <2> DEFINE s == state[t] \cup {"WANT_DELETE"}
  <2>1. s \in SUBSET Flags /\ \A f \in CallFlags \cup {"RUNNING"} : f \in s <=> f \in state[t]
    BY <1>1, RestFlags
  <2>2. state' = [state EXCEPT ![t] = s] /\ Linked' = Linked /\ list' \in Seq(Tasks)
    BY <1>1, <1>2 DEF MarkDelete, Linked
  <2>3. current \in Linked' /\ SuccessorLinked'
    BY <1>1, <1>2, <2>2 DEF MarkDelete, SuccessorLinked
  <2> HIDE DEF s
  <2> QED BY <2>1, <2>2, <2>3, FlagsChangeInv
<1>3. CASE Unlink(t)
  <2>1. list' \in Seq(Tasks) /\ \A u \in Linked : u # t => u \in Linked'
    BY <1>1, <1>3, UnlinkKeeps
  <2>2. current \in Linked' /\ SuccessorLinked'
    BY <1>1, <1>3, <2>1 DEF Unlink, SuccessorLinked
  <2>3. state[t] \cap (CallFlags \cup {"RUNNING"}) = {}
    BY <1>3, RestFlags DEF Unlink, AtRest
  <2>4. state' = [state EXCEPT ![t] = {}]
    BY <1>3 DEF Unlink
  <2> QED BY <2>1, <2>2, <2>3, <2>4, FlagsChangeInv
<1> QED BY <1>2, <1>3

\* pesudo_task_delete() preserves KernelInv.
LEMMA DeleteInv ==
    ASSUME KernelInv, NEW t \in Tasks, pesudo_task_delete(t)
    PROVE  KernelInv'
  BY UnlinkOrMarkInv DEF pesudo_task_delete

\* pesudo_task_suspend() preserves KernelInv.
LEMMA SuspendInv ==
    ASSUME KernelInv, NEW t \in Tasks, pesudo_task_suspend(t)
    PROVE  KernelInv'
<1> USE DEF pesudo_task_suspend
<1>1. /\ list' \in Seq(Tasks) /\ state[t] \in SUBSET Flags
      /\ current \in Linked' /\ SuccessorLinked'
  BY DEF KernelInv, KernelTypeOK, LoopOnLiveTasks, SuccessorLinked, InTask, Linked, loopVars
<1> DEFINE s == IF AtRest(t) THEN {"SUSPEND"} ELSE state[t] \cup {"WANT_SUSPEND"}
<1>2. state' = [state EXCEPT ![t] = s]
  <2>1. AtRest(t) => ~Active(t)
    BY DEF AtRest, Active, IS_BLOCKED, BlockingFlags
  <2> QED BY <2>1
<1>3. s \in SUBSET Flags
  BY <1>1, RestFlags
<1>4. \A f \in CallFlags \cup {"RUNNING"} : f \in s <=> f \in state[t]
  BY RestFlags DEF AtRest
<1> HIDE DEF s
<1> QED BY <1>1, <1>2, <1>3, <1>4, FlagsChangeInv DEF loopVars

\* pesudo_task_resume() preserves KernelInv.
LEMMA ResumeInv ==
    ASSUME KernelInv, NEW t \in Tasks, pesudo_task_resume(t)
    PROVE  KernelInv'
<1> USE DEF pesudo_task_resume
<1>1. /\ list' \in Seq(Tasks)
      /\ current \in Linked' /\ SuccessorLinked'
  BY DEF KernelInv, KernelTypeOK, LoopOnLiveTasks, SuccessorLinked, InTask, Linked, loopVars
<1>2. /\ {"READY"} \in SUBSET Flags
      /\ \A f \in CallFlags \cup {"RUNNING"} : f \in {"READY"} <=> f \in state[t]
  BY RestFlags
<1> QED BY <1>1, <1>2, FlagsChangeInv DEF loopVars

-----------------------------------------------------------------------------
(***************************************************************************)
(* Calls that leave the running task for the loop, and their return.       *)
(***************************************************************************)

\* The running task blocks in `call`, with the one flag that belongs to it.
LEMMA SaveContextInv ==
    ASSUME KernelInv, MayBlock,
           UNCHANGED <<now, list, first_run_until, tmp, freed, current, ret, delay_until>>,
           sleep_until' \in [Tasks -> Nat], prev_ticks' \in [Tasks -> Nat],
           block_when' \in [Tasks -> Nat], block_until' \in [Tasks -> Nat],
           NEW o \in Objects \cup {NoObj}, block_obj' = [block_obj EXCEPT ![Me] = o],
           NEW call, NEW flag, SaveContext(call, flag),
           \/ flag = "SLEEP" /\ call \in {"sleep", "sleep_until"} /\ o = NoObj
           \/ call \in Kinds /\ flag = BlockedFlag(call) /\ o # NoObj
    PROVE  KernelInv'
<1> USE DEF SaveContext, MayBlock
<1> DEFINE s == (state[Me] \ {"RUNNING"}) \cup {flag}
<1>1. flag \in BlockingFlags /\ call \in Calls
  BY KindFlags DEF BlockingFlags, Calls
<1>2. s \in SUBSET Flags /\ "RUNNING" \notin s /\ s \cap CallFlags = {flag}
  <2>1. flag \in CallFlags /\ flag \in Flags
    BY <1>1 DEF CallFlags, Flags
  <2> QED BY <2>1, MeOutsideCalls, RestFlags
<1>3. ASSUME NEW t \in Tasks, t = Me PROVE CallKept(t)'
  <2>1. state'[t] = s /\ func_exit_pos'[t] = call /\ block_obj'[t] = o
    BY <1>3 DEF KernelInv, KernelTypeOK
  <2>2. \A f \in CallFlags : f \in state'[t] <=> f = flag
    BY <1>2, <2>1
  <2>3. "SLEEP" \in CallFlags /\ \A k \in Kinds : BlockedFlag(k) \in CallFlags /\ GrantFlag(k) \in CallFlags
    BY KindFlags DEF CallFlags, BlockingFlags
  <2>4. \A k \in Kinds : GrantFlag(k) # flag
    BY <1>1, KindFlags DEF GrantFlags, BlockingFlags
  <2>5. CASE flag = "SLEEP" /\ call \in {"sleep", "sleep_until"} /\ o = NoObj
    <3>1. call \notin Kinds /\ \A k \in Kinds : BlockedFlag(k) # "SLEEP"
      BY <2>5, KindFlags DEF Kinds
    <3> QED BY <2>1, <2>2, <2>3, <2>4, <2>5, <3>1 DEF CallKept
  <2>6. CASE call \in Kinds /\ flag = BlockedFlag(call) /\ o # NoObj
    <3>1. call \notin {"sleep", "sleep_until"} /\ flag # "SLEEP"
      BY <2>6, KindFlags DEF Kinds
    <3>2. \A k \in Kinds : BlockedFlag(k) = flag <=> call = k
      BY <2>6, KindFlags
    <3> QED BY <2>1, <2>2, <2>3, <2>4, <2>6, <3>1, <3>2 DEF CallKept
  <2> QED BY <2>5, <2>6
<1>4. CallKept(Me)'
  <2>1. Me' = Me
    BY DEF Me
  <2> QED BY <1>3, <2>1, MeOutsideCalls
<1> HIDE DEF s
<1>5. first_run_until' \in [Tasks -> Nat]
  BY DEF KernelInv, KernelTypeOK
<1>6. state' = [state EXCEPT ![Me] = s] /\ func_exit_pos' = [func_exit_pos EXCEPT ![Me] = call]
  BY DEF s
<1> QED BY <1>1, <1>2, <1>4, <1>5, <1>6, BackInLoopInv

\* Going to sleep in either sleeping call preserves KernelInv.
LEMMA SleepForInv ==
    ASSUME KernelInv, MayBlock, prev_ticks' \in [Tasks -> Nat],
           NEW call \in {"sleep", "sleep_until"}, NEW until \in Nat, SleepFor(call, until)
    PROVE  KernelInv'
<1> USE DEF SleepFor, objFields
<1>1. /\ sleep_until' \in [Tasks -> Nat]
      /\ block_when' \in [Tasks -> Nat] /\ block_until' \in [Tasks -> Nat]
  BY DEF KernelInv, KernelTypeOK
<1>2. block_obj' = [block_obj EXCEPT ![Me] = NoObj] /\ NoObj \in Objects \cup {NoObj}
  BY MeOutsideCalls DEF KernelInv, KernelTypeOK, MayBlock
<1> QED BY <1>1, <1>2, SaveContextInv

\* pesudo_task_sleep() preserves KernelInv.
LEMMA SleepInv ==
    ASSUME TimeAssumption, KernelInv, NEW ms \in Delays, pesudo_task_sleep(ms)
    PROVE  KernelInv'
<1>1. now + ms \in Nat /\ prev_ticks' \in [Tasks -> Nat]
  BY DEF TimeAssumption, KernelInv, KernelTypeOK, pesudo_task_sleep
<1> QED BY <1>1, SleepForInv DEF pesudo_task_sleep

\* What pesudo_task_sleep_until() computes with is a natural number.
LEMMA PrevTicksNat ==
    ASSUME TimeAssumption, KernelInv, Me \in Tasks, NEW p \in PrevTicks, NEW inc \in Delays
    PROVE  p \in Nat /\ U32(p + inc) \in Nat
<1>1. p \in Nat /\ p + inc \in Nat
  BY DEF TimeAssumption, KernelInv, KernelTypeOK, PrevTicks, U32
<1> QED BY <1>1 DEF TimeAssumption, U32

\* pesudo_task_sleep_until() preserves KernelInv, whether it sleeps or is late.
LEMMA SleepUntilInv ==
    ASSUME TimeAssumption, KernelInv, NEW inc \in Delays,
           pesudo_task_sleep_until(inc) \/ SleepUntilLate(inc)
    PROVE  KernelInv'
<1>1. MayBlock /\ InTask /\ Me \notin Timers
  BY DEF pesudo_task_sleep_until, SleepUntilLate, MayBlock
<1>2. CASE pesudo_task_sleep_until(inc)
  <2>1. PICK p \in PrevTicks :
          /\ prev_ticks' = [prev_ticks EXCEPT ![Me] = p]
          /\ SleepFor("sleep_until", U32(p + inc))
    BY <1>2 DEF pesudo_task_sleep_until
  <2>2. p \in Nat /\ U32(p + inc) \in Nat
    BY <1>1, <2>1, PrevTicksNat, MeOutsideCalls
  <2>3. prev_ticks' \in [Tasks -> Nat]
    BY <2>1, <2>2 DEF KernelInv, KernelTypeOK
  <2> QED BY <1>1, <2>1, <2>2, <2>3, SleepForInv
<1>3. CASE SleepUntilLate(inc)
  <2> USE <1>3 DEF SleepUntilLate, objFields
  <2>1. PICK p \in PrevTicks : prev_ticks' = [prev_ticks EXCEPT ![Me] = p]
    OBVIOUS
  <2>2. p \in Nat
    BY <1>1, <2>1, PrevTicksNat, MeOutsideCalls
  <2>3. KernelTypeOK'
    <3>1. delay_until' \in Nat /\ pc' = "delay" /\ current' \in Tasks
      BY <1>1 DEF TimeAssumption, KernelInv, KernelTypeOK, InTask
    <3>2. prev_ticks' \in [Tasks -> Nat]
      BY <2>1, <2>2 DEF KernelInv, KernelTypeOK
    <3> QED BY <3>1, <3>2 DEF KernelInv, KernelTypeOK
  <2>4. PendingCallKept'
    BY DEF KernelInv, PendingCallKept, CallKept
  <2>5. LoopOnLiveTasks' /\ SuccessorLinked'
    BY <1>1 DEF KernelInv, LoopOnLiveTasks, SuccessorLinked, Linked, InTask
  <2>6. TimersNeverBlock' /\ RunningOutsideCalls' /\ ResumedAsGranted'
    BY <1>1 DEF KernelInv, TimersNeverBlock, RunningOutsideCalls, ResumedAsGranted, InTask
  <2> QED BY <2>3, <2>4, <2>5, <2>6 DEF KernelInv
<1> QED BY <1>2, <1>3

\* The end of the busy wait in delay_ms() preserves KernelInv.
LEMMA DelayEndsInv ==
    ASSUME KernelInv, DelayEnds
    PROVE  KernelInv'
<1> USE DEF DelayEnds, objFields, runFields
<1>1. KernelTypeOK'
  BY DEF KernelInv, KernelTypeOK
<1>2. PendingCallKept'
  BY DEF KernelInv, PendingCallKept, CallKept
<1>3. LoopOnLiveTasks' /\ SuccessorLinked'
  BY DEF KernelInv, LoopOnLiveTasks, SuccessorLinked, Linked
<1>4. TimersNeverBlock' /\ RunningOutsideCalls' /\ ResumedAsGranted'
  BY DEF KernelInv, TimersNeverBlock, RunningOutsideCalls, ResumedAsGranted
<1> QED BY <1>1, <1>2, <1>3, <1>4 DEF KernelInv

\* The only call flags of a resumed task are those of the call it is resumed in.
LEMMA ResumedFlags ==
    ASSUME KernelInv, NEW call, Resumed(call)
    PROVE  /\ Me \in Tasks \ Timers
           /\ CallKept(Me)
           /\ state[Me] \in SUBSET Flags
           /\ call \in {"sleep", "sleep_until"} => state[Me] \cap CallFlags \subseteq {"SLEEP"}
           /\ call \in Kinds => state[Me] \cap CallFlags \subseteq {BlockedFlag(call), GrantFlag(call)}
<1>1. Me \in Tasks \ Timers /\ state[Me] \in SUBSET Flags /\ func_exit_pos[Me] = call
  BY DEF Resumed, KernelInv, KernelTypeOK, ResumedAsGranted, Me
<1>2. CallKept(Me)
  BY <1>1 DEF KernelInv, PendingCallKept
<1>3. \A f \in CallFlags : f = "SLEEP" \/ \E k \in Kinds : f \in {BlockedFlag(k), GrantFlag(k)}
  BY DEF CallFlags, BlockingFlags, GrantFlags, Kinds, BlockedFlag, GrantFlag
<1>4. "sleep" \notin Kinds /\ "sleep_until" \notin Kinds
  BY DEF Kinds
<1> QED BY <1>1, <1>2, <1>3, <1>4 DEF CallKept

\* What a resumed call does before it returns to the handler preserves KernelInv.
LEMMA LeaveCallInv ==
    ASSUME KernelInv, NEW call, Resumed(call), NEW flags, LeaveCall(flags),
           state[Me] \cap CallFlags \subseteq flags,
           UNCHANGED <<now, list, first_run_until, task, tmp, freed, current, delay_until>>,
           sleep_until' \in [Tasks -> Nat], prev_ticks' \in [Tasks -> Nat],
           block_when' \in [Tasks -> Nat], block_until' \in [Tasks -> Nat],
           block_obj' = [block_obj EXCEPT ![Me] = NoObj]
    PROVE  KernelInv'
<1> USE DEF LeaveCall, Resumed
<1> DEFINE s == (state[Me] \ flags) \cup {"RUNNING"}
<1>1. s \in SUBSET Flags /\ s \cap CallFlags = {} /\ Me \in Tasks \ Timers
  BY ResumedFlags, RestFlags
<1>2. /\ state' = [state EXCEPT ![Me] = s]
      /\ func_exit_pos' = [func_exit_pos EXCEPT ![Me] = "none"]
  OBVIOUS
<1> HIDE DEF s
<1>3. KernelTypeOK'
  BY <1>1, <1>2 DEF KernelInv, KernelTypeOK, Calls
<1>4. ASSUME NEW u \in Tasks \ Timers PROVE CallKept(u)'
  <2>1. CASE u = Me
    BY <1>1, <1>2, <2>1, NoFlagKept DEF KernelInv, KernelTypeOK
  <2>2. CASE u # Me
    BY <2>2, FrameKept DEF KernelInv, KernelTypeOK, PendingCallKept
  <2> QED BY <2>1, <2>2
<1>5. LoopOnLiveTasks' /\ SuccessorLinked'
  BY <1>1, <1>2 DEF KernelInv, KernelTypeOK, LoopOnLiveTasks, SuccessorLinked, Linked, Me
<1>6. TimersNeverBlock' /\ RunningOutsideCalls' /\ ResumedAsGranted'
  BY <1>1 DEF KernelInv, KernelTypeOK, TimersNeverBlock, RunningOutsideCalls, ResumedAsGranted, Me
<1> QED BY <1>3, <1>4, <1>5, <1>6 DEF KernelInv, PendingCallKept

\* The end of pesudo_task_sleep() and pesudo_task_sleep_until() preserves KernelInv.
LEMMA SleepTailInv ==
    ASSUME KernelInv, SleepTail
    PROVE  KernelInv'
<1> USE DEF SleepTail, objFields
<1>1. PICK call \in {"sleep", "sleep_until"} : Resumed(call)
  OBVIOUS
<1>2. Me \in Tasks \ Timers /\ state[Me] \cap CallFlags \subseteq {"SLEEP"} /\ CallKept(Me)
  BY <1>1, ResumedFlags
<1>3. block_obj[Me] = NoObj
  BY <1>1, <1>2 DEF CallKept, Resumed, Kinds
<1>4. block_obj' = [block_obj EXCEPT ![Me] = NoObj]
  BY <1>2, <1>3 DEF KernelInv, KernelTypeOK
<1>5. /\ sleep_until' \in [Tasks -> Nat] /\ prev_ticks' \in [Tasks -> Nat]
      /\ block_when' \in [Tasks -> Nat] /\ block_until' \in [Tasks -> Nat]
  BY <1>2 DEF KernelInv, KernelTypeOK
<1> QED BY <1>1, <1>2, <1>4, <1>5, LeaveCallInv

\* Blocking on a kernel object preserves KernelInv.
LEMMA BlockInv ==
    ASSUME TasksAssumption, TimeAssumption, KernelInv,
           NEW k \in Kinds, NEW o \in Objects, NEW ms \in Delays, Block(k, o, ms)
    PROVE  KernelInv'
<1> USE DEF Block
<1>1. now \in Nat /\ now + ms \in Nat /\ o # NoObj
  BY DEF TasksAssumption, TimeAssumption, KernelInv, KernelTypeOK
<1>2. /\ sleep_until' \in [Tasks -> Nat] /\ prev_ticks' \in [Tasks -> Nat]
      /\ block_when' \in [Tasks -> Nat] /\ block_until' \in [Tasks -> Nat]
  BY <1>1 DEF KernelInv, KernelTypeOK
<1> QED BY <1>1, <1>2, SaveContextInv

\* The return of a call that had blocked on a kernel object preserves KernelInv.
LEMMA UnblockInv ==
    ASSUME KernelInv, NEW k \in Kinds, Unblock(k)
    PROVE  KernelInv'
<1> USE DEF Unblock
<1>1. state[Me] \cap CallFlags \subseteq {BlockedFlag(k), GrantFlag(k)}
  BY ResumedFlags
<1>2. /\ sleep_until' \in [Tasks -> Nat] /\ prev_ticks' \in [Tasks -> Nat]
      /\ block_when' \in [Tasks -> Nat] /\ block_until' \in [Tasks -> Nat]
  BY DEF KernelInv, KernelTypeOK
<1> QED BY <1>1, <1>2, LeaveCallInv

\* A granting flag set on tasks that are blocked on that kind of object.
LEMMA GrantAllInv ==
    ASSUME KernelInv, pc # "resumed", NEW k \in Kinds,
           NEW G \in SUBSET Tasks, \A t \in G : BlockedFlag(k) \in state[t],
           state' = [t \in Tasks |-> IF t \in G THEN state[t] \cup {GrantFlag(k)} ELSE state[t]],
           UNCHANGED <<now, list, objFields, runFields, loopVars>>
    PROVE  KernelInv'
<1> USE DEF objFields, runFields, loopVars
<1>1. GrantFlag(k) \in Flags /\ GrantFlag(k) # "RUNNING"
  BY KindFlags DEF GrantFlags, Flags
<1>2. KernelTypeOK'
  BY <1>1 DEF KernelInv, KernelTypeOK
<1>3. ASSUME NEW u \in Tasks \ Timers PROVE CallKept(u)'
  <2>1. CallKept(u)
    BY DEF KernelInv, PendingCallKept
  <2>2. CASE u \in G
    <3>1. state'[u] = state[u] \cup {GrantFlag(k)} /\ func_exit_pos[u] = k
      BY <2>1, <2>2 DEF CallKept, KernelInv, KernelTypeOK
    <3>2. "SLEEP" # GrantFlag(k) /\ \A j \in Kinds : BlockedFlag(j) # GrantFlag(k)
      BY KindFlags DEF GrantFlags
    <3>3. \A j \in Kinds : GrantFlag(j) = GrantFlag(k) => j = k
      BY KindFlags
    <3> QED BY <2>1, <3>1, <3>2, <3>3 DEF CallKept
  <2>3. CASE u \notin G
    BY <2>1, <2>3, FrameKept DEF KernelInv, KernelTypeOK
  <2> QED BY <2>2, <2>3
<1>4. LoopOnLiveTasks' /\ SuccessorLinked'
  BY <1>1 DEF KernelInv, KernelTypeOK, LoopOnLiveTasks, SuccessorLinked, Linked
<1>5. TimersNeverBlock' /\ RunningOutsideCalls' /\ ResumedAsGranted'
  BY DEF KernelInv, TimersNeverBlock, RunningOutsideCalls, ResumedAsGranted
<1> QED BY <1>2, <1>3, <1>4, <1>5 DEF KernelInv, PendingCallKept

\* A granting flag set on one such task by the task that runs.
LEMMA GrantInv ==
    ASSUME KernelInv, InTask, NEW k \in Kinds, NEW t \in Tasks, BlockedFlag(k) \in state[t],
           state' = [state EXCEPT ![t] = @ \cup {GrantFlag(k)}],
           UNCHANGED <<now, list, objFields, runFields, loopVars>>
    PROVE  KernelInv'
<1>1. state' = [u \in Tasks |-> IF u \in {t} THEN state[u] \cup {GrantFlag(k)} ELSE state[u]]
  BY DEF KernelInv, KernelTypeOK
<1>2. pc # "resumed" /\ {t} \in SUBSET Tasks /\ \A u \in {t} : BlockedFlag(k) \in state[u]
  BY DEF InTask
<1> QED BY <1>1, <1>2, GrantAllInv

\* The loop and the pesudo_task_* calls make no task a waiter, and give and take no
\* grant: who waits for an object afterwards did so before, with the same grant.
LEMMA KernelWaiters ==
    ASSUME KernelInv, KernelNext, Timers = {}, NEW k \in Kinds, NEW t \in Linked',
           BlockedFlag(k) \in state'[t]
    PROVE  /\ t \in Linked /\ BlockedFlag(k) \in state[t]
           /\ block_obj'[t] = block_obj[t]
           /\ GrantFlag(k) \in state'[t] <=> GrantFlag(k) \in state[t]
<1> USE DEF objFields
<1>1. state \in [Tasks -> SUBSET Flags] /\ list \in Seq(Tasks) /\ Linked \subseteq Tasks
  BY LinkedAreTasks DEF KernelInv, KernelTypeOK
<1>2. block_obj \in [Tasks -> Objects \cup {NoObj}]
  BY DEF KernelInv, KernelTypeOK
<1> DEFINE Rest == {"RUNNING", "READY", "IDLE", "SUSPEND", "WANT_SUSPEND", "WANT_DELETE", "SLEEP"}
           b == BlockedFlag(k)
           g == GrantFlag(k)
<1>3. b \notin Rest /\ g \notin Rest
  BY KindFlags DEF GrantFlags
<1> HIDE DEF b, g
<1> SUFFICES ASSUME b \in state'[t]
             PROVE  /\ t \in Linked /\ b \in state[t] /\ block_obj'[t] = block_obj[t]
                    /\ g \in state'[t] <=> g \in state[t]
  BY DEF b, g
<1>4. CASE VisitNext
  <2>1. Linked' = Linked /\ block_obj' = block_obj
    BY <1>4 DEF VisitNext, VisitDispatch, VisitWakeup, VisitGranted, VisitTimeout, VisitSkip,
                Resume, Linked
  <2>2. CASE state' = state
    BY <2>1, <2>2
  <2>3. CASE \E u \in Tasks : VisitDispatch(u)
    BY <1>1, <1>3, <2>1, <2>3 DEF VisitDispatch
  <2> QED BY <1>4, <2>2, <2>3 DEF VisitNext, VisitWakeup, VisitGranted, VisitTimeout, VisitSkip,
                                  Resume
<1>5. CASE Tick \/ EndPass \/ LoopAstray \/ StartPass
  BY <1>5 DEF Tick, EndPass, LoopAstray, kernelVars, StartPass, Linked, Reaped
<1>6. CASE HandlerReturns
  BY <1>1, <1>3, <1>6 DEF HandlerReturns, Linked
<1>7. CASE TaskCall
  <2>1. CASE \E u \in Tasks : \E ms \in Delays \cup {0} : pesudo_task_create(u, ms)
    <3>1. PICK u \in Tasks : \E ms \in Delays \cup {0} : pesudo_task_create(u, ms)
      BY <2>1
    <3>2. /\ list' = Append(list, u)
          /\ state' = [state EXCEPT ![u] = {"IDLE"}] /\ block_obj' = [block_obj EXCEPT ![u] = NoObj]
      BY <3>1 DEF pesudo_task_create, Allocate
    <3>3. Linked' = Linked \cup {u}
      BY <1>1, <3>2, AppendAdds DEF Linked
    <3> QED BY <1>1, <1>2, <1>3, <3>2, <3>3
  <2>2. CASE \E u \in Tasks : pesudo_task_delete(u)
    <3>1. PICK u \in Tasks : pesudo_task_delete(u)
      BY <2>2
    <3>2. CASE MarkDelete(u)
      BY <1>1, <1>3, <3>1, <3>2 DEF pesudo_task_delete, MarkDelete, Linked
    <3>3. CASE Unlink(u)
      <4>1. state' = [state EXCEPT ![u] = {}] /\ block_obj' = block_obj
        BY <3>1, <3>3 DEF pesudo_task_delete, Unlink
      <4>2. Linked' \subseteq Linked
        BY <1>1, <3>1, <3>3, UnlinkKeeps DEF pesudo_task_delete
      <4> QED BY <1>1, <4>1, <4>2
    <3> QED BY <3>1, <3>2, <3>3 DEF pesudo_task_delete
  <2>3. CASE \E u \in Tasks : pesudo_task_suspend(u) \/ pesudo_task_resume(u)
    BY <1>1, <1>3, <2>3 DEF pesudo_task_suspend, pesudo_task_resume, Linked
  <2>4. CASE \E ms \in Delays : pesudo_task_sleep(ms) \/ pesudo_task_sleep_until(ms)
    BY <1>1, <1>3, <2>4
       DEF pesudo_task_sleep, pesudo_task_sleep_until, SleepFor, SaveContext, Linked
  <2>5. CASE DelayEnds \/ \E ms \in Delays : SleepUntilLate(ms)
    BY <2>5 DEF DelayEnds, SleepUntilLate, Linked
  <2>6. CASE SleepTail
    BY <1>1, <1>3, <2>6 DEF SleepTail, LeaveCall, Linked
  <2> QED BY <1>7, <2>1, <2>2, <2>3, <2>4, <2>5, <2>6 DEF TaskCall
<1> QED BY <1>4, <1>5, <1>6, <1>7 DEF KernelNext, LoopStep

\* The loop and the pesudo_task_* calls block no task on an object and grant none: a
\* task that is blocked or granted afterwards was so before, and on the same object.
LEMMA KernelFlags ==
    ASSUME KernelInv, KernelNext, NEW t \in Tasks,
           NEW f \in (BlockingFlags \cup GrantFlags) \ {"SLEEP"}, f \in state'[t]
    PROVE  f \in state[t] /\ block_obj'[t] = block_obj[t]
<1> USE DEF objFields
<1>1. state \in [Tasks -> SUBSET Flags] /\ block_obj \in [Tasks -> Objects \cup {NoObj}]
  BY DEF KernelInv, KernelTypeOK
<1>2. f \notin {"RUNNING", "READY", "IDLE", "SUSPEND", "WANT_SUSPEND", "WANT_DELETE", "SLEEP"}
  BY DEF BlockingFlags, GrantFlags
<1>3. CASE VisitNext
  <2>1. block_obj' = block_obj
    BY <1>3 DEF VisitNext, VisitDispatch, VisitWakeup, VisitGranted, VisitTimeout, VisitSkip,
                Resume
  <2>2. CASE state' = state
    BY <2>1, <2>2
  <2>3. CASE \E u \in Tasks : VisitDispatch(u)
    BY <1>1, <1>2, <2>1, <2>3 DEF VisitDispatch
  <2> QED BY <1>3, <2>2, <2>3 DEF VisitNext, VisitWakeup, VisitGranted, VisitTimeout, VisitSkip,
                                  Resume
<1>4. CASE Tick \/ EndPass \/ LoopAstray \/ StartPass
  BY <1>4 DEF Tick, EndPass, LoopAstray, kernelVars, StartPass
<1>5. CASE HandlerReturns
  BY <1>1, <1>2, <1>5 DEF HandlerReturns
<1>6. CASE TaskCall
  <2>1. CASE \E u \in Tasks : \E ms \in Delays \cup {0} : pesudo_task_create(u, ms)
    BY <1>1, <1>2, <2>1 DEF pesudo_task_create, Allocate
  <2>2. CASE \E u \in Tasks : pesudo_task_delete(u)
    BY <1>1, <1>2, <2>2 DEF pesudo_task_delete, MarkDelete, Unlink
  <2>3. CASE \E u \in Tasks : pesudo_task_suspend(u) \/ pesudo_task_resume(u)
    BY <1>1, <1>2, <2>3 DEF pesudo_task_suspend, pesudo_task_resume
  <2>4. CASE \E ms \in Delays : pesudo_task_sleep(ms) \/ pesudo_task_sleep_until(ms)
    BY <1>1, <1>2, <2>4 DEF pesudo_task_sleep, pesudo_task_sleep_until, SleepFor, SaveContext
  <2>5. CASE DelayEnds \/ \E ms \in Delays : SleepUntilLate(ms)
    BY <2>5 DEF DelayEnds, SleepUntilLate
  <2>6. CASE SleepTail
    BY <1>1, <1>2, <2>6 DEF SleepTail, LeaveCall
  <2> QED BY <1>6, <2>1, <2>2, <2>3, <2>4, <2>5, <2>6 DEF TaskCall
<1> QED BY <1>3, <1>4, <1>5, <1>6 DEF KernelNext, LoopStep

\* They take no grant either: a task that was granted stays linked, and blocked on its
\* object with the grant, until its call returns.
LEMMA KernelKeepsGrants ==
    ASSUME KernelInv, KernelNext, NEW t \in Linked, NEW f \in GrantFlags, f \in state[t]
    PROVE  f \in state'[t] /\ block_obj'[t] = block_obj[t] /\ t \in Linked'
<1> USE DEF objFields
<1>1. /\ state \in [Tasks -> SUBSET Flags] /\ list \in Seq(Tasks) /\ t \in Tasks
      /\ block_obj \in [Tasks -> Objects \cup {NoObj}]
  BY LinkedAreTasks DEF KernelInv, KernelTypeOK
<1>2. /\ f \notin {"RUNNING", "READY", "IDLE", "SUSPEND", "WANT_SUSPEND", "WANT_DELETE", "SLEEP"}
      /\ f \in CallFlags
  BY DEF GrantFlags, CallFlags
<1>3. ~AtRest(t) /\ state[t] # {"READY"} /\ state[t] # {"IDLE"} /\ state[t] # {"SUSPEND"}
  BY <1>2 DEF AtRest
<1>4. CASE VisitNext
  <2>1. Linked' = Linked /\ block_obj' = block_obj
    BY <1>4 DEF VisitNext, VisitDispatch, VisitWakeup, VisitGranted, VisitTimeout, VisitSkip,
                Resume, Linked
  <2>2. CASE state' = state
    BY <2>1, <2>2
  <2>3. CASE \E u \in Tasks : VisitDispatch(u)
    <3>1. PICK u \in Tasks : VisitDispatch(u)
      BY <2>3
    <3>2. u # t /\ state' = [state EXCEPT ![u] = {"RUNNING"}]
      BY <1>3, <3>1 DEF VisitDispatch, Promoted
    <3> QED BY <1>1, <2>1, <3>2
  <2> QED BY <1>4, <2>2, <2>3 DEF VisitNext, VisitWakeup, VisitGranted, VisitTimeout, VisitSkip,
                                  Resume
<1>5. CASE Tick \/ EndPass \/ LoopAstray \/ StartPass
  BY <1>5 DEF Tick, EndPass, LoopAstray, kernelVars, StartPass, Reaped, Linked
<1>6. CASE HandlerReturns
  <2>1. t # Me
    BY <1>2, <1>6, MeOutsideCalls DEF HandlerReturns
  <2> QED BY <1>1, <1>6, <2>1 DEF HandlerReturns, Linked
<1>7. CASE TaskCall
  <2>1. CASE \E u \in Tasks : \E ms \in Delays \cup {0} : pesudo_task_create(u, ms)
    <3>1. PICK u \in Tasks : \E ms \in Delays \cup {0} : pesudo_task_create(u, ms)
      BY <2>1
    <3>2. /\ u # t /\ list' = Append(list, u)
          /\ state' = [state EXCEPT ![u] = {"IDLE"}] /\ block_obj' = [block_obj EXCEPT ![u] = NoObj]
      BY <3>1 DEF pesudo_task_create, Allocate
    <3>3. Linked' = Linked \cup {u}
      BY <1>1, <3>2, AppendAdds DEF Linked
    <3> QED BY <1>1, <3>2, <3>3
  <2>2. CASE \E u \in Tasks : pesudo_task_delete(u)
    <3>1. PICK u \in Tasks : pesudo_task_delete(u)
      BY <2>2
    <3>2. CASE MarkDelete(u)
      BY <1>1, <3>1, <3>2 DEF pesudo_task_delete, MarkDelete, Linked
    <3>3. CASE Unlink(u)
      <4>1. u # t /\ u \in Linked /\ state' = [state EXCEPT ![u] = {}] /\ block_obj' = block_obj
        BY <1>3, <3>1, <3>3 DEF pesudo_task_delete, Unlink
      <4>2. t \in Linked'
        BY <1>1, <3>3, <4>1, UnlinkKeeps
      <4> QED BY <1>1, <4>1, <4>2
    <3> QED BY <3>1, <3>2, <3>3 DEF pesudo_task_delete
  <2>3. CASE \E u \in Tasks : pesudo_task_suspend(u) \/ pesudo_task_resume(u)
    BY <1>1, <1>3, <2>3 DEF pesudo_task_suspend, pesudo_task_resume, AtRest, Linked
  <2>4. CASE \E ms \in Delays : pesudo_task_sleep(ms) \/ pesudo_task_sleep_until(ms)
    BY <1>1, <1>2, <2>4
       DEF pesudo_task_sleep, pesudo_task_sleep_until, SleepFor, SaveContext, Linked
  <2>5. CASE DelayEnds \/ \E ms \in Delays : SleepUntilLate(ms)
    BY <2>5 DEF DelayEnds, SleepUntilLate, Linked
  <2>6. CASE SleepTail
    BY <1>1, <1>2, <2>6 DEF SleepTail, LeaveCall, Linked
  <2> QED BY <1>7, <2>1, <2>2, <2>3, <2>4, <2>5, <2>6 DEF TaskCall
<1> QED BY <1>4, <1>5, <1>6, <1>7 DEF KernelNext, LoopStep

-----------------------------------------------------------------------------
(***************************************************************************)
(* The waiter a release selects.                                           *)
(***************************************************************************)

\* Nobody has blocked in the future.
BlockedInPast == \A t \in Tasks : block_when[t] <= now

\* The clock and the calls of a step keep block_when in the past.
LEMMA KernelBlockedInPast ==
    ASSUME KernelInv, BlockedInPast, KernelNext
    PROVE  BlockedInPast'
<1> USE DEF objFields
<1>1. now \in Nat /\ block_when \in [Tasks -> Nat]
  BY DEF KernelInv, KernelTypeOK
<1>2. /\ now' \in {now, now + 1}
      /\ block_when' = block_when \/ \E t \in Tasks : block_when' = [block_when EXCEPT ![t] = 0]
  BY DEF KernelNext, Tick, LoopStep, VisitNext, VisitDispatch, VisitWakeup, VisitGranted,
         VisitTimeout, VisitSkip, Resume, EndPass, LoopAstray, kernelVars, StartPass,
         HandlerReturns, TaskCall,
         pesudo_task_create, Allocate, pesudo_task_delete, pesudo_task_suspend,
         pesudo_task_resume, pesudo_task_sleep, pesudo_task_sleep_until, SleepFor,
         SleepUntilLate, DelayEnds, SleepTail
<1>3. \A t \in Tasks : block_when'[t] \in {0, block_when[t]}
  BY <1>1, <1>2
<1> QED BY <1>1, <1>2, <1>3 DEF BlockedInPast

\* Blocking on an object and returning from there keep it, too.
LEMMA BlockUnblockInPast ==
    ASSUME KernelInv, BlockedInPast, NEW k \in Kinds,
           Unblock(k) \/ \E o \in Objects, ms \in Delays : Block(k, o, ms)
    PROVE  BlockedInPast'
<1>1. now \in Nat /\ block_when \in [Tasks -> Nat] /\ now' = now
  BY DEF KernelInv, KernelTypeOK, Block, Unblock
<1>2. \E n \in {0, now} : block_when' = [block_when EXCEPT ![Me] = n]
  BY DEF Block, Unblock
<1> QED BY <1>1, <1>2 DEF BlockedInPast

\* A set of natural numbers has a least element.
LEMMA LeastExists ==
    ASSUME NEW S \in SUBSET Nat, S # {}
    PROVE  \E n \in S : \A m \in S : n <= m
<1> DEFINE Less == OpToRel(<, Nat)
<1>1. IsWellFoundedOn(Less, Nat)
  BY NatLessThanWellFounded
<1>2. ASSUME NEW x \in Nat, NEW y \in Nat, y < x PROVE <<y, x>> \in Less
  BY <1>2 DEF OpToRel
<1> HIDE DEF Less
<1>3. PICK n \in S : \A m \in S : ~(<<m, n>> \in Less)
  BY <1>1, WFMin
<1>4. ASSUME NEW m \in S PROVE n <= m
  <2>1. m \in Nat /\ n \in Nat
    OBVIOUS
  <2>2. ~(m < n)
    BY <2>1, <1>2, <1>3
  <2> QED BY <2>1, <2>2
<1> QED BY <1>4

\* With PESUDO_OPT_FIFO or PESUDO_OPT_LIFO a scan that sees a waiter selects one,
\* also when several blocked in the same tick.
LEMMA SelectedExists ==
    ASSUME KernelTypeOK, BlockedInPast, NEW o \in {"FIFO", "LIFO"},
           NEW W \in SUBSET Linked, W # {}
    PROVE  Selected(o, W) # {}
<1> DEFINE Key(t) == IF o = "FIFO" THEN now - block_when[t] ELSE block_when[t]
<1>1. /\ now \in Nat
      /\ \A t \in W : t \in Tasks /\ block_when[t] \in Nat /\ block_when[t] <= now
  BY LinkedAreTasks DEF KernelTypeOK, BlockedInPast
<1>2. \A t \in W : Key(t) \in Nat
  BY <1>1
<1>3. \A t, u \in W : Key(t) < Key(u) => Preferred(o, t, u)
  BY <1>1 DEF Preferred
<1>4. \A t, u \in W : Key(t) = Key(u) => block_when[t] = block_when[u]
  BY <1>1
<1> HIDE DEF Key
<1>5. PICK n \in {Key(t) : t \in W} : \A m \in {Key(t) : t \in W} : n <= m
  <2>1. {Key(t) : t \in W} \in SUBSET Nat /\ {Key(t) : t \in W} # {}
    BY <1>2
  <2> QED BY <2>1, LeastExists
<1> DEFINE First == {t \in W : Key(t) = n}
           Places == {Pos(t) : t \in First}
<1>6. \A t \in W : Pos(t) \in Nat
  BY PosInList, LenProperties DEF KernelTypeOK
<1>7. PICK i \in Places : \A j \in Places : i <= j
  <2>1. Places \in SUBSET Nat /\ Places # {}
    BY <1>5, <1>6
  <2> QED BY <2>1, LeastExists
<1>8. PICK t \in First : Pos(t) = i
  BY <1>7
<1>9. ASSUME NEW u \in W PROVE Preferred(o, t, u)
  <2>1. CASE Key(u) = n
    <3>1. Pos(t) <= Pos(u) /\ block_when[t] = block_when[u]
      BY <1>4, <1>7, <1>8, <2>1
    <3> QED BY <3>1 DEF Preferred
  <2>2. CASE Key(u) # n
    <3>1. Key(t) = n /\ Key(t) \in Nat /\ Key(u) \in Nat /\ n <= Key(u)
      BY <1>2, <1>5, <1>8
    <3>2. Key(t) < Key(u)
      BY <2>2, <3>1
    <3> QED BY <1>3, <1>8, <3>2
  <2> QED BY <2>1, <2>2
<1> QED BY <1>8, <1>9 DEF Selected

-----------------------------------------------------------------------------
(***************************************************************************)
(* Theorems.                                                               *)
(***************************************************************************)

\* Steps that leave the kernel alone preserve KernelInv.
LEMMA KernelStutterInv ==
    ASSUME KernelInv, UNCHANGED kernelVars
    PROVE  KernelInv'
<1> USE DEF kernelVars, objFields, runFields, loopVars
<1>1. KernelTypeOK'
  BY DEF KernelInv, KernelTypeOK
<1>2. PendingCallKept'
  BY DEF KernelInv, PendingCallKept, CallKept
<1>3. LoopOnLiveTasks' /\ SuccessorLinked'
  BY DEF KernelInv, LoopOnLiveTasks, SuccessorLinked, Linked
<1>4. TimersNeverBlock' /\ RunningOutsideCalls' /\ ResumedAsGranted'
  BY DEF KernelInv, TimersNeverBlock, RunningOutsideCalls, ResumedAsGranted
<1> QED BY <1>1, <1>2, <1>3, <1>4 DEF KernelInv

\* Every step of the kernel and of its tasks preserves the invariant.
LEMMA KernelNextInv ==
    ASSUME TasksAssumption, TimeAssumption, KernelInv, KernelNext
    PROVE  KernelInv'
<1>1. CASE Tick
  BY <1>1, TickInv
<1>2. CASE LoopStep
  BY <1>2, VisitDispatchInv, VisitWakeupInv, VisitGrantedInv, VisitSkipInv, EndPassInv,
     KernelStutterInv
     DEF LoopStep, VisitNext, LoopAstray
<1>3. CASE StartPass
  BY <1>3, StartPassInv
<1>4. CASE HandlerReturns
  BY <1>4, HandlerReturnsInv
<1>5. CASE TaskCall
  BY <1>5, CreateInv, DeleteInv, SuspendInv, ResumeInv, SleepInv, SleepUntilInv, DelayEndsInv,
     SleepTailInv
     DEF TaskCall
<1> QED BY <1>1, <1>2, <1>3, <1>4, <1>5 DEF KernelNext

\* KernelInv is an invariant of the kernel: pesudoos_run() and the pesudo_task_* calls
\* keep every field in its type, the cursor on linked tasks or on the successor that a
\* handler had freed, and each saved context
\* together with the flags and the object that belong to it.
THEOREM KernelInvariant == KernelSpec => []KernelInv
<1>1. KernelInit => KernelInv
  BY TasksAssumption, InitInv
<1>2. KernelInv /\ [KernelNext]_kernelVars => KernelInv'
  BY TasksAssumption, TimeAssumption, KernelNextInv, KernelStutterInv
<1> QED BY <1>1, <1>2, PTL DEF KernelSpec

\* Every field of the kernel stays in its type, the task whose handler runs included.
THEOREM KernelIsTyped == KernelSpec => []KernelTypeOK
<1>1. KernelInv => KernelTypeOK
  BY DEF KernelInv
<1> QED BY <1>1, KernelInvariant, PTL

\* The loop only ever stands on live tasks, whatever the handlers delete, except for
\* the one task that was its saved successor and was freed by the handler it last ran
\* (pesudoos_run(), TAILQ_FOREACH_SAFE, pesudo_task_delete()).
THEOREM LoopIsSafe == KernelSpec => []LoopOnLiveTasks
<1>1. KernelInv => LoopOnLiveTasks
  BY DEF KernelInv
<1> QED BY <1>1, KernelInvariant, PTL

\* Suspend and delete requests never disturb the call a task is blocked in
\* (pesudo_task_suspend(), pesudo_task_delete(), pesudo_task_sleep()).
THEOREM CallsAreKept == KernelSpec => []PendingCallKept
<1>1. KernelInv => PendingCallKept
  BY DEF KernelInv
<1> QED BY <1>1, KernelInvariant, PTL

\* Every step of the kernel keeps the suspend requests that it does not honour.
LEMMA KernelKeepsSuspendRequests ==
    ASSUME KernelInv, [KernelNext]_kernelVars
    PROVE  KeepsSuspendRequests
<1> SUFFICES ASSUME NEW t \in Linked \ Timers,
                    "WANT_SUSPEND" \in state[t], "WANT_SUSPEND" \notin state'[t]
             PROVE  state'[t] = {"SUSPEND"}
  BY DEF KeepsSuspendRequests
<1>1. state \in [Tasks -> SUBSET Flags] /\ t \in Tasks
  BY LinkedAreTasks DEF KernelInv, KernelTypeOK
<1>2. CASE VisitNext
  <2>1. PICK u \in Tasks : VisitDispatch(u)
    BY <1>2 DEF VisitNext, VisitWakeup, VisitGranted, VisitTimeout, VisitSkip, Resume
  <2>2. "WANT_SUSPEND" \notin state[u] /\ state' = [state EXCEPT ![u] = {"RUNNING"}]
    BY <2>1 DEF VisitDispatch, Promoted
  <2> QED BY <1>1, <2>2
<1>3. CASE Tick \/ EndPass \/ LoopAstray \/ StartPass
  BY <1>3 DEF Tick, EndPass, LoopAstray, kernelVars, StartPass
<1>4. CASE HandlerReturns
  BY <1>1, <1>4 DEF HandlerReturns
<1>5. CASE TaskCall
  <2>1. CASE \E u \in Tasks : \E ms \in Delays \cup {0} : pesudo_task_create(u, ms)
    BY <1>1, <2>1 DEF pesudo_task_create, Allocate
  <2>2. CASE \E u \in Tasks : pesudo_task_delete(u)
    BY <1>1, <2>2 DEF pesudo_task_delete, Unlink, MarkDelete, AtRest
  <2>3. CASE \E u \in Tasks : pesudo_task_suspend(u)
    BY <1>1, <2>3 DEF pesudo_task_suspend, AtRest
  <2>4. CASE \E u \in Tasks : pesudo_task_resume(u)
    BY <1>1, <2>4 DEF pesudo_task_resume
  <2>5. CASE \E ms \in Delays : pesudo_task_sleep(ms) \/ pesudo_task_sleep_until(ms)
    BY <1>1, <2>5 DEF pesudo_task_sleep, pesudo_task_sleep_until, SleepFor, SaveContext
  <2>6. CASE DelayEnds \/ \E ms \in Delays : SleepUntilLate(ms)
    BY <2>6 DEF DelayEnds, SleepUntilLate
  <2>7. CASE SleepTail
    BY <1>1, <2>7 DEF SleepTail, LeaveCall
  <2> QED BY <1>5, <2>1, <2>2, <2>3, <2>4, <2>5, <2>6, <2>7 DEF TaskCall
<1>6. CASE UNCHANGED kernelVars
  BY <1>6 DEF kernelVars
<1> QED BY <1>2, <1>3, <1>4, <1>5, <1>6 DEF KernelNext, LoopStep

\* A suspend request is honoured when its task next returns to the loop, whatever
\* happens to the task before that (pesudo_task_suspend(), pesudoos_run()).
THEOREM SuspendIsHonoured == KernelSpec => SuspendHonoured
<1>1. KernelInv /\ [KernelNext]_kernelVars => [KeepsSuspendRequests]_kernelVars
  BY KernelKeepsSuspendRequests
<1> QED BY <1>1, KernelInvariant, PTL DEF KernelSpec, SuspendHonoured
=============================================================================
