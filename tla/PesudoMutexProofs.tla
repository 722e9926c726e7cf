-------------------------- MODULE PesudoMutexProofs --------------------------
(***************************************************************************)
(* Proofs about the PesudoOS mutexes, for any number of tasks and mutexes: *)
(* the owner and the counter always account for what the tasks hold, so    *)
(* two tasks never hold a mutex, and what tasks see is a recursive lock.   *)
(***************************************************************************)
EXTENDS PesudoMutex, PesudoOSProofs

\* Nobody holds a mutex that does not exist.
NoStaleHold == \A m \in Mutexes \ pesudo_mutex_list : \A t \in Tasks : holds[m][t] = 0

\* Memory of a deleted task carries no grant that its next owner would inherit.
NoStaleGrant == \A t \in Tasks \ Linked : "OBTAIN_MUTEX" \notin state[t]

\* MutualExclusion, made inductive.
MutexInv ==
    /\ KernelInv
    /\ TypeOK
    /\ OwnerAccounts
    /\ NoStaleHold
    /\ NoStaleGrant

\* The accounts of the owner leave no room for a second holder.
LEMMA MutexInvImpliesExclusion ==
    ASSUME MutexInv
    PROVE  MutualExclusion
<1> SUFFICES ASSUME NEW m \in Mutexes, NEW t \in Tasks, NEW u \in Tasks,
                    holds[m][t] > 0, holds[m][u] > 0
             PROVE  t = u
  BY DEF MutualExclusion
<1>1. m \in pesudo_mutex_list
  BY DEF MutexInv, NoStaleHold
<1>2. \A v \in Tasks : v # owner[m] => holds[m][v] = 0
  BY <1>1 DEF MutexInv, OwnerAccounts
<1> QED BY <1>2

\* The running task waits for nothing and has been granted nothing.
LEMMA MeNotGranted ==
    ASSUME MutexAssumption, KernelInv, InTask
    PROVE  /\ Me \in Tasks /\ Me \in Linked
           /\ "OBTAIN_MUTEX" \notin state[Me] /\ "BLOCKED_MUTEX" \notin state[Me]
           /\ block_obj[Me] = NoObj
<1>1. Me \notin Timers /\ Me \in Linked
  BY DEF MutexAssumption, KernelInv, LoopOnLiveTasks, InTask, Me
<1>2. {"OBTAIN_MUTEX", "BLOCKED_MUTEX"} \subseteq CallFlags
  BY DEF CallFlags, BlockingFlags, GrantFlags
<1> QED BY <1>1, <1>2, MeOutsideCalls

\* What a step has to say about grants: none appears and none is lost.
GrantsUnchanged ==
    /\ \A t \in Tasks : "OBTAIN_MUTEX" \in state'[t] <=> "OBTAIN_MUTEX" \in state[t]
    /\ \A t \in Tasks : "OBTAIN_MUTEX" \in state[t] => block_obj'[t] = block_obj[t]

\* A task's memory enters and leaves the list without a grant.
LEMMA KernelGrants ==
    ASSUME MutexAssumption, KernelInv, NoStaleGrant, KernelNext
    PROVE  GrantsUnchanged /\ NoStaleGrant'
<1> USE DEF objFields, GrantsUnchanged
<1>1. state \in [Tasks -> SUBSET Flags] /\ list \in Seq(Tasks) /\ Linked \subseteq Tasks
  BY LinkedAreTasks DEF KernelInv, KernelTypeOK
<1>2. block_obj \in [Tasks -> Objects \cup {NoObj}]
  BY DEF KernelInv, KernelTypeOK
<1>3. ASSUME GrantsUnchanged, Linked' = Linked PROVE GrantsUnchanged /\ NoStaleGrant'
  BY <1>3 DEF NoStaleGrant
<1>4. CASE VisitNext
  <2>1. Linked' = Linked /\ block_obj' = block_obj
    BY <1>4 DEF VisitNext, VisitDispatch, VisitWakeup, VisitGranted, VisitTimeout, VisitSkip,
                Resume, Linked
  <2>2. CASE state' = state
    BY <1>3, <2>1, <2>2
  <2>3. CASE \E u \in Tasks : VisitDispatch(u)
    <3>1. PICK u \in Tasks : VisitDispatch(u)
      BY <2>3
    <3>2. "OBTAIN_MUTEX" \notin state[u] /\ state' = [state EXCEPT ![u] = {"RUNNING"}]
      BY <3>1 DEF VisitDispatch, Promoted
    <3> QED BY <1>1, <1>3, <2>1, <3>2
  <2> QED BY <1>4, <2>2, <2>3 DEF VisitNext, VisitWakeup, VisitGranted, VisitTimeout, VisitSkip,
                                  Resume
<1>5. CASE Tick \/ EndPass \/ LoopAstray \/ StartPass
  BY <1>3, <1>5 DEF Tick, EndPass, LoopAstray, kernelVars, StartPass, Linked, Reaped
<1>6. CASE HandlerReturns
  <2>1. "OBTAIN_MUTEX" \notin state[Me]
    BY <1>6, MeNotGranted DEF HandlerReturns
  <2> QED BY <1>1, <1>3, <1>6, <2>1 DEF HandlerReturns, Linked
<1>7. CASE TaskCall
  <2>1. CASE \E t \in Tasks : \E ms \in Delays \cup {0} : pesudo_task_create(t, ms)
    <3>1. PICK t \in Tasks : \E ms \in Delays \cup {0} : pesudo_task_create(t, ms)
      BY <2>1
    <3>2. /\ t \notin Linked /\ list' = Append(list, t)
          /\ state' = [state EXCEPT ![t] = {"IDLE"}] /\ block_obj' = [block_obj EXCEPT ![t] = NoObj]
      BY <3>1 DEF pesudo_task_create, Allocate
    <3>3. Linked' = Linked \cup {t}
      BY <1>1, <3>2, AppendAdds DEF Linked
    <3>4. "OBTAIN_MUTEX" \notin state[t]
      BY <3>2 DEF NoStaleGrant
    <3> QED BY <1>1, <1>2, <3>2, <3>3, <3>4 DEF NoStaleGrant
  <2>2. CASE \E t \in Tasks : pesudo_task_delete(t)
    <3>1. PICK t \in Tasks : pesudo_task_delete(t)
      BY <2>2
    <3>2. CASE MarkDelete(t)
      BY <1>1, <1>3, <3>1, <3>2 DEF pesudo_task_delete, MarkDelete, Linked
    <3>3. CASE Unlink(t)
      <4>1. "OBTAIN_MUTEX" \notin state[t] /\ state' = [state EXCEPT ![t] = {}] /\ block_obj' = block_obj
        BY <3>1, <3>3 DEF pesudo_task_delete, Unlink, AtRest
      <4>2. \A u \in Linked : u # t => u \in Linked'
        BY <1>1, <3>1, <3>3, UnlinkKeeps DEF pesudo_task_delete
      <4> QED BY <1>1, <4>1, <4>2 DEF NoStaleGrant
    <3> QED BY <3>1, <3>2, <3>3 DEF pesudo_task_delete
  <2>3. CASE \E t \in Tasks : pesudo_task_suspend(t) \/ pesudo_task_resume(t)
    BY <1>1, <1>3, <2>3 DEF pesudo_task_suspend, pesudo_task_resume, AtRest, Linked
  <2>4. CASE \E ms \in Delays : pesudo_task_sleep(ms) \/ pesudo_task_sleep_until(ms)
    BY <1>1, <1>3, <2>4
       DEF pesudo_task_sleep, pesudo_task_sleep_until, SleepFor, SaveContext, Linked
  <2>5. CASE DelayEnds \/ \E ms \in Delays : SleepUntilLate(ms)
    BY <1>3, <2>5 DEF DelayEnds, SleepUntilLate, Linked
  <2>6. CASE SleepTail
    BY <1>1, <1>3, <2>6 DEF SleepTail, LeaveCall, Linked
  <2> QED BY <1>7, <2>1, <2>2, <2>3, <2>4, <2>5, <2>6 DEF TaskCall
<1> QED BY <1>4, <1>5, <1>6, <1>7 DEF KernelNext, LoopStep

-----------------------------------------------------------------------------
(***************************************************************************)
(* MutexInv is inductive.                                                  *)
(***************************************************************************)

\* OwnerAccounts, for one mutex.
Accounts(m) ==
    /\ counter[m] = 0 <=> owner[m] = NoTask
    /\ \A t \in Tasks :
         IF t = owner[m]
         THEN counter[m] = holds[m][t] + (IF Granted(m, t) THEN 1 ELSE 0)
         ELSE holds[m][t] = 0 /\ ~Granted(m, t)

\* What the accounts of one mutex say of its owner, of the others and of its counter.
LEMMA AccountsFacts ==
    ASSUME MutexInv, NEW m \in Mutexes
    PROVE  /\ m \in pesudo_mutex_list => Accounts(m)
           /\ owner[m] \in Tasks \cup {NoTask} /\ counter[m] \in Nat
           /\ holds[m] \in [Tasks -> Nat]
           /\ m \notin pesudo_mutex_list => \A t \in Tasks : holds[m][t] = 0
  BY DEF MutexInv, TypeOK, OwnerAccounts, Accounts, NoStaleHold

\* A mutex whose fields, holders and grants a step leaves alone stays accounted for.
LEMMA AccountsFrame ==
    ASSUME NEW m \in Mutexes, Accounts(m),
           owner'[m] = owner[m], counter'[m] = counter[m], holds'[m] = holds[m],
           \A t \in Tasks : Granted(m, t)' <=> Granted(m, t)
    PROVE  Accounts(m)'
  BY DEF Accounts

\* MutexInv holds before any mutex is created.
LEMMA InitMutexInv ==
    ASSUME MutexAssumption, TasksAssumption, Init
    PROVE  MutexInv
<1>1. KernelInv
  BY InitInv DEF Init
<1>2. TypeOK
  BY <1>1 DEF Init, KernelInit, TypeOK, KernelInv
<1>3. OwnerAccounts /\ NoStaleHold
  BY DEF Init, OwnerAccounts, NoStaleHold
<1>4. NoStaleGrant
  BY DEF Init, KernelInit, NoStaleGrant
<1> QED BY <1>1, <1>2, <1>3, <1>4 DEF MutexInv

\* The loop, the clock and the pesudo_task_* calls preserve MutexInv.
LEMMA KernelStepMutexInv ==
    ASSUME MutexAssumption, TasksAssumption, TimeAssumption, MutexInv,
           KernelNext, UNCHANGED mutexVars
    PROVE  MutexInv'
<1> USE DEF mutexVars
<1>1. KernelInv'
  BY KernelNextInv DEF MutexInv
<1>2. GrantsUnchanged /\ NoStaleGrant'
  BY KernelGrants DEF MutexInv
<1>3. block_obj' \in [Tasks -> Mutexes \cup {NoObj}]
  <2>1. block_obj \in [Tasks -> Mutexes \cup {NoObj}]
    BY DEF MutexInv, TypeOK
  <2>2. \/ block_obj' = block_obj
        \/ \E t \in Tasks : block_obj' = [block_obj EXCEPT ![t] = NoObj]
    BY DEF KernelNext, Tick, LoopStep, VisitNext, VisitDispatch, VisitWakeup, VisitGranted,
           VisitTimeout, VisitSkip, Resume, EndPass, LoopAstray, kernelVars, StartPass,
           HandlerReturns, TaskCall,
           pesudo_task_create, Allocate, pesudo_task_delete, pesudo_task_suspend,
           pesudo_task_resume, pesudo_task_sleep, pesudo_task_sleep_until, SleepFor,
           SleepUntilLate, DelayEnds, SleepTail, objFields
  <2> QED BY <2>1, <2>2
<1>4. TypeOK'
  BY <1>1, <1>3 DEF MutexInv, KernelInv, TypeOK
<1>5. ASSUME NEW m \in Mutexes, NEW t \in Tasks
      PROVE  Granted(m, t)' <=> Granted(m, t)
  BY <1>2 DEF GrantsUnchanged, Granted
<1>6. OwnerAccounts'
  <2>1. ASSUME NEW m \in pesudo_mutex_list PROVE Accounts(m)'
    BY <1>5, AccountsFacts, AccountsFrame DEF MutexInv, TypeOK
  <2> QED BY <2>1 DEF OwnerAccounts, Accounts
<1>7. NoStaleHold'
  BY DEF MutexInv, NoStaleHold
<1> QED BY <1>1, <1>2, <1>4, <1>6, <1>7 DEF MutexInv

\* What is left to show of a step of one mutex that changes no kernel variable, or
\* only sets the grant of a blocked task.
LEMMA MutexStepInv ==
    ASSUME MutexInv, KernelInv', block_obj' = block_obj, NoStaleGrant',
           NEW m \in Mutexes,
           pesudo_mutex_list' \in {pesudo_mutex_list, pesudo_mutex_list \cup {m},
                                   pesudo_mutex_list \ {m}},
           NEW o \in Tasks \cup {NoTask}, owner' = [owner EXCEPT ![m] = o],
           NEW c \in Nat, counter' = [counter EXCEPT ![m] = c],
           NEW h \in [Tasks -> Nat], holds' = [holds EXCEPT ![m] = h],
           \A t \in Tasks : block_obj[t] # m =>
                ("OBTAIN_MUTEX" \in state'[t] <=> "OBTAIN_MUTEX" \in state[t]),
           m \in pesudo_mutex_list' => Accounts(m)',
           m \notin pesudo_mutex_list' => \A t \in Tasks : h[t] = 0
    PROVE  MutexInv'
<1>1. TypeOK'
  BY DEF MutexInv, TypeOK, KernelInv
<1>2. ASSUME NEW n \in pesudo_mutex_list' PROVE Accounts(n)'
  <2>1. CASE n # m
    <3>1. n \in Mutexes /\ Accounts(n)
      BY <2>1, AccountsFacts DEF MutexInv, TypeOK
    <3>2. owner'[n] = owner[n] /\ counter'[n] = counter[n] /\ holds'[n] = holds[n]
      BY <2>1, <3>1 DEF MutexInv, TypeOK
    <3>3. \A t \in Tasks : Granted(n, t)' <=> Granted(n, t)
      BY <2>1 DEF Granted
    <3> QED BY <3>1, <3>2, <3>3, AccountsFrame
  <2> QED BY <2>1
<1>3. OwnerAccounts'
  BY <1>2 DEF OwnerAccounts, Accounts
<1>4. NoStaleHold'
  BY DEF MutexInv, TypeOK, NoStaleHold
<1> QED BY <1>1, <1>3, <1>4 DEF MutexInv

\* pesudo_mutex_create() preserves MutexInv.
LEMMA CreateMutexInv ==
    ASSUME TasksAssumption, MutexInv, NEW m \in Mutexes, pesudo_mutex_create(m)
    PROVE  MutexInv'
<1> USE DEF pesudo_mutex_create
<1>1. UNCHANGED kernelVars /\ KernelInv' /\ NoStaleGrant'
  BY KernelStutterInv DEF MutexInv, kernelVars, NoStaleGrant, Linked
<1>2. state' = state /\ block_obj' = block_obj
  BY <1>1 DEF kernelVars, objFields
<1>3. holds[m] \in [Tasks -> Nat] /\ holds' = [holds EXCEPT ![m] = holds[m]]
  BY DEF MutexInv, TypeOK
<1>4. Accounts(m)'
  <2>1. /\ owner'[m] = NoTask /\ counter'[m] = 0 /\ holds' = holds
        /\ \A t \in Tasks : holds[m][t] = 0
    BY AccountsFacts DEF MutexInv, TypeOK
  <2>2. \A t \in Tasks : ~Granted(m, t)' /\ t # NoTask
    BY <1>2 DEF Granted, TasksAssumption
  <2> QED BY <2>1, <2>2 DEF Accounts
<1> QED BY <1>1, <1>2, <1>3, <1>4, MutexStepInv

\* pesudo_mutex_delete() preserves MutexInv.
LEMMA DeleteMutexInv ==
    ASSUME MutexInv, NEW m \in Mutexes, pesudo_mutex_delete(m)
    PROVE  MutexInv'
<1> USE DEF pesudo_mutex_delete
<1>1. UNCHANGED kernelVars /\ KernelInv' /\ NoStaleGrant'
  BY KernelStutterInv DEF MutexInv, kernelVars, NoStaleGrant, Linked
<1>2. state' = state /\ block_obj' = block_obj
  BY <1>1 DEF kernelVars, objFields
<1> DEFINE h == [t \in Tasks |-> 0]
<1>3. h \in [Tasks -> Nat] /\ holds' = [holds EXCEPT ![m] = h] /\ \A t \in Tasks : h[t] = 0
  OBVIOUS
<1> HIDE DEF h
<1> QED BY <1>1, <1>2, <1>3, MutexStepInv

\* The running task obtains a mutex that is free or its own.
LEMMA ObtainInv ==
    ASSUME MutexAssumption, TasksAssumption, MutexInv,
           NEW m \in Mutexes, ObtainFree(m) \/ ObtainAgain(m)
    PROVE  MutexInv'
<1> USE DEF ObtainFree, ObtainAgain, Obtained
<1>1. UNCHANGED kernelVars /\ KernelInv' /\ NoStaleGrant'
  BY KernelStutterInv DEF MutexInv, kernelVars, NoStaleGrant, Linked
<1>2. state' = state /\ block_obj' = block_obj /\ InTask
  BY <1>1 DEF kernelVars, objFields
<1>3. Me \in Tasks /\ \A n \in Mutexes : ~Granted(n, Me)
  BY <1>2, MeNotGranted DEF MutexInv, Granted
<1>4. Accounts(m) /\ holds[m] \in [Tasks -> Nat] /\ counter[m] \in Nat /\ NoTask \notin Tasks
  BY AccountsFacts DEF TasksAssumption
<1> DEFINE h == [holds[m] EXCEPT ![Me] = @ + 1]
           c == counter[m] + 1
<1>5. c \in Nat /\ owner' = [owner EXCEPT ![m] = Me] /\ counter' = [counter EXCEPT ![m] = c]
  BY <1>4 DEF Accounts, MutexInv, TypeOK
<1>6. h \in [Tasks -> Nat] /\ holds' = [holds EXCEPT ![m] = h]
  BY <1>3, <1>4 DEF MutexInv, TypeOK
<1>7. Accounts(m)'
  <2>1. /\ owner'[m] = Me /\ counter'[m] = counter[m] + 1 /\ holds'[m][Me] = holds[m][Me] + 1
        /\ \A t \in Tasks : t # Me => holds'[m][t] = holds[m][t]
    BY <1>3, <1>4, <1>5, <1>6 DEF MutexInv, TypeOK
  <2>2. \A t \in Tasks : Granted(m, t)' <=> Granted(m, t)
    BY <1>2 DEF Granted
  <2>3. counter[m] = holds[m][Me] /\ \A t \in Tasks : t # Me => holds[m][t] = 0 /\ ~Granted(m, t)
    BY <1>3, <1>4 DEF Accounts
  <2> HIDE DEF h, c
  <2> QED BY <1>3, <1>4, <2>1, <2>2, <2>3 DEF Accounts
<1> HIDE DEF h, c
<1> QED BY <1>1, <1>2, <1>3, <1>5, <1>6, <1>7, MutexStepInv

\* A release that leaves the caller the owner preserves MutexInv.
LEMMA ReleaseNestedInv ==
    ASSUME MutexAssumption, TasksAssumption, MutexInv, NEW m \in Mutexes, ReleaseNested(m)
    PROVE  MutexInv'
<1> USE DEF ReleaseNested, Left
<1>1. UNCHANGED kernelVars /\ KernelInv' /\ NoStaleGrant'
  BY KernelStutterInv DEF MutexInv, kernelVars, NoStaleGrant, Linked
<1>2. state' = state /\ block_obj' = block_obj
  BY <1>1 DEF kernelVars, objFields
<1>3. Me \in Tasks /\ ~Granted(m, Me)
  BY <1>2, MeNotGranted DEF MutexInv, Granted
<1>4. Accounts(m) /\ holds[m] \in [Tasks -> Nat] /\ counter[m] \in Nat /\ NoTask \notin Tasks
  BY AccountsFacts DEF TasksAssumption
<1>5. counter[m] = holds[m][Me] /\ counter[m] > 1
  BY <1>3, <1>4 DEF Accounts
<1> DEFINE h == [holds[m] EXCEPT ![Me] = @ - 1]
           c == counter[m] - 1
<1>6. c \in Nat /\ counter' = [counter EXCEPT ![m] = c] /\ owner' = [owner EXCEPT ![m] = Me]
  BY <1>4, <1>5 DEF MutexInv, TypeOK
<1>7. h \in [Tasks -> Nat] /\ holds' = [holds EXCEPT ![m] = h]
  BY <1>3, <1>4, <1>5 DEF MutexInv, TypeOK
<1>8. Accounts(m)'
  <2>1. /\ owner'[m] = owner[m] /\ counter'[m] = counter[m] - 1 /\ holds'[m][Me] = holds[m][Me] - 1
        /\ \A t \in Tasks : t # Me => holds'[m][t] = holds[m][t]
    BY <1>3, <1>4, <1>6, <1>7 DEF MutexInv, TypeOK
  <2>2. \A t \in Tasks : Granted(m, t)' <=> Granted(m, t)
    BY <1>2 DEF Granted
  <2> HIDE DEF h, c
  <2> QED BY <1>3, <1>4, <1>5, <2>1, <2>2 DEF Accounts
<1> HIDE DEF h, c
<1> QED BY <1>1, <1>2, <1>3, <1>6, <1>7, <1>8, MutexStepInv

\* Before the mutex is passed on, nobody but the running task holds it, and that
\* task only once.
LEMMA ReleaseLastFacts ==
    ASSUME MutexAssumption, TasksAssumption, MutexInv, NEW m \in Mutexes, ReleaseLast(m)
    PROVE  /\ Left(m) = 0
           /\ \A t \in Tasks : ~Granted(m, t)
           /\ \E h \in [Tasks -> Nat] : /\ holds' = [holds EXCEPT ![m] = h]
                                       /\ \A t \in Tasks : h[t] = 0
<1> USE DEF ReleaseLast, Left
<1>1. Me \in Tasks /\ ~Granted(m, Me)
  BY MeNotGranted DEF MutexInv, Granted
<1>2. Accounts(m) /\ holds[m] \in [Tasks -> Nat] /\ counter[m] \in Nat /\ NoTask \notin Tasks
  BY AccountsFacts DEF TasksAssumption
<1>3. CASE owner[m] = Me /\ Left(m) = 0 /\ holds' = [holds EXCEPT ![m][Me] = @ - 1]
  <2>1. holds[m][Me] = 1 /\ \A t \in Tasks : t # Me => holds[m][t] = 0
    BY <1>1, <1>2, <1>3 DEF Accounts
  <2> DEFINE h == [holds[m] EXCEPT ![Me] = @ - 1]
  <2>2. h \in [Tasks -> Nat] /\ \A t \in Tasks : h[t] = 0
    BY <1>1, <1>2, <2>1
  <2>3. holds' = [holds EXCEPT ![m] = h]
    BY <1>3 DEF MutexInv, TypeOK
  <2> HIDE DEF h
  <2> QED BY <1>1, <1>2, <1>3, <2>2, <2>3 DEF Accounts
<1>4. CASE owner[m] = NoTask /\ UNCHANGED holds
  <2>1. holds' = [holds EXCEPT ![m] = holds[m]] /\ \A t \in Tasks : holds[m][t] = 0
    BY <1>2, <1>4 DEF Accounts, MutexInv, TypeOK
  <2> QED BY <1>1, <1>2, <1>4, <2>1 DEF Accounts
<1> QED BY <1>3, <1>4

\* A release that frees the mutex or hands it over preserves MutexInv.
LEMMA ReleaseLastInv ==
    ASSUME MutexAssumption, TasksAssumption, MutexInv, NEW m \in Mutexes, ReleaseLast(m)
    PROVE  MutexInv'
<1> USE DEF ReleaseLast
<1>1. PICK h \in [Tasks -> Nat] : holds' = [holds EXCEPT ![m] = h] /\ \A t \in Tasks : h[t] = 0
  BY ReleaseLastFacts
<1>2. Left(m) = 0 /\ \A t \in Tasks : ~Granted(m, t)
  BY ReleaseLastFacts
<1>3. /\ block_obj' = block_obj /\ list' = list /\ InTask /\ NoTask \notin Tasks
      /\ state \in [Tasks -> SUBSET Flags] /\ holds'[m] = h
  BY <1>1 DEF objFields, TasksAssumption, MutexInv, KernelInv, KernelTypeOK, TypeOK
<1>4. CASE Free(m)
  <2>1. UNCHANGED kernelVars
    BY <1>4 DEF Free, kernelVars
  <2>2. state' = state /\ KernelInv' /\ NoStaleGrant'
    BY <2>1, KernelStutterInv DEF MutexInv, kernelVars, NoStaleGrant, Linked
  <2>3. owner' = [owner EXCEPT ![m] = NoTask] /\ counter' = [counter EXCEPT ![m] = 0]
    BY <1>2, <1>4 DEF Free
  <2>4. owner'[m] = NoTask /\ counter'[m] = 0
    BY <2>3 DEF MutexInv, TypeOK
  <2>5. Accounts(m)'
    BY <1>1, <1>2, <1>3, <2>2, <2>4 DEF Accounts, Granted
  <2> QED BY <1>1, <1>3, <2>2, <2>3, <2>5, MutexStepInv
<1>5. CASE HandOver(m)
  <2>1. PICK w \in Selected(Opt[m], Waiting("MUTEX", m)) :
          /\ owner' = [owner EXCEPT ![m] = w]
          /\ counter' = [counter EXCEPT ![m] = Left(m) + 1]
          /\ state' = [state EXCEPT ![w] = @ \cup {"OBTAIN_MUTEX"}]
    BY <1>5 DEF HandOver
  <2>2. /\ w \in Linked /\ w \in Tasks /\ "BLOCKED_MUTEX" \in state[w] /\ block_obj[w] = m
    BY <2>1, LinkedAreTasks DEF Selected, Waiting, BlockedFlag, MutexInv, KernelInv, KernelTypeOK
  <2>3. KernelInv'
    <3>1. "MUTEX" \in Kinds /\ GrantFlag("MUTEX") = "OBTAIN_MUTEX" /\ BlockedFlag("MUTEX") = "BLOCKED_MUTEX"
      BY DEF Kinds, GrantFlag, BlockedFlag
    <3>2. UNCHANGED <<now, list, objFields, runFields, loopVars>>
      OBVIOUS
    <3>3. KernelInv /\ state' = [state EXCEPT ![w] = @ \cup {GrantFlag("MUTEX")}]
      BY <2>1, <3>1 DEF MutexInv
    <3>4. BlockedFlag("MUTEX") \in state[w] /\ w \in Tasks /\ InTask /\ "MUTEX" \in Kinds
      BY <1>3, <2>2, <3>1
    <3> HIDE DEF ReleaseLast
    <3> QED BY <3>2, <3>3, <3>4, GrantInv, Zenon
  <2>4. NoStaleGrant'
    BY <1>3, <2>1, <2>2 DEF MutexInv, NoStaleGrant, Linked
  <2>5. counter' = [counter EXCEPT ![m] = 1] /\ owner'[m] = w /\ counter'[m] = 1
    BY <1>2, <2>1 DEF MutexInv, TypeOK
  <2>6. \A t \in Tasks : Granted(m, t)' <=> t = w
    BY <1>2, <1>3, <2>1, <2>2 DEF Granted
  <2>7. Accounts(m)'
    BY <1>1, <1>3, <2>2, <2>5, <2>6 DEF Accounts
  <2>8. \A t \in Tasks : block_obj[t] # m =>
           ("OBTAIN_MUTEX" \in state'[t] <=> "OBTAIN_MUTEX" \in state[t])
    BY <1>3, <2>1, <2>2
  <2>9. w \in Tasks \cup {NoTask} /\ 1 \in Nat /\ pesudo_mutex_list' = pesudo_mutex_list
    BY <2>2
  <2>10. owner' = [owner EXCEPT ![m] = w] /\ counter' = [counter EXCEPT ![m] = 1]
    BY <2>1, <2>5
  <2> HIDE DEF ReleaseLast
  <2> QED BY <1>1, <1>3, <2>3, <2>4, <2>7, <2>8, <2>9, <2>10, MutexStepInv
<1> QED BY <1>4, <1>5

\* The task blocks in pesudo_mutex_obtain().
LEMMA ObtainBlocksInv ==
    ASSUME MutexAssumption, TasksAssumption, TimeAssumption, MutexInv,
           NEW m \in Mutexes, NEW ms \in Delays, ObtainBlocks(m, ms)
    PROVE  MutexInv'
<1> USE DEF ObtainBlocks, mutexVars
<1>1. KernelInv'
  <2>1. m \in Objects /\ "MUTEX" \in Kinds
    BY DEF MutexAssumption, Kinds
  <2> QED BY <2>1, BlockInv DEF MutexInv
<1>2. /\ InTask /\ list' = list
      /\ state' = [state EXCEPT ![Me] = (@ \ {"RUNNING"}) \cup {"BLOCKED_MUTEX"}]
      /\ block_obj' = [block_obj EXCEPT ![Me] = m]
  BY DEF Block, MayBlock, SaveContext, BlockedFlag
<1>3. Me \in Tasks /\ "OBTAIN_MUTEX" \notin state[Me]
  BY <1>2, MeNotGranted DEF MutexInv
<1>4. /\ state \in [Tasks -> SUBSET Flags] /\ block_obj \in [Tasks -> Mutexes \cup {NoObj}]
  BY DEF MutexInv, KernelInv, KernelTypeOK, TypeOK
<1>5. \A t \in Tasks : /\ "OBTAIN_MUTEX" \in state'[t] <=> "OBTAIN_MUTEX" \in state[t]
                       /\ t # Me => block_obj'[t] = block_obj[t]
  BY <1>2, <1>3, <1>4
<1>6. ASSUME NEW n \in Mutexes, NEW t \in Tasks PROVE Granted(n, t)' <=> Granted(n, t)
  BY <1>3, <1>5 DEF Granted
<1>7. OwnerAccounts'
  <2>1. ASSUME NEW n \in pesudo_mutex_list PROVE Accounts(n)'
    BY <1>6, AccountsFacts, AccountsFrame DEF MutexInv, TypeOK
  <2> QED BY <2>1 DEF OwnerAccounts, Accounts
<1>8. TypeOK'
  <2>1. block_obj' \in [Tasks -> Mutexes \cup {NoObj}]
    BY <1>2, <1>4
  <2> QED BY <1>1, <2>1 DEF MutexInv, KernelInv, TypeOK
<1>9. NoStaleHold' /\ NoStaleGrant'
  BY <1>2, <1>5 DEF MutexInv, NoStaleHold, NoStaleGrant, Linked
<1> QED BY <1>1, <1>7, <1>8, <1>9 DEF MutexInv

\* What a task that resumes in pesudo_mutex_obtain() finds.
LEMMA ObtainReturnsFacts ==
    ASSUME MutexInv, ObtainReturns
    PROVE  /\ Me \in Tasks
           /\ block_obj[Me] \in Mutexes
           /\ ret = "OBTAIN_MUTEX" <=> Granted(block_obj[Me], Me)
           /\ state' = [state EXCEPT ![Me] = (@ \ {"BLOCKED_MUTEX", "OBTAIN_MUTEX"}) \cup {"RUNNING"}]
           /\ block_obj' = [block_obj EXCEPT ![Me] = NoObj]
           /\ list' = list
<1> USE DEF ObtainReturns, Unblock
<1>1. "MUTEX" \in Kinds /\ GrantFlag("MUTEX") = "OBTAIN_MUTEX" /\ BlockedFlag("MUTEX") = "BLOCKED_MUTEX"
  BY DEF Kinds, GrantFlag, BlockedFlag
<1>2. Me \in Tasks /\ CallKept(Me) /\ func_exit_pos[Me] = "MUTEX"
  BY ResumedFlags DEF MutexInv, Resumed
<1>3. block_obj[Me] # NoObj /\ block_obj[Me] \in Mutexes \cup {NoObj}
  BY <1>1, <1>2 DEF CallKept, MutexInv, TypeOK
<1>4. ret = "OBTAIN_MUTEX" <=> "OBTAIN_MUTEX" \in state[Me]
  BY <1>1, <1>2 DEF MutexInv, KernelInv, ResumedAsGranted, Resumed, Me
<1> QED BY <1>1, <1>2, <1>3, <1>4 DEF Granted, LeaveCall

\* The return of a blocked obtain, granted or timed out, preserves MutexInv.
LEMMA ObtainReturnsInv ==
    ASSUME MutexAssumption, TasksAssumption, MutexInv, ObtainReturns
    PROVE  MutexInv'
<1> DEFINE m == block_obj[Me]
<1>1. /\ Me \in Tasks /\ m \in Mutexes /\ NoTask \notin Tasks
      /\ UNCHANGED <<pesudo_mutex_list, owner, counter>>
  BY ObtainReturnsFacts DEF ObtainReturns, TasksAssumption
<1>2. KernelInv'
  BY UnblockInv DEF MutexInv, ObtainReturns, Kinds
<1>3. /\ state \in [Tasks -> SUBSET Flags] /\ block_obj \in [Tasks -> Mutexes \cup {NoObj}]
      /\ holds \in [Mutexes -> [Tasks -> Nat]]
  BY DEF MutexInv, KernelInv, KernelTypeOK, TypeOK
<1>4. \A t \in Tasks : IF t = Me THEN "OBTAIN_MUTEX" \notin state'[t]
                       ELSE state'[t] = state[t] /\ block_obj'[t] = block_obj[t]
  BY <1>3, ObtainReturnsFacts
<1>5. ASSUME NEW n \in Mutexes, NEW t \in Tasks, t # Me \/ n # m
      PROVE  Granted(n, t)' <=> Granted(n, t)
  <2>1. CASE t # Me
    BY <1>4, <2>1 DEF Granted
  <2>2. CASE t = Me /\ n # m
    <3>1. "OBTAIN_MUTEX" \notin state'[t] /\ block_obj[t] # n
      BY <1>4, <2>2
    <3> QED BY <3>1 DEF Granted
  <2> QED BY <1>5, <2>1, <2>2
<1>6. \A n \in Mutexes, t \in Tasks : t = Me => ~Granted(n, t)'
  BY <1>4 DEF Granted
<1>7. holds' = [holds EXCEPT ![m][Me] = IF Granted(m, Me) /\ m \in pesudo_mutex_list THEN @ + 1 ELSE @]
  BY <1>1, <1>3, ObtainReturnsFacts DEF ObtainReturns, Obtained
<1> HIDE DEF m
<1>8. \A n \in Mutexes, t \in Tasks :
        holds'[n][t] = IF n = m /\ t = Me /\ Granted(m, Me) /\ m \in pesudo_mutex_list
                       THEN holds[n][t] + 1 ELSE holds[n][t]
  BY <1>1, <1>3, <1>7
<1>9. OwnerAccounts'
  <2>1. ASSUME NEW n \in pesudo_mutex_list PROVE Accounts(n)'
    <3>1. n \in Mutexes /\ Accounts(n) /\ owner'[n] = owner[n] /\ counter'[n] = counter[n]
      BY <1>1, AccountsFacts DEF MutexInv, TypeOK
    <3>2. ASSUME NEW t \in Tasks
          PROVE  IF t = owner[n]
                 THEN counter[n] = holds'[n][t] + (IF Granted(n, t)' THEN 1 ELSE 0)
                 ELSE holds'[n][t] = 0 /\ ~Granted(n, t)'
      <4>1. CASE n = m /\ t = Me
        <5>1. holds[n][t] \in Nat /\ counter[n] \in Nat
          BY <1>3, <3>1, AccountsFacts
        <5>2. IF t = owner[n] THEN counter[n] = holds[n][t] + (IF Granted(n, t) THEN 1 ELSE 0)
              ELSE holds[n][t] = 0 /\ ~Granted(n, t)
          BY <3>1 DEF Accounts
        <5>3. holds'[n][t] = IF Granted(n, t) THEN holds[n][t] + 1 ELSE holds[n][t]
          BY <1>8, <2>1, <3>1, <4>1
        <5>4. ~Granted(n, t)'
          BY <1>6, <3>1, <4>1
        <5>5. CASE Granted(n, t)
          BY <5>1, <5>2, <5>3, <5>4, <5>5
        <5>6. CASE ~Granted(n, t)
          BY <5>1, <5>2, <5>3, <5>4, <5>6
        <5> QED BY <5>5, <5>6
      <4>2. CASE ~(n = m /\ t = Me)
        BY <1>5, <1>8, <3>1, <4>2 DEF Accounts
      <4> QED BY <4>1, <4>2
    <3> QED BY <3>1, <3>2 DEF Accounts
  <2> QED BY <1>1, <2>1 DEF OwnerAccounts, Accounts
<1>10. NoStaleHold'
  BY <1>1, <1>8 DEF MutexInv, NoStaleHold
<1>11. NoStaleGrant'
  BY <1>4, ObtainReturnsFacts DEF MutexInv, NoStaleGrant, Linked
<1>12. TypeOK'
  <2>1. holds' \in [Mutexes -> [Tasks -> Nat]]
    BY <1>1, <1>3, <1>7
  <2>2. block_obj' \in [Tasks -> Mutexes \cup {NoObj}]
    BY <1>3, ObtainReturnsFacts
  <2> QED BY <1>1, <1>2, <2>1, <2>2 DEF MutexInv, KernelInv, TypeOK
<1> QED BY <1>2, <1>9, <1>10, <1>11, <1>12 DEF MutexInv

\* Every step of the kernel and of the mutexes preserves MutexInv.
LEMMA MutexNextInv ==
    ASSUME MutexAssumption, TasksAssumption, TimeAssumption, MutexInv, [Next]_vars
    PROVE  MutexInv'
<1>1. CASE KernelNext /\ UNCHANGED mutexVars
  BY <1>1, KernelStepMutexInv
<1>2. CASE MutexCall
  BY <1>2, CreateMutexInv, DeleteMutexInv, ObtainInv, ObtainBlocksInv, ReleaseLastInv,
     ReleaseNestedInv, ObtainReturnsInv
     DEF MutexCall
<1>3. CASE UNCHANGED vars
  <2>1. UNCHANGED kernelVars /\ UNCHANGED <<pesudo_mutex_list, owner, counter, holds>>
    BY <1>3 DEF vars, mutexVars
  <2>2. state' = state /\ block_obj' = block_obj /\ list' = list
    BY <2>1 DEF kernelVars, objFields
  <2>3. KernelInv'
    BY <2>1, KernelStutterInv DEF MutexInv
  <2>4. TypeOK' /\ NoStaleHold' /\ NoStaleGrant'
    BY <2>1, <2>2, <2>3 DEF MutexInv, TypeOK, KernelInv, NoStaleHold, NoStaleGrant, Linked
  <2>5. OwnerAccounts'
    <3>1. ASSUME NEW m \in pesudo_mutex_list PROVE Accounts(m)'
      BY <2>1, <2>2, AccountsFacts, AccountsFrame DEF MutexInv, TypeOK, Granted
    <3> QED BY <2>1, <3>1 DEF OwnerAccounts, Accounts
  <2> QED BY <2>3, <2>4, <2>5 DEF MutexInv
<1> QED BY <1>1, <1>2, <1>3 DEF Next

\* MutexInv is an invariant of the mutexes and the kernel together.
LEMMA MutexInvariant == Spec => []MutexInv
<1>1. Init => MutexInv
  BY MutexAssumption, TasksAssumption, InitMutexInv
<1>2. MutexInv /\ [Next]_vars => MutexInv'
  BY MutexAssumption, TasksAssumption, TimeAssumption, MutexNextInv
<1> QED BY <1>1, <1>2, PTL DEF Spec

\* The variables of the kernel and the mutexes stay in their types.
THEOREM TypeCorrect == Spec => []TypeOK
<1>1. MutexInv => TypeOK
  BY DEF MutexInv
<1> QED BY <1>1, MutexInvariant, PTL

\* pesudo_mutex_obtain() and pesudo_mutex_release() never let two tasks hold a mutex,
\* although a waiter is made the owner long before it resumes and while other tasks
\* suspend, delete and create tasks.
THEOREM MutexExcludes == Spec => []MutualExclusion
<1>1. MutexInv => MutualExclusion
  BY MutexInvImpliesExclusion
<1> QED BY <1>1, MutexInvariant, PTL

\* mutex->owner and mutex->counter account for what the tasks hold.
THEOREM OwnerIsRight == Spec => []OwnerAccounts
<1>1. MutexInv => OwnerAccounts
  BY DEF MutexInv
<1> QED BY <1>1, MutexInvariant, PTL

-----------------------------------------------------------------------------
(***************************************************************************)
(* No lost waiter: NoLostWaiter, with MutexInv and the past of block_when. *)
(***************************************************************************)
WaiterInv == MutexInv /\ BlockedInPast /\ NoLostWaiter

\* Nobody waits before the first mutex is created.
LEMMA InitWaiterInv ==
    ASSUME MutexAssumption, TasksAssumption, Init
    PROVE  WaiterInv
<1>1. BlockedInPast /\ NoLostWaiter
  BY DEF Init, KernelInit, BlockedInPast, NoLostWaiter
<1> QED BY <1>1, InitMutexInv DEF WaiterInv

\* A step that gives the waiters of existing mutexes no company and frees no mutex
\* loses no waiter.
LEMMA NoLostFrame ==
    ASSUME NoLostWaiter,
           \A m \in pesudo_mutex_list' :
               /\ m \in pesudo_mutex_list
               /\ owner'[m] = NoTask => owner[m] = NoTask
               /\ owner'[m] = NoTask => Waiting("MUTEX", m)' \subseteq Waiting("MUTEX", m)
    PROVE  NoLostWaiter'
  BY DEF NoLostWaiter

\* pesudo_mutex_release() frees a mutex only if nobody waits for it.
LEMMA ReleaseLastKeepsWaiters ==
    ASSUME TasksAssumption, WaiterInv, NEW m \in Mutexes, ReleaseLast(m)
    PROVE  NoLostWaiter'
<1> USE DEF ReleaseLast
<1>1. /\ owner \in [Mutexes -> Tasks \cup {NoTask}] /\ pesudo_mutex_list \subseteq Mutexes
      /\ state \in [Tasks -> SUBSET Flags] /\ Linked \subseteq Tasks
      /\ NoTask \notin Tasks /\ KernelTypeOK
  BY LinkedAreTasks DEF WaiterInv, MutexInv, TypeOK, KernelInv, KernelTypeOK, TasksAssumption
<1>2. Linked' = Linked /\ block_obj' = block_obj
  BY DEF Linked, objFields
<1>3. \A n \in Mutexes : Waiting("MUTEX", n) \in SUBSET Linked
  BY DEF Waiting
<1>4. CASE Free(m)
  <2>1. \A n \in Mutexes : Waiting("MUTEX", n)' = Waiting("MUTEX", n)
    BY <1>2, <1>4 DEF Free, Waiting
  <2>2. Opt[m] \in {"FIFO", "LIFO"} => Waiting("MUTEX", m) = {}
    BY <1>1, <1>3, <1>4, SelectedExists DEF Free, WaiterInv
  <2>3. \A n \in Mutexes : n # m => owner'[n] = owner[n]
    BY <1>1, <1>4 DEF Free
  <2> QED BY <1>1, <2>1, <2>2, <2>3 DEF WaiterInv, NoLostWaiter
<1>5. CASE HandOver(m)
  <2>1. PICK w \in Selected(Opt[m], Waiting("MUTEX", m)) :
          /\ owner' = [owner EXCEPT ![m] = w]
          /\ state' = [state EXCEPT ![w] = @ \cup {"OBTAIN_MUTEX"}]
    BY <1>5 DEF HandOver
  <2>2. w \in Tasks
    BY <1>1, <1>3, <2>1 DEF Selected
  <2>3. \A n \in Mutexes : Waiting("MUTEX", n)' \subseteq Waiting("MUTEX", n)
    BY <1>1, <1>2, <2>1, <2>2 DEF Waiting, BlockedFlag
  <2>4. owner'[m] # NoTask /\ \A n \in Mutexes : n # m => owner'[n] = owner[n]
    BY <1>1, <2>1, <2>2
  <2> QED BY <1>1, <2>3, <2>4, NoLostFrame DEF WaiterInv
<1> QED BY <1>4, <1>5

\* Every step of the kernel and of the mutexes preserves WaiterInv.
LEMMA WaiterNextInv ==
    ASSUME MutexAssumption, TasksAssumption, TimeAssumption, WaiterInv, [Next]_vars
    PROVE  WaiterInv'
<1>1. MutexInv'
  BY MutexNextInv DEF WaiterInv
<1>2. /\ KernelInv /\ Linked \subseteq Tasks /\ pesudo_mutex_list \subseteq Mutexes
      /\ block_obj \in [Tasks -> Mutexes \cup {NoObj}] /\ state \in [Tasks -> SUBSET Flags]
      /\ owner \in [Mutexes -> Tasks \cup {NoTask}] /\ NoTask \notin Tasks
  BY LinkedAreTasks DEF WaiterInv, MutexInv, TypeOK, KernelInv, KernelTypeOK, TasksAssumption
<1>3. "MUTEX" \in Kinds /\ BlockedFlag("MUTEX") = "BLOCKED_MUTEX" /\ GrantFlag("MUTEX") = "OBTAIN_MUTEX"
  BY DEF Kinds, BlockedFlag, GrantFlag
<1>4. BlockedInPast'
  <2>1. CASE KernelNext
    BY <1>2, <2>1, KernelBlockedInPast DEF WaiterInv
  <2>2. CASE ObtainReturns \/ \E m \in Mutexes, ms \in Delays : ObtainBlocks(m, ms)
    BY <1>2, <1>3, <2>2, BlockUnblockInPast
       DEF WaiterInv, ObtainReturns, ObtainBlocks, MutexAssumption
  <2>3. CASE UNCHANGED <<now, block_when>>
    BY <2>3 DEF WaiterInv, BlockedInPast
  <2> QED BY <2>1, <2>2, <2>3
     DEF Next, MutexCall, vars, kernelVars, objFields, pesudo_mutex_create, pesudo_mutex_delete,
         ObtainFree, ObtainAgain, ReleaseLast, ReleaseNested
<1>5. NoLostWaiter'
  <2>1. CASE KernelNext /\ UNCHANGED mutexVars
    <3>1. \A m \in Mutexes : Waiting("MUTEX", m)' \subseteq Waiting("MUTEX", m)
      BY <1>2, <1>3, <2>1, KernelWaiters DEF Waiting, MutexAssumption
    <3> QED BY <1>2, <2>1, <3>1, NoLostFrame DEF WaiterInv, mutexVars
  <2>2. ASSUME NEW m \in Mutexes, pesudo_mutex_create(m) PROVE NoLostWaiter'
    <3>1. \A n \in Mutexes : Waiting("MUTEX", n)' = Waiting("MUTEX", n)
      BY <2>2 DEF pesudo_mutex_create, kernelVars, objFields, Waiting, Linked
    <3>2. Waiting("MUTEX", m) = {}
      BY <1>2, <2>2 DEF pesudo_mutex_create, Waiting
    <3> QED BY <1>2, <2>2, <3>1, <3>2 DEF pesudo_mutex_create, WaiterInv, NoLostWaiter
  <2>3. ASSUME NEW m \in Mutexes,
               pesudo_mutex_delete(m) \/ ObtainFree(m) \/ ObtainAgain(m) \/ ReleaseNested(m)
        PROVE  NoLostWaiter'
    <3>1. \A n \in Mutexes : Waiting("MUTEX", n)' = Waiting("MUTEX", n)
      BY <2>3 DEF pesudo_mutex_delete, ObtainFree, ObtainAgain, ReleaseNested, kernelVars,
                  objFields, Waiting, Linked
    <3>2. Me \in Tasks
      BY <1>2, <2>3, MeNotGranted
         DEF pesudo_mutex_delete, ObtainFree, ObtainAgain, ReleaseNested
    <3>3. \A n \in pesudo_mutex_list' :
            n \in pesudo_mutex_list /\ (owner'[n] = NoTask => owner[n] = NoTask)
      BY <1>2, <2>3, <3>2 DEF pesudo_mutex_delete, ObtainFree, ObtainAgain, ReleaseNested
    <3> QED BY <1>2, <3>1, <3>3, NoLostFrame DEF WaiterInv
  <2>4. ASSUME NEW m \in Mutexes, NEW ms \in Delays, ObtainBlocks(m, ms) PROVE NoLostWaiter'
    <3>1. Me \in Tasks /\ list' = list
          /\ state' = [state EXCEPT ![Me] = (@ \ {"RUNNING"}) \cup {"BLOCKED_MUTEX"}]
          /\ block_obj' = [block_obj EXCEPT ![Me] = m]
      BY <1>2, <1>3, <2>4, MeNotGranted DEF ObtainBlocks, Block, MayBlock, SaveContext
    <3>2. \A n \in Mutexes : n # m => Waiting("MUTEX", n)' \subseteq Waiting("MUTEX", n)
      BY <1>2, <1>3, <3>1 DEF Waiting, Linked
    <3>3. owner[m] # NoTask
      BY <2>4 DEF ObtainBlocks
    <3> QED BY <1>2, <2>4, <3>2, <3>3, NoLostFrame DEF WaiterInv, ObtainBlocks, mutexVars
  <2>5. CASE ObtainReturns
    <3>1. \A n \in Mutexes : Waiting("MUTEX", n)' \subseteq Waiting("MUTEX", n)
      BY <1>2, <1>3, <2>5, ObtainReturnsFacts DEF WaiterInv, Waiting, Linked
    <3> QED BY <1>2, <2>5, <3>1, NoLostFrame DEF WaiterInv, ObtainReturns
  <2>6. CASE UNCHANGED vars
    BY <2>6 DEF vars, kernelVars, objFields, mutexVars, WaiterInv, NoLostWaiter, Waiting, Linked
  <2> QED BY <2>1, <2>2, <2>3, <2>4, <2>5, <2>6, ReleaseLastKeepsWaiters DEF Next, MutexCall
<1> QED BY <1>1, <1>4, <1>5 DEF WaiterInv

\* A mutex created with PESUDO_OPT_FIFO or PESUDO_OPT_LIFO is never free while a task
\* waits for it: pesudo_mutex_release() always finds the waiter it has to wake.
THEOREM NoWaiterIsLost == Spec => []NoLostWaiter
<1>1. Init => WaiterInv
  BY MutexAssumption, TasksAssumption, InitWaiterInv
<1>2. WaiterInv /\ [Next]_vars => WaiterInv'
  BY MutexAssumption, TasksAssumption, TimeAssumption, WaiterNextInv
<1>3. WaiterInv => NoLostWaiter
  BY DEF WaiterInv
<1> QED BY <1>1, <1>2, <1>3, PTL DEF Spec

-----------------------------------------------------------------------------
(***************************************************************************)
(* The mutexes implement RecursiveLock, with the history for `held`.       *)
(***************************************************************************)
\* The mutexes start like a recursive lock.
LEMMA InitLock ==
    ASSUME Init
    PROVE  Lock!Init
  BY DEF Init, Lock!Init, Lock!Nobody

\* A task that gets the mutex, at once or when it resumes, is alone with it.
LEMMA ObtainIsAlone ==
    ASSUME MutexAssumption, TasksAssumption, MutexInv, NEW m \in pesudo_mutex_list, NEW t \in Tasks,
           \/ owner[m] \in {NoTask, t}
           \/ Granted(m, t)
    PROVE  \A u \in Tasks \ {t} : holds[m][u] = 0
<1>1. Accounts(m) /\ NoTask \notin Tasks
  BY AccountsFacts DEF MutexInv, TypeOK, TasksAssumption
<1> QED BY <1>1 DEF Accounts

\* Every step is one of the recursive lock, or leaves what the callers see unchanged.
LEMMA NextLock ==
    ASSUME MutexAssumption, TasksAssumption, MutexInv, [Next]_vars
    PROVE  [Lock!Next]_holds
<1> USE DEF Lock!Next, Lock!Nobody
<1>1. CASE KernelNext /\ UNCHANGED mutexVars
  BY <1>1 DEF mutexVars
<1>2. ASSUME NEW m \in Mutexes,
             pesudo_mutex_create(m) \/ ObtainFree(m) \/ ObtainAgain(m) \/ ReleaseLast(m)
               \/ ReleaseNested(m)
      PROVE  [Lock!Next]_holds
  <2>1. Me \in Tasks
    BY <1>2, MeNotGranted DEF MutexInv, pesudo_mutex_create, ObtainFree, ObtainAgain, ReleaseLast,
                              ReleaseNested
  <2>2. CASE pesudo_mutex_create(m)
    BY <2>2 DEF pesudo_mutex_create
  <2>3. CASE ObtainFree(m) \/ ObtainAgain(m)
    <3>1. Lock!Obtain(m, Me)
      BY <2>1, <2>3, ObtainIsAlone DEF ObtainFree, ObtainAgain, Obtained, Lock!Obtain
    <3> QED BY <2>1, <3>1
  <2>4. CASE ReleaseLast(m) \/ ReleaseNested(m)
    <3>1. CASE owner[m] = Me /\ holds' = [holds EXCEPT ![m][Me] = @ - 1]
      <4>1. /\ m \in pesudo_mutex_list /\ InTask
            /\ holds[m][Me] \in Nat /\ ~Granted(m, Me)
        BY <2>1, <2>4, AccountsFacts, MeNotGranted DEF MutexInv, Granted, ReleaseLast, ReleaseNested
      <4>2. counter[m] # 0 /\ holds[m][Me] = counter[m]
        BY <2>1, <3>1, <4>1, AccountsFacts DEF Accounts, TasksAssumption
      <4>3. Lock!Release(m, Me)
        BY <3>1, <4>1, <4>2 DEF Lock!Release
      <4> QED BY <2>1, <4>3
    <3>2. CASE UNCHANGED holds
      BY <3>2
    <3> QED BY <2>4, <3>1, <3>2 DEF ReleaseLast, ReleaseNested
  <2> QED BY <1>2, <2>2, <2>3, <2>4
<1>3. ASSUME NEW m \in Mutexes, pesudo_mutex_delete(m)
      PROVE  [Lock!Next]_holds
  BY <1>3 DEF pesudo_mutex_delete, Lock!Destroy
<1>4. ASSUME NEW m \in Mutexes, NEW ms \in Delays, ObtainBlocks(m, ms)
      PROVE  [Lock!Next]_holds
  BY <1>4 DEF ObtainBlocks, mutexVars
<1>5. CASE ObtainReturns
  <2>1. Me \in Tasks /\ block_obj[Me] \in Mutexes
    BY <1>5, ObtainReturnsFacts
  <2>2. CASE UNCHANGED holds
    BY <2>2
  <2>3. CASE ret = "OBTAIN_MUTEX" /\ block_obj[Me] \in pesudo_mutex_list
    <3>1. Granted(block_obj[Me], Me)
      BY <1>5, <2>3, ObtainReturnsFacts
    <3>2. Lock!Obtain(block_obj[Me], Me)
      BY <1>5, <2>1, <2>3, <3>1, ObtainIsAlone DEF ObtainReturns, Obtained, Lock!Obtain
    <3> QED BY <2>1, <3>2
  <2> QED BY <1>5, <2>2, <2>3 DEF ObtainReturns
<1>6. CASE UNCHANGED vars
  BY <1>6 DEF vars, mutexVars
<1> QED BY <1>1, <1>2, <1>3, <1>4, <1>5, <1>6 DEF Next, MutexCall

\* Every behaviour of pesudo_mutex.c is one of a recursive lock, as its callers see it.
THEOREM MutexIsRecursiveLock == Spec => IsRecursiveLock
<1>1. Init => Lock!Init
  BY InitLock
<1>2. MutexInv /\ [Next]_vars => [Lock!Next]_holds
  BY MutexAssumption, TasksAssumption, NextLock
<1> QED BY <1>1, <1>2, MutexInvariant, PTL DEF Spec, IsRecursiveLock, Lock!Spec

-----------------------------------------------------------------------------
(***************************************************************************)
(* Which waiter gets a mutex.                                              *)
(***************************************************************************)

\* Only a task that waits for a mutex is handed it, the one that blocked last with
\* PESUDO_OPT_FIFO, the one that blocked first with PESUDO_OPT_LIFO, and none with any
\* other option.
HandOverOrder ==
    [][\A m \in Mutexes : \A t, u \in Tasks :
         /\ ~Granted(m, t) /\ Granted(m, t)'
         /\ u \in Waiting("MUTEX", m)
         => /\ t \in Waiting("MUTEX", m)
            /\ \/ Opt[m] = "FIFO" /\ block_when[t] >= block_when[u]
               \/ Opt[m] = "LIFO" /\ block_when[t] <= block_when[u]]_vars

\* A task is handed a mutex by nothing but the last release of it.
LEMMA GrantsAreHandOvers ==
    ASSUME MutexAssumption, TasksAssumption, MutexInv, [Next]_vars,
           NEW m \in Mutexes, NEW t \in Tasks, ~Granted(m, t), Granted(m, t)'
    PROVE  ReleaseLast(m) /\ t \in Selected(Opt[m], Waiting("MUTEX", m))
<1>0. /\ KernelInv /\ NoStaleGrant /\ state \in [Tasks -> SUBSET Flags]
      /\ block_obj \in [Tasks -> Mutexes \cup {NoObj}] /\ Linked \subseteq Tasks
  BY LinkedAreTasks DEF MutexInv, KernelInv, KernelTypeOK, TypeOK
<1>1. ~(UNCHANGED <<state, block_obj>>)
  BY DEF Granted
<1>2. ~KernelNext
  <2>1. KernelNext => GrantsUnchanged
    BY <1>0, KernelGrants
  <2>2. GrantsUnchanged => (Granted(m, t)' => Granted(m, t))
    BY DEF GrantsUnchanged, Granted
  <2> QED BY <2>1, <2>2
<1>3. ASSUME NEW n \in Mutexes, NEW ms \in Delays, ObtainBlocks(n, ms) PROVE FALSE
  <2>1. /\ state' = [state EXCEPT ![Me] = (@ \ {"RUNNING"}) \cup {"BLOCKED_MUTEX"}]
        /\ block_obj' = [block_obj EXCEPT ![Me] = n]
        /\ Me \in Tasks /\ "OBTAIN_MUTEX" \notin state[Me]
    BY <1>0, <1>3, MeNotGranted DEF ObtainBlocks, Block, MayBlock, SaveContext, BlockedFlag
  <2> QED BY <1>0, <2>1 DEF Granted
<1>4. ~ObtainReturns
  <2> SUFFICES ASSUME ObtainReturns PROVE FALSE
    OBVIOUS
  <2>1. /\ state' = [state EXCEPT ![Me] = (@ \ {"BLOCKED_MUTEX", "OBTAIN_MUTEX"}) \cup {"RUNNING"}]
        /\ block_obj' = [block_obj EXCEPT ![Me] = NoObj]
    BY ObtainReturnsFacts
  <2> QED BY <1>0, <2>1 DEF Granted
<1>5. PICK n \in Mutexes : ReleaseLast(n)
  BY <1>1, <1>2, <1>3, <1>4
     DEF Next, MutexCall, vars, kernelVars, objFields, pesudo_mutex_create, pesudo_mutex_delete,
         ObtainFree, ObtainAgain, ReleaseNested
<1>6. block_obj' = block_obj
  BY <1>5 DEF ReleaseLast, objFields
<1>7. PICK w \in Selected(Opt[n], Waiting("MUTEX", n)) :
        state' = [state EXCEPT ![w] = @ \cup {"OBTAIN_MUTEX"}]
  BY <1>1, <1>5, <1>6 DEF ReleaseLast, Free, HandOver
<1>8. w \in Tasks /\ block_obj[w] = n
  BY <1>0, <1>7 DEF Selected, Waiting
<1>9. t = w /\ m = n
  BY <1>0, <1>6, <1>7, <1>8 DEF Granted
<1> QED BY <1>5, <1>7, <1>9

\* A released mutex goes to the waiter that blocked last with PESUDO_OPT_FIFO and to the
\* one that blocked first with PESUDO_OPT_LIFO (pesudo_mutex_release()).
THEOREM OptionsAreSwapped == Spec => HandOverOrder
<1>1. MutexInv /\ [Next]_vars =>
        [\A m \in Mutexes : \A t, u \in Tasks :
           /\ ~Granted(m, t) /\ Granted(m, t)'
           /\ u \in Waiting("MUTEX", m)
           => /\ t \in Waiting("MUTEX", m)
              /\ \/ Opt[m] = "FIFO" /\ block_when[t] >= block_when[u]
                 \/ Opt[m] = "LIFO" /\ block_when[t] <= block_when[u]]_vars
  <2> SUFFICES ASSUME MutexInv, [Next]_vars,
                      NEW m \in Mutexes, NEW t \in Tasks, NEW u \in Waiting("MUTEX", m),
                      u \in Tasks, ~Granted(m, t), Granted(m, t)'
               PROVE  /\ t \in Waiting("MUTEX", m)
                      /\ \/ Opt[m] = "FIFO" /\ block_when[t] >= block_when[u]
                         \/ Opt[m] = "LIFO" /\ block_when[t] <= block_when[u]
    OBVIOUS
  <2>1. t \in Selected(Opt[m], Waiting("MUTEX", m))
    BY MutexAssumption, TasksAssumption, GrantsAreHandOvers
  <2>2. t \in Waiting("MUTEX", m) /\ Opt[m] \in {"FIFO", "LIFO"} /\ Preferred(Opt[m], t, u)
    BY <2>1 DEF Selected
  <2>3. block_when[t] \in Nat /\ block_when[u] \in Nat
    BY DEF MutexInv, KernelInv, KernelTypeOK
  <2> QED BY <2>2, <2>3 DEF Preferred
<1> QED BY <1>1, MutexInvariant, PTL DEF Spec, HandOverOrder
=============================================================================
