--------------------------- MODULE PesudoSemProofs ---------------------------
(***************************************************************************)
(* Proofs about the PesudoOS semaphores, for any number of tasks and       *)
(* semaphores, any width of the count and interrupts anywhere.             *)
(***************************************************************************)
EXTENDS PesudoSem, PesudoOSProofs, FiniteSetTheorems

-----------------------------------------------------------------------------
(***************************************************************************)
(* The 16-bit count.                                                       *)
(***************************************************************************)

\* What a count or a register that is about to be decremented stands for: the one of
\* a semaphore with a token is 0 only when it has wrapped.
Amount(n) == IF n = 0 THEN CountWrap ELSE n

Count16 == 0..(CountWrap - 1)

\* U16 stays in the width, invents nothing, and after a decrement leaves one less
\* than the amount.
LEMMA Width ==
    ASSUME SemAssumption
    PROVE  /\ 0 \in Count16
           /\ \A n \in Int : U16(n) \in Count16
           /\ \A n \in Nat : U16(n) <= n
           /\ \A n \in Count16 : U16(n - 1) = Amount(n) - 1
           /\ \A n \in Count16 : U16(n + 1) \in Count16 /\ U16(n + 1) <= n + 1
           /\ \A n \in Count16 : Amount(U16(n + 1)) <= Amount(n) + 1
<1>1. CountWrap \in Nat \ {0}
  BY DEF SemAssumption
<1>2. \A n \in Int : n % CountWrap \in 0..(CountWrap - 1)
  BY <1>1
<1>3. \A n \in Nat : n % CountWrap <= n
  BY <1>1
<1>4. \A n \in 0..(CountWrap - 1) : n % CountWrap = n
  BY <1>1
<1>5. (0 - 1) % CountWrap = CountWrap - 1 /\ CountWrap % CountWrap = 0
  BY <1>1
<1>6. \A n \in Count16 : U16(n - 1) = Amount(n) - 1
  BY <1>1, <1>4, <1>5 DEF Amount, U16, Count16
<1>7. \A n \in Count16 : Amount(U16(n + 1)) <= Amount(n) + 1
  <2> SUFFICES ASSUME NEW n \in Count16 PROVE Amount(U16(n + 1)) <= Amount(n) + 1
    OBVIOUS
  <2>1. CASE n + 1 = CountWrap
    BY <1>1, <1>5, <2>1 DEF Amount, U16, Count16
  <2>2. CASE n + 1 # CountWrap
    <3>1. U16(n + 1) = n + 1
      BY <1>1, <1>4, <2>2 DEF U16, Count16
    <3> QED BY <1>1, <3>1 DEF Amount, Count16
  <2> QED BY <2>1, <2>2
<1>8. 0 \in Count16
  BY <1>1 DEF Count16
<1>9. ASSUME NEW n \in Count16 PROVE U16(n + 1) \in Count16 /\ U16(n + 1) <= n + 1
  <2>1. n + 1 \in Nat /\ n + 1 \in Int /\ 0..(CountWrap - 1) \subseteq Nat
    BY <1>1 DEF Count16
  <2> QED BY <1>2, <1>3, <2>1 DEF U16, Count16
<1> QED BY <1>2, <1>3, <1>6, <1>7, <1>8, <1>9 DEF U16, Count16

-----------------------------------------------------------------------------
(***************************************************************************)
(* TypeOK, made inductive.                                                 *)
(***************************************************************************)

\* Where the main level is while it is inside a semaphore function.
PcOfOp ==
    /\ op \in {"obtain", "take", "give"} => InTask
    /\ op \in {"scan", "found", "grant"} => pc \in {"running", "drain"}

BlockTypes == block_obj \in [Tasks -> Sems \cup {NoObj}]

\* The types of the semaphores.
SemTypes ==
    /\ pesudo_sem_list \subseteq Sems
    /\ count \in [Sems -> Count16]
    /\ drained \subseteq Sems
    /\ given \in [Sems -> Nat] /\ isrGiven \in [Sems -> Nat] /\ taken \in [Sems -> Nat]

\* The types of where the main level is.
RegTypes ==
    /\ op \in {"none", "obtain", "take", "give", "scan", "found", "grant"}
    /\ on \in Sems \cup {NoObj}
    /\ op # "none" => on \in pesudo_sem_list
    /\ loaded \in Count16

TypeInv == KernelInv /\ BlockTypes /\ SemTypes /\ RegTypes /\ PcOfOp

\* The invariant implies TypeOK.
LEMMA TypeInvTypes == TypeInv => TypeOK
  BY DEF TypeInv, KernelInv, TypeOK, BlockTypes, SemTypes, RegTypes, Count16

\* TypeInv holds before any semaphore is created.
LEMMA InitTypeInv ==
    ASSUME SemAssumption, TasksAssumption, Init
    PROVE  TypeInv
<1> USE DEF Init
<1>1. KernelInv
  BY InitInv
<1>2. BlockTypes
  BY DEF KernelInit, BlockTypes
<1>3. SemTypes /\ RegTypes /\ PcOfOp
  BY Width DEF SemTypes, RegTypes, PcOfOp
<1> QED BY <1>1, <1>2, <1>3 DEF TypeInv

\* The running task waits for no semaphore, and has no grant of one.
LEMMA MeNotWaiting ==
    ASSUME SemAssumption, KernelInv, InTask
    PROVE  /\ Me \in Tasks /\ Me \notin Timers /\ Me \in Linked
           /\ "OBTAIN_SEM" \notin state[Me] /\ "BLOCKED_SEM" \notin state[Me]
           /\ block_obj[Me] = NoObj
<1>1. Me \notin Timers /\ Me \in Linked
  BY DEF SemAssumption, KernelInv, LoopOnLiveTasks, InTask, Me
<1>2. {"OBTAIN_SEM", "BLOCKED_SEM"} \subseteq CallFlags
  BY DEF CallFlags, BlockingFlags, GrantFlags
<1> QED BY <1>1, <1>2, MeOutsideCalls

\* A waiter that gets a token: the step of a scan on the tasks.
LEMMA GrantSelects ==
    ASSUME TypeInv, Grant
    PROVE  \E w \in Tasks :
              /\ "BLOCKED_SEM" \in state[w] /\ block_obj[w] = on /\ w \in Linked
              /\ state' = [state EXCEPT ![w] = @ \cup {"OBTAIN_SEM"}]
<1>1. Linked \subseteq Tasks
  BY LinkedAreTasks DEF TypeInv, KernelInv, KernelTypeOK
<1> QED BY <1>1 DEF Grant, Selected, Waiting, BlockedFlag

\* A task that is resumed from a wait for a semaphore waited for one, and it returns 0
\* just when it was granted a token.
LEMMA ResumedOnSem ==
    ASSUME SemAssumption, TypeInv, Resumed("SEM")
    PROVE  /\ Me \in Tasks /\ block_obj[Me] \in Sems
           /\ ret = "OBTAIN_SEM" <=> "OBTAIN_SEM" \in state[Me]
<1>1. Me \in Tasks \ Timers /\ func_exit_pos[Me] = "SEM"
  BY DEF Resumed, SemAssumption, TypeInv, KernelInv, KernelTypeOK, Me
<1>2. CallKept(Me) /\ "SEM" \in Kinds /\ GrantFlag("SEM") = "OBTAIN_SEM"
  BY <1>1 DEF TypeInv, KernelInv, PendingCallKept, Kinds, GrantFlag
<1>3. block_obj[Me] # NoObj
  BY <1>1, <1>2 DEF CallKept
<1>4. ret = "OBTAIN_SEM" <=> "OBTAIN_SEM" \in state[Me]
  BY <1>1, <1>2 DEF TypeInv, KernelInv, ResumedAsGranted, Resumed, Me
<1> QED BY <1>1, <1>3, <1>4 DEF TypeInv, BlockTypes

\* The kernel's part of the steps of the semaphores.
LEMMA NextKernelPart ==
    ASSUME SemAssumption, TasksAssumption, TimeAssumption, TypeInv, [Next]_vars
    PROVE  KernelInv'
<1>0. KernelInv /\ RegTypes /\ PcOfOp /\ "SEM" \in Kinds /\ Sems \subseteq Objects
  BY DEF TypeInv, Kinds, SemAssumption
<1>1. CASE UNCHANGED kernelVars
  BY <1>0, <1>1, KernelStutterInv
<1>2. CASE KernelNext
  BY <1>0, <1>2, KernelNextInv
<1>3. CASE \E s \in Sems, ms \in Delays : ObtainBlocks(s, ms)
  BY <1>0, <1>3, BlockInv DEF ObtainBlocks
<1>4. CASE ObtainReturns
  BY <1>0, <1>4, UnblockInv DEF ObtainReturns
<1>5. CASE Grant
  <2>1. PICK w \in Tasks : "BLOCKED_SEM" \in state[w]
                           /\ state' = [state EXCEPT ![w] = @ \cup {"OBTAIN_SEM"}]
    BY <1>5, GrantSelects
  <2> DEFINE G == {w}
  <2>2. state' = [t \in Tasks |-> IF t \in G THEN state[t] \cup {GrantFlag("SEM")} ELSE state[t]]
    BY <1>0, <2>1 DEF KernelInv, KernelTypeOK, GrantFlag
  <2>3. /\ pc # "resumed" /\ G \in SUBSET Tasks
        /\ \A t \in G : BlockedFlag("SEM") \in state[t]
    BY <1>0, <1>5, <2>1 DEF Grant, PcOfOp, BlockedFlag
  <2>4. UNCHANGED <<now, list, objFields, runFields, loopVars>>
    BY <1>5 DEF Grant
  <2> HIDE DEF G
  <2> QED BY <1>0, <2>2, <2>3, <2>4, GrantAllInv
<1> QED BY <1>1, <1>2, <1>3, <1>4, <1>5
     DEF Next, vars, KernelStep, KernelNext, Interrupt, IsrRelease, SemStep, SemCall, ObtainLoad,
         ObtainStore, ReleaseStore, ScanFindsNone, ScanFinds, GrantLoad, DrainEnds, DrainSem,
         pesudo_sem_create, pesudo_sem_delete, pesudo_sem_clear, ObtainTest, ReleaseLoad

\* What the steps of the semaphores do to block_obj and pc.
LEMMA NextBlockPart ==
    ASSUME SemAssumption, TypeInv, [Next]_vars
    PROVE  BlockTypes'
<1>0. BlockTypes
  BY DEF TypeInv
<1> USE DEF objFields, kernelVars
<1>1. CASE KernelNext
  <2>1. \/ block_obj' = block_obj
        \/ \E t \in Tasks : block_obj' = [block_obj EXCEPT ![t] = NoObj]
    BY <1>1 DEF KernelNext, Tick, LoopStep, VisitNext, VisitDispatch, VisitWakeup, VisitGranted,
           VisitTimeout, VisitSkip, Resume, EndPass, LoopAstray, kernelVars, StartPass,
           HandlerReturns, TaskCall,
           pesudo_task_create, Allocate, pesudo_task_delete, pesudo_task_suspend,
           pesudo_task_resume, pesudo_task_sleep, pesudo_task_sleep_until, SleepFor,
           SleepUntilLate, DelayEnds, SleepTail
  <2> QED BY <1>0, <2>1 DEF BlockTypes
<1>2. CASE \E s \in Sems, ms \in Delays : ObtainBlocks(s, ms)
  BY <1>0, <1>2 DEF ObtainBlocks, Block, BlockTypes
<1>3. CASE ObtainReturns
  BY <1>0, <1>3 DEF ObtainReturns, Unblock, BlockTypes
<1>4. CASE block_obj' = block_obj
  BY <1>0, <1>4 DEF BlockTypes
<1> QED BY <1>1, <1>2, <1>3, <1>4
     DEF Next, vars, KernelStep, KernelNext, Interrupt, IsrRelease, SemStep, SemCall, ObtainLoad,
         ObtainStore, ReleaseStore, ScanFindsNone, ScanFinds, GrantLoad, Grant, DrainEnds,
         StartPass, DrainSem, pesudo_sem_create, pesudo_sem_delete, pesudo_sem_clear, ObtainTest,
         ReleaseLoad

\* The semaphores' part of their steps.
LEMMA NextSemPart ==
    ASSUME SemAssumption, TypeInv, [Next]_vars
    PROVE  SemTypes' /\ RegTypes'
<1>0. /\ SemTypes /\ RegTypes
      /\ op # "none" => on \in Sems
      /\ Counts \subseteq Nat
  BY DEF TypeInv, SemTypes, RegTypes, SemAssumption
<1>w. /\ 0 \in Count16
      /\ \A n \in Count16 : n \in Nat
      /\ \A n \in Nat : U16(n) \in Count16 /\ U16(n + 1) \in Count16 /\ U16(n - 1) \in Count16
  BY Width DEF Count16, SemAssumption
<1> USE <1>0, <1>w DEF SemTypes, RegTypes, semVars, regVars, histVars, Load, Store, Done, Idle
<1>1. CASE UNCHANGED semVars
  BY <1>1
<1>2. CASE ObtainLoad \/ ReleaseStore \/ ObtainStore
  <2>1. CASE ObtainLoad
    BY <2>1 DEF ObtainLoad
  <2>2. CASE ReleaseStore
    BY <2>2 DEF ReleaseStore
  <2>3. CASE ObtainStore
    BY <2>3 DEF ObtainStore
  <2> QED BY <1>2, <2>1, <2>2, <2>3
<1>3. CASE ScanFindsNone \/ ScanFinds \/ GrantLoad \/ Grant
  <2>1. CASE ScanFindsNone \/ ScanFinds
    BY <2>1 DEF ScanFindsNone, ScanFinds
  <2>2. CASE GrantLoad
    BY <2>2 DEF GrantLoad
  <2>3. CASE Grant
    BY <2>3 DEF Grant
  <2> QED BY <1>3, <2>1, <2>2, <2>3
<1>4. CASE DrainEnds \/ \E s \in Sems : DrainSem(s)
  BY <1>4 DEF DrainEnds, DrainSem
<1>5. CASE ObtainReturns
  <2>1. block_obj[Me] \in Sems
    BY <1>5, ResumedOnSem DEF ObtainReturns, Unblock
  <2> QED BY <1>5, <2>1 DEF ObtainReturns
<1>6. ASSUME NEW s \in Sems, IsrRelease(s) PROVE SemTypes' /\ RegTypes'
  BY <1>6 DEF IsrRelease
<1>7. ASSUME NEW s \in Sems, NEW n \in Counts, pesudo_sem_create(s, n)
      PROVE  SemTypes' /\ RegTypes'
  BY <1>7 DEF pesudo_sem_create
<1>8. ASSUME NEW s \in Sems,
             pesudo_sem_delete(s) \/ pesudo_sem_clear(s) \/ ObtainTest(s) \/ ReleaseLoad(s)
      PROVE  SemTypes' /\ RegTypes'
  BY <1>8 DEF pesudo_sem_delete, pesudo_sem_clear, ObtainTest, ReleaseLoad
<1> QED BY <1>1, <1>2, <1>3, <1>4, <1>5, <1>6, <1>7, <1>8
     DEF Next, vars, KernelStep, Interrupt, SemStep, SemCall, ObtainBlocks

\* The place of the main level in the loop while it is inside a semaphore function.
LEMMA NextPcPart ==
    ASSUME SemAssumption, TypeInv, [Next]_vars
    PROVE  PcOfOp'
<1>0. PcOfOp
  BY DEF TypeInv
<1> USE <1>0 DEF PcOfOp, InTask, Load, Done, Idle, loopVars, kernelVars, semVars, regVars
<1>1. CASE UNCHANGED <<op, pc>> \/ op' = "none"
  BY <1>1
<1>2. CASE ObtainLoad \/ ReleaseStore \/ ScanFinds \/ GrantLoad
  BY <1>2 DEF ObtainLoad, ReleaseStore, ScanFinds, GrantLoad
<1>3. CASE \E s \in Sems : DrainSem(s) \/ ObtainTest(s) \/ ReleaseLoad(s)
  BY <1>3 DEF DrainSem, ObtainTest, ReleaseLoad
<1>4. CASE ObtainReturns
  BY <1>4 DEF ObtainReturns, Unblock, LeaveCall
<1> QED BY <1>1, <1>2, <1>3, <1>4
     DEF Next, vars, KernelStep, Interrupt, Tick, SemStep, SemCall, IsrRelease, ObtainStore,
         ScanFindsNone, Grant, DrainEnds, pesudo_sem_create, pesudo_sem_delete, pesudo_sem_clear,
         ObtainBlocks

\* TypeInv is an invariant.
LEMMA TypeInvAlways == Spec => []TypeInv
<1>1. Init => TypeInv
  BY SemAssumption, TasksAssumption, InitTypeInv
<1>2. TypeInv /\ [Next]_vars => TypeInv'
  BY SemAssumption, TasksAssumption, TimeAssumption, NextKernelPart, NextBlockPart, NextSemPart,
     NextPcPart
     DEF TypeInv
<1> QED BY <1>1, <1>2, PTL DEF Spec

\* The variables of the kernel and of the semaphores stay in their types: the count in
\* its 16 bits, and every function inside a semaphore that exists.
THEOREM SemTypeOK == Spec => []TypeOK
BY TypeInvAlways, TypeInvTypes, PTL

-----------------------------------------------------------------------------
(***************************************************************************)
(* No token is invented.                                                   *)
(***************************************************************************)

\* The tokens that have left a semaphore.
Paid(s) == taken[s] + Cardinality(GrantedTo(s))

FiniteGrants == \A s \in Sems : IsFiniteSet(GrantedTo(s))

\* NoTokenInvented, and what holds between the test or the load of the count and its
\* store, when an interrupt may already have changed the count.
TokensOf(s) ==
    /\ Paid(s) + count[s] <= given[s]
    /\ on = s /\ op \in {"obtain", "found"} => Paid(s) + Amount(count[s]) <= given[s]
    /\ on = s /\ op \in {"take", "grant"} => Paid(s) + Amount(loaded) <= given[s]
    /\ on = s /\ op = "give" => Paid(s) + loaded <= given[s]

Tokens == \A s \in pesudo_sem_list : TokensOf(s)

TokenInv == FiniteGrants /\ Tokens

\* TypeInv, taken apart, with the numbers as numbers.
LEMMA Numbers ==
    ASSUME SemAssumption, TypeInv, FiniteGrants
    PROVE  /\ count \in [Sems -> Count16] /\ loaded \in Count16 /\ Count16 \subseteq Nat
           /\ given \in [Sems -> Nat] /\ taken \in [Sems -> Nat] /\ isrGiven \in [Sems -> Nat]
           /\ pesudo_sem_list \subseteq Sems
           /\ op # "none" => on \in pesudo_sem_list /\ on \in Sems
           /\ \A s \in Sems : Cardinality(GrantedTo(s)) \in Nat /\ Paid(s) \in Nat
           /\ \A n \in Count16 : Amount(n) \in Nat /\ Amount(n) >= 1 /\ n <= Amount(n)
           /\ \A n \in Count16 : n > 0 => Amount(n) = n
<1>1. \A s \in Sems : Cardinality(GrantedTo(s)) \in Nat
  BY FS_CardinalityType DEF FiniteGrants
<1>2. /\ count \in [Sems -> Count16] /\ loaded \in Count16 /\ Count16 \subseteq Nat
      /\ given \in [Sems -> Nat] /\ taken \in [Sems -> Nat] /\ isrGiven \in [Sems -> Nat]
      /\ pesudo_sem_list \subseteq Sems
      /\ op # "none" => on \in pesudo_sem_list /\ on \in Sems
  BY DEF TypeInv, SemTypes, RegTypes, Count16
<1>3. \A n \in Count16 : Amount(n) \in Nat /\ Amount(n) >= 1 /\ n <= Amount(n)
                         /\ (n > 0 => Amount(n) = n)
  BY DEF SemAssumption, Count16, Amount
<1> QED BY <1>1, <1>2, <1>3 DEF Paid

\* Before any semaphore is created there is no token.
LEMMA InitTokenInv ==
    ASSUME Init
    PROVE  TokenInv
<1>1. \A s \in Sems : GrantedTo(s) = {}
  BY DEF Init, KernelInit, GrantedTo
<1>2. FiniteGrants
  BY <1>1, FS_EmptySet DEF FiniteGrants
<1> QED BY <1>2 DEF TokenInv, Tokens, Init

\* The steps of the functions that grant nothing.
LEMMA QuietTokenInv ==
    ASSUME SemAssumption, TypeInv, TokenInv, UNCHANGED <<state, block_obj>>,
           \/ UNCHANGED semVars
           \/ ObtainLoad \/ ObtainStore \/ ReleaseStore \/ ScanFindsNone \/ ScanFinds \/ GrantLoad
           \/ DrainEnds
           \/ \E s \in Sems : \/ DrainSem(s) \/ ObtainTest(s) \/ ReleaseLoad(s) \/ IsrRelease(s)
                              \/ pesudo_sem_delete(s) \/ pesudo_sem_clear(s)
    PROVE  TokenInv'
<1>0. FiniteGrants /\ Tokens
  BY DEF TokenInv
<1>1. \A s \in Sems : GrantedTo(s)' = GrantedTo(s)
  BY DEF GrantedTo
<1>2. FiniteGrants'
  BY <1>0, <1>1 DEF FiniteGrants
<1>n. /\ count \in [Sems -> Count16] /\ loaded \in Count16 /\ Count16 \subseteq Nat
      /\ given \in [Sems -> Nat] /\ taken \in [Sems -> Nat]
      /\ pesudo_sem_list \subseteq Sems
      /\ op # "none" => on \in pesudo_sem_list /\ on \in Sems
      /\ \A s \in Sems : Cardinality(GrantedTo(s)) \in Nat /\ Paid(s) \in Nat
      /\ \A n \in Count16 : Amount(n) \in Nat /\ Amount(n) >= 1 /\ n <= Amount(n)
      /\ \A n \in Count16 : n > 0 => Amount(n) = n
      /\ CountWrap \in Nat
  BY <1>0, Numbers DEF SemAssumption
<1> SUFFICES ASSUME NEW r \in pesudo_sem_list' PROVE TokensOf(r)' \/ r \notin pesudo_sem_list
  <2>1. pesudo_sem_list' \subseteq pesudo_sem_list
    BY DEF semVars, regVars, histVars, ObtainLoad, ObtainStore, ReleaseStore, ScanFindsNone,
           ScanFinds, GrantLoad, DrainEnds, DrainSem, ObtainTest, ReleaseLoad, IsrRelease,
           pesudo_sem_delete, pesudo_sem_clear
  <2> QED BY <1>2, <2>1 DEF TokenInv, Tokens
<1> SUFFICES ASSUME r \in pesudo_sem_list PROVE TokensOf(r)'
  OBVIOUS
<1> DEFINE G == Cardinality(GrantedTo(r))
<1>p. G \in Nat /\ r \in Sems /\ TokensOf(r)
      /\ Paid(r) = taken[r] + G /\ Paid(r)' = taken'[r] + G
  BY <1>0, <1>1, <1>n DEF Paid, Tokens
<1>r. /\ count[r] \in Count16 /\ count[r] \in Nat /\ taken[r] \in Nat /\ given[r] \in Nat
      /\ Amount(count[r]) \in Nat /\ count[r] <= Amount(count[r])
      /\ loaded \in Nat /\ Amount(loaded) \in Nat
  BY <1>n, <1>p
<1> HIDE DEF G
<1> USE <1>n, <1>p DEF TokensOf, Load, Store, Done, semVars, regVars, histVars, Idle
<1>3. CASE UNCHANGED semVars
  BY <1>3
<1>4. CASE ObtainLoad \/ ScanFindsNone \/ ScanFinds \/ GrantLoad
  BY <1>4 DEF ObtainLoad, ScanFindsNone, ScanFinds, GrantLoad
<1>5. CASE ObtainStore
  <2>1. count' = [count EXCEPT ![on] = Amount(loaded) - 1] /\ op = "take"
        /\ taken' = [taken EXCEPT ![on] = @ + 1] /\ op' = "none"
        /\ UNCHANGED <<pesudo_sem_list, given>>
    BY <1>5, Width DEF ObtainStore
  <2>2. CASE r = on
    BY <2>1, <2>2
  <2>3. CASE r # on
    BY <2>1, <2>3
  <2> QED BY <2>2, <2>3
<1>6. CASE ReleaseStore
  <2>1. /\ count' = [count EXCEPT ![on] = U16(loaded + 1)] /\ U16(loaded + 1) <= loaded + 1
        /\ U16(loaded + 1) \in Nat
        /\ op = "give" /\ given' = [given EXCEPT ![on] = @ + 1] /\ op' = "scan"
        /\ UNCHANGED <<pesudo_sem_list, taken>>
    BY <1>6, Width DEF ReleaseStore
  <2>2. CASE r = on
    BY <2>1, <2>2
  <2>3. CASE r # on
    BY <2>1, <2>3
  <2> QED BY <2>2, <2>3
<1>7. ASSUME NEW s \in Sems, IsrRelease(s) PROVE TokensOf(r)'
  <2>1. /\ count' = [count EXCEPT ![s] = U16(@ + 1)] /\ U16(count[s] + 1) <= count[s] + 1
        /\ U16(count[s] + 1) \in Count16
        /\ Amount(U16(count[s] + 1)) <= Amount(count[s]) + 1
        /\ given' = [given EXCEPT ![s] = @ + 1]
        /\ UNCHANGED <<pesudo_sem_list, taken, op, on, loaded>>
    <3>1. count[s] \in Count16
      OBVIOUS
    <3>2. /\ U16(count[s] + 1) <= count[s] + 1 /\ U16(count[s] + 1) \in Count16
          /\ Amount(U16(count[s] + 1)) <= Amount(count[s]) + 1
      BY ONLY SemAssumption, <3>1, Width
    <3>3. /\ count' = [count EXCEPT ![s] = U16(count[s] + 1)]
          /\ given' = [given EXCEPT ![s] = given[s] + 1]
          /\ UNCHANGED <<pesudo_sem_list, taken, op, on, loaded>>
      BY ONLY <1>7 DEF IsrRelease, regVars
    <3> QED BY ONLY <3>2, <3>3
  <2>2. CASE r = s
    <3>1. /\ count'[r] \in Nat /\ count'[r] <= count[r] + 1 /\ given'[r] = given[r] + 1
          /\ Amount(count'[r]) <= Amount(count[r]) + 1 /\ Amount(count'[r]) \in Nat
          /\ Paid(r)' = Paid(r)
      BY <1>r, <2>1, <2>2
    <3> QED BY ONLY <1>p, <1>r, <2>1, <3>1 DEF TokensOf
  <2>3. CASE r # s
    BY <2>1, <2>3
  <2> QED BY <2>2, <2>3
<1>8. CASE DrainEnds \/ \E s \in Sems : DrainSem(s)
  BY <1>8 DEF DrainEnds, DrainSem
<1>9. ASSUME NEW s \in Sems, ObtainTest(s) \/ ReleaseLoad(s) \/ pesudo_sem_delete(s)
      PROVE  TokensOf(r)'
  BY <1>9 DEF ObtainTest, ReleaseLoad, pesudo_sem_delete
<1>10. ASSUME NEW s \in Sems, pesudo_sem_clear(s) PROVE TokensOf(r)'
  <2>1. /\ count' = [count EXCEPT ![s] = 0] /\ taken' = [taken EXCEPT ![s] = @ + count[s]]
        /\ UNCHANGED <<pesudo_sem_list, given, op>> /\ op = "none"
    BY <1>10 DEF pesudo_sem_clear
  <2>2. CASE r = s
    <3>1. count'[r] = 0 /\ given'[r] = given[r]
      BY <2>1, <2>2
    <3>2. taken'[r] = taken[r] + count[r]
      BY ONLY <1>n, <1>p, <2>1, <2>2
    <3> QED BY ONLY <1>p, <1>r, <2>1, <3>1, <3>2 DEF TokensOf
  <2>3. CASE r # s
    BY <2>1, <2>3
  <2> QED BY <2>2, <2>3
<1> QED BY <1>3, <1>4, <1>5, <1>6, <1>7, <1>8, <1>9, <1>10

\* The loop and the pesudo_task_* calls give no grant.
LEMMA KernelGrantsNone ==
    ASSUME KernelInv, KernelNext, NEW s
    PROVE  GrantedTo(s)' \subseteq GrantedTo(s)
<1>1. "OBTAIN_SEM" \in (BlockingFlags \cup GrantFlags) \ {"SLEEP"}
  BY DEF BlockingFlags, GrantFlags
<1> QED BY <1>1, KernelFlags DEF GrantedTo

\* Steps that leave the semaphores alone and give no grant.
LEMMA FewerGrants ==
    ASSUME SemAssumption, TypeInv, TokenInv, UNCHANGED semVars,
           \A s \in Sems : GrantedTo(s)' \subseteq GrantedTo(s)
    PROVE  TokenInv'
<1> USE DEF semVars, regVars, histVars
<1>1. ASSUME NEW s \in Sems
      PROVE  /\ IsFiniteSet(GrantedTo(s)') /\ Cardinality(GrantedTo(s)') \in Nat
             /\ Cardinality(GrantedTo(s)') <= Cardinality(GrantedTo(s))
  <2>1. IsFiniteSet(GrantedTo(s)) /\ GrantedTo(s)' \in SUBSET GrantedTo(s)
    BY DEF TokenInv, FiniteGrants
  <2> QED BY <2>1, FS_Subset, FS_CardinalityType
<1>2. FiniteGrants'
  BY <1>1 DEF FiniteGrants
<1>3. ASSUME NEW s \in pesudo_sem_list' PROVE TokensOf(s)'
  <2>1. /\ s \in Sems /\ TokensOf(s) /\ count[s] \in Nat /\ taken[s] \in Nat /\ given[s] \in Nat
        /\ loaded \in Nat /\ Amount(loaded) \in Nat /\ Amount(count[s]) \in Nat
        /\ Cardinality(GrantedTo(s)) \in Nat
    BY Numbers DEF TokenInv, Tokens
  <2>2. Paid(s) \in Nat /\ Paid(s)' \in Nat /\ Paid(s)' <= Paid(s)
    BY <1>1, <2>1 DEF Paid
  <2>3. UNCHANGED <<count, given, loaded, op, on>>
    OBVIOUS
  <2> QED BY ONLY <2>1, <2>2, <2>3 DEF TokensOf
<1> QED BY <1>2, <1>3 DEF TokenInv, Tokens

\* A wait for a semaphore starts without a grant.
LEMMA BlocksTokenInv ==
    ASSUME SemAssumption, TypeInv, TokenInv, NEW p \in Sems, NEW ms \in Delays,
           ObtainBlocks(p, ms)
    PROVE  TokenInv'
<1>1. /\ Me \in Tasks /\ "OBTAIN_SEM" \notin state[Me]
      /\ state' = [state EXCEPT ![Me] = (@ \ {"RUNNING"}) \cup {"BLOCKED_SEM"}]
      /\ block_obj' = [block_obj EXCEPT ![Me] = p]
      /\ state \in [Tasks -> SUBSET Flags] /\ block_obj \in [Tasks -> Sems \cup {NoObj}]
  BY MeNotWaiting DEF TypeInv, BlockTypes, KernelInv, KernelTypeOK, ObtainBlocks, Block, MayBlock,
                      SaveContext, BlockedFlag
<1>2. \A s \in Sems : GrantedTo(s)' \subseteq GrantedTo(s)
  BY <1>1 DEF GrantedTo
<1> QED BY <1>2, FewerGrants DEF ObtainBlocks

\* What an obtain that returns 0 takes was on its way to the task.
LEMMA ReturnsTokenInv ==
    ASSUME SemAssumption, TypeInv, TokenInv, ObtainReturns
    PROVE  TokenInv'
<1>1. /\ Me \in Tasks /\ block_obj[Me] \in Sems
      /\ ret = "OBTAIN_SEM" <=> "OBTAIN_SEM" \in state[Me]
  BY ResumedOnSem DEF ObtainReturns, Unblock
<1>2. PICK u \in Tasks, q \in Sems : u = Me /\ q = block_obj[Me]
  BY <1>1
<1>3. /\ state' = [state EXCEPT ![u] = (@ \ {"BLOCKED_SEM", "OBTAIN_SEM"}) \cup {"RUNNING"}]
      /\ block_obj' = [block_obj EXCEPT ![u] = NoObj]
      /\ state \in [Tasks -> SUBSET Flags] /\ block_obj \in [Tasks -> Sems \cup {NoObj}]
      /\ NoObj \notin Sems
  BY <1>2, TasksAssumption
     DEF TypeInv, BlockTypes, KernelInv, KernelTypeOK, ObtainReturns, Unblock, LeaveCall,
         BlockedFlag, GrantFlag, TasksAssumption, SemAssumption
<1>4. CASE ret # "OBTAIN_SEM"
  <2>1. \A s \in Sems : GrantedTo(s)' \subseteq GrantedTo(s)
    BY <1>3 DEF GrantedTo
  <2>2. UNCHANGED semVars
    BY <1>4 DEF ObtainReturns, semVars, histVars
  <2> QED BY <2>1, <2>2, FewerGrants
<1>5. CASE ret = "OBTAIN_SEM"
  <2>1. /\ taken' = [taken EXCEPT ![q] = @ + 1]
        /\ UNCHANGED <<pesudo_sem_list, count, op, on, loaded, given>>
    BY <1>2, <1>5 DEF ObtainReturns, regVars
  <2>2. u \in GrantedTo(q) /\ \A s \in Sems : s # q => u \notin GrantedTo(s)
    BY <1>1, <1>2, <1>5 DEF GrantedTo
  <2>3. \A s \in Sems : GrantedTo(s)' = GrantedTo(s) \ {u}
    BY <1>3 DEF GrantedTo
  <2>4. ASSUME NEW s \in Sems
        PROVE  /\ IsFiniteSet(GrantedTo(s)')
               /\ taken'[s] + Cardinality(GrantedTo(s)') = taken[s] + Cardinality(GrantedTo(s))
    <3>1. IsFiniteSet(GrantedTo(s)) /\ Cardinality(GrantedTo(s)) \in Nat
          /\ taken \in [Sems -> Nat]
      BY Numbers DEF TokenInv, FiniteGrants
    <3>2. /\ IsFiniteSet(GrantedTo(s) \ {u})
          /\ Cardinality(GrantedTo(s) \ {u}) =
                IF u \in GrantedTo(s) THEN Cardinality(GrantedTo(s)) - 1
                                      ELSE Cardinality(GrantedTo(s))
      BY <3>1, FS_RemoveElement
    <3>3. u \in GrantedTo(s) <=> s = q
      BY <2>2
    <3> QED BY <2>1, <2>3, <3>1, <3>2, <3>3
  <2>5. FiniteGrants'
    BY <2>4 DEF FiniteGrants
  <2>6. ASSUME NEW s \in pesudo_sem_list' PROVE TokensOf(s)'
    <3>1. s \in Sems /\ TokensOf(s)
      BY <2>1, Numbers DEF TokenInv, Tokens
    <3>2. Paid(s)' = Paid(s)
      BY <2>4, <3>1 DEF Paid
    <3> QED BY <2>1, <3>1, <3>2 DEF TokensOf
  <2> QED BY <2>5, <2>6 DEF TokenInv, Tokens
<1> QED BY <1>4, <1>5

\* A grant is paid with a token of the semaphore.
LEMMA GrantTokenInv ==
    ASSUME SemAssumption, TypeInv, TokenInv, Grant
    PROVE  TokenInv'
<1>1. PICK w \in Tasks : /\ block_obj[w] = on
                         /\ state' = [state EXCEPT ![w] = @ \cup {"OBTAIN_SEM"}]
  BY GrantSelects
<1>2. /\ state \in [Tasks -> SUBSET Flags] /\ block_obj' = block_obj
      /\ UNCHANGED <<pesudo_sem_list, taken, given>> /\ op = "grant" /\ op' = "none"
      /\ count' = [count EXCEPT ![on] = Amount(loaded) - 1]
  <2>1. loaded \in Count16
    BY DEF TypeInv, RegTypes
  <2> QED BY <2>1, Width
          DEF TypeInv, KernelInv, KernelTypeOK, Grant, objFields, Done, Store, histVars
<1>3. PICK q \in Sems : q = on
  BY <1>2, Numbers DEF TokenInv
<1>4. GrantedTo(q)' = GrantedTo(q) \cup {w} /\ \A s \in Sems : s # q => GrantedTo(s)' = GrantedTo(s)
  BY <1>1, <1>2, <1>3 DEF GrantedTo
<1>5. \A s \in Sems : IsFiniteSet(GrantedTo(s)) /\ Cardinality(GrantedTo(s)) \in Nat
  BY Numbers DEF TokenInv, FiniteGrants
<1>6. /\ IsFiniteSet(GrantedTo(q) \cup {w})
      /\ Cardinality(GrantedTo(q) \cup {w}) \in
             {Cardinality(GrantedTo(q)), Cardinality(GrantedTo(q)) + 1}
  BY <1>5, FS_AddElement
<1>7. FiniteGrants'
  BY <1>4, <1>5, <1>6 DEF FiniteGrants
<1>8. ASSUME NEW s \in pesudo_sem_list' PROVE TokensOf(s)'
  <2>1. /\ s \in Sems /\ TokensOf(s) /\ taken[s] \in Nat /\ given[s] \in Nat
        /\ Amount(loaded) \in Nat /\ count \in [Sems -> Count16]
    BY <1>2, Numbers DEF TokenInv, Tokens
  <2>2. CASE s = q
    <3>1. Paid(s)' \in {Paid(s), Paid(s) + 1} /\ Paid(s) \in Nat
      BY <1>2, <1>4, <1>5, <1>6, <2>1, <2>2 DEF Paid
    <3>2. count'[s] = Amount(loaded) - 1 /\ given'[s] = given[s]
      BY <1>2, <1>3, <2>1, <2>2
    <3> QED BY <1>2, <1>3, <2>1, <2>2, <3>1, <3>2 DEF TokensOf
  <2>3. CASE s # q
    <3>1. Paid(s)' = Paid(s) /\ count'[s] = count[s]
      BY <1>2, <1>3, <1>4, <2>1, <2>3 DEF Paid
    <3> QED BY <1>2, <2>1, <3>1 DEF TokensOf
  <2> QED BY <2>2, <2>3
<1> QED BY <1>7, <1>8 DEF TokenInv, Tokens

\* A semaphore is created with the tokens it is given.
LEMMA CreateTokenInv ==
    ASSUME SemAssumption, TypeInv, TokenInv, NEW q \in Sems, NEW n \in Counts,
           pesudo_sem_create(q, n)
    PROVE  TokenInv'
<1>1. /\ pesudo_sem_list' = pesudo_sem_list \cup {q}
      /\ count' = [count EXCEPT ![q] = U16(n)] /\ given' = [given EXCEPT ![q] = n]
      /\ taken' = [taken EXCEPT ![q] = 0] /\ op = "none" /\ op' = "none"
      /\ state' = state /\ block_obj' = block_obj
      /\ \A t \in Tasks : block_obj[t] # q
  BY DEF pesudo_sem_create, Idle, regVars, kernelVars, objFields
<1>2. n \in Nat /\ U16(n) <= n /\ U16(n) \in Count16 /\ Count16 \subseteq Nat
  BY Width DEF SemAssumption, Count16
<1>3. \A s \in Sems : GrantedTo(s)' = GrantedTo(s)
  BY <1>1 DEF GrantedTo
<1>4. FiniteGrants'
  BY <1>3 DEF TokenInv, FiniteGrants
<1>5. ASSUME NEW s \in pesudo_sem_list' PROVE TokensOf(s)'
  <2>1. /\ count \in [Sems -> Count16] /\ given \in [Sems -> Nat] /\ taken \in [Sems -> Nat]
        /\ s \in Sems
    BY <1>1, Numbers DEF TokenInv
  <2>2. CASE s = q
    <3>1. GrantedTo(q) = {}
      BY <1>1 DEF GrantedTo
    <3>2. Paid(s)' = 0 /\ count'[s] = U16(n) /\ given'[s] = n
      BY <1>1, <1>3, <2>1, <2>2, <3>1, FS_EmptySet DEF Paid
    <3>3. U16(n) \in Nat
      BY <1>2
    <3> QED BY ONLY <1>1, <1>2, <3>2, <3>3 DEF TokensOf
  <2>3. CASE s # q
    <3>1. TokensOf(s)
      BY <1>1, <2>3 DEF TokenInv, Tokens
    <3>2. Paid(s)' = Paid(s) /\ count'[s] = count[s] /\ given'[s] = given[s]
      BY <1>1, <1>3, <2>1, <2>3 DEF Paid
    <3> QED BY <1>1, <3>1, <3>2 DEF TokensOf
  <2> QED BY <2>2, <2>3
<1> QED BY <1>4, <1>5 DEF TokenInv, Tokens

\* Every step preserves TokenInv.
LEMMA NextTokenInv ==
    ASSUME SemAssumption, TypeInv, TokenInv, [Next]_vars
    PROVE  TokenInv'
<1>1. CASE KernelNext /\ UNCHANGED semVars
  BY <1>1, KernelGrantsNone, FewerGrants DEF TypeInv
<1>2. CASE ObtainReturns \/ Grant
  BY <1>2, ReturnsTokenInv, GrantTokenInv
<1>3. CASE \E s \in Sems : \/ \E n \in Counts : pesudo_sem_create(s, n)
                           \/ \E ms \in Delays : ObtainBlocks(s, ms)
  BY <1>3, CreateTokenInv, BlocksTokenInv
<1>4. ASSUME UNCHANGED <<state, block_obj>>,
           \/ UNCHANGED semVars
           \/ ObtainLoad \/ ObtainStore \/ ReleaseStore \/ ScanFindsNone \/ ScanFinds \/ GrantLoad
           \/ DrainEnds
           \/ \E s \in Sems : \/ DrainSem(s) \/ ObtainTest(s) \/ ReleaseLoad(s) \/ IsrRelease(s)
                              \/ pesudo_sem_delete(s) \/ pesudo_sem_clear(s)
      PROVE  TokenInv'
  BY <1>4, QuietTokenInv
<1> USE DEF kernelVars, objFields
<1>5. CASE UNCHANGED vars
  BY <1>4, <1>5 DEF vars
<1>6. CASE KernelStep \/ Interrupt
  BY <1>1, <1>4, <1>6 DEF KernelStep, Interrupt, KernelNext, IsrRelease
<1>7. CASE SemStep
  BY <1>2, <1>4, <1>7
     DEF SemStep, ObtainLoad, ObtainStore, ReleaseStore, ScanFindsNone, ScanFinds, GrantLoad,
         DrainEnds, StartPass, DrainSem
<1>8. CASE SemCall
  BY <1>3, <1>4, <1>8
     DEF SemCall, ObtainTest, ReleaseLoad, pesudo_sem_delete, pesudo_sem_clear
<1> QED BY <1>5, <1>6, <1>7, <1>8 DEF Next

\* Releases and obtains never give out more tokens than were put in, wherever an
\* interrupt comes between the load and the store of the count, and though the count
\* wraps at 16 bits.
THEOREM TokensAreReal == Spec => []NoTokenInvented
<1>1. Init => TokenInv
  BY InitTokenInv
<1>2. TypeInv /\ TokenInv /\ [Next]_vars => TokenInv'
  BY SemAssumption, NextTokenInv
<1>3. TokenInv => NoTokenInvented
  BY DEF TokenInv, Tokens, TokensOf, NoTokenInvented, Accounted, Paid
<1> QED BY <1>1, <1>2, <1>3, TypeInvAlways, PTL DEF Spec

-----------------------------------------------------------------------------
(***************************************************************************)
(* The tokens reach the waiters.                                           *)
(***************************************************************************)

Waits(s) == Opt[s] \in {"FIFO", "LIFO"} /\ Waiting("SEM", s) # {}

\* The token that a release has put in and its scan has not given to a waiter yet.
Pending(s) == IF on = s /\ op \in {"scan", "found", "grant"} THEN 1 ELSE 0

\* TokensReachWaiters, and what holds between the test or the load of the count and its
\* store.
LeftOf(s) ==
    /\ count[s] <= isrGiven[s] + Pending(s)
    /\ on = s /\ op \in {"obtain", "found"} => Amount(count[s]) <= isrGiven[s] + Pending(s)
    /\ on = s /\ op \in {"take", "grant"} => Amount(loaded) <= isrGiven[s] + Pending(s)
    /\ on = s /\ op = "give" => loaded <= isrGiven[s]

Reached == \A s \in pesudo_sem_list : Waits(s) => LeftOf(s)

ReachInv == BlockedInPast /\ Reached

\* Before any semaphore is created nobody waits.
LEMMA InitReachInv ==
    ASSUME Init
    PROVE  ReachInv
  BY DEF Init, KernelInit, ReachInv, BlockedInPast, Reached

\* The steps of the functions that leave the waiters alone.
LEMMA QuietReached ==
    ASSUME SemAssumption, TypeInv, ReachInv, FiniteGrants,
           \A s \in Sems : Waiting("SEM", s)' = Waiting("SEM", s),
           \/ UNCHANGED semVars
           \/ ObtainLoad \/ ObtainStore \/ ReleaseStore \/ ScanFindsNone \/ ScanFinds \/ GrantLoad
           \/ Grant \/ DrainEnds
           \/ \E s \in Sems : \/ DrainSem(s) \/ ObtainTest(s) \/ ReleaseLoad(s) \/ IsrRelease(s)
                              \/ pesudo_sem_delete(s) \/ pesudo_sem_clear(s)
    PROVE  Reached'
<1>n. /\ count \in [Sems -> Count16] /\ loaded \in Count16 /\ Count16 \subseteq Nat
      /\ isrGiven \in [Sems -> Nat] /\ pesudo_sem_list \subseteq Sems
      /\ op # "none" => on \in pesudo_sem_list /\ on \in Sems
      /\ \A n \in Count16 : Amount(n) \in Nat /\ Amount(n) >= 1 /\ n <= Amount(n)
      /\ \A n \in Count16 : n > 0 => Amount(n) = n
  BY Numbers
<1>l. pesudo_sem_list' \subseteq pesudo_sem_list
  BY DEF semVars, regVars, histVars, ObtainLoad, ObtainStore, ReleaseStore, ScanFindsNone,
         ScanFinds, GrantLoad, Grant, DrainEnds, DrainSem, ObtainTest, ReleaseLoad, IsrRelease,
         pesudo_sem_delete, pesudo_sem_clear
<1> SUFFICES ASSUME NEW r \in pesudo_sem_list, Waits(r) PROVE LeftOf(r)'
  <2>1. \A s \in Sems : Waits(s)' <=> Waits(s)
    BY DEF Waits
  <2> QED BY <1>n, <1>l, <2>1 DEF Reached
<1>p. r \in Sems /\ LeftOf(r)
  BY <1>n DEF ReachInv, Reached
<1>r. /\ count[r] \in Count16 /\ count[r] \in Nat /\ isrGiven[r] \in Nat
      /\ Amount(count[r]) \in Nat /\ count[r] <= Amount(count[r])
      /\ count[r] > 0 => Amount(count[r]) = count[r]
      /\ loaded \in Nat /\ Amount(loaded) \in Nat
  BY <1>n, <1>p
<1> USE <1>n, <1>p, <1>r DEF LeftOf, Pending, Load, Store, Done, semVars, regVars, histVars, Idle
<1>1. CASE UNCHANGED semVars
  BY <1>1
<1>2. CASE ObtainLoad \/ ScanFinds \/ GrantLoad
  BY <1>2 DEF ObtainLoad, ScanFinds, GrantLoad
<1>3. CASE ScanFindsNone
  <2>1. CASE on = r
    <3>1. Waiting("SEM", r) \in SUBSET Linked /\ Waiting("SEM", r) # {} /\ KernelTypeOK
      BY DEF Waiting, Waits, TypeInv, KernelInv
    <3>2. Selected(Opt[r], Waiting("SEM", r)) # {}
      BY <3>1, SelectedExists DEF ReachInv, Waits
    <3>3. count[r] = 0 /\ op' = "none" /\ count' = count /\ isrGiven' = isrGiven
      BY <1>3, <2>1, <3>2 DEF ScanFindsNone
    <3> QED BY <3>3
  <2>2. CASE on # r
    BY <1>3, <2>2 DEF ScanFindsNone
  <2> QED BY <2>1, <2>2
<1>4. CASE ObtainStore \/ Grant
  <2>1. /\ count' = [count EXCEPT ![on] = Amount(loaded) - 1] /\ op \in {"take", "grant"}
        /\ op' = "none" /\ isrGiven' = isrGiven
    BY <1>4, Width DEF ObtainStore, Grant
  <2>2. CASE r = on
    BY <2>1, <2>2
  <2>3. CASE r # on
    BY <2>1, <2>3
  <2> QED BY <2>2, <2>3
<1>5. CASE ReleaseStore
  <2>1. /\ count' = [count EXCEPT ![on] = U16(loaded + 1)] /\ U16(loaded + 1) <= loaded + 1
        /\ U16(loaded + 1) \in Count16
        /\ op = "give" /\ op' = "scan" /\ UNCHANGED <<on, isrGiven>>
    BY <1>5, Width DEF ReleaseStore
  <2>2. CASE r = on
    <3>1. /\ count'[r] <= loaded + 1 /\ count'[r] \in Nat /\ isrGiven'[r] = isrGiven[r]
          /\ loaded <= isrGiven[r] /\ on' = r /\ op' = "scan"
      BY <2>1, <2>2
    <3> QED BY ONLY <1>r, <3>1 DEF LeftOf, Pending
  <2>3. CASE r # on
    BY <2>1, <2>3
  <2> QED BY <2>2, <2>3
<1>6. ASSUME NEW s \in Sems, IsrRelease(s) PROVE LeftOf(r)'
  <2>1. /\ count' = [count EXCEPT ![s] = U16(@ + 1)]
        /\ isrGiven' = [isrGiven EXCEPT ![s] = @ + 1]
        /\ UNCHANGED <<op, on, loaded>>
    BY <1>6 DEF IsrRelease
  <2>2. CASE r = s
    <3>1. /\ U16(count[r] + 1) \in Count16 /\ U16(count[r] + 1) <= count[r] + 1
          /\ Amount(U16(count[r] + 1)) <= Amount(count[r]) + 1
      BY ONLY SemAssumption, <1>r, Width
    <3>2. /\ count'[r] \in Nat /\ count'[r] <= count[r] + 1 /\ isrGiven'[r] = isrGiven[r] + 1
          /\ Amount(count'[r]) <= Amount(count[r]) + 1 /\ Amount(count'[r]) \in Nat
      BY <2>1, <2>2, <3>1
    <3> QED BY ONLY <1>p, <1>r, <2>1, <3>2 DEF LeftOf, Pending
  <2>3. CASE r # s
    BY <2>1, <2>3
  <2> QED BY <2>2, <2>3
<1>7. CASE DrainEnds \/ \E s \in Sems : DrainSem(s)
  BY <1>7 DEF DrainEnds, DrainSem
<1>8. ASSUME NEW s \in Sems, ObtainTest(s) \/ ReleaseLoad(s) \/ pesudo_sem_delete(s)
      PROVE  LeftOf(r)'
  BY <1>8 DEF ObtainTest, ReleaseLoad, pesudo_sem_delete
<1>9. ASSUME NEW s \in Sems, pesudo_sem_clear(s) PROVE LeftOf(r)'
  BY <1>9 DEF pesudo_sem_clear
<1> QED BY <1>1, <1>2, <1>3, <1>4, <1>5, <1>6, <1>7, <1>8, <1>9

\* Steps that leave the semaphores alone and only let tasks give up waiting.
LEMMA FewerWaiters ==
    ASSUME TypeInv, Reached, UNCHANGED <<pesudo_sem_list, count, op, on, loaded, isrGiven>>,
           \A s \in Sems : Waiting("SEM", s)' \subseteq Waiting("SEM", s)
    PROVE  Reached'
<1>1. ASSUME NEW s \in pesudo_sem_list', Waits(s)'
      PROVE  LeftOf(s)'
  <2>1. s \in pesudo_sem_list /\ s \in Sems
    BY DEF TypeInv, SemTypes
  <2>2. LeftOf(s)
    BY <1>1, <2>1 DEF Reached, Waits
  <2> QED BY <2>2 DEF LeftOf, Pending
<1> QED BY <1>1 DEF Reached

\* The steps that change who waits, and creation.
LEMMA WaiterReached ==
    ASSUME SemAssumption, TasksAssumption, TypeInv, ReachInv, FiniteGrants, NEW p \in Sems,
           \/ \E ms \in Delays : ObtainBlocks(p, ms)
           \/ ObtainReturns
           \/ \E n \in Counts : pesudo_sem_create(p, n)
    PROVE  Reached'
<1>0. /\ state \in [Tasks -> SUBSET Flags] /\ block_obj \in [Tasks -> Sems \cup {NoObj}]
      /\ Linked \subseteq Tasks /\ NoObj \notin Sems /\ Reached /\ KernelInv
  BY LinkedAreTasks
     DEF TypeInv, KernelInv, KernelTypeOK, BlockTypes, TasksAssumption, SemAssumption, ReachInv
<1>n. /\ count \in [Sems -> Count16] /\ isrGiven \in [Sems -> Nat] /\ pesudo_sem_list \subseteq Sems
      /\ Count16 \subseteq Nat
  BY Numbers
<1>1. ASSUME NEW ms \in Delays, ObtainBlocks(p, ms) PROVE Reached'
  <2>1. /\ Me \in Tasks /\ list' = list /\ op = "none" /\ count[p] = 0
        /\ state' = [state EXCEPT ![Me] = (@ \ {"RUNNING"}) \cup {"BLOCKED_SEM"}]
        /\ block_obj' = [block_obj EXCEPT ![Me] = p]
        /\ UNCHANGED <<pesudo_sem_list, count, op, on, loaded, isrGiven>>
    BY <1>0, <1>1, MeNotWaiting
       DEF ObtainBlocks, Block, MayBlock, SaveContext, BlockedFlag, semVars, regVars, histVars,
           Idle
  <2>2. \A s \in Sems : s # p => Waiting("SEM", s)' \subseteq Waiting("SEM", s)
    BY <1>0, <2>1 DEF Waiting, Linked, BlockedFlag
  <2>3. ASSUME NEW s \in pesudo_sem_list', Waits(s)'
        PROVE  LeftOf(s)'
    <3>1. CASE s = p
      BY <1>n, <2>1, <3>1 DEF LeftOf, Pending
    <3>2. CASE s # p
      <4>1. s \in pesudo_sem_list /\ Waits(s)
        BY <1>n, <2>1, <2>2, <2>3, <3>2 DEF Waits
      <4> QED BY <1>0, <2>1, <4>1 DEF LeftOf, Pending, Reached
    <3> QED BY <3>1, <3>2
  <2> QED BY <2>3 DEF Reached
<1>2. CASE ObtainReturns
  <2>1. PICK u \in Tasks : u = Me
    BY <1>2, ResumedOnSem DEF ObtainReturns, Unblock
  <2>2. /\ state' = [state EXCEPT ![u] = (@ \ {"BLOCKED_SEM", "OBTAIN_SEM"}) \cup {"RUNNING"}]
        /\ block_obj' = [block_obj EXCEPT ![u] = NoObj] /\ list' = list
        /\ UNCHANGED <<pesudo_sem_list, count, op, on, loaded, isrGiven>>
    BY <1>2, <2>1 DEF ObtainReturns, Unblock, LeaveCall, BlockedFlag, GrantFlag, regVars
  <2>3. \A s \in Sems : Waiting("SEM", s)' \subseteq Waiting("SEM", s)
    BY <1>0, <2>2 DEF Waiting, Linked, BlockedFlag
  <2> QED BY <1>0, <2>2, <2>3, FewerWaiters
<1>3. ASSUME NEW n \in Counts, pesudo_sem_create(p, n) PROVE Reached'
  <2>1. /\ pesudo_sem_list' = pesudo_sem_list \cup {p} /\ op = "none"
        /\ count' = [count EXCEPT ![p] = U16(n)] /\ isrGiven' = [isrGiven EXCEPT ![p] = 0]
        /\ \A t \in Tasks : block_obj[t] # p
        /\ UNCHANGED <<list, state, block_obj, op, on, loaded>>
    BY <1>3 DEF pesudo_sem_create, kernelVars, objFields, regVars, Idle
  <2>2. \A s \in Sems : Waiting("SEM", s)' = Waiting("SEM", s)
    BY <2>1 DEF Waiting, Linked
  <2>3. Waiting("SEM", p) = {}
    BY <1>0, <2>1 DEF Waiting
  <2>4. ASSUME NEW s \in pesudo_sem_list', Waits(s)'
        PROVE  LeftOf(s)'
    <3>1. s # p /\ s \in pesudo_sem_list /\ Waits(s)
      BY <1>n, <2>1, <2>2, <2>3, <2>4 DEF Waits
    <3> QED BY <1>0, <1>n, <2>1, <3>1 DEF LeftOf, Pending, Reached
  <2> QED BY <2>4 DEF Reached
<1> QED BY <1>1, <1>2, <1>3

\* Every step preserves ReachInv.
LEMMA NextReachInv ==
    ASSUME SemAssumption, TasksAssumption, TypeInv, FiniteGrants, ReachInv, [Next]_vars
    PROVE  ReachInv'
<1>0. /\ KernelInv /\ BlockedInPast /\ Reached /\ "SEM" \in Kinds /\ Sems \subseteq Objects
      /\ Timers = {} /\ state \in [Tasks -> SUBSET Flags] /\ Linked \subseteq Tasks
  BY LinkedAreTasks DEF TypeInv, ReachInv, Kinds, SemAssumption, KernelInv, KernelTypeOK
<1>1. CASE KernelNext /\ UNCHANGED semVars
  <2>1. \A s \in Sems : Waiting("SEM", s)' \subseteq Waiting("SEM", s)
    BY <1>0, <1>1, KernelWaiters DEF Waiting
  <2>2. BlockedInPast'
    BY <1>0, <1>1, KernelBlockedInPast
  <2>3. UNCHANGED <<pesudo_sem_list, count, op, on, loaded, isrGiven>>
    BY <1>1 DEF semVars, regVars, histVars
  <2> QED BY <1>0, <2>1, <2>2, <2>3, FewerWaiters DEF ReachInv
<1>2. ASSUME NEW p \in Sems,
             \/ \E ms \in Delays : ObtainBlocks(p, ms)
             \/ ObtainReturns
             \/ \E n \in Counts : pesudo_sem_create(p, n)
      PROVE  ReachInv'
  <2>1. BlockedInPast'
    <3>1. CASE UNCHANGED kernelVars
      BY <1>0, <3>1 DEF BlockedInPast, kernelVars, objFields
    <3>2. CASE Unblock("SEM") \/ \E ms \in Delays : Block("SEM", p, ms)
      BY <1>0, <3>2, BlockUnblockInPast
    <3> QED BY <1>2, <3>1, <3>2 DEF ObtainBlocks, ObtainReturns, pesudo_sem_create
  <2> QED BY <1>2, <2>1, WaiterReached DEF ReachInv
<1>3. ASSUME UNCHANGED <<list, block_obj, block_when, now>>,
             state' = state \/ Grant,
             \/ UNCHANGED semVars
             \/ ObtainLoad \/ ObtainStore \/ ReleaseStore \/ ScanFindsNone \/ ScanFinds
             \/ GrantLoad \/ Grant \/ DrainEnds
             \/ \E s \in Sems : \/ DrainSem(s) \/ ObtainTest(s) \/ ReleaseLoad(s) \/ IsrRelease(s)
                                \/ pesudo_sem_delete(s) \/ pesudo_sem_clear(s)
      PROVE  ReachInv'
  <2>1. \A t \in Tasks : "BLOCKED_SEM" \in state'[t] <=> "BLOCKED_SEM" \in state[t]
    BY <1>0, <1>3, GrantSelects
  <2>2. \A s \in Sems : Waiting("SEM", s)' = Waiting("SEM", s)
    BY <1>0, <1>3, <2>1 DEF Waiting, Linked, BlockedFlag
  <2>3. BlockedInPast'
    BY <1>0, <1>3 DEF BlockedInPast
  <2> QED BY <1>3, <2>2, <2>3, QuietReached DEF ReachInv
<1> USE DEF kernelVars, objFields
<1>4. CASE UNCHANGED vars
  BY <1>3, <1>4 DEF vars
<1>5. CASE KernelStep \/ Interrupt
  BY <1>1, <1>3, <1>5 DEF KernelStep, Interrupt, KernelNext, IsrRelease
<1>6. CASE SemStep
  <2>1. CASE ObtainReturns
    <3>1. \E p \in Sems : p = block_obj[Me]
      BY <2>1, ResumedOnSem DEF ObtainReturns, Unblock
    <3> QED BY <1>2, <2>1, <3>1
  <2>2. CASE ~ObtainReturns
    BY <1>3, <1>6, <2>2
       DEF SemStep, ObtainLoad, ObtainStore, ReleaseStore, ScanFindsNone, ScanFinds, GrantLoad,
           Grant, DrainEnds, StartPass, DrainSem
  <2> QED BY <2>1, <2>2
<1>7. CASE SemCall
  <2>1. PICK p \in Sems :
          \/ \E n \in Counts : pesudo_sem_create(p, n)
          \/ \E ms \in Delays : ObtainBlocks(p, ms)
          \/ ObtainTest(p) \/ ReleaseLoad(p) \/ pesudo_sem_delete(p) \/ pesudo_sem_clear(p)
    BY <1>7 DEF SemCall
  <2>2. CASE ObtainTest(p) \/ ReleaseLoad(p) \/ pesudo_sem_delete(p) \/ pesudo_sem_clear(p)
    BY <1>3, <2>2 DEF ObtainTest, ReleaseLoad, pesudo_sem_delete, pesudo_sem_clear
  <2> QED BY <1>2, <2>1, <2>2
<1> QED BY <1>4, <1>5, <1>6, <1>7 DEF Next

\* While a task waits, the tokens that lie in a semaphore are ones interrupts released:
\* a task's release always finds the waiter it has to give its token to.
THEOREM ReleasesReachWaiters == Spec => []TokensReachWaiters
<1>1. Init => TokenInv /\ ReachInv
  BY InitTokenInv, InitReachInv
<1>2. TypeInv /\ TokenInv /\ ReachInv /\ [Next]_vars => TokenInv' /\ ReachInv'
  BY SemAssumption, TasksAssumption, NextTokenInv, NextReachInv DEF TokenInv
<1>3. ReachInv /\ TypeInv => TokensReachWaiters
  <2> SUFFICES ASSUME ReachInv, TypeInv, NEW s \in pesudo_sem_list, Idle, Waits(s)
               PROVE  count[s] <= isrGiven[s]
    BY DEF TokensReachWaiters, Waits
  <2>1. LeftOf(s) /\ isrGiven[s] \in Nat /\ op = "none"
    BY DEF ReachInv, Reached, TypeInv, SemTypes, Idle
  <2> QED BY <2>1 DEF LeftOf, Pending
<1> QED BY <1>1, <1>2, <1>3, TypeInvAlways, PTL DEF Spec

-----------------------------------------------------------------------------
(***************************************************************************)
(* No token is lost without a reason.                                      *)
(***************************************************************************)

\* A task that was granted a token has not been unlinked: the memory of a deleted task,
\* which a new task may get, holds no grant.
GrantsLinked == \A t \in Tasks : "OBTAIN_SEM" \in state[t] => t \in Linked

\* No task is granted a token at boot.
LEMMA InitGrantsLinked == Init => GrantsLinked
  BY DEF Init, KernelInit, GrantsLinked

\* The loop and the pesudo_task_* calls leave every grant where it is.
LEMMA KernelGrants ==
    ASSUME KernelInv, GrantsLinked, KernelNext
    PROVE  GrantsLinked' /\ \A s \in Sems : GrantedTo(s)' = GrantedTo(s)
<1>1. "OBTAIN_SEM" \in GrantFlags /\ "OBTAIN_SEM" \in (BlockingFlags \cup GrantFlags) \ {"SLEEP"}
  BY DEF BlockingFlags, GrantFlags
<1>2. ASSUME NEW t \in Tasks, "OBTAIN_SEM" \in state[t]
      PROVE  "OBTAIN_SEM" \in state'[t] /\ block_obj'[t] = block_obj[t] /\ t \in Linked'
  BY <1>1, <1>2, KernelKeepsGrants DEF GrantsLinked
<1>3. ASSUME NEW t \in Tasks, "OBTAIN_SEM" \in state'[t]
      PROVE  "OBTAIN_SEM" \in state[t] /\ block_obj'[t] = block_obj[t]
  BY <1>1, <1>3, KernelFlags
<1> QED BY <1>2, <1>3 DEF GrantsLinked, GrantedTo

\* Every step keeps the granted tasks linked.
LEMMA NextGrantsLinked ==
    ASSUME SemAssumption, TypeInv, GrantsLinked, [Next]_vars
    PROVE  GrantsLinked'
<1>0. /\ KernelInv /\ state \in [Tasks -> SUBSET Flags]
  BY DEF TypeInv, KernelInv, KernelTypeOK
<1>1. CASE KernelNext
  BY <1>0, <1>1, KernelGrants
<1>2. CASE \E s \in Sems, ms \in Delays : ObtainBlocks(s, ms)
  <2>1. list' = list /\ state' = [state EXCEPT ![Me] = (@ \ {"RUNNING"}) \cup {"BLOCKED_SEM"}]
    BY <1>2 DEF ObtainBlocks, Block, SaveContext, BlockedFlag
  <2> QED BY <1>0, <2>1 DEF GrantsLinked, Linked
<1>3. CASE ObtainReturns
  <2>1. /\ list' = list
        /\ state' = [state EXCEPT ![Me] = (@ \ {"BLOCKED_SEM", "OBTAIN_SEM"}) \cup {"RUNNING"}]
    BY <1>3 DEF ObtainReturns, Unblock, LeaveCall, BlockedFlag, GrantFlag
  <2> QED BY <1>0, <2>1 DEF GrantsLinked, Linked
<1>4. CASE Grant
  <2>1. PICK w \in Tasks : w \in Linked /\ state' = [state EXCEPT ![w] = @ \cup {"OBTAIN_SEM"}]
    BY <1>4, GrantSelects
  <2>2. list' = list
    BY <1>4 DEF Grant
  <2> QED BY <1>0, <2>1, <2>2 DEF GrantsLinked, Linked
<1>5. CASE UNCHANGED <<list, state>>
  BY <1>5 DEF GrantsLinked, Linked
<1> QED BY <1>1, <1>2, <1>3, <1>4, <1>5
     DEF Next, vars, kernelVars, KernelStep, KernelNext, Interrupt, IsrRelease, SemStep, SemCall,
         ObtainLoad, ObtainStore, ReleaseStore, ScanFindsNone, ScanFinds, GrantLoad, DrainEnds,
         StartPass, DrainSem, pesudo_sem_create, pesudo_sem_delete, pesudo_sem_clear, ObtainTest,
         ReleaseLoad

\* A step may lose a token of s only for a known reason.
NoLoss(s) == Missing(s)' > Missing(s) => LossIsKnown(s)

\* The numbers of a semaphore, from the invariants.
LEMMA LossNumbers ==
    ASSUME SemAssumption, TypeInv, FiniteGrants, NEW s \in Sems
    PROVE  /\ given[s] \in Nat /\ taken[s] \in Nat /\ count[s] \in Nat /\ count[s] \in Count16
           /\ Cardinality(GrantedTo(s)) \in Nat
           /\ Missing(s) = given[s] - (taken[s] + Cardinality(GrantedTo(s)) + count[s])
           /\ loaded \in Count16 /\ loaded \in Nat /\ CountWrap \in Nat
           /\ IsFiniteSet(GrantedTo(s))
<1>1. /\ count \in [Sems -> Count16] /\ loaded \in Count16 /\ Count16 \subseteq Nat
      /\ given \in [Sems -> Nat] /\ taken \in [Sems -> Nat]
      /\ Cardinality(GrantedTo(s)) \in Nat
  BY Numbers
<1>2. Missing(s) = given[s] - (taken[s] + Cardinality(GrantedTo(s)) + count[s])
  BY DEF Missing, Accounted
<1> QED BY <1>1, <1>2 DEF SemAssumption, FiniteGrants

\* A step that leaves the tasks and the grants alone, and moves tokens from the count to
\* those taken or puts one in.
LEMMA MovesKeepTokens ==
    ASSUME SemAssumption, TypeInv, FiniteGrants, NEW s \in Sems,
           GrantedTo(s)' = GrantedTo(s),
           NEW d \in Nat, NEW g \in Nat,
           taken'[s] = taken[s] + d, given'[s] = given[s] + g,
           count'[s] \in Nat, count'[s] >= count[s] + g - d
    PROVE  NoLoss(s)
<1> DEFINE c == count'[s]
           G == Cardinality(GrantedTo(s))
<1>1. /\ given[s] \in Nat /\ taken[s] \in Nat /\ count[s] \in Nat /\ G \in Nat
      /\ Missing(s) = given[s] - (taken[s] + G + count[s])
  BY LossNumbers
<1>2. Missing(s)' = (given[s] + g) - ((taken[s] + d) + G + c)
  BY DEF Missing, Accounted
<1>3. c \in Nat /\ c >= count[s] + g - d
  OBVIOUS
<1> HIDE DEF c, G
<1>4. ~(Missing(s)' > Missing(s))
  BY <1>1, <1>2, <1>3
<1> QED BY <1>4 DEF NoLoss

\* A count that does not wrap is incremented by one.
LEMMA NoWrap ==
    ASSUME SemAssumption, NEW n \in Count16, n # CountWrap - 1
    PROVE  U16(n + 1) = n + 1
<1>1. CountWrap \in Nat \ {0} /\ n \in Nat /\ n + 1 < CountWrap
  BY DEF SemAssumption, Count16
<1> QED BY <1>1 DEF U16

\* The steps that leave every task as it is.
LEMMA QuietLosses ==
    ASSUME SemAssumption, TypeInv, FiniteGrants, UNCHANGED <<state, block_obj>>,
           NEW s \in pesudo_sem_list \cap pesudo_sem_list',
           \/ UNCHANGED semVars
           \/ ObtainLoad \/ ObtainStore \/ ReleaseStore \/ ScanFindsNone \/ ScanFinds \/ GrantLoad
           \/ DrainEnds
           \/ \E q \in Sems : \/ DrainSem(q) \/ ObtainTest(q) \/ ReleaseLoad(q) \/ IsrRelease(q)
                              \/ pesudo_sem_delete(q) \/ pesudo_sem_clear(q)
                              \/ \E n \in Counts : pesudo_sem_create(q, n)
    PROVE  NoLoss(s)
<1>1. GrantedTo(s)' = GrantedTo(s)
  BY DEF GrantedTo
<1>2. s \in Sems
  BY DEF TypeInv, SemTypes
<1>3. /\ given[s] \in Nat /\ taken[s] \in Nat /\ count[s] \in Nat /\ count[s] \in Count16
      /\ loaded \in Count16 /\ loaded \in Nat /\ CountWrap \in Nat
  BY <1>2, LossNumbers
<1>4. /\ count \in [Sems -> Count16] /\ given \in [Sems -> Nat] /\ taken \in [Sems -> Nat]
      /\ op # "none" => on \in Sems
  BY Numbers
<1>5. ASSUME taken'[s] = taken[s], given'[s] = given[s], count'[s] = count[s]
      PROVE  NoLoss(s)
  BY <1>1, <1>2, <1>3, <1>5, MovesKeepTokens
<1>6. ASSUME NEW n \in Count16, count'[s] = U16(n + 1), n = count[s],
             given'[s] = given[s] + 1, taken'[s] = taken[s]
      PROVE  NoLoss(s)
  <2>1. CASE n = CountWrap - 1
    BY <1>3, <1>6, <2>1 DEF NoLoss, LossIsKnown
  <2>2. CASE n # CountWrap - 1
    <3>1. count'[s] = count[s] + 1
      BY <1>6, <2>2, NoWrap
    <3>2. count'[s] \in Nat /\ count'[s] >= count[s] + 1 - 0 /\ taken'[s] = taken[s] + 0
      BY <1>3, <1>6, <3>1
    <3> QED BY <1>1, <1>2, <1>6, <3>2, MovesKeepTokens
  <2> QED BY <2>1, <2>2
<1> USE DEF semVars, regVars, histVars, Load, Store, Done
<1>7. CASE \/ UNCHANGED semVars \/ ObtainLoad \/ ScanFindsNone \/ ScanFinds \/ GrantLoad
           \/ DrainEnds
           \/ \E q \in Sems : DrainSem(q) \/ ObtainTest(q) \/ ReleaseLoad(q) \/ pesudo_sem_delete(q)
  BY <1>5, <1>7 DEF ObtainLoad, ScanFindsNone, ScanFinds, GrantLoad, DrainEnds, DrainSem,
                    ObtainTest, ReleaseLoad, pesudo_sem_delete
<1>8. CASE ObtainStore
  <2>1. /\ count' = [count EXCEPT ![on] = Amount(loaded) - 1] /\ op = "take"
        /\ taken' = [taken EXCEPT ![on] = @ + 1] /\ UNCHANGED given
    BY <1>3, <1>8, Width DEF ObtainStore
  <2>2. CASE s = on /\ loaded = count[s]
    <3>1. Amount(loaded) \in Nat /\ Amount(loaded) >= 1 /\ loaded <= Amount(loaded)
      BY <1>3, Numbers
    <3>2. taken'[s] = taken[s] + 1 /\ given'[s] = given[s] + 0 /\ count'[s] = Amount(loaded) - 1
      BY <1>2, <1>3, <1>4, <2>1, <2>2
    <3>3. count'[s] \in Nat /\ count'[s] >= count[s] + 0 - 1
      BY <1>3, <2>2, <3>1, <3>2
    <3> QED BY <1>1, <1>2, <3>2, <3>3, MovesKeepTokens
  <2>3. CASE s # on
    BY <1>4, <1>5, <2>1, <2>3
  <2>4. CASE s = on /\ loaded # count[s]
    BY <2>1, <2>4 DEF NoLoss, LossIsKnown
  <2> QED BY <2>2, <2>3, <2>4
<1>9. CASE ReleaseStore
  <2>1. /\ count' = [count EXCEPT ![on] = U16(loaded + 1)] /\ op = "give"
        /\ given' = [given EXCEPT ![on] = @ + 1] /\ UNCHANGED taken
    BY <1>9 DEF ReleaseStore
  <2>2. CASE s = on /\ loaded = count[s]
    BY <1>2, <1>3, <1>4, <1>6, <2>1, <2>2
  <2>3. CASE s # on
    BY <1>4, <1>5, <2>1, <2>3
  <2>4. CASE s = on /\ loaded # count[s]
    BY <2>1, <2>4 DEF NoLoss, LossIsKnown
  <2> QED BY <2>2, <2>3, <2>4
<1>10. ASSUME NEW q \in Sems, IsrRelease(q) PROVE NoLoss(s)
  <2>1. /\ count' = [count EXCEPT ![q] = U16(count[q] + 1)]
        /\ given' = [given EXCEPT ![q] = given[q] + 1] /\ UNCHANGED taken
    BY <1>10 DEF IsrRelease
  <2>2. CASE s = q
    BY <1>2, <1>3, <1>4, <1>6, <2>1, <2>2
  <2>3. CASE s # q
    BY <1>4, <1>5, <2>1, <2>3
  <2> QED BY <2>2, <2>3
<1>11. ASSUME NEW q \in Sems, pesudo_sem_clear(q) PROVE NoLoss(s)
  <2>1. /\ count' = [count EXCEPT ![q] = 0] /\ taken' = [taken EXCEPT ![q] = taken[q] + count[q]]
        /\ UNCHANGED given
    BY <1>11 DEF pesudo_sem_clear
  <2>2. CASE s = q
    <3>1. taken'[s] = taken[s] + count[s] /\ given'[s] = given[s] + 0 /\ count'[s] = 0
      BY <1>2, <1>3, <1>4, <2>1, <2>2
    <3>2. count'[s] \in Nat /\ count'[s] >= count[s] + 0 - count[s]
      BY <1>3, <3>1
    <3> QED BY <1>1, <1>2, <1>3, <3>1, <3>2, MovesKeepTokens
  <2>3. CASE s # q
    BY <1>4, <1>5, <2>1, <2>3
  <2> QED BY <2>2, <2>3
<1>12. ASSUME NEW q \in Sems, NEW n \in Counts, pesudo_sem_create(q, n) PROVE NoLoss(s)
  <2>1. s # q /\ count'[s] = count[s] /\ given'[s] = given[s] /\ taken'[s] = taken[s]
    BY <1>2, <1>4, <1>12 DEF pesudo_sem_create
  <2> QED BY <1>5, <2>1
<1> QED BY <1>7, <1>8, <1>9, <1>10, <1>11, <1>12

\* The steps that change who is granted: a wait starts without a grant, a grant takes one
\* token, and a granted task takes the one it was granted.
LEMMA GrantLosses ==
    ASSUME SemAssumption, TasksAssumption, TypeInv, FiniteGrants, NEW s \in pesudo_sem_list,
           \/ Grant
           \/ ObtainReturns
           \/ \E q \in Sems, ms \in Delays : ObtainBlocks(q, ms)
    PROVE  NoLoss(s)
<1>0. /\ state \in [Tasks -> SUBSET Flags] /\ block_obj \in [Tasks -> Sems \cup {NoObj}]
      /\ s \in Sems /\ NoObj \notin Sems /\ KernelInv
  BY DEF TypeInv, KernelInv, KernelTypeOK, BlockTypes, SemTypes, TasksAssumption, SemAssumption
<1> DEFINE G == Cardinality(GrantedTo(s))
           H == Cardinality(GrantedTo(s)')
<1>1. /\ given[s] \in Nat /\ taken[s] \in Nat /\ count[s] \in Nat /\ G \in Nat
      /\ Missing(s) = given[s] - (taken[s] + G + count[s])
      /\ loaded \in Count16 /\ loaded \in Nat /\ IsFiniteSet(GrantedTo(s))
  BY <1>0, LossNumbers
<1>2. Missing(s)' = given'[s] - (taken'[s] + H + count'[s])
  BY DEF Missing, Accounted
<1>n. count \in [Sems -> Count16] /\ taken \in [Sems -> Nat]
  BY Numbers
<1> HIDE DEF G, H
<1>3. ASSUME NEW q \in Sems, NEW ms \in Delays, ObtainBlocks(q, ms) PROVE NoLoss(s)
  <2>1. /\ Me \in Tasks /\ "OBTAIN_SEM" \notin state[Me] /\ UNCHANGED <<given, taken, count>>
        /\ state' = [state EXCEPT ![Me] = (@ \ {"RUNNING"}) \cup {"BLOCKED_SEM"}]
        /\ block_obj' = [block_obj EXCEPT ![Me] = q]
    BY <1>0, <1>3, MeNotWaiting
       DEF ObtainBlocks, Block, MayBlock, SaveContext, BlockedFlag, semVars, histVars
  <2>2. GrantedTo(s)' = GrantedTo(s)
    BY <1>0, <2>1 DEF GrantedTo
  <2>3. H = G
    BY <2>2 DEF H, G
  <2> QED BY <1>1, <1>2, <2>1, <2>3 DEF NoLoss
<1>4. CASE ObtainReturns
  <2>1. PICK u \in Tasks, q \in Sems : u = Me /\ q = block_obj[Me]
    BY <1>4, ResumedOnSem DEF ObtainReturns, Unblock
  <2>2. /\ ret = "OBTAIN_SEM" <=> "OBTAIN_SEM" \in state[u]
        /\ state' = [state EXCEPT ![u] = (@ \ {"BLOCKED_SEM", "OBTAIN_SEM"}) \cup {"RUNNING"}]
        /\ block_obj' = [block_obj EXCEPT ![u] = NoObj]
        /\ taken' = IF ret = "OBTAIN_SEM" THEN [taken EXCEPT ![q] = @ + 1] ELSE taken
        /\ UNCHANGED <<given, count>>
    BY <1>4, <2>1, ResumedOnSem
       DEF ObtainReturns, Unblock, LeaveCall, BlockedFlag, GrantFlag
  <2>3. GrantedTo(s)' = GrantedTo(s) \ {u}
    BY <1>0, <2>2 DEF GrantedTo
  <2>4. u \in GrantedTo(s) <=> ret = "OBTAIN_SEM" /\ s = q
    BY <2>1, <2>2 DEF GrantedTo
  <2>5. H = IF u \in GrantedTo(s) THEN G - 1 ELSE G
    BY <1>1, <2>3, FS_RemoveElement DEF H, G
  <2>6. taken'[s] = IF u \in GrantedTo(s) THEN taken[s] + 1 ELSE taken[s]
    BY <1>0, <1>n, <2>2, <2>4
  <2>7. given'[s] = given[s] /\ count'[s] = count[s]
    BY <2>2
  <2>8. CASE u \in GrantedTo(s)
    BY <1>1, <1>2, <2>5, <2>6, <2>7, <2>8 DEF NoLoss
  <2>9. CASE u \notin GrantedTo(s)
    BY <1>1, <1>2, <2>5, <2>6, <2>7, <2>9 DEF NoLoss
  <2> QED BY <2>8, <2>9
<1>5. CASE Grant
  <2>1. PICK w \in Selected(Opt[on], Waiting("SEM", on)) :
          state' = [state EXCEPT ![w] = @ \cup {"OBTAIN_SEM"}]
    BY <1>5 DEF Grant
  <2>2. w \in Tasks /\ block_obj[w] = on
    BY <2>1, LinkedAreTasks DEF Selected, Waiting, TypeInv, KernelInv, KernelTypeOK
  <2>3. /\ count' = [count EXCEPT ![on] = Amount(loaded) - 1] /\ op = "grant"
        /\ UNCHANGED <<given, taken, block_obj>>
    BY <1>1, <1>5, Width DEF Grant, Store, histVars, objFields
  <2>4. CASE s # on
    <3>1. GrantedTo(s)' = GrantedTo(s) /\ count'[s] = count[s]
      BY <1>0, <1>n, <2>1, <2>2, <2>3, <2>4 DEF GrantedTo
    <3>2. H = G
      BY <3>1 DEF H, G
    <3> QED BY <1>1, <1>2, <2>3, <3>1, <3>2 DEF NoLoss
  <2>5. CASE s = on /\ (loaded # count[s] \/ w \in GrantedTo(s))
    BY <2>1, <2>3, <2>5 DEF NoLoss, LossIsKnown
  <2>6. CASE s = on /\ loaded = count[s] /\ w \notin GrantedTo(s)
    <3>1. GrantedTo(s)' = GrantedTo(s) \cup {w}
      BY <1>0, <2>1, <2>2, <2>3, <2>6 DEF GrantedTo
    <3>2. H = G + 1
      <4>1. Cardinality(GrantedTo(s) \cup {w}) = Cardinality(GrantedTo(s)) + 1
        BY <1>1, <2>6, FS_AddElement
      <4> QED BY <3>1, <4>1 DEF H, G
    <3>3. Amount(loaded) \in Nat /\ loaded <= Amount(loaded)
      BY <1>1, Numbers
    <3>4. count'[s] = Amount(loaded) - 1 /\ given'[s] = given[s] /\ taken'[s] = taken[s]
      BY <1>0, <1>n, <2>3, <2>6
    <3>5. PICK a \in Nat, g \in Nat, t \in Nat, c \in Nat :
            a = Amount(loaded) /\ g = given[s] /\ t = taken[s] /\ c = count[s]
      BY <1>1, <3>3
    <3>6. Missing(s)' = g - (t + (G + 1) + (a - 1)) /\ Missing(s) = g - (t + G + c) /\ c <= a
      BY <1>1, <1>2, <2>6, <3>2, <3>3, <3>4, <3>5
    <3>7. ~(Missing(s)' > Missing(s))
      BY <1>1, <3>6
    <3> QED BY <3>7 DEF NoLoss
  <2> QED BY <2>4, <2>5, <2>6
<1> QED BY <1>3, <1>4, <1>5

\* Every step.
LEMMA NextLosses ==
    ASSUME SemAssumption, TasksAssumption, TypeInv, FiniteGrants, GrantsLinked, [Next]_vars,
           NEW s \in pesudo_sem_list \cap pesudo_sem_list'
    PROVE  NoLoss(s)
<1>1. CASE KernelNext /\ UNCHANGED semVars
  <2>1. s \in Sems /\ GrantedTo(s)' = GrantedTo(s)
    BY <1>1, KernelGrants DEF TypeInv, SemTypes
  <2>2. count[s] \in Nat /\ taken[s] \in Nat /\ given[s] \in Nat
    BY <2>1, LossNumbers
  <2>3. /\ taken'[s] = taken[s] + 0 /\ given'[s] = given[s] + 0
        /\ count'[s] \in Nat /\ count'[s] >= count[s] + 0 - 0
    BY <1>1, <2>2 DEF semVars, histVars
  <2> QED BY <2>1, <2>3, MovesKeepTokens
<1>2. CASE \/ Grant \/ ObtainReturns
           \/ \E q \in Sems, ms \in Delays : ObtainBlocks(q, ms)
  BY <1>2, GrantLosses
<1>3. ASSUME UNCHANGED <<state, block_obj>>,
             \/ UNCHANGED semVars
             \/ ObtainLoad \/ ObtainStore \/ ReleaseStore \/ ScanFindsNone \/ ScanFinds
             \/ GrantLoad \/ DrainEnds
             \/ \E q \in Sems : \/ DrainSem(q) \/ ObtainTest(q) \/ ReleaseLoad(q) \/ IsrRelease(q)
                                \/ pesudo_sem_delete(q) \/ pesudo_sem_clear(q)
                                \/ \E n \in Counts : pesudo_sem_create(q, n)
      PROVE  NoLoss(s)
  BY <1>3, QuietLosses
<1> USE DEF kernelVars, objFields
<1>4. CASE UNCHANGED vars
  BY <1>3, <1>4 DEF vars
<1>5. CASE KernelStep \/ Interrupt
  BY <1>1, <1>3, <1>5 DEF KernelStep, Interrupt, KernelNext, IsrRelease
<1>6. CASE SemStep
  BY <1>2, <1>3, <1>6
     DEF SemStep, ObtainLoad, ObtainStore, ReleaseStore, ScanFindsNone, ScanFinds, GrantLoad,
         DrainEnds, StartPass, DrainSem
<1>7. CASE SemCall
  BY <1>2, <1>3, <1>7
     DEF SemCall, ObtainTest, ReleaseLoad, pesudo_sem_create, pesudo_sem_delete, pesudo_sem_clear
<1> QED BY <1>4, <1>5, <1>6, <1>7 DEF Next

\* A token of a semaphore gets lost only when a store overwrites the release of an
\* interrupt, when a scan grants a waiter that has its grant, or when the count wraps
\* (pesudo_sem_obtain(), pesudo_sem_release(), pesudo_sem_obtain_internal()).
THEOREM LossesAreExplained == Spec => LossesAreKnown
<1>1. Init => TokenInv /\ GrantsLinked
  BY InitTokenInv, InitGrantsLinked
<1>2. TypeInv /\ TokenInv /\ GrantsLinked /\ [Next]_vars => TokenInv' /\ GrantsLinked'
  BY SemAssumption, NextTokenInv, NextGrantsLinked
<1>3. TypeInv /\ TokenInv /\ GrantsLinked /\ [Next]_vars =>
        [\A s \in pesudo_sem_list \cap pesudo_sem_list' :
           Missing(s)' > Missing(s) => LossIsKnown(s)]_vars
  BY SemAssumption, TasksAssumption, NextLosses DEF TokenInv, NoLoss
<1> QED BY <1>1, <1>2, <1>3, TypeInvAlways, PTL DEF Spec, LossesAreKnown
=============================================================================
