-------------------------- MODULE PesudoTimerProofs --------------------------
(***************************************************************************)
(* Proofs about the PesudoOS software timers, for any number of tasks and  *)
(* timers, any timeouts and any horizon.  Each step moves a timer in one   *)
(* of a few ways, and each way keeps the timer on the grid that its start  *)
(* laid down.                                                              *)
(***************************************************************************)
EXTENDS MCPesudoTimer, PesudoOSProofs

-----------------------------------------------------------------------------
(***************************************************************************)
(* The steps of the timers preserve the kernel's invariant.                *)
(***************************************************************************)

\* Setting the flags of a timer's task, and its deadline, by a call of the running
\* task or when its own handler returns, preserves KernelInv.
LEMMA TimerFlagsInv ==
    ASSUME TasksAssumption, KernelInv, InTask, NEW t \in Timers, NEW s \in SUBSET Flags,
           state' = [state EXCEPT ![t] = s], sleep_until' \in [Tasks -> Nat],
           UNCHANGED <<now, list, objFields, first_run_until, func_exit_pos, prev_ticks,
                       tmp, freed, current, ret, delay_until>>,
           \/ UNCHANGED <<pc, task>> /\ ("RUNNING" \in s => "RUNNING" \in state[t])
           \/ BackInLoop /\ t = Me /\ "RUNNING" \notin s
    PROVE  KernelInv'
<1> USE DEF InTask, BackInLoop, Me, objFields
<1>1. /\ t \in Tasks /\ state \in [Tasks -> SUBSET Flags]
      /\ tmp \in Tasks \cup {NoTask} /\ SuccessorLinked
  BY DEF TasksAssumption, KernelInv, KernelTypeOK
<1>2. KernelTypeOK'
  <2>1. state' \in [Tasks -> SUBSET Flags]
    BY <1>1
  <2>2. /\ pc' \in {"foreach", "running", "resumed", "delay", "drain"}
        /\ task' \in Tasks \cup {NoTask}
        /\ pc' \in {"running", "resumed", "delay"} => current' \in Tasks
    BY <1>1 DEF KernelInv, KernelTypeOK
  <2> QED BY <2>1, <2>2 DEF KernelInv, KernelTypeOK
<1>3. ASSUME NEW u \in Tasks \ Timers PROVE CallKept(u)'
  <2>1. CallKept(u) /\ state'[u] = state[u]
    BY <1>1 DEF KernelInv, PendingCallKept
  <2> QED BY <2>1, FrameKept
<1>4. LoopOnLiveTasks' /\ SuccessorLinked'
  BY <1>1 DEF KernelInv, LoopOnLiveTasks, SuccessorLinked, Linked
<1>5. TimersNeverBlock' /\ RunningOutsideCalls' /\ ResumedAsGranted'
  BY DEF KernelInv, TimersNeverBlock, RunningOutsideCalls, ResumedAsGranted
<1> QED BY <1>2, <1>3, <1>4, <1>5 DEF KernelInv, PendingCallKept

\* A timer that falls due preserves KernelInv.
LEMMA TimerDueInv ==
    ASSUME TasksAssumption, KernelInv, NEW t \in Tasks, VisitTimerDue(t)
    PROVE  KernelInv'
<1> USE DEF VisitTimerDue, GoOn, objFields, runFields
<1>1. /\ t \in Timers /\ state \in [Tasks -> SUBSET Flags]
      /\ tmp' \in Linked \cup {NoTask} /\ tmp' \in Tasks \cup {NoTask}
      /\ freed' = NoTask /\ current' = t /\ t \in Linked
      /\ \A u \in Tasks : "RUNNING" \notin state[u]
  BY VisitFacts DEF KernelInv, KernelTypeOK
<1>2. KernelTypeOK'
  <2>1. state' \in [Tasks -> SUBSET Flags]
    BY <1>1, RestFlags
  <2> QED BY <1>1, <2>1 DEF KernelInv, KernelTypeOK
<1>3. ASSUME NEW u \in Tasks \ Timers PROVE CallKept(u)'
  <2>1. CallKept(u) /\ state'[u] = state[u]
    BY <1>1 DEF KernelInv, PendingCallKept
  <2> QED BY <2>1, FrameKept
<1>4. LoopOnLiveTasks' /\ SuccessorLinked'
  <2>1. \A u \in Tasks : "RUNNING" \notin state'[u]
    BY <1>1
  <2> QED BY <1>1, <2>1 DEF LoopOnLiveTasks, SuccessorLinked, Linked
<1>5. TimersNeverBlock' /\ RunningOutsideCalls' /\ ResumedAsGranted'
  BY DEF KernelInv, TimersNeverBlock, RunningOutsideCalls, ResumedAsGranted
<1> QED BY <1>2, <1>3, <1>4, <1>5 DEF KernelInv, PendingCallKept

\* The types of the timers' own fields.
TimersTyped ==
    /\ pesudo_timer_list \subseteq Timers
    /\ timeout_ms \in [Timers -> Timeouts \cup {0}]
    /\ is_period \in [Timers -> BOOLEAN]

\* The period of a run that ends is a natural number.
LEMMA FiringTyped ==
    ASSUME TimerAssumption, TimersTyped, NEW t \in Timers, NEW tmr \in FiringOf(t)
    PROVE  tmr.ms \in Nat
<1>1. Timeouts \subseteq Nat /\ \A u \in Timers : timeout_ms[u] \in Timeouts \cup {0}
  BY DEF TimerAssumption, TimersTyped
<1>2. CASE t \in pesudo_timer_list
  <2>1. tmr = [ms |-> timeout_ms[t], period |-> is_period[t]]
    BY <1>2 DEF FiringOf
  <2>2. tmr.ms = timeout_ms[t]
    BY <2>1
  <2>3. timeout_ms[t] \in Timeouts \cup {0}
    BY <1>1
  <2>4. 0 \in Nat
    OBVIOUS
  <2> QED BY <1>1, <2>2, <2>3, <2>4
<1>3. CASE t \notin pesudo_timer_list
  <2>1. tmr \in [ms : Timeouts, period : BOOLEAN]
    BY <1>3 DEF FiringOf
  <2> QED BY <1>1, <2>1
<1> QED BY <1>2, <1>3

\* A timer's handler that returns preserves KernelInv.
LEMMA TimerReturnsInv ==
    ASSUME TasksAssumption, TimerAssumption, KernelInv, TimersTyped, TimerReturns
    PROVE  KernelInv'
<1>1. /\ InTask /\ Me \in Timers /\ Me \in Tasks /\ BackInLoop
      /\ UNCHANGED <<now, list, objFields, first_run_until, func_exit_pos, prev_ticks,
                     tmp, freed, current, ret, delay_until>>
  BY DEF TimerReturns, TasksAssumption
<1>2. state \in [Tasks -> SUBSET Flags] /\ sleep_until \in [Tasks -> Nat]
  BY DEF KernelInv, KernelTypeOK
<1>3. CASE "RUNNING" \in state[Me]
  <2>1. PICK tmr \in FiringOf(Me) :
          IF tmr.period
          THEN /\ sleep_until' = [sleep_until EXCEPT ![Me] = @ + tmr.ms]
               /\ state' = [state EXCEPT ![Me] = {"SLEEP"}]
          ELSE /\ state' = [state EXCEPT ![Me] = {"SUSPEND"}]
               /\ UNCHANGED sleep_until
    BY <1>3 DEF TimerReturns, pesudo_timer_callback
  <2>2. tmr.ms \in Nat
    BY <1>1, FiringTyped
  <2>3. sleep_until' \in [Tasks -> Nat]
    BY <1>1, <1>2, <2>1, <2>2
  <2>4. PICK s \in {{"SLEEP"}, {"SUSPEND"}} : state' = [state EXCEPT ![Me] = s]
    BY <2>1
  <2>5. s \in SUBSET Flags /\ "RUNNING" \notin s
    BY <2>4 DEF Flags, BlockingFlags
  <2> QED BY <1>1, <2>3, <2>4, <2>5, TimerFlagsInv
<1>4. CASE "RUNNING" \notin state[Me]
  <2>1. UNCHANGED <<state, sleep_until>>
    BY <1>4 DEF TimerReturns
  <2>2. state' = [state EXCEPT ![Me] = state[Me]] /\ state[Me] \in SUBSET Flags
    BY <1>1, <1>2, <2>1
  <2> QED BY <1>1, <1>2, <1>4, <2>1, <2>2, TimerFlagsInv
<1> QED BY <1>3, <1>4

\* The pesudo_timer_* calls preserve KernelInv.
LEMMA TimerCallInv ==
    ASSUME TasksAssumption, TimerAssumption, KernelInv, TimersTyped,
           pesudo_timer_list \subseteq Linked, NEW t \in Timers,
           \/ \E ms \in Timeouts, period \in BOOLEAN : pesudo_timer_create(t, ms, period)
           \/ pesudo_timer_delete(t)
           \/ \E ms \in Timeouts \cup {0} : pesudo_timer_start(t, ms)
           \/ pesudo_timer_stop(t)
    PROVE  KernelInv'
<1>1. /\ t \in Tasks /\ now \in Nat
      /\ state \in [Tasks -> SUBSET Flags] /\ sleep_until \in [Tasks -> Nat]
  BY DEF TasksAssumption, KernelInv, KernelTypeOK
<1>2. CASE \E ms \in Timeouts, period \in BOOLEAN : pesudo_timer_create(t, ms, period)
  BY <1>1, <1>2, AllocateInv DEF pesudo_timer_create
<1>3. CASE pesudo_timer_delete(t)
  <2>1. /\ InTask /\ t \in Linked
        /\ UNCHANGED <<now, objFields, runFields, pc, task, tmp, current, ret, delay_until>>
    BY <1>3 DEF pesudo_timer_delete
  <2>2. CASE Unlink(t) \/ MarkDelete(t)
    BY <1>1, <2>1, <2>2, UnlinkOrMarkInv
  <2>3. CASE UNCHANGED <<list, state, freed>>
    BY <2>1, <2>3, KernelStutterInv DEF kernelVars, loopVars
  <2> QED BY <1>3, <2>2, <2>3 DEF pesudo_timer_delete
<1>4. CASE \E ms \in Timeouts \cup {0} : pesudo_timer_start(t, ms)
  <2>1. PICK ms \in Timeouts \cup {0} : pesudo_timer_start(t, ms)
    BY <1>4
  <2>2. /\ InTask /\ state' = [state EXCEPT ![t] = {"SLEEP"}]
        /\ UNCHANGED <<now, list, objFields, first_run_until, func_exit_pos, prev_ticks,
                       loopVars>>
        /\ timeout_ms' = [timeout_ms EXCEPT ![t] = IF ms = 0 THEN @ ELSE ms]
        /\ sleep_until' = [sleep_until EXCEPT ![t] = now + timeout_ms'[t]]
    BY <2>1 DEF pesudo_timer_start
  <2>3. timeout_ms'[t] \in Nat
    <3>1. Timeouts \subseteq Nat
      BY DEF TimerAssumption
    <3>3. timeout_ms \in [Timers -> Timeouts \cup {0}]
      BY DEF TimersTyped
    <3>5. 0 \in Nat /\ ms \in Timeouts \cup {0} /\ timeout_ms[t] \in Timeouts \cup {0}
      BY <3>3
    <3>2. ms \in Nat /\ timeout_ms[t] \in Nat
      BY <3>1, <3>5
    <3>4. timeout_ms'[t] = IF ms = 0 THEN timeout_ms[t] ELSE ms
      BY <2>2, <3>3
    <3> QED BY <3>2, <3>4
  <2>4. sleep_until' \in [Tasks -> Nat]
    BY <1>1, <2>2, <2>3
  <2>5. {"SLEEP"} \in SUBSET Flags
    BY DEF Flags, BlockingFlags
  <2> QED BY <2>2, <2>4, <2>5, TimerFlagsInv DEF loopVars
<1>5. CASE pesudo_timer_stop(t)
  <2> DEFINE s == IF state[t] = {"RUNNING"} THEN state[t] \cup {"WANT_SUSPEND"} ELSE {"SUSPEND"}
  <2>1. state' = [state EXCEPT ![t] = s] /\ InTask
        /\ UNCHANGED <<now, list, objFields, runFields, loopVars>>
    BY <1>5 DEF pesudo_timer_stop
  <2>2. s \in SUBSET Flags /\ ("RUNNING" \in s => "RUNNING" \in state[t])
    BY <1>1, RestFlags
  <2> HIDE DEF s
  <2> QED BY <1>1, <2>1, <2>2, TimerFlagsInv DEF loopVars, runFields
<1> QED BY <1>2, <1>3, <1>4, <1>5

-----------------------------------------------------------------------------
(***************************************************************************)
(* How a step moves a timer.                                               *)
(***************************************************************************)

\* the timer's own fields, and its places in the two lists
FieldsKept(t) ==
    /\ timeout_ms'[t] = timeout_ms[t]
    /\ is_period'[t] = is_period[t]
    /\ t \in pesudo_timer_list' <=> t \in pesudo_timer_list
    /\ t \in Linked' <=> t \in Linked

Stays(t) ==
    /\ FieldsKept(t)
    /\ state'[t] = state[t] /\ sleep_until'[t] = sleep_until[t]
    /\ now' \in {now, now + 1}

IsRun(t) ==
    /\ FieldsKept(t)
    /\ pc = "foreach"
    /\ state[t] = {"READY"} /\ state'[t] = {"RUNNING"}
    /\ sleep_until'[t] = sleep_until[t] /\ now' = now

FallsDue(t) ==
    /\ FieldsKept(t)
    /\ pc' = "foreach"
    /\ "SLEEP" \in state[t] /\ sleep_until[t] <= now
    /\ state'[t] = {"READY"}
    /\ sleep_until'[t] = sleep_until[t] /\ now' = now

Returns(t) ==
    /\ FieldsKept(t)
    /\ pc = "running" /\ pc' = "foreach" /\ now' = now
    /\ "RUNNING" \in state[t]
    /\ \E tmr \in FiringOf(t) :
          IF tmr.period
          THEN sleep_until'[t] = sleep_until[t] + tmr.ms /\ state'[t] = {"SLEEP"}
          ELSE sleep_until'[t] = sleep_until[t] /\ state'[t] = {"SUSPEND"}

IsCreated(t) ==
    /\ t \notin Linked /\ t \in Linked' /\ t \in pesudo_timer_list'
    /\ state'[t] = {"SUSPEND"}
    /\ pc = "running" /\ now' = now

IsDeleted(t) ==
    /\ t \in pesudo_timer_list /\ t \notin pesudo_timer_list'
    /\ \/ state'[t] = {}
       \/ state'[t] \in {state[t], state[t] \cup {"WANT_DELETE"}} /\ t \in Linked'
    /\ pc = "running" /\ now' = now

IsStarted(t) ==
    /\ t \in pesudo_timer_list /\ t \in pesudo_timer_list'
    /\ t \in Linked' <=> t \in Linked
    /\ pc = "running" /\ pc' = "running" /\ now' = now
    /\ state[t] = {"SUSPEND"} /\ state'[t] = {"SLEEP"}
    /\ sleep_until'[t] = now + timeout_ms'[t]

IsStopped(t) ==
    /\ FieldsKept(t)
    /\ t \in pesudo_timer_list
    /\ pc = "running" /\ now' = now /\ sleep_until'[t] = sleep_until[t]
    /\ state'[t] = IF state[t] = {"RUNNING"} THEN {"RUNNING", "WANT_SUSPEND"} ELSE {"SUSPEND"}

Moves(t) ==
    \/ Stays(t) \/ IsRun(t) \/ FallsDue(t) \/ Returns(t)
    \/ IsCreated(t) \/ IsDeleted(t) \/ IsStarted(t) \/ IsStopped(t)

\* The loop, the clock and the plain tasks leave a timer alone; but the loop runs it
\* when it is ready.
LEMMA KernelLeavesTimers ==
    ASSUME TasksAssumption, TimeAssumption, KernelInv, NEW t \in Timers,
           "IDLE" \notin state[t], KernelNext, UNCHANGED timerVars
    PROVE  Stays(t) \/ IsRun(t)
<1> USE DEF timerVars, FieldsKept, Me
<1>1. /\ t \in Tasks /\ list \in Seq(Tasks) /\ Linked \subseteq Tasks
      /\ state \in [Tasks -> SUBSET Flags] /\ sleep_until \in [Tasks -> Nat]
  BY LinkedAreTasks DEF TasksAssumption, KernelInv, KernelTypeOK
<1>2. CASE Tick
  BY <1>2 DEF Tick, Stays, Linked, runFields
<1>3. CASE VisitNext
  <2>1. CASE VisitDispatch(t)
    <3>1. state[t] = {"READY"} /\ state'[t] = {"RUNNING"}
      BY <1>1, <2>1 DEF VisitDispatch, Promoted
    <3> QED BY <2>1, <3>1 DEF VisitDispatch, Visit, IsRun, Linked
  <2>2. CASE ~VisitDispatch(t)
    <3>1. UNCHANGED <<list, sleep_until, now>>
      BY <1>3 DEF VisitNext, VisitDispatch, VisitWakeup, VisitGranted, VisitTimeout, VisitSkip,
                  Resume, runFields
    <3>2. state'[t] = state[t]
      <4>1. CASE \E u \in Tasks : VisitDispatch(u)
        BY <1>1, <2>2, <4>1 DEF VisitDispatch
      <4>2. CASE state' = state
        BY <4>2
      <4> QED BY <1>3, <4>1, <4>2 DEF VisitNext, VisitWakeup, VisitGranted, VisitTimeout,
                                      VisitSkip, Resume
    <3> QED BY <3>1, <3>2 DEF Stays, Linked
  <2> QED BY <2>1, <2>2
<1>4. CASE EndPass
  <2>1. list' = list
    BY <1>4 DEF EndPass, Reaped
  <2> QED BY <1>4, <2>1 DEF EndPass, Stays, Linked, runFields
<1>8. CASE LoopAstray
  BY <1>8 DEF LoopAstray, kernelVars, Stays, Linked, runFields
<1>5. CASE StartPass
  BY <1>5 DEF StartPass, Stays, Linked, runFields
<1>6. CASE HandlerReturns
  BY <1>1, <1>6 DEF HandlerReturns, Stays, Linked
<1>7. CASE TaskCall
  <2>1. CASE \E u \in Tasks : \E ms \in Delays \cup {0} : pesudo_task_create(u, ms)
    <3>1. PICK u \in Tasks \ Timers :
             /\ list' = Append(list, u)
             /\ state' = [state EXCEPT ![u] = {"IDLE"}]
             /\ sleep_until' = [sleep_until EXCEPT ![u] = 0]
             /\ now' = now
      BY <2>1 DEF pesudo_task_create, Allocate
    <3>2. Linked' = Linked \cup {u}
      BY <1>1, <3>1, AppendAdds DEF Linked
    <3> QED BY <1>1, <3>1, <3>2 DEF Stays
  <2>2. CASE \E u \in Tasks : pesudo_task_delete(u)
    <3>1. PICK u \in Linked \ Timers : pesudo_task_delete(u)
      BY <2>2 DEF pesudo_task_delete
    <3>2. UNCHANGED <<now, sleep_until>>
      BY <3>1 DEF pesudo_task_delete, runFields
    <3>3. CASE MarkDelete(u)
      BY <1>1, <3>1, <3>2, <3>3 DEF MarkDelete, Stays, Linked
    <3>4. CASE Unlink(u)
      <4>1. (t \in Linked' <=> t \in Linked) /\ state'[t] = state[t]
        BY <1>1, <3>1, <3>4, UnlinkKeeps DEF Unlink
      <4> QED BY <3>2, <4>1 DEF Stays
    <3> QED BY <3>1, <3>3, <3>4 DEF pesudo_task_delete
  <2>3. CASE \E u \in Tasks : pesudo_task_suspend(u) \/ pesudo_task_resume(u)
    BY <1>1, <2>3 DEF pesudo_task_suspend, pesudo_task_resume, Stays, Linked, runFields
  <2>4. CASE \E ms \in Delays : pesudo_task_sleep(ms) \/ pesudo_task_sleep_until(ms)
    <3>1. Me # t /\ UNCHANGED <<now, list>>
      BY <2>4 DEF pesudo_task_sleep, pesudo_task_sleep_until, SleepFor, MayBlock
    <3>2. state'[t] = state[t] /\ sleep_until'[t] = sleep_until[t]
      BY <1>1, <2>4, <3>1
         DEF pesudo_task_sleep, pesudo_task_sleep_until, SleepFor, SaveContext
    <3> QED BY <3>1, <3>2 DEF Stays, Linked
  <2>5. CASE DelayEnds \/ \E ms \in Delays : SleepUntilLate(ms)
    BY <2>5 DEF DelayEnds, SleepUntilLate, Stays, Linked, runFields
  <2>6. CASE SleepTail
    <3>1. current \notin Timers
      BY <2>6 DEF SleepTail, Resumed, KernelInv, ResumedAsGranted
    <3> QED BY <1>1, <2>6, <3>1 DEF SleepTail, LeaveCall, Stays, Linked
  <2> QED BY <1>7, <2>1, <2>2, <2>3, <2>4, <2>5, <2>6 DEF TaskCall
<1> QED BY <1>2, <1>3, <1>4, <1>5, <1>6, <1>7, <1>8 DEF KernelNext, LoopStep

\* A timer that falls due, and every other timer then.
LEMMA TimerDueMoves ==
    ASSUME TasksAssumption, KernelInv, NEW t \in Timers, NEW u \in Tasks,
           VisitTimerDue(u), UNCHANGED timerVars
    PROVE  Stays(t) \/ FallsDue(t)
<1>1. t \in Tasks /\ state \in [Tasks -> SUBSET Flags]
  BY DEF TasksAssumption, KernelInv, KernelTypeOK
<1>2. UNCHANGED <<now, list, sleep_until>> /\ FieldsKept(t)
  BY DEF VisitTimerDue, timerVars, FieldsKept, Linked, runFields
<1>3. CASE u = t
  BY <1>1, <1>2, <1>3 DEF VisitTimerDue, GoOn, Due, FallsDue
<1>4. CASE u # t
  BY <1>1, <1>2, <1>4 DEF VisitTimerDue, Stays
<1> QED BY <1>3, <1>4

\* A timer whose handler returns, and every other timer then.
LEMMA TimerReturnsMoves ==
    ASSUME TasksAssumption, KernelInv, NEW t \in Timers, TimerReturns
    PROVE  Stays(t) \/ Returns(t)
<1>1. /\ t \in Tasks /\ state \in [Tasks -> SUBSET Flags] /\ sleep_until \in [Tasks -> Nat]
  BY DEF TasksAssumption, KernelInv, KernelTypeOK
<1>2. /\ now' = now /\ FieldsKept(t) /\ pc = "running" /\ pc' = "foreach"
  BY DEF TimerReturns, timerVars, FieldsKept, Linked, InTask, BackInLoop
<1>3. CASE "RUNNING" \notin state[Me]
  BY <1>2, <1>3 DEF TimerReturns, Stays
<1>4. CASE "RUNNING" \in state[Me]
  <2>1. PICK tmr \in FiringOf(Me) :
          IF tmr.period
          THEN /\ sleep_until' = [sleep_until EXCEPT ![Me] = @ + tmr.ms]
               /\ state' = [state EXCEPT ![Me] = {"SLEEP"}]
          ELSE /\ state' = [state EXCEPT ![Me] = {"SUSPEND"}]
               /\ UNCHANGED sleep_until
    BY <1>4 DEF TimerReturns, pesudo_timer_callback
  <2>2. CASE Me = t
    <3>1. IF tmr.period
          THEN sleep_until'[t] = sleep_until[t] + tmr.ms /\ state'[t] = {"SLEEP"}
          ELSE sleep_until'[t] = sleep_until[t] /\ state'[t] = {"SUSPEND"}
      BY <1>1, <2>1, <2>2
    <3>2. tmr \in FiringOf(t) /\ "RUNNING" \in state[t]
      BY <1>4, <2>2
    <3> QED BY <1>2, <3>1, <3>2 DEF Returns
  <2>3. CASE Me # t
    <3>1. state'[t] = state[t] /\ sleep_until'[t] = sleep_until[t]
      BY <1>1, <2>1, <2>3
    <3> QED BY <1>2, <3>1 DEF Stays
  <2> QED BY <2>2, <2>3
<1> QED BY <1>3, <1>4

\* What the pesudo_timer_* calls do to their timer, and to every other timer.
LEMMA TimerCallMoves ==
    ASSUME TasksAssumption, KernelInv, TimersTyped, pesudo_timer_list \subseteq Linked,
           NEW t \in Timers, NEW u \in Timers,
           \/ \E ms \in Timeouts, period \in BOOLEAN : pesudo_timer_create(u, ms, period)
           \/ pesudo_timer_delete(u)
           \/ \E ms \in Timeouts \cup {0} : pesudo_timer_start(u, ms)
           \/ pesudo_timer_stop(u)
    PROVE  Stays(t) \/ IsCreated(t) \/ IsDeleted(t) \/ IsStarted(t) \/ IsStopped(t)
<1>1. /\ t \in Tasks /\ u \in Tasks /\ list \in Seq(Tasks)
      /\ state \in [Tasks -> SUBSET Flags] /\ sleep_until \in [Tasks -> Nat]
  BY DEF TasksAssumption, KernelInv, KernelTypeOK
<1>2. timeout_ms \in [Timers -> Timeouts \cup {0}] /\ is_period \in [Timers -> BOOLEAN]
  BY DEF TimersTyped
<1>3. CASE \E ms \in Timeouts, period \in BOOLEAN : pesudo_timer_create(u, ms, period)
  <2>1. PICK ms \in Timeouts, period \in BOOLEAN : pesudo_timer_create(u, ms, period)
    BY <1>3
  <2>2. /\ pc = "running" /\ now' = now /\ u \notin Linked /\ list' = Append(list, u)
        /\ state' = [state EXCEPT ![u] = {"SUSPEND"}]
        /\ sleep_until' = [sleep_until EXCEPT ![u] = 0]
        /\ pesudo_timer_list' = pesudo_timer_list \cup {u}
        /\ timeout_ms' = [timeout_ms EXCEPT ![u] = ms]
        /\ is_period' = [is_period EXCEPT ![u] = period]
    BY <2>1 DEF pesudo_timer_create, Allocate, InTask
  <2>3. Linked' = Linked \cup {u}
    BY <1>1, <2>2, AppendAdds DEF Linked
  <2>4. CASE u = t
    BY <1>1, <2>2, <2>3, <2>4 DEF IsCreated
  <2>5. CASE u # t
    BY <1>1, <1>2, <2>2, <2>3, <2>5 DEF Stays, FieldsKept
  <2> QED BY <2>4, <2>5
<1>4. CASE pesudo_timer_delete(u)
  <2>1. /\ pc = "running" /\ u \in Linked /\ u \in pesudo_timer_list
        /\ UNCHANGED <<now, sleep_until, timeout_ms, is_period>>
        /\ pesudo_timer_list' = pesudo_timer_list \ {u}
    BY <1>4 DEF pesudo_timer_delete, InTask, runFields
  <2>2. CASE Unlink(u)
    <3>1. state' = [state EXCEPT ![u] = {}]
      BY <2>2 DEF Unlink
    <3>2. CASE u = t
      BY <1>1, <2>1, <3>1, <3>2 DEF IsDeleted
    <3>3. CASE u # t
      <4>1. (t \in Linked' <=> t \in Linked) /\ state'[t] = state[t]
        BY <1>1, <2>1, <2>2, <3>1, <3>3, UnlinkKeeps
      <4> QED BY <2>1, <3>3, <4>1 DEF Stays, FieldsKept
    <3> QED BY <3>2, <3>3
  <2>3. CASE MarkDelete(u)
    <3>1. list' = list /\ state' = [state EXCEPT ![u] = state[u] \cup {"WANT_DELETE"}]
      BY <2>3 DEF MarkDelete
    <3>2. CASE u = t
      BY <1>1, <2>1, <3>1, <3>2 DEF IsDeleted, Linked
    <3>3. CASE u # t
      BY <1>1, <2>1, <3>1, <3>3 DEF Stays, FieldsKept, Linked
    <3> QED BY <3>2, <3>3
  <2>4. CASE UNCHANGED <<list, state>>
    <3>1. CASE u = t
      BY <1>1, <2>1, <2>4, <3>1 DEF IsDeleted, Linked
    <3>2. CASE u # t
      BY <1>1, <2>1, <2>4, <3>2 DEF Stays, FieldsKept, Linked
    <3> QED BY <3>1, <3>2
  <2> QED BY <1>4, <2>2, <2>3, <2>4 DEF pesudo_timer_delete
<1>5. CASE \E ms \in Timeouts \cup {0} : pesudo_timer_start(u, ms)
  <2>1. PICK ms \in Timeouts \cup {0} : pesudo_timer_start(u, ms)
    BY <1>5
  <2>2. /\ pc = "running" /\ pc' = "running" /\ u \in pesudo_timer_list
        /\ state[u] = {"SUSPEND"}
        /\ UNCHANGED <<now, list, pesudo_timer_list, is_period>>
        /\ timeout_ms' = [timeout_ms EXCEPT ![u] = IF ms = 0 THEN @ ELSE ms]
        /\ sleep_until' = [sleep_until EXCEPT ![u] = now + timeout_ms'[u]]
        /\ state' = [state EXCEPT ![u] = {"SLEEP"}]
    BY <2>1 DEF pesudo_timer_start, InTask, loopVars
  <2>3. CASE u = t
    <3>1. sleep_until'[t] = now + timeout_ms'[t] /\ state'[t] = {"SLEEP"}
      BY <1>1, <2>2, <2>3
    <3> QED BY <2>2, <2>3, <3>1 DEF IsStarted, Linked
  <2>4. CASE u # t
    BY <1>1, <1>2, <2>2, <2>4 DEF Stays, FieldsKept, Linked
  <2> QED BY <2>3, <2>4
<1>6. CASE pesudo_timer_stop(u)
  <2>1. /\ pc = "running" /\ u \in pesudo_timer_list
        /\ UNCHANGED <<now, list, sleep_until, pesudo_timer_list, timeout_ms, is_period>>
        /\ state' = [state EXCEPT ![u] =
                       IF @ = {"RUNNING"} THEN @ \cup {"WANT_SUSPEND"} ELSE {"SUSPEND"}]
    BY <1>6 DEF pesudo_timer_stop, InTask, runFields, timerVars
  <2>2. CASE u = t
    BY <1>1, <2>1, <2>2 DEF IsStopped, FieldsKept, Linked
  <2>3. CASE u # t
    BY <1>1, <2>1, <2>3 DEF Stays, FieldsKept, Linked
  <2> QED BY <2>2, <2>3
<1> QED BY <1>3, <1>4, <1>5, <1>6

-----------------------------------------------------------------------------
(***************************************************************************)
(* The invariant of the timers.                                            *)
(***************************************************************************)
\* the flags of a timer that is not deleted
TimerStates == {{"SUSPEND"}, {"SLEEP"}, {"READY"}, {"RUNNING"}, {"RUNNING", "WANT_SUSPEND"}}

\* A timer is linked, a freed task has no flags, and no timer waits for a first run.
Shape(t) ==
    /\ t \in pesudo_timer_list => t \in Linked /\ state[t] \in TimerStates
    /\ t \notin Linked => state[t] = {} /\ fired[t] = 0
    /\ "IDLE" \notin state[t]

\* The deadline of an armed timer is the next point of the grid, that of a running
\* timer the last one, and the clock has passed as many points as the timer fired.
Grid(t) ==
    t \in pesudo_timer_list =>
        /\ started[t] + fired[t] * timeout_ms[t] <= now
        /\ state[t] \in {{"SLEEP"}, {"READY"}} =>
              sleep_until[t] = started[t] + (fired[t] + 1) * timeout_ms[t]
        /\ state[t] = {"READY"} => sleep_until[t] <= now
        /\ "RUNNING" \in state[t] =>
              sleep_until[t] = started[t] + fired[t] * timeout_ms[t]

\* A timer nobody asked to fire is neither armed nor due nor running.
Silent(t) == t \in quiet => state[t] \cap {"SLEEP", "READY", "RUNNING"} = {}

HistoryTyped ==
    /\ started \in [Timers -> Nat]
    /\ fired \in [Timers -> Nat]
    /\ quiet \subseteq Timers
    /\ \A t \in Timers : started[t] <= now

TimerInv ==
    /\ KernelInv
    /\ TimersTyped
    /\ HistoryTyped
    /\ \A t \in Timers : Shape(t) /\ Grid(t) /\ Silent(t)

\* The initial states satisfy the invariant: no timer is created before the loop.
LEMMA TimerInitInv ==
    ASSUME TasksAssumption, MCInit
    PROVE  TimerInv
<1> USE DEF MCInit, Init
<1>1. KernelInv
  BY InitInv
<1>2. TimersTyped /\ HistoryTyped
  BY <1>1 DEF TimersTyped, HistoryTyped, KernelInv, KernelTypeOK
<1>3. ASSUME NEW t \in Timers PROVE Shape(t) /\ Grid(t) /\ Silent(t)
  <2>1. Boot \in Seq(Tasks \ Timers) /\ t \in Tasks
    BY DEF TasksAssumption
  <2>2. t \notin ToSet(Boot)
    BY <2>1, ElementOfSeq, LenProperties DEF ToSet
  <2>3. state[t] = {} /\ fired[t] = 0 /\ t \notin pesudo_timer_list
    BY <2>1, <2>2 DEF KernelInit
  <2> QED BY <2>3 DEF Shape, Grid, Silent
<1> QED BY <1>1, <1>2, <1>3 DEF TimerInv

\* Every step preserves the kernel's invariant and the types, and moves each timer in
\* one of the ways above.
LEMMA TimerNext ==
    ASSUME TasksAssumption, TimeAssumption, TimerAssumption, TimerInv, Next
    PROVE  /\ KernelInv' /\ TimersTyped'
           /\ \A t \in Timers : Moves(t)
<1>1. KernelInv /\ TimersTyped /\ pesudo_timer_list \subseteq Linked
      /\ \A t \in Timers : "IDLE" \notin state[t]
  BY DEF TimerInv, Shape, TimersTyped
<1>2. CASE KernelNext /\ UNCHANGED timerVars
  <2>1. KernelInv'
    BY <1>1, <1>2, KernelNextInv
  <2>2. TimersTyped'
    BY <1>1, <1>2 DEF TimersTyped, timerVars
  <2> QED BY <1>1, <1>2, <2>1, <2>2, KernelLeavesTimers DEF Moves
<1>3. CASE TimerDue /\ UNCHANGED timerVars
  <2>1. PICK u \in Timers : VisitTimerDue(u)
    BY <1>3 DEF TimerDue
  <2>2. u \in Tasks
    BY DEF TasksAssumption
  <2>3. KernelInv'
    BY <1>1, <2>1, <2>2, TimerDueInv
  <2>4. TimersTyped'
    BY <1>1, <1>3 DEF TimersTyped, timerVars
  <2> QED BY <1>1, <1>3, <2>1, <2>2, <2>3, <2>4, TimerDueMoves DEF Moves
<1>4. CASE TimerReturns
  <2>1. KernelInv'
    BY <1>1, <1>4, TimerReturnsInv
  <2>2. TimersTyped'
    BY <1>1, <1>4 DEF TimersTyped, timerVars, TimerReturns
  <2> QED BY <1>1, <1>4, <2>1, <2>2, TimerReturnsMoves DEF Moves
<1>5. CASE TimerCall
  <2>1. PICK u \in Timers :
           \/ \E ms \in Timeouts, period \in BOOLEAN : pesudo_timer_create(u, ms, period)
           \/ pesudo_timer_delete(u)
           \/ \E ms \in Timeouts \cup {0} : pesudo_timer_start(u, ms)
           \/ pesudo_timer_stop(u)
    BY <1>5 DEF TimerCall
  <2>2. KernelInv'
    BY <1>1, <2>1, TimerCallInv
  <2>3. /\ \E ms \in Timeouts \cup {0} :
              timeout_ms' \in {timeout_ms, [timeout_ms EXCEPT ![u] = ms]}
        /\ \E period \in BOOLEAN :
              is_period' \in {is_period, [is_period EXCEPT ![u] = period]}
        /\ pesudo_timer_list' \subseteq pesudo_timer_list \cup {u}
    <3>1. CASE \E ms \in Timeouts, period \in BOOLEAN : pesudo_timer_create(u, ms, period)
      BY <3>1 DEF pesudo_timer_create
    <3>2. CASE pesudo_timer_delete(u)
      BY <3>2 DEF pesudo_timer_delete
    <3>3. CASE \E ms \in Timeouts \cup {0} : pesudo_timer_start(u, ms)
      <4>1. PICK ms \in Timeouts \cup {0} : pesudo_timer_start(u, ms)
        BY <3>3
      <4>2. timeout_ms' = [timeout_ms EXCEPT ![u] = IF ms = 0 THEN timeout_ms[u] ELSE ms]
            /\ UNCHANGED <<pesudo_timer_list, is_period>>
        BY <4>1 DEF pesudo_timer_start
      <4>3. timeout_ms[u] \in Timeouts \cup {0}
        BY <1>1 DEF TimersTyped
      <4> QED BY <4>2, <4>3
    <3>4. CASE pesudo_timer_stop(u)
      BY <3>4 DEF pesudo_timer_stop, timerVars
    <3> QED BY <2>1, <3>1, <3>2, <3>3, <3>4
  <2>4. TimersTyped'
    BY <1>1, <2>3 DEF TimersTyped
  <2> QED BY <1>1, <2>1, <2>2, <2>4, TimerCallMoves DEF Moves
<1> QED BY <1>2, <1>3, <1>4, <1>5 DEF Next, KernelNext

\* A timer is armed by pesudo_timer_start() only, and runs only when it was ready.
LEMMA ArmedAndRun ==
    ASSUME NEW t \in Timers, Moves(t)
    PROVE  (Armed(t) <=> IsStarted(t)) /\ (Fires(t) <=> IsRun(t))
<1> USE DEF Armed, Fires, InTask, FieldsKept, IsRun, IsStarted
<1>1. CASE Stays(t)
  BY <1>1 DEF Stays
<1>2. CASE IsRun(t)
  BY <1>2
<1>3. CASE FallsDue(t)
  BY <1>3 DEF FallsDue
<1>4. CASE Returns(t)
  BY <1>4 DEF Returns
<1>5. CASE IsCreated(t)
  BY <1>5 DEF IsCreated
<1>6. CASE IsDeleted(t)
  BY <1>6 DEF IsDeleted
<1>7. CASE IsStarted(t)
  BY <1>7
<1>8. CASE IsStopped(t)
  BY <1>8 DEF IsStopped
<1> QED BY <1>1, <1>2, <1>3, <1>4, <1>5, <1>6, <1>7, <1>8 DEF Moves

\* What a step does to the history of a timer.
LEMMA HistoryStep ==
    ASSUME HistoryTyped, MCNext, NEW t \in Timers, Moves(t)
    PROVE  /\ started'[t] = IF IsStarted(t) THEN now ELSE started[t]
           /\ fired'[t] = IF IsStarted(t) \/ t \notin Linked' THEN 0
                          ELSE IF IsRun(t) THEN fired[t] + 1 ELSE fired[t]
           /\ t \in quiet' <=> \/ Silenced(t) \/ t \notin Linked'
                               \/ t \in quiet /\ ~IsStarted(t)
<1>1. (Armed(t) <=> IsStarted(t)) /\ (Fires(t) <=> IsRun(t))
  BY ArmedAndRun
<1>2. /\ started'[t] = IF Armed(t) THEN now ELSE started[t]
      /\ fired'[t] = IF Armed(t) \/ t \notin Linked' THEN 0
                     ELSE IF Fires(t) THEN fired[t] + 1 ELSE fired[t]
      /\ t \in quiet' <=> \/ Silenced(t) \/ t \notin Linked'
                          \/ t \in quiet /\ ~Armed(t)
  BY DEF MCNext
<1> QED BY <1>1, <1>2

\* The history keeps its types, and no start lies in the future.
LEMMA HistoryTypedStep ==
    ASSUME KernelInv, HistoryTyped, MCNext, \A t \in Timers : Moves(t)
    PROVE  HistoryTyped'
<1>1. now \in Nat
  BY DEF KernelInv, KernelTypeOK
<1>2. /\ started' = [t \in Timers |-> IF Armed(t) THEN now ELSE started[t]]
      /\ fired' = [t \in Timers |-> IF Armed(t) \/ t \notin Linked' THEN 0
                                    ELSE IF Fires(t) THEN fired[t] + 1 ELSE fired[t]]
      /\ quiet' \subseteq Timers
  BY DEF MCNext
<1>3. \A t \in Timers : started[t] \in Nat /\ fired[t] \in Nat /\ started[t] <= now
  BY DEF HistoryTyped
<1>4. ASSUME NEW t \in Timers
      PROVE  now' \in {now, now + 1} /\ started'[t] \in {now, started[t]}
  <2>1. Moves(t)
    OBVIOUS
  <2>2. now' \in {now, now + 1}
    BY <2>1 DEF Moves, Stays, IsRun, FallsDue, Returns, IsCreated, IsDeleted, IsStarted, IsStopped
  <2> QED BY <1>2, <2>2
<1>5. ASSUME NEW t \in Timers PROVE started'[t] \in Nat /\ started'[t] <= now'
  BY <1>1, <1>3, <1>4
<1>6. ASSUME NEW t \in Timers PROVE fired'[t] \in Nat
  <2>1. fired'[t] \in {0, fired[t], fired[t] + 1}
    BY <1>2
  <2> QED BY <1>3, <2>1
<1> QED BY <1>2, <1>5, <1>6 DEF HistoryTyped

\* A step keeps a timer's shape.
LEMMA ShapeStep ==
    ASSUME TimerInv, MCNext, NEW t \in Timers, Moves(t)
    PROVE  Shape(t)'
<1> USE DEF FieldsKept
<1>1. Shape(t) /\ (t \in pesudo_timer_list => t \in Linked /\ state[t] \in TimerStates)
      /\ (t \notin Linked => state[t] = {}) /\ "IDLE" \notin state[t]
  BY DEF TimerInv, Shape
<1>2. t \notin Linked' => fired'[t] = 0
  <2>1. HistoryTyped
    BY DEF TimerInv
  <2> QED BY <2>1, HistoryStep
<1>3. /\ t \in pesudo_timer_list' => t \in Linked' /\ state'[t] \in TimerStates
      /\ t \notin Linked' => state'[t] = {}
      /\ "IDLE" \notin state'[t]
  <2>1. CASE Stays(t)
    BY <1>1, <2>1 DEF Stays
  <2>2. CASE IsRun(t)
    BY <1>1, <2>2 DEF IsRun, TimerStates
  <2>3. CASE FallsDue(t)
    BY <1>1, <2>3 DEF FallsDue, TimerStates
  <2>4. CASE Returns(t)
    <3>1. state'[t] \in {{"SLEEP"}, {"SUSPEND"}}
      BY <2>4 DEF Returns
    <3>2. FieldsKept(t) /\ "RUNNING" \in state[t]
      BY <2>4 DEF Returns
    <3> QED BY <1>1, <3>1, <3>2 DEF TimerStates
  <2>5. CASE IsCreated(t)
    BY <1>1, <2>5 DEF IsCreated, TimerStates
  <2>6. CASE IsDeleted(t)
    BY <1>1, <2>6 DEF IsDeleted
  <2>7. CASE IsStarted(t)
    BY <1>1, <2>7 DEF IsStarted, TimerStates
  <2>8. CASE IsStopped(t)
    BY <1>1, <2>8 DEF IsStopped, TimerStates
  <2> QED BY <2>1, <2>2, <2>3, <2>4, <2>5, <2>6, <2>7, <2>8 DEF Moves
<1> QED BY <1>2, <1>3 DEF Shape

\* A step keeps a timer that nobody asked to fire silent.
LEMMA SilentStep ==
    ASSUME TimerInv, MCNext, NEW t \in Timers, Moves(t), Shape(t)'
    PROVE  Silent(t)'
<1> USE DEF FieldsKept
<1> DEFINE Busy == {"SLEEP", "READY", "RUNNING"}
<1>1. /\ KernelInv /\ HistoryTyped /\ TimersTyped /\ Silent(t)
      /\ t \in pesudo_timer_list => t \in Linked /\ state[t] \in TimerStates
      /\ t \notin Linked => state[t] = {}
  BY DEF TimerInv, Shape
<1> SUFFICES ASSUME t \in quiet' PROVE state'[t] \cap Busy = {}
  BY DEF Silent
<1>2. Silenced(t) \/ t \notin Linked' \/ (t \in quiet /\ ~IsStarted(t))
  BY <1>1, HistoryStep
<1>3. CASE t \notin Linked'
  BY <1>3 DEF Shape
<1>4. CASE t \in quiet /\ ~IsStarted(t)
  <2>1. state[t] \cap Busy = {}
    BY <1>1, <1>4 DEF Silent
  <2>2. CASE Stays(t)
    BY <2>1, <2>2 DEF Stays
  <2>3. CASE IsRun(t) \/ FallsDue(t) \/ Returns(t)
    BY <2>1, <2>3 DEF IsRun, FallsDue, Returns
  <2>4. CASE IsCreated(t)
    BY <2>4 DEF IsCreated
  <2>5. CASE IsDeleted(t)
    BY <2>1, <2>5 DEF IsDeleted
  <2>6. CASE IsStopped(t)
    BY <2>1, <2>6 DEF IsStopped
  <2> QED BY <1>4, <2>2, <2>3, <2>4, <2>5, <2>6 DEF Moves
<1>5. CASE Me # t /\ pesudo_timer_stop(t)
  <2>1. t \in Tasks /\ state \in [Tasks -> SUBSET Flags] /\ state[t] # {"RUNNING"}
    BY <1>1, <1>5, TasksAssumption DEF TasksAssumption, KernelInv, KernelTypeOK, LoopOnLiveTasks, Me
  <2>2. state'[t] = {"SUSPEND"}
    BY <1>5, <2>1 DEF pesudo_timer_stop
  <2> QED BY <2>2
<1>6. CASE /\ "RUNNING" \in state[t] /\ "RUNNING" \notin state'[t]
           /\ t \in pesudo_timer_list /\ ~is_period[t]
  <2>1. state[t] \in {{"RUNNING"}, {"RUNNING", "WANT_SUSPEND"}}
    BY <1>1, <1>6 DEF TimerStates
  <2>2. CASE Stays(t) \/ IsRun(t) \/ FallsDue(t) \/ IsStarted(t)
    BY <1>6, <2>1, <2>2 DEF Stays, IsRun, FallsDue, IsStarted
  <2>3. CASE Returns(t)
    <3>1. \A tmr \in FiringOf(t) : tmr.period = is_period[t]
      BY <1>6 DEF FiringOf
    <3>2. state'[t] = {"SUSPEND"}
      BY <1>6, <2>3, <3>1 DEF Returns
    <3> QED BY <3>2
  <2>4. CASE IsCreated(t)
    BY <2>4 DEF IsCreated
  <2>5. CASE IsDeleted(t)
    BY <1>6, <2>5 DEF IsDeleted
  <2>6. CASE IsStopped(t)
    BY <1>6, <2>6 DEF IsStopped
  <2> QED BY <2>2, <2>3, <2>4, <2>5, <2>6 DEF Moves
<1> QED BY <1>2, <1>3, <1>4, <1>5, <1>6 DEF Silenced

\* The arithmetic of the grid.
LEMMA NextPoint ==
    \A n, m \in Nat : n * m \in Nat /\ (n + 1) * m = n * m + m /\ 0 * m = 0
  OBVIOUS

\* A step keeps a timer on its grid.
LEMMA GridStep ==
    ASSUME TimerAssumption, TimerInv, MCNext, NEW t \in Timers, Moves(t)
    PROVE  Grid(t)'
<1> USE DEF FieldsKept
<1> SUFFICES ASSUME t \in pesudo_timer_list'
             PROVE  /\ started'[t] + fired'[t] * timeout_ms'[t] <= now'
                    /\ state'[t] \in {{"SLEEP"}, {"READY"}} =>
                          sleep_until'[t] = started'[t] + (fired'[t] + 1) * timeout_ms'[t]
                    /\ state'[t] = {"READY"} => sleep_until'[t] <= now'
                    /\ "RUNNING" \in state'[t] =>
                          sleep_until'[t] = started'[t] + fired'[t] * timeout_ms'[t]
  BY DEF Grid
<1>1. /\ KernelInv /\ HistoryTyped /\ TimersTyped
      /\ t \in pesudo_timer_list => t \in Linked /\ state[t] \in TimerStates
      /\ t \notin Linked => fired[t] = 0
  BY DEF TimerInv, Shape
<1>2. /\ now \in Nat /\ started[t] \in Nat /\ fired[t] \in Nat /\ sleep_until[t] \in Nat
      /\ started[t] <= now
  BY <1>1, TasksAssumption DEF TasksAssumption, KernelInv, KernelTypeOK, HistoryTyped
<1>3. KernelInv' /\ TimersTyped'
  BY TasksAssumption, TimeAssumption, TimerNext DEF MCNext
<1>4. timeout_ms[t] \in Nat /\ timeout_ms'[t] \in Nat
  <2>1. Timeouts \subseteq Nat
    BY DEF TimerAssumption
  <2>2. timeout_ms[t] \in Timeouts \cup {0} /\ timeout_ms'[t] \in Timeouts \cup {0}
    BY <1>1, <1>3 DEF TimersTyped
  <2>3. 0 \in Nat
    OBVIOUS
  <2> QED BY <2>1, <2>2, <2>3
<1>5. /\ started'[t] = IF IsStarted(t) THEN now ELSE started[t]
      /\ fired'[t] = IF IsStarted(t) \/ t \notin Linked' THEN 0
                     ELSE IF IsRun(t) THEN fired[t] + 1 ELSE fired[t]
  BY <1>1, HistoryStep
<1>6. ASSUME t \in pesudo_timer_list
      PROVE  /\ started[t] + fired[t] * timeout_ms[t] <= now
             /\ state[t] \in {{"SLEEP"}, {"READY"}} =>
                   sleep_until[t] = started[t] + (fired[t] + 1) * timeout_ms[t]
             /\ state[t] = {"READY"} => sleep_until[t] <= now
             /\ "RUNNING" \in state[t] =>
                   sleep_until[t] = started[t] + fired[t] * timeout_ms[t]
  BY <1>6 DEF TimerInv, Grid
<1>7. CASE IsStarted(t)
  <2>1. /\ started'[t] = now /\ fired'[t] = 0 /\ now' = now /\ state'[t] = {"SLEEP"}
        /\ sleep_until'[t] = now + timeout_ms'[t]
    BY <1>5, <1>7 DEF IsStarted
  <2>2. 0 * timeout_ms'[t] = 0 /\ (0 + 1) * timeout_ms'[t] = timeout_ms'[t]
    BY <1>4
  <2>3. "RUNNING" \notin state'[t] /\ state'[t] # {"READY"}
    BY <2>1
  <2> QED BY <1>2, <2>1, <2>2, <2>3
<1>8. CASE IsCreated(t)
  <2>1. /\ t \notin Linked /\ state'[t] = {"SUSPEND"} /\ now' = now /\ t \in Linked'
    BY <1>8 DEF IsCreated
  <2>2. ~IsStarted(t) /\ ~IsRun(t)
    BY <2>1 DEF IsStarted, IsRun
  <2>3. started'[t] = started[t] /\ fired'[t] = 0
    BY <1>1, <1>5, <2>1, <2>2
  <2>4. 0 * timeout_ms'[t] = 0
    BY <1>4
  <2>5. "RUNNING" \notin state'[t] /\ state'[t] \notin {{"SLEEP"}, {"READY"}}
    BY <2>1
  <2> QED BY <1>2, <2>1, <2>3, <2>4, <2>5
<1>9. ASSUME FieldsKept(t), t \in pesudo_timer_list, ~IsStarted(t)
      PROVE  /\ timeout_ms'[t] = timeout_ms[t] /\ started'[t] = started[t]
             /\ fired'[t] = IF IsRun(t) THEN fired[t] + 1 ELSE fired[t]
  BY <1>1, <1>5, <1>9
<1>10. CASE IsRun(t)
  <2>1. /\ FieldsKept(t) /\ state[t] = {"READY"} /\ state'[t] = {"RUNNING"}
        /\ sleep_until'[t] = sleep_until[t] /\ now' = now
    BY <1>10 DEF IsRun
  <2>2. t \in pesudo_timer_list /\ ~IsStarted(t)
    BY <2>1 DEF IsStarted
  <2>3. timeout_ms'[t] = timeout_ms[t] /\ started'[t] = started[t] /\ fired'[t] = fired[t] + 1
    BY <1>9, <1>10, <2>1, <2>2
  <2>4. sleep_until[t] = started[t] + (fired[t] + 1) * timeout_ms[t] /\ sleep_until[t] <= now
    BY <1>6, <2>1, <2>2
  <2>5. state'[t] \notin {{"SLEEP"}, {"READY"}}
    BY <2>1
  <2> QED BY <2>1, <2>3, <2>4, <2>5
<1>11. CASE FallsDue(t)
  <2>1. /\ FieldsKept(t) /\ "SLEEP" \in state[t] /\ state'[t] = {"READY"}
        /\ sleep_until'[t] = sleep_until[t] /\ now' = now /\ sleep_until[t] <= now
    BY <1>11 DEF FallsDue
  <2>2. t \in pesudo_timer_list /\ ~IsStarted(t) /\ ~IsRun(t)
    BY <2>1 DEF IsStarted, IsRun
  <2>3. timeout_ms'[t] = timeout_ms[t] /\ started'[t] = started[t] /\ fired'[t] = fired[t]
    BY <1>9, <2>1, <2>2
  <2>4. state[t] = {"SLEEP"}
    BY <1>1, <2>1, <2>2 DEF TimerStates
  <2>5. "RUNNING" \notin state'[t]
    BY <2>1
  <2> QED BY <1>6, <2>1, <2>2, <2>3, <2>4, <2>5
<1>12. CASE Returns(t)
  <2>1. FieldsKept(t) /\ "RUNNING" \in state[t] /\ now' = now /\ t \in pesudo_timer_list
    BY <1>12 DEF Returns
  <2>2. state'[t] \in {{"SLEEP"}, {"SUSPEND"}}
    BY <1>12 DEF Returns
  <2>3. ~IsStarted(t) /\ ~IsRun(t)
    BY <2>1 DEF IsStarted, IsRun
  <2>4. timeout_ms'[t] = timeout_ms[t] /\ started'[t] = started[t] /\ fired'[t] = fired[t]
    BY <1>9, <2>1, <2>3
  <2>5. /\ started[t] + fired[t] * timeout_ms[t] <= now
        /\ sleep_until[t] = started[t] + fired[t] * timeout_ms[t]
    BY <1>6, <2>1
  <2>6. "RUNNING" \notin state'[t] /\ state'[t] # {"READY"}
    BY <2>2
  <2>7. state'[t] = {"SLEEP"} => sleep_until'[t] = sleep_until[t] + timeout_ms[t]
    <3>1. \A tmr \in FiringOf(t) : tmr.ms = timeout_ms[t]
      BY <2>1 DEF FiringOf
    <3>2. ASSUME state'[t] = {"SLEEP"}
          PROVE  \E tmr \in FiringOf(t) : sleep_until'[t] = sleep_until[t] + tmr.ms
      BY <1>12, <3>2 DEF Returns
    <3> QED BY <3>1, <3>2
  <2>8. fired[t] * timeout_ms[t] \in Nat
        /\ (fired[t] + 1) * timeout_ms[t] = fired[t] * timeout_ms[t] + timeout_ms[t]
    BY <1>2, <1>4, NextPoint
  <2>9. state'[t] = {"SLEEP"} =>
           sleep_until'[t] = started[t] + (fired[t] + 1) * timeout_ms[t]
    BY <1>2, <1>4, <2>5, <2>7, <2>8
  <2> QED BY <2>1, <2>2, <2>4, <2>5, <2>6, <2>9
<1>13. CASE IsStopped(t)
  <2>1. /\ FieldsKept(t) /\ t \in pesudo_timer_list /\ now' = now
        /\ sleep_until'[t] = sleep_until[t]
        /\ state'[t] = IF state[t] = {"RUNNING"} THEN {"RUNNING", "WANT_SUSPEND"}
                       ELSE {"SUSPEND"}
    BY <1>13 DEF IsStopped
  <2>2. ~IsStarted(t) /\ ~IsRun(t)
    BY <2>1 DEF IsStarted, IsRun
  <2>3. timeout_ms'[t] = timeout_ms[t] /\ started'[t] = started[t] /\ fired'[t] = fired[t]
    BY <1>9, <2>1, <2>2
  <2>4. /\ state'[t] \notin {{"SLEEP"}, {"READY"}}
        /\ "RUNNING" \in state'[t] => "RUNNING" \in state[t]
    BY <2>1
  <2> QED BY <1>6, <2>1, <2>3, <2>4
<1>14. CASE Stays(t)
  <2>1. /\ FieldsKept(t) /\ t \in pesudo_timer_list /\ now' \in {now, now + 1}
        /\ sleep_until'[t] = sleep_until[t] /\ state'[t] = state[t]
    BY <1>14 DEF Stays
  <2>2. ~IsStarted(t) /\ ~IsRun(t)
    BY <2>1 DEF IsStarted, IsRun
  <2>3. timeout_ms'[t] = timeout_ms[t] /\ started'[t] = started[t] /\ fired'[t] = fired[t]
    BY <1>9, <2>1, <2>2
  <2>4. fired[t] * timeout_ms[t] \in Nat
    BY <1>2, <1>4, NextPoint
  <2>5. started[t] + fired[t] * timeout_ms[t] <= now'
    BY <1>2, <1>6, <2>1, <2>4
  <2>6. state'[t] = {"READY"} => sleep_until'[t] <= now'
    BY <1>2, <1>6, <2>1
  <2> QED BY <1>6, <2>1, <2>3, <2>5, <2>6
<1>15. ~IsDeleted(t)
  BY DEF IsDeleted
<1> QED BY <1>7, <1>8, <1>10, <1>11, <1>12, <1>13, <1>14, <1>15 DEF Moves

-----------------------------------------------------------------------------
(***************************************************************************)
(* Theorems.                                                               *)
(***************************************************************************)

\* Every step preserves the invariant of the timers.
LEMMA TimerNextInv ==
    ASSUME TasksAssumption, TimeAssumption, TimerAssumption, TimerInv, MCNext
    PROVE  TimerInv'
<1>1. KernelInv' /\ TimersTyped' /\ \A t \in Timers : Moves(t)
  BY TimerNext DEF MCNext
<1>2. HistoryTyped'
  BY <1>1, HistoryTypedStep DEF TimerInv
<1>3. ASSUME NEW t \in Timers PROVE Shape(t)' /\ Grid(t)' /\ Silent(t)'
  BY <1>1, ShapeStep, GridStep, SilentStep
<1> QED BY <1>1, <1>2, <1>3 DEF TimerInv

\* So do the steps that change nothing.
LEMMA TimerStutterInv ==
    ASSUME TimerInv, UNCHANGED MCVars
    PROVE  TimerInv'
<1>1. UNCHANGED <<kernelVars, timerVars, started, fired, quiet>>
  BY DEF MCVars, vars
<1>2. KernelInv'
  BY <1>1, KernelStutterInv DEF TimerInv
<1>3. UNCHANGED <<now, list, state, sleep_until, timeout_ms, is_period, pesudo_timer_list>>
  BY <1>1 DEF kernelVars, runFields, timerVars
<1>4. TimersTyped' /\ HistoryTyped'
  BY <1>1, <1>3 DEF TimerInv, TimersTyped, HistoryTyped
<1>5. ASSUME NEW t \in Timers PROVE Shape(t)' /\ Grid(t)' /\ Silent(t)'
  BY <1>1, <1>3 DEF TimerInv, Shape, Grid, Silent, Linked
<1> QED BY <1>2, <1>4, <1>5 DEF TimerInv

\* TimerInv is an invariant of the loop, the tasks and the timers.
THEOREM TimerInvariant == MCSpec => []TimerInv
<1>1. MCInit => TimerInv
  BY TasksAssumption, TimerInitInv
<1>2. TimerInv /\ [MCNext]_MCVars => TimerInv'
  BY TasksAssumption, TimeAssumption, TimerAssumption, TimerNextInv, TimerStutterInv
<1> QED BY <1>1, <1>2, PTL DEF MCSpec

\* Every field of the timers and of the kernel under them stays in its type.
THEOREM TimerIsTyped == MCSpec => []TypeOK
<1>1. TimerInv => TypeOK
  BY DEF TimerInv, KernelInv, TimersTyped, TypeOK
<1> QED BY <1>1, TimerInvariant, PTL

\* However late the loop is with a timer, its handler never runs for the n-th time
\* before n timeouts have passed since the start (pesudo_timer_callback()).
THEOREM NeverAheadOfItsPeriod == MCSpec => []NeverAhead
<1>1. ASSUME TimerInv, NEW t \in pesudo_timer_list
      PROVE  fired[t] * timeout_ms[t] <= now - started[t]
  <2>1. /\ t \in Timers /\ started[t] + fired[t] * timeout_ms[t] <= now
        /\ TimersTyped /\ HistoryTyped /\ KernelInv
    BY <1>1 DEF TimerInv, TimersTyped, Grid
  <2>2. now \in Nat /\ started[t] \in Nat /\ fired[t] \in Nat
    BY <2>1 DEF HistoryTyped, KernelInv, KernelTypeOK
  <2>3. timeout_ms[t] \in Nat
    <3>1. Timeouts \subseteq Nat
      BY TimerAssumption DEF TimerAssumption
    <3>2. timeout_ms[t] \in Timeouts \cup {0} /\ 0 \in Nat
      BY <2>1 DEF TimersTyped
    <3> QED BY <3>1, <3>2
  <2>4. fired[t] * timeout_ms[t] \in Nat
    BY <2>2, <2>3, NextPoint
  <2> QED BY <2>1, <2>2, <2>4
<1>2. TimerInv => NeverAhead
  BY <1>1 DEF NeverAhead
<1> QED BY <1>2, TimerInvariant, PTL

\* The deadlines of a periodic timer do not drift, whatever time the loop and the
\* handlers take: each is a whole number of periods after the start.
THEOREM DeadlinesDoNotDrift == MCSpec => []NoDrift
<1>1. ASSUME TimerInv, NEW t \in pesudo_timer_list, "SLEEP" \in state[t]
      PROVE  sleep_until[t] = started[t] + (fired[t] + 1) * timeout_ms[t]
  <2>1. t \in Timers /\ state[t] \in TimerStates
    BY <1>1 DEF TimerInv, TimersTyped, Shape
  <2>2. state[t] = {"SLEEP"}
    BY <1>1, <2>1 DEF TimerStates
  <2> QED BY <1>1, <2>1, <2>2 DEF TimerInv, Grid
<1>2. TimerInv => NoDrift
  BY <1>1 DEF NoDrift
<1> QED BY <1>2, TimerInvariant, PTL

\* A timer that another task stopped, a one-shot timer that fired, and one that was
\* deleted at rest never run their handler before the next pesudo_timer_start().
THEOREM SilenceIsKept == MCSpec => StoppedStaysSilent
<1>1. ASSUME TimerInv, MCNext, NEW t \in Timers, Fires(t)
      PROVE  t \notin quiet
  <2>1. Moves(t)
    BY <1>1, TasksAssumption, TimeAssumption, TimerAssumption, TimerNext DEF MCNext
  <2>2. state[t] = {"READY"}
    BY <1>1, <2>1, ArmedAndRun DEF IsRun
  <2> QED BY <1>1, <2>2 DEF TimerInv, Silent
<1>2. TimerInv /\ [MCNext]_MCVars => [\A t \in Timers : Fires(t) => t \notin quiet]_MCVars
  BY <1>1
<1> QED BY <1>2, TimerInvariant, PTL DEF MCSpec, StoppedStaysSilent
=============================================================================
