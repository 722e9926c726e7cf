----------------------------- MODULE PesudoTimer -----------------------------
(***************************************************************************)
(* The software timers of PesudoOS (pesudo_timer.c).  A timer is a kernel  *)
(* task with p_timer set: armed, it sleeps; due, the loop makes it ready   *)
(* and runs its handler on the next pass; and pesudo_timer_callback()      *)
(* decides what follows.  The task identifies the timer.                   *)
(***************************************************************************)
EXTENDS PesudoOS

CONSTANT Timeouts   \* bound: timeout_ms of the timers (PESUDO_TIMER_MS_MIN applied)

ASSUME TimerAssumption == Timeouts \subseteq Nat \ {0}

VARIABLES
    pesudo_timer_list,  \* timers created and not deleted
    timeout_ms,
    is_period

timerVars == <<pesudo_timer_list, timeout_ms, is_period>>
vars == <<kernelVars, timerVars>>

TypeOK ==
    /\ KernelTypeOK
    /\ pesudo_timer_list \subseteq Timers
    /\ timeout_ms \in [Timers -> Timeouts \cup {0}]
    /\ is_period \in [Timers -> BOOLEAN]

Init ==
    /\ KernelInit
    /\ pesudo_timer_list = {}
    /\ timeout_ms = [t \in Timers |-> 0]
    /\ is_period = [t \in Timers |-> FALSE]

-----------------------------------------------------------------------------
(***************************************************************************)
(* pesudo_timer_callback(): what a timer's task does after its handler.    *)
(* A deleted timer whose task is still linked reads freed memory: any      *)
(* values may be found there.                                              *)
(***************************************************************************)
FiringOf(t) ==
    IF t \in pesudo_timer_list
    THEN {[ms |-> timeout_ms[t], period |-> is_period[t]]}
    ELSE [ms : Timeouts, period : BOOLEAN]

\* Mutant: arms the timer again without adding the period.
CallbackNoPeriod(t) ==
    \E tmr \in FiringOf(t) :
        /\ state' = [state EXCEPT ![t] = IF tmr.period THEN {"SLEEP"} ELSE {"SUSPEND"}]
        /\ UNCHANGED sleep_until

\* Mutant: counts the period from the clock instead of the last deadline.
CallbackFromNow(t) ==
    \E tmr \in FiringOf(t) :
        IF tmr.period
        THEN /\ sleep_until' = [sleep_until EXCEPT ![t] = now + tmr.ms]
             /\ state' = [state EXCEPT ![t] = {"SLEEP"}]
        ELSE /\ state' = [state EXCEPT ![t] = {"SUSPEND"}]
             /\ UNCHANGED sleep_until

pesudo_timer_callback(t) ==
    \E tmr \in FiringOf(t) :
        IF tmr.period
        THEN /\ sleep_until' = [sleep_until EXCEPT ![t] = @ + tmr.ms]
             /\ state' = [state EXCEPT ![t] = {"SLEEP"}]
        ELSE /\ state' = [state EXCEPT ![t] = {"SUSPEND"}]
             /\ UNCHANGED sleep_until

\* the handler of a timer returns to the loop
TimerReturns ==
    /\ InTask
    /\ Me \in Timers
    /\ IF "RUNNING" \in state[Me]
       THEN pesudo_timer_callback(Me)
       ELSE UNCHANGED <<state, sleep_until>>
    /\ BackInLoop
    /\ UNCHANGED <<now, list, objFields, first_run_until, func_exit_pos, prev_ticks,
                   tmp, freed, current, ret, delay_until, timerVars>>

pesudo_timer_create(t, ms, period) ==
    /\ InTask
    /\ t \in Timers
    /\ Allocate(t, {"SUSPEND"}, now)
    /\ pesudo_timer_list' = pesudo_timer_list \cup {t}
    /\ timeout_ms' = [timeout_ms EXCEPT ![t] = ms]
    /\ is_period' = [is_period EXCEPT ![t] = period]

\* only a timer at rest leaves the task list: the task of any other stays and fires
pesudo_timer_delete(t) ==
    /\ InTask
    /\ t \in pesudo_timer_list
    /\ pesudo_timer_list' = pesudo_timer_list \ {t}
    /\ \/ Unlink(t)
       \/ MarkDelete(t)
       \/ ~Active(t) /\ (AtRest(t) => t = current) /\ UNCHANGED <<list, state, freed>>
    /\ UNCHANGED <<now, objFields, runFields, pc, task, tmp, current, ret, delay_until,
                   timeout_ms, is_period>>

\* Mutant: keeps the deadline as the timer's timeout.
StartKeepsDeadline(t, ms) ==
    /\ InTask
    /\ t \in pesudo_timer_list
    /\ state[t] = {"SUSPEND"}
    /\ now + ms <= Horizon
    /\ timeout_ms' = [timeout_ms EXCEPT ![t] = now + ms]
    /\ sleep_until' = [sleep_until EXCEPT ![t] = now + ms]
    /\ state' = [state EXCEPT ![t] = {"SLEEP"}]
    /\ UNCHANGED <<now, list, objFields, first_run_until, func_exit_pos, prev_ticks,
                   loopVars, pesudo_timer_list, is_period>>

\* ms = 0 keeps the timeout given at creation or by the last start
pesudo_timer_start(t, ms) ==
    /\ InTask
    /\ t \in pesudo_timer_list
    /\ state[t] = {"SUSPEND"}
    /\ timeout_ms' = [timeout_ms EXCEPT ![t] = IF ms = 0 THEN @ ELSE ms]
    /\ now + timeout_ms'[t] <= Horizon
    /\ sleep_until' = [sleep_until EXCEPT ![t] = now + timeout_ms'[t]]
    /\ state' = [state EXCEPT ![t] = {"SLEEP"}]
    /\ UNCHANGED <<now, list, objFields, first_run_until, func_exit_pos, prev_ticks,
                   loopVars, pesudo_timer_list, is_period>>

\* Mutant: misses a timer that is due and waits for the loop to run it.
StopSleepingOnly(t) ==
    /\ InTask
    /\ t \in pesudo_timer_list
    /\ state' = [state EXCEPT ![t] =
                   IF @ = {"RUNNING"} THEN @ \cup {"WANT_SUSPEND"}
                   ELSE IF @ = {"SLEEP"} THEN {"SUSPEND"} ELSE @]
    /\ UNCHANGED <<now, list, objFields, runFields, loopVars, timerVars>>

pesudo_timer_stop(t) ==
    /\ InTask
    /\ t \in pesudo_timer_list
    /\ state' = [state EXCEPT ![t] =
                   IF @ = {"RUNNING"} THEN @ \cup {"WANT_SUSPEND"} ELSE {"SUSPEND"}]
    /\ UNCHANGED <<now, list, objFields, runFields, loopVars, timerVars>>

TimerCall ==
    \E t \in Timers :
        \/ \E ms \in Timeouts, period \in BOOLEAN : pesudo_timer_create(t, ms, period)
        \/ pesudo_timer_delete(t)
        \/ \E ms \in Timeouts \cup {0} : pesudo_timer_start(t, ms)
        \/ pesudo_timer_stop(t)

TimerDue == \E t \in Timers : VisitTimerDue(t)

-----------------------------------------------------------------------------
Next ==
    \/ (Tick \/ LoopStep \/ StartPass \/ HandlerReturns \/ TaskCall) /\ UNCHANGED timerVars
    \/ TimerDue /\ UNCHANGED timerVars
    \/ TimerReturns
    \/ TimerCall

(***************************************************************************)
(* Fairness: the processor keeps executing the loop, a handler eventually  *)
(* returns or gives the processor back (the system is cooperative and      *)
(* offers nothing else), and the clock interrupt keeps coming.             *)
(***************************************************************************)
LoopRuns == (LoopStep \/ StartPass \/ TimerDue \/ SleepTail \/ DelayEnds) /\ UNCHANGED timerVars

HandlerEnds == (HandlerReturns /\ UNCHANGED timerVars) \/ TimerReturns

Fairness ==
    /\ WF_vars(LoopRuns)
    /\ WF_vars(HandlerEnds)
    /\ WF_vars(Tick /\ UNCHANGED timerVars)

Spec == Init /\ [][Next]_vars /\ Fairness
=============================================================================
