---------------------------- MODULE MCPesudoTimer ----------------------------
(***************************************************************************)
(* PesudoTimer for TLC: a plain task and a timer, with three history       *)
(* variables that remember what was asked of the timer.                    *)
(***************************************************************************)
EXTENDS PesudoTimer

CONSTANTS a, c

MCBoot == <<a>>

VARIABLES
    started,  \* the tick of the last effective pesudo_timer_start()
    fired,    \* how often the handler was run since
    quiet     \* the timers that no start asked to fire

MCVars == <<vars, started, fired, quiet>>

MCInit ==
    /\ Init
    /\ started = [t \in Timers |-> 0]
    /\ fired = [t \in Timers |-> 0]
    /\ quiet = Timers

Armed(t) == "SLEEP" \in state'[t] /\ "SLEEP" \notin state[t] /\ InTask /\ pc' = "running"

Fires(t) == pc = "foreach" /\ "RUNNING" \in state'[t] /\ "RUNNING" \notin state[t]

\* the handler of a one-shot timer returned, or another task stopped the timer
Silenced(t) ==
    \/ "RUNNING" \in state[t] /\ "RUNNING" \notin state'[t] /\ t \in pesudo_timer_list /\ ~is_period[t]
    \/ Me # t /\ pesudo_timer_stop(t)

MCNext ==
    /\ Next
    /\ started' = [t \in Timers |-> IF Armed(t) THEN now ELSE started[t]]
    /\ fired' = [t \in Timers |-> IF Armed(t) \/ t \notin Linked' THEN 0
                                  ELSE IF Fires(t) THEN fired[t] + 1 ELSE fired[t]]
    /\ quiet' = {t \in Timers : \/ Silenced(t)
                                \/ t \notin Linked'
                                \/ t \in quiet /\ ~Armed(t)}

MCSpec == MCInit /\ [][MCNext]_MCVars /\ Fairness

\* A timer never fires more often than its period allows since it was started: the
\* n-th run of the handler is not before n timeouts after pesudo_timer_start(), however
\* late the loop was with the runs before it.
NeverAhead ==
    \A t \in pesudo_timer_list : fired[t] * timeout_ms[t] <= now - started[t]

\* A timer another task stopped, a one-shot timer that fired, and a timer that was
\* deleted at rest do not run their handler again before the next pesudo_timer_start().
StoppedStaysSilent == [][\A t \in Timers : Fires(t) => t \notin quiet]_MCVars

\* The deadlines of a periodic timer stay on the grid its start laid down: they do
\* not drift with the time the loop and the handlers take.
NoDrift ==
    \A t \in pesudo_timer_list :
        is_period[t] /\ "SLEEP" \in state[t] =>
            sleep_until[t] = started[t] + (fired[t] + 1) * timeout_ms[t]

\* A timer whose deadline is within reach of the clock is served: its handler runs,
\* it is stopped or deleted first, or a handler frees the task the loop goes to next.
DueTimerServed ==
    \A t \in Timers :
        ("SLEEP" \in state[t] /\ sleep_until[t] <= Horizon) ~>
            ("RUNNING" \in state[t] \/ state[t] \in {{"SUSPEND"}, {}} \/ freed # NoTask)

\* A ready task gets the processor, unless it is suspended or deleted first; and a
\* task in pesudo_task_sleep() or pesudo_task_sleep_until() comes back out of it; as
\* long as no handler frees the task the loop goes to next.
ReadyRuns ==
    \A t \in Tasks \ Timers :
        /\ state[t] = {"READY"} ~> state[t] # {"READY"} \/ freed # NoTask
        /\ "SLEEP" \in state[t] ~> "SLEEP" \notin state[t] \/ freed # NoTask
=============================================================================
