----------------------------- MODULE MCPesudoOS -----------------------------
(***************************************************************************)
(* PesudoOS for TLC: three plain tasks, two of them created at boot, and   *)
(* two history variables the properties need.                              *)
(***************************************************************************)
EXTENDS PesudoOS

CONSTANTS a, b, c

MCBoot == <<a, b>>

VARIABLES
    overtakers,  \* for a ready task, the tasks dispatched while it has been ready
                 \* and the loop's successor not freed, and not freed since
    start_at     \* for a new task, the tick its creator asked it to start at

MCVars == <<kernelVars, overtakers, start_at>>

MCInit ==
    /\ KernelInit
    /\ overtakers = [t \in Tasks |-> {}]
    /\ start_at = [t \in Tasks |-> 0]

\* the loop enters t's handler from its beginning
Starts(t) == pc = "foreach" /\ "RUNNING" \in state'[t] /\ "RUNNING" \notin state[t]

StaysReady(t) == state[t] = {"READY"} /\ state'[t] = {"READY"}

MCNext ==
    /\ \/ \E t \in Tasks, ms \in Delays \cup {0} :
            /\ pesudo_task_create(t, ms)
            /\ start_at' = [start_at EXCEPT ![t] = now + ms]
       \/ /\ KernelNext
          /\ Linked' \subseteq Linked
          /\ start_at' = [t \in Tasks |-> IF state'[t] = {"IDLE"} THEN start_at[t] ELSE 0]
    /\ overtakers' = [u \in Tasks |->
            IF StaysReady(u) /\ freed' = NoTask
            THEN (overtakers[u] \cap Linked') \cup {t \in Tasks : Starts(t)}
            ELSE {}]

MCSpec == MCInit /\ [][MCNext]_MCVars

\* Round robin: while a task is ready, each other task starts its handler at most
\* once before this one does, whatever is created, deleted or resumed meanwhile.  The
\* count starts anew when a handler deletes the task the loop goes to next: created
\* again at the same address it is at the end of the list, and the loop goes there.
BoundedOvertaking ==
    [][\A t, u \in Tasks : Starts(t) /\ StaysReady(u) => t \notin overtakers[u]]_MCVars

\* A new task does not start before the delay given to pesudo_task_create() is over.
FirstRunOnTime ==
    [][\A t \in Tasks : state[t] = {"IDLE"} /\ Starts(t) => start_at[t] <= now]_MCVars

\* first_run_until is read of idle tasks only
View == <<now, list, state, objFields, sleep_until, func_exit_pos, prev_ticks, loopVars,
          overtakers, start_at,
          [t \in Tasks |-> IF state[t] = {"IDLE"} THEN first_run_until[t] ELSE 0]>>
=============================================================================
