----------------------------- MODULE MCPesudoSem -----------------------------
(***************************************************************************)
(* PesudoSem for TLC.  The tasks use one semaphore and return; of the      *)
(* pesudo_task_* calls the model keeps the suspend and delete requests     *)
(* that reach a task in the middle of a wait.  A history variable counts   *)
(* the tokens that come too late for the deferred work of a pass.          *)
(***************************************************************************)
EXTENDS PesudoSem

CONSTANTS a, b, c, s1

MCBoot == <<a, b, c>>
MCOpt == [s \in Sems |-> "LIFO"]

Meddle == \E t \in Tasks : pesudo_task_suspend(t) \/ pesudo_task_resume(t) \/ pesudo_task_delete(t)

VARIABLE late  \* tokens interrupts released since the deferred work tested the count

KernelOrSem ==
    \/ (LoopStep \/ HandlerReturns) /\ Idle /\ UNCHANGED semVars
    \/ Me = c /\ Meddle /\ Idle /\ UNCHANGED semVars
    \/ Interrupt
    \/ SemStep
    \/ SemCall

MCVars == <<vars, late>>

MCInit == Init /\ late = [s \in Sems |-> 0]

MCNext ==
    /\ KernelOrSem
    /\ late' = [s \in Sems |-> IF s \in drained' \cap drained
                               THEN late[s] + (isrGiven'[s] - isrGiven[s])
                               ELSE 0]

MCSpec == MCInit /\ [][MCNext]_MCVars

\* A token that lay in the semaphore when the deferred work of a pass came to it, with
\* a task waiting, has gone on its way to some waiter when the scan is over, whatever
\* interrupts came between the test of the count, the scan and the store.
TokensAreDealt ==
    \A s \in pesudo_sem_list :
        /\ pc = "drain" /\ Idle /\ s \in drained
        /\ Opt[s] \in {"FIFO", "LIFO"}
        /\ count[s] > late[s] /\ Waiting("SEM", s) # {}
        => GrantedTo(s) # {}
=============================================================================
