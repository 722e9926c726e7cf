---------------------------- MODULE MCPesudoMutex ----------------------------
(***************************************************************************)
(* PesudoMutex for TLC: three tasks and one mutex.  Of the pesudo_task_*   *)
(* calls the model keeps those that reach a task in the middle of a mutex  *)
(* call, suspend, resume and delete, made by task c.                       *)
(***************************************************************************)
EXTENDS PesudoMutex

CONSTANTS a, b, c, m1

MCBoot == <<a, b, c>>
MCOpt == [m \in Mutexes |-> "FIFO"]

Meddle == \E t \in Tasks : pesudo_task_suspend(t) \/ pesudo_task_resume(t) \/ pesudo_task_delete(t)

MCNext ==
    \/ (Tick \/ LoopStep \/ StartPass \/ HandlerReturns) /\ UNCHANGED mutexVars
    \/ Me = c /\ Meddle /\ UNCHANGED mutexVars
    \/ MutexCall

MCSpec == Init /\ [][MCNext]_vars /\ Fairness
=============================================================================
