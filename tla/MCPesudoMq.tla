----------------------------- MODULE MCPesudoMq -----------------------------
(***************************************************************************)
(* PesudoMq for TLC: tasks and an interrupt use one queue, and return.     *)
(***************************************************************************)
EXTENDS PesudoMq

CONSTANTS a, b, c, q1, m1, m2

MCBoot == <<a, b, c>>

MCNext ==
    \/ (LoopStep \/ HandlerReturns) /\ Idle /\ UNCHANGED mqVars
    \/ Interrupt
    \/ MqStep
    \/ MqCall

MCSpec == Init /\ [][MCNext]_vars
=============================================================================
