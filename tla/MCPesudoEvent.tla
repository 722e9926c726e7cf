---------------------------- MODULE MCPesudoEvent ----------------------------
(***************************************************************************)
(* PesudoEvent for TLC.  Tasks a and b receive from one event of any       *)
(* option, with any wish, and return; c creates, sends, sets and deletes   *)
(* it.  The bits are interchangeable.                                      *)
(***************************************************************************)
EXTENDS PesudoEvent

CONSTANTS a, b, c, e1, x, y

MCBoot == <<a, b, c>>
MCFlags == {{"OR"}, {"AND", "CLEAR"}, {"CLEAR"}}
MCFlagsOf == (a :> {{"OR"}, {"AND", "CLEAR"}}) @@ (b :> {{"CLEAR"}})

BitSymmetry == Permutations(Bits)

MCNext ==
    \/ (LoopStep \/ HandlerReturns) /\ Idle /\ UNCHANGED eventVars
    \/ Interrupt
    \/ EventStep
    \/ \E e \in Events : Me = c /\ SenderCall(e)
    \/ \E e \in Events : Me \in {a, b} /\ ReceiverCall(e, MCFlagsOf[Me])

MCSpec == Init /\ [][MCNext]_vars
=============================================================================
