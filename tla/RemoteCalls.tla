---------------------------- MODULE RemoteCalls ----------------------------
(***************************************************************************)
(* What a Modbus line promises an application, whatever it loses: the      *)
(* requests are numbered as they are issued; each is performed at most     *)
(* once and in the order of issue; an answer is accepted at most once, in  *)
(* that order, and only of a request that was performed or refused.        *)
(***************************************************************************)
EXTENDS Naturals, Sequences

VARIABLES
    issued,     \* number of requests issued
    answered,   \* the requests the slave has performed or refused, in order
    accepted    \* the requests whose answers were taken, in order

vars == <<issued, answered, accepted>>

Init ==
    /\ issued = 0
    /\ answered = <<>>
    /\ accepted = <<>>

Issue ==
    /\ issued' = issued + 1
    /\ UNCHANGED <<answered, accepted>>

Later(r, log) == \A i \in 1..Len(log) : log[i] < r

Perform ==
    /\ \E r \in 1..issued : Later(r, answered) /\ answered' = Append(answered, r)
    /\ UNCHANGED <<issued, accepted>>

Accept ==
    /\ \E i \in 1..Len(answered) :
         Later(answered[i], accepted) /\ accepted' = Append(accepted, answered[i])
    /\ UNCHANGED <<issued, answered>>

Next == Issue \/ Perform \/ Accept

Spec == Init /\ [][Next]_vars
=============================================================================
