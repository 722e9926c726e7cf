----------------------------- MODULE BoundedFifo -----------------------------
(***************************************************************************)
(* What a message queue promises: messages come out in the order they went *)
(* in, each once, unchanged, and never more than the size are inside.      *)
(***************************************************************************)
EXTENDS Naturals, Sequences

CONSTANTS Queues, Clients, Msgs

VARIABLES
    size,    \* how many messages fit, 0 for a queue that does not exist
    queue,   \* the messages inside
    inbox    \* the message each client received last

Init ==
    /\ size = [q \in Queues |-> 0]
    /\ queue = [q \in Queues |-> <<>>]
    /\ inbox \in [Clients -> Msgs]

Resize(q) ==
    /\ size' = [size EXCEPT ![q] = size'[q]]
    /\ size'[q] \in Nat
    /\ queue' = [queue EXCEPT ![q] = <<>>]
    /\ UNCHANGED inbox

Flush(q) ==
    /\ queue' = [queue EXCEPT ![q] = <<>>]
    /\ UNCHANGED <<size, inbox>>

Send(q, m) ==
    /\ Len(queue[q]) < size[q]
    /\ queue' = [queue EXCEPT ![q] = Append(@, m)]
    /\ UNCHANGED <<size, inbox>>

Receive(t, q) ==
    /\ queue[q] # <<>>
    /\ inbox' = [inbox EXCEPT ![t] = Head(queue[q])]
    /\ queue' = [queue EXCEPT ![q] = Tail(@)]
    /\ UNCHANGED size

Next ==
    \E q \in Queues :
        \/ Resize(q)
        \/ Flush(q)
        \/ \E m \in Msgs : Send(q, m)
        \/ \E t \in Clients : Receive(t, q)

Spec == Init /\ [][Next]_<<size, queue, inbox>>
=============================================================================
