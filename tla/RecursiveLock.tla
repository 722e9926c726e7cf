---------------------------- MODULE RecursiveLock ----------------------------
(***************************************************************************)
(* What a set of recursive mutexes promises the tasks that use them: only  *)
(* a task that is alone with a mutex gets it, as often as it likes, and    *)
(* only the holder gives it back.  Destroying a mutex takes it away from   *)
(* its holder.                                                             *)
(***************************************************************************)
EXTENDS Naturals

CONSTANTS Mutexes, Tasks

VARIABLE held   \* held[m][t]: obtains of m by t that t has not yet released

Nobody == [t \in Tasks |-> 0]

Init == held = [m \in Mutexes |-> Nobody]

Obtain(m, t) ==
    /\ \A u \in Tasks \ {t} : held[m][u] = 0
    /\ held' = [held EXCEPT ![m][t] = @ + 1]

Release(m, t) ==
    /\ held[m][t] > 0
    /\ held' = [held EXCEPT ![m][t] = @ - 1]

Destroy(m) == held' = [held EXCEPT ![m] = Nobody]

Next ==
    \E m \in Mutexes :
        \/ Destroy(m)
        \/ \E t \in Tasks : Obtain(m, t) \/ Release(m, t)

Spec == Init /\ [][Next]_held
=============================================================================
