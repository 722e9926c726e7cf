----------------------------- MODULE PesudoMutex -----------------------------
(***************************************************************************)
(* The recursive mutexes of PesudoOS (pesudo_mutex.c).  A release hands    *)
(* the mutex to a waiter at once: the waiter owns it while it is still     *)
(* blocked, and finds out when the loop resumes it.  The calls are refused *)
(* in interrupts and outside tasks, so their callers here are tasks.       *)
(***************************************************************************)
EXTENDS PesudoOS

CONSTANTS
    Mutexes,   \* the addresses a struct pesudo_mutex may have
    Opt,       \* mutex->opt & PESUDO_OPT_MASK, as given to pesudo_mutex_create()
    MaxNest    \* bound: how deep the owner nests its obtains

ASSUME MutexAssumption ==
    /\ Mutexes \subseteq Objects
    /\ Timers = {}
    /\ Opt \in [Mutexes -> {"FIFO", "LIFO", "OTHER"}]
    /\ MaxNest \in Nat \ {0}

VARIABLES
    pesudo_mutex_list,   \* mutexes created and not deleted
    owner, counter,      \* the fields of struct pesudo_mutex
    holds                \* history: obtains that returned 0, less releases by the holder

mutexVars == <<pesudo_mutex_list, owner, counter, holds>>
vars == <<kernelVars, mutexVars>>

TypeOK ==
    /\ KernelTypeOK
    /\ block_obj \in [Tasks -> Mutexes \cup {NoObj}]
    /\ pesudo_mutex_list \subseteq Mutexes
    /\ owner \in [Mutexes -> Tasks \cup {NoTask}]
    /\ counter \in [Mutexes -> Nat]
    /\ holds \in [Mutexes -> [Tasks -> Nat]]

Init ==
    /\ KernelInit
    /\ pesudo_mutex_list = {}
    /\ owner = [m \in Mutexes |-> NoTask]
    /\ counter = [m \in Mutexes |-> 0]
    /\ holds = [m \in Mutexes |-> [t \in Tasks |-> 0]]

-----------------------------------------------------------------------------
\* bound: malloc does not return the memory of a mutex that a task still waits for
pesudo_mutex_create(m) ==
    /\ InTask
    /\ m \in Mutexes \ pesudo_mutex_list
    /\ \A t \in Tasks : block_obj[t] # m
    /\ pesudo_mutex_list' = pesudo_mutex_list \cup {m}
    /\ owner' = [owner EXCEPT ![m] = NoTask]
    /\ counter' = [counter EXCEPT ![m] = 0]
    /\ UNCHANGED <<kernelVars, holds>>

\* frees the mutex whoever holds it; its waiters are left to time out
pesudo_mutex_delete(m) ==
    /\ InTask
    /\ m \in pesudo_mutex_list
    /\ pesudo_mutex_list' = pesudo_mutex_list \ {m}
    /\ owner' = [owner EXCEPT ![m] = NoTask]
    /\ counter' = [counter EXCEPT ![m] = 0]
    /\ holds' = [holds EXCEPT ![m] = [t \in Tasks |-> 0]]
    /\ UNCHANGED kernelVars

Obtained(m, t) == holds' = [holds EXCEPT ![m][t] = @ + 1]

ObtainFree(m) ==
    /\ InTask
    /\ m \in pesudo_mutex_list
    /\ owner[m] = NoTask
    /\ owner' = [owner EXCEPT ![m] = Me]
    /\ counter' = [counter EXCEPT ![m] = 1]
    /\ Obtained(m, Me)
    /\ UNCHANGED <<kernelVars, pesudo_mutex_list>>

ObtainAgain(m) ==
    /\ InTask
    /\ m \in pesudo_mutex_list
    /\ owner[m] = Me
    /\ counter[m] < MaxNest
    /\ counter' = [counter EXCEPT ![m] = @ + 1]
    /\ Obtained(m, Me)
    /\ UNCHANGED <<kernelVars, pesudo_mutex_list, owner>>

ObtainBlocks(m, timeout) ==
    /\ m \in pesudo_mutex_list
    /\ owner[m] \notin {NoTask, Me}
    /\ Block("MUTEX", m, timeout)
    /\ UNCHANGED mutexVars

\* Mutant: returns 0 after a timeout, too.
ObtainReturnsZero ==
    /\ Unblock("MUTEX")
    /\ IF block_obj[Me] \in pesudo_mutex_list
       THEN Obtained(block_obj[Me], Me)
       ELSE UNCHANGED holds
    /\ UNCHANGED <<pesudo_mutex_list, owner, counter>>

\* "blocked back": 0 if the mutex was handed over, else -1 and ETIMEDOUT
ObtainReturns ==
    /\ Unblock("MUTEX")
    /\ IF ret = "OBTAIN_MUTEX" /\ block_obj[Me] \in pesudo_mutex_list
       THEN Obtained(block_obj[Me], Me)
       ELSE UNCHANGED holds
    /\ UNCHANGED <<pesudo_mutex_list, owner, counter>>

\* Mutant: any caller's release counts.
LeftUnchecked(m) == counter[m] - 1

\* counter after "if (owner == current) counter--"
Left(m) == IF owner[m] = Me THEN counter[m] - 1 ELSE counter[m]

\* the end of pesudo_mutex_release(): nobody waits, or a waiter becomes the owner
Free(m) ==
    /\ Selected(Opt[m], Waiting("MUTEX", m)) = {}
    /\ owner' = [owner EXCEPT ![m] = NoTask]
    /\ counter' = [counter EXCEPT ![m] = Left(m)]
    /\ UNCHANGED state

\* Mutant: wakes the waiter without making it the owner.
HandOverUnowned(m) ==
    \E w \in Selected(Opt[m], Waiting("MUTEX", m)) :
        /\ owner' = [owner EXCEPT ![m] = NoTask]
        /\ counter' = [counter EXCEPT ![m] = 0]
        /\ state' = [state EXCEPT ![w] = @ \cup {"OBTAIN_MUTEX"}]

\* Mutant: forgets to count the obtain of the waiter.
HandOverUncounted(m) ==
    \E w \in Selected(Opt[m], Waiting("MUTEX", m)) :
        /\ owner' = [owner EXCEPT ![m] = w]
        /\ counter' = [counter EXCEPT ![m] = Left(m)]
        /\ state' = [state EXCEPT ![w] = @ \cup {"OBTAIN_MUTEX"}]

HandOver(m) ==
    \E w \in Selected(Opt[m], Waiting("MUTEX", m)) :
        /\ owner' = [owner EXCEPT ![m] = w]
        /\ counter' = [counter EXCEPT ![m] = Left(m) + 1]
        /\ state' = [state EXCEPT ![w] = @ \cup {"OBTAIN_MUTEX"}]

\* the owner gives the mutex up, or a task releases a mutex that nobody owns; a
\* release by a task that does not own it returns 0 and changes nothing
ReleaseLast(m) ==
    /\ InTask
    /\ m \in pesudo_mutex_list
    /\ \/ owner[m] = Me /\ Left(m) = 0 /\ holds' = [holds EXCEPT ![m][Me] = @ - 1]
       \/ owner[m] = NoTask /\ UNCHANGED holds
    /\ Free(m) \/ HandOver(m)
    /\ UNCHANGED <<now, list, objFields, runFields, loopVars, pesudo_mutex_list>>

ReleaseNested(m) ==
    /\ InTask
    /\ m \in pesudo_mutex_list
    /\ owner[m] = Me
    /\ Left(m) > 0
    /\ counter' = [counter EXCEPT ![m] = Left(m)]
    /\ holds' = [holds EXCEPT ![m][Me] = @ - 1]
    /\ UNCHANGED <<kernelVars, pesudo_mutex_list, owner>>

MutexCall ==
    \/ \E m \in Mutexes :
          \/ pesudo_mutex_create(m)
          \/ pesudo_mutex_delete(m)
          \/ ObtainFree(m)
          \/ ObtainAgain(m)
          \/ \E ms \in Delays : ObtainBlocks(m, ms)
          \/ ReleaseLast(m)
          \/ ReleaseNested(m)
    \/ ObtainReturns

-----------------------------------------------------------------------------
Next ==
    \/ KernelNext /\ UNCHANGED mutexVars
    \/ MutexCall

Spec == Init /\ [][Next]_vars

Fairness ==
    /\ WF_vars((LoopStep \/ StartPass \/ SleepTail \/ DelayEnds) /\ UNCHANGED mutexVars)
    /\ WF_vars(ObtainReturns)
    /\ WF_vars(HandlerReturns /\ UNCHANGED mutexVars)
    /\ WF_vars(Tick /\ UNCHANGED mutexVars)

-----------------------------------------------------------------------------
(***************************************************************************)
(* Correctness properties.                                                 *)
(***************************************************************************)
Granted(m, t) == "OBTAIN_MUTEX" \in state[t] /\ block_obj[t] = m

\* Two tasks never both have the mutex: between an obtain that returned 0 and the
\* release that matches it, no other task's obtain returns 0.
MutualExclusion ==
    \A m \in Mutexes : \A t, u \in Tasks :
        holds[m][t] > 0 /\ holds[m][u] > 0 => t = u

\* mutex->counter is the owner's nesting depth, the hand-over it has not yet seen
\* included; whoever was handed the mutex owns it, and nobody but the owner holds it.
OwnerAccounts ==
    \A m \in pesudo_mutex_list :
        /\ counter[m] = 0 <=> owner[m] = NoTask
        /\ \A t \in Tasks :
             IF t = owner[m]
             THEN counter[m] = holds[m][t] + (IF Granted(m, t) THEN 1 ELSE 0)
             ELSE holds[m][t] = 0 /\ ~Granted(m, t)

\* No wake-up is lost: as long as the mutex exists, it is never free while a task
\* waits for it.
NoLostWaiter ==
    \A m \in pesudo_mutex_list :
        owner[m] = NoTask /\ Opt[m] \in {"FIFO", "LIFO"} => Waiting("MUTEX", m) = {}

Lock == INSTANCE RecursiveLock WITH held <- holds

\* What the tasks see of pesudo_mutex_obtain() and pesudo_mutex_release(), in steps
\* that may lie far apart (a hand-over is seen when the waiter resumes), is a
\* recursive lock.
IsRecursiveLock == Lock!Spec

\* PESUDO_OPT_FIFO: the mutex goes to the task that has waited longest.
FifoOrder ==
    [][\A m \in Mutexes : \A t, u \in Tasks :
         /\ Opt[m] = "FIFO"
         /\ ~Granted(m, t) /\ Granted(m, t)'
         /\ u \in Waiting("MUTEX", m)
         => block_when[t] <= block_when[u]]_vars

\* An obtain ends: with the mutex, or at its timeout, even if the owner never
\* releases it, was deleted, or the mutex was; as long as no handler frees the task
\* the loop goes to next.
ObtainEnds ==
    \A t \in Tasks :
        "BLOCKED_MUTEX" \in state[t] ~> "BLOCKED_MUTEX" \notin state[t] \/ freed # NoTask
=============================================================================
