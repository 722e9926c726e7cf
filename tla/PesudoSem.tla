------------------------------ MODULE PesudoSem ------------------------------
(***************************************************************************)
(* The counting semaphores of PesudoOS (pesudo_sem.c).  A release by a     *)
(* task gives the token to a waiter at once; a release by an interrupt     *)
(* only counts, and process_pesudo_sem_from_isr() deals the tokens out at  *)
(* the end of the loop's pass.                                             *)
(*                                                                         *)
(* count++ and count-- of main-level code are a load and a store that an   *)
(* interrupt can come between, and the tests of count are earlier loads,   *)
(* so all are steps of their own here: `op` says how far the function is,  *)
(* `loaded` what is in the register.  An interrupt handler is not itself   *)
(* interrupted: its count++ is one step.                                   *)
(***************************************************************************)
EXTENDS PesudoOS, Integers

CONSTANTS
    Sems,       \* addresses a struct pesudo_sem may have
    Opt,        \* sem->opt & PESUDO_OPT_MASK
    Counts,     \* bound: values of initial_count
    MaxGiven,   \* bound: tokens ever put into one semaphore
    MaxIsr,     \* bound: how many of those by interrupts
    CountWrap   \* 2^16: what the uint16_t count counts to

ASSUME SemAssumption ==
    /\ Sems \subseteq Objects
    /\ Timers = {}
    /\ Opt \in [Sems -> {"FIFO", "LIFO", "OTHER"}]
    /\ Counts \subseteq Nat
    /\ MaxGiven \in Nat /\ MaxIsr \in Nat
    /\ CountWrap \in Nat \ {0}

VARIABLES
    pesudo_sem_list,   \* semaphores created and not deleted
    count,
    op, on, loaded,    \* main level inside a sem function: step, semaphore, register
    drained,           \* the semaphores process_pesudo_sem_from_isr() has been through
    given, isrGiven,   \* history: tokens put in, those of interrupts among them
    taken              \* history: obtains that returned 0, and tokens cleared

regVars == <<op, on, loaded>>
histVars == <<given, isrGiven, taken>>
semVars == <<pesudo_sem_list, count, regVars, drained, histVars>>
vars == <<kernelVars, semVars>>

\* Mutant: a wider count.
U16Wide(n) == n

U16(n) == n % CountWrap

Idle == op = "none"

TypeOK ==
    /\ KernelTypeOK
    /\ block_obj \in [Tasks -> Sems \cup {NoObj}]
    /\ pesudo_sem_list \subseteq Sems
    /\ count \in [Sems -> 0..(CountWrap - 1)]
    /\ op \in {"none", "obtain", "take", "give", "scan", "found", "grant"}
    /\ on \in Sems \cup {NoObj}
    /\ op # "none" => on \in pesudo_sem_list
    /\ loaded \in 0..(CountWrap - 1)
    /\ drained \subseteq Sems
    /\ given \in [Sems -> Nat] /\ isrGiven \in [Sems -> Nat] /\ taken \in [Sems -> Nat]

Init ==
    /\ KernelInit
    /\ pesudo_sem_list = {}
    /\ count = [s \in Sems |-> 0]
    /\ op = "none" /\ on = NoObj /\ loaded = 0
    /\ drained = {}
    /\ given = [s \in Sems |-> 0]
    /\ isrGiven = [s \in Sems |-> 0]
    /\ taken = [s \in Sems |-> 0]

-----------------------------------------------------------------------------
(***************************************************************************)
(* The two halves of a count++ or count--.                                 *)
(***************************************************************************)
Load(s, what) == op' = what /\ on' = s /\ loaded' = count[s]

Store(n) == count' = [count EXCEPT ![on] = U16(n)]

Done == op' = "none" /\ on' = NoObj /\ loaded' = 0

\* bound: malloc does not return the memory of a semaphore a task still waits for
pesudo_sem_create(s, initial_count) ==
    /\ InTask /\ Idle
    /\ s \in Sems \ pesudo_sem_list
    /\ \A t \in Tasks : block_obj[t] # s
    /\ pesudo_sem_list' = pesudo_sem_list \cup {s}
    /\ count' = [count EXCEPT ![s] = U16(initial_count)]
    /\ given' = [given EXCEPT ![s] = initial_count]
    /\ isrGiven' = [isrGiven EXCEPT ![s] = 0]
    /\ taken' = [taken EXCEPT ![s] = 0]
    /\ UNCHANGED <<kernelVars, regVars, drained>>

\* the waiters are left to time out
pesudo_sem_delete(s) ==
    /\ InTask /\ Idle
    /\ s \in pesudo_sem_list
    /\ pesudo_sem_list' = pesudo_sem_list \ {s}
    /\ UNCHANGED <<kernelVars, count, regVars, drained, histVars>>

pesudo_sem_clear(s) ==
    /\ InTask /\ Idle
    /\ s \in pesudo_sem_list
    /\ count' = [count EXCEPT ![s] = 0]
    /\ taken' = [taken EXCEPT ![s] = @ + count[s]]
    /\ UNCHANGED <<kernelVars, pesudo_sem_list, regVars, drained, given, isrGiven>>

(***************************************************************************)
(* pesudo_sem_obtain(): a token at once, or a wait; with timeout 0 it      *)
(* returns EBUSY and changes nothing.                                      *)
(***************************************************************************)
ObtainTest(s) ==
    /\ InTask /\ Idle
    /\ s \in pesudo_sem_list
    /\ count[s] > 0
    /\ op' = "obtain" /\ on' = s
    /\ UNCHANGED <<kernelVars, pesudo_sem_list, count, loaded, drained, histVars>>

ObtainLoad ==
    /\ op = "obtain"
    /\ Load(on, "take")
    /\ UNCHANGED <<kernelVars, pesudo_sem_list, count, drained, histVars>>

ObtainStore ==
    /\ op = "take"
    /\ Store(loaded - 1)
    /\ taken' = [taken EXCEPT ![on] = @ + 1]
    /\ Done
    /\ UNCHANGED <<kernelVars, pesudo_sem_list, drained, given, isrGiven>>

ObtainBlocks(s, timeout_ms) ==
    /\ Idle
    /\ s \in pesudo_sem_list
    /\ count[s] = 0
    /\ Block("SEM", s, timeout_ms)
    /\ UNCHANGED semVars

\* Mutant: looks at the clock, not at how the wait ended.
ReturnsByClock ==
    /\ Unblock("SEM")
    /\ taken' = IF now < block_until[Me]
                THEN [taken EXCEPT ![block_obj[Me]] = @ + 1]
                ELSE taken
    /\ UNCHANGED <<pesudo_sem_list, count, regVars, drained, given, isrGiven>>

\* "blocked back": 0 if a token was granted, else -1 and ETIMEDOUT
ObtainReturns ==
    /\ Unblock("SEM")
    /\ taken' = IF ret = "OBTAIN_SEM"
                THEN [taken EXCEPT ![block_obj[Me]] = @ + 1]
                ELSE taken
    /\ UNCHANGED <<pesudo_sem_list, count, regVars, drained, given, isrGiven>>

(***************************************************************************)
(* pesudo_sem_release() of a task: count++, then the scan for a waiter.    *)
(***************************************************************************)
ReleaseLoad(s) ==
    /\ InTask /\ Idle
    /\ s \in pesudo_sem_list
    /\ given[s] < MaxGiven
    /\ Load(s, "give")
    /\ UNCHANGED <<kernelVars, pesudo_sem_list, count, drained, histVars>>

\* Mutant: leaves the waiters to the next release.
ReleaseStoreOnly ==
    /\ op = "give"
    /\ Store(loaded + 1)
    /\ given' = [given EXCEPT ![on] = @ + 1]
    /\ Done
    /\ UNCHANGED <<kernelVars, pesudo_sem_list, drained, isrGiven, taken>>

ReleaseStore ==
    /\ op = "give"
    /\ Store(loaded + 1)
    /\ given' = [given EXCEPT ![on] = @ + 1]
    /\ op' = "scan"
    /\ UNCHANGED <<kernelVars, pesudo_sem_list, on, loaded, drained, isrGiven, taken>>

\* pesudo_sem_obtain_internal(): nothing to give, or nobody to give it to
ScanFindsNone ==
    /\ op = "scan"
    /\ count[on] = 0 \/ Selected(Opt[on], Waiting("SEM", on)) = {}
    /\ Done
    /\ UNCHANGED <<kernelVars, pesudo_sem_list, count, drained, histVars>>

ScanFinds ==
    /\ op = "scan"
    /\ count[on] > 0
    /\ Selected(Opt[on], Waiting("SEM", on)) # {}
    /\ op' = "found"
    /\ UNCHANGED <<kernelVars, pesudo_sem_list, count, on, loaded, drained, histVars>>

GrantLoad ==
    /\ op = "found"
    /\ Load(on, "grant")
    /\ UNCHANGED <<kernelVars, pesudo_sem_list, count, drained, histVars>>

\* Mutant: grants without taking the token.
GrantForFree ==
    /\ op = "grant"
    /\ \E w \in Selected(Opt[on], Waiting("SEM", on)) :
         state' = [state EXCEPT ![w] = @ \cup {"OBTAIN_SEM"}]
    /\ Done
    /\ UNCHANGED <<now, list, objFields, runFields, loopVars, pesudo_sem_list, count, drained,
                   histVars>>

Grant ==
    /\ op = "grant"
    /\ Store(loaded - 1)
    /\ \E w \in Selected(Opt[on], Waiting("SEM", on)) :
         state' = [state EXCEPT ![w] = @ \cup {"OBTAIN_SEM"}]
    /\ Done
    /\ UNCHANGED <<now, list, objFields, runFields, loopVars, pesudo_sem_list, drained,
                   histVars>>

\* pesudo_sem_release() in an interrupt
IsrRelease(s) ==
    /\ s \in pesudo_sem_list
    /\ given[s] < MaxGiven
    /\ isrGiven[s] < MaxIsr
    /\ count' = [count EXCEPT ![s] = U16(@ + 1)]
    /\ given' = [given EXCEPT ![s] = @ + 1]
    /\ isrGiven' = [isrGiven EXCEPT ![s] = @ + 1]
    /\ UNCHANGED <<kernelVars, pesudo_sem_list, regVars, drained, taken>>

\* Mutant: takes the last token for none.
DrainSpare(s) ==
    /\ pc = "drain" /\ Idle
    /\ s \in pesudo_sem_list \ drained
    /\ drained' = drained \cup {s}
    /\ IF count[s] > 1
       THEN op' = "scan" /\ on' = s /\ UNCHANGED loaded
       ELSE UNCHANGED regVars
    /\ UNCHANGED <<kernelVars, pesudo_sem_list, count, histVars>>

\* process_pesudo_sem_from_isr(): one scan of each semaphore that has tokens
DrainSem(s) ==
    /\ pc = "drain" /\ Idle
    /\ s \in pesudo_sem_list \ drained
    /\ drained' = drained \cup {s}
    /\ IF count[s] > 0
       THEN op' = "scan" /\ on' = s /\ UNCHANGED loaded
       ELSE UNCHANGED regVars
    /\ UNCHANGED <<kernelVars, pesudo_sem_list, count, histVars>>

DrainEnds ==
    /\ Idle
    /\ pesudo_sem_list \subseteq drained
    /\ drained' = {}
    /\ StartPass
    /\ UNCHANGED <<pesudo_sem_list, count, regVars, histVars>>

-----------------------------------------------------------------------------
SemStep ==
    \/ ObtainLoad \/ ObtainStore \/ ObtainReturns
    \/ ReleaseStore \/ ScanFindsNone \/ ScanFinds \/ GrantLoad \/ Grant
    \/ DrainEnds
    \/ \E s \in Sems : DrainSem(s)

SemCall ==
    \E s \in Sems :
        \/ \E n \in Counts : pesudo_sem_create(s, n)
        \/ pesudo_sem_delete(s)
        \/ pesudo_sem_clear(s)
        \/ ObtainTest(s)
        \/ \E ms \in Delays : ObtainBlocks(s, ms)
        \/ ReleaseLoad(s)

KernelStep == (LoopStep \/ HandlerReturns \/ TaskCall) /\ Idle /\ UNCHANGED semVars

Interrupt == (Tick /\ UNCHANGED semVars) \/ \E s \in Sems : IsrRelease(s)

Next == KernelStep \/ Interrupt \/ SemStep \/ SemCall

Spec == Init /\ [][Next]_vars

-----------------------------------------------------------------------------
(***************************************************************************)
(* Correctness properties.                                                 *)
(***************************************************************************)
GrantedTo(s) == {t \in Tasks : "OBTAIN_SEM" \in state[t] /\ block_obj[t] = s}

\* the tokens that are accounted for
Accounted(s) == taken[s] + Cardinality(GrantedTo(s)) + count[s]

\* Whatever interrupts come between a load and a store, the semaphore never gives
\* out more tokens than were put in: obtains that succeeded, grants on their way
\* and the count add up to no more than the releases.
NoTokenInvented == \A s \in pesudo_sem_list : Accounted(s) <= given[s]

\* With releases by tasks alone, every token put in is in the count, granted to a
\* waiter or taken: none gets lost.
TokensConserved == \A s \in pesudo_sem_list : Accounted(s) = given[s]

\* The tokens that nobody can obtain any more.
Missing(s) == given[s] - Accounted(s)

LossIsKnown(s) ==
    \/ on = s /\ op \in {"take", "give", "grant"} /\ loaded # count[s]
    \/ on = s /\ op = "grant" /\ Selected(Opt[s], Waiting("SEM", s)) \cap GrantedTo(s) # {}
    \/ given'[s] > given[s] /\ count[s] = CountWrap - 1

\* A token gets lost in three ways only: the store of a count++ or count-- overwrites
\* what an interrupt released since the load, the scan grants a waiter that has its
\* grant already, or the count wraps.  No resume, timeout, suspend or delete request
\* loses one, and what is on its way to a task arrives.
LossesAreKnown ==
    [][\A s \in pesudo_sem_list \cap pesudo_sem_list' :
         Missing(s)' > Missing(s) => LossIsKnown(s)]_vars

\* Only tokens that interrupts released can lie in the semaphore while a task waits
\* for one; a token a task releases goes to a waiter before that task goes on.
TokensReachWaiters ==
    \A s \in pesudo_sem_list :
        Idle /\ Opt[s] \in {"FIFO", "LIFO"} /\ Waiting("SEM", s) # {} => count[s] <= isrGiven[s]
=============================================================================
