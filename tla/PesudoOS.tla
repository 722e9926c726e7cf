------------------------------ MODULE PesudoOS ------------------------------
(***************************************************************************)
(* The PesudoOS kernel: the task list, the main loop pesudoos_run() and    *)
(* the pesudo_task_* calls (Template/ls2k/PesudoOS/pesudoos.c and          *)
(* pesudo_task.c, built with PESUDO_OS_VER = 2).                           *)
(*                                                                         *)
(* The kernel is cooperative: main-level code (the loop and the one task   *)
(* it is inside) runs until it calls the loop back with longjmp, and only  *)
(* interrupts run in between.  A step here is main-level code up to the    *)
(* next place where an interrupt could matter.  A task is identified with  *)
(* its struct pesudo_task, and each field is a function on tasks.          *)
(* Task state is the set of PT_* flags that are set in task->state.        *)
(*                                                                         *)
(* The handlers are application code: while a task runs, it makes any      *)
(* call with any argument the bounds allow, in any order.  Modules of the  *)
(* kernel objects (mutex, semaphore, event, queue, timer) extend this one. *)
(***************************************************************************)
EXTENDS Naturals, FiniteSets, SequencesExt

CONSTANTS
    Tasks,      \* addresses a struct pesudo_task may have
    Timers,     \* those whose task belongs to a pesudo_timer
    Boot,       \* tasks created before the loop starts, in creation order
    Delays,     \* bound: milliseconds (= ticks) passed to the timed calls
    Horizon,    \* bound: the clock stops here and no call asks for a time beyond
    Wrap,       \* 2^32: what a uint32_t counts to (a small value to see it wrap)
    Objects,    \* addresses of mutexes, semaphores, events and queues
    NoTask, NoObj

ASSUME TasksAssumption ==
    /\ Timers \subseteq Tasks
    /\ NoTask \notin Tasks
    /\ NoObj \notin Objects
    /\ Boot \in Seq(Tasks \ Timers)
    /\ \A i, j \in DOMAIN Boot : Boot[i] = Boot[j] => i = j

ASSUME TimeAssumption ==
    /\ Delays \subseteq Nat \ {0}
    /\ Horizon \in Nat
    /\ Wrap \in Nat \ {0}

(***************************************************************************)
(* The flags of task->state.                                               *)
(***************************************************************************)
Kinds == {"MUTEX", "SEM", "EVENT", "MQ"}

BlockedFlag(k) ==
    CASE k = "MUTEX" -> "BLOCKED_MUTEX"
      [] k = "SEM"   -> "BLOCKED_SEM"
      [] k = "EVENT" -> "BLOCKED_EVENT"
      [] k = "MQ"    -> "BLOCKED_MQ"

GrantFlag(k) ==
    CASE k = "MUTEX" -> "OBTAIN_MUTEX"
      [] k = "SEM"   -> "OBTAIN_SEM"
      [] k = "EVENT" -> "RECV_EVENT"
      [] k = "MQ"    -> "RECV_MQ"

BlockingFlags == {"SLEEP", "BLOCKED_MUTEX", "BLOCKED_SEM", "BLOCKED_EVENT", "BLOCKED_MQ"}
GrantFlags == {"OBTAIN_MUTEX", "OBTAIN_SEM", "RECV_EVENT", "RECV_MQ"}

Flags == {"IDLE", "READY", "RUNNING", "SUSPEND", "WANT_SUSPEND", "WANT_DELETE"}
         \cup BlockingFlags \cup GrantFlags

IS_BLOCKED(sr) == sr \cap BlockingFlags # {}

U32(n) == n % Wrap

VARIABLES
    now,              \* get_clock_ticks()
    list,             \* pesudo_task_list
    state,            \* task->state, {} when the memory is free
    first_run_until,  \* the other fields of struct pesudo_task
    sleep_until,
    block_when,
    block_until,
    block_obj,
    func_exit_pos,    \* the call whose setjmp context is saved and still valid
    prev_ticks,       \* the handler's variable that pesudo_task_sleep_until() advances
    pc,               \* where the main level is
    task, tmp,        \* the loop's cursor and its saved successor
    freed,            \* history: that successor, if a handler had it freed since
    current,          \* current_pesudo_task
    ret,              \* what the call being resumed gets from setjmp
    delay_until       \* end of a delay_ms() busy wait

objFields == <<block_when, block_until, block_obj>>
runFields == <<first_run_until, sleep_until, func_exit_pos, prev_ticks>>
loopVars  == <<pc, task, tmp, freed, current, ret, delay_until>>
kernelVars == <<now, list, state, objFields, runFields, loopVars>>

Calls == {"none", "sleep", "sleep_until"} \cup Kinds
Linked == ToSet(list)
Me == current
InTask == pc = "running"

KernelTypeOK ==
    /\ now \in Nat
    /\ list \in Seq(Tasks)
    /\ state \in [Tasks -> SUBSET Flags]
    /\ first_run_until \in [Tasks -> Nat]
    /\ sleep_until \in [Tasks -> Nat]
    /\ block_when \in [Tasks -> Nat]
    /\ block_until \in [Tasks -> Nat]
    /\ func_exit_pos \in [Tasks -> Calls]
    /\ prev_ticks \in [Tasks -> Nat]
    /\ block_obj \in [Tasks -> Objects \cup {NoObj}]
    /\ pc \in {"foreach", "running", "resumed", "delay", "drain"}
    /\ task \in Tasks \cup {NoTask}
    /\ tmp \in Tasks \cup {NoTask}
    /\ freed \in Tasks \cup {NoTask}
    /\ current \in Tasks \cup {NoTask}
    /\ pc \in {"running", "resumed", "delay"} => current \in Tasks
    /\ ret \in {"none", "wakeup", "ETIMEDOUT"} \cup GrantFlags
    /\ delay_until \in Nat

-----------------------------------------------------------------------------
(***************************************************************************)
(* The task list.                                                          *)
(***************************************************************************)
Pos(t) == CHOOSE i \in 1..Len(list) : list[i] = t

pesudoos_task_list_first == IF list = <<>> THEN NoTask ELSE list[1]

pesudoos_task_list_next(t) ==
    IF Pos(t) < Len(list) THEN list[Pos(t) + 1] ELSE NoTask

KernelInit ==
    /\ now = 0
    /\ list = Boot
    /\ state = [t \in Tasks |-> IF t \in ToSet(Boot) THEN {"IDLE"} ELSE {}]
    /\ first_run_until = [t \in Tasks |-> 0]
    /\ sleep_until = [t \in Tasks |-> 0]
    /\ block_when = [t \in Tasks |-> 0]
    /\ block_until = [t \in Tasks |-> 0]
    /\ block_obj = [t \in Tasks |-> NoObj]
    /\ func_exit_pos = [t \in Tasks |-> "none"]
    /\ prev_ticks = [t \in Tasks |-> 0]
    /\ pc = "foreach"
    /\ task = pesudoos_task_list_first
    /\ tmp = NoTask
    /\ freed = NoTask
    /\ current = NoTask
    /\ ret = "none"
    /\ delay_until = 0

(***************************************************************************)
(* The clock interrupt.                                                    *)
(***************************************************************************)
Tick ==
    /\ now < Horizon
    /\ now' = now + 1
    /\ UNCHANGED <<list, state, objFields, runFields, loopVars>>

-----------------------------------------------------------------------------
(***************************************************************************)
(* pesudoos_run(): TAILQ_FOREACH_SAFE over the task list.  Each iteration  *)
(* saves the successor, reads the clock once and makes the task current.   *)
(***************************************************************************)
\* Mutant: forgets current_pesudo_task = task.
VisitForgetsCurrent(t) ==
    /\ pc = "foreach"
    /\ task = t
    /\ t \in Linked
    /\ tmp' = pesudoos_task_list_next(t)
    /\ freed' = NoTask
    /\ UNCHANGED current

Visit(t) ==
    /\ pc = "foreach"
    /\ task = t
    /\ t \in Linked
    /\ tmp' = pesudoos_task_list_next(t)
    /\ freed' = NoTask
    /\ current' = t

GoOn == task' = tmp' /\ pc' = "foreach"

\* Mutant: only wakes on the very tick.
DueOnTheTick(t) == sleep_until[t] = now

Due(t) == sleep_until[t] <= now

\* task->state after the IDLE test at the top of the body
Promoted(t) ==
    IF state[t] = {"IDLE"} /\ first_run_until[t] <= now THEN {"READY"} ELSE state[t]

BlockedOn(t) == {k \in Kinds : BlockedFlag(k) \in state[t] /\ block_obj[t] # NoObj}

\* "3rd run ready task": the handler starts from its entry
VisitDispatch(t) ==
    /\ Visit(t)
    /\ Promoted(t) = {"READY"}
    /\ state' = [state EXCEPT ![t] = {"RUNNING"}]
    /\ func_exit_pos' = [func_exit_pos EXCEPT ![t] = "none"]
    /\ prev_ticks' = [prev_ticks EXCEPT ![t] = 0]
    /\ pc' = "running"
    /\ UNCHANGED <<now, list, objFields, first_run_until, sleep_until, task, ret,
                   delay_until>>

\* a due timer becomes ready, to be run on the next pass
VisitTimerDue(t) ==
    /\ Visit(t)
    /\ "SLEEP" \in state[t] /\ Due(t)
    /\ t \in Timers
    /\ state' = [state EXCEPT ![t] = {"READY"}]
    /\ GoOn
    /\ UNCHANGED <<now, list, objFields, runFields, ret, delay_until>>

\* longjmp(task->func_exit_pos, r)
Resume(t, r) ==
    /\ Visit(t)
    /\ ret' = r
    /\ pc' = "resumed"
    /\ UNCHANGED <<now, list, state, objFields, runFields, task, delay_until>>

VisitWakeup(t) ==
    /\ "SLEEP" \in state[t] /\ Due(t)
    /\ t \notin Timers
    /\ Resume(t, "wakeup")

VisitGranted(t, k) ==
    /\ "SLEEP" \notin state[t]
    /\ k \in BlockedOn(t)
    /\ GrantFlag(k) \in state[t]
    /\ Resume(t, GrantFlag(k))

VisitTimeout(t, k) ==
    /\ "SLEEP" \notin state[t]
    /\ k \in BlockedOn(t)
    /\ GrantFlag(k) \notin state[t]
    /\ block_until[t] <= now
    /\ Resume(t, "ETIMEDOUT")

\* nothing to do for this task now
VisitSkip(t) ==
    /\ Visit(t)
    /\ Promoted(t) # {"READY"}
    /\ IF "SLEEP" \in state[t]
       THEN ~Due(t)
       ELSE \A k \in BlockedOn(t) : GrantFlag(k) \notin state[t] /\ now < block_until[t]
    /\ GoOn
    /\ UNCHANGED <<now, list, state, objFields, runFields, ret, delay_until>>

\* Mutant: starts again at the head of the list.
BackAtHead ==
    /\ pc' = "foreach"
    /\ task' = pesudoos_task_list_first

\* the loop goes on with the saved successor
BackInLoop ==
    /\ pc' = "foreach"
    /\ task' = tmp

Reaped == {t \in Linked : "RUNNING" \in state[t] /\ state[t] = {"WANT_DELETE"}}

\* end of the list: current is NULL, pending deletes, then the deferred work
EndPass ==
    /\ pc = "foreach"
    /\ task = NoTask
    /\ current' = NoTask
    /\ list' = IF Reaped = {} THEN list ELSE SelectSeq(list, LAMBDA t : t \notin Reaped)
    /\ pc' = "drain"
    /\ UNCHANGED <<now, state, objFields, runFields, task, tmp, freed, ret, delay_until>>

\* the first iteration of the next pass
StartPass ==
    /\ pc = "drain"
    /\ pc' = "foreach"
    /\ task' = pesudoos_task_list_first
    /\ UNCHANGED <<now, list, state, objFields, runFields, tmp, freed, current, ret, delay_until>>

\* The cursor is at a task that was unlinked and freed: what the loop reads there is
\* undefined, and nothing after it is modelled.  When pesudo_task_create() got the
\* same memory meanwhile, the cursor is at the new task and the loop goes on from it.
Astray == pc = "foreach" /\ task \notin Linked \cup {NoTask}

LoopAstray == Astray /\ UNCHANGED kernelVars

VisitNext ==
    \E t \in Tasks :
        \/ VisitDispatch(t)
        \/ VisitWakeup(t)
        \/ \E k \in Kinds : VisitGranted(t, k) \/ VisitTimeout(t, k)
        \/ VisitSkip(t)

(***************************************************************************)
(* The handler of a plain task returns to the loop; its variables are gone.*)
(***************************************************************************)
\* Mutant: forgets the suspend request.
HandlerReturnsReady ==
    /\ InTask
    /\ Me \notin Timers
    /\ state' = [state EXCEPT ![Me] = IF "RUNNING" \notin @ THEN @ ELSE {"READY"}]
    /\ prev_ticks' = [prev_ticks EXCEPT ![Me] = 0]
    /\ BackInLoop
    /\ UNCHANGED <<now, list, objFields, first_run_until, sleep_until, func_exit_pos, tmp, freed,
                   current, ret, delay_until>>

HandlerReturns ==
    /\ InTask
    /\ Me \notin Timers
    /\ state' = [state EXCEPT ![Me] =
                   IF "RUNNING" \notin @ THEN @
                   ELSE IF "WANT_SUSPEND" \in @ THEN {"SUSPEND"}
                   ELSE {"READY"}]
    /\ prev_ticks' = [prev_ticks EXCEPT ![Me] = 0]
    /\ BackInLoop
    /\ UNCHANGED <<now, list, objFields, first_run_until, sleep_until, func_exit_pos, tmp, freed,
                   current, ret, delay_until>>

-----------------------------------------------------------------------------
(***************************************************************************)
(* The pesudo_task_* calls of the running task.                            *)
(***************************************************************************)
\* pesudo_task_create(): calloc returns zeroed memory nobody uses
Allocate(t, s, until) ==
    /\ t \notin Linked
    /\ list' = Append(list, t)
    /\ state' = [state EXCEPT ![t] = s]
    /\ first_run_until' = [first_run_until EXCEPT ![t] = until]
    /\ sleep_until' = [sleep_until EXCEPT ![t] = 0]
    /\ block_when' = [block_when EXCEPT ![t] = 0]
    /\ block_until' = [block_until EXCEPT ![t] = 0]
    /\ block_obj' = [block_obj EXCEPT ![t] = NoObj]
    /\ func_exit_pos' = [func_exit_pos EXCEPT ![t] = "none"]
    /\ prev_ticks' = [prev_ticks EXCEPT ![t] = 0]
    /\ UNCHANGED <<now, loopVars>>

pesudo_task_create(t, run_after_ms) ==
    /\ InTask
    /\ t \in Tasks \ Timers
    /\ now + run_after_ms <= Horizon
    /\ Allocate(t, {"IDLE"}, U32(now + run_after_ms))

AtRest(t) == state[t] \in {{"IDLE"}, {"READY"}, {"SUSPEND"}}
Active(t) == state[t] = {"RUNNING"} \/ IS_BLOCKED(state[t])

\* Mutant: looks at the state only, which the handler itself may have put to rest.
UnlinkCurrent(t) ==
    /\ AtRest(t)
    /\ list' = RemoveAt(list, Pos(t))
    /\ state' = [state EXCEPT ![t] = {}]
    /\ freed' = IF t = tmp THEN t ELSE freed

\* pesudo_task_delete() of a task at rest unlinks and frees it, unless it is
\* current_pesudo_task; nothing keeps it from freeing the successor the loop saved
Unlink(t) ==
    /\ AtRest(t)
    /\ t # current
    /\ list' = RemoveAt(list, Pos(t))
    /\ state' = [state EXCEPT ![t] = {}]
    /\ freed' = IF t = tmp THEN t ELSE freed

MarkDelete(t) ==
    /\ Active(t)
    /\ state' = [state EXCEPT ![t] = @ \cup {"WANT_DELETE"}]
    /\ UNCHANGED <<list, freed>>

pesudo_task_delete(t) ==
    /\ InTask
    /\ t \in Linked \ Timers
    /\ Unlink(t) \/ MarkDelete(t)
    /\ UNCHANGED <<now, objFields, runFields, pc, task, tmp, current, ret, delay_until>>

\* Mutant: suspends a sleeping task at once.
SuspendAtOnce(t) ==
    /\ InTask
    /\ t \in Linked \ Timers
    /\ t # Me
    /\ state' = [state EXCEPT ![t] = {"SUSPEND"}]
    /\ UNCHANGED <<now, list, objFields, runFields, loopVars>>

pesudo_task_suspend(t) ==
    /\ InTask
    /\ t \in Linked \ Timers
    /\ \/ AtRest(t) /\ state' = [state EXCEPT ![t] = {"SUSPEND"}]
       \/ Active(t) /\ state' = [state EXCEPT ![t] = @ \cup {"WANT_SUSPEND"}]
    /\ UNCHANGED <<now, list, objFields, runFields, loopVars>>

pesudo_task_resume(t) ==
    /\ InTask
    /\ t \in Linked \ Timers
    /\ state[t] = {"SUSPEND"}
    /\ state' = [state EXCEPT ![t] = {"READY"}]
    /\ UNCHANGED <<now, list, objFields, runFields, loopVars>>

(***************************************************************************)
(* Entering and leaving a call that gives the processor back to the loop.  *)
(* A timer's handler makes no such call (bound).                           *)
(***************************************************************************)
MayBlock == InTask /\ Me \notin Timers

\* Mutant: the task still counts as running.
SaveContextRunning(call, flag) ==
    /\ func_exit_pos' = [func_exit_pos EXCEPT ![Me] = call]
    /\ state' = [state EXCEPT ![Me] = @ \cup {flag}]
    /\ BackInLoop

SaveContext(call, flag) ==
    /\ func_exit_pos' = [func_exit_pos EXCEPT ![Me] = call]
    /\ state' = [state EXCEPT ![Me] = (@ \ {"RUNNING"}) \cup {flag}]
    /\ BackInLoop

\* the setjmp of `call` returns a second time
Resumed(call) ==
    /\ pc = "resumed"
    /\ func_exit_pos[Me] = call

LeaveCall(flags) ==
    /\ func_exit_pos' = [func_exit_pos EXCEPT ![Me] = "none"]
    /\ state' = [state EXCEPT ![Me] = (@ \ flags) \cup {"RUNNING"}]
    /\ pc' = "running"
    /\ ret' = "none"

SleepFor(call, until) ==
    /\ sleep_until' = [sleep_until EXCEPT ![Me] = until]
    /\ SaveContext(call, "SLEEP")
    /\ UNCHANGED <<now, list, objFields, first_run_until, tmp, freed, current, ret, delay_until>>

pesudo_task_sleep(ms) ==
    /\ MayBlock
    /\ now + ms <= Horizon
    /\ SleepFor("sleep", now + ms)
    /\ UNCHANGED prev_ticks

\* the application keeps its variable from call to call, or sets it to the clock
PrevTicks == {prev_ticks[Me], U32(now)}

pesudo_task_sleep_until(inc_ticks) ==
    /\ MayBlock
    /\ \E p \in PrevTicks :
         /\ p + inc_ticks <= Horizon
         /\ U32(p + inc_ticks) > U32(now)
         /\ prev_ticks' = [prev_ticks EXCEPT ![Me] = p]
         /\ SleepFor("sleep_until", U32(p + inc_ticks))

\* too late already: delay_ms(inc_ticks), and *prev_ticks is not advanced
SleepUntilLate(inc_ticks) ==
    /\ MayBlock
    /\ \E p \in PrevTicks :
         /\ U32(p + inc_ticks) <= U32(now)
         /\ prev_ticks' = [prev_ticks EXCEPT ![Me] = p]
    /\ now + inc_ticks <= Horizon
    /\ delay_until' = now + inc_ticks
    /\ pc' = "delay"
    /\ UNCHANGED <<now, list, state, objFields, first_run_until, sleep_until, func_exit_pos,
                   task, tmp, freed, current, ret>>

DelayEnds ==
    /\ pc = "delay"
    /\ delay_until <= now
    /\ delay_until' = 0
    /\ pc' = "running"
    /\ UNCHANGED <<now, list, state, objFields, runFields, task, tmp, freed, current, ret>>

\* the tail of both sleep calls
SleepTail ==
    /\ \/ Resumed("sleep") /\ UNCHANGED prev_ticks
       \/ /\ Resumed("sleep_until")
          /\ prev_ticks' = [prev_ticks EXCEPT ![Me] = sleep_until[Me]]
    /\ sleep_until' = [sleep_until EXCEPT ![Me] = 0]
    /\ LeaveCall({"SLEEP"})
    /\ UNCHANGED <<now, list, objFields, first_run_until, task, tmp, freed, current, delay_until>>

\* Mutant: forgets block_obj.
BlockNoObject(k, obj, timeout_ms) ==
    /\ MayBlock
    /\ now + timeout_ms <= Horizon
    /\ block_when' = [block_when EXCEPT ![Me] = now]
    /\ block_until' = [block_until EXCEPT ![Me] = now + timeout_ms]
    /\ SaveContext(k, BlockedFlag(k))
    /\ UNCHANGED <<now, list, block_obj, first_run_until, sleep_until, prev_ticks, tmp, freed,
                   current, ret, delay_until>>

\* common to the blocking calls of mutex, sem, event and mq
Block(k, obj, timeout_ms) ==
    /\ MayBlock
    /\ now + timeout_ms <= Horizon
    /\ block_when' = [block_when EXCEPT ![Me] = now]
    /\ block_until' = [block_until EXCEPT ![Me] = now + timeout_ms]
    /\ block_obj' = [block_obj EXCEPT ![Me] = obj]
    /\ SaveContext(k, BlockedFlag(k))
    /\ UNCHANGED <<now, list, first_run_until, sleep_until, prev_ticks, tmp, freed, current,
                   ret, delay_until>>

\* Mutant: the grant stays behind.
UnblockGranted(k) ==
    /\ Resumed(k)
    /\ block_when' = [block_when EXCEPT ![Me] = 0]
    /\ block_until' = [block_until EXCEPT ![Me] = 0]
    /\ block_obj' = [block_obj EXCEPT ![Me] = NoObj]
    /\ LeaveCall({BlockedFlag(k)})
    /\ UNCHANGED <<now, list, first_run_until, sleep_until, prev_ticks, task, tmp, freed,
                   current, delay_until>>

Unblock(k) ==
    /\ Resumed(k)
    /\ block_when' = [block_when EXCEPT ![Me] = 0]
    /\ block_until' = [block_until EXCEPT ![Me] = 0]
    /\ block_obj' = [block_obj EXCEPT ![Me] = NoObj]
    /\ LeaveCall({BlockedFlag(k), GrantFlag(k)})
    /\ UNCHANGED <<now, list, first_run_until, sleep_until, prev_ticks, task, tmp, freed,
                   current, delay_until>>

(***************************************************************************)
(* The waiter a release gives the object to.  With PESUDO_OPT_FIFO the     *)
(* code keeps the candidate whose block_when is larger, with               *)
(* PESUDO_OPT_LIFO the smaller, and on a tie the first in the task list;   *)
(* any other option selects nobody.                                        *)
(***************************************************************************)
Waiting(k, obj) == {t \in Linked : BlockedFlag(k) \in state[t] /\ block_obj[t] = obj}

\* Mutant: two tasks that blocked in the same tick are both passed over.
PreferredStrictly(opt, t, u) ==
    \/ opt = "FIFO" /\ block_when[t] > block_when[u]
    \/ opt = "LIFO" /\ block_when[t] < block_when[u]
    \/ t = u

Preferred(opt, t, u) ==
    \/ opt = "FIFO" /\ block_when[t] > block_when[u]
    \/ opt = "LIFO" /\ block_when[t] < block_when[u]
    \/ block_when[t] = block_when[u] /\ Pos(t) <= Pos(u)

Selected(opt, W) ==
    {t \in W : opt \in {"FIFO", "LIFO"} /\ \A u \in W : Preferred(opt, t, u)}

-----------------------------------------------------------------------------
(***************************************************************************)
(* The kernel alone: plain tasks and no objects.  The modules that extend  *)
(* this one build their next-state relations from the same parts.          *)
(***************************************************************************)
LoopStep == VisitNext \/ EndPass \/ LoopAstray

TaskCall ==
    \/ \E t \in Tasks :
          \/ \E ms \in Delays \cup {0} : pesudo_task_create(t, ms)
          \/ pesudo_task_delete(t)
          \/ pesudo_task_suspend(t)
          \/ pesudo_task_resume(t)
    \/ \E ms \in Delays :
          pesudo_task_sleep(ms) \/ pesudo_task_sleep_until(ms) \/ SleepUntilLate(ms)
    \/ DelayEnds
    \/ SleepTail

KernelNext == Tick \/ LoopStep \/ StartPass \/ HandlerReturns \/ TaskCall

KernelSpec == KernelInit /\ [][KernelNext]_kernelVars

-----------------------------------------------------------------------------
(***************************************************************************)
(* Correctness properties.                                                 *)
(***************************************************************************)
\* The flags and the object of a task agree with the call whose context is saved.
CallKept(t) ==
    /\ "SLEEP" \in state[t] <=> func_exit_pos[t] \in {"sleep", "sleep_until"}
    /\ \A k \in Kinds : BlockedFlag(k) \in state[t] <=> func_exit_pos[t] = k
    /\ \A k \in Kinds : GrantFlag(k) \in state[t] => func_exit_pos[t] = k
    /\ block_obj[t] # NoObj <=> func_exit_pos[t] \in Kinds

\* A task that left its handler through a blocking call keeps, until that call
\* returns, exactly that call's blocking flag (and its object), whatever suspend
\* and delete requests other tasks make meanwhile; a task outside a call has none.
\* Otherwise the longjmp of the loop would land in the wrong frame, or never come.
PendingCallKept == \A t \in Tasks \ Timers : CallKept(t)

\* At most one task runs: it is current_pesudo_task, linked, and inside its
\* handler.  And the cursor of TAILQ_FOREACH_SAFE stands on a linked task, except
\* after the one deletion the loop is not safe against: that of its saved successor
\* by the handler it last ran.  Any other task may be deleted at any time.
LoopOnLiveTasks ==
    /\ \A t \in Tasks : "RUNNING" \in state[t] => t = current /\ pc \in {"running", "delay"}
    /\ pc \in {"running", "resumed", "delay"} => current \in Linked
    /\ pc = "foreach" => task \in Linked \cup {NoTask, freed}

\* The handler that executes is a plain task's, outside any blocking call.
RunningOutsideCalls ==
    pc \in {"running", "delay"} /\ current \notin Timers => func_exit_pos[current] = "none"

\* A call that the loop resumes with a grant was granted, and one that it resumes
\* with a timeout was not.
ResumedAsGranted ==
    pc = "resumed" =>
        /\ current \notin Timers
        /\ \A k \in Kinds : func_exit_pos[current] = k =>
                (ret = GrantFlag(k) <=> GrantFlag(k) \in state[current])

\* The handler of a timer never waits for an object.
TimersNeverBlock == \A t \in Tasks \cap Timers : block_obj[t] = NoObj

\* The successor the loop saved is linked, or it is the one a handler had freed.
SuccessorLinked == tmp \in Linked \cup {NoTask, freed} /\ freed \in {NoTask, tmp}

\* LoopOnLiveTasks and PendingCallKept, made inductive.
KernelInv ==
    /\ KernelTypeOK
    /\ LoopOnLiveTasks
    /\ SuccessorLinked
    /\ PendingCallKept
    /\ TimersNeverBlock
    /\ RunningOutsideCalls
    /\ ResumedAsGranted

\* A suspend request made to a running, sleeping or blocked task is never lost:
\* the only way out of PT_WANT_SUSPEND is PT_STATE_SUSPEND.
KeepsSuspendRequests ==
    \A t \in Linked \ Timers :
         "WANT_SUSPEND" \in state[t] /\ "WANT_SUSPEND" \notin state'[t]
           => state'[t] = {"SUSPEND"}

SuspendHonoured == [][KeepsSuspendRequests]_kernelVars

\* A delete request made to a running, sleeping or blocked task is never lost: the
\* only way out of PT_WANT_DELETE is off the task list.
DeleteHonoured ==
    [][\A t \in Linked \ Timers :
         "WANT_DELETE" \in state[t] /\ "WANT_DELETE" \notin state'[t]
           => t \notin Linked']_kernelVars
=============================================================================
