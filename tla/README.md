# Verification of PesudoOS and its Modbus stack (LoongIDE2, Loongson 2K300 templates)

TLA+ models, TLC runs and TLAPS proofs for the program in `src/LoongIDE2`. The
repository is an IDE distribution; the code of its own that has state, ordering
and concurrency is under `src/LoongIDE2/Template`. Its heart is **PesudoOS**
(`Template/ls2k/PesudoOS`), a cooperative kernel written with `setjmp` and
`longjmp`, on which the osal, the Modbus stack and the applications run. The
project models all of PesudoOS, and above it a Modbus master and a Modbus slave
with the serial line between them.

The modules describe the build with `PESUDO_OS_VER = 2`, the value of `pesudoos.h`.

## 1. Inventory

| component | state | operations | what is hard | what makes it correct |
|---|---|---|---|---|
| kernel: `pesudoos.c`, `pesudo_task.c` | task list; per task: state flags, `first_run_until`, `sleep_until`, `block_*`, `func_exit_pos` (a jmp_buf); the loop's `task` and `tmp`; `current_pesudo_task` | loop pass, `pesudo_task_create/delete/suspend/resume/sleep/sleep_until` | the list changes while it is walked; flags set in a task that is inside a call; return from a call long after it was made; 32-bit ticks against a 64-bit clock | the loop stays on live tasks; every saved context is used once and in the right call; requests are honoured; round robin |
| timers: `pesudo_timer.c` | list of timers; per timer: timeout, periodic flag, its task | create, delete, start, stop; `pesudo_timer_callback()` in the loop | a stop or a delete between due and run; late runs; deletion while armed | no drift, never ahead, silent once stopped, always served |
| mutexes: `pesudo_mutex.c` | owner, counter, option; the blocked tasks are found in the task list | create, delete, obtain (timed, recursive), release | hand-over to a task that is still blocked; timeout against grant; delete under waiters | exclusion, accounting, no lost waiter, obtains end |
| semaphores: `pesudo_sem.c` | 16-bit count | create, delete, clear, obtain, release from tasks and interrupts, deferred processing | interrupts between load and store of the count; several releases before the waiter resumes | no token invented, tokens reach waiters, none lost but in three known ways |
| events: `pesudo_event.c` | event bits; in each waiting task one field that holds first what it wants, then what it got | create, delete, set, send, receive (AND, OR, CLEAR, timed), deferred processing | interrupts against read-modify-write; a second send before the waiter has run; one scan that serves several waiters | a receiver gets what it asked for, a bit is cleared once, no satisfied waiter is passed over |
| queues: `pesudo_mq.c` | ring buffer with count, two indexes and a FULL flag | create, delete, send, receive (timed), flush, is_full, deferred processing | a grant reserves nothing; `++` and `--` against the interrupt's send; indexes wrap in two steps | FIFO, no loss or duplication, full never missed, grants backed by messages |
| osal (`ls2k/osal`) | none | wrappers per kernel | option and timeout conversion | same meaning on each kernel |
| Modbus master and slave (`ls2k/modbus`) | per channel: frame buffers, receive counters, `RxDoneFlag`, RTU silence timer; data tables | master: send a request, wait for the answer with a timeout, decode it; slave: receive, decode, answer | the timer interrupt against the waiting task; answers that come after the timeout | an answer completes its own request only |
| heap (`ls2k/misc/memory_man.c`) | block list in the heap | malloc, free, realloc | split and merge | blocks never overlap |
| interrupts and clock (`ls2k300/BareMetal/core`) | 64-bit tick counter, vectors | `Clock_isr`, `delay_ms`, enable and disable | runs between any two instructions | ticks are monotonic |
| drivers, kernel ports, lwIP port, newlib glue | registers, descriptor rings | reads and writes of registers | hardware behaviour | – |
| third-party: FreeRTOS, RT-Thread, uC/OS-III, lwIP, RTEMS headers; IDE binaries and demos | – | – | – | – |

How they interact:

- `pesudoos_run()` walks the task list and calls a handler, or `longjmp`s back into a
  handler that left in a blocking call. The blocking calls save the task's
  context in `func_exit_pos` and `longjmp` to the loop (`__mainloop_jmp_pos`).
- The objects keep no wait queue. A release scans the task list for tasks with
  the blocking flag and the object, picks one by `block_when` and sets the
  granting flag in it; the loop notices the flag on its next visit, and the
  resumed call clears it.
- Interrupts only change the objects' own fields; the loop deals out what they released at
  the end of each pass (`process_pesudo_*_from_isr()`).
- A timer is a task with `p_timer` set; its state is driven by the loop and by
  `pesudo_timer_callback()`.
- The osal maps its calls to one kernel's; Modbus uses the osal and the clock.

`PROJECT.json` lists every component with its status, and under `hazards` what is
hard to test at each line.

## 2. Modules and how they correspond to the code

`PROJECT.json` "map" gives the lines of each definition. Names in the modules are
the code's where TLA+ allows it. A function that can return from several places, or that leaves
through `longjmp` and comes back, is split into one action per way through it.

### PesudoOS.tla (`pesudoos.c`, `pesudo_task.c`)

Main-level code is sequential: the loop and the single task it is inside run
until the task calls back. One step is main-level code up to the next place
where it matters that an interrupt ran in between. `pc` says where the main level is: at the head of the
loop body (`foreach`), inside a handler (`running`), just behind the `setjmp` of a
blocking call (`resumed`), in `delay_ms()` (`delay`), or behind the end of a pass (`drain`).

- State flags are sets. `state[t] = {"RUNNING"}` is the code's test
  `task->state == PT_STATE_RUNNING`, `"RUNNING" \in state[t]` its `&`. That
  difference decides `Reaped`, `HandlerReturns`, `AtRest` and `Active`.
- `task` and `tmp` are the two variables of `TAILQ_FOREACH_SAFE`: they are saved before
  the handler runs and used after it (`BackInLoop`). A handler may delete any other task at rest, and
  nothing in the code keeps it from deleting `tmp`: the history variable `freed` is that task until the loop
  has moved on. If the memory was not allocated again meanwhile, the cursor then stands on a freed task (`Astray`); what the
  loop does there is undefined, and nothing follows but the clock (`LoopAstray`). If it was, the cursor is at the new task, the
  last of the list, and the tasks in between miss a pass.
- `VisitDispatch`, `VisitTimerDue`, `VisitWakeup`, `VisitGranted`, `VisitTimeout` and
  `VisitSkip` are the ways through the loop body, with the clock read once.
- `func_exit_pos[t]` names the call whose context is in the jmp_buf, or "none" when
  the context is used up.
- `Allocate` is `calloc` and `TAILQ_INSERT_TAIL`; a task is identified by its
  address, so a task created at the address of a deleted one is the same `t`.
- `prev_ticks[t]` is the variable the handler passes to
  `pesudo_task_sleep_until()`: it lives as long as the handler does, and each call may
  also start it anew from the clock.
- `Block`, `Unblock`, `Waiting` and `Selected` are what the object modules share.

Handlers are the application's: a running task makes any call with any argument in
any order (`TaskCall`), within the bounds.

### PesudoTimer.tla (`pesudo_timer.c`), PesudoMutex.tla (`pesudo_mutex.c`), PesudoSem.tla (`pesudo_sem.c`)

Each extends PesudoOS with the object's fields and calls, so that every run and proof of an object
has the real loop, clock and task calls in it.

- **PesudoTimer**: `pesudo_timer_callback` runs inside the step that ends the timer's
  handler (`TimerReturns`), as in the loop. A timer can be deleted when it is
  armed or running: the code frees it and leaves its task linked with `p_timer`
  dangling, so `FiringOf` reads any values for it.
- **PesudoMutex**: `ReleaseLast` is the whole `pesudo_mutex_release()` that brings the
  counter to 0, hand-over included. `Free` keeps a counter of 0 for a mutex
  released while nobody owns it, as the code does. `holds` is a history variable: obtains that returned 0, less
  releases by the holder.
- **PesudoSem**: `sem->count++` and `--` of main-level code are a load and a store, and the
  tests of the count are earlier loads; `IsrRelease` may come between any two of them. The scan of `pesudo_sem_obtain_internal()` and the
  grant are steps of their own, because they read the count again.
  `DrainSem` and `DrainEnds` are `process_pesudo_sem_from_isr()`. `given`, `isrGiven` and `taken` are
  history variables.

### PesudoEvent.tla (`pesudo_event.c`)

`bits |=` and `bits &= ~` of main-level code are a load and a store (`SendLoad`, `SendStore`,
`ReceiveLoad`, `ClearStore`), between which `IsrSend` may come. `Look`, `ScanEnds` and `Serve` are the scan of
`pesudo_event_receive_internal()`, one waiter at a time: `left` are those `TAILQ_FOREACH_SAFE` has not come to yet, and `NextWaiter` is the first of them in the task list. The scan reads the bits again for each of them,
and it treats an option that is neither FIFO nor LIFO differently from those two. `wait_event_bits` is overwritten by
the grant, as in the code; the history variable `wish` keeps what was asked for. `sent` and `consumed` count how often a bit
went in and was cleared, `unseen` holds the bits that came after the last scan began.

### PesudoMq.tla (`pesudo_mq.c`) and BoundedFifo.tla

A send is `SendTest`, then `WriteCopy`, `WriteCount`, `WriteIndex`, `WriteWrap`, `WriteFlag` and
`Scan`; a read is `ReadCopy`, `ReadTake` and `ReadBack`; a flush two steps. Each step ends at the next
load of a field that an interrupt's `IsrSend` also writes. `ReturnReads` reads when the loop resumes a
granted waiter, `ReturnWithout` is the timeout, and also a grant whose message somebody else has
read: the call then returns `item_size` and has copied nothing. `MQ_OPT_EMPTY` is never read and left
out. `Masked` says whether the application masks interrupts around its calls.

BoundedFifo is the abstract specification. The refinement mapping of `IsBoundedFifo` reads the ring from
`rd_index` on, `msg_count` slots long and wrapped at `item_count` (`Content`).

### Modbus.tla (`modbus/src`, `modbus/port`) and RemoteCalls.tla

A master (`mb_master.c`) and a slave (`mb_slave.c`) with what they share (`mb.c`, `mb_bsp.c`,
`mb_os.c`), each at its end of the line, both in RTU or both in ASCII mode.

- A call of `modbus_master_fcXX()` is `Call` (transmission), `Flush` (the end of
  `modbus_tx_bytes()`), the wait of `modbus_os_rx_wait()` step by step, and `Reply` or
  `WaitTimesOut`. The slave is the loop of `modbus_os_rx_task()`.
- `Tick(n)` is `modbus_rtu_timer_update()`, an interrupt that may come between any two steps.
- `RxBuf`, `RxBufByteCtr` and `RxBufPtr` are three variables, because the code resets them at different places.
- A message is given by its length: `FrameSize` of the mode for requests and regular answers, `RefusalSize` for an
  exception answer, which has one byte of data (`Size`). In ASCII that is 11 characters, exactly
  `MODBUS_ASCII_MIN_MSG_SIZE`, and `modbus_ascii_rx()` wants more (`Parsed`); in RTU it is 5 bytes of at least 4.
  What an answer that parses and does not match returns (`MODBUS_ERR_SLAVE_ADDR`, `MODBUS_ERR_FC`, `MODBUS_ERR_BYTE_COUNT`...) is `"MISMATCH"`.
- A byte is `<<r, i>>`, the i-th of request r or of its answer. So the model can tell a
  late or a torn answer from the right one, which the code, comparing address, function and byte count
  only, cannot: `Matches` looks at the kind of the request.
- External are the line and the UART driver (`Deliver`, `Lose`). `Lose` drops a byte; a silence
  inside a frame is a `Tick` that ends it early (`InFrame`). Both count as faults.
- `performed`, `accepted`, `whole`, `fresh` and `clean` are history variables.

RemoteCalls is the abstract specification: numbered requests, each performed at most once and in
order, and answers accepted at most once and in order.

### RecursiveLock.tla

The abstract specification of what `pesudo_mutex_obtain()` and `pesudo_mutex_release()`
promise to the tasks that call them. `PesudoMutex!IsRecursiveLock` is its `Spec`
with `held <- holds`.

### MCPesudoOS, MCPesudoTimer, MCPesudoMutex, MCPesudoSem, MCPesudoEvent, MCPesudoMq, MCModbus

The instances for TLC. MCPesudoOS, MCPesudoTimer and MCPesudoSem add history variables that only
their properties read. MCPesudoMutex, MCPesudoSem, MCPesudoEvent and MCPesudoMq drop the calls of `pesudo_task.c` their
properties do not depend on, to keep the state space small; the proofs are
about the full `Spec`. In MCPesudoEvent two tasks receive and the third sends.

### PesudoOSProofs, PesudoTaskProofs, PesudoTimerProofs, PesudoMutexProofs, PesudoSemProofs, PesudoEventProofs, PesudoMqProofs, ModbusProofs

The theorems (section 5).

### External

`setjmp`, `longjmp`, `jmp_func_with_stack`, the TAILQ macros and the heap are modelled by
what the kernel relies on.

## 3. Runs

| run | cfg | expected | question |
|---|---|---|---|
| kernel | MCPesudoOS.cfg | pass | With three tasks that create, delete, suspend, resume and sleep in any order: which deletion alone takes the loop off the list, does a task in a call keep its context, are suspend requests honoured, is scheduling round robin? |
| timer | MCPesudoTimer.cfg | pass | With timers deleted at rest, armed, running and by themselves: does the loop stay on linked tasks? Do periods neither drift nor run ahead, does a stopped timer stay silent, are due timers, ready tasks and sleepers served? |
| mutex | MCPesudoMutex.cfg | pass | Is a contended mutex a recursive lock, is it never free with a waiter, does every obtain end? |
| sem | MCPesudoSem.cfg | pass | Can interrupts between load and store invent a token, can a task's token stay behind while a task waits, does the deferred work deal out what came in time, which steps lose a token? |
| event | MCPesudoEvent.cfg | pass | Does a receiver get what it asked for, is a bit cleared at most once whatever interrupts come, is a satisfied waiter ever passed over? |
| mq | MCPesudoMq.cfg | pass | With interrupts masked around the calls: is a queue a bounded FIFO queue between any two steps, is full never missed, do messages reach waiters, when can a granted waiter find nothing? |
| modbus | MCModbus.cfg | pass | With lost bytes, silences, late answers and timeouts: does every call return, is a request performed twice, an answer accepted twice, does an earlier failure spoil a later call, how does a refusal end? |
| task_delete | MCPesudoOSDelete.cfg | violation | Is a delete request to an active task carried out? |
| first_run | MCPesudoOSWrap.cfg | violation | Does a new task wait for its first run, whatever the clock says? |
| mutex_fifo | MCPesudoMutexFifo.cfg | violation | Does a FIFO mutex go to the task that has waited longest? |
| sem_tokens | MCPesudoSemTokens.cfg | violation | Does every token that tasks release reach the count or a task that needs it? |
| mq_isr | MCPesudoMqIsr.cfg | violation | Is `msg_count` the number of buffered messages when interrupts send while tasks are inside a call? |

What the five violations show:

- **task_delete**: `pesudo_task_delete()` of an active task sets `PT_WANT_DELETE`. The end
  of the pass looks for a task whose state both has `PT_STATE_RUNNING` set and equals
  `PT_WANT_DELETE`, which no state does, and the return of the handler has
  replaced the flag by `PT_STATE_READY` before. The task is never deleted.
- **first_run**: `first_run_until` keeps 32 bits of the 64-bit clock and is compared with all 64.
- **mutex_fifo**: the scan keeps the candidate that blocked *last* for `PESUDO_OPT_FIFO`
  and the one that blocked first for `PESUDO_OPT_LIFO`.
- **sem_tokens**: a second release before the loop has resumed the first waiter selects
  the same waiter and takes a second token off the count for it.
- **mq_isr**: `msg_count++` and `msg_count--` of tasks are not masked. The interrupt's `msg_count++` between
  the load and the store is overwritten, and its message is in the buffer and never read.

### Bounds and why they are enough

- *Tasks*: three for kernel, mutexes and semaphores: the running task, the loop's saved
  successor and one more is what the list handling tells apart; an owner, a waiter and
  a competitor is what hand-over tells apart. A timer and a task for the timers.
- *Clock*: `Horizon` of 2 or 3 ticks and delays of one tick, timer timeouts of 1 and 2. Enough for a
  timeout to pass while another task runs, and for a timer to fire late and catch
  up. No call asks for a deadline beyond `Horizon`, so nothing waits for a tick that cannot come.
- *Wrap* (2^32 of the 32-bit fields) is 2 in the kernel runs, so that every such field wraps
  within the horizon, and 16 (no wrap) in the others. *CountWrap* (2^16 of the semaphore's
  count) is 2 in the sem run.
- *MaxNest* = 2 nested obtains, *MaxGiven* = 2 tokens, one of them by an interrupt.
- *Events*: one event, two bits, FIFO and the option that serves all; two receivers, of which one asks with
  OR or with AND and CLEAR and the other with the default, so that one bit has two takers. A bit is put
  in at most twice, once by an interrupt. The bits are interchangeable (`SYMMETRY`); no liveness is checked there.
- *Queues*: one queue of one or two slots, two messages (enough to tell orders apart), one send of an interrupt. Two slots make both
  indexes wrap within the run; three tasks are a waiter, a thief and a sender.
- *Modbus*: two calls of three kinds (served, refused, broadcast) in both modes, so that the first may
  leave something to the second. In RTU frames of three bytes and refusals and a smallest length of two; in ASCII
  frames of five, refusals and the length that must be exceeded of three: torn frames fall on both sides of each limit. A buffer of five, a
  silence of two ticks, one fault. `ModbusAssumption` keeps the order of these lengths in the code.
- Frames fit into the buffers (`FrameSize[mode] <= BufSize`): an ASCII message with more than 123 bytes of data would need more than the
  255 of `MODBUS_CFG_BUF_SIZE`, and is left out.
- `View` of the kernel run drops `first_run_until` of tasks that are not idle: nothing reads it then.

### Assumptions about the application and the environment

- `malloc` does not return the memory of a deleted object while a task still waits for it.
- A queue is not deleted while a granted waiter has not run yet: it would read freed memory.
- In the mq run, applications mask interrupts around queue calls. What happens otherwise is mq_isr.
- Both ends of a Modbus line have the same mode, and a byte of an answer other than its first never looks like one.
- Handlers of timers make no call that blocks.
- Code is built with `-O0`, as every bare-metal demo project is (`OptiLevel` in the `.lxp` files), so that the loop's
  locals are in its frame and survive a `longjmp`.
- One tick is one millisecond (`TICKS_PER_SECOND` = 1000).
- Obtains with timeout 0 return `EBUSY` and change nothing: they are no steps.
- The stack check of version 2, which halts the machine, and statistics are left out. So is
  `pesudoos_run(0)`, which returns after each pass and is called again.

## 4. Fairness

The timer and mutex runs check liveness. Assumed are: weak fairness of the loop and of the tails of
blocking calls, which is that the processor executes main-level code;
of the return of handlers, which the kernel demands of its applications,
being cooperative; and of the clock interrupt. Nothing is assumed of
any call a task may make: `ObtainEnds` holds even if the owner never releases.

- `DueTimerServed`, `ReadyRuns` (timer run) and `ObtainEnds` (mutex run) are the liveness properties.
- `CallReturns` (modbus run) needs two assumptions only: the master's task runs when it
  can (`WF(MasterStep)`), and the clock gets past the timeout of a wait (`WF(Elapse)`). Nothing is assumed of the line, the
  slave or the silence timer.
- A handler that deletes the loop's saved successor may take the loop off the list for good, or make it skip tasks. The
  three of the kernel therefore end in what they promise or in such a deletion (`freed # NoTask`).
- The other runs check safety only.
- The bounded clock stops at `Horizon`; as every deadline lies within it, this hides no wait.

## 5. Proofs

PesudoOSProofs, for all task sets, delays, clock bounds and wraps:

- `KernelInvariant`, `LoopIsSafe`, `CallsAreKept`: `LoopOnLiveTasks` and `PendingCallKept` are
  invariants of `KernelSpec`. Neither is inductive. `KernelInv` adds: the saved
  successor `tmp` is linked, the end, or the one task a handler had freed (`SuccessorLinked`: a create appends, and
  only a delete of `tmp` itself unlinks it), a running handler is outside every call, a resumed call has the grant it is resumed
  with, and timers wait for nothing. The proof has a lemma per action.
- `KernelIsTyped`: `KernelTypeOK`, the part of `KernelInv` that every object module shares.
- `SuspendIsHonoured`: the action property of the kernel run, from the same invariant.
- Lemmas the object modules rest on: which waiters a kernel step can add or change (`KernelWaiters`, `KernelFlags`),
  that it leaves grants where they are (`KernelKeepsGrants`),
  that a grant to waiting tasks keeps `KernelInv` (`GrantAllInv`), and that a scan with FIFO or LIFO which sees waiters selects one
  (`SelectedExists`), which needs that every `block_when` lies in the past.

PesudoTaskProofs, about the kernel with the history variables of MCPesudoOS:

- `TasksTakeTurns`: `BoundedOvertaking`. The invariant (`Turns`): going round the list from where the loop is, it comes to a ready task before
  it comes to one that has overtaken it. The loop's place is a number (`NextStop`), and a step leaves it alone, ends the pass, visits the
  task there, appends a task or removes one (`StepKinds`). It needs that no task is linked twice (`NoRepeats`). A task that is deleted and
  created again at the same address is a new one: `overtakers` forgets it. (With a fourth task it could otherwise overtake twice in one pass,
  from the end of the list, which is nothing the loop should prevent.) The count starts anew when the loop's successor is deleted, as the loop
  may then jump to the end of the list: the same task could be deleted, created and started again and again, and those it jumps over not.
- `NoEarlyStart`: `FirstRunOnTime` holds as long as the clock stays below the wrap, so the wrap is the only way for it to fail.

PesudoTimerProofs, about timers with all the kernel's steps and the history variables of MCPesudoTimer:

- `TimerIsTyped`, `NeverAheadOfItsPeriod`, `DeadlinesDoNotDrift`, `SilenceIsKept`: `TypeOK`, `NeverAhead`, `NoDrift` and
  `StoppedStaysSilent`. First, each step moves a timer in one of eight ways (`Moves`), whatever else it does. Then
  the invariant says of each timer which flags it may have (`Shape`); that an armed one has its deadline at the next point of the
  grid, a running one at the last (`Grid`), which needs that the clock has reached the deadline of
  a timer that is ready; and that one nobody asked to fire is neither armed nor ready (`Silent`).

PesudoMutexProofs, about mutexes composed with the whole kernel, with the clock and every task call:

- `TypeCorrect`, `MutexExcludes`, `OwnerIsRight`: `TypeOK`, `MutualExclusion` and `OwnerAccounts`.
  The inductive `MutexInv` is the kernel's invariant (its lemmas are reused for each step), the types,
  the accounts, and two facts about memory: a mutex that does not exist is held by nobody
  (`NoStaleHold`), and a grant is only set in a task that waits for that mutex (`NoStaleGrant`).
  The accounting is what makes exclusion inductive: the counter is what its owner holds plus the
  hand-over it has not seen.
- `NoWaiterIsLost`: `NoLostWaiter`. `WaiterInv` adds that `block_when` lies in the past, so that the release selects a waiter
  whenever there is one, two that blocked in the same tick included.
- `MutexIsRecursiveLock`: refinement of `RecursiveLock` (initial state and every step).
- `OptionsAreSwapped`: what the order of a hand-over is (`HandOverOrder`), where `mutex_fifo` shows what it is not. Nothing but the last release
  of a mutex grants it (`GrantsAreHandOvers`).

PesudoSemProofs, for any width of the count and interrupts between any two steps:

- `SemTypeOK`: `TypeOK`, with where the main level can be inside a semaphore function (`PcOfOp`).
- `TokensAreReal`: `NoTokenInvented`. The invariant has a clause for each place between a test or a load of the
  count and its store (`TokensOf`), because an interrupt may have changed the count since: what is about to be
  decremented stands for a token even if the count has wrapped to 0 (`Amount`).
- `ReleasesReachWaiters`: `TokensReachWaiters`, with the token a release has put in and its scan has not given
  away yet (`Pending`).
- `LossesAreExplained`: `LossesAreKnown`, the counterpart of `TokensAreReal`: which steps make the tokens that are accounted
  for fewer. It needs that the memory of a deleted task, which a new task may get, holds no grant (`GrantsLinked`); then the kernel's steps
  leave every grant where it is, and the rest is arithmetic over the steps that touch count and grants.

PesudoEventProofs, for any number of bits and interrupts between any two steps:

- `EventTypeOK`: `TypeOK`.
- `GrantsHonourWishes`: `GrantHonoursWish`. Inductive with it are that a granted task is still blocked, that whoever a scan looks at
  or keeps as its candidate waits, and that bits which are about to be cleared for a receiver are ones it may get (`ScanInv`); and that `wait_event_bits` of
  *every* blocked task, granted or not, is within what it asked for (`Wishes`), which is why a second grant does no harm.
- `BitsAreClearedOnce`: `ClearedOnce`. Between load and store the bits that were loaded are still owed: an interrupt
  only adds bits, and only one main-level function is under way (`OnceOf`).
- `WaitersAreServed`: `WaitersServed`. `ServeInv` follows a scan waiter by waiter. For the scan under way (`ScanRight`): its candidate is still
  satisfied when it is served, since interrupts only add bits and nobody clears any meanwhile. For each event
  (`ServedOf`): a waiter whom the bits the scan saw would satisfy is either still to be looked at, or another waiter of the event
  is granted or the scan's candidate.

PesudoMqProofs, about queues with all the kernel's steps:

- `MqTypeOK`, `GrantsLeadToMessages`, `DeferredWorkGrants`: `TypeOK`, `GrantsAreBacked` and
  `MessagesReachWaiters`, with interrupts masked or not. The invariants (`TypeInv`, `Backed`, `Reached`) say what holds at each step of a call.
- `FullIsNeverMissed`, `QueueIsBoundedFifo`: `FullNeverMissed` and the refinement of BoundedFifo, for rings of any size. Both assume
  `Masked`: `mq_isr` shows that the ring's invariant (`RingInv`: the indexes are `msg_count` slots apart, except where a call has moved one and not the
  other yet) fails otherwise.
- `MaskedCountIsBuffered`: with `Masked`, `CountIsBuffered` is an invariant too. It is the property `mq_isr` shows violated without; `CountInv`
  adds the message that a send has copied and not counted yet.

ModbusProofs, for any sizes of frames, refusals and buffers that `ModbusAssumption` allows, any number of calls and of faults:

- `ModbusTypeOK`, `PointerAlwaysFollows`, `SignalsAreFresh`: `TypeOK`, `PointerFollowsCounter` and `SignalIsFresh`. None is inductive.
  The invariant `ModbusInv` adds where each holds from one call to the next: between two calls, and up to
  the first byte of a wait, the master's buffer is empty (`EmptyBeforeWait`), so that resetting only the
  counter in `modbus_tx_bytes()` is enough; from `Flush` until a byte has been read the silence timer is off, and
  the flag is 0 (`NoSignalBeforeByte`), so that no old signal can end the wait; and a byte that is
  about to be stored has been read in this wait (`StoresByte`).
- `BytesPassOnce`, `ModbusImplementsRemoteCalls`: `IsRemoteCalls`, initial state and every step. The invariant (`OnceInv`) follows every byte
  from one end to the other: what is in the sender's buffer, on the line, in the receiver's UART and in its frame buffer is, in this order, in the
  order of sending (`OrderAt`); no byte of a request that was performed is still to come to the slave (`SlaveOnce`),
  and no first byte of an answer that was accepted to the master (`MasterOnce`); what was performed was sent (`PerformedSent`), and what was
  accepted was performed (`AcceptsPerformed`). Faults only drop bytes or cut frames, so they keep the order.
- `CleanCallsSucceed`: `CleanCallSucceeds`. `CleanInv` says where the bytes of the call under way are as long as nothing has gone wrong with it
  (`UnderWay`): the request is on its way (`Asking`), the answer is (`Answering`), or the slave has decided that
  none will come (`Silent`). The length of the message under way is a parameter of each lemma (`Lengths`), and `MessageParsed` says which messages
  parse: all but a refusal in ASCII. Everything else is empty and both silence timers agree with it. The proof has a lemma for each kind of step.

The assumptions are `TasksAssumption`, `TimeAssumption`, `TimerAssumption`, `MutexAssumption`, `SemAssumption`, `EventAssumption`, `MqAssumption` and `ModbusAssumption`; TLC evaluates them
in every run of their modules.

Every safety property, action property and refinement that a passing run checks is thus a theorem, except `TokensAreDealt` of the sem run (with
timers `LoopOnLiveTasks` is part of the invariant of PesudoTimerProofs). Also only model-checked are
the liveness properties (`DueTimerServed`, `ReadyRuns`, `ObtainEnds` and `CallReturns`): liveness under fairness is out of TLAPS's reach. What the violation
runs check is false for the code; `NoEarlyStart` and `MaskedCountIsBuffered` say under which condition two of those properties hold,
`LossesAreExplained` and `OptionsAreSwapped` what holds instead of two others.

## 6. What is not modelled, and what the models left open

Met while modelling, and not the subject of a run:

- The master compares no CRC and no LRC (`mb_master.c:1321`), so an answer that lost a byte behind
  the byte count may be accepted. `CleanCallSucceeds` therefore speaks of calls without faults.
- A late answer is accepted for a later request of the same kind (`mb_master.c:942`); `IsRemoteCalls` shows that it is accepted once.
- In ASCII mode the master never sees an exception answer as one: it has 11 characters, and `modbus_ascii_rx()` (`mb.c:471`) demands more
  than `MODBUS_ASCII_MIN_MSG_SIZE` = 11, so the call returns `MODBUS_ERR_RX`. `CleanCallSucceeds` states the outcome in each mode.
- A task that deletes the successor the loop has saved (`pesudo_task.c:94`, `pesudoos.c:143`) leaves the loop on freed memory; an
  application cannot tell which task that is. `LoopOnLiveTasks` says that this is the only such case.
- In ASCII mode the slave drops broadcasts: it compares the address with its own only.
- `int start_time` (`mb_os.c:240`) takes the clock in 31 bits; `uint8_t nbr_points` (`mb_master.c:949`) is too
  small for more than 255 coils.
- `pesudo_mq_is_full()` may say full after a read, which leaves the flag; `FullNeverMissed` is the other direction.
- A granted receiver whose message has been read by another task returns `item_size` all the same (`ReturnWithout`).

Not modelled:

- The heap of `memory_man.c`, a sequential first-fit allocator: the models take `malloc` and `free` as specified.
- The fields and data tables of the single Modbus function codes (`mb_data.c`, the decoders): data that
  the properties do not tell apart. CRC and LRC are modelled by what they tell.
- The osal: wrappers without state, over PesudoOS or over third-party kernels.
- Drivers, GMAC and DMA, the lwIP port, start-up and interrupt vectors: accesses to registers, whose behaviour is the
  hardware's and not in the repository.
- Formatting and system-call stubs.
- Third-party kernels and stacks, their ports, the IDE's binaries, the toolchain with its libraries, and the demos, which are
  copies of the templates with example applications. They are nearly all of the repository's lines, so the lines the models map are a small
  share of it, though a large one of PesudoOS and of the Modbus stack's control.

Worth adding: a second queue or event in one instance (the theorems are about any number); the fields of the function codes.
