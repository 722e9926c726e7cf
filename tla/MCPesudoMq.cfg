SPECIFICATION MCSpec
INVARIANTS TypeOK FullNeverMissed MessagesReachWaiters GrantsAreBacked
PROPERTY IsBoundedFifo
CONSTANTS
 a = a
 b = b
 c = c
 q1 = q1
 m1 = m1
 m2 = m2
 Tasks = {a,b,c}
 Timers = {}
 Boot <- MCBoot
 Queues = {q1}
 Msgs = {m1,m2}
 Opts = {"FIFO"}
 MaxSize = 2
 MaxIsr = 1
 Masked = TRUE
 Delays = {1}
 Horizon = 2
 Wrap = 16
 Objects = {q1}
 NoTask = NoTask
 NoObj = NoObj
