SPECIFICATION MCSpec
INVARIANTS TypeOK LoopOnLiveTasks NeverAhead NoDrift
PROPERTIES StoppedStaysSilent DueTimerServed ReadyRuns
CONSTANTS
 a = a
 c = c
 Tasks = {a,c}
 Timers = {c}
 Boot <- MCBoot
 Delays = {1}
 Timeouts = {1,2}
 Horizon = 3
 Wrap = 16
 Objects = {}
 NoTask = NoTask
 NoObj = NoObj
