SPECIFICATION MCSpec
PROPERTY LossesAreKnown
INVARIANTS TypeOK NoTokenInvented TokensReachWaiters TokensAreDealt
CONSTANTS
 a = a
 b = b
 c = c
 s1 = s1
 Tasks = {a,b,c}
 Timers = {}
 Boot <- MCBoot
 Sems = {s1}
 Opt <- MCOpt
 Counts = {0,1}
 MaxGiven = 2
 MaxIsr = 1
 CountWrap = 2
 Delays = {1}
 Horizon = 2
 Wrap = 16
 Objects = {s1}
 NoTask = NoTask
 NoObj = NoObj
