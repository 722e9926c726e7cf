SPECIFICATION MCSpec
INVARIANTS TypeOK MutualExclusion OwnerAccounts NoLostWaiter
PROPERTIES IsRecursiveLock ObtainEnds
CONSTANTS
 a = a
 b = b
 c = c
 m1 = m1
 Tasks = {a,b,c}
 Timers = {}
 Boot <- MCBoot
 Mutexes = {m1}
 Opt <- MCOpt
 MaxNest = 2
 Delays = {1}
 Horizon = 3
 Wrap = 16
 Objects = {m1}
 NoTask = NoTask
 NoObj = NoObj
