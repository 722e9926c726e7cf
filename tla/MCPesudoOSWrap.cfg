SPECIFICATION MCSpec
PROPERTY FirstRunOnTime
VIEW View
CONSTANTS
 a = a
 b = b
 c = c
 Tasks = {a,b,c}
 Timers = {}
 Boot <- MCBoot
 Delays = {1}
 Horizon = 2
 Wrap = 2
 Objects = {}
 NoTask = NoTask
 NoObj = NoObj
