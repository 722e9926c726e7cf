SPECIFICATION MCSpec
INVARIANTS TypeOK GrantHonoursWish ClearedOnce WaitersServed
CONSTANTS
 a = a
 b = b
 c = c
 e1 = e1
 x = x
 y = y
 Tasks = {a,b,c}
 Timers = {}
 Boot <- MCBoot
 Events = {e1}
 Bits = {x,y}
 Opts = {"FIFO","OTHER"}
 RecvFlags <- MCFlags
 MaxSent = 2
 MaxIsr = 1
 Delays = {1}
 Horizon = 2
 Wrap = 16
 Objects = {e1}
 NoTask = NoTask
 NoObj = NoObj
SYMMETRY BitSymmetry
