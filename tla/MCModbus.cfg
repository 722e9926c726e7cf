SPECIFICATION FairSpec
CONSTANTS
    Served <- MCServed
    Kinds <- MCKinds
    FrameSize <- MCFrameSize
    RefusalSize <- MCRefusalSize
    MinSize <- MCMinSize
    BufSize = 5
    Cnts = 2
    MaxCalls = 2
    MaxFaults = 1
INVARIANTS
    TypeOK
    PointerFollowsCounter
    SignalIsFresh
    CleanCallSucceeds
PROPERTIES
    IsRemoteCalls
    CallReturns
