SPECIFICATION TermFairSpec
CONSTANTS
    Keys <- MCKeys
    Conns <- OneConn
    Locals = {"here"}
    MaxOwned = 1
    MaxTotal = 1
    HighWater = 1
    Budget = 1
    MaxWrites = 1
    MaxFrames = 1
    MaxChanges = 2
    c1 = c1
    c2 = c2
INVARIANTS GoneLetsGo
PROPERTIES DeadShellsGo LocalAccessEnds
CHECK_DEADLOCK FALSE
