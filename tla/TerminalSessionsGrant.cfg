SPECIFICATION TermSpec
CONSTANTS
    Keys <- OneKey
    Conns <- MCConns
    Locals = {"here"}
    MaxOwned = 1
    MaxTotal = 1
    HighWater = 1
    Budget = 1
    MaxWrites = 2
    MaxFrames = 1
    MaxChanges = 1
    c1 = c1
    c2 = c2
INVARIANTS ShellsEndWithGrant
SYMMETRY ConnSymmetry
CHECK_DEADLOCK FALSE
