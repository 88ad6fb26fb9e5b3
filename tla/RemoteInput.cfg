SPECIFICATION InputSpec
CONSTANTS
    k = k
    Left = Left
    NoInput = NoInput
    Inputs <- MCInputs
    Keys = {k}
    Modifiers = {}
    Rank <- MCRank
    Chord <- MCChord
    Owners = {w1, w2}
    w1 = w1
    w2 = w2
    NoOwner = NoOwner
    MaxEvents = 2
    MaxWire = 2
INVARIANTS NoForgottenPress RecoveredIsClean ReleaseOwed
SYMMETRY AlikeOwners
CHECK_DEADLOCK FALSE
