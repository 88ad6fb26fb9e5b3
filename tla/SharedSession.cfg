SPECIFICATION SharedSpec
CONSTANTS
    v1 = v1
    v2 = v2
    Viewers = {v1, v2}
    Services = {m}
    Nobody = Nobody
    Tasks = {t}
    MaxSessions = 2
    MaxLogins = 2
    MaxAsks = 3
INVARIANTS ViewerHasReceiver OneOwner EndedIsClosed QuitLeavesNothing EndIsUnderWay
SYMMETRY AlikeViewers
CHECK_DEADLOCK FALSE
