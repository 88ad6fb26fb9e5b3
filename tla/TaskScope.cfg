SPECIFICATION FairSpec
CONSTANTS
    Free = Free
    peer = peer
    view = view
    Scopes = {peer, view}
    Above <- MCAbove
    Tasks = {t1, t2}
    Callers = {c1, c2}
INVARIANTS ClosedIsEmpty
PROPERTIES KeepsOwnership CloseReturns RetiredTasksEnd
CHECK_DEADLOCK FALSE
