SPECIFICATION RoomSpec
CONSTANTS
    Tracks <- NoTracks
    NoTrack = NoTrack
    MaxPermission = 5
    MaxSessions = 2
    MaxStream = 0
    MaxAdmission = 4
    Features = {"power"}
    MaxRooms = 2
    MaxDecisions = 2
    MaxIncidents = 1
INVARIANTS OneSessionAlive NothingForgotten
PROPERTIES ImplementsAccess ClearOutOnlyWhenCut RevokedIsCut ServerFollowsDecision
CHECK_DEADLOCK FALSE
