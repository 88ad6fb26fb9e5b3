SPECIFICATION PowerSpec
CONSTANTS
    Tracks <- NoTracks
    NoTrack = NoTrack
    MaxPermission = 5
    MaxSessions = 1
    MaxStream = 0
    MaxAdmission = 1
    Features = {"power"}
    MaxRooms = 2
    MaxDecisions = 2
    MaxIncidents = 2
    Calls <- OneCall
    MaxSeen = 2
    MaxPushes = 2
INVARIANTS BusyIsOneRequest NobodyInside OncePerCall
PROPERTIES ClaimedUnderSwitch
VIEW View
CHECK_DEADLOCK FALSE
