SPECIFICATION RoomSpec
CONSTANTS
    Tracks <- NoTracks
    NoTrack = NoTrack
    MaxPermission = 5
    MaxSessions = 2
    MaxStream = 0
    MaxAdmission = 4
    Features = {}
    MaxRooms = 2
    MaxDecisions = 2
    MaxIncidents = 1

PROPERTIES NoticeBeforeDestruction
CHECK_DEADLOCK FALSE
