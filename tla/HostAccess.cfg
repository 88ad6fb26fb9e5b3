SPECIFICATION Spec
CONSTANTS
    Tracks <- MCTracks
    NoTrack = NoTrack
    MaxPermission = 2
    MaxSessions = 2
    MaxStream = 1
    MaxAdmission = 2
    Features = {"update", "power", "assistance"}
    video = video
    MaxLeases = 5
CONSTRAINT FewLeases
INVARIANTS SessionHasOwner OneSessionAccepted EndReportedOnce
PROPERTIES RefusedForEver
CHECK_DEADLOCK FALSE
