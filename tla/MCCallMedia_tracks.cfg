SPECIFICATION Spec
CONSTANTS
    Users = {u1}
    Self = Self
    VideoCall = FALSE
    Uses = {"audio", "video", "people", "refresh", "end"}
    MaxRequests = 1
    MaxEvents = 1
INVARIANTS
    
    RowsTellTheTruth
    
    OwnOperationsFindTheirData
CHECK_DEADLOCK FALSE
