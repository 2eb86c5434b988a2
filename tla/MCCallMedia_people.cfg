SPECIFICATION Spec
CONSTANTS
    Users = {u1, u2}
    Self = Self
    VideoCall = TRUE
    Uses = {"audio", "people"}
    MaxRequests = 2
    MaxEvents = 2
INVARIANTS
    TypeOK
    
    
    
    KnownUsersAreFound
SYMMETRY Symmetry
CHECK_DEADLOCK FALSE
