SPECIFICATION Spec
CONSTANTS
    Calls = {c1, c2}
    NoCall = NoCall
    Users = {u1}
    Self = Self
    BusyCheck = TRUE
    MaxRequests = 2
    MaxEvents = 2
    MaxRows = 2
    MaxDrops = 1
    MaxLookups = 1
INVARIANTS
    TypeOK
    DataFollowsCall
    NoEndedCallKept
    
    IdleIsClean
PROPERTIES
    CallNeverReplaced
    LedgerSpec
SYMMETRY Symmetry
CHECK_DEADLOCK FALSE
