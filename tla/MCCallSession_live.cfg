SPECIFICATION FairSpec
CONSTANTS
    Calls = {c1, c2}
    NoCall = NoCall
    Users = {u1}
    Self = Self
    BusyCheck = TRUE
    MaxRequests = 1
    MaxEvents = 1
    MaxRows = 1
    MaxDrops = 0
    MaxLookups = 1
PROPERTIES
    HangUpTakesEffect
CHECK_DEADLOCK FALSE
