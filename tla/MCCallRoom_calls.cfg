SPECIFICATION Spec
CONSTANTS
    Calls = {c1, c2}
    NoCall = NoCall
    Kinds = {"audio"}
    EmptyLists = FALSE
    MaxRequests = 1
    MaxSleepers = 1
    MaxFailures = 0
INVARIANTS
    TypeOK
    NoOrphanMicrophone
    OwnAudioIsSent
    
    OpenRoomHasItsDevice
    TransportsServeTheOpenRoom
SYMMETRY Symmetry
ACTION_CONSTRAINT ServerFirst
CHECK_DEADLOCK FALSE
