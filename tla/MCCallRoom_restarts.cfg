SPECIFICATION Spec
CONSTANTS
    Calls = {c1}
    NoCall = NoCall
    Kinds = {"audio", "video"}
    EmptyLists = TRUE
    MaxRequests = 1
    MaxSleepers = 1
    MaxFailures = 1
INVARIANTS
    EveryoneIsHeard
    OwnAudioIsSent
    
    AnswersInTimeNeverCrash
SYMMETRY Symmetry
ACTION_CONSTRAINT ServerFirst
CHECK_DEADLOCK FALSE
