SPECIFICATION Spec
CONSTANTS
    Calls = {c1}
    NoCall = NoCall
    Kinds = {"audio"}
    EmptyLists = FALSE
    MaxRequests = 1
    MaxSleepers = 1
    MaxFailures = 1
INVARIANTS
    EndedCallsStayClosed
SYMMETRY Symmetry
ACTION_CONSTRAINT ServerFirst
CHECK_DEADLOCK FALSE
