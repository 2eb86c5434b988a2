SPECIFICATION Spec
CONSTANTS
    Runs = {r1, r2}
    Ops = {"deleteStory", "message", "block"}
    MaxOps = 2
    MaxDisconnects = 1
    MaxRestarts = 1
    MaxLogins = 1
INVARIANTS
    TypeOK
    NothingLost
    FirstFetchAlone
SYMMETRY Symmetry
CHECK_DEADLOCK FALSE
