SPECIFICATION Spec
CONSTANTS
    Runs = {r1, r2}
    Ops = {"block", "unblock"}
    MaxOps = 2
    MaxDisconnects = 1
    MaxRestarts = 0
    MaxLogins = 0
INVARIANTS
    UnblocksAreAsked
CHECK_DEADLOCK FALSE
