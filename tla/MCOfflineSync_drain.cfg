SPECIFICATION Spec
CONSTANTS
    Runs = {r1, r2}
    Ops = {"read", "deleteMessages", "archive"}
    MaxOps = 2
    MaxDisconnects = 1
    MaxRestarts = 0
    MaxLogins = 0
INVARIANTS
    LostOnlyByCuts
PROPERTIES
    QueuesDrain
CHECK_DEADLOCK FALSE
