SPECIFICATION Spec
CONSTANTS
    None = None
    Own = {o1}
    Others = {}
    Threads = {th1, th2}
    MaxUpsets = 3
    MaxInbox = 1
INVARIANTS
    
    DeletionHolds

    
CHECK_DEADLOCK FALSE
