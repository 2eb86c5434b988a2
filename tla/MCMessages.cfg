SPECIFICATION Spec
CONSTANTS
    None = None
    Own = {o1}
    Others = {t1}
    Threads = {th1, th2}
    MaxUpsets = 1
    MaxInbox = 1
INVARIANTS
    TypeOK
    
    OneRowPerMessage
    SentOnce
    DeliveredIsStored
SYMMETRY Symmetry
CHECK_DEADLOCK FALSE
