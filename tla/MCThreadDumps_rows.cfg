SPECIFICATION FairSpec
CONSTANTS
    Orders = {o1, o2}
    Manual = {o2}
    Readings <- SameMinute
    NoDump = NoDump
    Faults = {"remote", "file", "db", "restart"}
    MaxCount = 2
CHECK_DEADLOCK FALSE
INVARIANTS
    RowsOwnDump
    
PROPERTIES
    OrdersFulfilled
