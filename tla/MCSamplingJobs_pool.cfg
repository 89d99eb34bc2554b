SPECIFICATION Spec
CONSTANTS
    s1 = s1
    s2 = s2
    j1 = j1
    j2 = j2
    Threads = {t1, t2}
    Requests = {r1}
    Servers = {s1, s2}
    Conns = {x1, x2}
    NoConn = NoConn
    NoKey = NoKey
    NoJob = NoJob
    Jobs = {j1, j2}
    ServersOf <- BothAndFirst
    Concurrent = {j2}
    SampledJobs = {j1}
    DbMayFail = TRUE
    MaxFires = 2
CHECK_DEADLOCK FALSE
SYMMETRY ConnSymmetry
INVARIANTS
    Exclusive
    HeldOpen
    NoLeak
    RightServer
    NumActiveNeverOverstates
PROPERTY AlwaysNearer
