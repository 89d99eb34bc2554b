SPECIFICATION Spec
CONSTANTS
    s1 = s1
    s2 = s2
    j1 = j1
    j2 = j2
    Threads = {t1}
    Requests = {}
    Servers = {s1}
    Conns = {x1, x2}
    NoConn = NoConn
    NoKey = NoKey
    NoJob = NoJob
    Jobs = {j1}
    ServersOf <- All
    Concurrent = {}
    SampledJobs = {j1}
    DbMayFail = FALSE
    MaxFires = 2
CHECK_DEADLOCK FALSE
INVARIANT NoOverlap
