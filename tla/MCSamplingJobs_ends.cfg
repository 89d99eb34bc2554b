SPECIFICATION FairSpec
CONSTANTS
    s1 = s1
    s2 = s2
    j1 = j1
    j2 = j2
    Threads = {t1}
    Requests = {r1}
    Servers = {s1, s2}
    Conns = {x1, x2}
    NoConn = NoConn
    NoKey = NoKey
    NoJob = NoJob
    Jobs = {j1}
    ServersOf <- All
    Concurrent = {j1}
    SampledJobs = {j1}
    DbMayFail = FALSE
    MaxFires = 2
CHECK_DEADLOCK FALSE
INVARIANTS NothingMissed NullsBounded
PROPERTIES ExecutionsEnd LeaseSpec
