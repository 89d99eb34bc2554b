SPECIFICATION Spec
CONSTANTS
    c1 = c1
    c2 = c2
    f = f
    Admins = {a1}
    Jobs = {1}
    Crons = {c1}
    FiniteCrons = {}
    Beans = {b1}
    Discipline = {"serialized", "retry", "onePage"}
    Faults = {}
    NotScheduled = NotScheduled
    NoForm = NoForm
CHECK_DEADLOCK FALSE
INVARIANT AppKept
