SPECIFICATION Spec
CONSTANTS
    c1 = c1
    c2 = c2
    f = f
    Admins = {a1, a2}
    Jobs = {1, 2}
    Crons = {c1, f}
    FiniteCrons = {f}
    Beans = {b1, b2}
    Discipline = {"serialized", "retry"}
    Faults = {"db", "restart"}
    NotScheduled = NotScheduled
    NoForm = NoForm
SYMMETRY Symmetry
CHECK_DEADLOCK FALSE
INVARIANTS TypeOK SwitchAgrees CronAgrees
