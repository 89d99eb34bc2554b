SPECIFICATION Spec
CONSTANTS
    Crons = {c1, c2}
    BadCron = bad
    Statuses = {on, off}
    First = off
    Blank = blank
    Faults = {"refused", "lost"}
    MaxSaves = 3
    MaxEdits = 3
INVARIANTS
    TypeOK
    PageTellsRow
    StatusChosen
CHECK_DEADLOCK FALSE
