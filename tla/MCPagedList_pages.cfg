SPECIFICATION Spec
CONSTANTS
    Filters = {f1, f2}
    PageSize = 2
    Width = 2
    Links = 3
    Faults = {"silent", "exception", "expire"}
    MaxRows = 5
    MaxDumps = 10
    MaxChanges = 2
    MaxClicks = 3
INVARIANTS
    TypeOK
    BarTellsRows
    ShowsAsked
    AsksWhatExists
    PagesFull
    BarShowsPage
    DumpLinks
SYMMETRY Symmetry
CHECK_DEADLOCK FALSE
