SPECIFICATION FairSpec
CONSTANTS
    Live = live
    Spans = {day}
    NoFrame = none
    Discipline = {"quick"}
    Faults = {"silent"}
    MaxViews = 2
    MaxClicks = 2
INVARIANTS PollersBounded ShowsPicked NeverStalls
PROPERTIES PollerSpec KeepsPolling
CHECK_DEADLOCK FALSE
