SPECIFICATION FairSpec
CONSTANTS
    Live = live
    Spans = {day}
    NoFrame = none
    Discipline = {"quick"}
    Faults = {"silent"}
    MaxViews = 1
    MaxClicks = 0
PROPERTY AutoRefresh
CHECK_DEADLOCK FALSE
