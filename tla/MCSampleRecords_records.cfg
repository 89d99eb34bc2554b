SPECIFICATION Spec
CONSTANTS
    heap = heap
    noheap = noheap
    pools = pools
    gc = gc
    druid = druid
    custom = custom
    Tasks = {k1}
    Objects = {heap, pools, gc, custom}
    Attributes = {heap, noheap, pools, gc}
    NoObject = NoObject
    Kind <- KindOf
    AttributesOf <- NamedAfter
    Chosen = {heap, gc, custom}
    BlankThresholds = FALSE
    Serialized = TRUE
    Faults = {"remote", "db", "dump"}
    MaxNames = 2
    MaxCollections = 1
CHECK_DEADLOCK FALSE
INVARIANTS
    ExceededDumps
    DumpsBounded
    FieldsKept
    AllSampled
    CollectionsOnce
PROPERTY BatchSpec
