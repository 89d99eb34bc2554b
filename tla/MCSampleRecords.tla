--------------------------- MODULE MCSampleRecords ---------------------------
(* Small instances of SampleRecords for TLC. *)
EXTENDS SampleRecords

CONSTANTS heap, noheap, pools, gc, druid, custom

\* One object of each table, and two that fill the memory row.
KindOf == [o \in Objects |-> CASE o \in {heap, pools} -> "memory"
                               [] o = gc -> "cms"
                               [] o = druid -> "druid"
                               [] o = custom -> "normal"]

\* One attribute of each object, named after it, and two of the memory bean.
NamedAfter == [o \in Objects |-> Attributes \cap IF o = heap THEN {heap, noheap} ELSE {o}]
=============================================================================
