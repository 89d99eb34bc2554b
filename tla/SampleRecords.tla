---------------------------- MODULE SampleRecords ----------------------------
(***************************************************************************)
(* What the tasks of ServerJob do with one server of one application: run  *)
(* the server's queries one after the other, compare each result with the  *)
(* application's thresholds, order a thread dump when one is exceeded, and *)
(* store the sample.  The queries on the memory of a server fill one row   *)
(* together; the last garbage collection is stored unless it is there.     *)
(*                                                                         *)
(* A query is known by the object name it asks for.  A sample is the set   *)
(* of attributes that came back; of their values only matters which        *)
(* thresholds they exceed.                                                 *)
(***************************************************************************)
EXTENDS Naturals, FiniteSets

CONSTANTS
    Tasks,           \* the threads a job has started for this server, in time
    Objects,         \* the object names of the table jmx_sample
    Attributes,      \* the attributes of that table
    NoObject,        \* no query at work
    Kind,            \* Kind[o]: what the aliases of o begin with
    AttributesOf,    \* AttributesOf[o]: the attributes sampled of o
    Chosen,          \* the objects of the samples the application has chosen
    BlankThresholds, \* may a threshold be saved with an empty value?
    Serialized,      \* is a task at its end before the next one begins?
    Faults,          \* what may fail: "remote" calls, the "db", ordering a "dump"
    MaxNames,        \* bound: MBeans whose name matches one object name
    MaxCollections   \* bound: garbage collections of the server

Kinds == {"memory", "thread", "cms", "database", "druid", "normal"}

ASSUME RecordsAssumption ==
    /\ NoObject \notin Objects
    /\ Kind \in [Objects -> Kinds]
    /\ AttributesOf \in [Objects -> SUBSET Attributes]
    /\ Chosen \subseteq Objects
    /\ BlankThresholds \in BOOLEAN
    /\ Serialized \in BOOLEAN
    /\ Faults \subseteq {"remote", "db", "dump"}
    /\ MaxNames \in Nat
    /\ MaxCollections \in Nat

VARIABLES
    pc,         \* pc[k]: what task k does next
    todo,       \* todo[k]: the queries that have not begun
    query,      \* query[k]: the query at work
    row,        \* row[k]: the row of jmx_memory made for the task
    collected,  \* collected[n]: rows of jmx_cms for the n-th collection
    gcs,        \* collections the server has done
    ordered,    \* ordered[k][w]: dumps ordered by the writers of kind w
    seen        \* history of what happened to task k

vars == <<pc, todo, query, row, collected, gcs, ordered, seen>>

Stages == {"new", "choose", "names", "fetch", "check", "dump", "write", "insert",
           "ended"}

\* The query at work: its object, the MBeans still to be fetched, the attributes
\* in the result map, the collection fetched last (0 when unknown), abnormalFlg.
Fresh(o, n) == [at |-> o, left |-> n, got |-> {}, start |-> 0, flag |-> 0]

NoQuery == Fresh(NoObject, 0)

\* History: the kinds that have met an exceeded threshold, those that failed to
\* order a dump, the memory samples after which the row shows no alarm, the
\* attributes of the memory samples stored, the queries that have stored a
\* sample, and those that have failed or found nothing.
NothingSeen == [exceeded |-> {}, undumped |-> {}, calm |-> 0, written |-> {},
                stored |-> {}, excused |-> {}]

EmptyRow == [flag |-> 0, fields |-> {}]

Init ==
    /\ pc = [k \in Tasks |-> "new"]
    /\ todo = [k \in Tasks |-> {}]
    /\ query = [k \in Tasks |-> NoQuery]
    /\ row = [k \in Tasks |-> EmptyRow]
    /\ collected = [n \in 0 .. MaxCollections |-> 0]
    /\ gcs = 0
    /\ ordered = [k \in Tasks |-> [w \in Kinds |-> 0]]
    /\ seen = [k \in Tasks |-> NothingSeen]

----------------------------------------------------------------------------
(* Queries of a server *)

\* Data sources: those chosen under the alias of data sources, else druid's.
DataSources ==
    LET of(w) == {o \in Chosen : Kind[o] = w}
    IN  IF of("database") # {} THEN of("database") ELSE of("druid")

\* One chosen sample of memory, threads or collections brings all objects of
\* its kind.  A data source is also in the list of normal queries, and dropped
\* there because the two queries are equal.
Queries ==
    {o \in Objects : /\ Kind[o] \in {"memory", "thread", "cms"}
                     /\ \E c \in Chosen : Kind[c] = Kind[o]}
        \cup {o \in Chosen : Kind[o] \in {"database", "druid", "normal"}}

\* The output writer of a query, and the thresholds it reads.
Writer(o) == IF Kind[o] \in {"memory", "thread", "cms"} THEN Kind[o]
             ELSE IF o \in DataSources THEN "database" ELSE "normal"

Object(k) == query[k].at

----------------------------------------------------------------------------
(* Parts of actions *)

Goto(k, stage) == pc' = [pc EXCEPT ![k] = stage]

\* After an MBean: the next one of the query, or the next query.
NextName(k) ==
    LET q == query[k] IN
    IF q.left > 1
    THEN /\ Goto(k, "fetch")
         /\ query' = [query EXCEPT ![k] = Fresh(q.at, q.left - 1)]
    ELSE /\ Goto(k, "choose")
         /\ query' = [query EXCEPT ![k] = NoQuery]

\* Mutant: without the executor an exception ends the task.
AbandonTask(k) ==
    /\ Goto(k, "ended")
    /\ query' = [query EXCEPT ![k] = NoQuery]

\* An exception ends the query with the MBeans that are left, and nothing else:
\* it stays in the Future that invokeAll has made for the query.
AbandonQuery(k) ==
    /\ Goto(k, "choose")
    /\ query' = [query EXCEPT ![k] = NoQuery]

Stored(k) == seen' = [seen EXCEPT ![k].stored = @ \cup {Object(k)}]

Excused(k) == seen' = [seen EXCEPT ![k].excused = @ \cup {Object(k)}]

----------------------------------------------------------------------------
(* Actions of a task *)

\* The queries are built (the memory row is inserted with them, empty) and the
\* thread is started.
Begin(k) ==
    /\ pc[k] = "new"
    /\ Serialized => \A i \in Tasks : pc[i] \in {"new", "ended"}
    /\ todo' = [todo EXCEPT ![k] = Queries]
    /\ Goto(k, "choose")
    /\ UNCHANGED <<query, row, collected, gcs, ordered, seen>>

\* Mutant: a query may be run again.
ChooseAgain(k) ==
    /\ pc[k] = "choose"
    /\ \E o \in todo[k] :
        /\ todo' \in {todo, [todo EXCEPT ![k] = @ \ {o}]}
        /\ query' = [query EXCEPT ![k].at = o]
    /\ Goto(k, "names")
    /\ UNCHANGED <<row, collected, gcs, ordered, seen>>

\* The single thread of the executor takes the next query; their order is that
\* of the table of samples.
Choose(k) ==
    /\ pc[k] = "choose"
    /\ \E o \in todo[k] :
        /\ todo' = [todo EXCEPT ![k] = @ \ {o}]
        /\ query' = [query EXCEPT ![k].at = o]
    /\ Goto(k, "names")
    /\ UNCHANGED <<row, collected, gcs, ordered, seen>>

\* invokeAll returns when the last query has ended.
End(k) ==
    /\ pc[k] = "choose" /\ todo[k] = {}
    /\ Goto(k, "ended")
    /\ UNCHANGED <<todo, query, row, collected, gcs, ordered, seen>>

\* queryNames finds the MBeans that answer to the object name, or none.
FindNames(k) ==
    /\ pc[k] = "names"
    /\ \E n \in 1 .. MaxNames : query' = [query EXCEPT ![k].left = n]
    /\ Goto(k, "fetch")
    /\ UNCHANGED <<todo, row, collected, gcs, ordered, seen>>

FindNoName(k) ==
    /\ pc[k] = "names"
    /\ NextName(k)
    /\ Excused(k)
    /\ UNCHANGED <<todo, row, collected, gcs, ordered>>

\* The result map has the attributes that came back and could be converted;
\* it is empty when the conversion has thrown.
Fetch(k) ==
    /\ pc[k] = "fetch"
    /\ \E as \in SUBSET AttributesOf[Object(k)] :
        query' = [query EXCEPT ![k].got = as, ![k].start = IF as = {} THEN 0 ELSE gcs]
    /\ Goto(k, "check")
    /\ UNCHANGED <<todo, row, collected, gcs, ordered, seen>>

\* No results: the writers are not called.
FetchNothing(k) ==
    /\ pc[k] = "fetch"
    /\ NextName(k)
    /\ Excused(k)
    /\ UNCHANGED <<todo, row, collected, gcs, ordered>>

RemoteFails(k) ==
    /\ pc[k] \in {"names", "fetch"}
    /\ "remote" \in Faults
    /\ AbandonQuery(k)
    /\ Excused(k)
    /\ UNCHANGED <<todo, row, collected, gcs, ordered>>

\* Mutant: an attribute that does not exceed its threshold ends the check.
VerdictsOfFirst(set, blank) == {0} \cup {1 : a \in set}

\* The verdicts checkNeedDumpInfo can reach when the attributes in set exceed a
\* threshold and those in blank exceed the 0 an empty threshold is read as: the
\* first of them in the order of a hash map decides.
Verdicts(set, blank) ==
    {1 : a \in set} \cup (IF set = {} \/ blank # {} THEN {0} ELSE {})

\* The administrator may change thresholds at any time, so that any attributes
\* may exceed theirs.  There are none for normal queries.
Check(k) ==
    LET w == Writer(Object(k)) IN
    /\ pc[k] = "check"
    /\ \E set, blank \in SUBSET query[k].got :
        /\ set \cap blank = {}
        /\ w = "normal" => set = {}
        /\ w = "normal" \/ ~BlankThresholds => blank = {}
        /\ \E v \in Verdicts(set, blank) :
            /\ query' = [query EXCEPT ![k].flag = v]
            /\ Goto(k, IF v = 1 THEN "dump" ELSE "write")
        /\ seen' = [seen EXCEPT ![k].exceeded = @ \cup {w : a \in set}]
    /\ UNCHANGED <<todo, row, collected, gcs, ordered>>

\* Thresholds that cannot be read are no thresholds.
CheckFails(k) ==
    /\ pc[k] = "check"
    /\ "db" \in Faults
    /\ Goto(k, "write")
    /\ UNCHANGED <<todo, query, row, collected, gcs, ordered, seen>>

\* A memory dump is left out while the row shows an alarm; the rows of other
\* kinds are looked up by the id -1, which no row has.
DumpThreadInfo(k) ==
    LET w == Writer(Object(k))
        suppressed == w = "memory" /\ row[k].flag = 1
    IN
    /\ pc[k] = "dump"
    /\ ordered' = IF suppressed THEN ordered ELSE [ordered EXCEPT ![k][w] = @ + 1]
    /\ Goto(k, "write")
    /\ UNCHANGED <<todo, query, row, collected, gcs, seen>>

\* Reading the row or the application, or scheduling the dump job, has failed.
DumpFails(k) ==
    /\ pc[k] = "dump"
    /\ "dump" \in Faults
    /\ seen' = [seen EXCEPT ![k].undumped = @ \cup {Writer(Object(k))}]
    /\ Goto(k, "write")
    /\ UNCHANGED <<todo, query, row, collected, gcs, ordered>>

\* Mutant: the update writes every column.
UpdateAll(r, as, f) == [flag |-> f, fields |-> as]

\* Mutant: the flag is not among the columns.
UpdateUnflagged(r, as, f) == [flag |-> 0, fields |-> r.fields \cup as]

\* The memory row takes the fields of this sample, keeps the others, and shows
\* this sample's flag.
UpdateRow(r, as, f) == [flag |-> f, fields |-> r.fields \cup as]

WriteMemory(k) ==
    LET q == query[k] IN
    /\ pc[k] = "write" /\ Writer(q.at) = "memory"
    /\ row' = [row EXCEPT ![k] = UpdateRow(@, q.got, q.flag)]
    /\ seen' = [seen EXCEPT ![k].calm = @ + 1 - q.flag,
                            ![k].written = @ \cup q.got,
                            ![k].stored = @ \cup {q.at}]
    /\ NextName(k)
    /\ UNCHANGED <<todo, collected, gcs, ordered>>

\* Threads, data sources and other objects: a row for each sample.
WriteRow(k) ==
    /\ pc[k] = "write" /\ Writer(Object(k)) \in {"thread", "database", "normal"}
    /\ Stored(k)
    /\ NextName(k)
    /\ UNCHANGED <<todo, row, collected, gcs, ordered>>

\* The collection is there already.
CollectionFound(k) ==
    /\ pc[k] = "write" /\ Writer(Object(k)) = "cms"
    /\ collected[query[k].start] > 0
    /\ Stored(k)
    /\ NextName(k)
    /\ UNCHANGED <<todo, row, collected, gcs, ordered>>

\* Mutant: the collection is not looked for.
CollectionIgnored(k) ==
    /\ pc[k] = "write" /\ Writer(Object(k)) = "cms"
    /\ Goto(k, "insert")
    /\ UNCHANGED <<todo, query, row, collected, gcs, ordered, seen>>

CollectionMissing(k) ==
    /\ pc[k] = "write" /\ Writer(Object(k)) = "cms"
    /\ collected[query[k].start] = 0
    /\ Goto(k, "insert")
    /\ UNCHANGED <<todo, query, row, collected, gcs, ordered, seen>>

InsertCollection(k) ==
    /\ pc[k] = "insert"
    /\ collected' = [collected EXCEPT ![query[k].start] = @ + 1]
    /\ Stored(k)
    /\ NextName(k)
    /\ UNCHANGED <<todo, row, gcs, ordered>>

\* A statement of internalWrite has thrown.  A memory row that was not updated
\* shows what it showed.
WriteFails(k) ==
    /\ pc[k] \in {"write", "insert"}
    /\ "db" \in Faults
    /\ AbandonQuery(k)
    /\ seen' = [seen EXCEPT
                  ![k].excused = @ \cup {Object(k)},
                  ![k].calm = IF Writer(Object(k)) = "memory" THEN @ + 1 - row[k].flag
                              ELSE @]
    /\ UNCHANGED <<todo, row, collected, gcs, ordered>>

\* The server collects its garbage.
Collect ==
    /\ gcs < MaxCollections
    /\ gcs' = gcs + 1
    /\ UNCHANGED <<pc, todo, query, row, collected, ordered, seen>>

RunQuery(k) ==
    \/ FindNames(k) \/ FindNoName(k) \/ Fetch(k) \/ FetchNothing(k) \/ RemoteFails(k)
    \/ Check(k) \/ CheckFails(k) \/ DumpThreadInfo(k) \/ DumpFails(k)
    \/ WriteMemory(k) \/ WriteRow(k) \/ CollectionFound(k) \/ CollectionMissing(k)
    \/ InsertCollection(k) \/ WriteFails(k)

Next == Collect \/ \E k \in Tasks : Begin(k) \/ Choose(k) \/ RunQuery(k) \/ End(k)

Spec == Init /\ [][Next]_vars

----------------------------------------------------------------------------
(* Properties *)

QueryType == [at : Objects \cup {NoObject}, left : Nat, got : SUBSET Attributes,
              start : 0 .. MaxCollections, flag : {0, 1}]

RowType == [flag : {0, 1}, fields : SUBSET Attributes]

SeenType == [exceeded : SUBSET Kinds, undumped : SUBSET Kinds, calm : Nat,
             written : SUBSET Attributes, stored : SUBSET Objects,
             excused : SUBSET Objects]

\* Every variable has its type.
TypeOK ==
    /\ pc \in [Tasks -> Stages]
    /\ todo \in [Tasks -> SUBSET Objects]
    /\ query \in [Tasks -> QueryType]
    /\ row \in [Tasks -> RowType]
    /\ collected \in [0 .. MaxCollections -> Nat]
    /\ gcs \in 0 .. MaxCollections
    /\ ordered \in [Tasks -> [Kinds -> Nat]]
    /\ seen \in [Tasks -> SeenType]

\* A task that has met an exceeded threshold of a kind has ordered a dump for
\* that kind, or is about to, or has tried in vain: checkNeedDumpInfo sees it,
\* and no dump is suppressed by the row's flag unless the task ordered one
\* before.
ExceededDumps ==
    \A k \in Tasks : \A w \in seen[k].exceeded \ seen[k].undumped :
        \/ ordered[k][w] > 0
        \/ pc[k] = "dump" /\ Writer(Object(k)) = w

\* A task orders at most one memory dump, and one more for each memory sample
\* after which the row showed no alarm: what suppressing repeated dumps by the
\* row's flag is worth when the queries of a server overwrite it in turn.
DumpsBounded ==
    \A k \in Tasks : ordered[k]["memory"] <= seen[k].calm + 1

\* The memory row of a task holds every attribute its queries have stored: the
\* update for one object name leaves the fields of the others alone.
FieldsKept ==
    \A k \in Tasks : row[k].fields = seen[k].written

\* A failing query takes no other with it: at the end of a task each query of
\* the server has stored a sample, found nothing or failed itself.
AllSampled ==
    \A k \in Tasks :
        pc[k] = "ended" => Queries \subseteq seen[k].stored \cup seen[k].excused

\* No garbage collection is stored twice, as long as the tasks of a server come
\* one after the other: counting it and inserting it are two statements.
CollectionsOnce ==
    Serialized => \A n \in 0 .. MaxCollections : collected[n] <= 1

----------------------------------------------------------------------------
(* The queries of a task, as QueryBatch tells them.                        *)

state == [k \in Tasks |-> IF pc[k] \in {"new", "ended"} THEN pc[k] ELSE "running"]

current == [k \in Tasks |-> Object(k)]

told == [k \in Tasks |-> seen[k].stored \cup seen[k].excused]

Batches == INSTANCE QueryBatch WITH NoQuery <- NoObject, waiting <- todo

\* A task runs the queries of its server one at a time, each once, and none ends
\* without a sample, an empty answer or a failure of its own to show for it: what
\* invokeAll on a single thread gives ServerJob, whatever the queries throw.
BatchSpec == Batches!Spec
=============================================================================
