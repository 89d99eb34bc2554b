------------------------- MODULE SampleRecordsProofs -------------------------
(***************************************************************************)
(* Theorems about SampleRecords, for any number of tasks, objects,         *)
(* attributes and collections.                                             *)
(***************************************************************************)
EXTENDS SampleRecords, TLAPS

\* Stages in which a query is at work.
Working == {"names", "fetch", "check", "dump", "write", "insert"}

-----------------------------------------------------------------------------
(* The inductive invariant, in parts *)

(* A task has a query exactly while it works on one, and only the query on  *)
(* collections inserts.                                                    *)
StageOf(k) ==
    /\ todo[k] \subseteq Queries
    /\ pc[k] \in Working => Object(k) \in Queries
    /\ pc[k] \notin Working => query[k] = NoQuery
    /\ pc[k] = "insert" => Writer(Object(k)) = "cms"

(* No query of the server is lost.                                         *)
AccountOf(k) ==
    /\ pc[k] # "new" => Queries \subseteq todo[k] \cup {Object(k)}
                                   \cup seen[k].stored \cup seen[k].excused
    /\ pc[k] = "ended" => todo[k] = {}

DumpTried(k, w) == ordered[k][w] > 0 \/ w \in seen[k].undumped

(* A flag, of the row or about to be written to it, tells that a dump has  *)
(* been ordered or has failed, and so does a threshold that was exceeded.  *)
FlagOf(k) ==
    /\ row[k].flag = 1 => DumpTried(k, "memory")
    /\ pc[k] = "write" /\ query[k].flag = 1 => DumpTried(k, Writer(Object(k)))
    /\ pc[k] \in {"names", "fetch", "check"} => query[k].flag = 0
    /\ \A w \in seen[k].exceeded :
          DumpTried(k, w) \/ (pc[k] = "dump" /\ Writer(Object(k)) = w)

(* One memory dump more than there were calm samples is possible only while *)
(* the row shows the alarm or is about to be written.                      *)
Alarmed(k) == \/ row[k].flag = 1
              \/ pc[k] = "write" /\ Writer(Object(k)) = "memory"

CountOf(k) == ordered[k]["memory"] <= seen[k].calm + (IF Alarmed(k) THEN 1 ELSE 0)

FieldsOf(k) == row[k].fields = seen[k].written

StageOK == \A k \in Tasks : StageOf(k)

(* With serialized tasks one is active, and what it inserts is not there:  *)
(* it will be there once.                                                  *)
OneActive ==
    Serialized =>
        /\ \A i, k \in Tasks : pc[i] \notin {"new", "ended"} /\ pc[k] \notin {"new", "ended"}
                                  => i = k
        /\ \A k \in Tasks : pc[k] = "insert" => collected[query[k].start] = 0
        /\ \A n \in 0 .. MaxCollections : collected[n] <= 1

-----------------------------------------------------------------------------
(* Type correctness *)

LEMMA TypeInit == Init => TypeOK
  BY RecordsAssumption
  DEF Init, TypeOK, Stages, NoQuery, Fresh, EmptyRow, NothingSeen, Kinds, QueryType, RowType,
      SeenType

(* The parts of actions keep the types of what they change.                *)
LEMMA PartTypes ==
    ASSUME TypeOK, NEW k \in Tasks
    PROVE  /\ NextName(k) => pc' \in [Tasks -> Stages] /\ query' \in [Tasks -> QueryType]
           /\ AbandonQuery(k) => pc' \in [Tasks -> Stages] /\ query' \in [Tasks -> QueryType]
<1>1. pc \in [Tasks -> Stages] /\ query \in [Tasks -> QueryType] /\ query[k] \in QueryType
  BY DEF TypeOK
<1>2. NoQuery \in QueryType
  BY RecordsAssumption DEF NoQuery, Fresh, QueryType
<1>3. ASSUME query[k].left > 1
      PROVE  Fresh(query[k].at, query[k].left - 1) \in QueryType
  BY <1>1, <1>3, RecordsAssumption DEF Fresh, QueryType
<1>4. NextName(k) => pc' \in [Tasks -> Stages] /\ query' \in [Tasks -> QueryType]
  <2> SUFFICES ASSUME NextName(k)
               PROVE  pc' \in [Tasks -> Stages] /\ query' \in [Tasks -> QueryType]
    OBVIOUS
  <2>1. CASE query[k].left > 1
    BY <1>1, <1>3, <2>1 DEF NextName, Goto, Stages
  <2>2. CASE ~(query[k].left > 1)
    BY <1>1, <1>2, <2>2 DEF NextName, Goto, Stages
  <2> QED BY <2>1, <2>2
<1>5. AbandonQuery(k) => pc' \in [Tasks -> Stages] /\ query' \in [Tasks -> QueryType]
  BY <1>1, <1>2 DEF AbandonQuery, Goto, Stages
<1> QED BY <1>4, <1>5

(* So do the parts that record history.                                    *)
LEMMA HistoryTypes ==
    ASSUME TypeOK, NEW k \in Tasks, StageOf(k), pc[k] \in Working
    PROVE  /\ Object(k) \in Queries /\ Object(k) \in Objects /\ Writer(Object(k)) \in Kinds
           /\ Stored(k) => seen' \in [Tasks -> SeenType]
           /\ Excused(k) => seen' \in [Tasks -> SeenType]
<1>1. Object(k) \in Queries /\ Object(k) \in Objects
  BY RecordsAssumption DEF StageOf, Queries
<1>2. Writer(Object(k)) \in Kinds
  BY <1>1, RecordsAssumption DEF Writer, Kinds
<1>3. seen \in [Tasks -> SeenType] /\ seen[k] \in SeenType
  BY DEF TypeOK
<1>4. Stored(k) => seen' \in [Tasks -> SeenType]
  BY <1>1, <1>3 DEF Stored, SeenType
<1>5. Excused(k) => seen' \in [Tasks -> SeenType]
  BY <1>1, <1>3 DEF Excused, SeenType
<1> QED BY <1>1, <1>2, <1>4, <1>5

-----------------------------------------------------------------------------
(* A step keeps types and stages *)

LEMMA TypeStep ==
    ASSUME TypeOK, StageOK, [Next]_vars
    PROVE  TypeOK'
<1>0. CASE UNCHANGED vars
  BY <1>0 DEF vars, TypeOK
<1>1. CASE Collect
  <2>1. gcs' \in 0 .. MaxCollections
    BY <1>1, RecordsAssumption DEF Collect, TypeOK
  <2> QED BY <1>1, <2>1 DEF Collect, TypeOK
<1> SUFFICES ASSUME NEW k \in Tasks, Begin(k) \/ Choose(k) \/ RunQuery(k) \/ End(k)
             PROVE  TypeOK'
  BY <1>0, <1>1 DEF Next
<1> USE DEF StageOK
<1>2. query[k] \in QueryType /\ row[k] \in RowType /\ seen[k] \in SeenType
  BY DEF TypeOK
<1>3. Queries \subseteq Objects
  BY RecordsAssumption DEF Queries
<1>4. CASE Begin(k)
  BY <1>3, <1>4 DEF Begin, Goto, Stages, TypeOK
<1>5. CASE Choose(k)
  <2>1. query' \in [Tasks -> QueryType]
    <3>1. PICK o \in Objects : query' = [query EXCEPT ![k].at = o]
      BY <1>5 DEF Choose, TypeOK
    <3>2. [query[k] EXCEPT !.at = o] \in QueryType
      BY <1>2 DEF QueryType
    <3> QED BY <3>1, <3>2 DEF TypeOK
  <2> QED BY <1>5, <2>1 DEF Choose, Goto, Stages, TypeOK
<1>6. CASE End(k)
  BY <1>6 DEF End, Goto, Stages, TypeOK
<1>7. CASE FindNames(k)
  <2>1. PICK n \in 1 .. MaxNames : query' = [query EXCEPT ![k].left = n]
    BY <1>7 DEF FindNames
  <2>2. [query[k] EXCEPT !.left = n] \in QueryType
    BY <1>2, RecordsAssumption DEF QueryType
  <2> QED BY <1>7, <2>1, <2>2 DEF FindNames, Goto, Stages, TypeOK
<1>8. CASE FindNoName(k)
  BY <1>8, PartTypes, HistoryTypes DEF FindNoName, Working, TypeOK
<1>9. CASE Fetch(k)
  <2>1. PICK as \in SUBSET Attributes, c \in 0 .. MaxCollections :
           query' = [query EXCEPT ![k].got = as, ![k].start = c]
    <3>1. AttributesOf[Object(k)] \subseteq Attributes
      BY <1>9, HistoryTypes, RecordsAssumption DEF Fetch, Working
    <3>2. gcs \in 0 .. MaxCollections /\ 0 \in 0 .. MaxCollections
      BY RecordsAssumption DEF TypeOK
    <3> QED BY <1>9, <3>1, <3>2 DEF Fetch
  <2>2. query' \in [Tasks -> QueryType]
    BY <1>2, <2>1 DEF QueryType, TypeOK
  <2> QED BY <1>9, <2>2 DEF Fetch, Goto, Stages, TypeOK
<1>10. CASE FetchNothing(k)
  BY <1>10, PartTypes, HistoryTypes DEF FetchNothing, Working, TypeOK
<1>11. CASE RemoteFails(k)
  BY <1>11, PartTypes, HistoryTypes DEF RemoteFails, Working, TypeOK
<1>12. CASE Check(k)
  <2>1. PICK v \in {0, 1} : query' = [query EXCEPT ![k].flag = v]
                            /\ pc' = [pc EXCEPT ![k] = IF v = 1 THEN "dump" ELSE "write"]
    BY <1>12 DEF Check, Verdicts, Goto
  <2>2. PICK ws \in SUBSET Kinds : seen' = [seen EXCEPT ![k].exceeded = @ \cup ws]
    BY <1>12, HistoryTypes DEF Check, Working
  <2>3. [query[k] EXCEPT !.flag = v] \in QueryType
    BY <1>2 DEF QueryType
  <2>4. [seen[k] EXCEPT !.exceeded = @ \cup ws] \in SeenType
    BY <1>2 DEF SeenType
  <2> QED BY <1>12, <2>1, <2>2, <2>3, <2>4 DEF Check, Stages, TypeOK
<1>13. CASE CheckFails(k)
  BY <1>13 DEF CheckFails, Goto, Stages, TypeOK
<1>14. CASE DumpThreadInfo(k)
  <2>1. ordered' \in [Tasks -> [Kinds -> Nat]]
    BY <1>14, HistoryTypes DEF DumpThreadInfo, Working, TypeOK
  <2> QED BY <1>14, <2>1 DEF DumpThreadInfo, Goto, Stages, TypeOK
<1>15. CASE DumpFails(k)
  <2>1. Writer(Object(k)) \in Kinds
    BY <1>15, HistoryTypes DEF DumpFails, Working
  <2>2. [seen[k] EXCEPT !.undumped = @ \cup {Writer(Object(k))}] \in SeenType
    BY <1>2, <2>1 DEF SeenType
  <2> QED BY <1>15, <2>2 DEF DumpFails, Goto, Stages, TypeOK
<1>16. CASE WriteMemory(k)
  <2>1. Object(k) \in Objects /\ query[k].at \in Objects
    BY <1>16, HistoryTypes DEF WriteMemory, Working, Object
  <2>2. UpdateRow(row[k], query[k].got, query[k].flag) \in RowType
    BY <1>2 DEF UpdateRow, RowType, QueryType
  <2>3. row' \in [Tasks -> RowType]
    BY <1>16, <2>2 DEF WriteMemory, TypeOK
  <2>4. PICK c \in Nat : c = seen[k].calm + 1 - query[k].flag
    BY <1>2 DEF SeenType, QueryType
  <2>5. seen' \in [Tasks -> SeenType]
    BY <1>2, <1>16, <2>1, <2>4 DEF WriteMemory, SeenType, QueryType, TypeOK
  <2> QED BY <1>16, <2>3, <2>5, PartTypes DEF WriteMemory, TypeOK
<1>17. CASE WriteRow(k)
  BY <1>17, PartTypes, HistoryTypes DEF WriteRow, Working, TypeOK
<1>18. CASE CollectionFound(k)
  BY <1>18, PartTypes, HistoryTypes DEF CollectionFound, Working, TypeOK
<1>19. CASE CollectionMissing(k)
  BY <1>19 DEF CollectionMissing, Goto, Stages, TypeOK
<1>20. CASE InsertCollection(k)
  <2>1. collected' \in [0 .. MaxCollections -> Nat]
    BY <1>2, <1>20 DEF InsertCollection, QueryType, TypeOK
  <2> QED BY <1>20, <2>1, PartTypes, HistoryTypes
             DEF InsertCollection, Working, TypeOK
<1>21. CASE WriteFails(k)
  <2>1. Object(k) \in Objects
    BY <1>21, HistoryTypes DEF WriteFails, Working
  <2>2. PICK c \in Nat : c = IF Writer(Object(k)) = "memory" THEN seen[k].calm + 1 - row[k].flag
                             ELSE seen[k].calm
    BY <1>2 DEF SeenType, RowType
  <2>3. seen' \in [Tasks -> SeenType]
    BY <1>2, <1>21, <2>1, <2>2 DEF WriteFails, SeenType, TypeOK
  <2> QED BY <1>21, <2>3, PartTypes DEF WriteFails, TypeOK
<1> QED BY <1>4, <1>5, <1>6, <1>7, <1>8, <1>9, <1>10, <1>11, <1>12, <1>13,
           <1>14, <1>15, <1>16, <1>17, <1>18, <1>19, <1>20, <1>21
           DEF RunQuery

-----------------------------------------------------------------------------
(* A step of a task keeps what the invariant says of that task *)

TaskStep(k) == Begin(k) \/ Choose(k) \/ RunQuery(k) \/ End(k)

(* A step of one task changes nothing that belongs to another.             *)
LEMMA OthersStay ==
    ASSUME TypeOK, NEW i \in Tasks, TaskStep(i), NEW k \in Tasks, k # i
    PROVE  /\ pc'[k] = pc[k] /\ todo'[k] = todo[k] /\ query'[k] = query[k]
           /\ row'[k] = row[k] /\ ordered'[k] = ordered[k] /\ seen'[k] = seen[k]
<1>1. /\ NextName(i) => pc'[k] = pc[k] /\ query'[k] = query[k]
      /\ AbandonQuery(i) => pc'[k] = pc[k] /\ query'[k] = query[k]
      /\ Stored(i) => seen'[k] = seen[k]
      /\ Excused(i) => seen'[k] = seen[k]
  BY DEF NextName, AbandonQuery, Stored, Excused, Goto, TypeOK
<1>2. CASE Begin(i) \/ Choose(i) \/ End(i)
  BY <1>2 DEF Begin, Choose, End, Goto, TypeOK
<1>3. CASE FindNames(i)
  BY <1>1, <1>3 DEF FindNames, Goto, TypeOK
<1>4. CASE FindNoName(i)
  BY <1>1, <1>4 DEF FindNoName, Goto, TypeOK
<1>5. CASE Fetch(i)
  BY <1>1, <1>5 DEF Fetch, Goto, TypeOK
<1>6. CASE FetchNothing(i)
  BY <1>1, <1>6 DEF FetchNothing, Goto, TypeOK
<1>7. CASE RemoteFails(i)
  BY <1>1, <1>7 DEF RemoteFails, Goto, TypeOK
<1>8. CASE Check(i)
  BY <1>1, <1>8 DEF Check, Goto, TypeOK
<1>9. CASE CheckFails(i)
  BY <1>1, <1>9 DEF CheckFails, Goto, TypeOK
<1>10. CASE DumpThreadInfo(i)
  BY <1>1, <1>10 DEF DumpThreadInfo, Goto, TypeOK
<1>11. CASE DumpFails(i)
  BY <1>1, <1>11 DEF DumpFails, Goto, TypeOK
<1>12. CASE WriteMemory(i)
  BY <1>1, <1>12 DEF WriteMemory, Goto, TypeOK
<1>13. CASE WriteRow(i)
  BY <1>1, <1>13 DEF WriteRow, Goto, TypeOK
<1>14. CASE CollectionFound(i)
  BY <1>1, <1>14 DEF CollectionFound, Goto, TypeOK
<1>15. CASE CollectionMissing(i)
  BY <1>1, <1>15 DEF CollectionMissing, Goto, TypeOK
<1>16. CASE InsertCollection(i)
  BY <1>1, <1>16 DEF InsertCollection, Goto, TypeOK
<1>17. CASE WriteFails(i)
  BY <1>1, <1>17 DEF WriteFails, Goto, TypeOK
<1> QED BY <1>2, <1>3, <1>4, <1>5, <1>6, <1>7, <1>8, <1>9, <1>10, <1>11, <1>12,
           <1>13, <1>14, <1>15, <1>16, <1>17
           DEF TaskStep, RunQuery

(* Where a query goes on or ends.                                          *)
LEMMA QueryMoves ==
    ASSUME TypeOK, NEW k \in Tasks
    PROVE  /\ NextName(k) => \/ /\ pc'[k] = "fetch"
                                /\ Object(k)' = Object(k) /\ query'[k].flag = 0
                             \/ /\ pc'[k] = "choose"
                                /\ query'[k] = NoQuery
           /\ AbandonQuery(k) => pc'[k] = "choose" /\ query'[k] = NoQuery
  BY DEF NextName, AbandonQuery, Goto, Object, Fresh, TypeOK

(* What the actions change in the history of their task.                   *)
SameHistory(k, fields) == \A f \in {"exceeded", "undumped", "calm", "written", "stored",
                                    "excused"} \ fields : seen'[k][f] = seen[k][f]

LEMMA HistoryMoves ==
    ASSUME TypeOK, NEW k \in Tasks
    PROVE  /\ query[k] \in QueryType /\ row[k] \in RowType /\ seen[k] \in SeenType
           /\ \A w \in Kinds : ordered[k][w] \in Nat
           /\ seen[k].calm \in Nat /\ row[k].flag \in {0, 1} /\ query[k].flag \in {0, 1}
           /\ "memory" \in Kinds
           /\ Stored(k) => /\ SameHistory(k, {"stored"})
                           /\ seen'[k].stored = seen[k].stored \cup {Object(k)}
           /\ Excused(k) => /\ SameHistory(k, {"excused"})
                            /\ seen'[k].excused = seen[k].excused \cup {Object(k)}
<1>1. query[k] \in QueryType /\ row[k] \in RowType /\ seen[k] \in SeenType
  BY DEF TypeOK
<1>2. Stored(k) => /\ SameHistory(k, {"stored"})
                   /\ seen'[k].stored = seen[k].stored \cup {Object(k)}
  BY <1>1 DEF Stored, SameHistory, SeenType, TypeOK
<1>3. Excused(k) => /\ SameHistory(k, {"excused"})
                    /\ seen'[k].excused = seen[k].excused \cup {Object(k)}
  BY <1>1 DEF Excused, SameHistory, SeenType, TypeOK
<1>4. /\ \A w \in Kinds : ordered[k][w] \in Nat
      /\ "memory" \in Kinds
  BY DEF TypeOK, Kinds
<1>5. seen[k].calm \in Nat /\ row[k].flag \in {0, 1} /\ query[k].flag \in {0, 1}
  BY <1>1 DEF QueryType, RowType, SeenType
<1> QED BY <1>1, <1>2, <1>3, <1>4, <1>5

(* What storing a memory sample changes, and what failing to does.         *)
LEMMA MemoryWritten ==
    ASSUME TypeOK, NEW k \in Tasks, WriteMemory(k)
    PROVE  /\ row'[k].flag = query[k].flag
           /\ row'[k].fields = row[k].fields \cup query[k].got
           /\ SameHistory(k, {"calm", "written", "stored"})
           /\ seen'[k].calm = seen[k].calm + 1 - query[k].flag
           /\ seen'[k].written = seen[k].written \cup query[k].got
           /\ seen'[k].stored = seen[k].stored \cup {Object(k)}
           /\ pc[k] = "write" /\ Writer(Object(k)) = "memory"
           /\ NextName(k) /\ todo' = todo /\ ordered' = ordered
<1>1. row \in [Tasks -> RowType] /\ seen \in [Tasks -> SeenType] /\ seen[k] \in SeenType
  BY DEF TypeOK
<1>2. row'[k] = [flag |-> query[k].flag, fields |-> row[k].fields \cup query[k].got]
  BY <1>1 DEF WriteMemory, UpdateRow
<1>3. row'[k].flag = query[k].flag /\ row'[k].fields = row[k].fields \cup query[k].got
  BY <1>2
<1>4. /\ SameHistory(k, {"calm", "written", "stored"})
      /\ seen'[k].calm = seen[k].calm + 1 - query[k].flag
      /\ seen'[k].written = seen[k].written \cup query[k].got
      /\ seen'[k].stored = seen[k].stored \cup {Object(k)}
  BY <1>1 DEF WriteMemory, SameHistory, Object, SeenType
<1> QED BY <1>3, <1>4 DEF WriteMemory, Object

LEMMA WriteFailed ==
    ASSUME TypeOK, NEW k \in Tasks, WriteFails(k)
    PROVE  /\ SameHistory(k, {"calm", "excused"})
           /\ seen'[k].calm = IF Writer(Object(k)) = "memory"
                              THEN seen[k].calm + 1 - row[k].flag ELSE seen[k].calm
           /\ seen'[k].excused = seen[k].excused \cup {Object(k)}
           /\ pc[k] \in {"write", "insert"}
           /\ AbandonQuery(k) /\ todo' = todo /\ row' = row /\ ordered' = ordered
<1>1. seen \in [Tasks -> SeenType] /\ seen[k] \in SeenType
  BY DEF TypeOK
<1> QED BY <1>1 DEF WriteFails, SameHistory, SeenType

(* What the check and a failed dump change.                                *)
LEMMA Checked ==
    ASSUME TypeOK, NEW k \in Tasks, Check(k)
    PROVE  /\ SameHistory(k, {"exceeded"})
           /\ query'[k].at = query[k].at
           /\ \/ query'[k].flag = 1 /\ pc'[k] = "dump"
              \/ query'[k].flag = 0 /\ pc'[k] = "write"
           /\ \/ seen'[k].exceeded = seen[k].exceeded
              \/ seen'[k].exceeded = seen[k].exceeded \cup {Writer(Object(k))}
           /\ ~BlankThresholds /\ query'[k].flag = 0 => seen'[k].exceeded = seen[k].exceeded
           /\ pc[k] = "check" /\ todo' = todo /\ row' = row /\ ordered' = ordered
<1>1. /\ seen \in [Tasks -> SeenType] /\ seen[k] \in SeenType
      /\ query \in [Tasks -> QueryType] /\ query[k] \in QueryType /\ pc \in [Tasks -> Stages]
  BY DEF TypeOK
<1>2. PICK set \in SUBSET query[k].got, blank \in SUBSET query[k].got :
         /\ ~BlankThresholds => blank = {}
         /\ \E v \in Verdicts(set, blank) :
            /\ query' = [query EXCEPT ![k].flag = v]
            /\ Goto(k, IF v = 1 THEN "dump" ELSE "write")
         /\ seen' = [seen EXCEPT ![k].exceeded = @ \cup {Writer(Object(k)) : a \in set}]
  BY DEF Check
<1>3. PICK v \in Verdicts(set, blank) :
            /\ query' = [query EXCEPT ![k].flag = v]
            /\ Goto(k, IF v = 1 THEN "dump" ELSE "write")
  BY <1>2
<1>4. /\ v \in {0, 1}
      /\ ~BlankThresholds /\ v = 0 => set = {}
  BY <1>2 DEF Verdicts
<1>5. /\ query'[k].at = query[k].at /\ query'[k].flag = v
      /\ pc'[k] = IF v = 1 THEN "dump" ELSE "write"
  BY <1>1, <1>3 DEF Goto, QueryType
<1>6. /\ SameHistory(k, {"exceeded"})
      /\ seen'[k].exceeded = seen[k].exceeded \cup {Writer(Object(k)) : a \in set}
  BY <1>1, <1>2 DEF SameHistory, SeenType
<1>7. {Writer(Object(k)) : a \in set} = IF set = {} THEN {} ELSE {Writer(Object(k))}
  OBVIOUS
<1>8. pc[k] = "check" /\ todo' = todo /\ row' = row /\ ordered' = ordered
  BY DEF Check
<1> QED BY <1>4, <1>5, <1>6, <1>7, <1>8

LEMMA DumpFailed ==
    ASSUME TypeOK, NEW k \in Tasks, DumpFails(k)
    PROVE  /\ SameHistory(k, {"undumped"})
           /\ seen'[k].undumped = seen[k].undumped \cup {Writer(Object(k))}
           /\ pc[k] = "dump" /\ pc'[k] = "write"
           /\ todo' = todo /\ query' = query /\ row' = row /\ ordered' = ordered
<1>1. seen \in [Tasks -> SeenType] /\ seen[k] \in SeenType /\ pc \in [Tasks -> Stages]
  BY DEF TypeOK
<1> QED BY <1>1 DEF DumpFails, SameHistory, Goto, SeenType

LEMMA Dumped ==
    ASSUME TypeOK, NEW k \in Tasks, DumpThreadInfo(k)
    PROVE  /\ pc[k] = "dump" /\ pc'[k] = "write"
           /\ todo' = todo /\ query' = query /\ row' = row /\ seen' = seen
           /\ \A w : w # Writer(Object(k)) => ordered'[k][w] = ordered[k][w]
           /\ LET w == Writer(Object(k)) IN
              IF w = "memory" /\ row[k].flag = 1
              THEN ordered'[k][w] = ordered[k][w]
              ELSE w \in Kinds => ordered'[k][w] = ordered[k][w] + 1
  BY DEF DumpThreadInfo, Goto, TypeOK

(* What choosing a query changes.                                          *)
LEMMA QueryChosen ==
    ASSUME TypeOK, NEW k \in Tasks, Choose(k)
    PROVE  /\ pc[k] = "choose" /\ pc'[k] = "names" /\ query'[k].flag = query[k].flag
           /\ Object(k)' \in todo[k] /\ todo'[k] = todo[k] \ {Object(k)'}
           /\ row' = row /\ ordered' = ordered /\ seen' = seen
<1>1. /\ query \in [Tasks -> QueryType] /\ query[k] \in QueryType
      /\ pc \in [Tasks -> Stages] /\ todo \in [Tasks -> SUBSET Objects]
  BY DEF TypeOK
<1>2. PICK o \in todo[k] : /\ todo' = [todo EXCEPT ![k] = @ \ {o}]
                           /\ query' = [query EXCEPT ![k].at = o]
  BY DEF Choose
<1>3. Object(k)' = o /\ query'[k].flag = query[k].flag
  BY <1>1, <1>2 DEF Object, QueryType
<1> QED BY <1>1, <1>2, <1>3 DEF Choose, Goto

(* The stage fits the query.                                               *)
LEMMA StageStep ==
    ASSUME NEW k \in Tasks, TypeOK, StageOf(k), TaskStep(k)
    PROVE  StageOf(k)'
<1>1. CASE Begin(k)
  BY <1>1 DEF Begin, Goto, StageOf, Working, Object, TypeOK
<1>2. CASE Choose(k)
  BY <1>2, QueryChosen DEF StageOf, Working, Object
<1>3. CASE End(k)
  BY <1>3 DEF End, Goto, StageOf, Working, Object, TypeOK
<1>4. CASE FindNames(k)
  BY <1>4 DEF FindNames, Goto, StageOf, Working, Object, TypeOK
<1>5. CASE FindNoName(k)
  BY <1>5, QueryMoves DEF FindNoName, SameHistory, StageOf, Working, Object
<1>6. CASE Fetch(k)
  BY <1>6 DEF Fetch, Goto, StageOf, Working, Object, TypeOK
<1>7. CASE FetchNothing(k)
  BY <1>7, QueryMoves DEF FetchNothing, SameHistory, StageOf, Working, Object
<1>8. CASE RemoteFails(k)
  BY <1>8, QueryMoves DEF RemoteFails, SameHistory, StageOf, Working, Object
<1>9. CASE Check(k)
  BY <1>9, Checked DEF SameHistory, StageOf, Working, Object
<1>10. CASE CheckFails(k)
  BY <1>10 DEF CheckFails, Goto, StageOf, Working, Object, TypeOK
<1>11. CASE DumpThreadInfo(k)
  BY <1>11, Dumped DEF StageOf, Working, Object
<1>12. CASE DumpFails(k)
  BY <1>12, DumpFailed DEF SameHistory, StageOf, Working, Object
<1>13. CASE WriteMemory(k)
  BY <1>13, MemoryWritten, QueryMoves DEF SameHistory, StageOf, Working, Object
<1>14. CASE WriteRow(k)
  BY <1>14, QueryMoves DEF WriteRow, SameHistory, StageOf, Working, Object
<1>15. CASE CollectionFound(k)
  BY <1>15, QueryMoves DEF CollectionFound, SameHistory, StageOf, Working, Object
<1>16. CASE CollectionMissing(k)
  BY <1>16 DEF CollectionMissing, Goto, StageOf, Working, Object, TypeOK
<1>17. CASE InsertCollection(k)
  BY <1>17, QueryMoves DEF InsertCollection, SameHistory, StageOf, Working, Object
<1>18. CASE WriteFails(k)
  BY <1>18, WriteFailed, QueryMoves DEF SameHistory, StageOf, Working, Object
<1> QED BY <1>1, <1>2, <1>3, <1>4, <1>5, <1>6, <1>7, <1>8, <1>9, <1>10, <1>11,
           <1>12, <1>13, <1>14, <1>15, <1>16, <1>17, <1>18
           DEF TaskStep, RunQuery

(* Each query stays in one of its places.                                  *)
LEMMA AccountStep ==
    ASSUME NEW k \in Tasks, TypeOK, StageOf(k), AccountOf(k), TaskStep(k)
    PROVE  AccountOf(k)'
<1>a. NoQuery.at = NoObject /\ NoObject \notin Queries
  BY RecordsAssumption DEF NoQuery, Fresh, Queries
<1>b. Object(k) = query[k].at /\ Object(k)' = query'[k].at
  BY DEF Object
<1>c. pc[k] \in {"choose"} => query[k] = NoQuery
  BY DEF StageOf, Working
<1>1. CASE Begin(k)
  BY <1>1, <1>a, <1>b, <1>c DEF Begin, Goto, AccountOf, TypeOK
<1>2. CASE Choose(k)
  BY <1>2, QueryChosen, <1>a, <1>b, <1>c DEF AccountOf
<1>3. CASE End(k)
  BY <1>3, <1>a, <1>b, <1>c DEF End, Goto, AccountOf, TypeOK
<1>4. CASE FindNames(k)
  BY <1>4, <1>a, <1>b, <1>c DEF FindNames, Goto, AccountOf, TypeOK
<1>5. CASE FindNoName(k)
  BY <1>5, HistoryMoves, <1>a, <1>b, <1>c, QueryMoves
     DEF FindNoName, SameHistory, AccountOf
<1>6. CASE Fetch(k)
  BY <1>6, <1>a, <1>b, <1>c DEF Fetch, Goto, AccountOf, TypeOK
<1>7. CASE FetchNothing(k)
  BY <1>7, HistoryMoves, <1>a, <1>b, <1>c, QueryMoves
     DEF FetchNothing, SameHistory, AccountOf
<1>8. CASE RemoteFails(k)
  BY <1>8, HistoryMoves, <1>a, <1>b, <1>c, QueryMoves
     DEF RemoteFails, SameHistory, AccountOf
<1>9. CASE Check(k)
  BY <1>9, Checked, <1>a, <1>b, <1>c DEF SameHistory, AccountOf
<1>10. CASE CheckFails(k)
  BY <1>10, <1>a, <1>b, <1>c DEF CheckFails, Goto, AccountOf, TypeOK
<1>11. CASE DumpThreadInfo(k)
  BY <1>11, Dumped, <1>a, <1>b, <1>c DEF AccountOf
<1>12. CASE DumpFails(k)
  BY <1>12, DumpFailed, <1>a, <1>b, <1>c DEF SameHistory, AccountOf
<1>13. CASE WriteMemory(k)
  BY <1>13, MemoryWritten, <1>a, <1>b, <1>c, QueryMoves DEF SameHistory, AccountOf
<1>14. CASE WriteRow(k)
  BY <1>14, HistoryMoves, <1>a, <1>b, <1>c, QueryMoves
     DEF WriteRow, SameHistory, AccountOf
<1>15. CASE CollectionFound(k)
  BY <1>15, HistoryMoves, <1>a, <1>b, <1>c, QueryMoves
     DEF CollectionFound, SameHistory, AccountOf
<1>16. CASE CollectionMissing(k)
  BY <1>16, <1>a, <1>b, <1>c DEF CollectionMissing, Goto, AccountOf, TypeOK
<1>17. CASE InsertCollection(k)
  BY <1>17, HistoryMoves, <1>a, <1>b, <1>c, QueryMoves
     DEF InsertCollection, SameHistory, AccountOf
<1>18. CASE WriteFails(k)
  BY <1>18, WriteFailed, <1>a, <1>b, <1>c, QueryMoves DEF SameHistory, AccountOf
<1> QED BY <1>1, <1>2, <1>3, <1>4, <1>5, <1>6, <1>7, <1>8, <1>9, <1>10, <1>11,
           <1>12, <1>13, <1>14, <1>15, <1>16, <1>17, <1>18
           DEF TaskStep, RunQuery

(* Each dump of the memory has its calm sample, but for one.               *)
LEMMA CountStep ==
    ASSUME NEW k \in Tasks, TypeOK, CountOf(k), TaskStep(k)
    PROVE  CountOf(k)'
<1>1. CASE Begin(k)
  BY <1>1 DEF Begin, Goto, CountOf, Alarmed, Object, TypeOK
<1>2. CASE Choose(k)
  BY <1>2, QueryChosen DEF CountOf, Alarmed, Object
<1>3. CASE End(k)
  BY <1>3 DEF End, Goto, CountOf, Alarmed, Object, TypeOK
<1>4. CASE FindNames(k)
  BY <1>4 DEF FindNames, Goto, CountOf, Alarmed, Object, TypeOK
<1>5. CASE FindNoName(k)
  BY <1>5, HistoryMoves, QueryMoves
     DEF FindNoName, SameHistory, CountOf, Alarmed, Object
<1>6. CASE Fetch(k)
  BY <1>6 DEF Fetch, Goto, CountOf, Alarmed, Object, TypeOK
<1>7. CASE FetchNothing(k)
  BY <1>7, HistoryMoves, QueryMoves
     DEF FetchNothing, SameHistory, CountOf, Alarmed, Object
<1>8. CASE RemoteFails(k)
  BY <1>8, HistoryMoves, QueryMoves
     DEF RemoteFails, SameHistory, CountOf, Alarmed, Object
<1>9. CASE Check(k)
  BY <1>9, HistoryMoves, Checked DEF SameHistory, CountOf, Alarmed, Object
<1>10. CASE CheckFails(k)
  BY <1>10, HistoryMoves DEF CheckFails, Goto, CountOf, Alarmed, Object, TypeOK
<1>11. CASE DumpThreadInfo(k)
  BY <1>11, HistoryMoves, Dumped DEF CountOf, Alarmed, Object
<1>12. CASE DumpFails(k)
  BY <1>12, HistoryMoves, DumpFailed DEF SameHistory, CountOf, Alarmed, Object
<1>13. CASE WriteMemory(k)
  BY <1>13, HistoryMoves, MemoryWritten, QueryMoves
     DEF SameHistory, CountOf, Alarmed, Object
<1>14. CASE WriteRow(k)
  BY <1>14, HistoryMoves, QueryMoves
     DEF WriteRow, SameHistory, CountOf, Alarmed, Object
<1>15. CASE CollectionFound(k)
  BY <1>15, HistoryMoves, QueryMoves
     DEF CollectionFound, SameHistory, CountOf, Alarmed, Object
<1>16. CASE CollectionMissing(k)
  BY <1>16 DEF CollectionMissing, Goto, CountOf, Alarmed, Object, TypeOK
<1>17. CASE InsertCollection(k)
  BY <1>17, HistoryMoves, QueryMoves
     DEF InsertCollection, SameHistory, CountOf, Alarmed, Object
<1>18. CASE WriteFails(k)
  BY <1>18, HistoryMoves, WriteFailed, QueryMoves
     DEF SameHistory, CountOf, Alarmed, Object
<1> QED BY <1>1, <1>2, <1>3, <1>4, <1>5, <1>6, <1>7, <1>8, <1>9, <1>10, <1>11,
           <1>12, <1>13, <1>14, <1>15, <1>16, <1>17, <1>18
           DEF TaskStep, RunQuery

(* The memory row has what was written to it.                              *)
LEMMA FieldsStep ==
    ASSUME NEW k \in Tasks, TypeOK, FieldsOf(k), TaskStep(k)
    PROVE  FieldsOf(k)'
<1>1. CASE Begin(k)
  BY <1>1 DEF Begin, Goto, FieldsOf, TypeOK
<1>2. CASE Choose(k)
  BY <1>2, QueryChosen DEF FieldsOf
<1>3. CASE End(k)
  BY <1>3 DEF End, Goto, FieldsOf, TypeOK
<1>4. CASE FindNames(k)
  BY <1>4 DEF FindNames, Goto, FieldsOf, TypeOK
<1>5. CASE FindNoName(k)
  BY <1>5, HistoryMoves DEF FindNoName, SameHistory, FieldsOf
<1>6. CASE Fetch(k)
  BY <1>6 DEF Fetch, Goto, FieldsOf, TypeOK
<1>7. CASE FetchNothing(k)
  BY <1>7, HistoryMoves DEF FetchNothing, SameHistory, FieldsOf
<1>8. CASE RemoteFails(k)
  BY <1>8, HistoryMoves DEF RemoteFails, SameHistory, FieldsOf
<1>9. CASE Check(k)
  BY <1>9, Checked DEF SameHistory, FieldsOf
<1>10. CASE CheckFails(k)
  BY <1>10 DEF CheckFails, Goto, FieldsOf, TypeOK
<1>11. CASE DumpThreadInfo(k)
  BY <1>11, Dumped DEF FieldsOf
<1>12. CASE DumpFails(k)
  BY <1>12, DumpFailed DEF SameHistory, FieldsOf
<1>13. CASE WriteMemory(k)
  BY <1>13, MemoryWritten DEF FieldsOf
<1>14. CASE WriteRow(k)
  BY <1>14, HistoryMoves DEF WriteRow, SameHistory, FieldsOf
<1>15. CASE CollectionFound(k)
  BY <1>15, HistoryMoves DEF CollectionFound, SameHistory, FieldsOf
<1>16. CASE CollectionMissing(k)
  BY <1>16 DEF CollectionMissing, Goto, FieldsOf, TypeOK
<1>17. CASE InsertCollection(k)
  BY <1>17, HistoryMoves DEF InsertCollection, SameHistory, FieldsOf
<1>18. CASE WriteFails(k)
  BY <1>18, WriteFailed DEF SameHistory, FieldsOf
<1> QED BY <1>1, <1>2, <1>3, <1>4, <1>5, <1>6, <1>7, <1>8, <1>9, <1>10, <1>11,
           <1>12, <1>13, <1>14, <1>15, <1>16, <1>17, <1>18
           DEF TaskStep, RunQuery

(* A flag tells of a dump.                                                 *)
LEMMA FlagStep ==
    ASSUME NEW k \in Tasks, TypeOK, ~BlankThresholds, StageOf(k), FlagOf(k), TaskStep(k)
    PROVE  FlagOf(k)'
<1>1. CASE Begin(k)
  BY <1>1 DEF Begin, Goto, FlagOf, DumpTried, Object, TypeOK
<1>2. CASE Choose(k)
  <2>1. query[k].flag = 0
    BY <1>2, QueryChosen DEF StageOf, Working, NoQuery, Fresh
  <2> QED BY <2>1, <1>2, QueryChosen DEF FlagOf, DumpTried
<1>3. CASE End(k)
  BY <1>3 DEF End, Goto, FlagOf, DumpTried, Object, TypeOK
<1>4. CASE FindNames(k)
  BY <1>4 DEF FindNames, Goto, FlagOf, DumpTried, Object, TypeOK
<1>5. CASE FindNoName(k)
  BY <1>5, HistoryMoves, QueryMoves
     DEF FindNoName, SameHistory, FlagOf, DumpTried, Object
<1>6. CASE Fetch(k)
  BY <1>6 DEF Fetch, Goto, FlagOf, DumpTried, Object, TypeOK
<1>7. CASE FetchNothing(k)
  BY <1>7, HistoryMoves, QueryMoves
     DEF FetchNothing, SameHistory, FlagOf, DumpTried, Object
<1>8. CASE RemoteFails(k)
  BY <1>8, HistoryMoves, QueryMoves
     DEF RemoteFails, SameHistory, FlagOf, DumpTried, Object
<1>9. CASE Check(k)
  BY <1>9, Checked DEF SameHistory, FlagOf, DumpTried, Object
<1>10. CASE CheckFails(k)
  BY <1>10 DEF CheckFails, Goto, FlagOf, DumpTried, Object, TypeOK
<1>11. CASE DumpThreadInfo(k)
  <2>1. Writer(Object(k)) \in Kinds /\ \A w \in Kinds : ordered[k][w] \in Nat
    BY <1>11, Dumped, HistoryTypes, HistoryMoves DEF Working
  <2>2. \A w : DumpTried(k, w) => DumpTried(k, w)'
    BY <2>1, <1>11, Dumped DEF DumpTried
  <2>3. DumpTried(k, Writer(Object(k)))'
    BY <2>1, <1>11, Dumped DEF DumpTried, FlagOf, Object
  <2>4. Writer(Object(k))' = Writer(Object(k))
    BY <1>11, Dumped DEF Object, Writer, DataSources
  <2> QED BY <2>2, <2>3, <2>4, <1>11, Dumped DEF FlagOf
<1>12. CASE DumpFails(k)
  BY <1>12, DumpFailed DEF SameHistory, FlagOf, DumpTried, Object
<1>13. CASE WriteMemory(k)
  BY <1>13, MemoryWritten, QueryMoves DEF SameHistory, FlagOf, DumpTried, Object
<1>14. CASE WriteRow(k)
  BY <1>14, HistoryMoves, QueryMoves
     DEF WriteRow, SameHistory, FlagOf, DumpTried, Object
<1>15. CASE CollectionFound(k)
  BY <1>15, HistoryMoves, QueryMoves
     DEF CollectionFound, SameHistory, FlagOf, DumpTried, Object
<1>16. CASE CollectionMissing(k)
  BY <1>16 DEF CollectionMissing, Goto, FlagOf, DumpTried, Object, TypeOK
<1>17. CASE InsertCollection(k)
  BY <1>17, HistoryMoves, QueryMoves
     DEF InsertCollection, SameHistory, FlagOf, DumpTried, Object
<1>18. CASE WriteFails(k)
  BY <1>18, WriteFailed, QueryMoves DEF SameHistory, FlagOf, DumpTried, Object
<1> QED BY <1>1, <1>2, <1>3, <1>4, <1>5, <1>6, <1>7, <1>8, <1>9, <1>10, <1>11,
           <1>12, <1>13, <1>14, <1>15, <1>16, <1>17, <1>18
           DEF TaskStep, RunQuery

-----------------------------------------------------------------------------
(* The whole invariant *)

Inv ==
    /\ TypeOK
    /\ OneActive
    /\ \A k \in Tasks : /\ StageOf(k) /\ AccountOf(k) /\ CountOf(k) /\ FieldsOf(k)
                        /\ ~BlankThresholds => FlagOf(k)

LEMMA InvInit == Init => Inv
<1> SUFFICES ASSUME Init PROVE Inv
  OBVIOUS
<1>1. TypeOK
  BY TypeInit
<1>2. OneActive
  BY DEF Init, OneActive
<1>3. ASSUME NEW k \in Tasks
      PROVE  StageOf(k) /\ AccountOf(k) /\ CountOf(k) /\ FieldsOf(k) /\ FlagOf(k)
  <2>1. /\ pc[k] = "new" /\ todo[k] = {} /\ query[k] = NoQuery /\ row[k] = EmptyRow
        /\ seen[k] = NothingSeen /\ ordered[k]["memory"] = 0
    BY DEF Init, Kinds
  <2> QED BY <2>1 DEF StageOf, AccountOf, CountOf, FieldsOf, FlagOf, Working,
                 EmptyRow,
                      NothingSeen
<1> QED BY <1>1, <1>2, <1>3 DEF Inv

(* One task at a time is active: another begins only when it has ended, and *)
(* nothing is inserted between its count and its insertion.                *)
LEMMA ActiveStep ==
    ASSUME TypeOK, OneActive, NEW i \in Tasks, TaskStep(i)
    PROVE  OneActive'
<1> SUFFICES ASSUME Serialized
             PROVE  /\ \A j, k \in Tasks :
                          pc'[j] \notin {"new", "ended"} /\ pc'[k] \notin {"new", "ended"} => j = k
                    /\ \A k \in Tasks : pc'[k] = "insert" => collected'[query'[k].start] = 0
                    /\ \A n \in 0 .. MaxCollections : collected'[n] <= 1
  BY DEF OneActive
<1>1. \A k \in Tasks : k # i => pc'[k] = pc[k] /\ query'[k] = query[k]
  BY OthersStay
<1>2. pc[i] \notin {"new", "ended"} \/ Begin(i)
  BY DEF TaskStep, Begin, Choose, End, RunQuery, FindNames, FindNoName, Fetch,
     FetchNothing,
         RemoteFails, Check, CheckFails, DumpThreadInfo, DumpFails, WriteMemory, WriteRow,
         CollectionFound, CollectionMissing, InsertCollection, WriteFails
<1>3. \A k \in Tasks : k # i => pc[k] \in {"new", "ended"}
  BY <1>2 DEF OneActive, Begin
<1>4. ASSUME pc'[i] = "insert" PROVE collected'[query'[i].start] = 0
  <2>1. CollectionMissing(i)
    BY <1>4, QueryMoves, QueryChosen, Checked, Dumped, DumpFailed,
       MemoryWritten, WriteFailed
       DEF TaskStep, RunQuery, Begin, End, FindNames, FindNoName, Fetch, FetchNothing,
           RemoteFails, CheckFails, WriteRow, CollectionFound, InsertCollection, Goto, TypeOK
  <2> QED BY <2>1 DEF CollectionMissing
<1>5. \A n \in 0 .. MaxCollections : collected'[n] <= 1
  <2>1. CASE InsertCollection(i)
    BY <2>1 DEF InsertCollection, OneActive, TypeOK
  <2>2. CASE ~InsertCollection(i)
    <3>1. collected' = collected
      BY <2>2 DEF TaskStep, RunQuery, Begin, Choose, End, FindNames, FindNoName,
             Fetch,
                  FetchNothing, RemoteFails, Check, CheckFails, DumpThreadInfo, DumpFails,
                  WriteMemory, WriteRow, CollectionFound, CollectionMissing, WriteFails
    <3> QED BY <3>1 DEF OneActive
  <2> QED BY <2>1, <2>2
<1> QED BY <1>1, <1>3, <1>4, <1>5

LEMMA InvStep == Inv /\ [Next]_vars => Inv'
<1> SUFFICES ASSUME Inv, [Next]_vars PROVE Inv'
  OBVIOUS
<1>1. TypeOK'
  BY TypeStep DEF Inv, StageOK
<1>2. CASE UNCHANGED vars
  BY <1>1, <1>2
     DEF vars, Inv, OneActive, StageOf, AccountOf, CountOf, Alarmed, FieldsOf,
                    FlagOf, DumpTried, Object
<1>3. CASE Collect
  BY <1>1, <1>3 DEF Collect, Inv, OneActive, StageOf, AccountOf, CountOf, Alarmed,
         FieldsOf,
                    FlagOf, DumpTried, Object
<1>4. ASSUME NEW i \in Tasks, TaskStep(i) PROVE Inv'
  <2>1. OneActive'
    BY <1>4, ActiveStep DEF Inv
  <2>2. ASSUME NEW k \in Tasks
        PROVE  /\ StageOf(k)' /\ AccountOf(k)' /\ CountOf(k)' /\ FieldsOf(k)'
               /\ ~BlankThresholds => FlagOf(k)'
    <3>1. CASE k = i
      BY <1>4, <3>1, StageStep, AccountStep, CountStep, FieldsStep, FlagStep DEF Inv
    <3>2. CASE k # i
      <4>1. /\ pc'[k] = pc[k] /\ todo'[k] = todo[k] /\ query'[k] = query[k]
            /\ row'[k] = row[k] /\ ordered'[k] = ordered[k] /\ seen'[k] = seen[k]
        BY <1>4, <3>2, OthersStay DEF Inv
      <4> QED BY <4>1 DEF Inv, StageOf, AccountOf, CountOf, Alarmed, FieldsOf,
                     FlagOf,
                          DumpTried, Object
    <3> QED BY <3>1, <3>2
  <2> QED BY <1>1, <2>1, <2>2 DEF Inv
<1> QED BY <1>2, <1>3, <1>4 DEF Next, TaskStep

(* The inductive invariant holds in every reachable state.                 *)
THEOREM Invariance == Spec => []Inv
  BY InvInit, InvStep, PTL DEF Spec

-----------------------------------------------------------------------------
(* What follows from it *)

(* Every variable keeps its type.                                          *)
THEOREM TypeCorrect == Spec => []TypeOK
<1>1. Inv => TypeOK
  BY DEF Inv
<1> QED BY <1>1, Invariance, PTL

(* Without blank thresholds, a threshold that is exceeded leads to a dump  *)
(* of the task, unless ordering one failed: the early return of            *)
(* checkNeedDumpInfo and the suppression by the row's flag lose none.      *)
THEOREM ExceededAreDumped == ASSUME ~BlankThresholds PROVE Spec => []ExceededDumps
<1>1. Inv => ExceededDumps
  BY DEF Inv, FlagOf, DumpTried, ExceededDumps
<1> QED BY <1>1, Invariance, PTL

(* Dumps of the memory do not outnumber the calm samples by more than one. *)
THEOREM DumpsAreBounded == Spec => []DumpsBounded
<1>1. Inv => DumpsBounded
  <2> SUFFICES ASSUME Inv, NEW k \in Tasks
               PROVE  ordered[k]["memory"] <= seen[k].calm + 1
    BY DEF DumpsBounded
  <2>1. ordered[k]["memory"] \in Nat /\ seen[k].calm \in Nat
    BY HistoryMoves DEF Inv
  <2> QED BY <2>1 DEF Inv, CountOf
<1> QED BY <1>1, Invariance, PTL

(* The queries on the memory of a server do not undo each other's fields.  *)
THEOREM FieldsSurvive == Spec => []FieldsKept
<1>1. Inv => FieldsKept
  BY DEF Inv, FieldsOf, FieldsKept
<1> QED BY <1>1, Invariance, PTL

(* At the end of a task every query has had its turn, whatever failed.     *)
THEOREM QueriesAccounted == Spec => []AllSampled
<1>1. Inv => AllSampled
  <2> SUFFICES ASSUME Inv, NEW k \in Tasks, pc[k] = "ended"
               PROVE  Queries \subseteq seen[k].stored \cup seen[k].excused
    BY DEF AllSampled
  <2>1. Object(k) \notin Queries
    BY RecordsAssumption DEF Inv, StageOf, Working, NoQuery, Fresh, Object, Queries
  <2> QED BY <2>1 DEF Inv, AccountOf
<1> QED BY <1>1, Invariance, PTL

(* Serialized tasks store no garbage collection twice.                     *)
THEOREM CollectionsStoredOnce == Spec => []CollectionsOnce
<1>1. Inv => CollectionsOnce
  BY DEF Inv, OneActive, CollectionsOnce
<1> QED BY <1>1, Invariance, PTL

-----------------------------------------------------------------------------
(* The queries of a task are run as QueryBatch says *)

(* What is known of the queries of a task.                                 *)
ToldOf(k) == seen[k].stored \cup seen[k].excused

(* A query at work goes on with nothing told, or tells something of itself *)
(* and goes on or ends.                                                    *)
Goes(k) == Object(k)' = Object(k) /\ ToldOf(k)' = ToldOf(k)
Tells(k) == /\ Object(k)' \in {Object(k), NoObject}
            /\ ToldOf(k)' = ToldOf(k) \cup {Object(k)}

LEMMA QueryTells ==
    ASSUME NEW k \in Tasks, TypeOK, StageOf(k), RunQuery(k)
    PROVE  /\ Goes(k) \/ Tells(k)
           /\ pc[k] \in Working /\ pc'[k] \in Working \cup {"choose"}
           /\ todo' = todo
<1> USE DEF Goes, Tells, ToldOf, Object, Working
<1>a. NoQuery.at = NoObject
  BY DEF NoQuery, Fresh
<1>b. pc \in [Tasks -> Stages] /\ query \in [Tasks -> QueryType] /\ query[k] \in QueryType
  BY DEF TypeOK
<1>1. CASE FindNames(k)
  BY <1>b, <1>1 DEF FindNames, Goto, QueryType
<1>2. CASE FindNoName(k)
  BY <1>2, <1>a, HistoryMoves, QueryMoves DEF FindNoName, SameHistory
<1>3. CASE Fetch(k)
  BY <1>b, <1>3 DEF Fetch, Goto, QueryType
<1>4. CASE FetchNothing(k)
  BY <1>4, <1>a, HistoryMoves, QueryMoves DEF FetchNothing, SameHistory
<1>5. CASE RemoteFails(k)
  BY <1>5, <1>a, HistoryMoves, QueryMoves DEF RemoteFails, SameHistory
<1>6. CASE Check(k)
  BY <1>6, Checked DEF SameHistory
<1>7. CASE CheckFails(k)
  BY <1>b, <1>7 DEF CheckFails, Goto
<1>8. CASE DumpThreadInfo(k)
  BY <1>8, Dumped
<1>9. CASE DumpFails(k)
  BY <1>9, DumpFailed DEF SameHistory
<1>10. CASE WriteMemory(k)
  BY <1>10, <1>a, MemoryWritten, QueryMoves DEF SameHistory
<1>11. CASE WriteRow(k)
  BY <1>11, <1>a, HistoryMoves, QueryMoves DEF WriteRow, SameHistory
<1>12. CASE CollectionFound(k)
  BY <1>12, <1>a, HistoryMoves, QueryMoves DEF CollectionFound, SameHistory
<1>13. CASE CollectionMissing(k)
  BY <1>b, <1>13 DEF CollectionMissing, Goto
<1>14. CASE InsertCollection(k)
  BY <1>14, <1>a, HistoryMoves, QueryMoves DEF InsertCollection, SameHistory
<1>15. CASE WriteFails(k)
  BY <1>15, <1>a, WriteFailed, QueryMoves DEF SameHistory
<1> QED BY <1>1, <1>2, <1>3, <1>4, <1>5, <1>6, <1>7, <1>8, <1>9, <1>10, <1>11,
           <1>12, <1>13, <1>14, <1>15
           DEF RunQuery

(* The mapped variables are those of the task that steps.                  *)
LEMMA MappedValues ==
    ASSUME TypeOK, NEW k \in Tasks, TaskStep(k)
    PROVE  /\ current' = [current EXCEPT ![k] = Object(k)']
           /\ told' = [told EXCEPT ![k] = ToldOf(k)']
           /\ state' = [state EXCEPT ![k] = IF pc'[k] \in {"new", "ended"} THEN pc'[k]
                                            ELSE "running"]
           /\ current[k] = Object(k) /\ told[k] = ToldOf(k)
<1>1. \A i \in Tasks \ {k} : pc'[i] = pc[i] /\ query'[i] = query[i] /\ seen'[i] = seen[i]
  BY OthersStay
<1>2. current' = [i \in Tasks |-> query'[i].at]
  BY DEF current, Object
<1>3. told' = [i \in Tasks |-> seen'[i].stored \cup seen'[i].excused]
  BY DEF told
<1>4. state' = [i \in Tasks |-> IF pc'[i] \in {"new", "ended"} THEN pc'[i] ELSE "running"]
  BY DEF state
<1>5. current' = [current EXCEPT ![k] = Object(k)']
  BY <1>1, <1>2 DEF current, Object
<1>6. told' = [told EXCEPT ![k] = ToldOf(k)']
  BY <1>1, <1>3 DEF told, ToldOf
<1>7. state' = [state EXCEPT ![k] = IF pc'[k] \in {"new", "ended"} THEN pc'[k]
                                   ELSE "running"]
  BY <1>1, <1>4 DEF state
<1> QED BY <1>5, <1>6, <1>7 DEF current, told, ToldOf

LEMMA BatchTask ==
    ASSUME Inv, NEW k \in Tasks, TaskStep(k)
    PROVE  [Batches!Next]_(Batches!vars)
<1>a. TypeOK /\ StageOf(k) /\ todo \in [Tasks -> SUBSET Objects] /\ pc \in [Tasks -> Stages]
  BY DEF Inv, TypeOK
<1>b. Object(k) = NoObject <=> pc[k] \notin Working
  BY <1>a, RecordsAssumption DEF StageOf, NoQuery, Fresh, Object, Queries
<1>c. /\ state[k] = IF pc[k] \in {"new", "ended"} THEN pc[k] ELSE "running"
      /\ state \in [Tasks -> {"new", "ended", "running"}]
      /\ current \in [Tasks -> {Object(i) : i \in Tasks}]
      /\ told \in [Tasks -> {ToldOf(i) : i \in Tasks}]
  BY DEF state, current, told, ToldOf
<1>1. CASE Begin(k)
  <2>1. /\ pc[k] = "new" /\ pc'[k] = "choose" /\ todo' = [todo EXCEPT ![k] = Queries]
        /\ Object(k)' = Object(k) /\ ToldOf(k)' = ToldOf(k)
    BY <1>a, <1>1 DEF Begin, Goto, Object, ToldOf
  <2>2. Batches!Start(k)
    BY <1>a, <1>c, <2>1, MappedValues DEF Batches!Start
  <2> QED BY <2>2 DEF Batches!Next
<1>2. CASE Choose(k)
  <2>1. /\ pc[k] = "choose" /\ pc'[k] = "names" /\ Object(k)' \in todo[k]
        /\ todo'[k] = todo[k] \ {Object(k)'} /\ ToldOf(k)' = ToldOf(k)
    BY <1>a, <1>2, QueryChosen DEF ToldOf
  <2>2. todo' = [todo EXCEPT ![k] = @ \ {Object(k)'}]
    BY <1>a, <1>2, <2>1 DEF Choose
  <2>3. Object(k)' \in Queries
    BY <1>a, <2>1 DEF StageOf
  <2>4. Batches!Take(k, Object(k)')
    <3>1. current[k] = NoObject /\ state' = state
      <4>1. Object(k) = NoObject
        BY <1>b, <2>1 DEF Working
      <4>2. current[k] = Object(k)
        BY DEF current
      <4>3. state[k] = "running"
        BY <1>c, <2>1
      <4>4. state' = [state EXCEPT ![k] = "running"]
        BY <1>a, <2>1, MappedValues
      <4> QED BY <1>c, <4>1, <4>2, <4>3, <4>4
    <3>2. /\ current' = [current EXCEPT ![k] = Object(k)']
          /\ told' = [told EXCEPT ![k] = ToldOf(k)'] /\ told[k] = ToldOf(k)
      BY <1>a, MappedValues
    <3>3. told' = told
      BY <1>c, <2>1, <3>2
    <3> QED BY <2>1, <2>2, <3>1, <3>2, <3>3 DEF Batches!Take
  <2> QED BY <2>3, <2>4 DEF Batches!Next
<1>3. CASE End(k)
  <2>1. /\ pc[k] = "choose" /\ pc'[k] = "ended" /\ todo[k] = {} /\ todo' = todo
        /\ Object(k)' = Object(k) /\ ToldOf(k)' = ToldOf(k)
    BY <1>a, <1>3 DEF End, Goto, Object, ToldOf
  <2>2. Batches!Finish(k)
    BY <1>a, <1>b, <1>c, <2>1, MappedValues DEF Batches!Finish, Working
  <2> QED BY <2>2 DEF Batches!Next
<1>4. CASE RunQuery(k)
  <2>1. /\ Goes(k) \/ Tells(k)
        /\ pc[k] \in Working /\ pc'[k] \in Working \cup {"choose"} /\ todo' = todo
    BY <1>a, <1>4, QueryTells
  <2>2. state' = state /\ Object(k) # NoObject
    BY <1>a, <1>b, <1>c, <2>1, MappedValues DEF Working
  <2>3. CASE Goes(k)
    <3>1. current' = current /\ told' = told
      BY <1>a, <1>c, <2>3, MappedValues DEF Goes
    <3> QED BY <2>1, <2>2, <3>1 DEF Batches!vars
  <2>4. CASE Tells(k)
    <3>1. \/ Object(k)' = NoObject /\ Batches!Tell(k, TRUE)
          \/ Object(k)' = Object(k) /\ Batches!Tell(k, FALSE)
      <4>1. Object(k)' = Object(k) => current' = current
        BY <1>a, <1>c, MappedValues
      <4> QED BY <1>a, <1>c, <2>1, <2>2, <2>4, <4>1, MappedValues DEF Tells, Batches!Tell
    <3> QED BY <3>1 DEF Batches!Next
  <2> QED BY <2>1, <2>3, <2>4
<1> QED BY <1>1, <1>2, <1>3, <1>4 DEF TaskStep

(* The tasks of ServerJob run their queries as QueryBatch says: one at a   *)
(* time, each once, none ending without a trace, whatever fails.           *)
THEOREM ImplementsBatch == Spec => BatchSpec
<1>1. Init => Batches!Init
  BY DEF Init, Batches!Init, state, current, told, NothingSeen, NoQuery, Fresh, Object
<1>2. Inv /\ [Next]_vars => [Batches!Next]_(Batches!vars)
  <2> SUFFICES ASSUME Inv, [Next]_vars PROVE [Batches!Next]_(Batches!vars)
    OBVIOUS
  <2>1. CASE UNCHANGED <<pc, todo, query, seen>>
    <3>1. state' = state /\ current' = current /\ told' = told
      BY <2>1 DEF state, current, told, Object
    <3> QED BY <2>1, <3>1 DEF Batches!vars
  <2>2. ASSUME NEW k \in Tasks, TaskStep(k) PROVE [Batches!Next]_(Batches!vars)
    BY <2>2, BatchTask
  <2> QED BY <2>1, <2>2 DEF Next, Collect, vars, TaskStep
<1> QED BY <1>1, <1>2, Invariance, PTL DEF Spec, BatchSpec, Batches!Spec
=============================================================================
