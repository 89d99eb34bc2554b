-------------------------- MODULE ThresholdsProofs --------------------------
(***************************************************************************)
(* Proofs about Thresholds.  The bound on the rows needs to be counted:    *)
(* once there is a row no save finds none any more, so what may still be   *)
(* inserted are the saves that had found none before, and with the rows    *)
(* that are there they are no more than were at work at once.              *)
(***************************************************************************)
EXTENDS Thresholds, FiniteSetTheorems, TLAPS

Absent == At({"absent"})

\* No more saves are at work than ever were.
WorkBounded == Cardinality(AtWork) <= peak

\* The rows, and those that are still to be inserted.
RowsCounted == rows # <<>> => Len(rows) + Cardinality(Absent) <= peak

\* A save that has found a row will find it again.
PresentStays == \A r \in Requests : save[r].stage = "present" => rows # <<>>

\* As long as there is no second row: one input on each page, its value is
\* posted, and the only row has what was last saved.
OneInput ==
    Len(rows) <= 1 =>
        /\ \A a \in Admins : Len(inputs[a]) = 1
        /\ \A r \in Requests : save[r].value = save[r].typed

LastStored ==
    Len(rows) <= 1 => IF rows = <<>> THEN last = Default ELSE rows[1] = last

IInv ==
    /\ TypeOK
    /\ peak >= 1
    /\ WorkBounded
    /\ RowsCounted
    /\ PresentStays
    /\ OneInput
    /\ LastStored

USE ThresholdsAssumption

-----------------------------------------------------------------------------
\* Every set of requests is finite.
LEMMA AtFinite ==
    ASSUME NEW stages
    PROVE  IsFiniteSet(At(stages)) /\ Cardinality(At(stages)) \in Nat
<1>1. At(stages) \subseteq Requests
  BY DEF At
<1>2. IsFiniteSet(At(stages))
  BY <1>1, FS_Subset
<1> QED
  BY <1>2, FS_CardinalityType

\* Those that have found no row are at work.
LEMMA AbsentAtWork == Cardinality(Absent) <= Cardinality(AtWork)
<1>1. Absent \subseteq AtWork
  BY DEF Absent, AtWork, At
<1>2. IsFiniteSet(AtWork)
  BY AtFinite DEF AtWork
<1> QED
  BY <1>1, <1>2, FS_Subset

\* The initial states.
LEMMA InitHolds == Init => IInv
<1> SUFFICES ASSUME Init PROVE IInv
  OBVIOUS
<1>1. rows = <<>> \/ \E v \in Values : rows = <<v>>
  BY DEF Init
<1>8. rows \in Seq(Values) /\ Len(rows) \in {0, 1} /\ (rows = <<>> => Len(rows) = 0)
  <2>1. CASE rows = <<>>
    BY <2>1
  <2>2. ASSUME NEW v \in Values, rows = <<v>> PROVE rows \in Seq(Values) /\ Len(rows) = 1 /\ rows # <<>>
    BY <2>2
  <2> QED
    BY <1>1, <2>1, <2>2
<1>2. TypeOK
  <2>1. last \in Values \cup {Default, Empty}
    BY DEF Init
  <2>2. Rendered \in Seq(Values \cup {Empty}) /\ Len(Rendered) = 1
    <3>1. CASE rows = <<>>
      BY <3>1 DEF Rendered
    <3>2. CASE rows # <<>>
      BY <1>1, <3>2 DEF Rendered
    <3> QED
      BY <3>1, <3>2
  <2>3. save \in [Requests -> Saves] /\ \A r \in Requests : save[r].stage = "none"
    BY DEF Init, NoSave, Saves, Stages
  <2> QED
    BY <1>8, <2>1, <2>2, <2>3 DEF TypeOK, Init
<1>3. \A stages : "none" \notin stages => Cardinality(At(stages)) = 0
  <2> SUFFICES ASSUME NEW stages, "none" \notin stages PROVE Cardinality(At(stages)) = 0
    OBVIOUS
  <2>1. At(stages) = {}
    BY DEF Init, At, NoSave
  <2> QED
    BY <2>1, FS_EmptySet
<1>4. peak = 1 /\ Cardinality(AtWork) = 0 /\ Cardinality(Absent) = 0
  BY <1>3 DEF Init, AtWork, Absent
<1>5. PresentStays
  BY DEF Init, NoSave, PresentStays
<1>6. OneInput
  <2>1. Len(Rendered) = 1
    BY <1>1 DEF Rendered
  <2> QED
    BY <2>1 DEF Init, NoSave, OneInput
<1>7. LastStored
  BY DEF Init, LastStored
<1>9. WorkBounded /\ RowsCounted
  <2>1. Len(rows) + 0 <= 1
    <3>1. PICK n \in {0, 1} : n = Len(rows)
      BY <1>8
    <3>2. n + 0 <= 1
      OBVIOUS
    <3> QED
      BY <3>1, <3>2
  <2> QED
    BY <1>4, <2>1 DEF WorkBounded, RowsCounted
<1> QED
  BY <1>2, <1>4, <1>5, <1>6, <1>7, <1>9 DEF IInv

-----------------------------------------------------------------------------
\* A page that is rendered has an input, and one if the row is the only one.
LEMMA RenderedInputs ==
    ASSUME TypeOK
    PROVE  /\ Rendered \in Seq(Values \cup {Empty})
           /\ Len(Rendered) > 0
           /\ Len(rows) <= 1 => Len(Rendered) = 1
<1>1. rows \in Seq(Values)
  BY DEF TypeOK
<1>2. CASE rows = <<>>
  BY <1>2 DEF Rendered
<1>3. CASE rows # <<>>
  <2>1. Len(rows) \in Nat /\ Len(rows) > 0 /\ rows \in Seq(Values \cup {Empty})
    BY <1>1, <1>3
  <2>2. Rendered = rows
    BY <1>3 DEF Rendered
  <2> QED
    BY <2>1, <2>2
<1> QED
  BY <1>2, <1>3

LEMMA LoadHolds == ASSUME IInv, NEW a \in Admins, Load(a) PROVE IInv'
<1> USE DEF IInv, Load
<1>1. TypeOK'
  BY RenderedInputs DEF TypeOK
<1>2. OneInput'
  BY RenderedInputs DEF OneInput, TypeOK
<1>3. AtWork' = AtWork /\ Absent' = Absent
  BY DEF AtWork, Absent, At
<1> QED
  BY <1>1, <1>2, <1>3 DEF WorkBounded, RowsCounted, PresentStays, LastStored

LEMMA TypeHolds ==
    ASSUME IInv, NEW a \in Admins, NEW k \in 1..Len(inputs[a]), NEW v \in Values, Type(a, k, v)
    PROVE  IInv'
<1> USE DEF IInv, Type
<1>1. /\ inputs' \in [Admins -> Seq(Values \cup {Empty})]
      /\ \A b \in Admins : Len(inputs'[b]) = Len(inputs[b])
  BY DEF TypeOK
<1>2. TypeOK'
  BY <1>1 DEF TypeOK
<1>3. OneInput'
  BY <1>1 DEF OneInput
<1>4. AtWork' = AtWork /\ Absent' = Absent
  BY DEF AtWork, Absent, At
<1> QED
  BY <1>2, <1>3, <1>4 DEF WorkBounded, RowsCounted, PresentStays, LastStored

LEMMA ClickHolds ==
    ASSUME IInv, NEW a \in Admins, NEW k \in 1..Len(inputs[a]), NEW r \in Requests, Click(a, k, r)
    PROVE  IInv'
<1> USE DEF IInv
<1> DEFINE s == [stage |-> "sent", value |-> inputs[a][1], typed |-> inputs[a][k]]
<1>1. s \in Saves /\ s.value # Empty
  BY DEF TypeOK, Saves, Stages, Click
<1>2. TypeOK'
  <2>1. Cardinality(AtWork) \in Nat
    BY AtFinite DEF AtWork
  <2> QED
    BY <1>1, <2>1 DEF TypeOK, Click
<1>3. AtWork' = AtWork \cup {r} /\ r \notin AtWork /\ Absent' = Absent
  BY DEF AtWork, Absent, At, Click, TypeOK
<1>4. Cardinality(AtWork') = Cardinality(AtWork) + 1
  BY <1>3, AtFinite, FS_AddElement DEF AtWork
<1>5. peak' >= peak /\ Cardinality(AtWork') <= peak' /\ peak \in Nat /\ peak' \in Nat
  BY <1>2, <1>4, AtFinite DEF Click, TypeOK, AtWork
<1>6. OneInput'
  <2>1. Len(rows) <= 1 => k = 1
    <3> SUFFICES ASSUME Len(rows) <= 1 PROVE k = 1
      OBVIOUS
    <3>1. Len(inputs[a]) = 1
      BY DEF OneInput
    <3>2. k \in 1..1
      BY <3>1
    <3> QED
      BY <3>2
  <2> QED
    BY <2>1 DEF OneInput, Click, TypeOK
<1>7. RowsCounted'
  BY <1>3, <1>5, AtFinite DEF RowsCounted, Click, Absent, TypeOK
<1>8. PresentStays'
  BY DEF PresentStays, Click, TypeOK
<1>9. LastStored'
  BY DEF LastStored, Click
<1> QED
  BY <1>2, <1>5, <1>6, <1>7, <1>8, <1>9 DEF WorkBounded

LEMMA CountHolds == ASSUME IInv, NEW r \in Requests, Count(r) PROVE IInv'
<1> USE DEF IInv
<1>1. rows \in Seq(Values) /\ ((rows = <<>>) <=> (Len(rows) = 0)) /\ Len(rows) \in Nat
  BY DEF TypeOK
<1>2. PICK st \in {"present", "absent"} :
         /\ save' = [save EXCEPT ![r].stage = st]
         /\ (st = "absent") <=> (rows = <<>>)
  <2>1. CASE rows = <<>>
    BY <1>1, <2>1 DEF Count
  <2>2. CASE rows # <<>>
    <3>1. Len(rows) > 0
      BY <1>1, <2>2
    <3>2. save' = [save EXCEPT ![r].stage = "present"]
      BY <3>1 DEF Count
    <3> QED
      BY <2>2, <3>2
  <2> QED
    BY <2>1, <2>2
<1>3. TypeOK'
  <2>1. save[r] \in Saves /\ save[r].value # Empty
    BY DEF TypeOK, Count
  <2>2. [save[r] EXCEPT !.stage = st] \in Saves
    BY <2>1 DEF Saves, Stages
  <2>3. save' \in [Requests -> Saves]
    BY <1>2, <2>2 DEF TypeOK
  <2>4. \A q \in Requests : save'[q].value = save[q].value /\ (q # r => save'[q] = save[q])
    BY <1>2, <2>1 DEF TypeOK, Saves
  <2> QED
    BY <2>1, <2>3, <2>4 DEF TypeOK, Count
<1>4. AtWork' = AtWork
  BY <1>2 DEF AtWork, At, Count, TypeOK
<1>5. rows # <<>> => Absent' = Absent
  BY <1>2 DEF Absent, At, Count, TypeOK
<1>6. PresentStays'
  BY <1>2 DEF PresentStays, Count, TypeOK
<1>7. OneInput'
  BY <1>2 DEF OneInput, Count, TypeOK
<1> QED
  BY <1>3, <1>4, <1>5, <1>6, <1>7 DEF Count, WorkBounded, RowsCounted, LastStored

\* A request that ends leaves those at work, and with it those to be inserted
\* if it was one of them.
LEMMA LeavesWork ==
    ASSUME TypeOK, NEW r \in Requests, save' = [save EXCEPT ![r] = NoSave], save[r].stage # "none"
    PROVE  /\ Cardinality(AtWork') = Cardinality(AtWork) - 1
           /\ Cardinality(Absent') =
                 IF save[r].stage = "absent" THEN Cardinality(Absent) - 1 ELSE Cardinality(Absent)
<1>1. AtWork' = AtWork \ {r} /\ r \in AtWork
  BY DEF AtWork, At, NoSave, TypeOK, Saves, Stages
<1>2. Cardinality(AtWork') = Cardinality(AtWork) - 1
  BY <1>1, AtFinite, FS_RemoveElement DEF AtWork
<1>3. Absent' = Absent \ {r} /\ (r \in Absent <=> save[r].stage = "absent")
  BY DEF Absent, At, NoSave, TypeOK
<1>4. IsFiniteSet(Absent)
  BY AtFinite DEF Absent
<1>5. CASE save[r].stage = "absent"
  <2>1. r \in Absent
    BY <1>3, <1>5
  <2>2. Cardinality(Absent') = Cardinality(Absent) - 1
    BY <1>3, <1>4, <2>1, FS_RemoveElement
  <2> QED
    BY <1>2, <1>5, <2>2
<1>6. CASE save[r].stage # "absent"
  <2>1. Absent' = Absent
    BY <1>3, <1>6
  <2>2. Cardinality(Absent') = Cardinality(Absent)
    BY <2>1
  <2> QED
    BY <1>2, <1>6, <2>2
<1> QED
  BY <1>2, <1>5, <1>6

\* What a write or a failure leaves as it is.
LEMMA SavesLeft ==
    ASSUME TypeOK, NEW r \in Requests, save' = [save EXCEPT ![r] = NoSave]
    PROVE  /\ save' \in [Requests -> Saves]
           /\ \A q \in Requests : save'[q] = save[q] \/ save'[q] = NoSave
BY DEF TypeOK, NoSave, Saves, Stages

LEMMA UpdateHolds == ASSUME IInv, NEW r \in Requests, Update(r) PROVE IInv'
<1> USE DEF IInv
<1>1. save[r].value \in Values /\ save[r].typed \in Values \cup {Empty}
  BY DEF Update, TypeOK, Saves
<1>2. /\ rows' \in Seq(Values) /\ Len(rows') = Len(rows)
      /\ \A k \in 1..Len(rows) : rows'[k] = save[r].value
  <2>1. rows \in Seq(Values) /\ DOMAIN rows = 1..Len(rows) /\ Len(rows) \in Nat
    BY DEF TypeOK
  <2>2. rows' = [k \in 1..Len(rows) |-> save[r].value]
    BY <2>1 DEF Update
  <2> QED
    BY <1>1, <2>1, <2>2
<1>3. rows # <<>> /\ rows' # <<>> /\ Len(rows) \in Nat /\ Len(rows) > 0
  BY <1>2 DEF PresentStays, Update, TypeOK
<1>4. TypeOK'
  BY <1>1, <1>2, SavesLeft DEF TypeOK, Update, NoSave
<1>5. /\ Cardinality(AtWork') = Cardinality(AtWork) - 1
      /\ Cardinality(Absent') = Cardinality(Absent)
  BY LeavesWork DEF Update
<1>6. WorkBounded' /\ RowsCounted'
  <2>1. Cardinality(AtWork) \in Nat /\ peak \in Nat
    BY AtFinite DEF AtWork, TypeOK
  <2> QED
    BY <1>2, <1>3, <1>5, <2>1 DEF WorkBounded, RowsCounted, Update
<1>7. PresentStays'
  BY <1>3 DEF PresentStays
<1>8. OneInput'
  BY <1>2, SavesLeft DEF OneInput, Update, NoSave
<1>9. LastStored'
  BY <1>2, <1>3 DEF LastStored, OneInput, Update
<1> QED
  BY <1>4, <1>6, <1>7, <1>8, <1>9 DEF Update

LEMMA InsertHolds == ASSUME IInv, NEW r \in Requests, Insert(r) PROVE IInv'
<1> USE DEF IInv
<1>1. save[r].value \in Values /\ save[r].typed \in Values \cup {Empty}
  BY DEF Insert, TypeOK, Saves
<1>2. /\ rows \in Seq(Values) /\ Len(rows) \in Nat
      /\ rows' \in Seq(Values) /\ Len(rows') = Len(rows) + 1
      /\ rows = <<>> => Len(rows) = 0 /\ rows'[1] = save[r].value
      /\ rows # <<>> => Len(rows) > 0
  BY <1>1 DEF Insert, TypeOK
<1>3. TypeOK'
  BY <1>1, <1>2, SavesLeft DEF TypeOK, Insert, NoSave
<1>4. /\ Cardinality(AtWork') = Cardinality(AtWork) - 1
      /\ Cardinality(Absent') = Cardinality(Absent) - 1
  BY LeavesWork DEF Insert
<1>5. /\ Cardinality(AtWork) \in Nat /\ Cardinality(Absent) \in Nat /\ peak \in Nat
      /\ Cardinality(Absent') \in Nat
  <2>1. save' \in [Requests -> Saves]
    BY <1>3 DEF TypeOK
  <2>2. IsFiniteSet(Absent')
    BY FS_Subset DEF Absent, At
  <2> QED
    BY <2>2, FS_CardinalityType, AtFinite DEF AtWork, Absent, TypeOK
<1>6. WorkBounded'
  BY <1>4, <1>5 DEF WorkBounded, Insert
<1>7. RowsCounted'
  BY <1>2, <1>4, <1>5, AbsentAtWork DEF WorkBounded, RowsCounted, Insert
<1>8. PresentStays'
  BY <1>2 DEF PresentStays
<1>9. Len(rows') <= 1 => rows = <<>> /\ Len(rows) <= 1
  BY <1>2
<1>10. OneInput'
  BY <1>9, SavesLeft DEF OneInput, Insert, NoSave
<1>11. LastStored'
  BY <1>2, <1>9 DEF LastStored, OneInput, Insert
<1> QED
  BY <1>3, <1>6, <1>7, <1>8, <1>10, <1>11 DEF Insert

LEMMA FailHolds == ASSUME IInv, NEW r \in Requests, Fail(r) PROVE IInv'
<1> USE DEF IInv
<1>1. TypeOK'
  BY SavesLeft DEF TypeOK, Fail, NoSave
<1>2. /\ Cardinality(AtWork') = Cardinality(AtWork) - 1
      /\ \/ Cardinality(Absent') = Cardinality(Absent) - 1
         \/ Cardinality(Absent') = Cardinality(Absent)
  BY LeavesWork DEF Fail
<1>3. WorkBounded' /\ RowsCounted'
  <2>1. Cardinality(AtWork) \in Nat /\ Cardinality(Absent) \in Nat /\ peak \in Nat /\ Len(rows) \in Nat
    BY AtFinite DEF AtWork, Absent, TypeOK
  <2> QED
    BY <1>2, <2>1 DEF WorkBounded, RowsCounted, Fail
<1>4. PresentStays'
  BY SavesLeft DEF PresentStays, Fail, NoSave
<1>5. OneInput'
  BY SavesLeft DEF OneInput, Fail, NoSave
<1> QED
  BY <1>1, <1>3, <1>4, <1>5 DEF LastStored, Fail

-----------------------------------------------------------------------------
\* The invariant is inductive.
LEMMA Inductive == IInv /\ [Next]_vars => IInv'
<1> SUFFICES ASSUME IInv, [Next]_vars PROVE IInv'
  OBVIOUS
<1>1. CASE UNCHANGED vars
  BY <1>1 DEF vars, IInv, TypeOK, WorkBounded, RowsCounted, PresentStays, OneInput, LastStored,
              AtWork, Absent, At
<1>2. ASSUME NEW a \in Admins, Load(a) PROVE IInv'
  BY <1>2, LoadHolds
<1>3. ASSUME NEW a \in Admins, NEW k \in 1..Len(inputs[a]), NEW v \in Values, Type(a, k, v)
      PROVE  IInv'
  BY <1>3, TypeHolds
<1>4. ASSUME NEW a \in Admins, NEW k \in 1..Len(inputs[a]), NEW r \in Requests, Click(a, k, r)
      PROVE  IInv'
  BY <1>4, ClickHolds
<1>5. ASSUME NEW r \in Requests, Count(r) \/ Update(r) \/ Insert(r) \/ Fail(r) PROVE IInv'
  BY <1>5, CountHolds, UpdateHolds, InsertHolds, FailHolds
<1> QED
  BY <1>1, <1>2, <1>3, <1>4, <1>5 DEF Next

LEMMA Invariance == Spec => []IInv
BY InitHolds, Inductive, PTL DEF Spec

\* Every variable keeps its type: a page has at least one input, an empty
\* value is never posted (appsetting-widget-view.js, saveparam).
THEOREM TypeCorrect == Spec => []TypeOK
<1>1. IInv => TypeOK
  BY DEF IInv
<1> QED
  BY <1>1, Invariance, PTL

\* However many requests there may be, saveParam makes no more rows of a
\* parameter than saves were at work at once.
THEOREM RowsStayBounded == Spec => []RowsBounded
<1>1. IInv => RowsBounded
  <2> SUFFICES ASSUME IInv PROVE Len(rows) <= peak
    BY DEF RowsBounded
  <2>1. Len(rows) \in Nat /\ peak \in Nat /\ (rows = <<>> => Len(rows) = 0)
    BY DEF IInv, TypeOK
  <2> QED
    BY <2>1, AtFinite DEF IInv, RowsCounted, Absent
<1> QED
  BY <1>1, Invariance, PTL

\* However saves overlap, the threshold that the detection reads is the one
\* that was last saved, as it was typed, unless they have left two rows: with
\* RowsStayBounded, always when no two saves have been at work at once.
THEOREM SavedIsAlwaysUsed == Spec => []SavedIsUsed
<1>1. IInv => SavedIsUsed
  <2> SUFFICES ASSUME IInv, Len(rows) <= 1 PROVE CpuUsageThreshold = last
    BY DEF SavedIsUsed
  <2>1. Len(rows) \in Nat /\ ((rows = <<>>) <=> (Len(rows) = 0))
    BY DEF IInv, TypeOK
  <2>2. IF rows = <<>> THEN last = Default ELSE rows[1] = last
    BY DEF IInv, LastStored
  <2>3. CASE Len(rows) = 0
    BY <2>1, <2>2, <2>3 DEF CpuUsageThreshold
  <2>4. CASE Len(rows) = 1
    <3>1. CpuUsageThreshold = rows[1]
      BY <2>4 DEF CpuUsageThreshold
    <3>2. rows # <<>>
      BY <2>4
    <3> QED
      BY <2>2, <3>1, <3>2
  <2>5. PICK n \in Nat : n = Len(rows) /\ n <= 1
    BY <2>1
  <2>6. n = 0 \/ n = 1
    BY <2>5
  <2> QED
    BY <2>3, <2>4, <2>5, <2>6
<1> QED
  BY <1>1, Invariance, PTL
=============================================================================
