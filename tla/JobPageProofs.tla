---------------------------- MODULE JobPageProofs ----------------------------
(***************************************************************************)
(* Proofs about JobPage.  The handler of the answer takes the inputs of    *)
(* its moment, so what has to be carried from the click to the answer is   *)
(* that a user who leaves the row alone leaves in the inputs what was      *)
(* sent; then the answer makes page and row agree, whatever was before.    *)
(***************************************************************************)
EXTENDS JobPage, SequenceTheorems, TLAPS

\* The user leaves the row alone: always while it is saved, or since the last
\* save, which is the only one on its way.
Undisturbed == waits \/ alone

\* Then at most one save is on its way, and the inputs hold what it has sent.
InputsKept ==
    Undisturbed =>
        /\ Len(asked) <= 1
        /\ \A i \in 1..Len(asked) :
              editing /\ asked[i].form = cells /\ asked[i].chosen = chosen

\* What was stored is in the inputs.
StoredKept ==
    Undisturbed => \A i \in 1..Len(asked) : asked[i].stage = "stored" => cells = stored

\* Until then the texts and what cancel restores are the row as it was.
RowKept ==
    waits /\ ~lost /\ (\A i \in 1..Len(asked) : asked[i].stage # "stored") =>
        orign = stored /\ (~editing => cells = stored)

\* The status in the inputs is the row's until the user chooses another.
StatusKept == waits /\ ~lost /\ editing /\ ~chosen => cells.status = stored.status

\* No cell is empty as long as the user leaves the row alone while it is saved.
NoneBlank == waits => cells.status # Blank /\ orign.status # Blank

IInv ==
    /\ TypeOK
    /\ InputsKept
    /\ StoredKept
    /\ RowKept
    /\ StatusKept
    /\ NoneBlank

-----------------------------------------------------------------------------
\* Taking one element from a sequence.
LEMMA RemoveAtType ==
    ASSUME NEW S, NEW s \in Seq(S), NEW i \in 1..Len(s)
    PROVE  RemoveAt(s, i) \in Seq(S) /\ Len(RemoveAt(s, i)) = Len(s) - 1
<1> DEFINE a == SubSeq(s, 1, i - 1)
           b == SubSeq(s, i + 1, Len(s))
<1>1. a \in Seq(S) /\ Len(a) = i - 1
  OBVIOUS
<1>2. b \in Seq(S) /\ Len(b) = Len(s) - i
  OBVIOUS
<1>3. RemoveAt(s, i) = a \o b
  BY DEF RemoveAt
<1>4. a \o b \in Seq(S) /\ Len(a \o b) = Len(a) + Len(b)
  <2> HIDE DEF a, b
  <2> QED
    BY <1>1, <1>2, ConcatProperties, Zenon
<1> HIDE DEF a, b
<1> QED
  BY <1>1, <1>2, <1>3, <1>4

\* The only save is answered: none is left.
LEMMA RemoveOnly ==
    ASSUME TypeOK, NEW i \in 1..Len(asked)
    PROVE  /\ RemoveAt(asked, i) \in Seq(Saves)
           /\ Len(asked) <= 1 => Len(RemoveAt(asked, i)) = 0
<1>1. asked \in Seq(Saves)
  BY DEF TypeOK
<1>2. RemoveAt(asked, i) \in Seq(Saves) /\ Len(RemoveAt(asked, i)) = Len(asked) - 1
  BY <1>1, RemoveAtType
<1>3. PICK n \in Nat : n = Len(asked)
  BY <1>1
<1>4. n >= 1
  BY <1>3
<1> QED
  BY <1>2, <1>3, <1>4

\* Forms are texts that the select can show.
LEMMA FormTexts == \A f \in Forms : f \in Texts /\ f.status # Blank
BY JobPageAssumption DEF Forms, Texts

-----------------------------------------------------------------------------
LEMMA InitHolds == Init => IInv
<1> SUFFICES ASSUME Init PROVE IInv
  OBVIOUS
<1>1. stored \in Forms /\ cells = stored /\ orign = stored
  BY DEF Init, Forms
<1>2. asked = <<>> /\ Len(asked) = 0 /\ asked \in Seq(Saves) /\ editing = FALSE
  BY DEF Init
<1>3. TypeOK
  BY <1>1, <1>2, FormTexts DEF Init, TypeOK
<1>4. InputsKept /\ StoredKept /\ RowKept /\ StatusKept /\ NoneBlank
  BY <1>1, <1>2, FormTexts
     DEF InputsKept, StoredKept, RowKept, StatusKept, NoneBlank
<1> QED
  BY <1>3, <1>4 DEF IInv

\* A user who touches the row and still leaves it alone while it is saved has
\* no save on its way.
LEMMA TouchQuiet ==
    ASSUME TypeOK, Touch, Undisturbed'
    PROVE  waits /\ asked = <<>> /\ Len(asked) = 0
BY DEF Touch, TypeOK, Undisturbed

LEMMA EditHolds == ASSUME IInv, Edit PROVE IInv'
<1>1. PICK c \in Forms : /\ cells' = c
                         /\ cells.status # Blank => c = cells
  <2>1. cells \in Texts
    BY DEF IInv, TypeOK
  <2>2. CASE cells.status = Blank
    <3>1. [cells EXCEPT !.status = First] \in Forms
      BY <2>1, JobPageAssumption DEF Texts, Forms
    <3> QED
      BY <2>2, <3>1 DEF Edit
  <2>3. CASE cells.status # Blank
    <3>1. cells \in Forms
      BY <2>1, <2>3 DEF Texts, Forms
    <3> QED
      BY <2>3, <3>1 DEF Edit
  <2> QED
    BY <2>2, <2>3
<1>2. TypeOK'
  <2>1. cells' \in Forms /\ cells' \in Texts
    BY <1>1, FormTexts
  <2>2. waits' \in BOOLEAN /\ alone' \in BOOLEAN
    BY DEF Edit, Touch
  <2>3. edits' \in Nat
    BY DEF IInv, TypeOK, Edit
  <2> QED
    BY <2>1, <2>2, <2>3 DEF IInv, TypeOK, Edit
<1>3. ASSUME Undisturbed'
      PROVE  /\ waits /\ Len(asked) = 0
             /\ cells' = cells /\ orign' = orign /\ stored' = stored /\ asked' = asked
             /\ ~editing /\ ~lost => cells = stored
             /\ cells.status # Blank /\ orign.status # Blank
  <2>1. waits /\ Len(asked) = 0
    BY <1>3, TouchQuiet DEF Edit, IInv
  <2> QED
    BY <1>1, <2>1 DEF IInv, NoneBlank, RowKept, Edit
<1>4. InputsKept' /\ StoredKept' /\ NoneBlank'
  BY <1>3 DEF InputsKept, StoredKept, NoneBlank, Undisturbed
<1>5. RowKept' /\ StatusKept'
  BY <1>3 DEF RowKept, StatusKept, IInv, Edit, Undisturbed
<1> QED
  BY <1>2, <1>4, <1>5 DEF IInv

LEMMA TypeCronHolds ==
    ASSUME IInv, NEW c \in Crons \cup {BadCron}, TypeCron(c)
    PROVE  IInv'
<1>1. cells \in Forms /\ cells' \in Forms /\ cells'.status = cells.status
  BY DEF IInv, TypeOK, TypeCron, Forms
<1>2. TypeOK'
  BY <1>1, FormTexts DEF IInv, TypeOK, TypeCron, Touch
<1>3. Undisturbed' => waits /\ Len(asked) = 0
  BY TouchQuiet DEF TypeCron, IInv
<1>4. InputsKept' /\ StoredKept' /\ NoneBlank'
  BY <1>1, <1>3 DEF IInv, InputsKept, StoredKept, NoneBlank, TypeCron, Undisturbed
<1>5. RowKept' /\ StatusKept'
  BY <1>1, <1>3 DEF IInv, RowKept, StatusKept, TypeCron, Undisturbed
<1> QED
  BY <1>2, <1>4, <1>5 DEF IInv

LEMMA ChooseStatusHolds ==
    ASSUME IInv, NEW s \in Statuses, ChooseStatus(s)
    PROVE  IInv'
<1>1. cells' \in Forms
  BY DEF IInv, TypeOK, ChooseStatus, Forms
<1>2. TypeOK'
  BY <1>1, FormTexts DEF IInv, TypeOK, ChooseStatus, Touch
<1>3. Undisturbed' => waits /\ Len(asked) = 0
  BY TouchQuiet DEF ChooseStatus, IInv
<1>4. InputsKept' /\ StoredKept'
  <2>1. asked' = asked
    BY DEF ChooseStatus
  <2>2. Undisturbed' => Len(asked') = 0
    BY <1>3, <2>1
  <2> QED
    BY <2>2 DEF InputsKept, StoredKept
<1>6. NoneBlank'
  <2>1. cells'.status # Blank
    BY <1>1, FormTexts
  <2> QED
    BY <1>3, <2>1 DEF IInv, NoneBlank, ChooseStatus, Undisturbed
<1>5. RowKept' /\ StatusKept'
  BY <1>3 DEF IInv, RowKept, StatusKept, ChooseStatus, Undisturbed
<1> QED
  BY <1>2, <1>4, <1>5, <1>6 DEF IInv

LEMMA CancelHolds == ASSUME IInv, Cancel PROVE IInv'
<1>1. TypeOK'
  BY DEF IInv, TypeOK, Cancel, Touch
<1>2. Undisturbed' => waits /\ Len(asked) = 0
  BY TouchQuiet DEF Cancel, IInv
<1>3. InputsKept' /\ StoredKept' /\ NoneBlank'
  BY <1>2 DEF IInv, InputsKept, StoredKept, NoneBlank, Cancel, Undisturbed
<1>4. RowKept' /\ StatusKept'
  BY <1>2 DEF IInv, RowKept, StatusKept, Cancel, Undisturbed
<1> QED
  BY <1>1, <1>3, <1>4 DEF IInv

LEMMA SaveHolds == ASSUME IInv, Save PROVE IInv'
<1> DEFINE s == [form |-> cells, stage |-> "sent", chosen |-> chosen]
<1>1. s \in Saves
  BY DEF IInv, TypeOK, Save, Saves
<1>2. asked' = Append(asked, s) /\ asked \in Seq(Saves)
  BY DEF Save, IInv, TypeOK
<1>3. asked' \in Seq(Saves)
  BY <1>1, <1>2
<1>4. TypeOK'
  BY <1>3 DEF IInv, TypeOK, Save
<1>5. ASSUME Undisturbed'
      PROVE  /\ Len(asked) = 0
             /\ Len(asked') = 1 /\ \A i \in 1..Len(asked') : asked'[i] = s
  <2>1. asked = <<>> /\ Len(asked) = 0
    BY <1>5 DEF Save, Undisturbed
  <2>2. asked' = <<s>>
    BY <1>2, <2>1
  <2> QED
    BY <2>1, <2>2
<1>6. waits' => waits
  BY DEF Save, IInv, TypeOK
<1>7. InputsKept' /\ StoredKept' /\ NoneBlank'
  BY <1>5, <1>6 DEF IInv, InputsKept, StoredKept, NoneBlank, Save
<1>8. RowKept' /\ StatusKept'
  BY <1>5, <1>6 DEF IInv, RowKept, StatusKept, Save, Undisturbed
<1> QED
  BY <1>4, <1>7, <1>8 DEF IInv

-----------------------------------------------------------------------------
\* The server takes a save to another stage.
LEMMA StageFields ==
    ASSUME TypeOK, NEW i \in 1..Len(asked), NEW st \in {"sent", "stored", "refused"},
           asked' = [asked EXCEPT ![i].stage = st]
    PROVE  /\ asked' \in Seq(Saves) /\ Len(asked') = Len(asked)
           /\ \A k \in 1..Len(asked) :
                 /\ asked'[k].form = asked[k].form /\ asked'[k].chosen = asked[k].chosen
                 /\ asked'[k].stage = IF k = i THEN st ELSE asked[k].stage
<1>1. asked \in Seq(Saves) /\ \A k \in 1..Len(asked) : asked[k] \in Saves
  BY DEF TypeOK
<1>2. [asked[i] EXCEPT !.stage = st] \in Saves
  BY <1>1 DEF Saves
<1>3. asked' = [asked EXCEPT ![i] = [asked[i] EXCEPT !.stage = st]]
  OBVIOUS
<1> QED
  BY <1>1, <1>2, <1>3 DEF Saves

LEMMA StoreHolds == ASSUME IInv, NEW i \in 1..Len(asked), Store(i) PROVE IInv'
<1>1. /\ asked' \in Seq(Saves) /\ Len(asked') = Len(asked)
      /\ \A k \in 1..Len(asked) :
            /\ asked'[k].form = asked[k].form /\ asked'[k].chosen = asked[k].chosen
            /\ asked'[k].stage = IF k = i THEN "stored" ELSE asked[k].stage
  BY StageFields DEF Store, IInv
<1>2. stored' \in Forms
  <2>1. asked[i] \in Saves
    BY DEF IInv, TypeOK
  <2> QED
    BY <2>1 DEF Store, Saves
<1>3. TypeOK'
  BY <1>1, <1>2 DEF Store, IInv, TypeOK, history
<1>4. InputsKept' /\ NoneBlank'
  BY <1>1 DEF InputsKept, NoneBlank, Store, IInv, history, Undisturbed
<1>5. Undisturbed => cells = stored' /\ asked'[i].stage = "stored"
  BY <1>1 DEF InputsKept, Store, IInv
<1>6. StoredKept' /\ RowKept' /\ StatusKept'
  BY <1>1, <1>5 DEF StoredKept, RowKept, StatusKept, Store, history, Undisturbed
<1> QED
  BY <1>3, <1>4, <1>6 DEF IInv

LEMMA RefuseHolds == ASSUME IInv, NEW i \in 1..Len(asked), Refuse(i) PROVE IInv'
<1>1. /\ asked' \in Seq(Saves) /\ Len(asked') = Len(asked)
      /\ \A k \in 1..Len(asked) :
            /\ asked'[k].form = asked[k].form /\ asked'[k].chosen = asked[k].chosen
            /\ asked'[k].stage = IF k = i THEN "refused" ELSE asked[k].stage
  BY StageFields DEF Refuse, IInv
<1>2. TypeOK'
  BY <1>1 DEF Refuse, IInv, TypeOK, history
<1>3. InputsKept' /\ NoneBlank' /\ StatusKept'
  BY <1>1 DEF InputsKept, NoneBlank, StatusKept, Refuse, IInv, history, Undisturbed
<1>4. asked[i].stage # "stored"
  BY DEF Refuse
<1>5. \A k \in 1..Len(asked) : (asked'[k].stage = "stored") <=> (asked[k].stage = "stored")
  BY <1>1, <1>4
<1>6. StoredKept' /\ RowKept'
  BY <1>1, <1>5 DEF StoredKept, RowKept, Refuse, IInv, history, Undisturbed
<1> QED
  BY <1>2, <1>3, <1>6 DEF IInv

-----------------------------------------------------------------------------
LEMMA AnsweredHolds == ASSUME IInv, NEW i \in 1..Len(asked), Answered(i) PROVE IInv'
<1>1. SavedTexts(cells) \in Texts /\ (editing => SavedTexts(cells) = cells)
  BY DEF SavedTexts, IInv, TypeOK, Texts
<1>2. asked' \in Seq(Saves) /\ (Len(asked) <= 1 => Len(asked') = 0)
  BY RemoveOnly DEF Answered, IInv
<1>3. TypeOK'
  BY <1>1, <1>2 DEF Answered, IInv, TypeOK
<1>4. Undisturbed => Len(asked') = 0 /\ editing /\ cells = stored /\ cells.status # Blank
  <2>1. Undisturbed => editing /\ cells = stored
    BY DEF Answered, IInv, InputsKept, StoredKept
  <2>2. editing => cells.status # Blank
    BY FormTexts DEF IInv, TypeOK
  <2> QED
    BY <1>2, <2>1, <2>2 DEF IInv, InputsKept
<1>5. Undisturbed' => Undisturbed
  BY DEF Answered, Undisturbed
<1>6. InputsKept' /\ StoredKept' /\ NoneBlank'
  BY <1>1, <1>4, <1>5 DEF InputsKept, StoredKept, NoneBlank, Answered, Undisturbed
<1>7. RowKept' /\ StatusKept'
  BY <1>1, <1>4, <1>5 DEF RowKept, StatusKept, Answered, Undisturbed
<1> QED
  BY <1>3, <1>6, <1>7 DEF IInv

LEMMA AnsweredRefusedHolds ==
    ASSUME IInv, NEW i \in 1..Len(asked), AnsweredRefused(i)
    PROVE  IInv'
<1>1. asked' \in Seq(Saves) /\ (Len(asked) <= 1 => Len(asked') = 0)
  BY RemoveOnly DEF AnsweredRefused, IInv
<1>2. TypeOK'
  BY <1>1 DEF AnsweredRefused, IInv, TypeOK, history
<1>3. Undisturbed => Len(asked') = 0
  BY <1>1 DEF IInv, InputsKept
<1>4. InputsKept' /\ StoredKept' /\ NoneBlank' /\ StatusKept'
  BY <1>3 DEF IInv, InputsKept, StoredKept, NoneBlank, StatusKept, AnsweredRefused, history, Undisturbed
<1>5. waits => \A k \in 1..Len(asked) : asked[k].stage # "stored"
  <2> SUFFICES ASSUME waits, NEW k \in 1..Len(asked) PROVE asked[k].stage # "stored"
    OBVIOUS
  <2>1. PICK n \in Nat : n = Len(asked)
    BY DEF IInv, TypeOK
  <2>2. n <= 1
    BY <2>1 DEF IInv, InputsKept, Undisturbed
  <2>3. k = i
    BY <2>1, <2>2
  <2> QED
    BY <2>3 DEF AnsweredRefused
<1>6. RowKept'
  BY <1>5 DEF RowKept, IInv, AnsweredRefused, history
<1> QED
  BY <1>2, <1>4, <1>6 DEF IInv

LEMMA LostHolds == ASSUME IInv, NEW i \in 1..Len(asked), Lost(i) PROVE IInv'
<1>1. asked' \in Seq(Saves) /\ (Len(asked) <= 1 => Len(asked') = 0)
  BY RemoveOnly DEF Lost, IInv
<1>2. TypeOK'
  BY <1>1 DEF Lost, IInv, TypeOK
<1>3. Undisturbed => Len(asked') = 0
  BY <1>1 DEF IInv, InputsKept
<1> QED
  BY <1>2, <1>3 DEF IInv, InputsKept, StoredKept, NoneBlank, RowKept, StatusKept, Lost, Undisturbed

-----------------------------------------------------------------------------
\* The invariant is inductive.
LEMMA Inductive == IInv /\ [Next]_vars => IInv'
<1> SUFFICES ASSUME IInv, [Next]_vars PROVE IInv'
  OBVIOUS
<1>1. CASE UNCHANGED vars
  BY <1>1 DEF vars, history, IInv, TypeOK, InputsKept, StoredKept, RowKept, StatusKept, NoneBlank, Undisturbed
<1>2. CASE Edit \/ Cancel \/ Save
  BY <1>2, EditHolds, CancelHolds, SaveHolds
<1>3. ASSUME NEW c \in Crons \cup {BadCron}, TypeCron(c) PROVE IInv'
  BY <1>3, TypeCronHolds
<1>4. ASSUME NEW s \in Statuses, ChooseStatus(s) PROVE IInv'
  BY <1>4, ChooseStatusHolds
<1>5. ASSUME NEW i \in 1..Len(asked),
             Store(i) \/ Refuse(i) \/ Answered(i) \/ AnsweredRefused(i) \/ Lost(i)
      PROVE  IInv'
  BY <1>5, StoreHolds, RefuseHolds, AnsweredHolds, AnsweredRefusedHolds, LostHolds
<1> QED
  BY <1>1, <1>2, <1>3, <1>4, <1>5 DEF Next

LEMMA Invariance == Spec => []IInv
BY InitHolds, Inductive, PTL DEF Spec

\* Every variable keeps its type: an open row can be posted whenever the user
\* likes (jwatcher.js, the click on .saveoper).
THEOREM TypeCorrect == Spec => []TypeOK
<1>1. IInv => TypeOK
  BY DEF IInv
<1> QED
  BY <1>1, Invariance, PTL

\* A user who leaves the row alone while it is saved reads the row as the
\* database has it, one who did not does after the next save that is left alone
\* (jwatcher.js, changeToCancel and replaceOrign).
THEOREM PageAlwaysTellsRow == Spec => []PageTellsRow
<1>1. IInv => PageTellsRow
  <2> SUFFICES ASSUME IInv, waits, asked = <<>>, ~lost
               PROVE  orign = stored /\ (~editing => cells = stored)
    BY DEF PageTellsRow
  <2>1. Len(asked) = 0
    OBVIOUS
  <2> QED
    BY <2>1 DEF IInv, RowKept
<1> QED
  BY <1>1, Invariance, PTL

\* Only a user's choice changes the status of a job (jwatcher.js,
\* changeToEditable and the click on .saveoper).
THEOREM StatusAlwaysChosen == Spec => []StatusChosen
<1>1. IInv => StatusChosen
  <2> SUFFICES ASSUME IInv, waits, ~lost,
                      NEW i \in 1..Len(asked), asked[i].stage = "sent", ~asked[i].chosen
               PROVE  asked[i].form.status = stored.status
    BY DEF StatusChosen
  <2>1. editing /\ asked[i].form = cells /\ ~chosen
    BY DEF IInv, InputsKept, Undisturbed
  <2> QED
    BY <2>1 DEF IInv, StatusKept
<1> QED
  BY <1>1, Invariance, PTL
=============================================================================
