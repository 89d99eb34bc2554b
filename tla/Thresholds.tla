----------------------------- MODULE Thresholds -----------------------------
(***************************************************************************)
(* One threshold of one application: the settings page on which it is      *)
(* edited (appsetting-widget-view.js), the request that saves it           *)
(* (SystemThresholdService.saveParam) and the detection of CPU load that   *)
(* reads it.  saveParam counts the rows of the parameter and then inserts  *)
(* or updates, without a transaction, and the table has no key that keeps  *)
(* two rows of one parameter apart.                                        *)
(*                                                                         *)
(* The page posts asynchronously (jQuery ignores its option "asyn"), so    *)
(* one administrator alone can have many saves on the way.  The marks      *)
(* beside the buttons are left out: nothing reads them.                    *)
(***************************************************************************)
EXTENDS Naturals, Sequences, FiniteSets

CONSTANTS
    Admins,     \* open settings pages
    Values,     \* numbers that may be entered
    Default,    \* the threshold of an application without a row
    Empty,      \* an input without text
    Broken,     \* the outcome of a query for one row that finds several
    Requests    \* bound: saves at work at the same time

ASSUME ThresholdsAssumption ==
    /\ Empty \notin Values /\ Broken \notin Values \cup {Default}
    /\ IsFiniteSet(Requests)

VARIABLES
    rows,       \* the values of the parameter's rows, in the order of insertion
    inputs,     \* the inputs of each page, one for each row it was rendered with
    save,       \* what each request is at
    peak,       \* most saves that were at work at once, and 1 at least (history)
    last        \* what was last saved, as it was typed (history)

vars == <<rows, inputs, save, peak, last>>

Stages == {"none", "sent", "absent", "present"}

\* The value that is posted, and what is typed beside the button (history).
Saves == [stage : Stages, value : Values \cup {Empty}, typed : Values \cup {Empty}]

NoSave == [stage |-> "none", value |-> Empty, typed |-> Empty]

\* selectParamtersByAppid joins the parameters that exist for all applications
\* with the rows of one: a parameter without a row has one input.
Rendered == IF rows = <<>> THEN <<Empty>> ELSE rows

Init ==
    /\ rows \in {<<>>} \cup {<<v>> : v \in Values}
    /\ inputs = [a \in Admins |-> Rendered]
    /\ save = [r \in Requests |-> NoSave]
    /\ peak = 1
    /\ last = IF rows = <<>> THEN Default ELSE rows[1]

At(stages) == {r \in Requests : save[r].stage \in stages}
AtWork == At({"sent", "absent", "present"})

-----------------------------------------------------------------------------
(* The page *)

\* Mutant: only the parameters that have a row are joined.
LoadInner(a) ==
    /\ inputs' = [inputs EXCEPT ![a] = rows]
    /\ UNCHANGED <<rows, save, peak, last>>

\* The query button; render.
Load(a) ==
    /\ inputs' = [inputs EXCEPT ![a] = Rendered]
    /\ UNCHANGED <<rows, save, peak, last>>

Type(a, k, v) ==
    /\ k \in 1..Len(inputs[a])
    /\ inputs' = [inputs EXCEPT ![a][k] = v]
    /\ UNCHANGED <<rows, save, peak, last>>

\* saveparam of the k-th button.  The inputs of a parameter share their id, so
\* whichever button is pressed the first input is read; it must not be empty.
Click(a, k, r) ==
    /\ k \in 1..Len(inputs[a])
    /\ inputs[a][1] # Empty
    /\ save[r].stage = "none"
    /\ save' = [save EXCEPT ![r] =
                   [stage |-> "sent", value |-> inputs[a][1], typed |-> inputs[a][k]]]
    /\ peak' = IF Cardinality(AtWork) + 1 > peak THEN Cardinality(AtWork) + 1 ELSE peak
    /\ UNCHANGED <<rows, inputs, last>>

-----------------------------------------------------------------------------
(* saveParam, statement by statement *)

\* Mutant: one row is not yet a row.
CountMoreThanOne(r) ==
    /\ save[r].stage = "sent"
    /\ save' = [save EXCEPT ![r].stage = IF Len(rows) > 1 THEN "present" ELSE "absent"]
    /\ UNCHANGED <<rows, inputs, peak, last>>

\* isParamExsit: getParamCount
Count(r) ==
    /\ save[r].stage = "sent"
    /\ save' = [save EXCEPT ![r].stage = IF Len(rows) > 0 THEN "present" ELSE "absent"]
    /\ UNCHANGED <<rows, inputs, peak, last>>

\* Mutant: the update finds no row, its condition names another parameter.
UpdateNone(r) ==
    /\ save[r].stage = "present"
    /\ rows' = rows
    /\ last' = save[r].typed
    /\ save' = [save EXCEPT ![r] = NoSave]
    /\ UNCHANGED <<inputs, peak>>

\* updateParamValueByKey: all rows of the parameter.
Update(r) ==
    /\ save[r].stage = "present"
    /\ rows' = [k \in DOMAIN rows |-> save[r].value]
    /\ last' = save[r].typed
    /\ save' = [save EXCEPT ![r] = NoSave]
    /\ UNCHANGED <<inputs, peak>>

\* insertParam
Insert(r) ==
    /\ save[r].stage = "absent"
    /\ rows' = Append(rows, save[r].value)
    /\ last' = save[r].typed
    /\ save' = [save EXCEPT ![r] = NoSave]
    /\ UNCHANGED <<inputs, peak>>

\* The request or one of its statements fails; saveParam of EventController
\* catches it, and nothing was written.
Fail(r) ==
    /\ save[r].stage # "none"
    /\ save' = [save EXCEPT ![r] = NoSave]
    /\ UNCHANGED <<rows, inputs, peak, last>>

-----------------------------------------------------------------------------
Next ==
    \/ \E a \in Admins :
          \/ Load(a)
          \/ \E k \in 1..Len(inputs[a]) :
                \/ \E v \in Values : Type(a, k, v)
                \/ \E r \in Requests : Click(a, k, r)
    \/ \E r \in Requests : Count(r) \/ Update(r) \/ Insert(r) \/ Fail(r)

Spec == Init /\ [][Next]_vars

-----------------------------------------------------------------------------
(* Properties *)

TypeOK ==
    /\ rows \in Seq(Values)
    /\ inputs \in [Admins -> Seq(Values \cup {Empty})]
    /\ \A a \in Admins : Len(inputs[a]) > 0
    /\ save \in [Requests -> Saves]
    /\ \A r \in Requests : save[r].stage # "none" => save[r].value # Empty
    /\ peak \in Nat
    /\ last \in Values \cup {Default, Empty}

(* Saves multiply the rows of a parameter only while they overlap: there   *)
(* are never more rows than saves were at work at once, however many       *)
(* follow (SystemThresholdService.saveParam).                              *)
RowsBounded == Len(rows) <= peak

\* getCpuUsageThreshold: a query for one value, which throws when it finds several.
\* CpuUsageDetectionJob does not catch it and stores no sample.
CpuUsageThreshold ==
    CASE Len(rows) = 0 -> Default
      [] Len(rows) = 1 -> rows[1]
      [] OTHER -> Broken

(* As long as a parameter has no second row, the detection of CPU load can *)
(* read its threshold, and it is what was last saved, as it was typed      *)
(* beside the button that was pressed, or the default when nothing was:    *)
(* however the saves overlap, fail or come from pages that were rendered   *)
(* before the row was there.  (Two rows break the query; and on a page that *)
(* was rendered with two rows the second's button saves what the first's   *)
(* input holds.)                                                           *)
SavedIsUsed == Len(rows) <= 1 => CpuUsageThreshold = last
=============================================================================
