------------------------------- MODULE JobPage -------------------------------
(***************************************************************************)
(* A row of the job page (jwatcher.js): its cells become inputs, the save  *)
(* button posts them, and the handler of the answer turns them into text   *)
(* again.  The call is asynchronous (jQuery ignores the option "asyn"), so *)
(* the user may go on before the answer is there.                          *)
(*                                                                         *)
(* Of the cells, one text (the cron expression) and one select (the status)*)
(* stand for all.  What the server does with a save is in JobControl; here *)
(* it stores the form or refuses it.                                       *)
(***************************************************************************)
EXTENDS Naturals, Sequences, SequencesExt

CONSTANTS
    Crons,      \* expressions the server accepts
    BadCron,    \* one it refuses, the empty one for instance
    Statuses,   \* the options of the select
    First,      \* the one that a browser shows when none is selected
    Blank,      \* a cell of a select without text
    Faults,     \* what may go wrong, see FaultSet
    MaxSaves,   \* bound: saves
    MaxEdits    \* bound: times the row is opened for editing

\* "refused": the server answers without success and has stored nothing;
\* "lost": the request or its answer is lost, error is called.
FaultSet == {"refused", "lost"}

ASSUME JobPageAssumption ==
    /\ BadCron \notin Crons
    /\ First \in Statuses /\ Blank \notin Statuses
    /\ Faults \subseteq FaultSet
    /\ MaxSaves \in Nat /\ MaxEdits \in Nat

VARIABLES
    stored,     \* the row in the database
    cells,      \* what the cells say, or their inputs hold
    orign,      \* the attribute orign of the cells: what cancel restores
    editing,    \* are the cells inputs? (class canceledit of the first button)
    asked,      \* saves without an answer, see Saves
    waits,      \* has the user left the row alone while it was saved, since a
                \* save that was left alone succeeded? (history)
    alone,      \* is the last save the only one under way, and the row as it was
                \* when it was sent? (history)
    lost,       \* has a save been lost since the last that succeeded? (history)
    chosen,     \* has the user chosen a status since the row was opened? (history)
    saves, edits    \* (history)

history == <<waits, alone, lost, chosen, saves, edits>>
vars == <<stored, cells, orign, editing, asked, history>>

Forms == [cron : Crons \cup {BadCron}, status : Statuses]
Texts == [cron : Crons \cup {BadCron}, status : Statuses \cup {Blank}]

Saves ==
    [form : Forms,
     stage : {"sent", "stored", "refused"},
     chosen : BOOLEAN]      \* chosen when it was sent (history)

Init ==
    /\ stored \in [cron : Crons, status : Statuses]
    /\ cells = stored
    /\ orign = stored
    /\ editing = FALSE
    /\ asked = <<>>
    /\ waits = TRUE /\ alone = FALSE /\ lost = FALSE /\ chosen = FALSE
    /\ saves = 0 /\ edits = 0

\* The user touches the row.
Touch ==
    /\ waits' = (waits /\ asked = <<>>)
    /\ alone' = FALSE

-----------------------------------------------------------------------------
(* The user *)

\* Mutant: the text of the cell is compared with its spaces, no option is selected.
EditUntrimmed ==
    /\ ~editing
    /\ edits < MaxEdits
    /\ edits' = edits + 1
    /\ editing' = TRUE
    /\ cells' = [cells EXCEPT !.status = First]
    /\ chosen' = FALSE
    /\ Touch
    /\ UNCHANGED <<stored, orign, asked, lost, saves>>

\* changeToEditable: a select without text shows its first option.
Edit ==
    /\ ~editing
    /\ edits < MaxEdits
    /\ edits' = edits + 1
    /\ editing' = TRUE
    /\ cells' = IF cells.status = Blank THEN [cells EXCEPT !.status = First] ELSE cells
    /\ chosen' = FALSE
    /\ Touch
    /\ UNCHANGED <<stored, orign, asked, lost, saves>>

TypeCron(c) ==
    /\ editing
    /\ c # cells.cron
    /\ cells' = [cells EXCEPT !.cron = c]
    /\ Touch
    /\ UNCHANGED <<stored, orign, editing, asked, lost, chosen, saves, edits>>

ChooseStatus(s) ==
    /\ editing
    /\ s # cells.status
    /\ cells' = [cells EXCEPT !.status = s]
    /\ chosen' = TRUE
    /\ Touch
    /\ UNCHANGED <<stored, orign, editing, asked, lost, saves, edits>>

\* changeToCancel "cancel"
Cancel ==
    /\ editing
    /\ cells' = orign
    /\ editing' = FALSE
    /\ Touch
    /\ UNCHANGED <<stored, orign, asked, lost, chosen, saves, edits>>

\* The click on .saveoper.
Save ==
    /\ editing
    /\ saves < MaxSaves
    /\ saves' = saves + 1
    /\ asked' = Append(asked, [form |-> cells, stage |-> "sent", chosen |-> chosen])
    /\ waits' = (waits /\ asked = <<>>)
    /\ alone' = (asked = <<>>)
    /\ UNCHANGED <<stored, cells, orign, editing, lost, chosen, edits>>

-----------------------------------------------------------------------------
(* The server *)

\* saveJob succeeds.
Store(i) ==
    /\ asked[i].stage = "sent"
    /\ asked[i].form.cron # BadCron
    /\ stored' = asked[i].form
    /\ asked' = [asked EXCEPT ![i].stage = "stored"]
    /\ UNCHANGED <<cells, orign, editing, history>>

\* saveJob names an error: a cron expression that cannot be parsed, or the
\* scheduler or the database has thrown, before the row was changed.
Refuse(i) ==
    /\ asked[i].stage = "sent"
    /\ asked[i].form.cron = BadCron \/ "refused" \in Faults
    /\ asked' = [asked EXCEPT ![i].stage = "refused"]
    /\ UNCHANGED <<stored, cells, orign, editing, history>>

-----------------------------------------------------------------------------
(* The answers *)

\* Mutant: a cell without an input is set to the text "undefined".
SavedTextsNull(texts) == IF editing THEN texts ELSE [texts EXCEPT !.cron = Blank]

\* changeToCancel "save": an input becomes the text it holds now; in a cell that
\* is text already, a select's is emptied and another is left as it is.
SavedTexts(texts) == IF editing THEN texts ELSE [texts EXCEPT !.status = Blank]

\* Mutant: orign is not replaced.
AnsweredKeepsOrign(i) ==
    /\ asked[i].stage = "stored"
    /\ cells' = SavedTexts(cells)
    /\ orign' = orign
    /\ editing' = FALSE
    /\ lost' = FALSE
    /\ waits' = (waits \/ alone)
    /\ asked' = RemoveAt(asked, i)
    /\ UNCHANGED <<stored, alone, chosen, saves, edits>>

\* success: the row is text again, and replaceOrign.
Answered(i) ==
    /\ asked[i].stage = "stored"
    /\ cells' = SavedTexts(cells)
    /\ orign' = SavedTexts(cells)
    /\ editing' = FALSE
    /\ lost' = FALSE
    /\ waits' = (waits \/ alone)
    /\ asked' = RemoveAt(asked, i)
    /\ UNCHANGED <<stored, alone, chosen, saves, edits>>

\* An alert; the row stays as it is.
AnsweredRefused(i) ==
    /\ asked[i].stage = "refused"
    /\ asked' = RemoveAt(asked, i)
    /\ UNCHANGED <<stored, cells, orign, editing, history>>

\* error: an alert, whether the row has been stored or not.
Lost(i) ==
    /\ "lost" \in Faults
    /\ asked' = RemoveAt(asked, i)
    /\ lost' = TRUE
    /\ UNCHANGED <<stored, cells, orign, editing, waits, alone, chosen, saves, edits>>

-----------------------------------------------------------------------------
Next ==
    \/ Edit \/ Cancel \/ Save
    \/ \E c \in Crons \cup {BadCron} : TypeCron(c)
    \/ \E s \in Statuses : ChooseStatus(s)
    \/ \E i \in 1..Len(asked) :
          Store(i) \/ Refuse(i) \/ Answered(i) \/ AnsweredRefused(i) \/ Lost(i)

Spec == Init /\ [][Next]_vars

-----------------------------------------------------------------------------
(* Properties *)

TypeOK ==
    /\ stored \in Forms
    /\ cells \in Texts /\ orign \in Texts
    /\ editing => cells \in Forms
    /\ editing \in BOOLEAN
    /\ asked \in Seq(Saves)
    /\ waits \in BOOLEAN /\ alone \in BOOLEAN /\ lost \in BOOLEAN /\ chosen \in BOOLEAN
    /\ saves \in Nat /\ edits \in Nat

(* The page tells the row: what its cells say, and what cancel would put   *)
(* back, is what the database holds (jwatcher.js changeToCancel and        *)
(* replaceOrign take the inputs of the moment of the answer, not the form  *)
(* that was sent: a user who touches the row while it is saved may make    *)
(* them differ, until a save that is left alone succeeds; a lost one also, *)
(* until the next one that succeeds).                                      *)
PageTellsRow ==
    waits /\ asked = <<>> /\ ~lost =>
        orign = stored /\ (~editing => cells = stored)

(* A save changes the status of a job only when the user has chosen one.   *)
(* (An answer to a row that was cancelled meanwhile empties the cell of    *)
(* the status; the next save would send the first option, and with it the  *)
(* page and the row agree again.)                                          *)
StatusChosen ==
    waits /\ ~lost =>
        \A i \in 1..Len(asked) :
            asked[i].stage = "sent" /\ ~asked[i].chosen =>
                asked[i].form.status = stored.status
=============================================================================
