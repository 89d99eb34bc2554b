------------------------------- MODULE Widgets -------------------------------
(***************************************************************************)
(* The charts of the detail and overview pages: Backbone views that poll   *)
(* the data interface with window.setInterval (views/base-widget-view.js)  *)
(* and the page's select, which replaces the chart in a placeholder by a   *)
(* new view (changeWidget in app/detail-app.js).                           *)
(*                                                                         *)
(* A handler runs to its end before the next, so a handler is one step;    *)
(* timers, clicks and answers come in any order.  Nothing stops a replaced *)
(* view from living on: its intervals, the requests it has sent and its    *)
(* click handlers, which jQuery delegates from the same placeholder.       *)
(***************************************************************************)
EXTENDS Integers, Sequences, SequencesExt

CONSTANTS
    Live,       \* the time frame of empty from and to inputs
    Spans,      \* the others
    Discipline, \* what the answers keep to, see DisciplineSet
    Faults,     \* what may go wrong, see FaultSet
    NoFrame,    \* a chart without data
    MaxViews,   \* bound: views the page creates in its placeholder
    MaxClicks   \* bound: clicks on the time controls

Frames == Spans \cup {Live}
Widgets == 1..MaxViews

\* "quick": an answer is back before the interval comes round again.
DisciplineSet == {"quick"}

\* "silent": an answer that triggers no "change": the request fails, or the
\* data interface catches an exception and answers {}, or the answer equals
\* the last one.
FaultSet == {"silent"}

ASSUME WidgetsAssumption ==
    /\ Live \notin Spans
    /\ NoFrame \notin Frames
    /\ Discipline \subseteq DisciplineSet
    /\ Faults \subseteq FaultSet
    /\ MaxViews \in Nat \ {0} /\ MaxClicks \in Nat

VARIABLES
    current,    \* the view the page's app object holds; the views before it
                \* are the ones it has replaced
    view,       \* view[w]: the state of view w, see Views
    inputs,     \* the from and to inputs in the placeholder
    custom,     \* are they visible?
    picked,     \* the time frame the user chose last (history)
    typed       \* have the inputs been typed in since? (history)

vars == <<current, view, inputs, custom, picked, typed>>

Views ==
    [timer : BOOLEAN,           \* does this.timer name a running interval?
     leaked : Nat,              \* running intervals that it does not name
     enable : BOOLEAN,          \* enableTimer
     asked : Seq(Frames),       \* requests without an answer, oldest first
     shown : Frames \cup {NoFrame},
     silent : BOOLEAN,          \* did the last answer trigger nothing? (history)
     crossed : BOOLEAN,         \* has an answer overtaken an older request's since
                                \* one went out with none under way? (history)
     clicks : Nat]              \* clicks it has seen (history)

\* init: the first interval.
Fresh ==
    [timer |-> TRUE, leaked |-> 0, enable |-> TRUE, asked |-> <<>>,
     shown |-> NoFrame, silent |-> FALSE, crossed |-> FALSE, clicks |-> 0]

Init ==
    /\ current = 1
    /\ view = [w \in Widgets |-> Fresh]
    /\ inputs = Live
    /\ custom = FALSE
    /\ picked = Live
    /\ typed = FALSE

made == 1..current

\* this.timer = setInterval(...): an interval it named runs on without a name.
SetTimer(v) ==
    [v EXCEPT !.timer = TRUE, !.leaked = IF v.timer THEN @ + 1 ELSE @]

\* Mutant: the interval is not cleared before the request.
UpdateModelKeepsTimer(v, frame, enable) ==
    [v EXCEPT !.enable = enable, !.asked = Append(@, frame),
              !.crossed = @ /\ v.asked # <<>>]

\* UpdateModel: clearInterval(this.timer), and the request.
UpdateModel(v, frame, enable) ==
    [v EXCEPT !.timer = FALSE, !.enable = enable, !.asked = Append(@, frame),
              !.crossed = @ /\ v.asked # <<>>]

-----------------------------------------------------------------------------
(* Time and the server *)

\* An interval of view w comes round, of the chart on the page or an old one.
\* Every view reads the inputs of the placeholder.
Tick(w) ==
    /\ w \in made
    /\ view[w].timer \/ view[w].leaked > 0
    /\ "quick" \in Discipline => view[w].asked = <<>>
    /\ view' = [view EXCEPT ![w] = UpdateModel(@, inputs, TRUE)]
    /\ UNCHANGED <<current, inputs, custom, picked, typed>>

\* The answer to the i-th request without one.
Take(v, i, silent) ==
    [v EXCEPT !.asked = RemoveAt(@, i), !.silent = silent,
              !.crossed = @ \/ i # 1]

\* Mutant: the next interval is not started.
ModelChangedOnce(v, frame) == [v EXCEPT !.shown = frame]

\* render, and the next interval unless the time frame is a fixed one.
ModelChanged(v, frame) ==
    LET rendered == [v EXCEPT !.shown = frame] IN
    IF v.enable THEN SetTimer(rendered) ELSE rendered

Answer(w, i) ==
    LET v == view[w] IN
    /\ w \in made
    /\ i \in 1..Len(v.asked)
    /\ view' = [view EXCEPT ![w] = ModelChanged(Take(v, i, FALSE), v.asked[i])]
    /\ UNCHANGED <<current, inputs, custom, picked, typed>>

\* No "change": nothing happens (error logs at most).
AnswerSilently(w, i) ==
    /\ "silent" \in Faults
    /\ w \in made
    /\ i \in 1..Len(view[w].asked)
    /\ view' = [view EXCEPT ![w] = Take(@, i, TRUE)]
    /\ UNCHANGED <<current, inputs, custom, picked, typed>>

-----------------------------------------------------------------------------
(* The user *)

\* A click reaches every view that has been created in the placeholder; clicked
\* is what the handler makes of each.
Click(clicked) ==
    /\ \A w \in made : view[w].clicks < MaxClicks
    /\ view' = [w \in Widgets |->
                  IF w \in made THEN [clicked[w] EXCEPT !.clicks = @ + 1]
                                ELSE view[w]]
    /\ UNCHANGED current

\* ChangeTimeFrame "realtime": a request, and an interval next to it.
RealTime ==
    /\ Click([w \in made |-> [SetTimer(UpdateModel(view[w], Live, TRUE))
                                 EXCEPT !.silent = FALSE]])
    /\ inputs' = Live /\ picked' = Live
    /\ custom' = FALSE /\ typed' = FALSE

\* Mutant: the request goes out before the inputs are set.
PickSpanLate(s) ==
    /\ Click([w \in made |-> UpdateModel(view[w], inputs, FALSE)])
    /\ inputs' = s /\ picked' = s
    /\ custom' = FALSE /\ typed' = FALSE

\* ChangeTimeFrame "minute" to "month": the inputs are set and read once.
PickSpan(s) ==
    /\ Click([w \in made |-> UpdateModel(view[w], s, FALSE)])
    /\ inputs' = s /\ picked' = s
    /\ custom' = FALSE /\ typed' = FALSE

\* ChangeTimeFrame "custom" shows the inputs,
Custom ==
    /\ ~custom
    /\ custom' = TRUE
    /\ UNCHANGED <<current, view, inputs, picked, typed>>

\* the user fills them in,
Type(frame) ==
    /\ custom
    /\ frame # inputs
    /\ inputs' = frame
    /\ typed' = TRUE
    /\ UNCHANGED <<current, view, custom, picked>>

\* and Go reads them once.
Go ==
    /\ custom
    /\ Click([w \in made |-> UpdateModel(view[w], inputs, FALSE)])
    /\ picked' = inputs
    /\ typed' = FALSE
    /\ UNCHANGED <<inputs, custom>>

\* Refresh, a button of the overview: one of the charts there, which are never
\* replaced.
Refresh ==
    /\ current = 1
    /\ Click([w \in made |-> UpdateModel(view[w], inputs, TRUE)])
    /\ picked' = inputs
    /\ typed' = FALSE
    /\ UNCHANGED <<inputs, custom>>

\* changeWidget: the named interval of the old view is cleared, the new view
\* renders its template with empty inputs.
ChangeWidget ==
    /\ current < MaxViews
    /\ current' = current + 1
    /\ view' = [view EXCEPT ![current].timer = FALSE]
    /\ inputs' = Live /\ picked' = Live
    /\ custom' = FALSE /\ typed' = FALSE

-----------------------------------------------------------------------------
Answered(w) == \E i \in 1..Len(view[w].asked) : Answer(w, i) \/ AnswerSilently(w, i)

User ==
    \/ RealTime \/ Custom \/ Go \/ Refresh \/ ChangeWidget
    \/ \E s \in Spans : PickSpan(s)
    \/ \E frame \in Frames : Type(frame)

Next == User \/ \E w \in Widgets : Tick(w) \/ Answered(w)

Spec == Init /\ [][Next]_vars

\* Intervals come round and requests end, by an answer or by an error; users owe
\* nothing.
FairSpec == Spec /\ \A w \in Widgets : WF_vars(Tick(w)) /\ WF_vars(Answered(w))

-----------------------------------------------------------------------------
(* Properties *)

TypeOK ==
    /\ current \in Widgets
    /\ view \in [Widgets -> Views]
    /\ inputs \in Frames /\ picked \in Frames
    /\ custom \in BOOLEAN /\ typed \in BOOLEAN

Intervals(v) == v.leaked + (IF v.timer THEN 1 ELSE 0)

(* setInterval overwrites this.timer while its interval may still run, and *)
(* a click on "realtime" starts one of its own: such intervals poll for    *)
(* ever.  While answers are quick they do not breed: a view has at most    *)
(* one interval and two more for each click it has seen (BaseWidget.       *)
(* ModelChanged, ChangeTimeFrame).  With slow ones there is no bound.      *)
PollersBounded ==
    "quick" \in Discipline =>
        \A w \in made : Intervals(view[w]) <= 1 + 2 * view[w].clicks

(* A view that nobody has clicked on has one interval or one request, not  *)
(* both: it never asks again before it has been answered, however slow the *)
(* answers are (UpdateModel clears the interval that ModelChanged starts). *)
OneAtATime ==
    \A w \in made :
        view[w].clicks = 0 => Intervals(view[w]) + Len(view[w].asked) <= 1

(* The chart shows the time frame that the user picked last, once its      *)
(* requests are answered (ChangeTimeFrame, Go; for a last answer that is   *)
(* not silent, and while nobody is typing in the inputs).  An answer that  *)
(* overtakes an older request's, which nothing in the code rules out, can  *)
(* leave an older frame on the chart, but no longer than until a request   *)
(* goes out with none under way: what was shown before does not matter.    *)
ShowsPicked ==
    LET v == view[current] IN
    v.asked = <<>> /\ ~v.silent /\ ~v.crossed /\ ~typed =>
        v.shown \in {picked, NoFrame}

(* As long as answers tell something new, the chart on the page has an     *)
(* interval or a request under way whenever its last request was one that  *)
(* keeps it refreshing, whatever has been clicked, in whatever order the   *)
(* answers came and however late (ModelChanged, UpdateModel).              *)
NeverStalls ==
    LET v == view[current] IN
    v.enable /\ ~v.silent => Intervals(v) > 0 \/ v.asked # <<>>

(* A view that nobody has clicked on does what Poller says: with intervals *)
(* and requests told apart, one of either at a time.                       *)
PhaseOf(v) ==
    LET load == <<Intervals(v), Len(v.asked)>> IN
    IF v.clicks > 0 THEN "steered"
    ELSE IF load = <<1, 0>> THEN "waiting"
    ELSE IF load = <<0, 1>> THEN "asking"
    ELSE IF load # <<0, 0>> THEN "overrun"
    ELSE IF v.silent THEN "silenced" ELSE "replaced"

phase == [w \in Widgets |-> PhaseOf(view[w])]

Pollers == INSTANCE Poller WITH Views <- Widgets, phase <- phase
PollerSpec == Pollers!Spec

(* A chart that refreshes itself goes on doing so, unless an answer that   *)
(* triggers no "change" has ended it (ModelChanged is the only place that  *)
(* starts the next interval).                                              *)
Refreshing(w) == w = current /\ view[w].enable

KeepsPolling ==
    \A w \in Widgets :
        Refreshing(w) ~> view[w].asked # <<>> \/ view[w].silent \/ ~Refreshing(w)

(* base-warningline-widget-view.js, base-info-widget-view.js: a chart that *)
(* refreshes itself does so "every 10 seconds".                            *)
AutoRefresh ==
    \A w \in Widgets : Refreshing(w) ~> view[w].asked # <<>> \/ ~Refreshing(w)
=============================================================================
