---------------------------- MODULE WidgetsProofs ----------------------------
(***************************************************************************)
(* Theorems about Widgets, for any time frames and any number of views and *)
(* clicks.                                                                 *)
(***************************************************************************)
EXTENDS Widgets, SequenceTheorems, TLAPS

-----------------------------------------------------------------------------
(* Requests in order *)

LEMMA RemoveAtType ==
    ASSUME NEW S, NEW s \in Seq(S), NEW i \in 1..Len(s)
    PROVE  RemoveAt(s, i) \in Seq(S) /\ Len(RemoveAt(s, i)) = Len(s) - 1
<1> DEFINE a == SubSeq(s, 1, i - 1)
           b == SubSeq(s, i + 1, Len(s))
<1>1. a \in Seq(S) /\ Len(a) = i - 1
  OBVIOUS
<1>2. b \in Seq(S) /\ Len(b) = Len(s) - i
  OBVIOUS
<1>3. RemoveAt(s, i) = a \o b
  BY DEF RemoveAt
<1>4. a \o b \in Seq(S) /\ Len(a \o b) = Len(a) + Len(b)
  <2> HIDE DEF a, b
  <2> QED BY <1>1, <1>2, ConcatProperties, Zenon
<1> HIDE DEF a, b
<1> QED BY <1>1, <1>2, <1>3, <1>4

\* The oldest request is answered: the newest stays the newest.
LEMMA RemoveFirst1 ==
    ASSUME NEW S, NEW s \in Seq(S), 1 \in 1..Len(s), Len(s) # 1
    PROVE  LET r == RemoveAt(s, 1) IN r[Len(r)] = s[Len(s)]
<1> DEFINE b == SubSeq(s, 2, Len(s))
<1>1. b \in Seq(S) /\ Len(b) = Len(s) - 1 /\ b[Len(s) - 1] = s[Len(s)]
  <2>1. \A j \in 1..(Len(s) - 1) : b[j] = s[j + 1]
    OBVIOUS
  <2>2. Len(s) - 1 \in 1..(Len(s) - 1) /\ Len(s) - 1 + 1 = Len(s)
    <3>1. ASSUME NEW n \in Nat, n >= 1, n # 1
          PROVE  n - 1 \in 1..(n - 1) /\ n - 1 + 1 = n
      BY <3>1
    <3>2. Len(s) \in Nat /\ Len(s) >= 1 /\ Len(s) # 1
      OBVIOUS
    <3> QED BY <3>1, <3>2
  <2>3. b \in Seq(S) /\ Len(b) = Len(s) - 1
    OBVIOUS
  <2> HIDE DEF b
  <2> QED BY <2>1, <2>2, <2>3
<1>2. SubSeq(s, 1, 1 - 1) = <<>>
  OBVIOUS
<1>3. RemoveAt(s, 1) = <<>> \o b
  BY <1>2 DEF RemoveAt
<1>4. <<>> \o b = b
  <2> HIDE DEF b
  <2> QED BY <1>1, ConcatEmptySeq
<1> QED BY <1>1, <1>3, <1>4

-----------------------------------------------------------------------------
(* What the handlers do to a view *)

LEMMA ViewFields ==
    ASSUME NEW v \in Views
    PROVE  /\ v.timer \in BOOLEAN /\ v.leaked \in Nat /\ v.enable \in BOOLEAN
           /\ v.asked \in Seq(Frames) /\ Len(v.asked) \in Nat
           /\ v.shown \in Frames \cup {NoFrame} /\ v.silent \in BOOLEAN
           /\ v.crossed \in BOOLEAN /\ v.clicks \in Nat
BY DEF Views

LEMMA UpdateModelFields ==
    ASSUME NEW v \in Views, NEW frame \in Frames, NEW enable \in BOOLEAN
    PROVE  LET u == UpdateModel(v, frame, enable) IN
           /\ u \in Views /\ u.timer = FALSE /\ u.leaked = v.leaked
           /\ Len(u.asked) = Len(v.asked) + 1
           /\ u.asked[Len(u.asked)] = frame
           /\ u.shown = v.shown /\ u.silent = v.silent /\ u.clicks = v.clicks
<1>1. /\ Append(v.asked, frame) \in Seq(Frames)
      /\ Len(Append(v.asked, frame)) = Len(v.asked) + 1
      /\ Append(v.asked, frame)[Len(v.asked) + 1] = frame
  BY ViewFields, AppendProperties
<1> QED BY <1>1 DEF UpdateModel, Views

LEMMA SetTimerFields ==
    ASSUME NEW v \in Views
    PROVE  LET u == SetTimer(v) IN
           /\ u \in Views /\ u.timer = TRUE
           /\ u.leaked = IF v.timer THEN v.leaked + 1 ELSE v.leaked
           /\ u.asked = v.asked /\ u.crossed = v.crossed
           /\ u.shown = v.shown /\ u.silent = v.silent /\ u.clicks = v.clicks
<1>1. PICK n \in Nat : n = IF v.timer THEN v.leaked + 1 ELSE v.leaked
  BY ViewFields
<1>2. SetTimer(v) = [v EXCEPT !.timer = TRUE, !.leaked = n]
  BY <1>1 DEF SetTimer, Views
<1> QED BY <1>1, <1>2 DEF Views

LEMMA TakeFields ==
    ASSUME NEW v \in Views, NEW i \in 1..Len(v.asked), NEW silent \in BOOLEAN
    PROVE  LET u == Take(v, i, silent) IN
           /\ u \in Views /\ u.timer = v.timer /\ u.leaked = v.leaked
           /\ u.asked = RemoveAt(v.asked, i) /\ u.crossed = (v.crossed \/ i # 1)
           /\ Len(u.asked) = Len(v.asked) - 1
           /\ u.shown = v.shown /\ u.silent = silent /\ u.clicks = v.clicks
<1>1. RemoveAt(v.asked, i) \in Seq(Frames) /\ Len(RemoveAt(v.asked, i)) = Len(v.asked) - 1
  BY ViewFields, RemoveAtType
<1> QED BY <1>1 DEF Take, Views

LEMMA ModelChangedFields ==
    ASSUME NEW v \in Views, NEW frame \in Frames
    PROVE  LET u == ModelChanged(v, frame) IN
           /\ u \in Views /\ u.shown = frame /\ u.asked = v.asked
           /\ u.crossed = v.crossed
           /\ u.silent = v.silent /\ u.clicks = v.clicks
           /\ \/ u.timer = v.timer /\ u.leaked = v.leaked
              \/ u.timer = TRUE /\ u.leaked = IF v.timer THEN v.leaked + 1 ELSE v.leaked
<1> DEFINE r == [v EXCEPT !.shown = frame]
<1>1. /\ r \in Views /\ r.shown = frame /\ r.asked = v.asked /\ r.timer = v.timer
      /\ r.leaked = v.leaked /\ r.silent = v.silent /\ r.clicks = v.clicks
      /\ r.crossed = v.crossed
  BY DEF Views
<1>2. ModelChanged(v, frame) = IF v.enable THEN SetTimer(r) ELSE r
  BY DEF ModelChanged
<1>3. /\ SetTimer(r) \in Views /\ SetTimer(r).timer = TRUE
      /\ SetTimer(r).leaked = IF v.timer THEN v.leaked + 1 ELSE v.leaked
      /\ SetTimer(r).asked = v.asked /\ SetTimer(r).shown = frame
      /\ SetTimer(r).silent = v.silent /\ SetTimer(r).clicks = v.clicks
      /\ SetTimer(r).crossed = v.crossed
  <2> HIDE DEF r
  <2>1. (IF r.timer THEN r.leaked + 1 ELSE r.leaked) = IF v.timer THEN v.leaked + 1 ELSE v.leaked
    BY <1>1
  <2> QED BY <1>1, <2>1, SetTimerFields
<1> HIDE DEF r
<1>4. CASE v.enable
  BY <1>2, <1>3, <1>4
<1>5. CASE ~v.enable
  BY <1>1, <1>2, <1>5
<1> QED BY <1>4, <1>5

LEMMA FrameFacts == Live \in Frames /\ Spans \subseteq Frames
BY DEF Frames

LEMMA FreshFields ==
    /\ Fresh \in Views /\ Fresh.timer = TRUE /\ Fresh.leaked = 0
    /\ Fresh.asked = <<>> /\ Fresh.shown = NoFrame /\ Fresh.clicks = 0
BY DEF Fresh, Views

-----------------------------------------------------------------------------
(* The inductive invariant *)

\* Intervals and requests of a view together, by the clicks it has seen.
Bounded(v) ==
    /\ v.clicks = 0 => v.leaked = 0 /\ Intervals(v) + Len(v.asked) <= 1
    /\ "quick" \in Discipline =>
          /\ v.leaked <= 2 * v.clicks
          /\ Intervals(v) + Len(v.asked) <= 2 * v.clicks + 1

\* The newest request is for the frame that the user picked last, or, unless an
\* answer has overtaken another, that frame is shown.
Follows(v, frame) ==
    IF v.asked # <<>>
    THEN v.crossed \/ v.asked[Len(v.asked)] = frame
    ELSE v.crossed \/ v.silent \/ v.shown \in {frame, NoFrame}

Inv ==
    /\ TypeOK
    /\ \A w \in Widgets : Bounded(view[w])
    /\ \A w \in Widgets : w > current => view[w] = Fresh
    /\ ~typed => inputs = picked
    /\ ~typed => Follows(view[current], picked)

LEMMA InvInit == Init => Inv
<1> SUFFICES ASSUME Init PROVE Inv
  OBVIOUS
<1>1. 1 \in Widgets /\ \A w \in Widgets : view[w] = Fresh
  BY WidgetsAssumption DEF Init, Widgets
<1>2. Bounded(Fresh) /\ Follows(Fresh, Live)
  BY FreshFields DEF Bounded, Intervals, Follows
<1>3. TypeOK
  BY <1>1, FreshFields, FrameFacts DEF Init, TypeOK
<1> QED BY <1>1, <1>2, <1>3 DEF Inv, Init

LEMMA InvTick ==
    ASSUME Inv, NEW w \in Widgets, Tick(w)
    PROVE  Inv'
<1> DEFINE v == view[w]
           u == UpdateModel(v, inputs, TRUE)
<1>1. /\ v \in Views /\ inputs \in Frames /\ w <= current
      /\ UNCHANGED <<current, inputs, custom, picked, typed>>
      /\ view' = [view EXCEPT ![w] = u]
  BY DEF Inv, TypeOK, Tick, made
<1>2. /\ u \in Views /\ u.timer = FALSE /\ u.leaked = v.leaked
      /\ Len(u.asked) = Len(v.asked) + 1 /\ u.asked[Len(u.asked)] = inputs
      /\ u.clicks = v.clicks
  <2> HIDE DEF v
  <2> QED BY <1>1, UpdateModelFields
<1>3. /\ v.timer \/ v.leaked > 0
      /\ "quick" \in Discipline => Len(v.asked) = 0
      /\ Bounded(v)
  BY DEF Tick, Inv
<1> HIDE DEF v, u
<1>4. Bounded(u)
  <2>1. /\ v.timer \in BOOLEAN /\ v.leaked \in Nat /\ v.clicks \in Nat
        /\ Len(v.asked) \in Nat
    BY <1>1, ViewFields
  <2>2. CASE v.timer
    BY <1>2, <1>3, <2>1, <2>2 DEF Bounded, Intervals
  <2>3. CASE ~v.timer
    <3>1. PICK leaked \in Nat, clicks \in Nat, n \in Nat :
             leaked = v.leaked /\ clicks = v.clicks /\ n = Len(v.asked)
      BY <2>1
    <3>2. leaked > 0 /\ Intervals(v) = leaked
      BY <1>3, <2>3, <3>1 DEF Intervals
    <3>3. clicks # 0 /\ ("quick" \in Discipline => n = 0 /\ leaked <= 2 * clicks)
      BY <1>3, <3>1, <3>2 DEF Bounded
    <3>4. Intervals(u) = leaked /\ Len(u.asked) = n + 1 /\ u.clicks = clicks /\ u.leaked = leaked
      BY <1>2, <3>1 DEF Intervals
    <3> QED BY <3>3, <3>4 DEF Bounded
  <2> QED BY <2>2, <2>3
<1>5. u.asked # <<>>
  BY <1>1, <1>2, ViewFields
<1>6. TypeOK'
  BY <1>1, <1>2 DEF Inv, TypeOK
<1> QED BY <1>1, <1>2, <1>4, <1>5, <1>6 DEF Inv, TypeOK, Follows, Widgets

\* One request less, and at most one interval more.
LEMMA AnswerArithmetic ==
    ASSUME NEW leaked \in Nat, NEW t \in Nat, NEW n \in Nat, NEW m \in Nat,
           NEW k \in Nat, NEW bound \in Nat,
           n >= 1, m <= leaked + t + 1, k <= leaked + t, leaked + t + n <= bound
    PROVE  m + (n - 1) <= bound /\ k + 1 <= bound
OBVIOUS

\* What an answer, with or without a "change", does to the invariant.
LEMMA AnsweredInv ==
    ASSUME Inv, NEW w \in Widgets, NEW i \in 1..Len(view[w].asked), w <= current,
           NEW u \in Views,
           view' = [view EXCEPT ![w] = u],
           UNCHANGED <<current, inputs, custom, picked, typed>>,
           u.asked = RemoveAt(view[w].asked, i), u.clicks = view[w].clicks,
           u.crossed = (view[w].crossed \/ i # 1),
           \/ /\ u.timer = view[w].timer /\ u.leaked = view[w].leaked
           \/ /\ u.timer = TRUE
              /\ u.leaked = IF view[w].timer THEN view[w].leaked + 1 ELSE view[w].leaked,
           u.silent \/ u.shown = view[w].asked[i]
    PROVE  Inv'
<1> DEFINE v == view[w]
<1>1. v \in Views /\ Bounded(v) /\ v.asked \in Seq(Frames)
  BY ViewFields DEF Inv, TypeOK
<1>2. u.asked \in Seq(Frames) /\ Len(u.asked) = Len(v.asked) - 1
  BY <1>1, RemoveAtType
<1>3. Bounded(u)
  <2>1. PICK leaked \in Nat, clicks \in Nat, n \in Nat :
           leaked = v.leaked /\ clicks = v.clicks /\ n = Len(v.asked) /\ n >= 1
    BY <1>1, ViewFields
  <2> HIDE DEF v
  <2>2. PICK t \in Nat : t = IF v.timer THEN 1 ELSE 0
    OBVIOUS
  <2>3. Intervals(v) = leaked + t
    BY <2>1, <2>2 DEF Intervals
  <2>4. /\ u.leaked = leaked \/ u.leaked = leaked + t
        /\ Intervals(u) <= leaked + t + 1
        /\ u.clicks = clicks /\ Len(u.asked) = n - 1
    <3>1. CASE u.timer = v.timer /\ u.leaked = v.leaked
      BY <1>2, <2>1, <2>2, <3>1 DEF Intervals, v
    <3>2. CASE /\ u.timer = TRUE
               /\ u.leaked = IF v.timer THEN v.leaked + 1 ELSE v.leaked
      BY <1>2, <2>1, <2>2, <3>2 DEF Intervals, v
    <3> QED BY <3>1, <3>2 DEF v
  <2>5. /\ clicks = 0 => leaked = 0 /\ leaked + t + n <= 1
        /\ "quick" \in Discipline =>
              leaked <= 2 * clicks /\ leaked + t + n <= 2 * clicks + 1
    BY <1>1, <2>1, <2>3 DEF Bounded
  <2>6. PICK m \in Nat : m = Intervals(u) /\ m <= leaked + t + 1
    <3>1. u.timer \in BOOLEAN /\ u.leaked \in Nat
      BY ViewFields
    <3>2. Intervals(u) \in Nat
      BY <3>1 DEF Intervals
    <3> QED BY <2>4, <3>2
  <2>7. PICK k \in Nat : k = u.leaked /\ k <= leaked + t
    BY <2>4, ViewFields
  <2>8. /\ clicks = 0 => k = 0 /\ m + (n - 1) <= 1
        /\ "quick" \in Discipline => k <= 2 * clicks /\ m + (n - 1) <= 2 * clicks + 1
    <3>1. CASE clicks = 0
      <4>0. PICK bound \in Nat : bound = 1 /\ leaked + t + n <= bound
        BY <2>5, <3>1
      <4>1. m + (n - 1) <= bound /\ k + 1 <= bound
        BY <2>1, <2>6, <2>7, <4>0, AnswerArithmetic, Zenon
      <4>2. k = 0 /\ k <= 2 * clicks /\ m + (n - 1) <= 1 /\ m + (n - 1) <= 2 * clicks + 1
        BY <3>1, <4>0, <4>1
      <4> QED BY <4>2
    <3>2. CASE "quick" \in Discipline
      <4>1. PICK bound \in Nat : bound = 2 * clicks + 1
        OBVIOUS
      <4>2. leaked + t + n <= bound
        BY <2>5, <3>2, <4>1
      <4>3. m + (n - 1) <= bound /\ k + 1 <= bound
        BY <2>1, <2>6, <2>7, <4>2, AnswerArithmetic
      <4>4. k <= 2 * clicks
        BY <4>1, <4>3
      <4>5. m + (n - 1) <= 2 * clicks + 1
        BY <4>1, <4>3
      <4>6. clicks = 0 => k = 0 /\ m + (n - 1) <= 1
        BY <4>4, <4>5
      <4> QED BY <4>4, <4>5, <4>6
    <3>3. CASE clicks # 0 /\ "quick" \notin Discipline
      BY <3>3
    <3> QED BY <3>1, <3>2, <3>3
  <2> QED BY <2>4, <2>6, <2>7, <2>8 DEF Bounded
<1>4. ASSUME ~typed, w = current, ~u.crossed
      PROVE  Follows(u, picked)
  <2>1. i = 1 /\ v.asked # <<>> /\ v.asked[Len(v.asked)] = picked
    <3>1. i = 1 /\ ~v.crossed
      BY <1>4
    <3>2. v.asked # <<>>
      BY <1>1, ViewFields
    <3>3. Follows(v, picked)
      BY <1>4 DEF Inv
    <3> QED BY <3>1, <3>2, <3>3 DEF Follows
  <2>2. CASE Len(v.asked) = 1
    <3>1. u.asked = <<>>
      BY <1>2, <2>2
    <3> QED BY <2>1, <2>2, <3>1 DEF Follows
  <2>3. CASE Len(v.asked) # 1
    <3>1. 1 \in 1..Len(v.asked)
      BY <2>1
    <3>2. u.asked[Len(u.asked)] = picked
      BY <1>1, <2>1, <2>3, <3>1, RemoveFirst1
    <3>3. u.asked # <<>>
      <4>0. Len(v.asked) \in Nat
        BY <1>1, ViewFields
      <4> HIDE DEF v
      <4>3. PICK n \in Nat : n = Len(v.asked)
        BY <4>0
      <4>1. n >= 1 /\ n # 1
        BY <2>3, <3>1, <4>3
      <4>2. Len(u.asked) = n - 1 /\ n - 1 # 0
        BY <1>2, <4>1, <4>3
      <4> QED BY <4>2
    <3> QED BY <3>2, <3>3 DEF Follows
  <2> QED BY <2>2, <2>3
<1>5. TypeOK'
  BY DEF Inv, TypeOK
<1>6. /\ \A x \in Widgets : view'[x] = IF x = w THEN u ELSE view[x]
      /\ current \in Widgets
  BY DEF Inv, TypeOK
<1>7. \A x \in Widgets : Bounded(view'[x])
  BY <1>3, <1>6 DEF Inv
<1>8. \A x \in Widgets : x > current' => view'[x] = Fresh
  BY <1>6 DEF Inv, Widgets
<1>9. ~typed' => Follows(view'[current'], picked')
  <2>1. CASE w = current
    <3>1. u.crossed => Follows(u, picked)
      BY DEF Follows
    <3> QED BY <1>4, <1>6, <2>1, <3>1
  <2>2. CASE w # current
    BY <1>6, <2>2 DEF Inv
  <2> QED BY <2>1, <2>2
<1> QED BY <1>5, <1>7, <1>8, <1>9 DEF Inv

LEMMA InvAnswered ==
    ASSUME Inv, NEW w \in Widgets, Answered(w)
    PROVE  Inv'
<1>1. PICK i \in 1..Len(view[w].asked) : Answer(w, i) \/ AnswerSilently(w, i)
  BY DEF Answered
<1>2. PICK v \in Views : v = view[w]
  BY DEF Inv, TypeOK
<1>3. v.asked \in Seq(Frames) /\ v.asked[i] \in Frames
  BY <1>1, <1>2, ViewFields
<1>4. w <= current
  <2>1. w \in made
    <3>1. CASE Answer(w, i)
      BY <3>1 DEF Answer
    <3>2. CASE AnswerSilently(w, i)
      BY <3>2 DEF AnswerSilently
    <3> QED BY <1>1, <3>1, <3>2
  <2> QED BY <2>1 DEF made, Inv, TypeOK, Widgets
<1>5. CASE Answer(w, i)
  <2> DEFINE t == Take(v, i, FALSE)
             u == ModelChanged(t, v.asked[i])
  <2>1. /\ t \in Views /\ t.timer = v.timer /\ t.leaked = v.leaked
        /\ t.asked = RemoveAt(v.asked, i) /\ t.clicks = v.clicks
        /\ t.crossed = (v.crossed \/ i # 1)
    BY <1>1, <1>2, TakeFields
  <2>2. /\ u \in Views /\ u.shown = v.asked[i] /\ u.asked = t.asked /\ u.clicks = t.clicks
        /\ u.crossed = t.crossed
        /\ \/ u.timer = t.timer /\ u.leaked = t.leaked
           \/ u.timer = TRUE /\ u.leaked = IF t.timer THEN t.leaked + 1 ELSE t.leaked
    <3> HIDE DEF t
    <3> QED BY <1>3, <2>1, ModelChangedFields
  <2>3. /\ view' = [view EXCEPT ![w] = u]
        /\ UNCHANGED <<current, inputs, custom, picked, typed>>
    BY <1>2, <1>5 DEF Answer
  <2> HIDE DEF t, u
  <2>4. \/ u.timer = v.timer /\ u.leaked = v.leaked
        \/ u.timer = TRUE /\ u.leaked = IF v.timer THEN v.leaked + 1 ELSE v.leaked
    BY <2>1, <2>2
  <2> QED BY <1>1, <1>2, <1>4, <2>1, <2>2, <2>3, <2>4, AnsweredInv
<1>6. CASE AnswerSilently(w, i)
  <2> DEFINE u == Take(v, i, TRUE)
  <2>1. /\ u \in Views /\ u.timer = v.timer /\ u.leaked = v.leaked /\ u.silent = TRUE
        /\ u.asked = RemoveAt(v.asked, i) /\ u.clicks = v.clicks
        /\ u.crossed = (v.crossed \/ i # 1)
    BY <1>1, <1>2, TakeFields
  <2>2. /\ view' = [view EXCEPT ![w] = u]
        /\ UNCHANGED <<current, inputs, custom, picked, typed>>
    BY <1>2, <1>6 DEF AnswerSilently
  <2> HIDE DEF u
  <2> QED BY <1>1, <1>2, <1>4, <2>1, <2>2, AnsweredInv
<1> QED BY <1>1, <1>5, <1>6

-----------------------------------------------------------------------------
(* Clicks *)

\* What a click does to a view: one request more, and at most one interval.
Clicked(v, u, frame) ==
    /\ u \in Views /\ u.clicks = v.clicks + 1
    /\ Len(u.asked) = Len(v.asked) + 1 /\ u.asked[Len(u.asked)] = frame
    /\ u.leaked = v.leaked

LEMMA ClickedBound ==
    ASSUME NEW v \in Views, Bounded(v), NEW u, NEW frame, Clicked(v, u, frame)
    PROVE  Bounded(u) /\ u.asked # <<>> /\ Follows(u, frame)
<1>1. PICK leaked \in Nat, clicks \in Nat, n \in Nat :
         leaked = v.leaked /\ clicks = v.clicks /\ n = Len(v.asked)
  BY ViewFields
<1>2. leaked + n <= Intervals(v) + n
  BY <1>1 DEF Intervals
<1>3. Intervals(u) <= leaked + 1 /\ u.leaked = leaked /\ u.clicks = clicks + 1
      /\ Len(u.asked) = n + 1
  BY <1>1 DEF Clicked, Intervals
<1>4. PICK m \in Nat, k \in Nat : m = Intervals(u) /\ k = Intervals(v)
  <2>1. /\ u.timer \in BOOLEAN /\ u.leaked \in Nat
        /\ v.timer \in BOOLEAN /\ v.leaked \in Nat
    BY ViewFields DEF Clicked
  <2> QED BY <2>1 DEF Intervals
<1>5. "quick" \in Discipline => k + n <= 2 * clicks + 1 /\ leaked <= 2 * clicks
  BY <1>1, <1>4 DEF Bounded
<1>6. Bounded(u)
  <2>1. clicks + 1 # 0 /\ m <= leaked + 1 /\ leaked + n <= k + n
    BY <1>1, <1>2, <1>3, <1>4
  <2>2. "quick" \in Discipline =>
           leaked <= 2 * (clicks + 1) /\ m + (n + 1) <= 2 * (clicks + 1) + 1
    BY <1>5, <2>1
  <2> QED BY <1>3, <1>4, <2>1, <2>2 DEF Bounded
<1>7. u.asked # <<>>
  BY <1>1, <1>3
<1> QED BY <1>6, <1>7 DEF Follows, Clicked

LEMMA ClickInv ==
    ASSUME Inv, NEW frame \in Frames,
           TypeOK', current' = current, picked' = frame, ~typed', inputs' = frame,
           \A w \in Widgets : IF w <= current THEN Clicked(view[w], view'[w], frame)
                                              ELSE view'[w] = view[w]
    PROVE  Inv'
<1>1. ASSUME NEW w \in Widgets PROVE Bounded(view'[w])
  <2>1. view[w] \in Views /\ Bounded(view[w])
    BY DEF Inv, TypeOK
  <2>2. CASE w <= current
    BY <2>1, <2>2, ClickedBound
  <2>3. CASE ~(w <= current)
    BY <2>1, <2>3
  <2> QED BY <2>2, <2>3
<1>2. Follows(view'[current], frame)
  <2>1. current \in Widgets /\ current <= current /\ view[current] \in Views
        /\ Bounded(view[current])
    BY DEF Inv, TypeOK, Widgets
  <2> QED BY <2>1, ClickedBound
<1>3. \A w \in Widgets : w > current => view'[w] = Fresh
  BY DEF Inv, TypeOK, Widgets
<1> QED BY <1>1, <1>2, <1>3 DEF Inv

LEMMA CountedClick ==
    ASSUME NEW v \in Views, NEW u \in Views, NEW frame,
           u.leaked = v.leaked, u.clicks = v.clicks,
           Len(u.asked) = Len(v.asked) + 1, u.asked[Len(u.asked)] = frame
    PROVE  Clicked(v, [u EXCEPT !.clicks = @ + 1], frame)
<1>1. PICK n \in Nat : n = u.clicks + 1
  BY ViewFields
<1>2. [u EXCEPT !.clicks = @ + 1] = [u EXCEPT !.clicks = n]
  BY <1>1 DEF Views
<1> QED BY <1>1, <1>2 DEF Clicked, Views

\* The two kinds of clicks.
LEMMA FetchClicks ==
    ASSUME NEW v \in Views, NEW frame \in Frames, NEW enable \in BOOLEAN
    PROVE  Clicked(v, [UpdateModel(v, frame, enable) EXCEPT !.clicks = @ + 1], frame)
<1>1. PICK u \in Views :
         /\ u = UpdateModel(v, frame, enable)
         /\ u.leaked = v.leaked /\ u.clicks = v.clicks
         /\ Len(u.asked) = Len(v.asked) + 1 /\ u.asked[Len(u.asked)] = frame
  BY UpdateModelFields
<1>2. Clicked(v, [u EXCEPT !.clicks = @ + 1], frame)
  BY <1>1, CountedClick
<1> QED BY <1>1, <1>2

LEMMA ClickedViews ==
    ASSUME NEW frame \in Frames, NEW enable \in BOOLEAN,
           Click([w \in made |-> UpdateModel(view[w], frame, enable)])
    PROVE  /\ view' = [w \in Widgets |->
                          IF w \in made
                          THEN [UpdateModel(view[w], frame, enable) EXCEPT !.clicks = @ + 1]
                          ELSE view[w]]
           /\ current' = current
<1> DEFINE fetched == [w \in made |-> UpdateModel(view[w], frame, enable)]
<1>1. \A w \in made : fetched[w] = UpdateModel(view[w], frame, enable)
  OBVIOUS
<1>2. Click(fetched)
  OBVIOUS
<1> HIDE DEF fetched
<1>3. /\ view' = [w \in Widgets |->
                    IF w \in made THEN [fetched[w] EXCEPT !.clicks = @ + 1] ELSE view[w]]
      /\ current' = current
  BY <1>2 DEF Click
<1> QED BY <1>1, <1>3

LEMMA PollClicks ==
    ASSUME NEW v \in Views
    PROVE  Clicked(v, [[SetTimer(UpdateModel(v, Live, TRUE)) EXCEPT !.silent = FALSE]
                          EXCEPT !.clicks = @ + 1], Live)
<1>1. PICK u \in Views :
         /\ u = UpdateModel(v, Live, TRUE)
         /\ u.leaked = v.leaked /\ u.clicks = v.clicks /\ u.timer = FALSE
         /\ Len(u.asked) = Len(v.asked) + 1 /\ u.asked[Len(u.asked)] = Live
  BY FrameFacts, UpdateModelFields
<1>2. PICK t \in Views :
         t = SetTimer(u) /\ t.leaked = u.leaked /\ t.asked = u.asked /\ t.clicks = u.clicks
  BY <1>1, SetTimerFields
<1>3. PICK s \in Views :
         /\ s = [t EXCEPT !.silent = FALSE]
         /\ s.leaked = t.leaked /\ s.asked = t.asked /\ s.clicks = t.clicks
  <2> DEFINE r == [t EXCEPT !.silent = FALSE]
  <2>1. /\ r \in Views /\ r.leaked = t.leaked /\ r.asked = t.asked
        /\ r.clicks = t.clicks
    BY <1>2 DEF Views
  <2> HIDE DEF r
  <2>2. r = [t EXCEPT !.silent = FALSE]
    BY DEF r
  <2> QED BY <2>1, <2>2
<1>4. Clicked(v, [s EXCEPT !.clicks = @ + 1], Live)
  <2>1. /\ s.leaked = v.leaked /\ s.clicks = v.clicks
        /\ Len(s.asked) = Len(v.asked) + 1 /\ s.asked[Len(s.asked)] = Live
    BY <1>1, <1>2, <1>3
  <2> QED BY <2>1, CountedClick
<1> QED BY <1>1, <1>2, <1>3, <1>4

\* A click makes a request for the time frame that is picked with it, in every
\* view the page has made.
ClickOf(frame) ==
    /\ TypeOK' /\ current' = current
    /\ picked' = frame /\ inputs' = frame /\ ~typed'
    /\ \A w \in Widgets : IF w <= current THEN Clicked(view[w], view'[w], frame)
                                           ELSE view'[w] = view[w]

UserClicks == RealTime \/ Go \/ Refresh \/ \E s \in Spans : PickSpan(s)

LEMMA ClicksOf ==
    ASSUME Inv, UserClicks
    PROVE  \E frame \in Frames : ClickOf(frame)
<1>1. /\ view \in [Widgets -> Views] /\ current \in Widgets
      /\ \A w \in Widgets : view[w] \in Views
  BY DEF Inv, TypeOK
<1>2. ASSUME NEW s \in Frames, NEW enable \in BOOLEAN,
             view' = [w \in Widgets |->
                        IF w \in made
                        THEN [UpdateModel(view[w], s, enable) EXCEPT !.clicks = @ + 1]
                        ELSE view[w]],
             current' = current, inputs' = s, picked' = s, custom' \in BOOLEAN, ~typed',
             typed' \in BOOLEAN
      PROVE  ClickOf(s)
  <2>1. \A w \in Widgets : IF w <= current THEN Clicked(view[w], view'[w], s)
                                           ELSE view'[w] = view[w]
    <3> TAKE w \in Widgets
    <3>1. w \in made <=> w <= current
      BY <1>1 DEF made, Widgets
    <3> QED BY <1>1, <1>2, <3>1, FetchClicks
  <2>2. TypeOK'
    BY <1>1, <1>2, <2>1 DEF Inv, TypeOK, Clicked
  <2> QED BY <1>2, <2>1, <2>2 DEF ClickOf
<1>3. CASE RealTime
  <2>1. /\ view' = [w \in Widgets |->
                      IF w \in made
                      THEN [[SetTimer(UpdateModel(view[w], Live, TRUE)) EXCEPT !.silent = FALSE]
                               EXCEPT !.clicks = @ + 1]
                      ELSE view[w]]
        /\ current' = current /\ inputs' = Live /\ picked' = Live
        /\ custom' = FALSE /\ typed' = FALSE
    <3> DEFINE polled == [w \in made |-> [SetTimer(UpdateModel(view[w], Live, TRUE))
                                             EXCEPT !.silent = FALSE]]
    <3>1. Click(polled) /\ inputs' = Live /\ picked' = Live /\ custom' = FALSE /\ typed' = FALSE
      BY <1>3 DEF RealTime
    <3>2. \A w \in made : polled[w] = [SetTimer(UpdateModel(view[w], Live, TRUE))
                                          EXCEPT !.silent = FALSE]
      OBVIOUS
    <3> HIDE DEF polled
    <3>3. /\ view' = [w \in Widgets |->
                        IF w \in made THEN [polled[w] EXCEPT !.clicks = @ + 1] ELSE view[w]]
          /\ current' = current
      BY <3>1 DEF Click
    <3> QED BY <3>1, <3>2, <3>3
  <2>2. \A w \in Widgets : IF w <= current THEN Clicked(view[w], view'[w], Live)
                                           ELSE view'[w] = view[w]
    <3> TAKE w \in Widgets
    <3>1. w \in made <=> w <= current
      BY <1>1 DEF made, Widgets
    <3> QED BY <1>1, <2>1, <3>1, PollClicks
  <2>3. TypeOK'
    BY <1>1, <2>1, <2>2, FrameFacts DEF Inv, TypeOK, Clicked
  <2> QED BY <2>1, <2>2, <2>3, FrameFacts DEF ClickOf
<1>4. ASSUME NEW s \in Spans, PickSpan(s) PROVE ClickOf(s)
  BY <1>2, <1>4, FrameFacts, ClickedViews DEF PickSpan
<1>5. CASE Go
  BY <1>2, <1>5, ClickedViews DEF Go, Inv, TypeOK
<1>6. CASE Refresh
  BY <1>2, <1>6, ClickedViews DEF Refresh, Inv, TypeOK
<1> QED BY <1>3, <1>4, <1>5, <1>6, FrameFacts DEF UserClicks

LEMMA InvUser ==
    ASSUME Inv, User
    PROVE  Inv'
<1>1. /\ view \in [Widgets -> Views] /\ current \in Widgets
      /\ \A w \in Widgets : view[w] \in Views
  BY DEF Inv, TypeOK
<1>2. CASE UserClicks
  BY <1>2, ClicksOf, ClickInv DEF ClickOf
<1>3. CASE Custom
  BY <1>3 DEF Custom, Inv, TypeOK, Follows
<1>4. ASSUME NEW frame \in Frames, Type(frame) PROVE Inv'
  BY <1>4 DEF Type, Inv, TypeOK
<1>5. CASE ChangeWidget
  <2> DEFINE u == [view[current] EXCEPT !.timer = FALSE]
  <2>1. /\ current + 1 \in Widgets /\ current' = current + 1
        /\ view' = [view EXCEPT ![current] = u]
        /\ inputs' = Live /\ picked' = Live /\ custom' = FALSE /\ typed' = FALSE
    BY <1>1, <1>5, WidgetsAssumption DEF ChangeWidget, Widgets
  <2>2. u \in Views /\ u.timer = FALSE /\ u.leaked = view[current].leaked
        /\ u.asked = view[current].asked /\ u.clicks = view[current].clicks
    BY <1>1 DEF Views
  <2>3. Bounded(u)
    <3> HIDE DEF u
    <3>1. PICK v \in Views : v = view[current] /\ Bounded(v)
      BY <1>1 DEF Inv
    <3>2. PICK leaked \in Nat, clicks \in Nat, n \in Nat :
             leaked = v.leaked /\ clicks = v.clicks /\ n = Len(v.asked)
      BY ViewFields
    <3>3. Intervals(u) = leaked /\ u.clicks = clicks /\ Len(u.asked) = n /\ u.leaked = leaked
      BY <2>2, <3>1, <3>2 DEF Intervals
    <3>4. PICK k \in Nat : k = Intervals(v) /\ k \in {leaked, leaked + 1}
      BY <3>2 DEF Intervals
    <3>5. /\ clicks = 0 => leaked = 0 /\ leaked + n <= 1
          /\ "quick" \in Discipline => leaked <= 2 * clicks /\ leaked + n <= 2 * clicks + 1
      <4>1. /\ clicks = 0 => leaked = 0 /\ k + n <= 1
            /\ "quick" \in Discipline => leaked <= 2 * clicks /\ k + n <= 2 * clicks + 1
        BY <3>1, <3>2, <3>4 DEF Bounded
      <4>2. leaked + n <= k + n
        BY <3>4
      <4>3. clicks = 0 => leaked = 0 /\ leaked + n <= 1
        BY <4>1, <4>2
      <4>4. ASSUME "quick" \in Discipline
            PROVE  leaked <= 2 * clicks /\ leaked + n <= 2 * clicks + 1
        BY <4>1, <4>2, <4>4
      <4> QED BY <4>3, <4>4
    <3> QED BY <3>3, <3>5 DEF Bounded
  <2> HIDE DEF u
  <2>4. /\ \A w \in Widgets : view'[w] = IF w = current THEN u ELSE view[w]
        /\ current + 1 > current /\ current + 1 # current
        /\ \A w \in Widgets : w > current + 1 => w > current /\ w # current
    BY <1>1, <2>1 DEF Widgets
  <2>5. view'[current + 1] = Fresh
    BY <2>1, <2>4 DEF Inv
  <2>6. Follows(Fresh, Live)
    BY FreshFields DEF Follows
  <2>7. TypeOK'
    BY <1>1, <2>1, <2>2, FrameFacts DEF TypeOK
  <2> QED BY <2>1, <2>3, <2>4, <2>5, <2>6, <2>7 DEF Inv
<1> QED BY <1>2, <1>3, <1>4, <1>5 DEF User, UserClicks

LEMMA InvNext == Inv /\ [Next]_vars => Inv'
<1>1. CASE UNCHANGED vars
  BY <1>1 DEF vars, Inv, TypeOK, Bounded, Intervals, Follows
<1> QED BY <1>1, InvUser, InvTick, InvAnswered DEF Next

LEMMA MadeWidgets == TypeOK => made \subseteq Widgets
BY WidgetsAssumption DEF TypeOK, made, Widgets

LEMMA InvAlways == Spec => []Inv
BY InvInit, InvNext, PTL DEF Spec

(* Every variable keeps its type.                                          *)
THEOREM TypeCorrect == Spec => []TypeOK
<1>1. Inv => TypeOK
  BY DEF Inv
<1> QED BY <1>1, InvAlways, PTL

(* While answers are quick, a view has at most one interval and two more   *)
(* for each click it has seen.                                             *)
THEOREM PollersStayBounded == Spec => []PollersBounded
<1>1. Inv => PollersBounded
  <2> SUFFICES ASSUME Inv, "quick" \in Discipline, NEW w \in made
               PROVE  Intervals(view[w]) <= 1 + 2 * view[w].clicks
    BY DEF PollersBounded
  <2>1. w \in Widgets
    BY MadeWidgets DEF Inv
  <2>2. PICK v \in Views : v = view[w] /\ Bounded(v)
    BY <2>1 DEF Inv, TypeOK
  <2>3. /\ Len(v.asked) \in Nat /\ v.clicks \in Nat /\ v.leaked \in Nat
        /\ v.timer \in BOOLEAN
    BY ViewFields
  <2>4. Intervals(v) \in Nat
    BY <2>3 DEF Intervals
  <2> QED BY <2>2, <2>3, <2>4 DEF Bounded
<1> QED BY <1>1, InvAlways, PTL

(* A view that nobody has clicked on has one interval or one request, and  *)
(* not both, however slow the answers are and in whatever order they come. *)
THEOREM OneAtATimeAlways == Spec => []OneAtATime
<1>1. Inv => OneAtATime
  BY MadeWidgets DEF Inv, OneAtATime, Bounded
<1> QED BY <1>1, InvAlways, PTL

(* With answers in order, the chart shows the time frame picked last as    *)
(* soon as its requests are answered.                                      *)
THEOREM PickedIsShown == Spec => []ShowsPicked
<1>1. Inv => ShowsPicked
  BY DEF Inv, ShowsPicked, Follows
<1> QED BY <1>1, InvAlways, PTL

-----------------------------------------------------------------------------
(* Charts that go on *)

\* Something is under way that leads to the next request or picture.
Lively(v) == v.enable /\ ~v.silent => Intervals(v) > 0 \/ v.asked # <<>>

\* A view that nobody has clicked on refreshes itself until it is silenced.
Untouched(v) ==
    v.clicks = 0 => v.enable /\ (v.silent => Intervals(v) = 0 /\ v.asked = <<>>)

LEMMA UpdateModelEnable ==
    ASSUME NEW v \in Views, NEW frame, NEW enable \in BOOLEAN
    PROVE  UpdateModel(v, frame, enable).enable = enable
BY DEF UpdateModel, Views

LEMMA TakeEnable ==
    ASSUME NEW v \in Views, NEW i, NEW silent
    PROVE  Take(v, i, silent).enable = v.enable
BY DEF Take, Views

LEMMA SetTimerEnable ==
    ASSUME NEW v \in Views
    PROVE  SetTimer(v).enable = v.enable
BY DEF SetTimer, Views

\* The answer to a view that refreshes itself starts the next interval.
LEMMA ModelChangedTimer ==
    ASSUME NEW v \in Views, NEW frame \in Frames
    PROVE  LET u == ModelChanged(v, frame) IN
           u.enable = v.enable /\ (v.enable => u.timer = TRUE)
<1> DEFINE r == [v EXCEPT !.shown = frame]
<1>1. r \in Views /\ r.enable = v.enable
  BY DEF Views
<1>2. ModelChanged(v, frame) = IF v.enable THEN SetTimer(r) ELSE r
  BY DEF ModelChanged
<1>3. SetTimer(r).enable = v.enable /\ SetTimer(r).timer = TRUE
  <2> HIDE DEF r
  <2> QED BY <1>1, SetTimerEnable, SetTimerFields
<1> HIDE DEF r
<1> QED BY <1>1, <1>2, <1>3, ViewFields

\* The phase of a view that nobody has clicked on, by what it has under way.
LEMMA PhaseValue ==
    ASSUME NEW v \in Views, v.clicks = 0
    PROVE  /\ Intervals(v) = 1 /\ v.asked = <<>> => PhaseOf(v) = "waiting"
           /\ Intervals(v) = 0 /\ Len(v.asked) = 1 => PhaseOf(v) = "asking"
           /\ Intervals(v) = 0 /\ v.asked = <<>> =>
                 PhaseOf(v) = IF v.silent THEN "silenced" ELSE "replaced"
<1>1. Len(v.asked) \in Nat /\ (v.asked = <<>> <=> Len(v.asked) = 0)
  BY ViewFields
<1>2. PICK n, m : n = Intervals(v) /\ m = Len(v.asked)
  OBVIOUS
<1>3. PhaseOf(v) = IF <<n, m>> = <<1, 0>> THEN "waiting"
                   ELSE IF <<n, m>> = <<0, 1>> THEN "asking"
                   ELSE IF <<n, m>> # <<0, 0>> THEN "overrun"
                   ELSE IF v.silent THEN "silenced" ELSE "replaced"
  BY <1>2 DEF PhaseOf
<1>4. CASE n = 1 /\ m = 0
  BY <1>1, <1>2, <1>3, <1>4
<1>5. CASE n = 0 /\ m = 1
  BY <1>1, <1>2, <1>3, <1>5
<1>6. CASE n = 0 /\ m = 0
  BY <1>1, <1>2, <1>3, <1>6
<1>7. CASE ~(n = 1 /\ m = 0) /\ ~(n = 0 /\ m = 1) /\ ~(n = 0 /\ m = 0)
  BY <1>1, <1>2, <1>7
<1> QED BY <1>4, <1>5, <1>6, <1>7

LEMMA Steered ==
    ASSUME NEW v \in Views, v.clicks # 0
    PROVE  PhaseOf(v) = "steered" /\ Untouched(v)
BY ViewFields DEF PhaseOf, Untouched

\* Where a view that nobody has clicked on can be.
LEMMA Load ==
    ASSUME NEW v \in Views, Bounded(v), v.clicks = 0
    PROVE  /\ v.leaked = 0
           /\ \/ Intervals(v) = 1 /\ v.timer /\ v.asked = <<>>
              \/ Intervals(v) = 0 /\ ~v.timer /\ Len(v.asked) = 1
              \/ Intervals(v) = 0 /\ ~v.timer /\ v.asked = <<>>
<1>1. PICK n \in Nat : n = Len(v.asked) /\ (v.asked = <<>> <=> n = 0)
  BY ViewFields
<1>2. v.leaked = 0 /\ Intervals(v) + n <= 1
  BY <1>1 DEF Bounded
<1>3. CASE v.timer
  <2>1. Intervals(v) = 1
    BY <1>2, <1>3 DEF Intervals
  <2> QED BY <1>1, <1>2, <1>3, <2>1
<1>4. CASE ~v.timer
  <2>1. Intervals(v) = 0
    BY <1>2, <1>4 DEF Intervals
  <2>2. n = 0 \/ n = 1
    BY <1>2, <2>1
  <2>3. CASE n = 0
    BY <1>1, <1>2, <1>4, <2>1, <2>3
  <2>4. CASE n = 1
    BY <1>1, <1>2, <1>4, <2>1, <2>4
  <2> QED BY <2>2, <2>3, <2>4
<1> QED BY <1>3, <1>4

\* An interval comes round: the view asks.
LEMMA TickPhase ==
    ASSUME NEW v \in Views, Bounded(v), Untouched(v), v.timer \/ v.leaked > 0,
           NEW u \in Views, u.timer = FALSE, u.leaked = v.leaked, u.enable = TRUE,
           Len(u.asked) = Len(v.asked) + 1, u.silent = v.silent, u.clicks = v.clicks
    PROVE  /\ Untouched(u) /\ Lively(u)
           /\ \/ PhaseOf(u) = PhaseOf(v)
              \/ PhaseOf(v) = "waiting" /\ PhaseOf(u) = "asking"
<1>1. Len(u.asked) = Len(v.asked) + 1 /\ Len(v.asked) \in Nat /\ u.asked \in Seq(Frames)
  BY ViewFields
<1>2. Lively(u)
  <2>1. u.asked # <<>>
    BY <1>1
  <2> QED BY <2>1 DEF Lively
<1>3. CASE v.clicks # 0
  BY <1>1, <1>2, <1>3, Steered
<1>4. CASE v.clicks = 0
  <2>1. v.leaked = 0 /\ v.timer /\ Intervals(v) = 1 /\ v.asked = <<>> /\ ~v.silent
    BY <1>4, Load DEF Untouched
  <2>2. Intervals(u) = 0 /\ Len(u.asked) = 1 /\ ~u.silent
    <3>1. Len(u.asked) = 1
      BY <1>1, <2>1
    <3>2. Intervals(u) = 0
      BY <2>1 DEF Intervals
    <3> QED BY <2>1, <3>1, <3>2
  <2>3. PhaseOf(v) = "waiting"
    BY <1>4, <2>1, PhaseValue
  <2>4. PhaseOf(u) = "asking"
    BY <1>1, <1>4, <2>2, PhaseValue
  <2> QED BY <1>1, <1>2, <2>2, <2>3, <2>4 DEF Untouched
<1> QED BY <1>3, <1>4

\* An answer: the view shows it, or it has nothing to show.
LEMMA AnswerPhase ==
    ASSUME NEW v \in Views, Bounded(v), Untouched(v), NEW i \in 1..Len(v.asked),
           NEW u \in Views, u.clicks = v.clicks, u.asked = RemoveAt(v.asked, i),
           u.enable = v.enable,
           \/ ~u.silent /\ (v.enable => u.timer)
              /\ u.leaked = IF v.enable /\ v.timer THEN v.leaked + 1 ELSE v.leaked
           \/ u.silent /\ u.timer = v.timer /\ u.leaked = v.leaked
    PROVE  /\ Untouched(u) /\ Lively(u)
           /\ \/ PhaseOf(u) = PhaseOf(v)
              \/ PhaseOf(v) = "asking" /\ PhaseOf(u) \in {"waiting", "silenced"}
<1>1. Lively(u)
  <2>1. CASE u.silent
    BY <2>1 DEF Lively
  <2>2. CASE ~u.silent /\ u.enable
    <3>1. u.timer /\ u.leaked \in Nat
      BY <2>2, ViewFields
    <3> QED BY <3>1 DEF Lively, Intervals
  <2> QED BY <2>1, <2>2 DEF Lively
<1>2. CASE v.clicks # 0
  BY <1>1, <1>2, Steered
<1>3. CASE v.clicks = 0
  <2>1. /\ v.leaked = 0 /\ ~v.timer /\ Intervals(v) = 0 /\ Len(v.asked) = 1 /\ v.enable
    <3>1. Len(v.asked) # 0 /\ v.asked # <<>>
      BY ViewFields
    <3> QED BY <1>3, <3>1, Load DEF Untouched
  <2>2. u.asked = <<>>
    <3>1. v.asked \in Seq(Frames) /\ u.asked \in Seq(Frames)
      BY ViewFields
    <3>2. Len(u.asked) = Len(v.asked) - 1
      BY <3>1, RemoveAtType
    <3> QED BY <2>1, <3>1, <3>2
  <2>3. PhaseOf(v) = "asking"
    BY <1>3, <2>1, PhaseValue
  <2>4. CASE ~u.silent
    <3>1. Intervals(u) = 1
      BY <2>1, <2>4 DEF Intervals
    <3>2. PhaseOf(u) = "waiting"
      BY <1>3, <2>2, <3>1, PhaseValue
    <3> QED BY <1>1, <2>1, <2>3, <2>4, <3>2 DEF Untouched
  <2>5. CASE u.silent
    <3>1. Intervals(u) = 0
      BY <2>1, <2>5 DEF Intervals
    <3>2. PhaseOf(u) = "silenced"
      BY <1>3, <2>2, <2>5, <3>1, PhaseValue
    <3> QED BY <1>1, <2>1, <2>2, <2>3, <2>5, <3>1, <3>2 DEF Untouched
  <2> QED BY <2>4, <2>5, ViewFields
<1> QED BY <1>2, <1>3

\* Another view takes its place.
LEMMA ReplacePhase ==
    ASSUME NEW v \in Views, Bounded(v), Untouched(v),
           NEW u, u = [v EXCEPT !.timer = FALSE]
    PROVE  /\ Untouched(u)
           /\ \/ PhaseOf(u) = PhaseOf(v)
              \/ PhaseOf(v) = "waiting" /\ PhaseOf(u) = "replaced"
<1>1. /\ u \in Views /\ u.timer = FALSE /\ u.leaked = v.leaked /\ u.enable = v.enable
      /\ u.asked = v.asked /\ u.silent = v.silent /\ u.clicks = v.clicks
  BY DEF Views
<1>2. CASE v.clicks # 0
  BY <1>1, <1>2, Steered
<1>3. CASE v.clicks = 0
  <2>1. Intervals(u) = 0
    BY <1>1, <1>3, Load DEF Intervals
  <2>2. CASE v.timer
    <3>1. Intervals(v) = 1 /\ v.asked = <<>> /\ ~v.silent
      BY <1>3, <2>2, Load DEF Untouched
    <3>2. PhaseOf(v) = "waiting" /\ PhaseOf(u) = "replaced"
      BY <1>1, <1>3, <2>1, <3>1, PhaseValue
    <3> QED BY <1>1, <2>1, <3>1, <3>2 DEF Untouched
  <2>3. CASE ~v.timer
    BY <1>1, <2>3 DEF Views
  <2> QED BY <2>2, <2>3
<1> QED BY <1>2, <1>3

Going ==
    /\ \A w \in Widgets : Untouched(view[w])
    /\ Lively(view[current])

Promised == [Pollers!Next]_phase

LEMMA GoingInit == Init => Going /\ Pollers!Init
<1> SUFFICES ASSUME Init PROVE Going /\ Pollers!Init
  OBVIOUS
<1>1. /\ 1 \in Widgets /\ current = 1 /\ \A w \in Widgets : view[w] = Fresh
  BY WidgetsAssumption DEF Init, Widgets
<1>2. /\ Fresh \in Views /\ Fresh.enable = TRUE /\ Fresh.silent = FALSE
      /\ Fresh.timer = TRUE /\ Fresh.leaked = 0 /\ Fresh.asked = <<>> /\ Fresh.clicks = 0
  BY FreshFields DEF Fresh
<1>3. Intervals(Fresh) = 1
  BY <1>2 DEF Intervals
<1>4. PhaseOf(Fresh) = "waiting"
  BY <1>2, <1>3, PhaseValue
<1>5. Going
  BY <1>1, <1>2, <1>3 DEF Going, Untouched, Lively
<1>6. phase = [w \in Widgets |-> "waiting"]
  BY <1>1, <1>4 DEF phase
<1> QED BY <1>5, <1>6 DEF Pollers!Init

\* A step of one view.
LEMMA GoingView ==
    ASSUME Inv, Going, NEW w \in Widgets, NEW u,
           view' = [view EXCEPT ![w] = u], current' = current,
           Untouched(u), Lively(u),
           \/ PhaseOf(u) = PhaseOf(view[w])
           \/ PhaseOf(view[w]) = "waiting" /\ PhaseOf(u) = "asking"
           \/ PhaseOf(view[w]) = "asking" /\ PhaseOf(u) \in {"waiting", "silenced"}
    PROVE  Going' /\ Promised
<1>1. /\ view'[w] = u /\ \A x \in Widgets : x # w => view'[x] = view[x]
      /\ current \in Widgets
  BY DEF Inv, TypeOK
<1>2. Going'
  BY <1>1 DEF Going
<1>3. phase[w] = PhaseOf(view[w]) /\ phase' = [phase EXCEPT ![w] = PhaseOf(u)]
  <2>1. phase' = [x \in Widgets |-> PhaseOf(view'[x])]
    BY DEF phase
  <2>2. \A x \in Widgets : PhaseOf(view'[x]) = IF x = w THEN PhaseOf(u) ELSE PhaseOf(view[x])
    BY <1>1
  <2> QED BY <2>1, <2>2 DEF phase
<1>4. CASE PhaseOf(u) = PhaseOf(view[w])
  <2>1. phase' = phase
    BY <1>3, <1>4 DEF phase
  <2> QED BY <1>2, <2>1 DEF Promised
<1>5. CASE PhaseOf(view[w]) = "waiting" /\ PhaseOf(u) = "asking"
  <2>1. Pollers!Ask(w)
    BY <1>3, <1>5 DEF Pollers!Ask, Pollers!Turn
  <2> QED BY <1>2, <2>1 DEF Promised, Pollers!Next
<1>6. CASE PhaseOf(view[w]) = "asking" /\ PhaseOf(u) \in {"waiting", "silenced"}
  <2>1. Pollers!Show(w) \/ Pollers!HearNothing(w)
    BY <1>3, <1>6 DEF Pollers!Show, Pollers!HearNothing, Pollers!Turn
  <2> QED BY <1>2, <2>1 DEF Promised, Pollers!Next
<1> QED BY <1>4, <1>5, <1>6

LEMMA GoingTick ==
    ASSUME Inv, Going, NEW w \in Widgets, Tick(w)
    PROVE  Going' /\ Promised
<1>1. PICK v \in Views : v = view[w] /\ Bounded(v) /\ Untouched(v)
  BY DEF Inv, TypeOK, Going
<1>2. /\ inputs \in Frames /\ TRUE \in BOOLEAN
      /\ current' = current /\ (v.timer \/ v.leaked > 0)
      /\ view' = [view EXCEPT ![w] = UpdateModel(v, inputs, TRUE)]
  BY <1>1 DEF Tick, Inv, TypeOK
<1>3. PICK u \in Views :
         /\ u = UpdateModel(v, inputs, TRUE)
         /\ u.timer = FALSE /\ u.leaked = v.leaked /\ u.enable = TRUE
         /\ Len(u.asked) = Len(v.asked) + 1 /\ u.silent = v.silent /\ u.clicks = v.clicks
  <2>1. UpdateModel(v, inputs, TRUE).enable = TRUE
    BY <1>2, UpdateModelEnable
  <2> QED BY <1>2, <2>1, UpdateModelFields
<1>4. /\ Untouched(u) /\ Lively(u)
      /\ \/ PhaseOf(u) = PhaseOf(v)
         \/ PhaseOf(v) = "waiting" /\ PhaseOf(u) = "asking"
  BY <1>1, <1>2, <1>3, TickPhase
<1> QED BY <1>1, <1>2, <1>3, <1>4, GoingView

LEMMA GoingAnswered ==
    ASSUME Inv, Going, NEW w \in Widgets, Answered(w)
    PROVE  Going' /\ Promised
<1>1. PICK i \in 1..Len(view[w].asked) : Answer(w, i) \/ AnswerSilently(w, i)
  BY DEF Answered
<1>2. PICK v \in Views : v = view[w] /\ Bounded(v) /\ Untouched(v)
  BY DEF Inv, TypeOK, Going
<1>3. v.asked \in Seq(Frames) /\ v.asked[i] \in Frames /\ i \in 1..Len(v.asked)
  BY <1>1, <1>2, ViewFields
<1>4. CASE Answer(w, i)
  <2>1. PICK t \in Views :
           /\ t = Take(v, i, FALSE) /\ t.timer = v.timer /\ t.leaked = v.leaked
           /\ t.asked = RemoveAt(v.asked, i) /\ t.clicks = v.clicks
           /\ t.silent = FALSE /\ t.enable = v.enable
    <3>1. Take(v, i, FALSE).enable = v.enable
      BY TakeEnable
    <3> QED BY <1>3, <3>1, TakeFields
  <2>2. PICK u \in Views :
           /\ u = ModelChanged(t, v.asked[i]) /\ u.asked = t.asked /\ u.clicks = t.clicks
           /\ u.silent = t.silent /\ u.enable = t.enable /\ (t.enable => u.timer = TRUE)
           /\ u.leaked = IF t.enable /\ t.timer THEN t.leaked + 1 ELSE t.leaked
    <3>1. ModelChanged(t, v.asked[i]).leaked =
             IF t.enable /\ t.timer THEN t.leaked + 1 ELSE t.leaked
      BY <1>3 DEF ModelChanged, SetTimer, Views
    <3> QED BY <1>3, <3>1, ModelChangedFields, ModelChangedTimer
  <2>3. view' = [view EXCEPT ![w] = u] /\ current' = current
    BY <1>2, <1>4, <2>1, <2>2 DEF Answer
  <2>4. /\ ~u.silent /\ (v.enable => u.timer) /\ u.enable = v.enable
        /\ u.leaked = IF v.enable /\ v.timer THEN v.leaked + 1 ELSE v.leaked
        /\ u.clicks = v.clicks /\ u.asked = RemoveAt(v.asked, i)
    BY <2>1, <2>2
  <2>5. /\ Untouched(u) /\ Lively(u)
        /\ \/ PhaseOf(u) = PhaseOf(v)
           \/ PhaseOf(v) = "asking" /\ PhaseOf(u) \in {"waiting", "silenced"}
    BY <1>2, <1>3, <2>4, AnswerPhase
  <2> QED BY <1>2, <2>3, <2>5, GoingView
<1>5. CASE AnswerSilently(w, i)
  <2>1. PICK u \in Views :
           /\ u = Take(v, i, TRUE) /\ u.timer = v.timer /\ u.leaked = v.leaked
           /\ u.asked = RemoveAt(v.asked, i) /\ u.clicks = v.clicks
           /\ u.silent = TRUE /\ u.enable = v.enable
    <3>1. Take(v, i, TRUE).enable = v.enable
      BY TakeEnable
    <3> QED BY <1>3, <3>1, TakeFields
  <2>2. view' = [view EXCEPT ![w] = u] /\ current' = current
    BY <1>2, <1>5, <2>1 DEF AnswerSilently
  <2>3. /\ Untouched(u) /\ Lively(u)
        /\ \/ PhaseOf(u) = PhaseOf(v)
           \/ PhaseOf(v) = "asking" /\ PhaseOf(u) \in {"waiting", "silenced"}
    BY <1>2, <1>3, <2>1, AnswerPhase
  <2> QED BY <1>2, <2>2, <2>3, GoingView
<1> QED BY <1>1, <1>4, <1>5

LEMMA GoingClick ==
    ASSUME Inv, Going, UserClicks
    PROVE  Going' /\ Promised
<1>1. PICK frame \in Frames : ClickOf(frame)
  BY ClicksOf
<1>2. /\ current \in Widgets /\ current' = current
      /\ \A w \in Widgets : view[w] \in Views
  BY <1>1 DEF ClickOf, Inv, TypeOK
<1>3. ASSUME NEW w \in Widgets, w <= current
      PROVE  /\ PhaseOf(view'[w]) = "steered" /\ Untouched(view'[w])
             /\ view'[w].asked # <<>>
  <2>1. PICK v \in Views, u \in Views :
           v = view[w] /\ u = view'[w] /\ u.clicks = v.clicks + 1
           /\ Len(u.asked) = Len(v.asked) + 1
    BY <1>1, <1>2, <1>3 DEF ClickOf, Clicked
  <2>2. v.clicks \in Nat /\ Len(v.asked) \in Nat /\ u.asked \in Seq(Frames)
    BY ViewFields
  <2>3. u.clicks # 0 /\ u.asked # <<>>
    BY <2>1, <2>2
  <2> QED BY <2>1, <2>3, Steered
<1>4. \A w \in Widgets : ~(w <= current) => view'[w] = view[w]
  BY <1>1 DEF ClickOf
<1>5. current <= current
  BY <1>2 DEF Widgets
<1>6. Going'
  BY <1>2, <1>3, <1>4, <1>5 DEF Going, Lively
<1>7. Pollers!Steer({w \in Widgets : w <= current})
  <2>1. phase' = [x \in Widgets |-> PhaseOf(view'[x])]
    BY DEF phase
  <2> QED BY <1>3, <1>4, <2>1 DEF phase, Pollers!Steer
<1>8. {w \in Widgets : w <= current} \in SUBSET Widgets
  OBVIOUS
<1> QED BY <1>6, <1>7, <1>8 DEF Promised, Pollers!Next

LEMMA GoingChange ==
    ASSUME Inv, Going, ChangeWidget
    PROVE  Going' /\ Promised
<1> DEFINE u == [view[current] EXCEPT !.timer = FALSE]
<1>1. PICK v \in Views : v = view[current] /\ Bounded(v) /\ Untouched(v)
  BY DEF Inv, TypeOK, Going
<1>2. /\ Untouched(u)
      /\ \/ PhaseOf(u) = PhaseOf(v)
         \/ PhaseOf(v) = "waiting" /\ PhaseOf(u) = "replaced"
  BY <1>1, ReplacePhase
<1>3. /\ current \in Widgets /\ current + 1 \in Widgets /\ current + 1 > current
      /\ current' = current + 1 /\ view' = [view EXCEPT ![current] = u]
  BY WidgetsAssumption DEF ChangeWidget, Inv, TypeOK, Widgets
<1> HIDE DEF u
<1>4. \A w \in Widgets : view'[w] = IF w = current THEN u ELSE view[w]
  BY <1>3 DEF Inv, TypeOK
<1>5. view'[current + 1] = Fresh
  BY <1>3, <1>4 DEF Inv
<1>6. Lively(Fresh)
  <2>1. Intervals(Fresh) = 1
    BY FreshFields DEF Intervals
  <2> QED BY <2>1 DEF Lively
<1>7. Going'
  BY <1>2, <1>3, <1>4, <1>5, <1>6 DEF Going
<1>8. phase[current] = PhaseOf(v) /\ phase' = [phase EXCEPT ![current] = PhaseOf(u)]
  <2>1. phase' = [x \in Widgets |-> PhaseOf(view'[x])]
    BY DEF phase
  <2>2. \A x \in Widgets : phase[x] = PhaseOf(view[x])
    BY DEF phase
  <2>3. phase[current] = PhaseOf(v)
    BY <1>1, <1>3, <2>2
  <2>4. ASSUME NEW x \in Widgets
        PROVE  PhaseOf(view'[x])
                 = [phase EXCEPT ![current] = PhaseOf(u)][x]
    <3>1. CASE x = current
      BY <1>4, <3>1 DEF phase
    <3>2. CASE x # current
      BY <1>4, <2>2, <3>2 DEF phase
    <3> QED BY <3>1, <3>2
  <2>5. phase' = [x \in Widgets |-> [phase EXCEPT ![current] = PhaseOf(u)][x]]
    BY <2>1, <2>4
  <2> QED BY <2>3, <2>5 DEF phase
<1>9. CASE PhaseOf(u) = PhaseOf(v)
  <2>1. phase' = phase
    BY <1>8, <1>9 DEF phase
  <2> QED BY <1>7, <2>1 DEF Promised
<1>10. CASE PhaseOf(v) = "waiting" /\ PhaseOf(u) = "replaced"
  <2>1. Pollers!Replace(current)
    BY <1>8, <1>10 DEF Pollers!Replace, Pollers!Turn
  <2> QED BY <1>3, <1>7, <2>1 DEF Promised, Pollers!Next
<1> QED BY <1>2, <1>9, <1>10

LEMMA GoingNext ==
    ASSUME Inv, Going, [Next]_vars
    PROVE  Going' /\ Promised
<1>1. CASE UNCHANGED <<current, view>>
  <2>1. phase' = [x \in Widgets |-> PhaseOf(view'[x])]
    BY DEF phase
  <2>2. phase' = phase
    BY <1>1, <2>1 DEF phase
  <2> QED BY <1>1, <2>2 DEF Going, Promised
<1>2. CASE Custom \/ (\E frame \in Frames : Type(frame)) \/ UNCHANGED vars
  BY <1>1, <1>2 DEF Custom, Type, vars
<1> QED BY <1>2, GoingTick, GoingAnswered, GoingClick, GoingChange
        DEF Next, User, UserClicks

LEMMA GoingAlways == Spec => [](Inv /\ Going) /\ PollerSpec
<1>1. Init => Inv /\ Going /\ Pollers!Init
  BY InvInit, GoingInit
<1>2. Inv /\ Going /\ [Next]_vars => Inv' /\ Going' /\ [Pollers!Next]_phase
  BY InvNext, GoingNext DEF Promised
<1> QED BY <1>1, <1>2, PTL DEF Spec, PollerSpec, Pollers!Spec

(* The chart on the page has an interval or a request under way as long as *)
(* its last request was to keep it refreshing and its last answer told     *)
(* something: only silence stops it, whatever is clicked and however the   *)
(* answers come.                                                           *)
THEOREM OnlySilenceStops == Spec => []NeverStalls
<1>1. Going => NeverStalls
  BY DEF Going, Lively, NeverStalls
<1> QED BY <1>1, GoingAlways, PTL

(* A view that nobody has clicked on implements Poller: it waits, asks     *)
(* once and waits again, and only silence or another view ends that.       *)
THEOREM ImplementsPoller == Spec => PollerSpec
BY GoingAlways, PTL
=============================================================================
