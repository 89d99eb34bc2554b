------------------------------- MODULE Poller -------------------------------
(***************************************************************************)
(* What a chart promises the data interface as long as nobody clicks on    *)
(* it, with nothing of its timers and requests: it waits, asks once, and   *)
(* waits again for the answer to be shown.  Only an answer with nothing to *)
(* show, or another chart in its place, ends that.                         *)
(***************************************************************************)
CONSTANT Views

VARIABLE phase      \* phase[w]: what view w is at

Phases == {"waiting", "asking", "silenced", "replaced", "steered"}

Init == phase = [w \in Views |-> "waiting"]

Turn(w, from, to) ==
    /\ phase[w] = from
    /\ phase' = [phase EXCEPT ![w] = to]

Ask(w) == Turn(w, "waiting", "asking")
Show(w) == Turn(w, "asking", "waiting")
HearNothing(w) == Turn(w, "asking", "silenced")
Replace(w) == Turn(w, "waiting", "replaced")

\* A user takes charts in hand: what they do from then on is not told here.
Steer(taken) ==
    phase' = [w \in Views |-> IF w \in taken THEN "steered" ELSE phase[w]]

Next ==
    \/ \E w \in Views : Ask(w) \/ Show(w) \/ HearNothing(w) \/ Replace(w)
    \/ \E taken \in SUBSET Views : Steer(taken)

Spec == Init /\ [][Next]_phase
=============================================================================
