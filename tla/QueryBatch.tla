----------------------------- MODULE QueryBatch -----------------------------
(***************************************************************************)
(* What running the queries of a server promises a task, with nothing of   *)
(* MBeans, thresholds and tables: the queries come one at a time, each     *)
(* once; whatever becomes of one, something is known of it when the next   *)
(* one begins; and the task ends when all have had their turn.             *)
(***************************************************************************)
CONSTANTS Tasks, Queries, NoQuery

VARIABLES
    state,      \* state[k]: is task k new, running or ended
    waiting,    \* waiting[k]: its queries that have not begun
    current,    \* current[k]: the query at work, or NoQuery
    told        \* told[k]: the queries of which something is known

vars == <<state, waiting, current, told>>

Init ==
    /\ state = [k \in Tasks |-> "new"]
    /\ waiting = [k \in Tasks |-> {}]
    /\ current = [k \in Tasks |-> NoQuery]
    /\ told = [k \in Tasks |-> {}]

Start(k) ==
    /\ state[k] = "new"
    /\ state' = [state EXCEPT ![k] = "running"]
    /\ waiting' = [waiting EXCEPT ![k] = Queries]
    /\ UNCHANGED <<current, told>>

Take(k, q) ==
    /\ current[k] = NoQuery
    /\ q \in waiting[k]
    /\ waiting' = [waiting EXCEPT ![k] = @ \ {q}]
    /\ current' = [current EXCEPT ![k] = q]
    /\ UNCHANGED <<state, told>>

\* A sample, or the lack of one; a query may have several to tell of.
Tell(k, last) ==
    /\ current[k] # NoQuery
    /\ told' = [told EXCEPT ![k] = @ \cup {current[k]}]
    /\ current' = IF last THEN [current EXCEPT ![k] = NoQuery] ELSE current
    /\ UNCHANGED <<state, waiting>>

Finish(k) ==
    /\ state[k] = "running"
    /\ waiting[k] = {} /\ current[k] = NoQuery
    /\ state' = [state EXCEPT ![k] = "ended"]
    /\ UNCHANGED <<waiting, current, told>>

Next ==
    \E k \in Tasks :
        \/ Start(k) \/ Finish(k)
        \/ \E q \in Queries : Take(k, q)
        \/ \E last \in BOOLEAN : Tell(k, last)

Spec == Init /\ [][Next]_vars
=============================================================================
