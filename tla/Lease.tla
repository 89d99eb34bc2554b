-------------------------------- MODULE Lease --------------------------------
(***************************************************************************)
(* What the connection pool promises its clients, with nothing of how it   *)
(* keeps its entries: a connection is leased to one client at a time, and  *)
(* it is closed only while nobody has it on lease.                         *)
(***************************************************************************)
CONSTANTS Clients, Conns, NoConn

VARIABLES
    lease,      \* lease[c]: the connection client c has, or NoConn
    open        \* the open connections

vars == <<lease, open>>

Init ==
    /\ lease = [c \in Clients |-> NoConn]
    /\ open = {}

Connect(x) ==
    /\ x \in Conns \ open
    /\ open' = open \cup {x}
    /\ UNCHANGED lease

Acquire(c, x) ==
    /\ lease[c] = NoConn
    /\ x \in open
    /\ \A d \in Clients : lease[d] # x
    /\ lease' = [lease EXCEPT ![c] = x]
    /\ UNCHANGED open

Release(c) ==
    /\ lease[c] # NoConn
    /\ lease' = [lease EXCEPT ![c] = NoConn]
    /\ UNCHANGED open

Close(x) ==
    /\ \A c \in Clients : lease[c] # x
    /\ open' = open \ {x}
    /\ UNCHANGED lease

Next ==
    \/ \E x \in Conns : Connect(x) \/ Close(x)
    \/ \E c \in Clients : Release(c) \/ \E x \in Conns : Acquire(c, x)

Spec == Init /\ [][Next]_vars
=============================================================================
