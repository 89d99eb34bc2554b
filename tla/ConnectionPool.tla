--------------------------- MODULE ConnectionPool ---------------------------
(***************************************************************************)
(* The shared pool of JMX connections: JmxConnectionPool configures a      *)
(* commons-pool 1.6 GenericKeyedObjectPool (testOnBorrow, no limits, LIFO) *)
(* over JmxConnectionFactory.  A client that borrows runs outside the      *)
(* pool's lock between taking an idle entry, connecting and validating, so *)
(* these are separate steps here.                                          *)
(*                                                                         *)
(* commons-pool itself is not part of the repository: Allocate,            *)
(* ReturnObject and Evict are modelled from the way the repository         *)
(* configures and calls it and from its published behaviour.               *)
(***************************************************************************)
EXTENDS Integers, Sequences, SequencesExt

CONSTANTS
    Threads,    \* threads of the Quartz scheduler that execute sampling jobs
    Requests,   \* servlet threads that serve "dump now"
    Servers,    \* monitored JVMs: one JMXConnectionParams, the pool's key, each
    Conns,      \* JMXConnector objects that can be created
    NoConn,     \* the null reference, which can be an idle entry as well
    NoKey       \* the null key

Clients == Threads \cup Requests
Keys == Servers \cup {NoKey}

ASSUME PoolAssumption ==
    /\ NoConn \notin Conns
    /\ NoKey \notin Servers
    /\ Threads \cap Requests = {}

VARIABLES
    idle,       \* idle[k]: the idle entries of key k, next to be borrowed first
    numActive,  \* the counter behind ManagedGenericKeyedObjectPool.NumActive
    open,       \* the connectors that are connected and not closed
    home,       \* home[x]: the server connector x was connected to
    pc,         \* where each client is in its handler
    key,        \* connectionParams of each client (NoKey: still null)
    conn        \* the connector each client has: in the states of borrowing the
                \* pool's candidate, afterwards its local variable conn

poolVars == <<idle, numActive, open, home, pc, key, conn>>

Stages == {"idle", "next", "allocate", "connect", "checkIdle", "checkNew",
           "held", "failed", "finally", "abort"}

PoolInit ==
    /\ idle = [k \in Keys |-> <<>>]
    /\ numActive = 0
    /\ open = {}
    /\ home = [x \in Conns |-> NoKey]
    /\ pc = [c \in Clients |-> "idle"]
    /\ key = [c \in Clients |-> NoKey]
    /\ conn = [c \in Clients |-> NoConn]

GoTo(c, stage) == pc' = [pc EXCEPT ![c] = stage]

-----------------------------------------------------------------------------
(* borrowObject *)

\* The first idle entry becomes the candidate, if there is one.
TakeIdle(c) ==
    /\ pc[c] = "allocate"
    /\ idle[key[c]] # <<>>
    /\ conn' = [conn EXCEPT ![c] = Head(idle[key[c]])]
    /\ idle' = [idle EXCEPT ![key[c]] = Tail(@)]
    /\ GoTo(c, "checkIdle")
    /\ UNCHANGED <<numActive, open, home, key>>

\* Without an idle entry the client may create one: maxActive is -1.
MayCreate(c) ==
    /\ pc[c] = "allocate"
    /\ idle[key[c]] = <<>>
    /\ GoTo(c, "connect")
    /\ UNCHANGED <<idle, numActive, open, home, key, conn>>

\* JmxConnectionFactory.makeObject.
Connect(c) ==
    /\ pc[c] = "connect"
    /\ \E x \in Conns :
          /\ home[x] = NoKey
          /\ home' = [home EXCEPT ![x] = key[c]]
          /\ open' = open \cup {x}
          /\ conn' = [conn EXCEPT ![c] = x]
    /\ GoTo(c, "checkNew")
    /\ UNCHANGED <<idle, numActive, key>>

\* The server is down or refuses: borrowObject throws, conn stays null.
ConnectFails(c) ==
    /\ pc[c] = "connect"
    /\ GoTo(c, "failed")
    /\ UNCHANGED <<idle, numActive, open, home, key, conn>>

\* Mutant: a pool without testOnBorrow.
ValidUntested(c) ==
    /\ pc[c] \in {"checkIdle", "checkNew"}
    /\ numActive' = numActive + 1
    /\ GoTo(c, "held")
    /\ UNCHANGED <<idle, open, home, key, conn>>

\* JmxConnectionFactory.validateObject answers true.
Valid(c) ==
    /\ pc[c] \in {"checkIdle", "checkNew"}
    /\ conn[c] \in open
    /\ numActive' = numActive + 1
    /\ GoTo(c, "held")
    /\ UNCHANGED <<idle, open, home, key, conn>>

\* validateObject answers false (IOException) or throws (null candidate).  The
\* candidate is destroyed, errors of destroyObject are swallowed.  An idle one
\* is replaced by the next, for a new one borrowObject throws.
Invalid(c) ==
    /\ pc[c] \in {"checkIdle", "checkNew"}
    /\ open' = open \ {conn[c]}
    /\ conn' = [conn EXCEPT ![c] = NoConn]
    /\ GoTo(c, IF pc[c] = "checkIdle" THEN "allocate" ELSE "failed")
    /\ UNCHANGED <<idle, numActive, home, key>>

Borrow(c) ==
    \/ TakeIdle(c) \/ MayCreate(c)
    \/ Connect(c) \/ ConnectFails(c)
    \/ Valid(c) \/ Invalid(c)

-----------------------------------------------------------------------------
(* returnObject: whatever is returned, null included, goes to the front of *)
(* the key's idle entries, and the counter goes down.                      *)
ReturnObject(k, x) ==
    /\ idle' = [idle EXCEPT ![k] = Cons(x, @)]
    /\ numActive' = numActive - 1

(* The evictor closes an entry that has been idle for five minutes.  Time  *)
(* is not modelled: any idle entry may have been idle for that long.       *)
Evict(k, i) ==
    /\ i \in 1..Len(idle[k])
    /\ idle' = [idle EXCEPT ![k] = RemoveAt(@, i)]
    /\ open' = open \ {idle[k][i]}
    /\ UNCHANGED <<numActive, home, pc, key, conn>>

-----------------------------------------------------------------------------
PoolTypeOK ==
    /\ idle \in [Keys -> Seq(Conns \cup {NoConn})]
    /\ numActive \in Int
    /\ open \in SUBSET Conns
    /\ home \in [Conns -> Keys]
    /\ pc \in [Clients -> Stages]
    /\ key \in [Clients -> Keys]
    /\ conn \in [Clients -> Conns \cup {NoConn}]

IsIdle(x) == \E k \in Keys : \E i \in 1..Len(idle[k]) : idle[k][i] = x

\* No connection is among the idle entries twice.
UniqueIdle ==
    \A k, l \in Keys : \A i \in 1..Len(idle[k]), j \in 1..Len(idle[l]) :
        idle[k][i] = idle[l][j] /\ idle[k][i] # NoConn => k = l /\ i = j

(* A connection has one user at a time between borrowObject and            *)
(* returnObject: no two clients have the same connector, and one that a    *)
(* client has is not among the idle entries, nor is one there twice.       *)
(* (AbstractBaseJob.execute and DetailController.dumpInfoNow borrow and    *)
(* return from many threads.)                                              *)
Exclusive ==
    /\ \A c, d \in Clients : c # d /\ conn[c] # NoConn => conn[c] # conn[d]
    /\ \A c \in Clients : conn[c] # NoConn => ~IsIdle(conn[c])
    /\ UniqueIdle

(* Neither the evictor nor another client's failed validation closes a     *)
(* connection between its borrow and its return.                           *)
HeldOpen ==
    \A c \in Clients :
        /\ pc[c] = "held" => conn[c] # NoConn
        /\ conn[c] # NoConn => conn[c] \in open

(* No connection leaks: every one that is open is an idle entry or in the  *)
(* hands of a client that will return or destroy it.                       *)
NoLeak == \A x \in open : IsIdle(x) \/ \E c \in Clients : conn[c] = x

(* A client gets a connection to the server it asked for, and connections  *)
(* wait under the key of the server they lead to.                          *)
RightServer ==
    /\ \A c \in Clients : conn[c] # NoConn => home[conn[c]] = key[c]
    /\ \A k \in Keys : \A i \in 1..Len(idle[k]) :
          idle[k][i] # NoConn => home[idle[k][i]] = k
=============================================================================
