----------------------------- MODULE ThreadDumps -----------------------------
(***************************************************************************)
(* Thread dumps of a server: those the writers and detections order from   *)
(* ThreadDumpScheduler, whose job fires several times, and the one a user  *)
(* asks for.  A firing sets the file's path in the dumpInfo of its order,  *)
(* asks the server for its threads, writes them to the file and saves a    *)
(* row with the path.  The job may run in several threads at once, and all *)
(* firings of an order have the same dumpInfo: RAMJobStore copies the map  *)
(* of a job, not what is in it.                                            *)
(***************************************************************************)
EXTENDS Naturals, Sequences

CONSTANTS
    Orders,     \* orders of dumps, each with a dumpInfo of its own
    Manual,     \* those of a user, which are dumped once
    Readings,   \* the clock's readings, in time
    NoDump,     \* content of a file that is missing, empty or damaged
    Faults,     \* what may fail: "remote", "file", "db"; "restart" happens
    MaxCount    \* bound: how often an order fires

Firings == Orders \X (1 .. MaxCount)

ASSUME DumpsAssumption ==
    /\ Manual \subseteq Orders
    /\ Readings \in Seq([hour : Nat, minute : Nat, second : Nat, ms : Nat])
    /\ Readings # <<>>
    /\ NoDump \notin Firings
    /\ Faults \subseteq {"remote", "file", "db", "restart"}
    /\ MaxCount \in Nat

\* The digits of b appended to those of a; b is at most a thousand.
Append3(a, b) == b + a * (IF b < 10 THEN 10 ELSE IF b < 100 THEN 100 ELSE 1000)

\* The file's name: date (the leading 1), hour, minute and milliseconds, without
\* padding.
ThreadDumpFilePath(t) == Append3(Append3(Append3(1, t.hour), t.minute), t.ms)

Name(i) == ThreadDumpFilePath(Readings[i])

Names == {Name(i) : i \in DOMAIN Readings}

VARIABLES
    now,    \* index of the clock's reading
    count,  \* count[o]: how often order o is to fire; 0 before it is given
    fired,  \* fired[o]: how often it has fired
    stage,  \* stage[f]: what firing f does next
    begun,  \* begun[f]: the reading at which f began; 0 before
    paths,  \* paths[f]: what f may find in dumpInfo.filePath
    target, \* target[f]: the name under which f has opened its file
    files,  \* files[n]: the firing whose dump is the content of file n
    rows,   \* the table jmx_dump
    failed, \* history: firings whose write has failed
    mixed   \* history: firings at work together with another of their order

vars == <<now, count, fired, stage, begun, paths, target, files, rows, failed, mixed>>

Stages == {"none", "dump", "fill", "save", "done", "lost"}

Active(f) == stage[f] \in {"dump", "fill", "save"}

NameOf(f) == Name(begun[f])

Init ==
    /\ now = 1
    /\ count = [o \in Orders |-> 0]
    /\ fired = [o \in Orders |-> 0]
    /\ stage = [f \in Firings |-> "none"]
    /\ begun = [f \in Firings |-> 0]
    /\ paths = [f \in Firings |-> {}]
    /\ target = [f \in Firings |-> Name(1)]
    /\ files = [n \in Names |-> NoDump]
    /\ rows = {}
    /\ failed = {}
    /\ mixed = {}

----------------------------------------------------------------------------
Goto(f, s) == stage' = [stage EXCEPT ![f] = s]

\* The job is scheduled with the application's count; a user's dump is taken
\* by the request itself.
Order(o) ==
    /\ count[o] = 0
    /\ \E n \in 1 .. MaxCount :
        /\ o \in Manual => n = 1
        /\ count' = [count EXCEPT ![o] = n]
    /\ UNCHANGED <<now, fired, stage, begun, paths, target, files, rows, failed, mixed>>

\* Mutant: the path is set when the job is scheduled.
SetFilePathOnce(f, n) ==
    paths' = [paths EXCEPT ![f] = IF f[2] = 1 THEN {n} ELSE paths[<<f[1], 1>>]]

\* Mutant: the orders have one dumpInfo between them.
SetFilePathShared(f, n) ==
    paths' = [g \in Firings |-> IF g = f THEN {n}
                                ELSE IF Active(g) THEN paths[g] \cup {n} ELSE paths[g]]

\* dumpInfo.setFilePath: a firing of the same order that is under way may read
\* the new path from now on, or still its own, as nothing orders the two threads.
SetFilePath(f, n) ==
    paths' = [g \in Firings |-> IF g = f THEN {n}
                                ELSE IF g[1] = f[1] /\ Active(g) THEN paths[g] \cup {n}
                                ELSE paths[g]]

\* Firings of order o that are under way: ThreadDumpJob does not forbid a second.
UnderWay(o) == {g \in Firings : g[1] = o /\ Active(g)}

Fire(o) ==
    LET f == <<o, fired[o] + 1>> IN
    /\ fired[o] < count[o]
    /\ fired' = [fired EXCEPT ![o] = @ + 1]
    /\ begun' = [begun EXCEPT ![f] = now]
    /\ SetFilePath(f, Name(now))
    /\ Goto(f, "dump")
    /\ mixed' = mixed \cup (IF UnderWay(o) = {} THEN {} ELSE UnderWay(o) \cup {f})
    /\ UNCHANGED <<now, count, target, files, rows, failed>>

\* Mutant: the exception leaves the job, and Quartz drops its trigger.
DumpFailsForGood(f) ==
    /\ stage[f] = "dump"
    /\ "remote" \in Faults
    /\ Goto(f, "done")
    /\ fired' = [fired EXCEPT ![f[1]] = count[f[1]]]
    /\ UNCHANGED <<now, count, begun, paths, target, files, rows, failed, mixed>>

\* The server cannot be asked, or has no threads to show.
DumpFails(f) ==
    /\ stage[f] = "dump"
    /\ "remote" \in Faults
    /\ Goto(f, "done")
    /\ UNCHANGED <<now, count, fired, begun, paths, target, files, rows, failed, mixed>>

\* With the dump at hand the file is created, or emptied when it is there.
Open(f) ==
    /\ stage[f] = "dump"
    /\ \E n \in paths[f] :
        /\ target' = [target EXCEPT ![f] = n]
        /\ files' = [files EXCEPT ![n] = NoDump]
    /\ Goto(f, "fill")
    /\ UNCHANGED <<now, count, fired, begun, paths, rows, failed, mixed>>

\* FilePrintWriter logs its exceptions, and the row is saved all the same.
OpenFails(f) ==
    /\ stage[f] = "dump"
    /\ "file" \in Faults
    /\ failed' = failed \cup {f}
    /\ Goto(f, "save")
    /\ UNCHANGED <<now, count, fired, begun, paths, target, files, rows, mixed>>

\* The dump replaces what another writer has put into the same file since, up
\* to a rest of it when that was longer.
Fill(f) ==
    /\ stage[f] = "fill"
    /\ \E c \in {f, NoDump} :
        /\ c = NoDump => files[target[f]] # NoDump
        /\ files' = [files EXCEPT ![target[f]] = c]
    /\ Goto(f, "save")
    /\ UNCHANGED <<now, count, fired, begun, paths, target, rows, failed, mixed>>

FillFails(f) ==
    /\ stage[f] = "fill"
    /\ "file" \in Faults
    /\ \E c \in {files[target[f]], NoDump} : files' = [files EXCEPT ![target[f]] = c]
    /\ failed' = failed \cup {f}
    /\ Goto(f, "save")
    /\ UNCHANGED <<now, count, fired, begun, paths, target, rows, mixed>>

\* The row has the path that is in dumpInfo now.
Save(f) ==
    /\ stage[f] = "save"
    /\ \E n \in paths[f] : rows' = rows \cup {[dump |-> f, path |-> n]}
    /\ Goto(f, "done")
    /\ UNCHANGED <<now, count, fired, begun, paths, target, files, failed, mixed>>

SaveFails(f) ==
    /\ stage[f] = "save"
    /\ "db" \in Faults
    /\ Goto(f, "done")
    /\ UNCHANGED <<now, count, fired, begun, paths, target, files, rows, failed, mixed>>

\* The application ends and is started again: the firings to come and those at
\* work are gone, files and rows stay.
Restart ==
    /\ "restart" \in Faults
    /\ fired' = count
    /\ stage' = [f \in Firings |->
                   IF Active(f) \/ f[2] \in fired[f[1]] + 1 .. count[f[1]] THEN "lost"
                   ELSE stage[f]]
    /\ UNCHANGED <<now, count, begun, paths, target, files, rows, failed, mixed>>

Tick ==
    /\ now < Len(Readings)
    /\ now' = now + 1
    /\ UNCHANGED <<count, fired, stage, begun, paths, target, files, rows, failed, mixed>>

\* The thread of a firing.
Execute(f) ==
    \/ DumpFails(f) \/ Open(f) \/ OpenFails(f) \/ Fill(f) \/ FillFails(f)
    \/ Save(f) \/ SaveFails(f)

Next ==
    \/ Tick \/ Restart
    \/ \E o \in Orders : Order(o) \/ Fire(o)
    \/ \E f \in Firings : Execute(f)

Spec == Init /\ [][Next]_vars

\* Quartz fires what is due, threads are scheduled, and remote calls, files and
\* the database answer or fail.
FairSpec ==
    /\ Spec
    /\ \A o \in Orders : WF_vars(Fire(o))
    /\ \A f \in Firings : WF_vars(Execute(f))

----------------------------------------------------------------------------
(* Properties *)

\* Every variable has its type; an order fires no more often than asked for.
TypeOK ==
    /\ now \in DOMAIN Readings
    /\ count \in [Orders -> 0 .. MaxCount]
    /\ fired \in [Orders -> 0 .. MaxCount]
    /\ \A o \in Orders : fired[o] <= count[o]
    /\ stage \in [Firings -> Stages]
    /\ begun \in [Firings -> {0} \cup DOMAIN Readings]
    /\ paths \in [Firings -> SUBSET Names]
    /\ target \in [Firings -> Names]
    /\ files \in [Names -> Firings \cup {NoDump}]
    /\ rows \subseteq [dump : Firings, path : Names]
    /\ failed \subseteq Firings
    /\ mixed \subseteq Firings

\* Another firing has the same file name.
Shared(f) == \E g \in Firings \ {f} : begun[g] # 0 /\ NameOf(g) = NameOf(f)

\* The path in a row leads to the dump for which the row was saved, unless that
\* dump could not be written, another has the same file name or the next one of
\* the order came before this one had ended: what a user downloads is complete
\* and is what the row says.
RowsOwnDump ==
    \A r \in rows : \/ files[r.path] = r.dump
                    \/ r.dump \in failed \cup mixed
                    \/ Shared(r.dump)

\* A firing of order o has the file name n.
Named(n, o) == \E g \in Firings : g[1] = o /\ begun[g] # 0 /\ NameOf(g) = n

\* However the firings overlap, fail or are lost, a row leads to a file of its
\* order, named by this firing or by one that began later, and what is in the file
\* is of an order that has the name: a row of one server never leads to the dump of
\* another one, unless both have the name.
RowsKeepOrder ==
    \A r \in rows :
        /\ \E g \in Firings : /\ g[1] = r.dump[1]
                              /\ begun[r.dump] \in 1 .. begun[g]
                              /\ NameOf(g) = r.path
        /\ files[r.path] # NoDump => Named(r.path, files[r.path][1])

\* An order skips none of its firings: each it has come past was begun or was
\* lost with a restart, and none is begun ahead of its turn.
FiringsInTurn ==
    \A f \in Firings :
        /\ f[2] <= fired[f[1]] => stage[f] # "none"
        /\ Active(f) => f[2] <= fired[f[1]]

\* A dump leaves a row, and only one, when server and database answer: also the
\* one whose file could not be written.
DumpsRecorded ==
    {"remote", "db"} \cap Faults = {} =>
        \A f \in Firings :
            stage[f] = "done" => \E r \in rows : {s \in rows : s.dump = f} = {r}

\* Every order comes to its end with all its firings but those that a restart
\* has taken: a failing firing does not take the next ones with it.
OrdersFulfilled ==
    \A o \in Orders :
        count[o] # 0 ~> \A n \in 1 .. count[o] : stage[<<o, n>>] \in {"done", "lost"}
=============================================================================
