---------------------------- MODULE SamplingJobs ----------------------------
(***************************************************************************)
(* The executions of the sampling jobs (AbstractBaseJob.execute and its    *)
(* subclasses) on the threads of the Quartz scheduler, together with the   *)
(* synchronous dump of the web interface (DetailController.dumpInfoNow),   *)
(* over the shared pool of connections.                                    *)
(*                                                                         *)
(* doExecute starts a thread of its own (a "task") and returns at once, so *)
(* the execution gives the connection back while the task still uses it.   *)
(***************************************************************************)
EXTENDS ConnectionPool, FiniteSets

CONSTANTS
    Jobs,           \* scheduled jobs
    ServersOf,      \* ServersOf[j]: the servers of the application of job j
    Concurrent,     \* jobs with is_concurrent = "1" (QuartzJobFactory)
    SampledJobs,    \* jobs that run ServerJob, which reads its sample ids first
    DbMayFail,      \* may a database call throw?
    NoJob,
    MaxFires        \* bound: how often triggers fire

ASSUME JobsAssumption ==
    /\ ServersOf \in [Jobs -> SUBSET Servers]
    /\ Concurrent \subseteq Jobs
    /\ SampledJobs \subseteq Jobs
    /\ DbMayFail \in BOOLEAN
    /\ NoJob \notin Jobs
    /\ MaxFires \in Nat

\* The scheduler and the servlet container have pools of threads.
ASSUME ClientsAssumption == IsFiniteSet(Clients)

\* The servers are rows of a table.
ASSUME ServersAssumption == IsFiniteSet(Servers)

VARIABLES
    job,        \* job[t]: the job thread t executes
    todo,       \* todo[t]: the servers of the list t has not come to
    tasks,      \* tasks[j][x]: how many tasks of job j run with connector x
    missed,     \* servers some execution never came to (history)
    fires       \* how often triggers have fired (bounds the model)

jobVars == <<job, todo, tasks, missed, fires>>
vars == <<poolVars, jobVars>>

Init ==
    /\ PoolInit
    /\ job = [t \in Threads |-> NoJob]
    /\ todo = [t \in Threads |-> {}]
    /\ tasks = [j \in Jobs |-> [x \in Conns |-> 0]]
    /\ missed = {}
    /\ fires = 0

-----------------------------------------------------------------------------
(* The execution of a job *)

\* A trigger fires and a thread reads the list of the servers with jmx_status 1
\* of the job's application.  Users switch servers on and off at any time, so
\* the list is any part of them; with an empty one the execution returns at
\* once.  With DisallowConcurrentExecution the trigger of a job waits until the
\* execution has returned.
Fire(t, j) ==
    /\ fires < MaxFires
    /\ pc[t] = "idle"
    /\ j \in Concurrent \/ \A u \in Threads : job[u] # j
    /\ job' = [job EXCEPT ![t] = j]
    /\ \E list \in SUBSET ServersOf[j] \ {{}} : todo' = [todo EXCEPT ![t] = list]
    /\ fires' = fires + 1
    /\ GoTo(t, "next")
    /\ UNCHANGED <<idle, numActive, open, home, key, conn, tasks, missed>>

\* transforming and the connection parameters of the next server of the list.
Take(t, s, k, stage) ==
    /\ pc[t] = "next"
    /\ s \in todo[t]
    /\ todo' = [todo EXCEPT ![t] = @ \ {s}]
    /\ key' = [key EXCEPT ![t] = k]
    /\ GoTo(t, stage)
    /\ UNCHANGED <<idle, numActive, open, home, conn,
                   job, tasks, missed, fires>>

TakeServer(t, s) == Take(t, s, s, "allocate")

\* The row has no address: getJmxServiceURL throws, connectionParams is null.
TakeAddressless(t, s) == Take(t, s, NoKey, "failed")

\* Mutant: a server without samples ends the execution (return for continue).
TakeUnsampledReturns(t, s) ==
    /\ job[t] \in SampledJobs
    /\ Take(t, s, NoKey, "abort")

\* ServerJob.transforming answers null for an application without samples:
\* continue, and finally.
TakeUnsampled(t, s) ==
    /\ job[t] \in SampledJobs
    /\ Take(t, s, NoKey, "finally")

\* The query of ServerJob.transforming throws: server is null, the handler of
\* the exception throws again at server.getHostId().
TakeDbFails(t, s) ==
    /\ DbMayFail
    /\ job[t] \in SampledJobs
    /\ Take(t, s, NoKey, "abort")

\* Mutant: the connection goes back when the task is started, and again in
\* finally.
StartTaskReturns(t) ==
    /\ pc[t] = "held"
    /\ tasks' = [tasks EXCEPT ![job[t]][conn[t]] = @ + 1]
    /\ ReturnObject(key[t], conn[t])
    /\ GoTo(t, "finally")
    /\ UNCHANGED <<open, home, key, conn, job, todo, missed, fires>>

\* buildQueries and doExecute: the task runs from here on.
StartTask(t) ==
    /\ pc[t] = "held"
    /\ tasks' = [tasks EXCEPT ![job[t]][conn[t]] = @ + 1]
    /\ GoTo(t, "finally")
    /\ UNCHANGED <<idle, numActive, open, home, key, conn, job, todo, missed, fires>>

\* getMBeanServerConnection, buildQueries or the synchronous dump throws.
UseFails(c) ==
    /\ pc[c] = "held"
    /\ GoTo(c, "failed")
    /\ UNCHANGED <<idle, numActive, open, home, key, conn, jobVars>>

\* Mutant: the handler of the exception returns the connection as well.
RecordFailureReturns(c) ==
    /\ pc[c] = "failed"
    /\ ReturnObject(key[c], conn[c])
    /\ GoTo(c, "finally")
    /\ UNCHANGED <<open, home, key, conn, jobVars>>

\* Mutant: the handler of the exception tries again.
RecordFailureRetries(c) ==
    /\ pc[c] = "failed"
    /\ GoTo(c, IF key[c] \in Servers THEN "allocate" ELSE "finally")
    /\ conn' = [conn EXCEPT ![c] = NoConn]
    /\ UNCHANGED <<idle, numActive, open, home, key, jobVars>>

\* catch: a row of JmxConnectionFail.
RecordFailure(c) ==
    /\ pc[c] = "failed"
    /\ GoTo(c, "finally")
    /\ UNCHANGED <<idle, numActive, open, home, key, conn, jobVars>>

\* addFailRecord throws: finally still runs, then the exception leaves execute.
RecordingFails(c) ==
    /\ DbMayFail
    /\ pc[c] = "failed"
    /\ GoTo(c, "abort")
    /\ UNCHANGED <<idle, numActive, open, home, key, conn, job, todo, tasks, missed, fires>>

\* Mutant: the connection is returned after the handler and not in finally, so
\* that an exception of the handler skips it.
FinallyNotAfterAbort(t) ==
    LET ends == pc[t] = "abort" \/ todo[t] = {} IN
    /\ pc[t] \in {"finally", "abort"}
    /\ IF pc[t] = "abort"
       THEN UNCHANGED <<idle, numActive>>
       ELSE ReturnObject(key[t], conn[t])
    /\ key' = [key EXCEPT ![t] = NoKey]
    /\ conn' = [conn EXCEPT ![t] = NoConn]
    /\ GoTo(t, IF ends THEN "idle" ELSE "next")
    /\ job' = [job EXCEPT ![t] = IF ends THEN NoJob ELSE @]
    /\ todo' = [todo EXCEPT ![t] = IF ends THEN {} ELSE @]
    /\ missed' = IF ends THEN missed \cup todo[t] ELSE missed
    /\ UNCHANGED <<open, home, tasks, fires>>

\* Mutant: the connection is returned with the parameters of a variable that the
\* loop has reset before.
FinallyForgetsKey(t) ==
    LET ends == pc[t] = "abort" \/ todo[t] = {} IN
    /\ pc[t] \in {"finally", "abort"}
    /\ ReturnObject(NoKey, conn[t])
    /\ key' = [key EXCEPT ![t] = NoKey]
    /\ conn' = [conn EXCEPT ![t] = NoConn]
    /\ GoTo(t, IF ends THEN "idle" ELSE "next")
    /\ job' = [job EXCEPT ![t] = IF ends THEN NoJob ELSE @]
    /\ todo' = [todo EXCEPT ![t] = IF ends THEN {} ELSE @]
    /\ missed' = IF ends THEN missed \cup todo[t] ELSE missed
    /\ UNCHANGED <<open, home, tasks, fires>>

\* finally of AbstractBaseJob.execute: returns connectionParams and conn even
\* when they are null; then the next server, or the end of the execution.
Finally(t) ==
    LET ends == pc[t] = "abort" \/ todo[t] = {} IN
    /\ pc[t] \in {"finally", "abort"}
    /\ ReturnObject(key[t], conn[t])
    /\ key' = [key EXCEPT ![t] = NoKey]
    /\ conn' = [conn EXCEPT ![t] = NoConn]
    /\ GoTo(t, IF ends THEN "idle" ELSE "next")
    /\ job' = [job EXCEPT ![t] = IF ends THEN NoJob ELSE @]
    /\ todo' = [todo EXCEPT ![t] = IF ends THEN {} ELSE @]
    /\ missed' = IF ends THEN missed \cup todo[t] ELSE missed
    /\ UNCHANGED <<open, home, tasks, fires>>

-----------------------------------------------------------------------------
(* The tasks and the web interface *)

\* A task ends, normally or with an exception of its own.
EndTask(j, x) ==
    /\ tasks[j][x] > 0
    /\ tasks' = [tasks EXCEPT ![j][x] = @ - 1]
    /\ UNCHANGED <<poolVars, job, todo, missed, fires>>

\* dumpInfoNow: for a server with jmx_status 1; its row may have no address.
DumpNow(r, s) ==
    /\ pc[r] = "idle"
    /\ \/ key' = [key EXCEPT ![r] = s] /\ GoTo(r, "allocate")
       \/ key' = key /\ GoTo(r, "failed")
    /\ UNCHANGED <<idle, numActive, open, home, conn, jobVars>>

\* The dump is made before the connection is returned (it swallows its errors).
Dump(r) ==
    /\ pc[r] = "held"
    /\ GoTo(r, "finally")
    /\ UNCHANGED <<idle, numActive, open, home, key, conn, jobVars>>

\* finally of dumpInfoNow: nothing is returned when nothing was borrowed.
EndRequest(r) ==
    /\ pc[r] \in {"finally", "abort"}
    /\ IF conn[r] = NoConn
       THEN UNCHANGED <<idle, numActive>>
       ELSE ReturnObject(key[r], conn[r])
    /\ key' = [key EXCEPT ![r] = NoKey]
    /\ conn' = [conn EXCEPT ![r] = NoConn]
    /\ GoTo(r, "idle")
    /\ UNCHANGED <<open, home, jobVars>>

-----------------------------------------------------------------------------
Execute(t) ==
    \/ Borrow(t) /\ UNCHANGED jobVars
    \/ \E s \in Servers : \/ TakeServer(t, s) \/ TakeAddressless(t, s)
                          \/ TakeUnsampled(t, s) \/ TakeDbFails(t, s)
    \/ StartTask(t) \/ UseFails(t)
    \/ RecordFailure(t) \/ RecordingFails(t) \/ Finally(t)

Serve(r) ==
    \/ Borrow(r) /\ UNCHANGED jobVars
    \/ Dump(r) \/ UseFails(r)
    \/ RecordFailure(r) \/ RecordingFails(r) \/ EndRequest(r)

Next ==
    \/ \E t \in Threads : Execute(t) \/ \E j \in Jobs : Fire(t, j)
    \/ \E r \in Requests : Serve(r) \/ \E s \in Servers : DumpNow(r, s)
    \/ \E j \in Jobs, x \in Conns : EndTask(j, x)
    \/ \E k \in Keys : \E i \in 1..Len(idle[k]) :
          Evict(k, i) /\ UNCHANGED jobVars

Spec == Init /\ [][Next]_vars

\* Threads that execute a job, serve a request or run a task are scheduled, and
\* each of their steps ends (connecting and validating by answer or timeout).
\* Triggers, users and the evictor owe nothing.
Fairness ==
    /\ \A t \in Threads : WF_vars(Execute(t))
    /\ \A r \in Requests : WF_vars(Serve(r))
    /\ \A j \in Jobs, x \in Conns : WF_vars(EndTask(j, x))

FairSpec == Spec /\ Fairness

-----------------------------------------------------------------------------
(* Properties *)

TypeOK ==
    /\ PoolTypeOK
    /\ job \in [Threads -> Jobs \cup {NoJob}]
    /\ todo \in [Threads -> SUBSET Servers]
    /\ tasks \in [Jobs -> [Conns -> Nat]]
    /\ missed \in SUBSET Servers
    /\ fires \in Nat

(* The null that an execution returns after a failed borrow stays behind as *)
(* an idle entry.  A server that is down for long does not pile them up:    *)
(* there are never more than threads, since borrowing fails only after all  *)
(* the entries are used up (AbstractBaseJob.execute, finally).  Under the   *)
(* null key, which nobody borrows from, they do pile up: one for each       *)
(* server of each execution that had no parameters for it, and no more.     *)
Nulls(k) == {i \in 1..Len(idle[k]) : idle[k][i] = NoConn}

NullsBounded ==
    /\ \A s \in Servers : Cardinality(Nulls(s)) <= Cardinality(Threads)
    /\ Cardinality(Nulls(NoKey)) <= fires * Cardinality(Servers)

(* NumActive, which operators read over JMX, never shows more connections  *)
(* than are in use: every borrow is followed by its return, whatever fails *)
(* in between.  (It may show less: nulls are returned too.)                *)
InUse == {c \in Clients : pc[c] \in {"held", "failed", "finally", "abort"}
                            /\ conn[c] # NoConn}

NumActiveNeverOverstates == numActive <= Cardinality(InUse)

(* A server that is down, has no address or no samples does not keep the   *)
(* rest of the list from being sampled: an execution leaves servers out    *)
(* only when the database itself failed.                                   *)
NothingMissed == ~DbMayFail => missed = {}

(* Every execution and every request comes to its end: borrowing does not  *)
(* go round for ever over dead idle entries.                               *)
ExecutionsEnd == \A c \in Clients : pc[c] # "idle" ~> pc[c] = "idle"

\* The servers client c has yet to come to,
Left(c) == IF c \in Threads THEN todo[c] ELSE {}

\* and how much of its handler is before it, for the server it is at.
Ahead == [allocate |-> 6, checkIdle |-> 6, connect |-> 5, checkNew |-> 4, held |-> 3,
          failed |-> 2, finally |-> 1, abort |-> 1, next |-> 0, idle |-> 0]

\* Client c goes round once more over the idle entries of its server.
TakesEntry(c) ==
    /\ pc[c] = "allocate" /\ pc'[c] = "checkIdle"
    /\ idle[key[c]] # <<>> /\ idle'[key[c]] = Tail(idle[key[c]])

DropsEntry(c) ==
    /\ pc[c] = "checkIdle" /\ pc'[c] = "allocate"
    /\ idle' = idle /\ conn[c] \notin open'

\* A step of client c at work leaves it fewer servers to come to, or less to do
\* for the one it is at, or one entry less to borrow.
Nearer(c) ==
    pc[c] # "idle" /\ pc'[c] # pc[c] =>
        \/ Left(c)' \subseteq Left(c) /\ Left(c)' # Left(c)
        \/ /\ Left(c)' = Left(c)
           /\ Ahead[pc'[c]] < Ahead[pc[c]] \/ TakesEntry(c) \/ DropsEntry(c)

(* An execution or a request never goes back in its handler, but for the    *)
(* turns of borrowing, and each of those takes a dead entry out of the pool *)
(* for good: there are as many turns as idle entries and no more.           *)
AlwaysNearer == [][\A c \in Clients : Nearer(c)]_vars

(* A task runs on a server of its job's application, whoever borrows its    *)
(* connection afterwards and whatever else failed in the same execution     *)
(* (the variables of AbstractBaseJob.execute outlive a turn of its loop).   *)
TasksAtHome ==
    \A j \in Jobs, x \in Conns : tasks[j][x] > 0 => home[x] \in ServersOf[j]

(* The pool keeps the promise of Lease to its clients.                     *)
lease == [c \in Clients |->
            IF pc[c] \in {"held", "failed", "finally", "abort"}
            THEN conn[c] ELSE NoConn]

Leases == INSTANCE Lease WITH Clients <- Clients, Conns <- Conns, NoConn <- NoConn,
                              lease <- lease, open <- open
LeaseSpec == Leases!Spec

(* QuartzJobFactoryDisallowConcurrentExecution: the next run of a job waits *)
(* until the last one is finished.  (Concurrent jobs are exempt.)           *)
NoOverlap ==
    \A j \in Jobs \ Concurrent : \A x, y \in Conns :
        tasks[j][x] > 0 /\ tasks[j][y] > 0 /\ home[x] = home[y] =>
            x = y /\ tasks[j][x] = 1
=============================================================================
