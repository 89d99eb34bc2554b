----------------------------- MODULE JobControl -----------------------------
(***************************************************************************)
(* The switchboard of the sampling jobs: administrators edit the rows of   *)
(* jmx_task_schedule_job on two pages (EventController.saveJob and         *)
(* JobTaskController.updateCron), JobTaskService carries the edit over to  *)
(* the Quartz scheduler, which lives in memory, and JmxTask.init fills the *)
(* scheduler from the rows when the application starts.                    *)
(*                                                                         *)
(* Each call of the scheduler and of the database is a step of its own.    *)
(* The names of a job and of its group are not editable: a job is its id.  *)
(***************************************************************************)
EXTENDS Integers

CONSTANTS
    Admins,         \* servlet threads that serve the two pages
    Jobs,           \* job_id of the rows; init goes through them in this order
    Crons,          \* cron expressions that parse
    FiniteCrons,    \* those with a last fire time (they name a year)
    Beans,          \* what a job calls: spring id and method name
    Discipline,     \* how the administrators work, see DisciplineSet
    Faults,         \* what may go wrong, see FaultSet
    NotScheduled,
    NoForm

(* "serialized": one edit of a job at a time.  "retry": after an error the *)
(* same form is sent again.  "onePage": updateCron's page is not used.     *)
DisciplineSet == {"serialized", "retry", "onePage"}

(* "db": storing the row may fail.  "restart": the application restarts.   *)
FaultSet == {"db", "restart"}

ASSUME ControlAssumption ==
    /\ Jobs \subseteq Nat
    /\ FiniteCrons \subseteq Crons
    /\ Discipline \subseteq DisciplineSet
    /\ Faults \subseteq FaultSet

Statuses == {"0", "1"}
Rows == [status : Statuses, cron : Crons, bean : Beans]

\* What Quartz holds of a job: its trigger's cron, and the JobDetail with the
\* JmxTaskScheduleJob in its data map, which has an appId or not.
Details == [cron : Crons, bean : Beans, app : BOOLEAN]

Requests == [page : {"save", "cron"}, job : Jobs, form : Rows]

ASSUME SentinelAssumption ==
    /\ NotScheduled \notin Details
    /\ NoForm \notin Rows \cup Requests

VARIABLES
    row,        \* the table jmx_task_schedule_job
    sched,      \* the jobs in the scheduler
    over,       \* finite crons whose last fire time has passed
    pc,         \* where each administrator's request is
    req,        \* the request: its page, job and posted fields
    pending,    \* the form of the last save of a job that ended with an error,
                \* until one succeeds (history)
    tuned       \* jobs whose trigger updateCron's page has set (history)

vars == <<row, sched, over, pc, req, pending, tuned>>

Stages == {"idle", "read", "getTrigger", "schedule", "reschedule", "delete",
           "reload", "readAgain", "getCronTrigger", "rescheduleCron", "store"}

Running(r) == r.status = "1"
Detail(r, app) == [cron |-> r.cron, bean |-> r.bean, app |-> app]

\* JmxTask.init schedules the running rows in order, up to the first that the
\* scheduler refuses because it would never fire: its exception ends the loop.
Loaded(rows, past) ==
    [j \in Jobs |->
        IF /\ Running(rows[j])
           /\ \A i \in Jobs : i <= j /\ Running(rows[i]) => rows[i].cron \notin past
        THEN Detail(rows[j], TRUE)
        ELSE NotScheduled]

Init ==
    /\ row \in [Jobs -> Rows]
    /\ over = {}
    /\ sched = Loaded(row, over)
    /\ pc = [a \in Admins |-> "idle"]
    /\ req = [a \in Admins |-> NoForm]
    /\ pending = [j \in Jobs |-> NoForm]
    /\ tuned = {}

GoTo(a, stage) == pc' = [pc EXCEPT ![a] = stage]
At(a, stage) == pc[a] = stage

Job(a) == req[a].job
Form(a) == req[a].form
Busy(j) == \E a \in Admins : pc[a] # "idle" /\ Job(a) = j

\* The response says success, or names an error.  An error of updateCron's page
\* comes before it has changed anything.
Respond(a, remembered) ==
    /\ GoTo(a, "idle")
    /\ req' = [req EXCEPT ![a] = NoForm]
    /\ pending' = IF req[a].page = "save"
                  THEN [pending EXCEPT ![Job(a)] = remembered]
                  ELSE pending

Succeed(a) == Respond(a, NoForm)
Fail(a) == Respond(a, Form(a))

\* What follows the work on the scheduler: saveJob stores the row, updateCron's
\* page is done.
Proceed(a) ==
    IF req[a].page = "save"
    THEN GoTo(a, "store") /\ UNCHANGED <<req, pending>>
    ELSE Succeed(a)

-----------------------------------------------------------------------------
(* The requests *)

Post(a, request, stage) ==
    /\ At(a, "idle")
    /\ "serialized" \in Discipline => ~Busy(request.job)
    /\ req' = [req EXCEPT ![a] = request]
    /\ GoTo(a, stage)
    /\ UNCHANGED <<row, sched, over, pending, tuned>>

\* EventController.saveJob.
PostSave(a) ==
    \E j \in Jobs, f \in Rows :
        /\ "retry" \in Discipline => pending[j] \in {NoForm, f}
        /\ Post(a, [page |-> "save", job |-> j, form |-> f], "read")

\* JobTaskController.updateCron, which posts the cron expression alone.
PostCron(a) ==
    /\ "onePage" \notin Discipline
    /\ \E j \in Jobs, c \in Crons :
          Post(a, [page |-> "cron", job |-> j, form |-> [row[j] EXCEPT !.cron = c]],
               "readAgain")

\* Mutant: the method is not compared.
NeverReloads(new, old) == FALSE

\* isNeedReloadJob.
NeedsReload(new, old) == new.bean # old.bean

\* Mutant: the cron expression is not compared.
ReadRowForgetsCron(a) ==
    LET old == row[Job(a)]
        new == Form(a)
    IN
    /\ At(a, "read")
    /\ GoTo(a, CASE ~Running(old) /\ Running(new) -> "getTrigger"
                 [] Running(old) /\ ~Running(new) -> "delete"
                 [] Running(old) /\ Running(new) /\ NeedsReload(new, old) -> "reload"
                 [] OTHER -> "store")
    /\ UNCHANGED <<row, sched, over, req, pending, tuned>>

\* saveJob reads the row and decides what the scheduler has to do.
ReadRow(a) ==
    LET old == row[Job(a)]
        new == Form(a)
    IN
    /\ At(a, "read")
    /\ GoTo(a, CASE ~Running(old) /\ Running(new) -> "getTrigger"
                 [] Running(old) /\ ~Running(new) -> "delete"
                 [] Running(old) /\ Running(new) /\ NeedsReload(new, old) -> "reload"
                 [] Running(old) /\ Running(new) /\ ~NeedsReload(new, old)
                      /\ new.cron # old.cron -> "readAgain"
                 [] OTHER -> "store")
    /\ UNCHANGED <<row, sched, over, req, pending, tuned>>

-----------------------------------------------------------------------------
(* JobTaskService *)

\* addJob asks for the trigger,
GetTrigger(a) ==
    /\ At(a, "getTrigger")
    /\ GoTo(a, IF sched[Job(a)] = NotScheduled THEN "schedule" ELSE "reschedule")
    /\ UNCHANGED <<row, sched, over, req, pending, tuned>>

\* and schedules the posted job object, which has no appId: the pages do not
\* post one.  The scheduler refuses a job it has and a trigger that never fires.
Schedule(a) ==
    /\ At(a, "schedule")
    /\ IF sched[Job(a)] = NotScheduled /\ Form(a).cron \notin over
       THEN /\ sched' = [sched EXCEPT ![Job(a)] = Detail(Form(a), FALSE)]
            /\ tuned' = tuned \ {Job(a)}
            /\ Proceed(a)
       ELSE UNCHANGED <<sched, tuned>> /\ Fail(a)
    /\ UNCHANGED <<row, over>>

\* rescheduleJob gives a job that is there a new trigger; its JobDetail stays.
\* Without the job it does nothing and says nothing.
NewTrigger(j, cron) ==
    sched' = IF sched[j] = NotScheduled THEN sched
                                        ELSE [sched EXCEPT ![j].cron = cron]

\* addJob when there was a trigger, and the end of updateJobCron.
Reschedule(a) ==
    /\ At(a, "reschedule") \/ At(a, "rescheduleCron")
    /\ IF Form(a).cron \notin over
       THEN /\ NewTrigger(Job(a), Form(a).cron)
            /\ tuned' = IF req[a].page = "cron" THEN tuned \cup {Job(a)}
                                               ELSE tuned \ {Job(a)}
            /\ Proceed(a)
       ELSE UNCHANGED <<sched, tuned>> /\ Fail(a)
    /\ UNCHANGED <<row, over>>

\* deleteJob, alone and in reloadJob.
Delete(a) ==
    /\ \/ At(a, "delete") /\ GoTo(a, "store")
       \/ At(a, "reload") /\ GoTo(a, "getTrigger")
    /\ sched' = [sched EXCEPT ![Job(a)] = NotScheduled]
    /\ tuned' = tuned \ {Job(a)}
    /\ UNCHANGED <<row, over, req, pending>>

\* updateCron reads the row (again) and leaves a job alone that is not running.
ReadAgain(a) ==
    /\ At(a, "readAgain")
    /\ IF Running(row[Job(a)])
       THEN GoTo(a, "getCronTrigger") /\ UNCHANGED <<req, pending>>
       ELSE Proceed(a)
    /\ UNCHANGED <<row, sched, over, tuned>>

\* updateJobCron asks for the trigger; without one, trigger.getTriggerBuilder()
\* throws a NullPointerException that nobody catches.
GetCronTrigger(a) ==
    /\ At(a, "getCronTrigger")
    /\ IF sched[Job(a)] = NotScheduled
       THEN Fail(a)
       ELSE GoTo(a, "rescheduleCron") /\ UNCHANGED <<req, pending>>
    /\ UNCHANGED <<row, sched, over, tuned>>

\* Mutant: the mapper stores the status even when it is null.
StoreNull(a) ==
    /\ At(a, "store")
    /\ \/ row' = [row EXCEPT ![Job(a)] = [Form(a) EXCEPT !.status = "null"]] /\ Succeed(a)
       \/ "db" \in Faults /\ row' = row /\ Fail(a)
    /\ UNCHANGED <<sched, over, tuned>>

\* updateByPrimaryKeySelective: the row keeps the app_id it has.
Store(a) ==
    /\ At(a, "store")
    /\ \/ row' = [row EXCEPT ![Job(a)] = Form(a)] /\ Succeed(a)
       \/ "db" \in Faults /\ row' = row /\ Fail(a)
    /\ UNCHANGED <<sched, over, tuned>>

-----------------------------------------------------------------------------
(* Quartz and the application server *)

\* The last fire time of a finite cron passes,
TimePasses(c) ==
    /\ c \in FiniteCrons \ over
    /\ over' = over \cup {c}
    /\ UNCHANGED <<row, sched, pc, req, pending, tuned>>

\* and the scheduler drops the trigger with its job once that run has ended.
Complete(j) ==
    /\ sched[j] # NotScheduled /\ sched[j].cron \in over
    /\ sched' = [sched EXCEPT ![j] = NotScheduled]
    /\ tuned' = tuned \ {j}
    /\ UNCHANGED <<row, over, pc, req, pending>>

\* RAMJobStore forgets everything, requests die where they are.
Restart ==
    /\ "restart" \in Faults
    /\ sched' = Loaded(row, over)
    /\ pc' = [a \in Admins |-> "idle"]
    /\ req' = [a \in Admins |-> NoForm]
    /\ pending' = [j \in Jobs |-> NoForm]
    /\ tuned' = {}
    /\ UNCHANGED <<row, over>>

-----------------------------------------------------------------------------
Serve(a) ==
    \/ ReadRow(a) \/ GetTrigger(a) \/ Schedule(a) \/ Reschedule(a)
    \/ Delete(a) \/ ReadAgain(a) \/ GetCronTrigger(a) \/ Store(a)

Next ==
    \/ \E a \in Admins : PostSave(a) \/ PostCron(a) \/ Serve(a)
    \/ \E c \in Crons : TimePasses(c)
    \/ \E j \in Jobs : Complete(j)
    \/ Restart

Spec == Init /\ [][Next]_vars

-----------------------------------------------------------------------------
(* Properties *)

TypeOK ==
    /\ row \in [Jobs -> Rows]
    /\ sched \in [Jobs -> Details \cup {NotScheduled}]
    /\ over \in SUBSET FiniteCrons
    /\ pc \in [Admins -> Stages]
    /\ req \in [Admins -> Requests \cup {NoForm}]
    /\ \A a \in Admins : pc[a] = "idle" <=> req[a] = NoForm
    /\ pending \in [Jobs -> Rows \cup {NoForm}]
    /\ tuned \in SUBSET Jobs

\* No request works on job j, and the last save of it was a success.
Settled(j) == ~Busy(j) /\ pending[j] = NoForm

Scheduled(j) == sched[j] # NotScheduled

(* What the page shows is what the scheduler does: a job that is scheduled  *)
(* is one whose row says running, with the bean of the row, so that setting *)
(* it to disabled stops it; and while no cron expression comes to its end,  *)
(* every job whose row says running is scheduled.  (Edits of a job one at a *)
(* time, a failed one sent again until it goes through: EventController.    *)
(* saveJob, JobTaskService, JmxTask.init.)                                  *)
SwitchAgrees ==
    \A j \in Jobs : Settled(j) =>
        /\ Scheduled(j) => Running(row[j]) /\ sched[j].bean = row[j].bean
        /\ over = {} /\ Running(row[j]) => Scheduled(j)

(* The trigger of a scheduled job has the cron expression of its row, but  *)
(* for what JobTaskController.updateCron has given it: that one is not     *)
(* stored.                                                                 *)
CronAgrees ==
    \A j \in Jobs \ tuned :
        Settled(j) /\ Scheduled(j) => sched[j].cron = row[j].cron

(* JmxTaskScheduleJob.appId, "the id of the job's application": the job    *)
(* that is scheduled has it, or it would sample no server.                 *)
AppKept == \A j \in Jobs : Scheduled(j) => sched[j].app
=============================================================================
