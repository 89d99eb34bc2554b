# A specification of jmx-watcher

jmx-watcher watches the JVMs of an organisation over JMX: jobs of a Quartz
scheduler connect to each monitored server, run queries on its MBeans, store
the samples in MySQL, and take thread dumps when a sample passes a threshold; a
web interface shows the samples, edits servers, thresholds and jobs, and takes
dumps on demand. The program is Java (Spring, Quartz 2.2.1 with RAMJobStore,
commons-pool 1.6, MyBatis) in three Maven modules: `jmx-base` (rows, DAOs,
services, the glue to Quartz), `jmx-core` (pool, jobs, queries, writers,
dumps) and `jmx-front` (controllers, pages, the servlet that starts the jobs).
Its unit tests hardly touch any of this behaviour.

This directory holds TLA+ modules of the parts where threads, failures and
state in two places meet, configurations that check them with TLC on small
instances, and theorems proved with TLAPS for every size. `PROJECT.json` names,
for every definition, the lines of the source it stands for.

## 1. Inventory

### Connection pool
*Code:* `connections/*`, `management/ManagedGenericKeyedObjectPool`.
*State:* per server (a `JMXConnectionParams`, compared by url and environment)
a LIFO of idle connectors, the counter `numActive` shown over JMX as
`NumActive`. *Operations:* borrow (take an idle entry or connect; validate with
`getConnectionId`; destroy what is invalid), return, evict after five minutes.
*Clients:* every sampling job and "dump now". *Hard:* connecting and validating
run outside the pool's lock; a null is returned after a failed borrow.
*Correct when* a connection has one user, is open while used, does not leak,
leads to the server asked for, the nulls of a server do not pile up, the counter is not
too high. (Under the null key, with which a server without parameters is returned, nulls
do pile up: one for each such server of each execution, until the evictor takes them.)

### Sampling job executions
*Code:* `jobs/AbstractBaseJob` and its subclasses, `quartz/TaskUtils`,
`quartz/QuartzJobFactory*`. *State:* the local variables of an execution:
the list of servers still to come, `server`, `connectionParams`, `conn`.
*Operations:* a trigger fires; per server: transform, borrow, build the queries,
start a thread with the sampling task, record a failure, return the connection.
*Hard:* ten scheduler threads, exceptions at each step (also inside the
exception handler), tasks that outlive the execution and its hold on the
connection. *Correct when* one bad server does not keep the others from being
sampled, each borrow has its return, executions end.

### Queries, output writers and thresholds
*Code:* `util/JmxUtils`, `process/JmxQueryProcessor`, `model/output/*`,
`SystemThresholdService`. *State:* one memory row per sampling with the flag
"abnormal", rows for threads, data sources, collections and other beans.
*Operations:* run each query of a server, convert its results, compare
them with thresholds, insert or update rows, take a thread dump. *Hard:* several
queries write one row; a failed query ends the rest of its names; rows are
counted first and inserted then; several tasks of one server. *Correct when* the
flag tells the truth, an exceeded threshold leads to one dump, values of one
query are not lost by the next.

### Thread dumps
*Code:* `scheduler/*DumpScheduler`, `jobs/ThreadDumpJob`,
`process/JmxThreadDumpProcessor`, `model/output/FilePrintWriter`,
`ThreadService`. *State:* the dump job of a server in the scheduler, the shared
`dumpInfo`, files, rows that point to files. *Operations:* schedule `count`
firings at an interval, dump to a file, save the row; "dump now"; download.
*Hard:* firings overlap on the shared object; names collide; the
writer hides its errors.

### Job control
*Code:* `EventController.saveJob`, `JobTaskController.updateCron`,
`JobTaskService`, `JmxTask.init`, `JmxTaskScheduleJobMapper.xml`. *State:* the
rows of `jmx_task_schedule_job`, the scheduler's jobs with their triggers (in
memory only). *Operations:* save a job, change its cron expression, load all
running rows at start, the completion of a trigger. *Hard:* row and scheduler
are changed one after the other without a lock; failures between; restarts.
*Correct when* what is scheduled is what the rows ask for.

### Detection of CPU load and deadlocks
*Code:* `JmxCpuUsageDetection`, `JmxThreadDeadLockDetection`. Measurements of one
remote JVM in the task's own thread; no state that outlives the task.

### Settings page and thresholds
*Code:* `views/appsetting-widget-view.js`, `EventController.saveParam`,
`SystemThresholdService.saveParam`, `JmxParameterMapper.xml`. *State:* rows of the
parameters of an application, the inputs of each open page. *Operations:* query the
page, type, save; saving counts the rows of the parameter and then inserts or
updates; the detection of CPU load selects the one value. *Hard:* no transaction
and no key on the table; the page does not wait for an answer; inputs of
two rows share an id. *Correct when* what was saved is what the detection uses.

### Live charts
*Code:* `views/base-widget-view.js` and the views derived from it,
`app/detail-app.js`, `app/overview-app.js`. *State:* of each view the interval its
`timer` names and those nothing names, requests on their way, the time frame it
shows; the from and to inputs in the placeholder. *Operations:* an interval comes
round, an answer renders and starts the next interval, the user picks a time frame,
types one, refreshes, replaces the chart by another. *Hard:* timers, clicks and
answers in any order; a replaced view is never stopped. *Correct when* the chart shows
what was picked last and goes on refreshing, and the intervals do not multiply.

### Paged lists and pager
*Code:* `views/base-nofresh-widget-view.js`, `bootstrap/bootstrap-paginator.js`,
`JmxStaitisService`, `po/Pager`. *State:* the parameters asked for last, requests on
their way, the rows and the paginator on the page. *Operations:* a click on the
paginator, a query with another filter, the count and the select, the answer, links
of the list of dumps. *Hard:* rows come and grow too old between the count and
the select; answers overtake each other; the paginator moves before the rows do.
*Correct when* paginator, rows and parameters tell the same, pages are full,
and links lead to pages that exist.

### Job page
*Code:* `jwatcher.js`. *State:* of a row its cells (texts or inputs) and their
attribute `orign`. *Operations:* edit, type, choose, cancel, save, the handlers of the
answer. *Hard:* the post is asynchronous (jQuery ignores the misspelled option
`asyn`), and the handler takes the inputs of its own moment. *Correct when* the page
tells the row, and nothing is saved that nobody chose.

### Watcher process and merging of server lists
*Code:* `JmxWatcher`, `JmxWatcherConfiguration`, `ManagedJmxWatcherProcess`,
`Server.mergeServerLists`. Nothing in this program starts it:
`ManagedJmxWatcherProcess`, the only caller of start and stop, is registered
nowhere, the handlers of file events have no callers, and the bodies that would
schedule its jobs are commented out. Its states are not states of the program.

### Server switches, data and home pages, framework extensions, database access, scripts
`JmxServerService`, `DataApiController`, `HomeController`, `DetailController` (except
the dump), view resolvers and interceptors, result conversion
(`JmxResultProcessor`, `KeyUtils`), mappers: they read, store and format rows;
there is no protocol in them beyond what the components above use.
`JmxMessageProducer` is commented out. The MySQL event in `docs` that copies
server rows once a day is outside the program. The page that switches servers
(`jsplumb/serverPlumb.js`) is a smaller sibling of the job page: a button posts what it
says, and the handler of the answer turns it round.

### How they interact
* Quartz threads call `TaskUtils` -> `execute` of a job -> pool, DAOs -> a new
  thread per server with the task (queries, writers, detection, dumps).
* Servlet threads call the services and DAOs, the scheduler (job control) and,
  for "dump now", the pool. They share rows, scheduler and pool
  with the Quartz threads, and nothing else is locked or versioned.
* Scripts of the pages call the controllers asynchronously; each page keeps state of
  its own (charts, paginators, inputs) that answers update in the order they arrive.
* The database is the only durable state. The scheduler and the pool are rebuilt
  when the application starts.

## 2. Modules

| module | stands for | extends / instantiates |
|---|---|---|
| `ConnectionPool` | pool as configured and called here | community `SequencesExt` |
| `SamplingJobs` | executions, tasks, "dump now" on top of the pool | `ConnectionPool`, `Lease` (refinement) |
| `Lease` | what the pool promises, abstractly | |
| `SamplingJobsProofs` | theorems about the two | `SamplingJobs`, `TLAPS` |
| `JobControl` | the two pages, `JobTaskService`, Quartz, restarts | |
| `JobControlProofs` | theorems about it | `JobControl`, `TLAPS` |
| `SampleRecords` | queries of a task, thresholds, output writers and their rows | `QueryBatch` (refinement) |
| `QueryBatch` | what running a server's queries promises, abstractly | |
| `SampleRecordsProofs` | theorems about it | `SampleRecords`, `TLAPS` |
| `ThreadDumps` | scheduled and manual dumps, their files and rows | |
| `ThreadDumpsProofs` | theorems about it | `ThreadDumps`, `TLAPS` |
| `Thresholds` | settings page, `saveParam`, the threshold the detection reads | |
| `ThresholdsProofs` | theorems about it | `Thresholds`, `TLAPS` |
| `Widgets` | the charts that poll, their time controls and their replacement | `SequencesExt`, `Poller` (refinement) |
| `Poller` | what a chart promises while nobody clicks on it, abstractly | |
| `WidgetsProofs` | theorems about it | `Widgets`, `TLAPS` |
| `PagedList` | list of failures with its paginator, list of dumps with its links | `SequencesExt` |
| `PagedListProofs` | theorems about it | `PagedList`, `TLAPS` |
| `JobPage` | a row of the job page in the browser | `SequencesExt` |
| `JobPageProofs` | theorems about it | `JobPage`, `TLAPS` |
| `MC...` | instances for TLC of each | |

The modules meet where one calls the other: `EndTask` of `SamplingJobs` is the end
of what `SampleRecords` describes in full, and `DumpThreadInfo` of `SampleRecords`
is an `Order` of `ThreadDumps`. `JobPage` sends what `JobControl` receives: a save
of the page, refused or stored, is `PostSave` there. They are not composed into one
module: what crosses is one call with at most a yes or no for an answer, each side
is modelled for every way in which the other can use it (a task may end or fail at
any time, orders come at any time), and the product would be out of TLC's reach.

### ConnectionPool and SamplingJobs
A *client* is a scheduler thread (`Threads`) or a servlet thread serving "dump
now" (`Requests`). `pc[c]` says where it is: in `execute` the loop's head
(`next`), in `borrowObject` (`allocate`, `connect`, `checkIdle`, `checkNew`),
with a connection (`held`), in the handler (`failed`), in `finally`, or in
`finally` with an exception that will leave the method (`abort`). `key` and
`conn` are the variables `connectionParams` and `conn`, so `NoKey` and `NoConn`
are null. While borrowing, `conn` is the pool's candidate.

* `TakeIdle`, `MayCreate`, `Connect`, `ConnectFails`, `Valid`, `Invalid` are the
  parts of `borrowObject` between which other threads run. Each is atomic because
  commons-pool holds its lock there; connecting and validating are outside it.
  `Connect` takes an unused element of `Conns`: a closed connector never returns.
* `ReturnObject(k, x)` does what commons-pool does with any object,
  null included: entry at the front, counter down. `Finally` of the jobs calls it
  unconditionally as the code does, `EndRequest` only with a connection.
* `TakeServer`, `TakeAddressless`, `TakeUnsampled`, `TakeDbFails` are the outcomes
  of `transforming` and of building the connection parameters: a server with an
  address; a row without one (an exception with `server` set); an application
  without samples (`continue`, which still runs `finally`); a failing query
  (`server` is null, so the handler fails as well).
* `StartTask` starts the task and goes to `finally`; the task's end, with or
  without an exception, is `EndTask`. `tasks[j][x]` counts them by connector.
* `Fire(t, j)` reads any non-empty part of the application's servers, because users
  switch servers all the time; an empty list returns at once. For a job with
  `DisallowConcurrentExecution` Quartz does not start a second execution.
* `missed` (history) collects servers that an execution left out.

Local servers (`isLocal`) do not come from the database and are not modelled.
commons-pool and Quartz are external: modelled from the configuration
(`testOnBorrow`, no limit, LIFO, eviction) and their published behaviour.

### JobControl
`row` is the table, `sched` the scheduler's jobs. A row is its status, cron
expression, bean (spring id and method), the fields on which the control flow
depends; the names cannot be edited, and `isConcurrent` only says which of the two
job classes is used. A request is one administrator's
(`Admins`) walk through the handler; its stage `pc` names the next call of the
scheduler or of the database, each a step of its own:

    saveJob:  read -> store                                 nothing to do
                   -> getTrigger -> schedule | reschedule -> store     0 to 1
                   -> delete -> store                                  1 to 0
                   -> reload (delete) -> getTrigger -> ...             bean changed
                   -> readAgain -> getCronTrigger -> rescheduleCron -> store
    updateCron:       readAgain -> getCronTrigger -> rescheduleCron -> done

`Schedule` stores the posted object in the JobDetail, which lacks the
application's id; `NewTrigger` gives a job that is there a new trigger and
does nothing when it is gone, as `rescheduleJob` does. `TimePasses` and
`Complete` are the end of a cron expression that names a year. `Restart` is
the end of the process and `JmxTask.init`, which schedules running rows in
order up to the first the scheduler refuses. `pending` (history) remembers the
form of a save that ended with an error, `tuned` (history) the jobs whose trigger the
updateCron request has set: it never stores the new expression.

Two constants say under which conditions a property is stated.
`Discipline`: `serialized` - one edit of a job at a time; `retry` - after an
error the same form is sent again before any other; `onePage` - the updateCron
request is not used (only `app` uses it). `Faults`: `db` - storing the row may fail; `restart`.
An empty `Discipline` lets everything happen. Since the code enforces
none of the disciplines, section 3 says what each of them is needed for.

### SampleRecords
The tasks that the sampling job starts for one server. `Queries` is what
`buildQueries` makes of the chosen samples: one chosen sample of memory, threads or
collections brings every object of that kind; the rest goes to the writers of
data sources or of normal objects (`Writer`, `DataSources`). A task runs them one at a
time because the server is built with one query thread:

    names -> fetch -> check -> dump -> write (-> insert)     once per MBean
                            -> write

* `FindNames`, `FindNoName`, `Fetch`, `FetchNothing`, `RemoteFails` are
  `processQuery` and `fetchResults`. An exception anywhere leaves the query, not the
  task: it stays in the Future of `invokeAll` (`AbandonQuery`).
* `Check` is `checkNeedDumpInfo`. Values are abstracted to the set of attributes
  that exceed their threshold. `Verdicts` is the loop over the parameters in the order
  of a hash map, which the first one that is greater ends, an empty threshold
  read as 0 included.
* `DumpThreadInfo` orders a dump, unless the memory row shows an alarm; the other
  writers look up a row -1 that does not exist and always order.
* `WriteMemory` is the update of the one row that all memory queries of a task share
  (`UpdateRow`: the columns sampled, and the flag always). `CollectionMissing` and
  `InsertCollection` are the two statements of `CmsOutputWriter`.
* `seen` (history) records what a task has met, for the properties.
* `QueryBatch` tells the same without MBeans, thresholds and tables: a task has queries
  waiting and at most one at work, of which something becomes known before it ends.
  `todo` maps to `waiting`, the object of `query` to `current`, what `seen` records of
  samples and excuses to `told`.

`BlankThresholds` says whether a row may have an empty threshold: the settings page
refuses to send one, the server would store it. `Serialized` keeps the tasks of a server apart: the code does not, but
the property on collections is about one statement after the other. `Faults` names
what may fail.

### ThreadDumps
An order is a job of `ThreadDumpScheduler` that fires `count[o]` times, or a user's
"dump now" (`Manual`), with one `dumpInfo`. A firing <<o, n>> goes through

    Fire (sets dumpInfo.filePath) -> Open (reads it) -> Fill -> Save (reads it again)

and a failure of the remote call ends it, of the file does not (the writer logs
its exception), of the statement does. `paths[f]` is what firing f may find when it
reads `dumpInfo.filePath`: its own value and any that another firing of the order
has set since, because nothing orders the two threads. The name is computed as the code
computes it (`ThreadDumpFilePath`: hour, minute and milliseconds one after the other without
padding, no second); it is a number, with a leading 1 for the date. `Restart` loses
the firings to come and those at work. Firings of an order overlap freely, twenty seconds
apart by default; `mixed` (history) holds those that have been at work together with another
of their order, `failed` those whose file could not be written.

### Widgets
A view is a record: `timer` (does `this.timer` name a running interval?), `leaked`
(running intervals it does not name), `enable` (`enableTimer`), `asked` (requests without
an answer). JavaScript runs a handler to its end, so each is one action: `Tick` is an
interval that comes round and calls `UpdateModel`, which clears the named interval and sends
the request; `Answer` is Backbone's "change" with `ModelChanged`, which renders and sets
the next interval; `AnswerSilently` is an answer without "change" (a failure, an
exception that the data interface turned into `{}`, or the same data again). `RealTime`,
`PickSpan`, `Custom`, `Type`, `Go` and `Refresh` are the controls. A click reaches every
view ever created in the placeholder, because jQuery delegates it from there;
`ChangeWidget` clears the named interval of the old view and nothing else. What is drawn is
abstracted to the time frame of the data.

`Poller` is the abstract view that waits, asks, and waits again; `PhaseOf` maps the counts
of intervals and requests of a view to its phases, and a view that has been clicked on to
`steered`, about which `Poller` says nothing more.

`Discipline` `quick`: an answer is back before the interval comes round again. Answers come in
any order; `crossed` (history) says whether one has overtaken an older request's since a
request last went out with none under way.

### PagedList
`asked` holds the requests of the list of failures; the server's two statements are
`Count` and `Answer` (or `AnswerEmpty`, the caught exception), between which
`RowsChange` may happen. `PageClicked` is both handlers of a click: the view's, which sends
the request, and the paginator's own, which moves at once. `Render` is `ModelChanged` with
the new paginator; `Pager` is none when the page is out of range, because `setCurrentPage`
throws. `gone` (history) counts the rows that went between the two statements; `waits`
(history) says whether the last click came after all answers. `TotalPage`, `RowsOf`, `PageNum`, `PaginationBar` translate `po/Pager`, `PageStart`,
`Window` and `Offered` the script. The list of dumps is a page of its own whose
links the server renders (`dump`, `FollowLink`).

### JobPage
`cells` are the texts or, when `editing`, the inputs of a row; one text and one select
stand for all. `Answered` is the success handler: it turns what is in the cells
at that moment into text and into `orign`, whatever was sent. In a row that has been
cancelled meanwhile there is no input; the select's cell is emptied (`Blank`). `Store` and
`Refuse` are the server, `Lost` the error handler. `waits` and `alone` (history) tell whether
the user has disturbed a save since one that was left alone succeeded.

### Thresholds
`Count`, `Update` and `Insert` are the statements of `saveParam`; `Update` changes all
rows of the parameter, `Insert` adds one. `Load` renders one input per row, or one empty
input when there is none. `Click` posts the first input whichever button was
pressed, as `$("#id")` finds the first. `last` and `peak` are history: what was saved
last as it was typed, and how many saves were at work at once.

## 3. Runs

All runs but `params` use `CHECK_DEADLOCK FALSE`: triggers, rows, saves and clicks
are bounded, and neither triggers nor users have to do anything, so that
the system may really stop. In `params` a user can always query the page again.

| run | shows | result |
|---|---|---|
| `pool` | `Exclusive`, `HeldOpen`, `NoLeak`, `RightServer`, `NumActiveNeverOverstates`, `AlwaysNearer`: 2 job threads and a dump request compete for 2 servers, with failing connects, validations, database and the evictor | holds |
| `ends` | `NothingMissed`, `NullsBounded`, `ExecutionsEnd` under fairness, `LeaseSpec`: one thread, two executions over 2 servers, any of them down, without address or samples, while dumps are requested again and again | holds |
| `overlap` | `NoOverlap`: one run of a job at a time | **violated** |
| `control` | `SwitchAgrees`, `CronAgrees`: 2 administrators, 2 jobs, both pages, one edit of a job at a time, retries; failing database, restarts, an ending cron expression | holds |
| `app` | `AppKept`: a scheduled job has its application | **violated** |
| `records` | `ExceededDumps`, `DumpsBounded`, `FieldsKept`, `AllSampled`, `CollectionsOnce`, `BatchSpec`: a task with two memory queries, one on collections and one of the application's, everything failing | holds |
| `rows` | `RowsOwnDump`, `RowsKeepOrder`, `OrdersFulfilled` under fairness: a scheduled dump of up to two firings, overlapping or not, and a manual one, everything failing, restarts | holds |
| `refresh` | `PollersBounded`, `ShowsPicked`, `NeverStalls`, `PollerSpec`, `KeepsPolling` under fairness: a chart, its replacement and a user with two clicks, answers that change nothing or overtake each other | holds |
| `stall` | `AutoRefresh`: a chart refreshes itself every ten seconds | **violated** |
| `pages` | `BarTellsRows`, `ShowsAsked`, `AsksWhatExists`, `PagesFull`, `BarShowsPage`, `DumpLinks`: three clicks while two rows come or go, answers out of order, silent or empty | holds |
| `edit` | `PageTellsRow`, `StatusChosen`: a row edited and saved up to three times, saves disturbed, refused or lost | holds |
| `params` | `RowsBounded`, `SavedIsUsed`: two pages, three saves at once, statement by statement | holds |

`control`, `pages`, `edit` and `params` check their module's `TypeOK` as well; for the
other modules it is proved (section 4), and their runs spend the time on refinements
and action properties.

### Bounds
`MaxFires` bounds how often triggers fire (2 in every run; requests for
dumps are not bounded); `Conns` bounds
how many connections are ever made (2: with none left, only `ConnectFails` is
possible, which a server may do anyway). Two threads and a request are enough for every
pair of roles: job/job on one server, job/dump, client/evictor. Two
servers show a wrong key, and a list with something after a bad first server.
Two connections allow one to be closed and replaced while the
other is in use. In `ends` two firings on one thread
are more than `NullsBounded` allows nulls: a null that the first execution has returned must be
used up before the second may return another. In `control`, two jobs
let one row's failure at the start reach the next; two expressions, one of which
ends, and two beans make every branch of saveJob reachable.
In `records`, two MBeans per object name (`MaxNames`) and
two objects of the memory row make the row be written up to four times in any mix of
alarm and calm; two attributes of one object make the order of parameters matter;
one collection by two MBeans is met twice. One task is enough there because tasks share nothing
but the rows of collections, which two queries of one task share as well. In `rows`,
two firings and a manual dump are every mix of dumps under way together, and of the
three clock readings the first and the last give the same file name and the second another.

In `refresh`, two views (`MaxViews`) are a chart and the one that replaces it; two
clicks start intervals beside the ones of the answers, and one fixed time frame differs
from the live one. In `pages`, a page of 2 rows and at most 5 rows give 0 to 3
pages, with full and partly filled last ones; the paginator's width of 2 gives windows with a
next one; 10 dumps and 3 links give five pages, so that the window of links starts at
the first page, moves, and ends at the last. Three clicks are one that does not
wait, one that does and one after it. In `edit`, three openings of the row with three saves
are one that is disturbed, one that is left alone and one after it.
In `params`, three saves can find no row at the same time, and two pages differ.
`pool`, `control`, `pages` and `params` use symmetry (no liveness there).
The theorems below need none of these bounds.

### Fairness
`FairSpec` of `SamplingJobs` (`ends`): weak fairness of `Execute(t)`,
`Serve(r)` and `EndTask(j, x)`: started Java threads are scheduled, and
connecting, validating and querying end with an answer or an exception.
`Borrow` may choose between outcomes, so fairness of the whole does not
promise that a server ever answers. Triggers, users and the evictor get
none. `ExecutionsEnd` holds under this because each turn of the borrowing loop
uses up an idle entry, and entries come back only with executions, which
are bounded in the run; in the program, with unending firings, an
adversary could feed one borrower invalid entries for ever, though each costs another
execution a failed borrow.

`FairSpec` of `ThreadDumps` (`rows`) is weak fairness of `Fire(o)` and `Execute(f)`: Quartz
fires what is due (a misfired simple trigger keeps its count), and calls answer or
fail. `OrdersFulfilled` says nothing of firings that a restart has taken.

`FairSpec` of `Widgets` (`refresh`, `stall`) is weak fairness of `Tick(w)` and
`Answered(w)`: the browser fires the intervals that are set, and a request ends with
an answer or an error. Whether an answer is silent is not decided by fairness. Users
owe nothing.

### What the violations show
* `overlap`: `ServerJob.doExecute` starts a thread and returns, so what
  `QuartzJobFactoryDisallowConcurrentExecution` promises (a run waits for the
  last) holds for `execute` and not for the sampling. The other two task jobs do
  the same.
* `app`: disabling a job and starting it again on the page schedules an object
  without `appId`; `TaskUtils` passes null, the query finds no server, and the
  job does nothing until the application restarts.
* `stall`: `UpdateModel` clears the interval before it asks, and only a "change" event
  starts the next one. One request that fails, one exception in the data interface or
  one answer equal to the last, and the chart that says "every 10 seconds" stands
  still until the user clicks.

### What the disciplines are needed for
The properties below fail without the constant they are stated for; the code enforces none of
these, and has no statement that would be refuted, so they are no runs.

* `SwitchAgrees` and `CronAgrees` need `serialized`: A saves "disabled" and B saves a
  change of the method, each having read the running row; B's reload puts the job
  back and A stores "disabled" last. They need `retry`: a save that fails after the scheduler
  was changed, followed by a different one, is compared with the old row.
* The second half of `SwitchAgrees` asks that no expression has ended: at the start
  one running row whose expression has no fire time left makes `scheduleJob` throw; the
  catch is around the loop, so that the rows after it stay unscheduled.
* `CronAgrees` leaves out jobs that `updateCron` has tuned: the new expression is not stored.
* `ExceededDumps` needs thresholds that are numbers: a sample greater than 0 for a blank
  one ends the check with "normal" when the hash map has it first, and the others
  are not looked at.
* `CollectionsOnce` needs `Serialized`: two tasks of one server both count and then insert.
* `PollersBounded` needs `quick`: with answers slower than the interval, an unnamed interval
  and each of its late answers set another.

Other properties need no constant, but say themselves what they except (each
exception is a behaviour of the model, and each is as short as the code allows):

* `RowsOwnDump` excepts a firing that overlaps another of its order (the second replaces the
  path that the first is about to use, and both write to one file, or a row points to
  the file of the other), one whose file could not be written, and a name given twice:
  10:15:00.250 and 10:15:20.250 have the same name. `RowsKeepOrder` has no exceptions: in all
  these cases a row leads to a file named by its own order, and a dump of another order is in
  it only when both were given the name.
* `ShowsPicked` excepts a chart on which an answer has overtaken another since a request last
  went out alone: the last answer to come is what it shows, of a fixed time frame until
  the next click.
* `ShowsAsked` and `AsksWhatExists` are about clicks that have waited for the answers before them,
  also after clicks that have not: those can get rows of one filter under the paginator of
  another and ask for a page that does not exist (which leaves the list without controls).
* `PageTellsRow` and `StatusChosen` except the time from a save during which the user went on to
  the next one that was left alone and succeeded: in between the page may say what was never
  saved, and a save may send "disabled" without anybody having chosen it.
* `PagesFull` allows for the rows that have gone between the count and the select, and no more.
* `SavedIsUsed` excepts a parameter with two rows, which only saves that overlap can leave: the
  query for the CPU threshold then throws, nobody catches it, and no sample of CPU load
  is stored any more.

Seen while reading and not stated as a property of a run: `isNeedReloadJob`
does not compare `isConcurrent`, so a change of it reaches the
scheduler only with the next restart; `task.js` posts to a path no
controller maps; `rescheduleJob` answers null for a job that has just
completed and the answer is ignored; a replaced chart goes on polling and drawing
when it has a request or an unnamed interval; after a silent answer the list of
failures keeps the old paginator with the new parameters; an exception in the data
interface shows an empty list without a word.

## 4. Proofs

TLAPS proves, for every value of the constants that satisfies the named
assumptions (`PoolAssumption`, `JobsAssumption`, `ControlAssumption`,
`ClientsAssumption`, `SentinelAssumption`, `RecordsAssumption`, `DumpsAssumption`, `WidgetsAssumption`,
`PagedListAssumption`, `JobPageAssumption`, `ThresholdsAssumption`: sentinels are not
values, threads are not requests, clients are finitely many (both kinds come from pools
of threads), sizes are positive), `TypeCorrect: Spec => []TypeOK`
of each module and:

`SamplingJobsProofs`
* `Invariance`: the inductive invariant. `Exclusive` alone is not inductive:
  returning `conn[c]` needs to know that it is not idle already, opening a connection
  that it has never been used. The invariant therefore adds that a connection that
  somebody has or that is idle has a `home`, that unused connectors have none,
  that the home of a connection is the key under which it is or
  will be returned, and in which stages `conn` may be null.
* `BorrowingExclusive`, `BorrowedStaysOpen`, `NothingLeaks`,
  `BorrowingRightServer`: consequences of it.
* `NothingIsMissed`: without failures of the database nobody ever reaches `abort`, the
  only way out of the loop before its end.
* `NumActiveIsNeverTooHigh`: each step changes the counter by no more than it changes the
  clients that have a connection in use (`CounterStep`, with the library's facts on
  cardinalities); a returned null lowers the counter alone.
* `NullsStayBounded`: the bound alone is not inductive. The nulls of a server and the threads
  that may still return one to it are together no more than the threads, because a
  thread begins to connect only when the server has no idle entry left, nulls included
  (`ServersAssumption`: there are finitely many servers). Under the null key, the nulls and the
  servers still to come of all executions are no more than servers times firings (`Due`,
  `DueCounted`).
* `NearerWithEveryStep`: the action property `AlwaysNearer`, that each step of a client at
  work leaves it fewer servers, less to do for the one it is at (`Ahead`), or one pool
  entry less. It is the variant behind `ExecutionsEnd`: what TLC adds is only that a
  client that can step does.
* `TasksStayAtHome`: a task's connection leads to a server of its job. The strengthening
  (`AtHome`) says that at every stage the servers a busy thread still has to visit, and the
  one it is at, belong to the application of its job, and that an idle thread is at none.
* `ImplementsLease`: `Spec => LeaseSpec`; every step maps to a step of
  `Lease` or to a stutter under the mapping `lease`.

`JobControlProofs`
* `SwitchesAgree` and `CronsAgree`, assuming that `Discipline`
  contains `serialized` and `retry`. Both speak of a job nobody is working on. The
  inductive invariant says what holds
  in the middle: at each stage, how `sched` differs from the row and
  from the form; after a failed save, that `sched` agrees with the row or with the
  form that has to be sent again (`pending`), which is why a retry repairs it;
  and that at most one administrator works on a job.
* `SavesSucceed` and `AgreeWithoutRetry` do without `retry`: with a database that works and
  no expression that ends, no serialized save ends with an error (`NoErrors` is inductive
  together with the invariant), so that there is nothing to repeat, and a job is scheduled
  exactly when its row runs.

`SampleRecordsProofs`
* `Invariance`, and from the invariant `ExceededAreDumped` (assuming
  that thresholds are not blank), `DumpsAreBounded`, `FieldsSurvive`,
  `QueriesAccounted`, `CollectionsStoredOnce` (assuming `Serialized`). The heart of the
  invariant is that
  a flag, of the row or about to be written to it, tells that a dump has been ordered
  or has failed: without it, a suppressed dump could be the first. The bound on the
  dumps needs that one more dump than calm samples is possible only while the row
  shows the alarm or is about to be written.
* `ImplementsBatch`: `Spec => BatchSpec`. A step of the query at work says nothing, or tells
  of itself and goes on or ends (`QueryTells`); no step of one task moves what another
  is mapped to (`MappedValues`).

`ThreadDumpsProofs`
* `RowsLeadToDumps`: `Spec => []RowsOwnDump`. The invariant says that a firing that is not
  `mixed` finds only its own path, that what is in a file was put there by a firing of that
  name that will not write again unless it is `mixed`, and that only a firing with the same
  name takes a finished dump away.
* `RowsLeadToOrders`: `Spec => []RowsKeepOrder`: all that any firing may find in `dumpInfo` was
  set by a firing of its order that began no earlier.
* `FiringsComeInTurn` and `DumpsAreRecorded` rest on a second invariant: `Books`
  says that a firing waits exactly while its order has not come to it (`Turn`) and that a
  row was saved at the end of its dump, once. The first is what `OrdersFulfilled` rests on.

`WidgetsProofs`
* `PollersStayBounded`: the intervals alone are not inductive, because every request may
  set one; what is bounded is intervals and requests together, by one more than twice the
  clicks, and a tick with nothing on the way turns one into the other.
  `OneAtATimeAlways` is the same count for a view without clicks.
* `OnlySilenceStops`: a chart that is to refresh itself stands still only after a silent
  answer. Unlike the bounds it holds for answers in any order and however late; the
  invariant (`Lively`, `Untouched`) adds that a chart not yet made is fresh.
* `ImplementsPoller`: `Spec => PollerSpec`, step by step under `PhaseOf`.
* `PickedIsShown`: the newest request on its way, or with none the chart, has the time frame
  picked last; as long as no answer has `crossed` another the newest stays the newest
  (`RemoveFirst1`).

`PagedListProofs`
* `TotalPageBounds`, `RowsOfFull` and the lemmas on the two windows: what `Pager` and the
  paginator compute, for every page size and width, from division with remainder.
* `BarAlwaysTellsRows`, `WaitingUserIsServed`, `AsksOnlyWhatExists`,
  `PagesAreFull`, `BarAlwaysShowsPage`, `DumpLinksLead`. The invariant follows a
  click that has waited: at most one request, the one for `params`, and with its answer a
  paginator that agrees with what the server has told of the filter.

`JobPageProofs`
* `PageAlwaysTellsRow`, `StatusAlwaysChosen`: a user who leaves the row alone leaves in the
  inputs what was sent (`InputsKept`), whatever state the row was in before, so that the handler that takes the inputs of its
  moment takes the right ones (`StoredKept`), and no cell is blank.

`ThresholdsProofs`
* `RowsStayBounded`: once there is a row no save finds none, so rows and saves that have
  found none before are together no more than were ever at work at once (`RowsCounted`,
  with the library's facts on cardinalities). `SavedIsAlwaysUsed`: as long as there is no second
  row, the one there is holds what the last statement has put there, as it was typed.

Only model-checked: `ExecutionsEnd`, `OrdersFulfilled` and `KeepsPolling` (liveness under
fairness is out of TLAPS' reach). Of each the safety part is proved: the variant
(`NearerWithEveryStep`), that no firing is skipped (`FiringsComeInTurn`), that only silence
stops a chart (`OnlySilenceStops`). A violation is TLC's by nature. `OneAtATime`,
`TasksAtHome`, `FiringsInTurn` and `DumpsRecorded` are proved and belong to no run:
the first is part of `PollerSpec`, the others were found true on the instances first.

## 5. Not modelled, and what is left

Most lines of script in this repository are not this program's: Highcharts, Handlebars,
jQuery and its plugins, Backbone, jsPlumb and the theme, of which only the paginator decides
anything a property speaks of. Of the program's own scripts, the layout of `app.js`, the check
of the login form, the drawing of the overview and the chart options
have no state that outlives a handler. A large share of all lines is therefore out of
the models for good.

Of the Java code, the watcher process and `mergeServerLists` are never started, the message
producer is commented out, result conversion and key names are formatting, and view
resolvers and interceptors belong to the framework. The measurements of
`JmxCpuUsageDetection` and `JmxThreadDeadLockDetection` are calls of one thread to one
JVM; their ends are `EndTask` of `SamplingJobs`.

What could follow:
1. The buttons that switch a server's monitoring on and off (`serverPlumb.js`): the label they
   change against the row they post, as in `JobPage`, and what a load of the list that
   crosses a switch leaves on the page.
2. `JobPage` on top of `JobControl`, so that a refused save is one that
   has changed the scheduler; today the page takes any refusal.
