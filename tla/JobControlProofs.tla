-------------------------- MODULE JobControlProofs --------------------------
(***************************************************************************)
(* Theorems about JobControl, for any number of administrators, jobs,      *)
(* cron expressions and beans.                                             *)
(***************************************************************************)
EXTENDS JobControl, TLAPS

-----------------------------------------------------------------------------
(* Types *)

LEMMA LoadedType ==
    ASSUME NEW rows \in [Jobs -> Rows], NEW past
    PROVE  Loaded(rows, past) \in [Jobs -> Details \cup {NotScheduled}]
BY DEF Loaded, Detail, Rows, Details

LEMMA TypeInit == Init => TypeOK
BY LoadedType DEF Init, TypeOK, Stages

\* An administrator at work has a request.
LEMMA RequestType ==
    ASSUME TypeOK, NEW a \in Admins, pc[a] # "idle"
    PROVE  /\ req[a] \in Requests /\ req[a] # NoForm
           /\ Job(a) \in Jobs /\ Form(a) \in Rows
BY DEF TypeOK, Requests, Job, Form

\* The answer to a request keeps the types.
LEMMA RespondType ==
    ASSUME TypeOK, NEW a \in Admins, pc[a] # "idle",
           NEW remembered \in Rows \cup {NoForm}, Respond(a, remembered)
    PROVE  /\ pc' \in [Admins -> Stages]
           /\ req' \in [Admins -> Requests \cup {NoForm}]
           /\ \A b \in Admins : pc'[b] = "idle" <=> req'[b] = NoForm
           /\ pending' \in [Jobs -> Rows \cup {NoForm}]
BY RequestType DEF TypeOK, Respond, GoTo, Stages

\* So does a step to another stage.
LEMMA StageType ==
    ASSUME TypeOK, NEW a \in Admins, pc[a] # "idle",
           NEW stage \in Stages \ {"idle"}, GoTo(a, stage),
           UNCHANGED <<req, pending>>
    PROVE  /\ pc' \in [Admins -> Stages]
           /\ req' \in [Admins -> Requests \cup {NoForm}]
           /\ \A b \in Admins : pc'[b] = "idle" <=> req'[b] = NoForm
           /\ pending' \in [Jobs -> Rows \cup {NoForm}]
BY DEF TypeOK, GoTo

LEMMA ServeType ==
    ASSUME TypeOK, NEW a \in Admins, Serve(a)
    PROVE  TypeOK'
<1> DEFINE Rest == /\ pc' \in [Admins -> Stages]
                   /\ req' \in [Admins -> Requests \cup {NoForm}]
                   /\ \A b \in Admins : pc'[b] = "idle" <=> req'[b] = NoForm
                   /\ pending' \in [Jobs -> Rows \cup {NoForm}]
<1>1. pc[a] # "idle"
  BY DEF Serve, ReadRow, GetTrigger, Schedule, Reschedule, Delete, ReadAgain,
         GetCronTrigger, Store, At
<1>2. Job(a) \in Jobs /\ Form(a) \in Rows
  BY <1>1, RequestType
<1>3. ASSUME Fail(a) PROVE Rest
  BY <1>1, <1>2, <1>3, RespondType DEF Fail
<1>4. ASSUME Succeed(a) PROVE Rest
  BY <1>1, <1>4, RespondType DEF Succeed
<1>5. ASSUME NEW stage \in Stages \ {"idle"}, GoTo(a, stage), UNCHANGED <<req, pending>>
      PROVE  Rest
  BY <1>1, <1>5, StageType
<1>6. ASSUME Proceed(a) PROVE Rest
  <2>1. "store" \in Stages \ {"idle"}
    BY DEF Stages
  <2> QED BY <1>4, <1>5, <1>6, <2>1 DEF Proceed
<1>7. Rest
  <2>1. CASE ReadRow(a) \/ GetTrigger(a) \/ Delete(a)
    <3>1. PICK stage \in Stages \ {"idle"} : GoTo(a, stage) /\ UNCHANGED <<req, pending>>
      BY <2>1 DEF ReadRow, GetTrigger, Delete, Stages
    <3> QED BY <1>5, <3>1
  <2>2. CASE Schedule(a) \/ Reschedule(a)
    <3>1. Proceed(a) \/ Fail(a)
      BY <2>2 DEF Schedule, Reschedule
    <3> QED BY <1>3, <1>6, <3>1
  <2>3. CASE ReadAgain(a) \/ GetCronTrigger(a)
    <3>1. \/ Proceed(a) \/ Fail(a)
          \/ \E stage \in Stages \ {"idle"} : GoTo(a, stage) /\ UNCHANGED <<req, pending>>
      BY <2>3 DEF ReadAgain, GetCronTrigger, Stages
    <3> QED BY <1>3, <1>5, <1>6, <3>1
  <2>4. CASE Store(a)
    <3>1. Succeed(a) \/ Fail(a)
      BY <2>4 DEF Store
    <3> QED BY <1>3, <1>4, <3>1
  <2> HIDE DEF Rest
  <2> QED BY <2>1, <2>2, <2>3, <2>4 DEF Serve
<1>8. over' = over /\ row' \in [Jobs -> Rows] /\ tuned' \in SUBSET Jobs
  BY <1>2 DEF Serve, ReadRow, GetTrigger, Schedule, Reschedule, Delete, ReadAgain,
         GetCronTrigger, Store, TypeOK
<1>9. sched' \in [Jobs -> Details \cup {NotScheduled}]
  <2>1. CASE Schedule(a)
    <3>1. Detail(Form(a), FALSE) \in Details
      BY <1>2 DEF Detail, Details, Rows
    <3> QED BY <2>1, <3>1, <1>2 DEF Schedule, TypeOK
  <2>2. CASE Reschedule(a)
    <3>1. Form(a).cron \in Crons
      BY <1>2 DEF Rows
    <3>2. sched[Job(a)] # NotScheduled => [sched[Job(a)] EXCEPT !.cron = Form(a).cron] \in Details
      BY <1>2, <3>1 DEF TypeOK, Details
    <3> QED BY <2>2, <3>2, <1>2 DEF Reschedule, NewTrigger, TypeOK
  <2>3. CASE Delete(a)
    BY <2>3, <1>2 DEF Delete, TypeOK
  <2>4. CASE ReadRow(a) \/ GetTrigger(a) \/ ReadAgain(a) \/ GetCronTrigger(a) \/ Store(a)
    BY <2>4 DEF ReadRow, GetTrigger, ReadAgain, GetCronTrigger, Store, TypeOK
  <2> QED BY <2>1, <2>2, <2>3, <2>4 DEF Serve
<1> QED BY <1>7, <1>8, <1>9 DEF TypeOK

LEMMA PostType ==
    ASSUME TypeOK, NEW a \in Admins, PostSave(a) \/ PostCron(a)
    PROVE  TypeOK'
<1>1. PICK request \in Requests, stage \in {"read", "readAgain"} : Post(a, request, stage)
  <2>1. CASE PostSave(a)
    BY <2>1 DEF PostSave, Requests
  <2>2. CASE PostCron(a)
    <3>1. PICK j \in Jobs, c \in Crons :
             Post(a, [page |-> "cron", job |-> j, form |-> [row[j] EXCEPT !.cron = c]],
                  "readAgain")
      BY <2>2 DEF PostCron
    <3>2. [row[j] EXCEPT !.cron = c] \in Rows
      BY DEF TypeOK, Rows
    <3>3. [page |-> "cron", job |-> j, form |-> [row[j] EXCEPT !.cron = c]] \in Requests
      BY <3>2 DEF Requests
    <3> QED BY <3>1, <3>3
  <2> QED BY <2>1, <2>2
<1> QED BY <1>1, SentinelAssumption DEF Post, GoTo, At, TypeOK, Stages

LEMMA TypeNext == TypeOK /\ [Next]_vars => TypeOK'
<1> SUFFICES ASSUME TypeOK, [Next]_vars PROVE TypeOK'
  OBVIOUS
<1>1. ASSUME NEW c \in Crons, TimePasses(c) PROVE TypeOK'
  BY <1>1 DEF TimePasses, TypeOK
<1>2. ASSUME NEW j \in Jobs, Complete(j) PROVE TypeOK'
  BY <1>2 DEF Complete, TypeOK
<1>3. CASE Restart
  BY <1>3, LoadedType DEF Restart, TypeOK, Stages
<1>4. CASE UNCHANGED vars
  BY <1>4 DEF vars, TypeOK
<1> QED BY <1>1, <1>2, <1>3, <1>4, ServeType, PostType DEF Next

(* Every variable keeps its type, and an administrator has a request       *)
(* exactly while one is under way.                                         *)
THEOREM TypeCorrect == Spec => []TypeOK
BY TypeInit, TypeNext, PTL DEF Spec

-----------------------------------------------------------------------------
(* The inductive invariant behind SwitchAgrees and CronAgrees             *)

\* If the scheduler has job j, it is because r asks for it, with r's bean; the
\* trigger may still have the cron expression of the row.
Held(j, r) ==
    Scheduled(j) =>
        /\ Running(r)
        /\ sched[j].bean = r.bean
        /\ j \in tuned \/ sched[j].cron \in {row[j].cron, r.cron}

\* The scheduler does for job j what r asks for, up to the end of its cron.
Agree(j, r) ==
    /\ Held(j, r)
    /\ over = {} /\ Running(r) => Scheduled(j)

\* The trigger is up to date with r.
Exact(j, r) == Scheduled(j) => j \in tuned \/ sched[j].cron = r.cron

\* What the scheduler does for a job is what its row asks for or, after an
\* error, the form that was not stored.
Sync(j) == Agree(j, IF pending[j] = NoForm THEN row[j] ELSE pending[j])

\* How far a save of job j has brought the scheduler, stage by stage.
SaveStage(j, new, stage) ==
    /\ stage \in {"read", "delete", "store"} \/ Running(new)
    /\ stage = "read" => Sync(j)
    /\ stage = "getTrigger" => Held(j, new)
    /\ stage = "schedule" => ~Scheduled(j)
    /\ stage = "delete" => ~Running(new)
    /\ stage \in {"reschedule", "readAgain", "getCronTrigger", "rescheduleCron", "store"} =>
          Agree(j, new)
    /\ stage = "readAgain" => Running(row[j])
    /\ stage = "store" => Exact(j, new)

CronStages == {"readAgain", "getCronTrigger", "rescheduleCron"}

InHand(a) ==
    IF req[a].page = "save"
    THEN /\ pending[Job(a)] \in {NoForm, Form(a)}
         /\ SaveStage(Job(a), Form(a), pc[a])
    ELSE pc[a] \in CronStages /\ Sync(Job(a))

OneEach ==
    \A a, b \in Admins : a # b /\ pc[a] # "idle" /\ pc[b] # "idle" => Job(a) # Job(b)

Inv == /\ TypeOK /\ OneEach
       /\ \A j \in Jobs : ~Busy(j) => Sync(j)
       /\ \A a \in Admins : pc[a] # "idle" => InHand(a)

LEMMA LoadedAgrees ==
    ASSUME NEW rows \in [Jobs -> Rows], NEW j \in Jobs, NEW past
    PROVE  /\ Loaded(rows, past)[j] # NotScheduled =>
                 /\ Running(rows[j])
                 /\ Loaded(rows, past)[j].bean = rows[j].bean
                 /\ Loaded(rows, past)[j].cron = rows[j].cron
           /\ past = {} /\ Running(rows[j]) => Loaded(rows, past)[j] # NotScheduled
<1>1. /\ Detail(rows[j], TRUE) \in Details
      /\ Detail(rows[j], TRUE).bean = rows[j].bean
      /\ Detail(rows[j], TRUE).cron = rows[j].cron
  BY DEF Detail, Details, Rows
<1> QED BY <1>1, SentinelAssumption DEF Loaded

LEMMA InvInit == Init => Inv
<1> SUFFICES ASSUME Init PROVE Inv
  OBVIOUS
<1>1. TypeOK
  BY TypeInit
<1>2. \A j \in Jobs : Sync(j)
  BY LoadedAgrees DEF Init, Sync, Agree, Held, Scheduled
<1> QED BY <1>1, <1>2 DEF Inv, Init, OneEach

-----------------------------------------------------------------------------
(* One administrator's step leaves the other jobs alone *)

LEMMA LocalStep ==
    ASSUME Inv, TypeOK', NEW a \in Admins, pc[a] # "idle",
           NEW j \in Jobs, j = Job(a), over' = over,
           \A i \in Jobs : i # j => /\ sched'[i] = sched[i] /\ row'[i] = row[i]
                                    /\ pending'[i] = pending[i]
                                    /\ (i \in tuned' <=> i \in tuned),
           \A b \in Admins : b # a => pc'[b] = pc[b] /\ req'[b] = req[b],
           pc'[a] = "idle" => Sync(j)',
           pc'[a] # "idle" => req'[a] = req[a] /\ InHand(a)'
    PROVE  Inv'
<1>1. \A b \in Admins : pc'[b] # "idle" => pc[b] # "idle" /\ Job(b)' = Job(b)
  BY DEF Job
<1>2. OneEach'
  BY <1>1 DEF Inv, OneEach
<1>3. ASSUME NEW i \in Jobs, ~Busy(i)' PROVE Sync(i)'
  <2>1. CASE i = j
    BY <1>3, <2>1 DEF Busy, Job
  <2>2. CASE i # j
    <3>1. ~Busy(i)
      BY <1>3, <2>2 DEF Busy, Job
    <3> QED BY <2>2, <3>1 DEF Inv, Sync, Agree, Held, Scheduled
  <2> QED BY <2>1, <2>2
<1>4. ASSUME NEW b \in Admins, b # a, pc'[b] # "idle" PROVE InHand(b)'
  <2>1. pc[b] # "idle" /\ Job(b) # j /\ Job(b) \in Jobs /\ InHand(b)
    BY <1>4, RequestType DEF Inv, OneEach
  <2>2. /\ pc'[b] = pc[b] /\ req'[b] = req[b]
        /\ sched'[Job(b)] = sched[Job(b)] /\ row'[Job(b)] = row[Job(b)]
        /\ pending'[Job(b)] = pending[Job(b)]
        /\ (Job(b) \in tuned' <=> Job(b) \in tuned)
    BY <1>4, <2>1
  <2>3. PICK k, new, stage : k = Job(b) /\ new = Form(b) /\ stage = pc[b]
    OBVIOUS
  <2>4. Job(b)' = k /\ Form(b)' = new /\ pc'[b] = stage /\ req'[b].page = req[b].page
    BY <2>2, <2>3 DEF Job, Form
  <2>5. /\ Sync(k)' <=> Sync(k)
        /\ Agree(k, new)' <=> Agree(k, new)
        /\ Held(k, new)' <=> Held(k, new)
        /\ Exact(k, new)' <=> Exact(k, new)
        /\ Scheduled(k)' <=> Scheduled(k)
        /\ row'[k] = row[k] /\ pending'[k] = pending[k]
    BY <2>2, <2>3 DEF Sync, Agree, Held, Exact, Scheduled
  <2>6. SaveStage(k, new, stage)' <=> SaveStage(k, new, stage)
    BY <2>5 DEF SaveStage
  <2>7. /\ InHand(b) <=> IF req[b].page = "save"
                         THEN pending[k] \in {NoForm, new} /\ SaveStage(k, new, stage)
                         ELSE stage \in CronStages /\ Sync(k)
        /\ InHand(b)' <=> IF req'[b].page = "save"
                          THEN pending'[k] \in {NoForm, new} /\ SaveStage(k, new, stage)'
                          ELSE stage \in CronStages /\ Sync(k)'
    BY <2>3, <2>4 DEF InHand
  <2> QED BY <2>1, <2>4, <2>5, <2>6, <2>7
<1> QED BY <1>2, <1>3, <1>4 DEF Inv

\* Nothing changes for job j but its trigger, which may get tuned.
Steady(j) ==
    /\ row' = row /\ over' = over
    /\ Scheduled(j)' <=> Scheduled(j)
    /\ Scheduled(j) => /\ sched'[j].bean = sched[j].bean
                       /\ j \in tuned' \/ (j \notin tuned /\ sched'[j].cron = sched[j].cron)

\* A request's answer, when the scheduler has done what its form asks for (or
\* nothing, on the page of updateCron).
LEMMA Answered ==
    ASSUME Inv, NEW a \in Admins, pc[a] # "idle", NEW j \in Jobs, j = Job(a),
           NEW new \in Rows, new = Form(a),
           \/ /\ Succeed(a) /\ req[a].page = "save"
              /\ row'[j] = new /\ Agree(j, new)'
           \/ /\ Fail(a) /\ req[a].page = "save" /\ Agree(j, new)'
           \/ /\ Succeed(a) \/ Fail(a)
              /\ req[a].page # "save" /\ Sync(j) /\ Steady(j)
    PROVE  /\ pc'[a] = "idle" /\ Sync(j)'
           /\ \A i \in Jobs : i # j => pending'[i] = pending[i]
           /\ \A b \in Admins : b # a => pc'[b] = pc[b] /\ req'[b] = req[b]
<1>1. PICK remembered \in {NoForm, new} : Respond(a, remembered)
  BY DEF Succeed, Fail
<1>2. TypeOK
  BY DEF Inv
<1>3. /\ pc'[a] = "idle"
      /\ \A i \in Jobs : i # j => pending'[i] = pending[i]
      /\ \A b \in Admins : b # a => pc'[b] = pc[b] /\ req'[b] = req[b]
  BY <1>1, <1>2 DEF Respond, GoTo, TypeOK
<1>4. new # NoForm
  BY SentinelAssumption
<1>5. CASE Succeed(a) /\ req[a].page = "save" /\ row'[j] = new /\ Agree(j, new)'
  <2>1. pending'[j] = NoForm
    BY <1>2, <1>5 DEF Succeed, Respond, TypeOK
  <2> QED BY <1>3, <1>5, <2>1 DEF Sync, Agree, Scheduled
<1>6. CASE Fail(a) /\ req[a].page = "save" /\ Agree(j, new)'
  <2>1. pending'[j] = new
    BY <1>2, <1>6 DEF Fail, Respond, TypeOK
  <2> QED BY <1>3, <1>4, <1>6, <2>1 DEF Sync, Agree, Scheduled
<1>7. CASE req[a].page # "save" /\ Sync(j) /\ Steady(j)
  <2>1. pending' = pending
    BY <1>1, <1>7 DEF Respond
  <2> QED BY <1>3, <1>7, <2>1 DEF Sync, Agree, Held, Scheduled, Steady
<1> QED BY <1>3, <1>5, <1>6, <1>7

LEMMA ServeInv ==
    ASSUME Inv, NEW a \in Admins, Serve(a)
    PROVE  Inv'
<1>1. pc[a] # "idle" /\ TypeOK /\ TypeOK'
  BY ServeType DEF Inv, Serve, ReadRow, GetTrigger, Schedule, Reschedule, Delete,
         ReadAgain, GetCronTrigger, Store, At
<1>2. PICK j \in Jobs, new \in Rows : j = Job(a) /\ new = Form(a)
  BY <1>1, RequestType
<1>3. PICK stage \in Stages : stage = pc[a]
  BY <1>1 DEF TypeOK
<1>4. InHand(a) /\ over' = over
  BY <1>1 DEF Inv, Serve, ReadRow, GetTrigger, Schedule, Reschedule, Delete,
         ReadAgain, GetCronTrigger, Store
<1>5. \/ /\ req[a].page = "save" /\ pending[j] \in {NoForm, new}
         /\ SaveStage(j, new, stage)
      \/ req[a].page # "save" /\ stage \in CronStages /\ Sync(j)
  BY <1>2, <1>3, <1>4 DEF InHand
<1> DEFINE Frame == \A i \in Jobs : i # j => /\ sched'[i] = sched[i] /\ row'[i] = row[i]
                                             /\ (i \in tuned' <=> i \in tuned)
           Others == /\ \A i \in Jobs : i # j => pending'[i] = pending[i]
                     /\ \A b \in Admins : b # a => pc'[b] = pc[b] /\ req'[b] = req[b]
           Local == /\ pc'[a] = "idle" => Sync(j)'
                    /\ pc'[a] # "idle" => req'[a] = req[a] /\ InHand(a)'
\* A step to another stage of the same request.
<1>6. ASSUME NEW next \in Stages \ {"idle"}, GoTo(a, next), UNCHANGED <<req, pending>>,
             \/ req[a].page = "save" /\ SaveStage(j, new, next)'
             \/ req[a].page # "save" /\ next \in CronStages /\ Sync(j)'
      PROVE  Others /\ Local
  <2>1. pc'[a] = next /\ Job(a)' = j /\ Form(a)' = new
    BY <1>1, <1>2, <1>6 DEF GoTo, TypeOK, Job, Form
  <2>2. Others
    BY <1>1, <1>6 DEF GoTo, TypeOK
  <2>3. InHand(a)' <=> IF req'[a].page = "save"
                       THEN pending'[j] \in {NoForm, new} /\ SaveStage(j, new, next)'
                       ELSE next \in CronStages /\ Sync(j)'
    BY <2>1 DEF InHand
  <2> QED BY <1>5, <1>6, <2>1, <2>2, <2>3
<1>7. ASSUME ReadRow(a) PROVE Frame /\ Others /\ Local
  <2>1. /\ req[a].page = "save" /\ stage = "read" /\ Sync(j)
        /\ UNCHANGED <<row, sched, over, req, pending, tuned>>
    BY <1>3, <1>5, <1>7 DEF ReadRow, At, SaveStage, CronStages
  <2>2. Agree(j, new) \/ Agree(j, row[j])
    BY <1>5, <2>1 DEF Sync
  <2>3. PICK next \in Stages \ {"idle"} : GoTo(a, next) /\ SaveStage(j, new, next)
    <3>1. CASE ~Running(row[j]) /\ Running(new)
      <4>1. GoTo(a, "getTrigger")
        BY <1>2, <1>7, <3>1 DEF ReadRow
      <4>2. SaveStage(j, new, "getTrigger")
        BY <2>2, <3>1 DEF SaveStage, Agree, Held
      <4> QED BY <4>1, <4>2 DEF Stages
    <3>2. CASE Running(row[j]) /\ ~Running(new)
      <4>1. GoTo(a, "delete")
        BY <1>2, <1>7, <3>2 DEF ReadRow
      <4>2. SaveStage(j, new, "delete")
        BY <3>2 DEF SaveStage
      <4> QED BY <4>1, <4>2 DEF Stages
    <3>3. CASE Running(row[j]) /\ Running(new) /\ NeedsReload(new, row[j])
      <4>1. GoTo(a, "reload")
        BY <1>2, <1>7, <3>3 DEF ReadRow
      <4>2. SaveStage(j, new, "reload")
        BY <3>3 DEF SaveStage
      <4> QED BY <4>1, <4>2 DEF Stages
    <3>4. CASE /\ Running(row[j]) /\ Running(new) /\ ~NeedsReload(new, row[j])
               /\ new.cron # row[j].cron
      <4>1. GoTo(a, "readAgain")
        BY <1>2, <1>7, <3>4 DEF ReadRow
      <4>2. SaveStage(j, new, "readAgain")
        BY <2>2, <3>4 DEF SaveStage, Agree, Held, NeedsReload
      <4> QED BY <4>1, <4>2 DEF Stages
    <3>5. CASE \/ ~Running(row[j]) /\ ~Running(new)
               \/ /\ Running(row[j]) /\ Running(new) /\ ~NeedsReload(new, row[j])
                  /\ new.cron = row[j].cron
      <4>1. GoTo(a, "store")
        BY <1>2, <1>7, <3>5 DEF ReadRow
      <4>2. SaveStage(j, new, "store")
        BY <2>2, <3>5 DEF SaveStage, Agree, Held, Exact, NeedsReload
      <4> QED BY <4>1, <4>2 DEF Stages
    <3> QED BY <3>1, <3>2, <3>3, <3>4, <3>5
  <2>4. SaveStage(j, new, next)'
    BY <2>1, <2>3 DEF SaveStage, Sync, Agree, Held, Exact, Scheduled
  <2> QED BY <1>6, <2>1, <2>3, <2>4
<1>8. ASSUME GetTrigger(a) PROVE Frame /\ Others /\ Local
  <2>1. /\ req[a].page = "save" /\ stage = "getTrigger" /\ SaveStage(j, new, stage)
        /\ UNCHANGED <<row, sched, over, req, pending, tuned>>
    BY <1>3, <1>5, <1>8 DEF GetTrigger, At, CronStages
  <2>2. PICK next \in {"schedule", "reschedule"} : GoTo(a, next) /\ SaveStage(j, new, next)
    BY <1>2, <1>8, <2>1 DEF GetTrigger, SaveStage, Agree, Held, Scheduled
  <2>3. SaveStage(j, new, next)' /\ next \in Stages \ {"idle"}
    BY <2>1, <2>2 DEF SaveStage, Sync, Agree, Held, Exact, Scheduled, Stages
  <2> QED BY <1>6, <2>1, <2>2, <2>3
<1>9. ASSUME Schedule(a) PROVE Frame /\ Others /\ Local
  <2>1. /\ req[a].page = "save" /\ ~Scheduled(j) /\ Running(new)
    BY <1>3, <1>5, <1>9 DEF Schedule, At, SaveStage, CronStages
  <2>2. CASE new.cron \notin over
    <3>1. /\ sched' = [sched EXCEPT ![j] = Detail(new, FALSE)] /\ row' = row
          /\ tuned' = tuned \ {j} /\ GoTo(a, "store") /\ UNCHANGED <<req, pending>>
      BY <1>2, <1>9, <2>1, <2>2 DEF Schedule, Proceed, Scheduled
    <3>2. /\ Detail(new, FALSE) \in Details /\ Detail(new, FALSE).bean = new.bean
          /\ Detail(new, FALSE).cron = new.cron
      BY DEF Detail, Details, Rows
    <3>3. Agree(j, new)' /\ Exact(j, new)'
      BY <1>1, <2>1, <3>1, <3>2, SentinelAssumption DEF Agree, Held, Exact, Scheduled, TypeOK
    <3>4. SaveStage(j, new, "store")' /\ "store" \in Stages \ {"idle"}
      BY <3>3 DEF SaveStage, Stages
    <3>5. Frame
      BY <1>1, <3>1 DEF TypeOK
    <3> QED BY <1>6, <2>1, <3>1, <3>4, <3>5
  <2>3. CASE new.cron \in over
    <3>1. Fail(a) /\ UNCHANGED <<row, sched, over, tuned>>
      BY <1>2, <1>4, <1>9, <2>3 DEF Schedule
    <3>2. Agree(j, new)'
      BY <2>1, <2>3, <3>1 DEF Agree, Held, Scheduled
    <3> QED BY <1>1, <1>2, <2>1, <3>1, <3>2, Answered
  <2> QED BY <2>2, <2>3
<1>10. ASSUME Reschedule(a) PROVE Frame /\ Others /\ Local
  <2>1. CASE new.cron \in over
    <3>1. Fail(a) /\ UNCHANGED <<row, sched, over, tuned>>
      BY <1>2, <1>4, <1>10, <2>1 DEF Reschedule
    <3>2. Steady(j)
      BY <3>1 DEF Steady, Scheduled
    <3>3. req[a].page = "save" => Agree(j, new)
      BY <1>3, <1>5, <1>10 DEF Reschedule, At, SaveStage
    <3>4. req[a].page = "save" => Agree(j, new)'
      BY <3>1, <3>3 DEF Agree, Held, Scheduled
    <3> QED BY <1>1, <1>2, <1>5, <3>1, <3>2, <3>4, Answered
  <2>2. CASE new.cron \notin over
    <3>1. /\ NewTrigger(j, new.cron) /\ row' = row /\ Proceed(a)
          /\ tuned' = IF req[a].page = "cron" THEN tuned \cup {j} ELSE tuned \ {j}
      BY <1>2, <1>10, <2>2 DEF Reschedule
    <3>2. /\ Scheduled(j)' <=> Scheduled(j)
          /\ Scheduled(j) => sched'[j].bean = sched[j].bean /\ sched'[j].cron = new.cron
      <4>1. CASE ~Scheduled(j)
        BY <3>1, <4>1 DEF NewTrigger, Scheduled
      <4>2. CASE Scheduled(j)
        <5>1. sched[j] \in Details /\ sched'[j] = [sched[j] EXCEPT !.cron = new.cron]
          BY <1>1, <3>1, <4>2 DEF NewTrigger, Scheduled, TypeOK
        <5>2. /\ sched'[j] \in Details /\ sched'[j].bean = sched[j].bean
              /\ sched'[j].cron = new.cron
          BY <5>1 DEF Details, Rows
        <5> QED BY <4>2, <5>2, SentinelAssumption DEF Scheduled
      <4> QED BY <4>1, <4>2
    <3>3. Frame
      BY <1>1, <3>1 DEF NewTrigger, TypeOK
    <3>4. CASE req[a].page = "save"
      <4>1. Agree(j, new)
        BY <1>3, <1>5, <1>10, <3>4 DEF Reschedule, At, SaveStage
      <4>2. Agree(j, new)' /\ Exact(j, new)'
        BY <1>4, <3>1, <3>2, <3>4, <4>1 DEF Agree, Held, Exact
      <4>3. SaveStage(j, new, "store")' /\ "store" \in Stages \ {"idle"}
        BY <4>2 DEF SaveStage, Stages
      <4>4. GoTo(a, "store") /\ UNCHANGED <<req, pending>>
        BY <3>1, <3>4 DEF Proceed
      <4> QED BY <1>6, <3>3, <3>4, <4>3, <4>4
    <3>5. CASE req[a].page # "save"
      <4>1. req[a].page = "cron"
        BY <1>1, <3>5, RequestType DEF Requests
      <4>2. Succeed(a) /\ Sync(j) /\ Steady(j)
        BY <1>4, <1>5, <3>1, <3>2, <3>5, <4>1 DEF Proceed, Steady
      <4> QED BY <1>1, <1>2, <3>3, <3>5, <4>2, Answered
    <3> QED BY <3>4, <3>5
  <2> QED BY <2>1, <2>2
<1>11. ASSUME Delete(a) PROVE Frame /\ Others /\ Local
  <2>1. /\ req[a].page = "save" /\ SaveStage(j, new, stage)
        /\ UNCHANGED <<row, over, req, pending>> /\ tuned' = tuned \ {j}
        /\ sched' = [sched EXCEPT ![j] = NotScheduled]
    BY <1>2, <1>3, <1>5, <1>11 DEF Delete, At, CronStages
  <2>2. Frame /\ ~Scheduled(j)'
    BY <1>1, <2>1 DEF TypeOK, Scheduled
  <2>3. PICK next \in {"store", "getTrigger"} : GoTo(a, next) /\ SaveStage(j, new, next)'
    <3>1. CASE At(a, "delete")
      BY <1>3, <1>11, <2>1, <2>2, <3>1 DEF Delete, At, SaveStage, Agree, Held, Exact
    <3>2. CASE At(a, "reload")
      BY <1>3, <1>11, <2>1, <2>2, <3>2 DEF Delete, At, SaveStage, Held
    <3> QED BY <1>11, <3>1, <3>2 DEF Delete
  <2> QED BY <1>6, <2>1, <2>2, <2>3 DEF Stages
<1>12. ASSUME ReadAgain(a) PROVE Frame /\ Others /\ Local
  <2>1. stage = "readAgain" /\ UNCHANGED <<row, sched, over, tuned>>
    BY <1>3, <1>12 DEF ReadAgain, At
  <2>2. CASE req[a].page = "save"
    <3>1. Running(row[j]) /\ Running(new) /\ Agree(j, new)
      BY <1>5, <2>1, <2>2 DEF SaveStage
    <3>2. GoTo(a, "getCronTrigger") /\ UNCHANGED <<req, pending>>
      BY <1>2, <1>12, <3>1 DEF ReadAgain
    <3>3. SaveStage(j, new, "getCronTrigger")' /\ "getCronTrigger" \in Stages \ {"idle"}
      BY <2>1, <3>1 DEF SaveStage, Agree, Held, Scheduled, Stages
    <3> QED BY <1>6, <2>1, <2>2, <3>2, <3>3
  <2>3. CASE req[a].page # "save"
    <3>1. Sync(j) /\ Steady(j)
      BY <1>5, <2>1, <2>3 DEF Steady, Scheduled
    <3>2. CASE Succeed(a)
      BY <1>1, <1>2, <2>1, <2>3, <3>1, <3>2, Answered
    <3>3. CASE GoTo(a, "getCronTrigger") /\ UNCHANGED <<req, pending>>
      <4>1. Sync(j)'
        BY <2>1, <3>1, <3>3 DEF Sync, Agree, Held, Scheduled
      <4> QED BY <1>6, <2>1, <2>3, <3>3, <4>1 DEF Stages, CronStages
    <3> QED BY <1>12, <2>3, <3>2, <3>3 DEF ReadAgain, Proceed
  <2> QED BY <2>2, <2>3
<1>13. ASSUME GetCronTrigger(a) PROVE Frame /\ Others /\ Local
  <2>1. stage = "getCronTrigger" /\ UNCHANGED <<row, sched, over, tuned>>
    BY <1>3, <1>13 DEF GetCronTrigger, At
  <2>2. CASE req[a].page = "save"
    <3>1. Running(new) /\ Agree(j, new)
      BY <1>5, <2>1, <2>2 DEF SaveStage
    <3>2. CASE Scheduled(j)
      <4>1. GoTo(a, "rescheduleCron") /\ UNCHANGED <<req, pending>>
        BY <1>2, <1>13, <3>2 DEF GetCronTrigger, Scheduled
      <4>2. SaveStage(j, new, "rescheduleCron")' /\ "rescheduleCron" \in Stages \ {"idle"}
        BY <2>1, <3>1 DEF SaveStage, Agree, Held, Scheduled, Stages
      <4> QED BY <1>6, <2>1, <2>2, <4>1, <4>2
    <3>3. CASE ~Scheduled(j)
      <4>1. Fail(a)
        BY <1>2, <1>13, <3>3 DEF GetCronTrigger, Scheduled
      <4>2. Agree(j, new)'
        BY <2>1, <3>1 DEF Agree, Held, Scheduled
      <4> QED BY <1>1, <1>2, <2>1, <2>2, <4>1, <4>2, Answered
    <3> QED BY <3>2, <3>3
  <2>3. CASE req[a].page # "save"
    <3>1. Sync(j) /\ Steady(j)
      BY <1>5, <2>1, <2>3 DEF Steady, Scheduled
    <3>2. CASE Fail(a)
      BY <1>1, <1>2, <2>1, <2>3, <3>1, <3>2, Answered
    <3>3. CASE GoTo(a, "rescheduleCron") /\ UNCHANGED <<req, pending>>
      <4>1. Sync(j)'
        BY <2>1, <3>1, <3>3 DEF Sync, Agree, Held, Scheduled
      <4> QED BY <1>6, <2>1, <2>3, <3>3, <4>1 DEF Stages, CronStages
    <3> QED BY <1>13, <3>2, <3>3 DEF GetCronTrigger
  <2> QED BY <2>2, <2>3
<1>14. ASSUME Store(a) PROVE Frame /\ Others /\ Local
  <2>1. /\ req[a].page = "save" /\ Agree(j, new) /\ Exact(j, new)
        /\ UNCHANGED <<sched, over, tuned>>
    BY <1>3, <1>5, <1>14 DEF Store, At, SaveStage, CronStages
  <2>2. \/ Succeed(a) /\ row' = [row EXCEPT ![j] = new]
        \/ Fail(a) /\ row' = row
    BY <1>2, <1>14 DEF Store
  <2>3. Frame /\ ((Succeed(a) /\ row'[j] = new) \/ (Fail(a) /\ row'[j] = row[j]))
    BY <1>1, <2>1, <2>2 DEF TypeOK
  <2>4. Agree(j, new)'
    BY <2>1, <2>3 DEF Agree, Held, Exact, Scheduled
  <2> QED BY <1>1, <1>2, <2>1, <2>3, <2>4, Answered
<1>15. Frame /\ Others /\ Local
  <2> HIDE DEF Frame, Others, Local
  <2> QED BY <1>7, <1>8, <1>9, <1>10, <1>11, <1>12, <1>13, <1>14 DEF Serve
<1>16. \A i \in Jobs : i # j => /\ sched'[i] = sched[i] /\ row'[i] = row[i]
                                /\ pending'[i] = pending[i]
                                /\ (i \in tuned' <=> i \in tuned)
  BY <1>15
<1>17. \A b \in Admins : b # a => pc'[b] = pc[b] /\ req'[b] = req[b]
  BY <1>15
<1>18. Local
  BY <1>15
<1> QED BY <1>1, <1>2, <1>4, <1>16, <1>17, <1>18, LocalStep

-----------------------------------------------------------------------------
(* Requests that arrive one at a time *)

\* Every save so far has been a success.
NoErrors == \A j \in Jobs : pending[j] = NoForm

LEMMA PostInv ==
    ASSUME Inv, "serialized" \in Discipline,
           "retry" \in Discipline \/ NoErrors,
           NEW a \in Admins, PostSave(a) \/ PostCron(a)
    PROVE  Inv'
<1>1. TypeOK /\ TypeOK'
  BY PostType DEF Inv
<1>2. PICK request, stage :
         /\ Post(a, request, stage)
         /\ request \in Requests
         /\ \/ /\ request.page = "save" /\ stage = "read"
               /\ pending[request.job] \in {NoForm, request.form}
            \/ request.page = "cron" /\ stage = "readAgain"
  <2>1. CASE PostSave(a)
    <3>1. PICK j \in Jobs, f \in Rows :
             /\ pending[j] \in {NoForm, f}
             /\ Post(a, [page |-> "save", job |-> j, form |-> f], "read")
      BY <2>1 DEF PostSave, NoErrors
    <3> QED BY <3>1 DEF Requests
  <2>2. CASE PostCron(a)
    <3>1. PICK j \in Jobs, c \in Crons :
             Post(a, [page |-> "cron", job |-> j, form |-> [row[j] EXCEPT !.cron = c]],
                  "readAgain")
      BY <2>2 DEF PostCron
    <3>2. [row[j] EXCEPT !.cron = c] \in Rows
      BY <1>1 DEF TypeOK, Rows
    <3> QED BY <3>1, <3>2 DEF Requests
  <2> QED BY <2>1, <2>2
<1>3. PICK j \in Jobs : j = request.job
  BY <1>2 DEF Requests
<1>4. /\ pc[a] = "idle" /\ ~Busy(j)
      /\ pc' = [pc EXCEPT ![a] = stage] /\ req' = [req EXCEPT ![a] = request]
      /\ UNCHANGED <<row, sched, over, pending, tuned>>
  BY <1>2, <1>3 DEF Post, At, GoTo
<1>5. /\ pc'[a] = stage /\ req'[a] = request /\ Job(a)' = j
      /\ \A b \in Admins : b # a => pc'[b] = pc[b] /\ req'[b] = req[b] /\ Job(b)' = Job(b)
  BY <1>1, <1>3, <1>4 DEF TypeOK, Job
<1>6. \A i \in Jobs : Sync(i)' <=> Sync(i)
  BY <1>4 DEF Sync, Agree, Held, Scheduled
<1>7. OneEach'
  BY <1>4, <1>5 DEF Inv, OneEach, Busy
<1>8. ASSUME NEW i \in Jobs, ~Busy(i)' PROVE Sync(i)'
  <2>1. ~Busy(i)
    BY <1>4, <1>5, <1>8 DEF Busy
  <2> QED BY <1>6, <2>1 DEF Inv
<1>9. InHand(a)'
  <2>1. Sync(j)'
    BY <1>4, <1>6 DEF Inv
  <2>2. CASE request.page = "save"
    <3>1. SaveStage(j, request.form, "read")'
      BY <2>1 DEF SaveStage
    <3>2. PICK new : new = request.form
      OBVIOUS
    <3>3. Form(a)' = new /\ pc'[a] = "read" /\ SaveStage(j, new, "read")'
      BY <1>2, <1>5, <2>2, <3>1, <3>2 DEF Form
    <3>4. pending'[j] \in {NoForm, new}
      BY <1>2, <1>3, <1>4, <2>2, <3>2
    <3> QED BY <1>5, <2>2, <3>3, <3>4 DEF InHand
  <2>3. CASE request.page # "save"
    BY <1>2, <1>5, <2>1, <2>3 DEF InHand, CronStages
  <2> QED BY <2>2, <2>3
<1>10. ASSUME NEW b \in Admins, b # a, pc'[b] # "idle" PROVE InHand(b)'
  <2>1. InHand(b) /\ pc'[b] = pc[b] /\ req'[b] = req[b]
    BY <1>5, <1>10 DEF Inv
  <2>2. Job(b) \in Jobs
    BY <1>1, <1>5, <1>10, RequestType
  <2>3. PICK k, new, stg : k = Job(b) /\ new = Form(b) /\ stg = pc[b]
    OBVIOUS
  <2>4. Job(b)' = k /\ Form(b)' = new /\ pc'[b] = stg
    BY <2>1, <2>3 DEF Job, Form
  <2>5. /\ Sync(k)' <=> Sync(k)
        /\ SaveStage(k, new, stg)' <=> SaveStage(k, new, stg)
    BY <1>4 DEF SaveStage, Sync, Agree, Held, Exact, Scheduled
  <2> QED BY <1>4, <2>1, <2>3, <2>4, <2>5 DEF InHand
<1> QED BY <1>1, <1>4, <1>7, <1>8, <1>9, <1>10 DEF Inv

\* The end of a cron expression, and the job that goes with it.
LEMMA ClockInv ==
    ASSUME Inv, (\E c \in Crons : TimePasses(c)) \/ (\E i \in Jobs : Complete(i))
    PROVE  Inv'
<1>1. TypeOK /\ TypeOK'
  BY TypeNext DEF Inv, Next
<1>2. /\ UNCHANGED <<row, pc, req, pending>> /\ over' # {} /\ over \subseteq over'
      /\ \A j \in Jobs : Scheduled(j)' => /\ Scheduled(j) /\ sched'[j] = sched[j]
                                          /\ (j \in tuned' <=> j \in tuned)
  BY <1>1 DEF TimePasses, Complete, TypeOK, Scheduled
<1>3. ASSUME NEW j \in Jobs, NEW r
      PROVE  /\ Held(j, r) => Held(j, r)'
             /\ Agree(j, r) => Agree(j, r)'
             /\ Exact(j, r) => Exact(j, r)'
  BY <1>2 DEF Agree, Held, Exact
<1>4. \A j \in Jobs : Sync(j) => Sync(j)'
  BY <1>2, <1>3 DEF Sync
<1>5. \A j \in Jobs : Busy(j)' <=> Busy(j)
  BY <1>2 DEF Busy, Job
<1>6. ASSUME NEW a \in Admins, pc'[a] # "idle" PROVE InHand(a)'
  <2>1. InHand(a) /\ Job(a) \in Jobs
    BY <1>1, <1>2, <1>6, RequestType DEF Inv
  <2>2. PICK k, new, stage : k = Job(a) /\ new = Form(a) /\ stage = pc[a]
    OBVIOUS
  <2>3. Job(a)' = k /\ Form(a)' = new /\ pc'[a] = stage /\ req'[a] = req[a]
    BY <1>2, <2>2 DEF Job, Form
  <2>4. k \in Jobs /\ (Scheduled(k)' => Scheduled(k)) /\ row'[k] = row[k]
    BY <1>2, <2>1, <2>2
  <2>5. SaveStage(k, new, stage) => SaveStage(k, new, stage)'
    BY <1>3, <1>4, <2>4 DEF SaveStage
  <2>6. Sync(k) => Sync(k)'
    BY <1>4, <2>4
  <2> QED BY <1>2, <2>1, <2>2, <2>3, <2>5, <2>6 DEF InHand
<1>7. OneEach'
  BY <1>2 DEF Inv, OneEach, Job
<1> QED BY <1>1, <1>4, <1>5, <1>6, <1>7 DEF Inv

LEMMA InvNext ==
    ASSUME Inv, [Next]_vars, "serialized" \in Discipline,
           "retry" \in Discipline \/ NoErrors
    PROVE  Inv'
<1>1. TypeOK'
  BY TypeNext DEF Inv
<1>2. CASE Restart
  <2>1. \A j \in Jobs : Sync(j)'
    BY <1>2, LoadedAgrees DEF Restart, Sync, Agree, Held, Scheduled, Inv, TypeOK
  <2> QED BY <1>1, <1>2, <2>1 DEF Restart, Inv, OneEach
<1>3. CASE UNCHANGED vars
  <2>1. \A j \in Jobs : (Sync(j)' <=> Sync(j)) /\ (Busy(j)' <=> Busy(j))
    BY <1>3 DEF vars, Sync, Agree, Held, Scheduled, Busy, Job
  <2>2. \A a \in Admins : InHand(a)' <=> InHand(a)
    BY <1>3 DEF vars, InHand, SaveStage, Sync, Agree, Held, Exact, Scheduled, Job, Form
  <2>3. OneEach'
    BY <1>3 DEF vars, Inv, OneEach, Job
  <2> QED BY <1>1, <1>3, <2>1, <2>2, <2>3 DEF vars, Inv
<1> QED BY <1>2, <1>3, ClockInv, ServeInv, PostInv DEF Next

LEMMA InvAlways ==
    ASSUME {"serialized", "retry"} \subseteq Discipline
    PROVE  Spec => []Inv
<1>1. Inv /\ [Next]_vars => Inv'
  BY InvNext
<1> QED BY <1>1, InvInit, PTL DEF Spec

(* What the page shows is what the scheduler does, when the edits of a job *)
(* come one at a time and a failed one is repeated until it goes through:  *)
(* whatever fails on the way, wherever the application restarts, and even  *)
(* with both pages in use.                                                 *)
THEOREM SwitchesAgree ==
    ASSUME {"serialized", "retry"} \subseteq Discipline
    PROVE  Spec => []SwitchAgrees
<1>1. Inv => SwitchAgrees
  BY DEF Inv, SwitchAgrees, Settled, Sync, Agree, Held
<1> QED BY <1>1, InvAlways, PTL

(* A trigger that updateCron's page has not set has the cron expression of *)
(* the row, under the same conditions, for crons that end and that do not. *)
THEOREM CronsAgree ==
    ASSUME {"serialized", "retry"} \subseteq Discipline
    PROVE  Spec => []CronAgrees
<1>1. Inv => CronAgrees
  BY DEF Inv, CronAgrees, Settled, Sync, Agree, Held
<1> QED BY <1>1, InvAlways, PTL

-----------------------------------------------------------------------------
(* Where no error can come from *)

\* When the database stores every row and every cron expression fires for ever,
\* a step of a request never ends it with an error.
LEMMA ServeSucceeds ==
    ASSUME Inv, NoErrors, "db" \notin Faults, FiniteCrons = {},
           NEW a \in Admins, Serve(a)
    PROVE  NoErrors'
<1>1. /\ TypeOK /\ pc[a] # "idle" /\ Job(a) \in Jobs /\ Form(a) \in Rows
      /\ InHand(a) /\ over = {}
  BY RequestType DEF Inv, TypeOK, Serve, ReadRow, GetTrigger, Schedule,
         Reschedule, Delete, ReadAgain, GetCronTrigger, Store, At
<1>2. ASSUME req[a].page # "save", Succeed(a) \/ Fail(a) PROVE NoErrors'
  BY <1>2 DEF Succeed, Fail, Respond, NoErrors
<1>3. ASSUME Succeed(a) PROVE NoErrors'
  BY <1>1, <1>3 DEF Succeed, Respond, NoErrors, TypeOK
<1>4. ASSUME Proceed(a) PROVE NoErrors'
  BY <1>3, <1>4 DEF Proceed, NoErrors
<1>5. CASE Schedule(a)
  <2>1. req[a].page = "save" /\ ~Scheduled(Job(a))
    BY <1>1, <1>5 DEF Schedule, At, InHand, SaveStage, CronStages
  <2>2. Proceed(a)
    BY <1>1, <1>5, <2>1 DEF Schedule, Scheduled
  <2> QED BY <1>4, <2>2
<1>6. CASE Reschedule(a)
  BY <1>1, <1>4, <1>6 DEF Reschedule
<1>7. CASE GetCronTrigger(a)
  <2>1. CASE req[a].page = "save"
    <3>1. Scheduled(Job(a))
      BY <1>1, <1>7, <2>1 DEF GetCronTrigger, At, InHand, SaveStage, Agree
    <3> QED BY <1>7, <3>1 DEF GetCronTrigger, Scheduled, NoErrors
  <2>2. CASE req[a].page # "save"
    BY <1>2, <1>7, <2>2 DEF GetCronTrigger, NoErrors
  <2> QED BY <2>1, <2>2
<1>8. CASE Store(a)
  BY <1>3, <1>8 DEF Store
<1>9. CASE ReadRow(a) \/ GetTrigger(a) \/ Delete(a)
  BY <1>9 DEF ReadRow, GetTrigger, Delete, NoErrors
<1>10. CASE ReadAgain(a)
  BY <1>4, <1>10 DEF ReadAgain, NoErrors
<1> QED BY <1>5, <1>6, <1>7, <1>8, <1>9, <1>10 DEF Serve

LEMMA NoErrorsAlways ==
    ASSUME "serialized" \in Discipline, "db" \notin Faults, FiniteCrons = {}
    PROVE  Spec => [](Inv /\ NoErrors)
<1>1. Init => Inv /\ NoErrors
  BY InvInit DEF Init, NoErrors
<1>2. Inv /\ NoErrors /\ [Next]_vars => Inv' /\ NoErrors'
  <2> SUFFICES ASSUME Inv, NoErrors, [Next]_vars PROVE Inv' /\ NoErrors'
    OBVIOUS
  <2>1. Inv'
    BY InvNext
  <2>2. ASSUME NEW a \in Admins, PostSave(a) \/ PostCron(a) PROVE NoErrors'
    BY <2>2 DEF PostSave, PostCron, Post, NoErrors
  <2>3. ASSUME NEW a \in Admins, Serve(a) PROVE NoErrors'
    BY <2>3, ServeSucceeds
  <2>4. ASSUME NEW c \in Crons, TimePasses(c) PROVE NoErrors'
    BY <2>4 DEF TimePasses, NoErrors
  <2>5. ASSUME NEW j \in Jobs, Complete(j) PROVE NoErrors'
    BY <2>5 DEF Complete, NoErrors
  <2>6. CASE Restart
    BY <2>1, <2>6 DEF Restart, NoErrors
  <2>7. CASE UNCHANGED vars
    BY <2>1, <2>7 DEF vars, NoErrors
  <2> QED BY <2>1, <2>2, <2>3, <2>4, <2>5, <2>6, <2>7 DEF Next
<1> QED BY <1>1, <1>2, PTL DEF Spec

(* Edits of a job one at a time never run into each other's work: with a   *)
(* database that works and crons that do not end, saveJob never answers    *)
(* with an error, the other page and restarts notwithstanding.             *)
THEOREM SavesSucceed ==
    ASSUME "serialized" \in Discipline, "db" \notin Faults, FiniteCrons = {}
    PROVE  Spec => []NoErrors
BY NoErrorsAlways, PTL

(* So the page and the scheduler agree then whatever the administrators    *)
(* save next: nothing has to be sent again for it, and a job runs exactly  *)
(* when its row says so.                                                   *)
THEOREM AgreeWithoutRetry ==
    ASSUME "serialized" \in Discipline, "db" \notin Faults, FiniteCrons = {}
    PROVE  Spec => [](SwitchAgrees /\ CronAgrees
                      /\ \A j \in Jobs : ~Busy(j) => (Scheduled(j) <=> Running(row[j])))
<1>1. ASSUME Inv, NoErrors
      PROVE  /\ SwitchAgrees /\ CronAgrees
             /\ \A j \in Jobs : ~Busy(j) => (Scheduled(j) <=> Running(row[j]))
  <2>1. over = {}
    BY <1>1 DEF Inv, TypeOK
  <2> QED BY <1>1, <2>1 DEF Inv, NoErrors, SwitchAgrees, CronAgrees, Settled, Sync, Agree, Held
<1> QED BY <1>1, NoErrorsAlways, PTL
=============================================================================
