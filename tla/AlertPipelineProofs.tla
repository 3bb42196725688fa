------------------------ MODULE AlertPipelineProofs ------------------------
(***************************************************************************)
(* What AlertPipeline keeps for any number of alerts, jobs and requests,   *)
(* any prices, patches, poll interval, retention and number of crashes:    *)
(* types; alerts and events that belong to each other; a sample that       *)
(* speaks once; a pause that stands; a cooldown that lasts.                *)
(***************************************************************************)
EXTENDS AlertPipeline, TLAPS, WellFoundedInduction

\* Rows built by the code are rows of the table.
LEMMA FreshOK == ASSUME NEW spec \in NewAlert PROVE Fresh(spec) \in AlertRow
BY DEF Fresh, NewAlert, AlertRow, Statuses

\* What _record_event writes on an alert is a row of the table.
LEMMA ParkedOK ==
    ASSUME NEW old \in AlertRow, NEW one_shot, NEW now \in Times
    PROVE  Parked(old, one_shot, now) \in AlertRow
<1>1. (IF one_shot THEN "paused" ELSE "cooling") \in Statuses
  BY DEF Statuses
<1> QED BY <1>1 DEF Parked, AlertRow

\* PATCH assigns only values a row may hold.
LEMMA PatchedOK ==
    ASSUME NEW old \in AlertRow, NEW patch \in Patch
    PROVE  Patched(old, patch) \in AlertRow
<1>1. /\ Given(patch.threshold, old.threshold) \in Int
      /\ Given(patch.cooldown, old.cooldown) \in Int
      /\ Given(patch.one_shot, old.one_shot) \in BOOLEAN
      /\ Given(patch.status, old.status) \in Statuses
      /\ (IF patch.status = "active" THEN None ELSE old.last) \in Times \cup {None}
  BY DEF Given, Patch, AlertRow
<1> QED BY <1>1 DEF Patched, AlertRow

\* The UPDATE of the columns that changed leaves a row of the table.
LEMMA MergeOK ==
    ASSUME NEW current \in AlertRow, NEW loaded \in AlertRow, NEW assigned \in AlertRow
    PROVE  Merge(current, loaded, assigned) \in AlertRow
<1> DEFINE new(field) == IF assigned[field] # loaded[field] THEN assigned[field] ELSE current[field]
<1>1. /\ new("threshold") \in Int /\ new("cooldown") \in Int
      /\ new("one_shot") \in BOOLEAN /\ new("status") \in Statuses
      /\ new("last") \in Times \cup {None}
  BY DEF AlertRow
<1>2. Merge(current, loaded, assigned)
        = [current EXCEPT !.threshold = new("threshold"), !.cooldown = new("cooldown"),
                          !.one_shot = new("one_shot"), !.last = new("last"),
                          !.status = new("status")]
  BY DEF Merge
<1> HIDE DEF new
<1> QED BY <1>1, <1>2 DEF AlertRow

\* An event is a row of alert_events.
LEMMA EventOK ==
    ASSUME NEW a \in Alerts, NEW r \in AlertRow, NEW sample \in Sample, NEW now \in Times
    PROVE  event(a, r, sample, now) \in Event
<1>1. r.cooldown \in Int /\ sample.at \in Int /\ sample.at \in Times /\ sample.price \in Prices
  BY PipelineAssumption DEF AlertRow, Sample, Times
<1>2. dedupe_bucket(sample.at, r.cooldown) \in Int
  BY <1>1 DEF dedupe_bucket
<1> QED BY <1>1, <1>2 DEF event, Event

\* Any nonempty set of natural numbers has a least one.
LEMMA LeastNumber ==
    ASSUME NEW T, T \subseteq Nat, T # {}
    PROVE  \E least \in T : \A n \in T : least <= n
<1>1. PICK least \in T : \A n \in T : ~ (<<n, least>> \in OpToRel(<, Nat))
  BY WFMin, NatLessThanWellFounded
<1>2. \A n \in T : ~ (n < least)
  BY <1>1 DEF OpToRel
<1> QED BY <1>2

\* A sorted set that is not empty has a newest member: ZREVRANGE returns one.
LEMMA NewestExists ==
    ASSUME NEW S \in SUBSET Sample, S # {}
    PROVE  Newest(S) \in S /\ \A t \in S : t.at <= Newest(S).at
<1> DEFINE ages == {MaxTime - t.at : t \in S}
<1>1. ages \subseteq Nat /\ ages # {}
  BY PipelineAssumption DEF Sample, Times
<1>2. PICK least \in ages : \A n \in ages : least <= n
  BY <1>1, LeastNumber
<1>3. PICK s \in S : least = MaxTime - s.at
  OBVIOUS
<1>4. ASSUME NEW t \in S PROVE t.at <= s.at
  <2>1. MaxTime - s.at <= MaxTime - t.at
    BY <1>2, <1>3
  <2>2. t.at \in Int /\ s.at \in Int /\ MaxTime \in Int
    BY PipelineAssumption DEF Sample, Times
  <2> QED BY <2>1, <2>2
<1> QED BY <1>3, <1>4 DEF Newest

\* previous_price answers with a price that was stored, or with nothing.
LEMMA PreviousPriceOK ==
    ASSUME NEW h \in SUBSET Sample
    PROVE  previous_price(h) \in Prices \cup {None}
<1> DEFINE older == h \ {Newest(h)}
<1>1. CASE h = {} \/ older = {}
  BY <1>1 DEF previous_price
<1>2. CASE ~ (h = {} \/ older = {})
  <2>1. Newest(older) \in older
    BY <1>2, NewestExists
  <2>2. Newest(older).price \in Prices
    BY <2>1 DEF Sample
  <2> QED BY <1>2, <2>2 DEF previous_price
<1> QED BY <1>1, <1>2
-----------------------------------------------------------------------------
(* Type correctness.                                                       *)

JobsOK == job \in [Jobs -> JobState] /\ \A j \in Jobs : JobOK(job[j])
ReqsOK == req \in [Requests -> ReqState] /\ \A r \in Requests : ReqOK(req[r])

\* A job or request that has ended holds nothing.
LEMMA IdleOK ==
    /\ IdleJob \in JobState /\ JobOK(IdleJob)
    /\ IdleReq \in ReqState /\ ReqOK(IdleReq)
<1>1. NoRows \in Table
  BY DEF NoRows, Table
<1> QED BY <1>1 DEF IdleJob, JobState, JobOK, IdleReq, ReqState, ReqOK

\* A job that moves to well-formed memory leaves all jobs well formed ...
LEMMA StepOK ==
    ASSUME JobsOK, NEW j \in Jobs, NEW from, NEW changes \in JobState, JobOK(changes),
           Step(j, from, changes)
    PROVE  JobsOK'
BY DEF JobsOK, Step

\* ... and so does one that ends.
LEMMA DoneOK ==
    ASSUME JobsOK, NEW j \in Jobs, NEW from, Done(j, from)
    PROVE  JobsOK'
BY IdleOK, StepOK DEF Done

\* A request that moves to well-formed memory leaves all requests well formed ...
LEMMA ReqStepOK ==
    ASSUME ReqsOK, NEW r \in Requests, NEW from, NEW changes \in ReqState, ReqOK(changes),
           ReqStep(r, from, changes)
    PROVE  ReqsOK'
BY DEF ReqsOK, ReqStep

\* ... and so does one that is answered.
LEMMA ReqDoneOK ==
    ASSUME ReqsOK, NEW r \in Requests, NEW from, ReqDone(r, from)
    PROVE  ReqsOK'
BY IdleOK, ReqStepOK DEF ReqDone

\* What a job records for an alert it has loaded is an event.
LEMMA NewEventOK ==
    ASSUME TypeOK, NEW j \in Jobs, NEW a \in Alerts,
           job[j].pc = "deciding", a \in job[j].todo, Wants(j, a)
    PROVE  /\ NewEvent(j, a) \in Event
           /\ NewEvent(j, a).alert = a /\ NewEvent(j, a).triggered_at = job[j].now
           /\ NewEvent(j, a).sampled_at = job[j].latest.at
           /\ NewEvent(j, a).bucket = dedupe_bucket(job[j].latest.at, job[j].seen[a].cooldown)
<1>1. job[j] \in JobState /\ JobOK(job[j])
  BY DEF TypeOK
<1>2. job[j].seen[a] \in AlertRow /\ job[j].latest \in Sample /\ job[j].now \in Times
  BY <1>1 DEF JobState, JobOK, Table, Wants
<1>3. NewEvent(j, a) \in Event
  BY <1>2, EventOK DEF NewEvent
<1> QED BY <1>3 DEF NewEvent, event

\* Every step of a job leaves every job's memory well formed.
LEMMA JobStepOK ==
    ASSUME TypeOK, NEW j \in Jobs, Fetch(j) \/ JobStep(j) \/ Crash(j)
    PROVE  JobsOK'
<1>0. JobsOK /\ job[j] \in JobState /\ JobOK(job[j]) /\ clock \in Times
  BY DEF TypeOK, JobsOK
<1>1. CASE Fetch(j)
  <2>1. CASE \E p \in Prices :
               Step(j, "idle", [IdleJob EXCEPT !.pc = "fetched", !.started = clock,
                                  !.sample = [price |-> p, at |-> clock]])
    <3>1. PICK p \in Prices :
               Step(j, "idle", [IdleJob EXCEPT !.pc = "fetched", !.started = clock,
                                  !.sample = [price |-> p, at |-> clock]])
      BY <2>1
    <3> DEFINE changes == [IdleJob EXCEPT !.pc = "fetched", !.started = clock,
                                  !.sample = [price |-> p, at |-> clock]]
    <3>2. changes \in JobState
      BY <1>0, IdleOK DEF JobState, Sample
    <3>3. JobOK(changes)
      <4>1. [price |-> p, at |-> clock] # None
        BY <1>0, PipelineAssumption DEF Sample
      <4> QED BY <4>1 DEF JobOK, IdleJob
    <3> QED BY <1>0, <3>1, <3>2, <3>3, StepOK
  <2>2. CASE Step(j, "idle", [IdleJob EXCEPT !.pc = "stored", !.started = clock])
    <3> DEFINE changes == [IdleJob EXCEPT !.pc = "stored", !.started = clock]
    <3>1. changes \in JobState /\ JobOK(changes)
      BY <1>0, IdleOK DEF JobState, JobOK, IdleJob
    <3> QED BY <1>0, <2>2, <3>1, StepOK
  <2> QED BY <1>1, <2>1, <2>2 DEF Fetch
<1>2. CASE StoreLatest(j)
  <2> DEFINE changes == [job[j] EXCEPT !.pc = "half_stored"]
  <2>1. changes \in JobState /\ JobOK(changes)
    BY <1>0, <1>2 DEF JobState, JobOK, StoreLatest, Step
  <2> QED BY <1>0, <1>2, <2>1, StepOK DEF StoreLatest
<1>3. CASE StoreHistory(j)
  <2> DEFINE stored == [job[j] EXCEPT !.pc = "stored"]
             changes == IF j \in PollJobs THEN stored ELSE IdleJob
  <2>1. stored \in JobState /\ JobOK(stored)
    BY <1>0, <1>3 DEF JobState, JobOK, StoreHistory, Step
  <2>2. changes \in JobState /\ JobOK(changes)
    BY <2>1, IdleOK
  <2> QED BY <1>0, <1>3, <2>2, StepOK DEF StoreHistory
<1>4. CASE EvalSelect(j)
  <2> DEFINE active == ActiveAlerts
             seen == [a \in Alerts |-> IF a \in active THEN alerts[a] ELSE None]
             changes == [job[j] EXCEPT !.pc = "selected", !.now = clock, !.todo = active,
                                       !.seen = seen]
  <2>1. seen \in Table /\ active \in SUBSET Alerts /\ \A a \in active : seen[a] # None
    BY DEF TypeOK, Table, Rows, ActiveAlerts
  <2>2. changes \in JobState /\ JobOK(changes)
    <3> HIDE DEF seen, active
    <3>1. changes \in JobState
      BY <1>0, <2>1 DEF JobState
    <3>2. /\ changes.pc = "selected" /\ changes.now = clock /\ changes.todo = active
          /\ changes.seen = seen
      BY <1>0 DEF JobState
    <3>3. clock # None
      BY <1>0, NoneAssumption, PipelineAssumption DEF Times
    <3> QED BY <2>1, <3>1, <3>2, <3>3 DEF JobOK
  <2>3. CASE Done(j, "stored")
    BY <1>0, <2>3, DoneOK
  <2>4. CASE Step(j, "stored", changes)
    BY <1>0, <2>2, <2>4, StepOK
  <2> QED BY <1>4, <2>3, <2>4 DEF EvalSelect
<1>5. CASE EvalReadLatest(j)
  <2> DEFINE changes == [job[j] EXCEPT !.pc = "priced", !.latest = latest]
  <2>1. changes \in JobState
    BY <1>0 DEF JobState, TypeOK
  <2>2. JobOK(changes)
    BY <1>0, <1>5 DEF JobState, JobOK, EvalReadLatest, Step
  <2> QED BY <1>0, <1>5, <2>1, <2>2, StepOK DEF EvalReadLatest
<1>6. CASE EvalReadPrevious(j)
  <2> DEFINE changes == [job[j] EXCEPT !.pc = "deciding", !.previous = previous_price(history)]
  <2>1. changes \in JobState
    BY <1>0, PreviousPriceOK DEF JobState, TypeOK
  <2>2. JobOK(changes)
    BY <1>0, <1>6 DEF JobState, JobOK, EvalReadPrevious, Step
  <2> QED BY <1>0, <1>6, <2>1, <2>2, StepOK DEF EvalReadPrevious
<1>7. ASSUME NEW a \in Alerts, EvalDecide(j, a) PROVE JobsOK'
  <2> DEFINE left == job[j].todo \ {a}
             new == NewEvent(j, a)
             passed == [job[j] EXCEPT !.todo = left]
             wrote == [job[j] EXCEPT !.todo = left, !.ins = @ \cup {new}]
  <2>1. job[j].pc = "deciding" /\ a \in job[j].todo
    BY <1>7 DEF EvalDecide
  <2>2. passed \in JobState /\ JobOK(passed)
    BY <1>0, <2>1 DEF JobState, JobOK
  <2>3. CASE Wants(j, a)
    <3>1. new \in Event
      BY <2>1, <2>3, NewEventOK
    <3>2. wrote \in JobState /\ JobOK(wrote)
      <4> HIDE DEF new
      <4> QED BY <1>0, <2>1, <3>1 DEF JobState, JobOK
    <3>3. CASE Step(j, "deciding", passed)
      BY <1>0, <2>2, <3>3, StepOK
    <3>4. CASE Step(j, "deciding", wrote)
      BY <1>0, <3>2, <3>4, StepOK
    <3>5. CASE Done(j, "deciding")
      BY <1>0, <3>5, DoneOK
    <3> QED BY <1>7, <2>3, <3>3, <3>4, <3>5 DEF EvalDecide
  <2>4. CASE ~ Wants(j, a)
    <3>1. Step(j, "deciding", passed)
      BY <1>7, <2>4 DEF EvalDecide
    <3> QED BY <1>0, <2>2, <3>1, StepOK
  <2> QED BY <2>3, <2>4
<1>8. CASE EvalDeadlockVictim(j)
  BY <1>0, <1>8, DoneOK DEF EvalDeadlockVictim
<1>9. CASE EvalCommit(j)
  <2> DEFINE changes == [job[j] EXCEPT !.pc = "committed", !.ins = {}]
  <2>1. changes \in JobState /\ JobOK(changes)
    BY <1>0, <1>9 DEF JobState, JobOK, EvalCommit, Step
  <2> QED BY <1>0, <1>9, <2>1, StepOK DEF EvalCommit
<1>10. CASE ReactSelect(j)
  <2> DEFINE due == {a \in Rows : DueToWake(j, a)}
             changes == [job[j] EXCEPT !.pc = "reactivating", !.warm = due]
  <2>1. due \in SUBSET Alerts /\ job[j].pc = "committed"
    BY <1>10 DEF Rows, ReactSelect
  <2>2. changes \in JobState /\ JobOK(changes)
    <3> HIDE DEF due
    <3> QED BY <1>0, <2>1 DEF JobState, JobOK
  <2>3. CASE Done(j, "committed")
    BY <1>0, <2>3, DoneOK
  <2>4. CASE Step(j, "committed", changes)
    BY <1>0, <2>2, <2>4, StepOK
  <2> QED BY <1>10, <2>3, <2>4 DEF ReactSelect
<1>11. CASE ReactCommit(j)
  BY <1>0, <1>11, DoneOK DEF ReactCommit
<1>12. CASE Crash(j)
  BY <1>0, <1>12, IdleOK DEF Crash, JobsOK
<1> QED
  BY <1>1, <1>2, <1>3, <1>4, <1>5, <1>6, <1>7, <1>8, <1>9, <1>10, <1>11, <1>12 DEF JobStep

\* Every step of a request leaves every request's memory well formed.
LEMMA ReqNextOK ==
    ASSUME TypeOK, NEW r \in Requests, ReqNext(r)
    PROVE  ReqsOK'
<1>0. ReqsOK /\ req[r] \in ReqState /\ ReqOK(req[r]) /\ clock \in Times
  BY DEF TypeOK, ReqsOK
<1>1. ASSUME NEW a \in Alerts, NEW spec \in NewAlerts, CreateCount(r, a, spec)
      PROVE  ReqsOK'
  <2> DEFINE changes == [IdleReq EXCEPT !.pc = "counted", !.started = clock,
                                        !.alert = a, !.row = Fresh(spec)]
  <2>1. a # None /\ Fresh(spec) \in AlertRow /\ Fresh(spec) # None
    BY FreshOK, PipelineAssumption
  <2>2. changes \in ReqState
    BY <1>0, <2>1, IdleOK DEF ReqState
  <2>3. ReqOK(changes)
    BY <2>1 DEF ReqOK, IdleReq
  <2> QED BY <1>0, <1>1, <2>2, <2>3, ReqStepOK DEF CreateCount
<1>2. ASSUME NEW a \in Alerts, NEW patch \in Patches, PatchLoad(r, a, patch)
      PROVE  ReqsOK'
  <2> DEFINE changes == [IdleReq EXCEPT !.pc = "loaded", !.started = clock,
                                        !.alert = a, !.row = alerts[a], !.patch = patch]
  <2>1. a # None /\ alerts[a] \in AlertRow /\ alerts[a] # None /\ patch # None
    BY <1>2, PipelineAssumption DEF PatchLoad, TypeOK, Table, Rows
  <2>2. changes \in ReqState
    BY <1>0, <2>1, IdleOK DEF ReqState
  <2>3. ReqOK(changes)
    BY <2>1 DEF ReqOK, IdleReq
  <2> QED BY <1>0, <1>2, <2>2, <2>3, ReqStepOK DEF PatchLoad
<1>3. CASE CreateInsert(r)
  <2> DEFINE changes == [req[r] EXCEPT !.pc = "arming"]
  <2>1. changes \in ReqState /\ ReqOK(changes)
    BY <1>0, <1>3 DEF ReqState, ReqOK, CreateInsert, ReqStep
  <2> QED BY <1>0, <1>3, <2>1, ReqStepOK DEF CreateInsert
<1>4. CASE ArmRead(r)
  <2> DEFINE changes == [req[r] EXCEPT !.pc = "holding", !.sample = latest]
  <2>1. ASSUME ArmHolds(req[r].row) PROVE changes \in ReqState /\ ReqOK(changes)
    BY <1>0, <1>4, <2>1 DEF ReqState, ReqOK, ArmRead, ArmHolds, TypeOK
  <2>2. CASE ArmHolds(req[r].row)
    BY <1>0, <1>4, <2>1, <2>2, ReqStepOK DEF ArmRead
  <2>3. CASE ~ ArmHolds(req[r].row)
    BY <1>0, <1>4, <2>3, ReqDoneOK DEF ArmRead
  <2> QED BY <2>2, <2>3
<1>5. CASE ArmRecord(r) \/ PatchCommit(r)
  BY <1>0, <1>5, ReqDoneOK DEF ArmRecord, PatchCommit
<1>6. CASE ReqCrash(r)
  BY <1>0, <1>6, IdleOK DEF ReqCrash, ReqsOK
<1>7. ASSUME NEW a \in Alerts, Delete(r, a) PROVE ReqsOK'
  BY <1>0, <1>7 DEF Delete, ReqsOK
<1> QED BY <1>1, <1>2, <1>3, <1>4, <1>5, <1>6, <1>7 DEF ReqNext, ReqFinish

\* The tables and redis stay well formed under the steps of the jobs ...
LEMMA JobWritesOK ==
    ASSUME TypeOK, NEW j \in Jobs, Fetch(j) \/ JobStep(j) \/ Crash(j)
    PROVE  /\ latest' \in Sample \cup {None} /\ history' \in SUBSET Sample
           /\ alerts' \in Table /\ Rows' = Rows
           /\ events' \in SUBSET Event
           /\ ran' \in [Jobs -> Times \cup {None}]
           /\ spent' \in [patches : 0 .. MaxPatches, deletes : 0 .. MaxDeletes,
                          crashes : 0 .. MaxCrashes]
           /\ UNCHANGED <<clock, unborn, req>>
<1>0. job[j] \in JobState /\ JobOK(job[j])
  BY DEF TypeOK
<1>1. CASE Fetch(j)
  BY <1>1 DEF Fetch, TypeOK, Rows
<1>2. CASE StoreLatest(j) \/ StoreHistory(j)
  <2>1. job[j].sample \in Sample
    BY <1>0, <1>2 DEF StoreLatest, StoreHistory, Step, JobOK, JobState
  <2> QED BY <1>2, <2>1 DEF StoreLatest, StoreHistory, TypeOK, Rows
<1>3. CASE EvalSelect(j) \/ EvalReadLatest(j) \/ EvalReadPrevious(j)
  BY <1>3 DEF EvalSelect, EvalReadLatest, EvalReadPrevious, TypeOK, Rows
<1>4. CASE (\E a \in Alerts : EvalDecide(j, a)) \/ EvalDeadlockVictim(j) \/ ReactSelect(j)
  BY <1>4 DEF EvalDecide, EvalDeadlockVictim, ReactSelect, TypeOK, Rows
<1>5. CASE EvalCommit(j)
  <2>1. job[j].now \in Times
    BY <1>0, <1>5 DEF EvalCommit, Step, JobOK, JobState
  <2>2. \A a \in Rows : Parked(alerts[a], job[j].seen[a].one_shot, job[j].now) \in AlertRow
    BY <2>1, ParkedOK DEF TypeOK, Table, Rows
  <2>3. alerts' \in Table /\ Rows' = Rows
    BY <1>5, <2>2, PipelineAssumption DEF EvalCommit, TypeOK, Table, Rows
  <2>4. events' \in SUBSET Event
    BY <1>0, <1>5 DEF EvalCommit, TypeOK, JobState
  <2> QED BY <1>5, <2>3, <2>4 DEF EvalCommit, TypeOK
<1>6. CASE ReactCommit(j)
  <2>1. \A a \in Rows : [alerts[a] EXCEPT !.status = "active"] \in AlertRow
    BY DEF TypeOK, Table, Rows, AlertRow, Statuses
  <2>2. alerts' \in Table /\ Rows' = Rows
    BY <1>6, <2>1, PipelineAssumption DEF ReactCommit, TypeOK, Table, Rows
  <2> QED BY <1>6, <2>2 DEF ReactCommit, TypeOK
<1>7. CASE Crash(j)
  BY <1>7, PipelineAssumption DEF Crash, TypeOK, Rows
<1> QED BY <1>1, <1>2, <1>3, <1>4, <1>5, <1>6, <1>7 DEF JobStep

\* ... and of the requests.
LEMMA ReqWritesOK ==
    ASSUME TypeOK, NEW r \in Requests, ReqNext(r)
    PROVE  /\ alerts' \in Table /\ events' \in SUBSET Event
           /\ unborn' \in SUBSET Alerts /\ unborn' \cap Rows' = {}
           /\ \A q \in Requests : req'[q].alert \notin unborn'
           /\ spent' \in [patches : 0 .. MaxPatches, deletes : 0 .. MaxDeletes,
                          crashes : 0 .. MaxCrashes]
           /\ UNCHANGED <<clock, latest, history, job, ran>>
<1>0. req[r] \in ReqState /\ ReqOK(req[r]) /\ req \in [Requests -> ReqState]
  BY DEF TypeOK
<1>1. ASSUME NEW a \in Alerts, NEW spec \in NewAlerts, CreateCount(r, a, spec)
      PROVE  /\ unborn' \in SUBSET Alerts /\ unborn' \cap Rows' = {}
             /\ \A q \in Requests : req'[q].alert \notin unborn'
             /\ UNCHANGED <<clock, latest, history, alerts, events, job, ran, spent>>
  <2>1. req'[r].alert = a
    BY <1>0, <1>1 DEF CreateCount, ReqStep, IdleReq
  <2>2. \A q \in Requests \ {r} : req'[q] = req[q]
    BY <1>0, <1>1 DEF CreateCount, ReqStep
  <2> QED BY <1>1, <2>1, <2>2 DEF CreateCount, TypeOK, Rows
<1>2. ASSUME NEW a \in Alerts, NEW patch \in Patches, PatchLoad(r, a, patch)
      PROVE  /\ \A q \in Requests : req'[q].alert \notin unborn'
             /\ spent' \in [patches : 0 .. MaxPatches, deletes : 0 .. MaxDeletes,
                            crashes : 0 .. MaxCrashes]
             /\ UNCHANGED <<clock, latest, history, alerts, unborn, events, job, ran>>
  <2>1. req'[r].alert = a /\ a \notin unborn
    BY <1>0, <1>2 DEF PatchLoad, ReqStep, IdleReq, TypeOK
  <2>2. \A q \in Requests \ {r} : req'[q] = req[q]
    BY <1>0, <1>2 DEF PatchLoad, ReqStep
  <2>3. spent' \in [patches : 0 .. MaxPatches, deletes : 0 .. MaxDeletes,
                    crashes : 0 .. MaxCrashes]
    BY <1>2, PipelineAssumption DEF PatchLoad, TypeOK
  <2> QED BY <1>2, <2>1, <2>2, <2>3 DEF PatchLoad, TypeOK
<1>3. ASSUME CreateInsert(r) \/ ArmRead(r) \/ ArmRecord(r) \/ PatchCommit(r) \/ ReqCrash(r)
      PROVE  \A q \in Requests : req'[q].alert \notin unborn
  <2>1. \A q \in Requests \ {r} : req'[q] = req[q]
    BY <1>0, <1>3 DEF CreateInsert, ArmRead, ArmRecord, PatchCommit, ReqCrash, ReqStep, ReqDone
  <2>2. req'[r].alert = req[r].alert \/ req'[r].alert = None
    <3>1. CASE CreateInsert(r)
      BY <1>0, <3>1 DEF CreateInsert, ReqStep, ReqState
    <3>2. CASE ArmRead(r)
      <4>1. CASE ReqStep(r, "arming", [req[r] EXCEPT !.pc = "holding", !.sample = latest])
        BY <1>0, <4>1 DEF ReqStep, ReqState
      <4>2. CASE ReqDone(r, "arming")
        BY <1>0, <4>2 DEF ReqStep, ReqDone, IdleReq
      <4> QED BY <3>2, <4>1, <4>2 DEF ArmRead
    <3>3. CASE ArmRecord(r) \/ PatchCommit(r) \/ ReqCrash(r)
      BY <1>0, <3>3 DEF ArmRecord, PatchCommit, ReqCrash, ReqStep, ReqDone, IdleReq
    <3> QED BY <1>3, <3>1, <3>2, <3>3
  <2> QED BY <2>1, <2>2, PipelineAssumption DEF TypeOK
<1>4. ASSUME CreateInsert(r)
      PROVE  /\ alerts' \in Table /\ unborn \cap Rows' = {}
             /\ UNCHANGED <<clock, latest, history, unborn, events, job, ran, spent>>
  <2>1. req[r].alert \in Alerts \ unborn /\ req[r].row \in AlertRow
    BY <1>0, <1>4 DEF CreateInsert, ReqStep, ReqOK, ReqState, TypeOK
  <2> QED BY <1>4, <2>1 DEF CreateInsert, TypeOK, Table, Rows
<1>5. ASSUME ArmRead(r) \/ ReqCrash(r)
      PROVE  /\ UNCHANGED <<clock, latest, history, alerts, unborn, events, job, ran>>
             /\ spent' \in [patches : 0 .. MaxPatches, deletes : 0 .. MaxDeletes,
                            crashes : 0 .. MaxCrashes]
  BY <1>5, PipelineAssumption DEF ArmRead, ReqCrash, TypeOK
<1>6. ASSUME ArmRecord(r)
      PROVE  /\ alerts' \in Table /\ Rows' = Rows /\ events' \in SUBSET Event
             /\ UNCHANGED <<clock, latest, history, unborn, job, ran, spent>>
  <2> DEFINE a == req[r].alert
             new == event(a, req[r].row, req[r].sample, clock)
  <2>1. a \in Alerts /\ req[r].row \in AlertRow /\ req[r].sample \in Sample /\ clock \in Times
    BY <1>0, <1>6 DEF ArmRecord, ReqDone, ReqStep, ReqOK, ReqState, TypeOK
  <2>2. new \in Event
    BY <2>1, EventOK
  <2>3. a \in Rows => Parked(alerts[a], req[r].row.one_shot, clock) \in AlertRow
    BY <2>1, ParkedOK DEF TypeOK, Table, Rows
  <2>4. CASE Taken(new) \/ a \notin Rows
    BY <1>6, <2>4 DEF ArmRecord, TypeOK, Rows
  <2>5. CASE ~ (Taken(new) \/ a \notin Rows)
    BY <1>6, <2>1, <2>2, <2>3, <2>5, PipelineAssumption DEF ArmRecord, TypeOK, Table, Rows
  <2> QED BY <2>4, <2>5
<1>7. ASSUME PatchCommit(r)
      PROVE  /\ alerts' \in Table /\ Rows' = Rows
             /\ UNCHANGED <<clock, latest, history, unborn, events, job, ran, spent>>
  <2> DEFINE a == req[r].alert
             new == Merge(alerts[a], req[r].row, Patched(req[r].row, req[r].patch))
  <2>1. a \in Alerts /\ req[r].row \in AlertRow /\ req[r].patch \in Patch
    BY <1>0, <1>7, PipelineAssumption DEF PatchCommit, ReqDone, ReqStep, ReqOK, ReqState
  <2>2. a \in Rows => new \in AlertRow
    BY <2>1, PatchedOK, MergeOK DEF TypeOK, Table, Rows
  <2> HIDE DEF new
  <2>3. CASE a \in Rows
    <3>1. alerts' = [alerts EXCEPT ![a] = new]
      BY <1>7, <2>3 DEF PatchCommit, new
    <3> QED BY <1>7, <2>1, <2>2, <2>3, <3>1, PipelineAssumption DEF PatchCommit, TypeOK, Table, Rows
  <2>4. CASE a \notin Rows
    BY <1>7, <2>4 DEF PatchCommit, TypeOK, Rows
  <2> QED BY <2>3, <2>4
<1>8. ASSUME NEW a \in Alerts, Delete(r, a)
      PROVE  /\ alerts' \in Table /\ Rows' = Rows \ {a}
             /\ events' \in SUBSET Event
             /\ spent' \in [patches : 0 .. MaxPatches, deletes : 0 .. MaxDeletes,
                            crashes : 0 .. MaxCrashes]
             /\ UNCHANGED <<clock, latest, history, unborn, job, req, ran>>
  BY <1>8, PipelineAssumption DEF Delete, TypeOK, Table, Rows
<1>9. UNCHANGED alerts => Rows' = Rows
  BY DEF Rows
<1>10. ASSUME NEW a \in Alerts, NEW spec \in NewAlerts, CreateCount(r, a, spec)
       PROVE  alerts' \in Table /\ events' \in SUBSET Event
  BY <1>1, <1>10 DEF TypeOK
<1>11. CASE \E a \in Alerts, spec \in NewAlerts : CreateCount(r, a, spec)
  BY <1>1, <1>10, <1>11 DEF TypeOK
<1>12. CASE \E a \in Alerts, patch \in Patches : PatchLoad(r, a, patch)
  BY <1>2, <1>9, <1>12 DEF TypeOK
<1>13. CASE \E a \in Alerts : Delete(r, a)
  BY <1>8, <1>13 DEF TypeOK
<1>14. CASE CreateInsert(r)
  BY <1>3, <1>4, <1>14 DEF TypeOK
<1>15. CASE ArmRead(r) \/ ReqCrash(r)
  BY <1>3, <1>5, <1>9, <1>15 DEF TypeOK
<1>16. CASE ArmRecord(r)
  BY <1>3, <1>6, <1>16 DEF TypeOK
<1>17. CASE PatchCommit(r)
  BY <1>3, <1>7, <1>17 DEF TypeOK
<1> QED
  BY <1>11, <1>12, <1>13, <1>14, <1>15, <1>16, <1>17 DEF ReqNext, ReqFinish

\* Type correctness is inductive ...
LEMMA StepTypeOK == TypeOK /\ [Next]_vars => TypeOK'
<1> SUFFICES ASSUME TypeOK, [Next]_vars PROVE TypeOK'
  OBVIOUS
<1>1. CASE Tick \/ Prune
  BY <1>1, PipelineAssumption DEF Tick, Prune, TypeOK, Times, Rows
<1>2. ASSUME NEW j \in Jobs, Fetch(j) \/ JobStep(j) \/ Crash(j) PROVE TypeOK'
  BY <1>2, JobStepOK, JobWritesOK DEF TypeOK, JobsOK
<1>3. ASSUME NEW r \in Requests, ReqNext(r) PROVE TypeOK'
  BY <1>3, ReqNextOK, ReqWritesOK DEF TypeOK, ReqsOK
<1>4. CASE UNCHANGED vars
  BY <1>4 DEF vars, TypeOK, Rows
<1> QED BY <1>1, <1>2, <1>3, <1>4 DEF Next

\* ... and holds of a database in which nothing has fired yet.
LEMMA InitTypeOK == Init => TypeOK
<1> SUFFICES ASSUME Init PROVE TypeOK
  OBVIOUS
<1>1. clock \in Times /\ clock = Epoch
  BY PipelineAssumption DEF Init, Times
<1>2. latest \in Sample \cup {None} /\ history \in SUBSET Sample
  BY <1>1, PipelineAssumption DEF Init, Sample
<1>3. \A a \in DOMAIN Existing : Fresh(Existing[a]) \in AlertRow
  BY FreshOK, PipelineAssumption
<1>4. alerts \in Table /\ unborn \in SUBSET Alerts /\ unborn \cap Rows = {}
  BY <1>3 DEF Init, Table, Rows
<1>5. JobsOK /\ ReqsOK
  BY IdleOK DEF Init, JobsOK, ReqsOK
<1>6. \A r \in Requests : req[r].alert \notin unborn
  BY PipelineAssumption DEF Init, IdleReq
<1>7. spent \in [patches : 0 .. MaxPatches, deletes : 0 .. MaxDeletes,
                 crashes : 0 .. MaxCrashes]
  BY PipelineAssumption DEF Init
<1> QED BY <1>1, <1>2, <1>4, <1>5, <1>6, <1>7 DEF Init, TypeOK, JobsOK, ReqsOK

\* Type correctness for any instance of the pipeline: in particular an alert id
\* is handed out once, and a job or request that has ended holds nothing.
THEOREM TypeCorrect == Spec => []TypeOK
BY InitTypeOK, StepTypeOK, PTL DEF Spec
-----------------------------------------------------------------------------
(***************************************************************************)
(* What the alert table and the event table of AlertPipeline say of each   *)
(* other, for any number of alerts, jobs and requests: a parked alert has  *)
(* its event, an event has its alert, and, as long as nobody changes a     *)
(* cooldown, one sample is reported once.                                  *)
(***************************************************************************)

\* A job holds uncommitted events only inside the loop of the evaluation; they
\* carry the time it took at its start, and their alerts exist.
InsSound(b) ==
    /\ b.pc # "deciding" => b.ins = {}
    /\ \A e \in b.ins : e.triggered_at = b.now /\ e.alert \in Rows

\* The daily sync never gets as far as an evaluation.
JobsSound ==
    /\ \A j \in Jobs : InsSound(job[j])
    /\ \A j \in SyncJobs : job[j].pc \in {"idle", "fetched", "half_stored"}

\* An alert about to be inserted has not fired.
ReqsSound == \A r \in Requests : req[r].pc = "counted" => req[r].row.last = None

\* The rows that have fired are backed by events, committed events by rows.
TablesSound == ParkedHasEvent /\ \A e \in events : e.alert \in Rows

EInv == TypeOK /\ JobsSound /\ ReqsSound /\ TablesSound

\* The memory of a job after a step that gives it `changes`; the others keep theirs.
LEMMA JobMoves ==
    ASSUME TypeOK, NEW j \in Jobs, NEW from, NEW changes, Step(j, from, changes)
    PROVE  job[j].pc = from /\ job'[j] = changes /\ \A k \in Jobs \ {j} : job'[k] = job[k]
BY DEF TypeOK, Step

\* A job that moves to sound memory leaves all jobs sound, if no alert goes.
LEMMA JobMovesSoundly ==
    ASSUME TypeOK, JobsSound, Rows' = Rows, NEW j \in Jobs, NEW from, NEW changes,
           Step(j, from, changes), InsSound(changes),
           j \in SyncJobs => changes.pc \in {"idle", "fetched", "half_stored"}
    PROVE  JobsSound'
<1>1. job'[j] = changes /\ \A k \in Jobs \ {j} : job'[k] = job[k]
  BY DEF TypeOK, Step
<1> QED BY <1>1 DEF JobsSound, InsSound, Jobs

\* Nothing is left of a job that ends.
LEMMA JobEndsSoundly ==
    ASSUME TypeOK, JobsSound, Rows' = Rows, NEW j \in Jobs, NEW from, Done(j, from)
    PROVE  JobsSound'
<1>1. InsSound(IdleJob) /\ IdleJob.pc = "idle"
  BY DEF InsSound, IdleJob
<1> QED BY <1>1, JobMovesSoundly DEF Done

\* Every step of a job keeps all jobs sound.
LEMMA JobsStaySound ==
    ASSUME TypeOK, JobsSound, NEW j \in Jobs, Fetch(j) \/ JobStep(j) \/ Crash(j)
    PROVE  JobsSound'
<1>0. Rows' = Rows /\ job[j] \in JobState /\ InsSound(job[j])
  BY JobWritesOK DEF TypeOK, JobsSound
<1>a. ASSUME j \in SyncJobs PROVE job[j].pc \in {"idle", "fetched", "half_stored"}
  BY <1>a DEF JobsSound
<1>1. CASE Fetch(j)
  <2>1. ASSUME NEW p \in Prices,
               Step(j, "idle", [IdleJob EXCEPT !.pc = "fetched", !.started = clock,
                                  !.sample = [price |-> p, at |-> clock]])
        PROVE  JobsSound'
    <3> DEFINE changes == [IdleJob EXCEPT !.pc = "fetched", !.started = clock,
                                  !.sample = [price |-> p, at |-> clock]]
    <3>1. InsSound(changes) /\ changes.pc = "fetched"
      BY DEF InsSound, IdleJob
    <3> HIDE DEF changes
    <3>2. Step(j, "idle", changes)
      BY <2>1 DEF changes
    <3> QED BY <1>0, <3>1, <3>2, JobMovesSoundly
  <2>2. ASSUME j \in PollJobs,
               Step(j, "idle", [IdleJob EXCEPT !.pc = "stored", !.started = clock])
        PROVE  JobsSound'
    <3> DEFINE changes == [IdleJob EXCEPT !.pc = "stored", !.started = clock]
    <3>1. InsSound(changes) /\ j \notin SyncJobs
      BY <2>2, PipelineAssumption DEF InsSound, IdleJob
    <3> HIDE DEF changes
    <3>2. Step(j, "idle", changes)
      BY <2>2 DEF changes
    <3> QED BY <1>0, <3>1, <3>2, JobMovesSoundly
  <2> QED BY <1>1, <2>1, <2>2 DEF Fetch
<1>2. CASE StoreLatest(j)
  <2> DEFINE changes == [job[j] EXCEPT !.pc = "half_stored"]
  <2>1. Step(j, "fetched", changes)
    BY <1>2 DEF StoreLatest
  <2>2. InsSound(changes) /\ changes.pc = "half_stored"
    BY <1>0, <2>1, JobMoves DEF InsSound, JobState
  <2> HIDE DEF changes
  <2> QED BY <1>0, <2>1, <2>2, JobMovesSoundly
<1>3. CASE StoreHistory(j)
  <2> DEFINE changes == [job[j] EXCEPT !.pc = "stored"]
  <2>1. CASE j \in PollJobs
    <3>1. Step(j, "half_stored", changes) /\ j \notin SyncJobs
      BY <1>3, <2>1, PipelineAssumption DEF StoreHistory
    <3>2. InsSound(changes)
      BY <1>0, <3>1, JobMoves DEF InsSound, JobState
    <3> HIDE DEF changes
    <3> QED BY <1>0, <3>1, <3>2, JobMovesSoundly
  <2>2. CASE j \notin PollJobs
    <3>1. Done(j, "half_stored")
      BY <1>3, <2>2 DEF StoreHistory, Done
    <3> QED BY <1>0, <3>1, JobEndsSoundly
  <2> QED BY <2>1, <2>2
<1>4. ASSUME NEW from, from \notin {"idle", "fetched", "half_stored", "deciding"},
             NEW changes \in JobState, Step(j, from, changes), changes.ins = job[j].ins
      PROVE  JobsSound'
  <2>1. job[j].pc = from
    BY <1>4, JobMoves
  <2>2. j \notin SyncJobs
    BY <1>a, <1>4, <2>1
  <2>3. InsSound(changes)
    BY <1>0, <1>4, <2>1 DEF InsSound
  <2> QED BY <1>0, <1>4, <2>2, <2>3, JobMovesSoundly
<1>5. CASE EvalSelect(j)
  <2> DEFINE seen == [a \in Alerts |-> IF a \in ActiveAlerts THEN alerts[a] ELSE None]
             changes == [job[j] EXCEPT !.pc = "selected", !.now = clock,
                                       !.todo = ActiveAlerts, !.seen = seen]
  <2>1. CASE Done(j, "stored")
    BY <1>0, <2>1, JobEndsSoundly
  <2>2. CASE Step(j, "stored", changes)
    <3>1. seen \in Table /\ ActiveAlerts \in SUBSET Alerts /\ clock \in Times
      BY DEF TypeOK, Table, Rows, ActiveAlerts
    <3>2. changes \in JobState /\ changes.ins = job[j].ins
      <4> HIDE DEF seen
      <4> QED BY <1>0, <3>1 DEF JobState
    <3> HIDE DEF changes
    <3> QED BY <1>4, <2>2, <3>2
  <2> QED BY <1>5, <2>1, <2>2 DEF EvalSelect
<1>6. CASE EvalReadLatest(j)
  <2> DEFINE changes == [job[j] EXCEPT !.pc = "priced", !.latest = latest]
  <2>1. changes \in JobState /\ changes.ins = job[j].ins
    BY <1>0 DEF JobState, TypeOK
  <2>2. Step(j, "selected", changes)
    BY <1>6 DEF EvalReadLatest
  <2> HIDE DEF changes
  <2> QED BY <1>4, <2>1, <2>2
<1>7. CASE EvalReadPrevious(j)
  <2> DEFINE changes == [job[j] EXCEPT !.pc = "deciding", !.previous = previous_price(history)]
  <2>1. changes \in JobState /\ changes.ins = job[j].ins
    BY <1>0, PreviousPriceOK DEF JobState, TypeOK
  <2>2. Step(j, "priced", changes)
    BY <1>7 DEF EvalReadPrevious
  <2> HIDE DEF changes
  <2> QED BY <1>4, <2>1, <2>2
<1>8. ASSUME NEW a \in Alerts, EvalDecide(j, a) PROVE JobsSound'
  <2> DEFINE left == job[j].todo \ {a}
             new == NewEvent(j, a)
             passed == [job[j] EXCEPT !.todo = left]
             wrote == [job[j] EXCEPT !.todo = left, !.ins = @ \cup {new}]
  <2>1. job[j].pc = "deciding" /\ a \in job[j].todo /\ j \notin SyncJobs
    BY <1>a, <1>8 DEF EvalDecide
  <2>2. CASE Step(j, "deciding", passed)
    <3>1. InsSound(passed)
      BY <1>0 DEF InsSound, JobState
    <3> HIDE DEF passed
    <3> QED BY <1>0, <2>1, <2>2, <3>1, JobMovesSoundly
  <2>3. ASSUME Step(j, "deciding", wrote), Wants(j, a), a \in Rows PROVE JobsSound'
    <3>1. new.alert = a /\ new.triggered_at = job[j].now
      BY <2>1, <2>3, NewEventOK
    <3>2. /\ wrote.pc = "deciding" /\ wrote.ins = job[j].ins \cup {new}
          /\ wrote.now = job[j].now
      <4> HIDE DEF new
      <4> QED BY <1>0, <2>1 DEF JobState
    <3>3. InsSound(wrote)
      <4> HIDE DEF new, wrote
      <4> QED BY <1>0, <2>3, <3>1, <3>2 DEF InsSound
    <3> HIDE DEF wrote
    <3> QED BY <1>0, <2>1, <2>3, <3>3, JobMovesSoundly
  <2>4. CASE Done(j, "deciding")
    BY <1>0, <2>4, JobEndsSoundly
  <2> QED BY <1>8, <2>2, <2>3, <2>4 DEF EvalDecide
<1>9. CASE EvalCommit(j)
  <2> DEFINE changes == [job[j] EXCEPT !.pc = "committed", !.ins = {}]
  <2>1. Step(j, "deciding", changes)
    BY <1>9 DEF EvalCommit
  <2>2. InsSound(changes) /\ j \notin SyncJobs
    BY <1>0, <1>a, <2>1, JobMoves DEF InsSound, JobState
  <2> HIDE DEF changes
  <2> QED BY <1>0, <2>1, <2>2, JobMovesSoundly
<1>10. CASE ReactSelect(j)
  <2> DEFINE due == {a \in Rows : DueToWake(j, a)}
             changes == [job[j] EXCEPT !.pc = "reactivating", !.warm = due]
  <2>1. CASE Done(j, "committed")
    BY <1>0, <2>1, JobEndsSoundly
  <2>2. CASE Step(j, "committed", changes)
    <3>1. due \in SUBSET Alerts
      BY DEF Rows
    <3>2. changes \in JobState /\ changes.ins = job[j].ins
      <4> HIDE DEF due
      <4> QED BY <1>0, <3>1 DEF JobState
    <3> HIDE DEF changes
    <3> QED BY <1>4, <2>2, <3>2
  <2> QED BY <1>10, <2>1, <2>2 DEF ReactSelect
<1>11. CASE EvalDeadlockVictim(j) \/ ReactCommit(j)
  <2>1. PICK from : Done(j, from)
    BY <1>11 DEF EvalDeadlockVictim, ReactCommit
  <2> QED BY <1>0, <2>1, JobEndsSoundly
<1>12. CASE Crash(j)
  <2>1. Done(j, job[j].pc)
    BY <1>12 DEF Crash, Done, Step
  <2> QED BY <1>0, <2>1, JobEndsSoundly
<1> QED
  BY <1>1, <1>2, <1>3, <1>5, <1>6, <1>7, <1>8, <1>9, <1>10, <1>11, <1>12 DEF JobStep

\* The memory of a request after a step that gives it `changes`.
LEMMA ReqMoves ==
    ASSUME TypeOK, NEW r \in Requests, NEW from, NEW changes, ReqStep(r, from, changes)
    PROVE  /\ req[r].pc = from /\ req'[r] = changes
           /\ \A q \in Requests \ {r} : req'[q] = req[q]
BY DEF TypeOK, ReqStep

\* An alert about to be inserted has not fired: create_alert builds it fresh.
LEMMA ReqsStaySound ==
    ASSUME TypeOK, ReqsSound, NEW r \in Requests, ReqNext(r)
    PROVE  ReqsSound'
<1>0. req[r] \in ReqState
  BY DEF TypeOK
<1>1. ASSUME NEW from, NEW changes, ReqStep(r, from, changes),
             changes.pc = "counted" => changes.row.last = None
      PROVE  ReqsSound'
  BY <1>1, ReqMoves DEF ReqsSound
<1>2. ASSUME NEW a \in Alerts, NEW spec \in NewAlerts, CreateCount(r, a, spec)
      PROVE  ReqsSound'
  <2> DEFINE changes == [IdleReq EXCEPT !.pc = "counted", !.started = clock,
                                        !.alert = a, !.row = Fresh(spec)]
  <2>1. changes.row.last = None
    BY DEF IdleReq, Fresh
  <2>2. ReqStep(r, "idle", changes)
    BY <1>2 DEF CreateCount
  <2> HIDE DEF changes
  <2> QED BY <1>1, <2>1, <2>2
<1>3. ASSUME NEW a \in Alerts, NEW patch \in Patches, PatchLoad(r, a, patch)
      PROVE  ReqsSound'
  <2> DEFINE changes == [IdleReq EXCEPT !.pc = "loaded", !.started = clock,
                                        !.alert = a, !.row = alerts[a], !.patch = patch]
  <2>1. changes.pc = "loaded"
    BY DEF IdleReq
  <2>2. ReqStep(r, "idle", changes)
    BY <1>3 DEF PatchLoad
  <2> HIDE DEF changes
  <2> QED BY <1>1, <2>1, <2>2
<1>4. CASE CreateInsert(r)
  <2> DEFINE changes == [req[r] EXCEPT !.pc = "arming"]
  <2>1. changes.pc = "arming"
    BY <1>0 DEF ReqState
  <2>2. ReqStep(r, "counted", changes)
    BY <1>4 DEF CreateInsert
  <2> HIDE DEF changes
  <2> QED BY <1>1, <2>1, <2>2
<1>5. ASSUME NEW from, ReqDone(r, from) PROVE ReqsSound'
  <2>1. IdleReq.pc = "idle"
    BY DEF IdleReq
  <2> QED BY <1>1, <1>5, <2>1 DEF ReqDone
<1>6. CASE ArmRead(r)
  <2> DEFINE changes == [req[r] EXCEPT !.pc = "holding", !.sample = latest]
  <2>1. changes.pc = "holding"
    BY <1>0 DEF ReqState
  <2>2. CASE ReqStep(r, "arming", changes)
    <3> HIDE DEF changes
    <3> QED BY <1>1, <2>1, <2>2
  <2> QED BY <1>5, <1>6, <2>2 DEF ArmRead
<1>7. CASE ArmRecord(r) \/ PatchCommit(r)
  BY <1>5, <1>7 DEF ArmRecord, PatchCommit
<1>8. CASE ReqCrash(r)
  <2>1. ReqDone(r, req[r].pc)
    BY <1>8 DEF ReqCrash, ReqDone, ReqStep
  <2> QED BY <1>5, <2>1
<1>9. ASSUME NEW a \in Alerts, Delete(r, a) PROVE ReqsSound'
  BY <1>9 DEF Delete, ReqsSound
<1> QED BY <1>2, <1>3, <1>4, <1>6, <1>7, <1>8, <1>9 DEF ReqNext, ReqFinish

\* Of the steps of a job, the commit of an evaluation and that of the
\* reactivation write the tables: the first adds the events of what it parks,
\* the second leaves the time an alert last triggered alone.
LEMMA JobsKeepTables ==
    ASSUME TypeOK, JobsSound, TablesSound, NEW j \in Jobs,
           Fetch(j) \/ JobStep(j) \/ Crash(j)
    PROVE  TablesSound'
<1>0. /\ Rows' = Rows /\ job[j] \in JobState /\ InsSound(job[j]) /\ clock' = clock
      /\ Rows \subseteq Alerts /\ \A a \in Rows : alerts[a] \in AlertRow
  BY JobWritesOK DEF TypeOK, JobsSound, Rows, Table
<1>1. CASE UNCHANGED <<alerts, events>>
  BY <1>0, <1>1 DEF TablesSound, ParkedHasEvent, Triggered
<1>2. CASE EvalCommit(j)
  <2>1. /\ events' = events \cup job[j].ins
        /\ \A a \in Rows : alerts'[a] = IF a \in FiredBy(j)
                                 THEN Parked(alerts[a], job[j].seen[a].one_shot, job[j].now)
                                 ELSE alerts[a]
    BY <1>0, <1>2 DEF EvalCommit
  <2>2. \A e \in events' : e.alert \in Rows
    BY <1>0, <2>1 DEF TablesSound, InsSound
  <2>3. ASSUME NEW a \in Rows, alerts'[a].last # None
        PROVE  \/ \E e \in events' : e.alert = a /\ e.triggered_at = alerts'[a].last
               \/ alerts'[a].last < clock - EventRetention
    <3>1. CASE a \in FiredBy(j)
      <4>1. PICK e \in job[j].ins : e.alert = a
        BY <3>1 DEF FiredBy
      <4>2. alerts'[a] = Parked(alerts[a], job[j].seen[a].one_shot, job[j].now)
        BY <2>1, <3>1
      <4>3. alerts'[a].last = job[j].now
        BY <1>0, <4>2 DEF Parked, AlertRow
      <4>4. e.triggered_at = job[j].now
        BY <1>0, <4>1 DEF InsSound
      <4> QED BY <2>1, <4>1, <4>3, <4>4
    <3>2. CASE a \notin FiredBy(j)
      BY <2>1, <2>3, <3>2 DEF TablesSound, ParkedHasEvent, Triggered
    <3> QED BY <3>1, <3>2
  <2> QED BY <1>0, <2>2, <2>3 DEF TablesSound, ParkedHasEvent, Triggered
<1>3. CASE ReactCommit(j)
  <2>1. \A a \in Rows : alerts'[a].last = alerts[a].last
    BY <1>0, <1>3 DEF ReactCommit, AlertRow
  <2>2. events' = events
    BY <1>3 DEF ReactCommit
  <2> QED BY <1>0, <2>1, <2>2 DEF TablesSound, ParkedHasEvent, Triggered
<1>4. CASE ~ EvalCommit(j) /\ ~ ReactCommit(j)
  <2>1. UNCHANGED <<alerts, events>>
    BY <1>4 DEF Fetch, JobStep, StoreLatest, StoreHistory, EvalSelect, EvalReadLatest,
       EvalReadPrevious, EvalDecide, EvalDeadlockVictim, ReactSelect, Crash
  <2> QED BY <1>1, <2>1
<1> QED BY <1>2, <1>3, <1>4

\* A PATCH leaves the time an alert last triggered alone, or clears it.
LEMMA PatchKeepsLast ==
    ASSUME NEW current \in AlertRow, NEW loaded \in AlertRow, NEW patch \in Patch
    PROVE  LET merged == Merge(current, loaded, Patched(loaded, patch))
           IN  merged.last = current.last \/ merged.last = None
<1> DEFINE assigned == Patched(loaded, patch)
           merged == Merge(current, loaded, assigned)
<1>1. assigned.last = loaded.last \/ assigned.last = None
  BY DEF Patched, AlertRow
<1> HIDE DEF assigned
<1>2. merged.last = IF assigned.last # loaded.last THEN assigned.last ELSE current.last
  BY DEF Merge, AlertRow
<1> HIDE DEF merged
<1>3. merged.last = current.last \/ merged.last = None
  BY <1>1, <1>2
<1> QED BY <1>3 DEF merged, assigned

\* Arming and PATCH take no row away and add none.
LEMMA UpdatesKeepRows ==
    ASSUME TypeOK, NEW r \in Requests, ArmRecord(r) \/ PatchCommit(r)
    PROVE  Rows' = Rows
<1> DEFINE a == req[r].alert
<1>0. /\ req[r] \in ReqState /\ ReqOK(req[r]) /\ clock \in Times
      /\ alerts \in Table /\ (a \in Rows => alerts[a] \in AlertRow) /\ None \notin AlertRow
  BY PipelineAssumption DEF TypeOK, Rows, Table
<1>1. ASSUME NEW row \in AlertRow, alerts' = [alerts EXCEPT ![a] = row], a \in Rows
      PROVE  Rows' = Rows
  BY <1>0, <1>1 DEF Rows, Table
<1>2. CASE UNCHANGED alerts
  BY <1>2 DEF Rows
<1>3. CASE ArmRecord(r) /\ ~ UNCHANGED alerts
  <2>1. /\ alerts' = [alerts EXCEPT ![a] = Parked(alerts[a], req[r].row.one_shot, clock)]
        /\ a \in Rows
    BY <1>3 DEF ArmRecord
  <2> QED BY <1>0, <1>1, <2>1, ParkedOK
<1>4. CASE PatchCommit(r) /\ ~ UNCHANGED alerts
  <2> DEFINE merged == Merge(alerts[a], req[r].row, Patched(req[r].row, req[r].patch))
  <2>1. alerts' = [alerts EXCEPT ![a] = merged] /\ a \in Rows
    BY <1>4 DEF PatchCommit
  <2>2. req[r].row \in AlertRow /\ req[r].patch \in Patch
    BY <1>0, <1>4, PipelineAssumption DEF PatchCommit, ReqDone, ReqStep, ReqOK, ReqState
  <2>3. merged \in AlertRow
    BY <1>0, <2>1, <2>2, PatchedOK, MergeOK
  <2> QED BY <1>1, <2>1, <2>3
<1> QED BY <1>2, <1>3, <1>4

\* A request keeps the tables sound: it inserts an alert that has not fired,
\* parks one together with its event, keeps or clears the time of one, or takes
\* one away together with its events.
LEMMA ReqsKeepTables ==
    ASSUME TypeOK, ReqsSound, TablesSound, NEW r \in Requests, ReqNext(r)
    PROVE  TablesSound'
<1>0. /\ req[r] \in ReqState /\ ReqOK(req[r]) /\ clock \in Times /\ clock' = clock
      /\ alerts \in Table /\ \A a \in Rows : alerts[a] \in AlertRow
  BY ReqWritesOK DEF TypeOK, Rows, Table
<1>1. CASE UNCHANGED <<alerts, events>>
  BY <1>0, <1>1 DEF TablesSound, ParkedHasEvent, Triggered, Rows
<1>2. CASE CreateInsert(r)
  <2> DEFINE a == req[r].alert
  <2>1. /\ alerts' = [alerts EXCEPT ![a] = req[r].row] /\ events' = events
        /\ a \in Alerts /\ req[r].row # None /\ req[r].row.last = None
    BY <1>0, <1>2 DEF CreateInsert, ReqStep, ReqOK, ReqState, ReqsSound
  <2>2. Rows' = Rows \cup {a} /\ \A b \in Rows \ {a} : alerts'[b] = alerts[b]
    BY <1>0, <2>1 DEF Rows, Table
  <2>3. alerts'[a] = req[r].row
    BY <1>0, <2>1 DEF Table
  <2> QED BY <1>0, <2>1, <2>2, <2>3 DEF TablesSound, ParkedHasEvent, Triggered
<1>3. CASE ArmRecord(r)
  <2> DEFINE a == req[r].alert
             new == event(a, req[r].row, req[r].sample, clock)
  <2>1. CASE Taken(new) \/ a \notin Rows
    BY <1>1, <1>3, <2>1 DEF ArmRecord
  <2>2. CASE ~ (Taken(new) \/ a \notin Rows)
    <3>1. /\ events' = events \cup {new} /\ a \in Rows
          /\ alerts' = [alerts EXCEPT ![a] = Parked(@, req[r].row.one_shot, clock)]
      BY <1>3, <2>2 DEF ArmRecord
    <3>2. new.alert = a /\ new.triggered_at = clock
      BY DEF event
    <3>3. alerts'[a] = Parked(alerts[a], req[r].row.one_shot, clock) /\ alerts'[a].last = clock
      BY <1>0, <3>1 DEF Parked, AlertRow, Table, Rows
    <3>4. Rows' = Rows /\ \A b \in Rows \ {a} : alerts'[b] = alerts[b]
      BY <1>0, <1>3, <3>1, UpdatesKeepRows DEF Rows, Table
    <3> HIDE DEF new
    <3> QED BY <1>0, <3>1, <3>2, <3>3, <3>4 DEF TablesSound, ParkedHasEvent, Triggered
  <2> QED BY <1>0, <2>1, <2>2
<1>4. CASE PatchCommit(r)
  <2> DEFINE a == req[r].alert
             merged == Merge(alerts[a], req[r].row, Patched(req[r].row, req[r].patch))
  <2>1. CASE a \notin Rows
    BY <1>1, <1>4, <2>1 DEF PatchCommit
  <2>2. CASE a \in Rows
    <3>1. alerts' = [alerts EXCEPT ![a] = merged] /\ events' = events
      BY <1>4, <2>2 DEF PatchCommit
    <3>2. req[r].row \in AlertRow /\ req[r].patch \in Patch
      BY <1>0, <1>4, PipelineAssumption DEF PatchCommit, ReqDone, ReqStep, ReqOK, ReqState
    <3>3. merged \in AlertRow /\ (merged.last = alerts[a].last \/ merged.last = None)
      BY <1>0, <2>2, <3>2, PatchKeepsLast, PatchedOK, MergeOK
    <3> HIDE DEF merged
    <3>4. alerts'[a] = merged /\ \A b \in Rows \ {a} : alerts'[b] = alerts[b]
      BY <1>0, <2>2, <3>1 DEF Rows, Table
    <3>5. Rows' = Rows
      BY <1>4, UpdatesKeepRows
    <3> QED BY <1>0, <2>2, <3>1, <3>3, <3>4, <3>5 DEF TablesSound, ParkedHasEvent, Triggered
  <2> QED BY <2>1, <2>2
<1>5. ASSUME NEW a \in Alerts, Delete(r, a) PROVE TablesSound'
  <2>1. /\ alerts' = [alerts EXCEPT ![a] = None]
        /\ events' = {e \in events : e.alert # a}
    BY <1>5 DEF Delete
  <2>2. Rows' = Rows \ {a} /\ \A b \in Rows' : alerts'[b] = alerts[b]
    BY <1>0, <2>1 DEF Rows, Table
  <2> QED BY <1>0, <2>1, <2>2 DEF TablesSound, ParkedHasEvent, Triggered
<1>6. CASE \/ \E a \in Alerts, spec \in NewAlerts : CreateCount(r, a, spec)
           \/ \E a \in Alerts, patch \in Patches : PatchLoad(r, a, patch)
           \/ ArmRead(r) \/ ReqCrash(r)
  BY <1>1, <1>6 DEF CreateCount, PatchLoad, ArmRead, ReqCrash
<1> QED BY <1>2, <1>3, <1>4, <1>5, <1>6 DEF ReqNext, ReqFinish

\* A request keeps the jobs sound: no alert goes while a job has an uncommitted
\* event for it (the foreign key's share lock).
LEMMA ReqsKeepJobs ==
    ASSUME TypeOK, JobsSound, NEW r \in Requests, ReqNext(r)
    PROVE  JobsSound'
<1>1. job' = job
  BY ReqWritesOK
<1>2. ASSUME Rows \subseteq Rows' PROVE JobsSound'
  BY <1>1, <1>2 DEF JobsSound, InsSound
<1>3. ASSUME NEW a \in Alerts, Delete(r, a) PROVE JobsSound'
  <2>1. Rows' = Rows \ {a}
    BY <1>3 DEF Delete, Rows, TypeOK, Table
  <2>2. ASSUME NEW j \in Jobs, NEW e \in job[j].ins PROVE e.alert # a
    <3>1. j \in PollJobs
      BY <2>2 DEF Jobs, JobsSound, InsSound
    <3> QED BY <1>3, <2>2, <3>1 DEF Delete, FiredBy
  <2> QED BY <1>1, <2>1, <2>2 DEF JobsSound, InsSound
<1>4. ASSUME ~ \E a \in Alerts : Delete(r, a) PROVE Rows \subseteq Rows'
  <2>1. CASE CreateInsert(r)
    <3>1. req[r].row # None /\ req[r].alert \in Alerts /\ alerts \in Table
      BY <2>1 DEF CreateInsert, ReqStep, TypeOK, ReqOK, ReqState
    <3> QED BY <2>1, <3>1 DEF CreateInsert, Rows, Table
  <2>2. CASE ArmRecord(r) \/ PatchCommit(r)
    BY <2>2, UpdatesKeepRows
  <2>3. CASE \/ \E a \in Alerts, spec \in NewAlerts : CreateCount(r, a, spec)
             \/ \E a \in Alerts, patch \in Patches : PatchLoad(r, a, patch)
             \/ ArmRead(r) \/ ReqCrash(r)
    BY <2>3 DEF CreateCount, PatchLoad, ArmRead, ReqCrash, Rows
  <2> QED BY <1>4, <2>1, <2>2, <2>3 DEF ReqNext, ReqFinish
<1> QED BY <1>2, <1>3, <1>4

\* As time passes, and old events are pruned, the tables stay sound: an alert
\* loses its event only when the time it last triggered is out of the retention.
LEMMA OldTimesGoLast ==
    ASSUME TypeOK, TablesSound, Tick \/ Prune \/ UNCHANGED vars
    PROVE  TablesSound'
<1>0. /\ alerts' = alerts /\ Rows' = Rows /\ events' \subseteq events
      /\ clock \in Int /\ EventRetention \in Int /\ clock' \in {clock, clock + 1}
  BY PipelineAssumption DEF Tick, Prune, vars, Rows, TypeOK, Times
<1>1. ASSUME NEW a \in Rows, alerts[a].last # None,
             \E e \in Triggered(a) : e.triggered_at = alerts[a].last
      PROVE  \/ \E e \in Triggered(a)' : e.triggered_at = alerts[a].last
             \/ alerts[a].last < clock' - EventRetention
  <2>1. PICK e \in events : e.alert = a /\ e.triggered_at = alerts[a].last
    BY <1>1 DEF Triggered
  <2>2. CASE e \in events'
    BY <2>1, <2>2 DEF Triggered
  <2>3. CASE e \notin events'
    <3>1. Prune /\ clock' = clock /\ e.triggered_at < clock - EventRetention
      BY <2>1, <2>3 DEF Tick, Prune, vars
    <3> QED BY <2>1, <3>1
  <2> QED BY <2>2, <2>3
<1>2. ASSUME NEW a \in Rows, alerts[a].last < clock - EventRetention, alerts[a].last # None
      PROVE  alerts[a].last < clock' - EventRetention
  <2>1. alerts[a].last \in Int
    BY <1>2, PipelineAssumption DEF TypeOK, Table, Rows, AlertRow, Times
  <2> QED BY <1>0, <1>2, <2>1
<1> QED BY <1>0, <1>1, <1>2 DEF TablesSound, ParkedHasEvent

\* The invariant is inductive ...
LEMMA StepEInv == EInv /\ [Next]_vars => EInv'
<1> SUFFICES ASSUME EInv, [Next]_vars PROVE EInv'
  OBVIOUS
<1>0. TypeOK /\ JobsSound /\ ReqsSound /\ TablesSound /\ TypeOK'
  BY StepTypeOK DEF EInv
<1>1. ASSUME UNCHANGED <<alerts, job, req>>, TablesSound' PROVE EInv'
  BY <1>0, <1>1 DEF EInv, JobsSound, InsSound, ReqsSound, Rows
<1>2. CASE Tick \/ Prune \/ UNCHANGED vars
  <2>1. UNCHANGED <<alerts, job, req>> /\ Rows' = Rows
    BY <1>2 DEF Tick, Prune, vars, Rows
  <2>2. TablesSound'
    BY <1>0, <1>2, OldTimesGoLast
  <2> QED BY <1>1, <2>1, <2>2
<1>3. ASSUME NEW j \in Jobs, Fetch(j) \/ JobStep(j) \/ Crash(j) PROVE EInv'
  <2>1. ReqsSound'
    BY <1>0, <1>3, JobWritesOK DEF ReqsSound
  <2> QED BY <1>0, <1>3, <2>1, JobsStaySound, JobsKeepTables DEF EInv
<1>4. ASSUME NEW r \in Requests, ReqNext(r) PROVE EInv'
  BY <1>0, <1>4, ReqsStaySound, ReqsKeepTables, ReqsKeepJobs DEF EInv
<1> QED BY <1>2, <1>3, <1>4 DEF Next

\* ... and holds at the start, when nothing has fired.
LEMMA InitEInv == Init => EInv
<1> SUFFICES ASSUME Init PROVE EInv
  OBVIOUS
<1>1. JobsSound /\ ReqsSound
  BY DEF Init, JobsSound, InsSound, ReqsSound, IdleJob, IdleReq, Jobs
<1>2. \A a \in Rows : alerts[a].last = None
  BY DEF Init, Rows, Fresh
<1>3. TablesSound
  BY <1>2 DEF Init, TablesSound, ParkedHasEvent
<1> QED BY <1>1, <1>3, InitTypeOK DEF EInv

\* The tables and the memory of jobs and requests agree, always.
THEOREM EventInvariant == Spec => []EInv
BY InitEInv, StepEInv, PTL DEF Spec

\* No alert is ever parked for an event that did not happen, whatever was rolled
\* back, patched or overwritten in between: the event is there, unless it is old
\* enough to have been pruned.
THEOREM ParkedAlertsHaveEvents == Spec => []ParkedHasEvent
<1>1. EInv => ParkedHasEvent
  BY DEF EInv, TablesSound
<1> QED BY <1>1, EventInvariant, PTL

\* No event outlives its alert, committed or not.
THEOREM NoOrphanEvents == Spec => []EventsHaveAlerts
<1>1. EInv => EventsHaveAlerts
  BY DEF EInv, TablesSound, JobsSound, InsSound, EventsHaveAlerts, Jobs
<1> QED BY <1>1, EventInvariant, PTL
-----------------------------------------------------------------------------
(***************************************************************************)
(* One sample speaks once for an alert, for any number of alerts, jobs and *)
(* requests, as long as no PATCH changes a cooldown.                       *)
(*                                                                         *)
(* The key of an event is the bucket of its sample, and the bucket depends *)
(* on the cooldown.  So the argument is that every copy of an alert, in a  *)
(* job or in a request, has the cooldown that the row has; then two events *)
(* for the same sample have the same key, and a key is used once.          *)
(***************************************************************************)

\* Every event inserted, committed or not
AllEvents == events \cup UNION {job[j].ins : j \in Jobs}

\* uq_alert_events_dedupe, with the uncommitted inserts.
KeysUnique == \A e, f \in AllEvents : SameKey(e, f) => e = f

\* The key of an event is the bucket its alert's cooldown gives.
BucketsFollow ==
    \A e \in AllEvents : e.bucket = dedupe_bucket(e.sampled_at, alerts[e.alert].cooldown)

\* Every copy of an alert has the cooldown of the row.
CopiesAgree ==
    /\ \A j \in Jobs, a \in Rows :
            job[j].seen[a] # None => job[j].seen[a].cooldown = alerts[a].cooldown
    /\ \A r \in Requests :
            (req[r].pc \in {"arming", "holding", "loaded"} /\ req[r].alert \in Rows)
                => req[r].row.cooldown = alerts[req[r].alert].cooldown

\* No job knows an alert that is not inserted yet, and one request inserts it.
IdsUsedOnce ==
    /\ \A a \in unborn, j \in Jobs : job[j].seen[a] = None
    /\ \A r \in Requests : req[r].pc = "counted" =>
            /\ req[r].alert \notin Rows
            /\ \A j \in Jobs : job[j].seen[req[r].alert] = None
            /\ \A q \in Requests \ {r} : req[q].alert # req[r].alert

KInv == EInv /\ KeysUnique /\ BucketsFollow /\ CopiesAgree /\ IdsUsedOnce

\* What a step of job j may do to the copies of alerts and to the events.
JobLearns(j) ==
    \A a \in Alerts :
        \/ job'[j].seen[a] = None \/ job'[j].seen[a] = job[j].seen[a]
        \/ a \in Rows /\ job'[j].seen[a] = alerts[a]

JobInserts(j, a) ==
    /\ job[j].pc = "deciding" /\ a \in job[j].todo /\ Wants(j, a) /\ a \in Rows
    /\ ~ Taken(NewEvent(j, a)) /\ ~ Held(NewEvent(j, a))
    /\ AllEvents' \subseteq AllEvents \cup {NewEvent(j, a)}

JobEffect(j) ==
    /\ \A k \in Jobs \ {j} : job'[k] = job[k]
    /\ JobLearns(j)
    /\ AllEvents' \subseteq AllEvents \/ \E a \in Alerts : JobInserts(j, a)

\* A job learns of alerts only from the table, and inserts only what it wants,
\* for a row that exists and under a key that nobody has.
LEMMA JobEffects ==
    ASSUME TypeOK, NEW j \in Jobs, Fetch(j) \/ JobStep(j) \/ Crash(j)
    PROVE  JobEffect(j)
<1>0. job[j] \in JobState /\ job \in [Jobs -> JobState]
  BY DEF TypeOK
<1>1. ASSUME NEW from, NEW changes, Step(j, from, changes), events' = events,
             changes.ins \subseteq job[j].ins,
             \A a \in Alerts : \/ changes.seen[a] = None \/ changes.seen[a] = job[j].seen[a]
                               \/ a \in Rows /\ changes.seen[a] = alerts[a]
      PROVE  JobEffect(j)
  <2>1. job'[j] = changes /\ \A k \in Jobs \ {j} : job'[k] = job[k]
    BY <1>1, JobMoves
  <2>2. \A k \in Jobs : job'[k].ins \subseteq job[k].ins
    BY <1>1, <2>1
  <2>3. AllEvents' \subseteq AllEvents
    BY <1>1, <2>2 DEF AllEvents
  <2> QED BY <1>1, <2>1, <2>3 DEF JobEffect, JobLearns
<1>2. ASSUME NEW from, Done(j, from), events' = events PROVE JobEffect(j)
  <2>1. IdleJob.ins = {} /\ \A a \in Alerts : IdleJob.seen[a] = None
    BY DEF IdleJob, NoRows
  <2> QED BY <1>1, <1>2, <2>1 DEF Done
<1>3. CASE Fetch(j)
  <2>1. ASSUME NEW p \in Prices,
               Step(j, "idle", [IdleJob EXCEPT !.pc = "fetched", !.started = clock,
                                  !.sample = [price |-> p, at |-> clock]])
        PROVE  JobEffect(j)
    <3> DEFINE changes == [IdleJob EXCEPT !.pc = "fetched", !.started = clock,
                                  !.sample = [price |-> p, at |-> clock]]
    <3>1. changes.ins = {} /\ \A a \in Alerts : changes.seen[a] = None
      BY DEF IdleJob, NoRows
    <3>2. Step(j, "idle", changes) /\ events' = events
      BY <1>3, <2>1 DEF Fetch
    <3> HIDE DEF changes
    <3> QED BY <1>1, <3>1, <3>2
  <2>2. ASSUME Step(j, "idle", [IdleJob EXCEPT !.pc = "stored", !.started = clock])
        PROVE  JobEffect(j)
    <3> DEFINE changes == [IdleJob EXCEPT !.pc = "stored", !.started = clock]
    <3>1. changes.ins = {} /\ \A a \in Alerts : changes.seen[a] = None
      BY DEF IdleJob, NoRows
    <3>2. Step(j, "idle", changes) /\ events' = events
      BY <1>3, <2>2 DEF Fetch
    <3> HIDE DEF changes
    <3> QED BY <1>1, <3>1, <3>2
  <2> QED BY <1>3, <2>1, <2>2 DEF Fetch
<1>4. CASE StoreLatest(j)
  <2> DEFINE changes == [job[j] EXCEPT !.pc = "half_stored"]
  <2>1. changes.ins = job[j].ins /\ changes.seen = job[j].seen
    BY <1>0 DEF JobState
  <2>2. Step(j, "fetched", changes) /\ events' = events
    BY <1>4 DEF StoreLatest
  <2> HIDE DEF changes
  <2> QED BY <1>1, <2>1, <2>2
<1>5. CASE StoreHistory(j)
  <2> DEFINE changes == [job[j] EXCEPT !.pc = "stored"]
  <2>1. changes.ins = job[j].ins /\ changes.seen = job[j].seen
    BY <1>0 DEF JobState
  <2>2. events' = events /\ (Step(j, "half_stored", changes) \/ Done(j, "half_stored"))
    BY <1>5 DEF StoreHistory, Done
  <2> HIDE DEF changes
  <2> QED BY <1>1, <1>2, <2>1, <2>2
<1>6. CASE EvalSelect(j)
  <2> DEFINE seen == [a \in Alerts |-> IF a \in ActiveAlerts THEN alerts[a] ELSE None]
             changes == [job[j] EXCEPT !.pc = "selected", !.now = clock,
                                       !.todo = ActiveAlerts, !.seen = seen]
  <2>1. changes.ins = job[j].ins /\ changes.seen = seen
    <3> HIDE DEF seen
    <3> QED BY <1>0 DEF JobState
  <2>2. \A a \in Alerts : seen[a] = None \/ (a \in Rows /\ seen[a] = alerts[a])
    BY DEF ActiveAlerts
  <2>3. events' = events /\ (Step(j, "stored", changes) \/ Done(j, "stored"))
    BY <1>6 DEF EvalSelect
  <2> HIDE DEF changes, seen
  <2> QED BY <1>1, <1>2, <2>1, <2>2, <2>3
<1>7. CASE EvalReadLatest(j)
  <2> DEFINE changes == [job[j] EXCEPT !.pc = "priced", !.latest = latest]
  <2>1. changes.ins = job[j].ins /\ changes.seen = job[j].seen
    BY <1>0 DEF JobState
  <2>2. Step(j, "selected", changes) /\ events' = events
    BY <1>7 DEF EvalReadLatest
  <2> HIDE DEF changes
  <2> QED BY <1>1, <2>1, <2>2
<1>8. CASE EvalReadPrevious(j)
  <2> DEFINE changes == [job[j] EXCEPT !.pc = "deciding", !.previous = previous_price(history)]
  <2>1. changes.ins = job[j].ins /\ changes.seen = job[j].seen
    BY <1>0 DEF JobState
  <2>2. Step(j, "priced", changes) /\ events' = events
    BY <1>8 DEF EvalReadPrevious
  <2> HIDE DEF changes
  <2> QED BY <1>1, <2>1, <2>2
<1>9. ASSUME NEW a \in Alerts, EvalDecide(j, a) PROVE JobEffect(j)
  <2> DEFINE left == job[j].todo \ {a}
             new == NewEvent(j, a)
             passed == [job[j] EXCEPT !.todo = left]
             wrote == [job[j] EXCEPT !.todo = left, !.ins = @ \cup {new}]
  <2>0. events' = events /\ job[j].pc = "deciding" /\ a \in job[j].todo
    BY <1>9 DEF EvalDecide
  <2>1. CASE Step(j, "deciding", passed)
    <3>1. passed.ins = job[j].ins /\ passed.seen = job[j].seen
      BY <1>0 DEF JobState
    <3> HIDE DEF passed
    <3> QED BY <1>1, <2>0, <2>1, <3>1
  <2>2. CASE Done(j, "deciding")
    BY <1>2, <2>0, <2>2
  <2>3. ASSUME Step(j, "deciding", wrote), Wants(j, a), ~ Taken(new), ~ Held(new), a \in Rows
        PROVE  JobEffect(j)
    <3>1. wrote.ins = job[j].ins \cup {new} /\ wrote.seen = job[j].seen
      <4> HIDE DEF new
      <4> QED BY <1>0 DEF JobState
    <3>2. job'[j] = wrote /\ \A k \in Jobs \ {j} : job'[k] = job[k]
      <4> HIDE DEF wrote
      <4> QED BY <2>3, JobMoves
    <3> HIDE DEF wrote
    <3>3. \A k \in Jobs : job'[k].ins \subseteq job[k].ins \cup {new}
      BY <3>1, <3>2
    <3>4. AllEvents' \subseteq AllEvents \cup {new}
      BY <2>0, <3>3 DEF AllEvents
    <3> QED BY <2>0, <2>3, <3>1, <3>2, <3>4 DEF JobEffect, JobLearns, JobInserts
  <2> QED BY <1>9, <2>1, <2>2, <2>3 DEF EvalDecide
<1>10. CASE EvalCommit(j)
  <2> DEFINE changes == [job[j] EXCEPT !.pc = "committed", !.ins = {}]
  <2>1. changes.ins = {} /\ changes.seen = job[j].seen
    BY <1>0 DEF JobState
  <2>2. Step(j, "deciding", changes) /\ events' = events \cup job[j].ins
    BY <1>10 DEF EvalCommit
  <2> HIDE DEF changes
  <2>3. job'[j] = changes /\ \A k \in Jobs \ {j} : job'[k] = job[k]
    BY <2>2, JobMoves
  <2>4. \A k \in Jobs : job'[k].ins \subseteq job[k].ins
    BY <2>1, <2>3
  <2>5. AllEvents' \subseteq AllEvents
    BY <2>2, <2>4 DEF AllEvents
  <2> QED BY <2>1, <2>3, <2>5 DEF JobEffect, JobLearns
<1>11. CASE ReactSelect(j)
  <2> DEFINE due == {a \in Rows : DueToWake(j, a)}
             changes == [job[j] EXCEPT !.pc = "reactivating", !.warm = due]
  <2>1. changes.ins = job[j].ins /\ changes.seen = job[j].seen
    <3> HIDE DEF due
    <3> QED BY <1>0 DEF JobState
  <2>2. events' = events /\ (Step(j, "committed", changes) \/ Done(j, "committed"))
    BY <1>11 DEF ReactSelect
  <2> HIDE DEF changes
  <2> QED BY <1>1, <1>2, <2>1, <2>2
<1>12. CASE EvalDeadlockVictim(j) \/ ReactCommit(j)
  BY <1>2, <1>12 DEF EvalDeadlockVictim, ReactCommit
<1>13. CASE Crash(j)
  <2>1. Done(j, job[j].pc) /\ events' = events
    BY <1>13 DEF Crash, Done, Step
  <2> QED BY <1>2, <2>1
<1> QED
  BY <1>3, <1>4, <1>5, <1>6, <1>7, <1>8, <1>9, <1>10, <1>11, <1>12, <1>13 DEF JobStep

FixedCooldowns == \A patch \in Patches : patch.cooldown = None

\* No job changes a cooldown.
LEMMA JobsKeepCooldowns ==
    ASSUME TypeOK, NEW j \in Jobs, Fetch(j) \/ JobStep(j) \/ Crash(j)
    PROVE  Rows' = Rows /\ \A a \in Rows : alerts'[a].cooldown = alerts[a].cooldown
<1>0. Rows' = Rows /\ Rows \subseteq Alerts /\ \A a \in Rows : alerts[a] \in AlertRow
  BY JobWritesOK DEF TypeOK, Rows, Table
<1>1. CASE EvalCommit(j)
  <2>1. \A a \in Rows : \/ alerts'[a] = alerts[a]
                       \/ alerts'[a] = Parked(alerts[a], job[j].seen[a].one_shot, job[j].now)
    BY <1>0, <1>1 DEF EvalCommit
  <2> QED BY <1>0, <2>1 DEF Parked, AlertRow
<1>2. CASE ReactCommit(j)
  BY <1>0, <1>2 DEF ReactCommit, AlertRow
<1>3. CASE ~ EvalCommit(j) /\ ~ ReactCommit(j)
  <2>1. UNCHANGED alerts
    BY <1>3 DEF Fetch, JobStep, StoreLatest, StoreHistory, EvalSelect, EvalReadLatest,
       EvalReadPrevious, EvalDecide, EvalDeadlockVictim, ReactSelect, Crash
  <2> QED BY <1>0, <2>1
<1> QED BY <1>1, <1>2, <1>3

\* A PATCH that carries no cooldown leaves it alone.
LEMMA PatchKeepsCooldown ==
    ASSUME NEW current \in AlertRow, NEW loaded \in AlertRow, NEW patch \in Patch,
           patch.cooldown = None
    PROVE  Merge(current, loaded, Patched(loaded, patch)).cooldown = current.cooldown
<1> DEFINE assigned == Patched(loaded, patch)
<1>1. assigned.cooldown = loaded.cooldown
  BY DEF Patched, Given, AlertRow
<1> HIDE DEF assigned
<1>2. Merge(current, loaded, assigned).cooldown = current.cooldown
  BY <1>1 DEF Merge, AlertRow
<1> QED BY <1>2 DEF assigned

\* No request changes the cooldown of a row.
LEMMA ReqsKeepCooldowns ==
    ASSUME FixedCooldowns, TypeOK, IdsUsedOnce, NEW r \in Requests, ReqNext(r)
    PROVE  \A a \in Rows \cap Rows' : alerts'[a].cooldown = alerts[a].cooldown
<1> DEFINE a == req[r].alert
<1>0. /\ req[r] \in ReqState /\ ReqOK(req[r]) /\ clock \in Times
      /\ alerts \in Table /\ Rows \subseteq Alerts /\ \A b \in Rows : alerts[b] \in AlertRow
  BY DEF TypeOK, Rows, Table
<1>1. CASE CreateInsert(r)
  <2>1. alerts' = [alerts EXCEPT ![a] = req[r].row] /\ a \notin Rows
    BY <1>1 DEF CreateInsert, ReqStep, IdsUsedOnce
  <2> QED BY <1>0, <2>1 DEF Table
<1>2. CASE ArmRecord(r)
  <2>1. CASE UNCHANGED alerts
    BY <2>1
  <2>2. CASE ~ UNCHANGED alerts
    <3>1. /\ alerts' = [alerts EXCEPT ![a] = Parked(@, req[r].row.one_shot, clock)]
          /\ a \in Rows
      BY <1>2, <2>2 DEF ArmRecord
    <3>2. Parked(alerts[a], req[r].row.one_shot, clock).cooldown = alerts[a].cooldown
      BY <1>0, <3>1 DEF Parked, AlertRow
    <3> QED BY <1>0, <3>1, <3>2 DEF Table
  <2> QED BY <2>1, <2>2
<1>3. CASE PatchCommit(r)
  <2> DEFINE merged == Merge(alerts[a], req[r].row, Patched(req[r].row, req[r].patch))
  <2>1. CASE UNCHANGED alerts
    BY <2>1
  <2>2. CASE ~ UNCHANGED alerts
    <3>1. alerts' = [alerts EXCEPT ![a] = merged] /\ a \in Rows
      BY <1>3, <2>2 DEF PatchCommit
    <3>2. /\ req[r].row \in AlertRow /\ req[r].patch \in Patch
          /\ req[r].patch.cooldown = None
      BY <1>0, <1>3, PipelineAssumption
         DEF PatchCommit, ReqDone, ReqStep, ReqOK, ReqState, FixedCooldowns
    <3>3. merged.cooldown = alerts[a].cooldown
      BY <1>0, <3>1, <3>2, PatchKeepsCooldown
    <3> HIDE DEF merged
    <3> QED BY <1>0, <3>1, <3>3 DEF Table
  <2> QED BY <2>1, <2>2
<1>4. ASSUME NEW b \in Alerts, Delete(r, b)
      PROVE  \A c \in Rows \cap Rows' : alerts'[c].cooldown = alerts[c].cooldown
  BY <1>0, <1>4 DEF Delete, Table, Rows
<1>5. CASE \/ \E b \in Alerts, spec \in NewAlerts : CreateCount(r, b, spec)
           \/ \E b \in Alerts, patch \in Patches : PatchLoad(r, b, patch)
           \/ ArmRead(r) \/ ReqCrash(r)
  BY <1>5 DEF CreateCount, PatchLoad, ArmRead, ReqCrash
<1> QED BY <1>1, <1>2, <1>3, <1>4, <1>5 DEF ReqNext, ReqFinish

\* Events that follow the cooldown of their row, and a new one that does too.
LEMMA BucketsStay ==
    ASSUME BucketsFollow, \A e \in AllEvents : e.alert \in Rows,
           \A e \in AllEvents' : e.alert \in Rows',
           \A a \in Rows \cap Rows' : alerts'[a].cooldown = alerts[a].cooldown,
           NEW new,
           AllEvents' \subseteq AllEvents
              \/ /\ AllEvents' \subseteq AllEvents \cup {new}
                 /\ new.alert \in Rows
                 /\ new.bucket = dedupe_bucket(new.sampled_at, alerts[new.alert].cooldown)
    PROVE  BucketsFollow'
<1>1. ASSUME NEW e \in AllEvents'
      PROVE  e.bucket = dedupe_bucket(e.sampled_at, alerts[e.alert].cooldown)
  BY <1>1 DEF BucketsFollow
<1>2. ASSUME NEW e \in AllEvents' PROVE alerts'[e.alert].cooldown = alerts[e.alert].cooldown
  BY <1>2
<1> QED BY <1>1, <1>2 DEF BucketsFollow

\* Keys stay unique when the only new event has a key that nobody has.
LEMMA KeysStay ==
    ASSUME TypeOK, JobsSound, KeysUnique, NEW new,
           AllEvents' \subseteq AllEvents
              \/ /\ AllEvents' \subseteq AllEvents \cup {new}
                 /\ ~ Taken(new) /\ ~ Held(new)
    PROVE  KeysUnique'
<1>1. ASSUME ~ Taken(new), ~ Held(new), NEW e \in AllEvents PROVE ~ SameKey(new, e)
  <2>1. CASE e \in events
    BY <1>1, <2>1 DEF Taken
  <2>2. CASE e \notin events
    <3>1. PICK j \in Jobs : e \in job[j].ins
      BY <2>2 DEF AllEvents
    <3>2. j \in PollJobs
      BY <3>1 DEF Jobs, JobsSound, InsSound
    <3> QED BY <1>1, <3>1, <3>2 DEF Held, HeldBy
  <2> QED BY <2>1, <2>2
<1> QED BY <1>1 DEF KeysUnique, SameKey

\* An event of a sound state has its alert.
LEMMA EventsHaveRows ==
    ASSUME EInv PROVE \A e \in AllEvents : e.alert \in Rows
BY DEF EInv, TablesSound, JobsSound, InsSound, AllEvents

\* A job's step keeps keys, buckets, copies and ids.
LEMMA JobsKeepKeys ==
    ASSUME KInv, EInv', NEW j \in Jobs, Fetch(j) \/ JobStep(j) \/ Crash(j)
    PROVE  KeysUnique' /\ BucketsFollow' /\ CopiesAgree' /\ IdsUsedOnce'
<1>0. TypeOK /\ JobsSound /\ job[j] \in JobState /\ JobOK(job[j])
  BY DEF KInv, EInv, TypeOK
<1>1. /\ Rows' = Rows /\ Rows \subseteq Alerts /\ req' = req /\ unborn' = unborn
      /\ \A a \in Rows : alerts'[a].cooldown = alerts[a].cooldown
  BY <1>0, JobWritesOK, JobsKeepCooldowns DEF Rows
<1>2. JobEffect(j)
  BY <1>0, JobEffects
<1>3. (\A e \in AllEvents : e.alert \in Rows) /\ (\A e \in AllEvents' : e.alert \in Rows')
  <2>1. EInv => \A e \in AllEvents : e.alert \in Rows
    BY EventsHaveRows
  <2>2. \A e \in AllEvents' : e.alert \in Rows'
    BY DEF EInv, TablesSound, JobsSound, InsSound, AllEvents
  <2> QED BY <2>1, <2>2 DEF KInv
<1>4. KeysUnique' /\ BucketsFollow'
  <2>1. CASE AllEvents' \subseteq AllEvents
    BY <1>0, <1>1, <1>3, <2>1, KeysStay, BucketsStay DEF KInv
  <2>2. ASSUME NEW a \in Alerts, JobInserts(j, a) PROVE KeysUnique' /\ BucketsFollow'
    <3> DEFINE new == NewEvent(j, a)
    <3>1. /\ AllEvents' \subseteq AllEvents \cup {new} /\ ~ Taken(new) /\ ~ Held(new)
          /\ a \in Rows /\ job[j].seen[a] # None
      BY <1>0, <2>2 DEF JobInserts, JobOK
    <3>2. /\ new.alert = a /\ new.sampled_at = job[j].latest.at
          /\ new.bucket = dedupe_bucket(job[j].latest.at, job[j].seen[a].cooldown)
      BY <1>0, <2>2, NewEventOK DEF JobInserts
    <3> HIDE DEF new
    <3>3. new.alert \in Rows
          /\ new.bucket = dedupe_bucket(new.sampled_at, alerts[new.alert].cooldown)
      BY <3>1, <3>2 DEF KInv, CopiesAgree
    <3> QED BY <1>0, <1>1, <1>3, <3>1, <3>3, KeysStay, BucketsStay DEF KInv
  <2> QED BY <1>2, <2>1, <2>2 DEF JobEffect
<1>5. CopiesAgree'
  <2>1. ASSUME NEW k \in Jobs, NEW a \in Rows, job'[k].seen[a] # None
        PROVE  job'[k].seen[a].cooldown = alerts'[a].cooldown
    <3>1. CASE k = j
      BY <1>1, <1>2, <2>1, <3>1 DEF JobEffect, JobLearns, KInv, CopiesAgree
    <3>2. CASE k # j
      BY <1>1, <1>2, <2>1, <3>2 DEF JobEffect, KInv, CopiesAgree
    <3> QED BY <3>1, <3>2
  <2> QED BY <1>1, <2>1 DEF KInv, CopiesAgree
<1>6. ASSUME NEW a \in Alerts \ Rows, \A k \in Jobs : job[k].seen[a] = None
      PROVE  \A k \in Jobs : job'[k].seen[a] = None
  BY <1>2, <1>6 DEF JobEffect, JobLearns
<1>7. IdsUsedOnce'
  <2>1. \A a \in unborn : a \in Alerts \ Rows
    BY <1>0 DEF TypeOK
  <2>2. \A r \in Requests : req[r].pc = "counted" => req[r].alert \in Alerts
    BY <1>0 DEF TypeOK, ReqOK, ReqState
  <2> QED BY <1>1, <1>6, <2>1, <2>2 DEF KInv, IdsUsedOnce
<1> QED BY <1>4, <1>5, <1>7

\* What a step of request r may do to its own memory.
ReqLearns(r) ==
    \/ req'[r].pc = "idle" /\ req'[r].alert = None
    \/ /\ req'[r].pc = "counted" /\ req'[r].alert \in unborn
    \/ /\ req'[r].pc = "loaded" /\ req'[r].alert \in Rows
       /\ req'[r].row = alerts[req'[r].alert] /\ Rows' = Rows
    \/ /\ req[r].pc = "counted" /\ req'[r].pc = "arming" /\ req'[r].alert = req[r].alert
       /\ req'[r].row = req[r].row /\ alerts'[req[r].alert] = req[r].row
    \/ /\ req[r].pc = "arming" /\ req'[r].pc = "holding" /\ req'[r].alert = req[r].alert
       /\ req'[r].row = req[r].row /\ Rows' = Rows
    \/ req'[r] = req[r] /\ Rows' \subseteq Rows

\* Only the insert of the one request that counted an id makes a row.
LEMMA ReqEffects ==
    ASSUME TypeOK, NEW r \in Requests, ReqNext(r)
    PROVE  /\ \A q \in Requests \ {r} : req'[q] = req[q]
           /\ ReqLearns(r)
           /\ unborn' \subseteq unborn
           /\ Rows' \subseteq Rows \cup (IF req[r].pc = "counted" THEN {req[r].alert} ELSE {})
<1>0. req[r] \in ReqState /\ ReqOK(req[r]) /\ alerts \in Table
  BY DEF TypeOK
<1> DEFINE Goal == /\ \A q \in Requests \ {r} : req'[q] = req[q]
                   /\ ReqLearns(r)
                   /\ unborn' \subseteq unborn
                   /\ Rows' \subseteq Rows \cup (IF req[r].pc = "counted"
                                              THEN {req[r].alert} ELSE {})
<1> SUFFICES Goal
  OBVIOUS
<1>1. ASSUME NEW a \in Alerts, NEW spec \in NewAlerts, CreateCount(r, a, spec) PROVE Goal
  <2> DEFINE changes == [IdleReq EXCEPT !.pc = "counted", !.started = clock,
                                        !.alert = a, !.row = Fresh(spec)]
  <2>1. changes.pc = "counted" /\ changes.alert = a
    BY DEF IdleReq
  <2>2. /\ ReqStep(r, "idle", changes) /\ a \in unborn
        /\ unborn' \subseteq unborn /\ alerts' = alerts
    BY <1>1 DEF CreateCount
  <2> HIDE DEF changes
  <2>3. req'[r] = changes /\ \A q \in Requests \ {r} : req'[q] = req[q]
    BY <2>2, ReqMoves
  <2> QED BY <2>1, <2>2, <2>3 DEF ReqLearns, Rows
<1>2. ASSUME NEW a \in Alerts, NEW patch \in Patches, PatchLoad(r, a, patch) PROVE Goal
  <2> DEFINE changes == [IdleReq EXCEPT !.pc = "loaded", !.started = clock,
                                        !.alert = a, !.row = alerts[a], !.patch = patch]
  <2>1. changes.pc = "loaded" /\ changes.alert = a /\ changes.row = alerts[a]
    BY DEF IdleReq
  <2>2. /\ ReqStep(r, "idle", changes) /\ a \in Rows
        /\ unborn' \subseteq unborn /\ alerts' = alerts
    BY <1>2 DEF PatchLoad
  <2> HIDE DEF changes
  <2>3. req'[r] = changes /\ \A q \in Requests \ {r} : req'[q] = req[q]
    BY <2>2, ReqMoves
  <2> QED BY <2>1, <2>2, <2>3 DEF ReqLearns, Rows
<1>3. CASE CreateInsert(r)
  <2> DEFINE changes == [req[r] EXCEPT !.pc = "arming"]
             a == req[r].alert
  <2>1. changes.pc = "arming" /\ changes.alert = a /\ changes.row = req[r].row
    BY <1>0 DEF ReqState
  <2>2. /\ ReqStep(r, "counted", changes) /\ unborn' = unborn
        /\ alerts' = [alerts EXCEPT ![a] = req[r].row]
    BY <1>3 DEF CreateInsert
  <2> HIDE DEF changes
  <2>3. /\ req[r].pc = "counted" /\ req'[r] = changes
        /\ \A q \in Requests \ {r} : req'[q] = req[q]
    BY <2>2, ReqMoves
  <2>4. a \in Alerts
    BY <1>0, <2>3 DEF ReqOK, ReqState
  <2>5. alerts'[a] = req[r].row /\ Rows' \subseteq Rows \cup {a}
    BY <1>0, <2>2, <2>4 DEF Rows, Table
  <2> QED BY <2>1, <2>2, <2>3, <2>5 DEF ReqLearns
<1>4. ASSUME NEW from, ReqDone(r, from), unborn' = unborn, Rows' = Rows PROVE Goal
  <2>1. IdleReq.pc = "idle" /\ IdleReq.alert = None
    BY DEF IdleReq
  <2>2. req'[r] = IdleReq /\ \A q \in Requests \ {r} : req'[q] = req[q]
    BY <1>4, ReqMoves DEF ReqDone
  <2> QED BY <1>4, <2>1, <2>2 DEF ReqLearns
<1>5. CASE ArmRead(r)
  <2> DEFINE changes == [req[r] EXCEPT !.pc = "holding", !.sample = latest]
  <2>1. unborn' = unborn /\ Rows' = Rows
    BY <1>5 DEF ArmRead, Rows
  <2>2. CASE ReqStep(r, "arming", changes)
    <3>1. changes.pc = "holding" /\ changes.alert = req[r].alert /\ changes.row = req[r].row
      BY <1>0 DEF ReqState
    <3> HIDE DEF changes
    <3>2. /\ req[r].pc = "arming" /\ req'[r] = changes
          /\ \A q \in Requests \ {r} : req'[q] = req[q]
      BY <2>2, ReqMoves
    <3> QED BY <2>1, <3>1, <3>2 DEF ReqLearns
  <2> QED BY <1>4, <1>5, <2>1, <2>2 DEF ArmRead
<1>6. CASE ArmRecord(r) \/ PatchCommit(r)
  <2>1. Rows' = Rows /\ unborn' = unborn
    BY <1>6, UpdatesKeepRows DEF ArmRecord, PatchCommit
  <2> QED BY <1>4, <1>6, <2>1 DEF ArmRecord, PatchCommit
<1>7. CASE ReqCrash(r)
  <2>1. ReqDone(r, req[r].pc) /\ Rows' = Rows /\ unborn' = unborn
    BY <1>7 DEF ReqCrash, ReqDone, ReqStep, Rows
  <2> QED BY <1>4, <2>1
<1>8. ASSUME NEW a \in Alerts, Delete(r, a) PROVE Goal
  <2>1. Rows' \subseteq Rows /\ req' = req /\ unborn' = unborn
    BY <1>0, <1>8 DEF Delete, Rows, Table
  <2> QED BY <2>1 DEF ReqLearns
<1> QED BY <1>1, <1>2, <1>3, <1>5, <1>6, <1>7, <1>8 DEF ReqNext, ReqFinish

\* A request's step keeps keys, buckets, copies and ids.
LEMMA ReqsKeepKeys ==
    ASSUME FixedCooldowns, KInv, EInv', NEW r \in Requests, ReqNext(r)
    PROVE  KeysUnique' /\ BucketsFollow' /\ CopiesAgree' /\ IdsUsedOnce'
<1> DEFINE a == req[r].alert
<1>0. /\ TypeOK /\ JobsSound /\ IdsUsedOnce /\ CopiesAgree
      /\ req[r] \in ReqState /\ ReqOK(req[r]) /\ job' = job
  BY ReqWritesOK DEF KInv, EInv, TypeOK
<1>1. \A b \in Rows \cap Rows' : alerts'[b].cooldown = alerts[b].cooldown
  BY <1>0, ReqsKeepCooldowns
<1>2. /\ \A q \in Requests \ {r} : req'[q] = req[q]
      /\ ReqLearns(r) /\ unborn' \subseteq unborn
      /\ Rows' \subseteq Rows \cup (IF req[r].pc = "counted" THEN {a} ELSE {})
  BY <1>0, ReqEffects
<1>3. (\A e \in AllEvents : e.alert \in Rows) /\ (\A e \in AllEvents' : e.alert \in Rows')
  <2>1. EInv => \A e \in AllEvents : e.alert \in Rows
    BY EventsHaveRows
  <2>2. \A e \in AllEvents' : e.alert \in Rows'
    BY DEF EInv, TablesSound, JobsSound, InsSound, AllEvents
  <2> QED BY <2>1, <2>2 DEF KInv
<1>4. KeysUnique' /\ BucketsFollow'
  <2>1. CASE events' \subseteq events
    <3>1. AllEvents' \subseteq AllEvents
      BY <1>0, <2>1 DEF AllEvents
    <3> QED BY <1>0, <1>1, <1>3, <3>1, KeysStay, BucketsStay DEF KInv
  <2>2. CASE ~ (events' \subseteq events)
    <3> DEFINE new == event(a, req[r].row, req[r].sample, clock)
    <3>1. ArmRecord(r)
      BY <2>2 DEF ReqNext, ReqFinish, CreateCount, PatchLoad, Delete, CreateInsert, ArmRead,
         PatchCommit, ReqCrash
    <3>2. /\ req[r].pc = "holding" /\ ~ Held(new) /\ ~ Taken(new) /\ a \in Rows
          /\ events' = events \cup {new}
      BY <2>2, <3>1 DEF ArmRecord, ReqDone, ReqStep
    <3>3. /\ new.alert = a /\ new.sampled_at = req[r].sample.at
          /\ new.bucket = dedupe_bucket(req[r].sample.at, req[r].row.cooldown)
      BY DEF event
    <3> HIDE DEF new
    <3>4. new.bucket = dedupe_bucket(new.sampled_at, alerts[new.alert].cooldown)
      BY <1>0, <3>2, <3>3 DEF CopiesAgree
    <3>5. AllEvents' \subseteq AllEvents \cup {new}
      BY <1>0, <3>2 DEF AllEvents
    <3> QED BY <1>0, <1>1, <1>3, <3>2, <3>3, <3>4, <3>5, KeysStay, BucketsStay DEF KInv
  <2> QED BY <2>1, <2>2
<1>5. ASSUME NEW b \in Rows', b \notin Rows
      PROVE  /\ req[r].pc = "counted" /\ b = a
             /\ \A k \in Jobs : job[k].seen[b] = None
             /\ \A q \in Requests \ {r} : req[q].alert # b
  BY <1>0, <1>2, <1>5 DEF IdsUsedOnce
<1>6. CopiesAgree'
  <2>1. ASSUME NEW k \in Jobs, NEW b \in Rows', job'[k].seen[b] # None
        PROVE  job'[k].seen[b].cooldown = alerts'[b].cooldown
    BY <1>0, <1>1, <1>5, <2>1 DEF CopiesAgree
  <2>2. ASSUME NEW q \in Requests \ {r}, req'[q].pc \in {"arming", "holding", "loaded"},
               req'[q].alert \in Rows'
        PROVE  req'[q].row.cooldown = alerts'[req'[q].alert].cooldown
    BY <1>0, <1>1, <1>2, <1>5, <2>2 DEF CopiesAgree
  <2>3. ASSUME req'[r].pc \in {"arming", "holding", "loaded"}, req'[r].alert \in Rows'
        PROVE  req'[r].row.cooldown = alerts'[req'[r].alert].cooldown
    <3>1. CASE /\ req'[r].pc = "loaded" /\ req'[r].alert \in Rows
               /\ req'[r].row = alerts[req'[r].alert]
      BY <1>1, <2>3, <3>1
    <3>2. CASE /\ req'[r].pc = "arming" /\ req'[r].alert = a
               /\ req'[r].row = req[r].row /\ alerts'[a] = req[r].row
      BY <3>2
    <3>3. CASE /\ req[r].pc = "arming" /\ req'[r].alert = a /\ req'[r].row = req[r].row
               /\ Rows' = Rows
      BY <1>0, <1>1, <2>3, <3>3 DEF CopiesAgree
    <3>4. CASE req'[r] = req[r]
      BY <1>0, <1>1, <1>5, <2>3, <3>4 DEF CopiesAgree
    <3> QED BY <1>2, <2>3, <3>1, <3>2, <3>3, <3>4 DEF ReqLearns
  <2> QED BY <2>1, <2>2, <2>3 DEF CopiesAgree
<1>7. IdsUsedOnce'
  <2>1. \A b \in unborn', k \in Jobs : job'[k].seen[b] = None
    BY <1>0, <1>2 DEF IdsUsedOnce
  <2>2. ASSUME NEW q \in Requests \ {r}, req'[q].pc = "counted"
        PROVE  /\ req'[q].alert \notin Rows'
               /\ \A k \in Jobs : job'[k].seen[req'[q].alert] = None
               /\ \A p \in Requests \ {q} : req'[p].alert # req'[q].alert
    <3>1. /\ req'[q] = req[q] /\ req[q].pc = "counted" /\ req[q].alert \notin Rows
          /\ req[q].alert \in Alerts /\ req[q].alert \notin unborn
          /\ \A p \in Requests \ {q} : req[p].alert # req[q].alert
      BY <1>0, <1>2, <2>2 DEF IdsUsedOnce, TypeOK, ReqOK, ReqState
    <3>2. req'[r].alert # req[q].alert
      BY <1>2, <3>1, PipelineAssumption DEF ReqLearns
    <3> QED BY <1>0, <1>2, <1>5, <3>1, <3>2 DEF IdsUsedOnce
  <2>3. ASSUME req'[r].pc = "counted"
        PROVE  /\ req'[r].alert \notin Rows'
               /\ \A k \in Jobs : job'[k].seen[req'[r].alert] = None
               /\ \A p \in Requests \ {r} : req'[p].alert # req'[r].alert
    <3>1. CASE req'[r].alert \in unborn
      <4>1. \A p \in Requests : req[p].alert \notin unborn
        BY <1>0 DEF TypeOK
      <4>2. req'[r].alert \notin Rows'
        BY <1>0, <1>5, <3>1, <4>1 DEF TypeOK
      <4> QED BY <1>0, <1>2, <3>1, <4>1, <4>2 DEF IdsUsedOnce
    <3>2. CASE req'[r] = req[r] /\ Rows' \subseteq Rows
      BY <1>0, <1>2, <2>3, <3>2 DEF IdsUsedOnce
    <3> QED BY <1>2, <2>3, <3>1, <3>2 DEF ReqLearns
  <2> QED BY <2>1, <2>2, <2>3 DEF IdsUsedOnce
<1> QED BY <1>4, <1>6, <1>7

\* The invariant is inductive while cooldowns are fixed ...
LEMMA StepKInv ==
    ASSUME FixedCooldowns
    PROVE  KInv /\ [Next]_vars => KInv'
<1> SUFFICES ASSUME KInv, [Next]_vars PROVE KInv'
  OBVIOUS
<1>0. EInv'
  BY StepEInv DEF KInv
<1>1. CASE Tick \/ Prune \/ UNCHANGED vars
  <2>1. UNCHANGED <<alerts, unborn, job, req>> /\ events' \subseteq events
    BY <1>1 DEF Tick, Prune, vars
  <2> QED BY <1>0, <2>1 DEF KInv, KeysUnique, BucketsFollow, CopiesAgree, IdsUsedOnce,
          AllEvents, Rows
<1>2. ASSUME NEW j \in Jobs, Fetch(j) \/ JobStep(j) \/ Crash(j) PROVE KInv'
  BY <1>0, <1>2, JobsKeepKeys DEF KInv
<1>3. ASSUME NEW r \in Requests, ReqNext(r) PROVE KInv'
  BY <1>0, <1>3, ReqsKeepKeys DEF KInv
<1> QED BY <1>1, <1>2, <1>3 DEF Next

\* ... and holds at the start.
LEMMA InitKInv == Init => KInv
<1> SUFFICES ASSUME Init PROVE KInv
  OBVIOUS
<1>1. AllEvents = {}
  BY DEF Init, AllEvents, IdleJob
<1>2. \A j \in Jobs, a \in Alerts : job[j].seen[a] = None
  BY DEF Init, IdleJob, NoRows
<1>3. \A r \in Requests : req[r].pc = "idle"
  BY DEF Init, IdleReq
<1>4. unborn \subseteq Alerts /\ Rows \subseteq Alerts
  BY DEF Init, Rows
<1> QED BY <1>1, <1>2, <1>3, <1>4, InitEInv
        DEF KInv, KeysUnique, BucketsFollow, CopiesAgree, IdsUsedOnce

\* One sample speaks once for an alert, however many evaluators, one-shot
\* commands, arming requests and restarts look at it, provided that no PATCH
\* changes a cooldown.
THEOREM SampleSpeaksOnce ==
    ASSUME FixedCooldowns
    PROVE  Spec => []SampleFiresOnce
<1>1. KInv => SampleFiresOnce
  <2> SUFFICES ASSUME KInv, NEW e \in events, NEW f \in events,
                      e.alert = f.alert, e.sampled_at = f.sampled_at
               PROVE  e = f
    BY DEF SampleFiresOnce
  <2>1. e \in AllEvents /\ f \in AllEvents
    BY DEF AllEvents
  <2>2. SameKey(e, f)
    BY <2>1 DEF KInv, BucketsFollow, SameKey
  <2> QED BY <2>1, <2>2 DEF KInv, KeysUnique
<1>2. KInv /\ [Next]_vars => KInv'
  BY StepKInv
<1> QED BY <1>1, <1>2, InitKInv, PTL DEF Spec
-----------------------------------------------------------------------------
(***************************************************************************)
(* What the user says stands: no step wakes a paused alert but a request   *)
(* about its status and an evaluation that had already decided.            *)
(*                                                                         *)
(* The inserts of create_alert are why this needs an invariant: a step     *)
(* that writes a whole row must be about a row that is not there yet.      *)
(***************************************************************************)

\* An id that create_alert has counted has no row yet, and no other request.
CountedIdsAreFresh ==
    \A r \in Requests : req[r].pc = "counted" =>
        /\ req[r].alert \notin Rows
        /\ \A q \in Requests \ {r} : req[q].alert # req[r].alert

\* Whatever patches carry, a counted id stays fresh until its insert.
LEMMA ReqsKeepCounted ==
    ASSUME TypeOK, CountedIdsAreFresh, NEW r \in Requests, ReqNext(r)
    PROVE  CountedIdsAreFresh'
<1>1. /\ \A q \in Requests \ {r} : req'[q] = req[q]
      /\ ReqLearns(r) /\ unborn' \subseteq unborn
      /\ Rows' \subseteq Rows \cup (IF req[r].pc = "counted" THEN {req[r].alert} ELSE {})
  BY ReqEffects
<1>2. \A q \in Requests : req[q].alert \notin unborn
  BY DEF TypeOK
<1>3. ASSUME NEW q \in Requests \ {r}, req'[q].pc = "counted"
      PROVE  /\ req'[q].alert \notin Rows'
             /\ \A p \in Requests \ {q} : req'[p].alert # req'[q].alert
  <2>1. /\ req'[q] = req[q] /\ req[q].alert \notin Rows /\ req[q].alert \in Alerts
        /\ \A p \in Requests \ {q} : req[p].alert # req[q].alert
    BY <1>1, <1>3 DEF CountedIdsAreFresh, TypeOK, ReqOK, ReqState
  <2>2. req[q].alert \notin Rows'
    BY <1>1, <2>1
  <2>3. req'[r].alert # req[q].alert
    BY <1>1, <1>2, <2>1, PipelineAssumption DEF ReqLearns
  <2> QED BY <1>1, <2>1, <2>2, <2>3
<1>4. ASSUME req'[r].pc = "counted"
      PROVE  /\ req'[r].alert \notin Rows'
             /\ \A p \in Requests \ {r} : req'[p].alert # req'[r].alert
  <2>1. CASE req'[r].alert \in unborn
    BY <1>1, <1>2, <2>1 DEF TypeOK
  <2>2. CASE req'[r] = req[r] /\ Rows' \subseteq Rows
    BY <1>1, <1>4, <2>2 DEF CountedIdsAreFresh
  <2> QED BY <1>1, <1>4, <2>1, <2>2 DEF ReqLearns
<1> QED BY <1>3, <1>4 DEF CountedIdsAreFresh

LEMMA StepCounted == TypeOK /\ CountedIdsAreFresh /\ [Next]_vars => CountedIdsAreFresh'
<1> SUFFICES ASSUME TypeOK, CountedIdsAreFresh, [Next]_vars PROVE CountedIdsAreFresh'
  OBVIOUS
<1>1. CASE Tick \/ Prune \/ UNCHANGED vars
  BY <1>1 DEF Tick, Prune, vars, CountedIdsAreFresh, Rows
<1>2. ASSUME NEW j \in Jobs, Fetch(j) \/ JobStep(j) \/ Crash(j) PROVE CountedIdsAreFresh'
  <2>1. Rows' = Rows /\ req' = req
    BY <1>2, JobWritesOK
  <2> QED BY <2>1 DEF CountedIdsAreFresh
<1>3. ASSUME NEW r \in Requests, ReqNext(r) PROVE CountedIdsAreFresh'
  BY <1>3, ReqsKeepCounted
<1> QED BY <1>1, <1>2, <1>3 DEF Next

\* A PATCH that says nothing about the status leaves it alone.
LEMMA PatchKeepsStatus ==
    ASSUME NEW current \in AlertRow, NEW loaded \in AlertRow, NEW patch \in Patch,
           patch.status = None
    PROVE  Merge(current, loaded, Patched(loaded, patch)).status = current.status
<1> DEFINE assigned == Patched(loaded, patch)
<1>1. assigned.status = loaded.status
  BY DEF Patched, Given, AlertRow
<1> HIDE DEF assigned
<1>2. Merge(current, loaded, assigned).status = current.status
  BY <1>1 DEF Merge, AlertRow
<1> QED BY <1>2 DEF assigned

\* The only steps of jobs that write the alerts are two commits of an evaluation.
LEMMA JobsWakeOnPurpose ==
    ASSUME TypeOK, JobsSound, NEW j \in Jobs, Fetch(j) \/ JobStep(j) \/ Crash(j),
           NEW a \in Rows \cap Rows', alerts'[a] # alerts[a]
    PROVE  \E k \in PollJobs : \/ job[k].pc = "deciding" /\ a \in FiredBy(k)
                               \/ job[k].pc = "reactivating" /\ a \in job[k].warm
<1>0. a \in Alerts
  BY DEF Rows
<1>1. CASE EvalCommit(j)
  <2>1. job[j].pc = "deciding" /\ a \in FiredBy(j)
    BY <1>0, <1>1 DEF EvalCommit, Step
  <2>2. j \in PollJobs
    BY <2>1 DEF JobsSound, Jobs
  <2> QED BY <2>1, <2>2
<1>2. CASE ReactCommit(j)
  <2>1. job[j].pc = "reactivating" /\ a \in job[j].warm
    BY <1>0, <1>2 DEF ReactCommit, Done, Step
  <2>2. j \in PollJobs
    BY <2>1 DEF JobsSound, Jobs
  <2> QED BY <2>1, <2>2
<1>3. CASE ~ EvalCommit(j) /\ ~ ReactCommit(j)
  <2>1. UNCHANGED alerts
    BY <1>3 DEF Fetch, JobStep, StoreLatest, StoreHistory, EvalSelect, EvalReadLatest,
       EvalReadPrevious, EvalDecide, EvalDeadlockVictim, ReactSelect, Crash
  <2> QED BY <2>1
<1> QED BY <1>1, <1>2, <1>3

\* Of the requests, a PATCH of the status and the end of arming.
LEMMA ReqsWakeOnPurpose ==
    ASSUME TypeOK, CountedIdsAreFresh, NEW r \in Requests, ReqNext(r),
           NEW a \in Rows \cap Rows', alerts'[a].status # alerts[a].status
    PROVE  /\ req[r].alert = a
           /\ \/ req[r].pc = "loaded" /\ req[r].patch.status # None
              \/ req[r].pc = "holding"
<1>0. /\ req[r] \in ReqState /\ ReqOK(req[r]) /\ alerts \in Table
      /\ a \in Alerts /\ alerts[a] \in AlertRow /\ alerts'[a] # None
  BY DEF TypeOK, Rows, Table
<1>1. ~ CreateInsert(r)
  <2> SUFFICES ASSUME CreateInsert(r) PROVE FALSE
    OBVIOUS
  <2>1. alerts' = [alerts EXCEPT ![req[r].alert] = req[r].row] /\ req[r].alert \notin Rows
    BY DEF CreateInsert, ReqStep, CountedIdsAreFresh
  <2> QED BY <1>0, <2>1 DEF Table
<1>2. CASE ArmRecord(r)
  BY <1>0, <1>2 DEF ArmRecord, ReqDone, ReqStep, Table
<1>3. CASE PatchCommit(r)
  <2> DEFINE merged == Merge(alerts[a], req[r].row, Patched(req[r].row, req[r].patch))
  <2>1. req[r].pc = "loaded" /\ req[r].alert = a /\ alerts'[a] = merged
    BY <1>0, <1>3 DEF PatchCommit, ReqDone, ReqStep, Table
  <2>2. req[r].row \in AlertRow /\ req[r].patch \in Patch
    BY <1>0, <2>1, PipelineAssumption DEF ReqOK, ReqState
  <2>3. req[r].patch.status = None => merged.status = alerts[a].status
    BY <1>0, <2>2, PatchKeepsStatus
  <2> HIDE DEF merged
  <2> QED BY <2>1, <2>3
<1>4. \A b \in Alerts : ~ Delete(r, b)
  BY <1>0 DEF Delete, Table
<1>5. CASE \/ \E b \in Alerts, spec \in NewAlerts : CreateCount(r, b, spec)
           \/ \E b \in Alerts, patch \in Patches : PatchLoad(r, b, patch)
           \/ ArmRead(r) \/ ReqCrash(r)
  BY <1>5 DEF CreateCount, PatchLoad, ArmRead, ReqCrash
<1> QED BY <1>1, <1>2, <1>3, <1>4, <1>5 DEF ReqNext, ReqFinish

\* A paused alert stays paused until a request that is about its status says
\* otherwise, or an evaluation that had decided before the pause writes it down;
\* an edit of a threshold or a cooldown never brings it back, whatever it overlaps
\* (services/alerts.py, update_alert: only the columns that changed are written).
THEOREM PausesStand == Spec => PausedStaysPaused
<1>1. TypeOK /\ JobsSound /\ CountedIdsAreFresh /\ [Next]_vars =>
        [\A a \in Rows \cap Rows' :
            (alerts[a].status = "paused" /\ alerts'[a].status # "paused") =>
                \/ \E r \in Requests : /\ req[r].alert = a
                                      /\ \/ req[r].pc = "loaded" /\ req[r].patch.status # None
                                         \/ req[r].pc = "holding"
                \/ \E j \in PollJobs : \/ job[j].pc = "deciding" /\ a \in FiredBy(j)
                                       \/ job[j].pc = "reactivating" /\ a \in job[j].warm
          ]_vars
  <2> SUFFICES ASSUME TypeOK, JobsSound, CountedIdsAreFresh, Next,
                      NEW a \in Rows \cap Rows',
                      alerts[a].status = "paused", alerts'[a].status # "paused"
               PROVE  \/ \E r \in Requests :
                            /\ req[r].alert = a
                            /\ \/ req[r].pc = "loaded" /\ req[r].patch.status # None
                               \/ req[r].pc = "holding"
                      \/ \E j \in PollJobs : \/ job[j].pc = "deciding" /\ a \in FiredBy(j)
                                             \/ job[j].pc = "reactivating" /\ a \in job[j].warm
    OBVIOUS
  <2>1. ~ (Tick \/ Prune)
    BY DEF Tick, Prune
  <2>2. ASSUME NEW j \in Jobs, Fetch(j) \/ JobStep(j) \/ Crash(j)
        PROVE  \E k \in PollJobs : \/ job[k].pc = "deciding" /\ a \in FiredBy(k)
                                   \/ job[k].pc = "reactivating" /\ a \in job[k].warm
    BY <2>2, JobsWakeOnPurpose
  <2>3. ASSUME NEW r \in Requests, ReqNext(r)
        PROVE  /\ req[r].alert = a
               /\ \/ req[r].pc = "loaded" /\ req[r].patch.status # None
                  \/ req[r].pc = "holding"
    BY <2>3, ReqsWakeOnPurpose
  <2> QED BY <2>1, <2>2, <2>3 DEF Next
<1>2. Init => CountedIdsAreFresh
  BY DEF Init, CountedIdsAreFresh, IdleReq
<1>3. EInv => TypeOK /\ JobsSound
  BY DEF EInv
<1>4. Spec => []EInv
  BY EventInvariant
<1>5. Spec => []CountedIdsAreFresh
  BY <1>2, <1>3, <1>4, StepCounted, PTL DEF Spec
<1> QED BY <1>1, <1>3, <1>4, <1>5, PTL DEF Spec, PausedStaysPaused
-----------------------------------------------------------------------------
(***************************************************************************)
(* A cooling alert is woken when its cooldown is over, or at the user's    *)
(* word. _reactivate_cooled looks at the rows and commits later, so        *)
(* nothing may park a row of its list in between. Three conditions keep    *)
(* that so: evaluations do not overlap (polls are minutes apart, arq       *)
(* cancels one after 120 s, none is run by hand); PATCH pauses and changes *)
(* rules, but neither wakes, cools nor gives another cooldown; and a       *)
(* cooldown (schemas: five minutes at least) is longer than a request      *)
(* takes, so that no request is still arming an alert that has already     *)
(* cooled.                                                                 *)
(***************************************************************************)

OneEvaluator    == \A j, k \in PollJobs : j = k
EditsNeverWake  ==
    \A patch \in Patches : patch.cooldown = None /\ patch.status \in {None, "paused"}
PatientAlerts   == \A spec \in NewAlerts : spec.cooldown > Slack

\* Nobody has looked at the alert.
Unknown(a) ==
    \A j \in Jobs : job[j].seen[a] = None /\ a \notin job[j].warm /\ a \notin FiredBy(j)

IdsUnknown ==
    /\ \A a \in unborn : Unknown(a)
    /\ \A r \in Requests : req[r].pc = "counted" =>
            /\ Unknown(req[r].alert)
            /\ req[r].row.status = "active" /\ req[r].row.cooldown > Slack

CoolingHasTime == \A a \in Rows : alerts[a].status = "cooling" => alerts[a].last # None

\* Jobs took their time in the past, and requests are not older than they may be.
InTime ==
    /\ \A j \in Jobs : job[j].now # None => job[j].now <= clock
    /\ \A r \in Requests : req[r].pc # "idle" =>
            req[r].started \in Times /\ req[r].started <= clock
                                     /\ clock <= req[r].started + Slack

\* Everything about an alert that is being armed happened since the request began.
YoungAlert(r, a) ==
    /\ alerts[a].cooldown > Slack
    /\ alerts[a].last # None => alerts[a].last >= req[r].started
    /\ \A j \in Jobs :
        /\ a \notin job[j].warm
        /\ job[j].seen[a] # None \/ a \in FiredBy(j) =>
                job[j].now # None /\ job[j].now >= req[r].started

ArmedAreYoung ==
    \A r \in Requests :
        (req[r].pc \in {"arming", "holding"} /\ req[r].alert \in Rows)
            => YoungAlert(r, req[r].alert)

\* What a reactivation is about to commit is still so.
WarmAreDue ==
    \A j \in Jobs : job[j].pc = "reactivating" =>
        \A a \in job[j].warm \cap Rows :
            alerts[a].status = "cooling" => ~ is_cooling(alerts[a].last, alerts[a].cooldown, clock)

CInv == /\ EInv /\ CountedIdsAreFresh
        /\ IdsUnknown /\ CoolingHasTime /\ InTime /\ ArmedAreYoung /\ WarmAreDue

\* What a step of job j does to its memory: it looks at rows now, it decides on what it
\* has seen, it wakes what is due.
JobWork(j) ==
    /\ \A k \in Jobs \ {j} : job'[k] = job[k]
    /\ \A a \in Alerts :
        /\ \/ job'[j].seen[a] = None
           \/ job'[j].seen[a] = job[j].seen[a] /\ job'[j].now = job[j].now
           \/ a \in Rows /\ job'[j].now = clock
        /\ a \in FiredBy(j)' =>
            /\ job'[j].now = job[j].now
            /\ a \in FiredBy(j) \/ (a \in Rows /\ job[j].seen[a] # None)
        /\ a \in job'[j].warm =>
            a \in job[j].warm \/ (job[j].pc = "committed" /\ a \in Rows /\ DueToWake(j, a))
    /\ job'[j].now \in {None, job[j].now, clock}
    /\ job'[j].pc = "reactivating" =>
        /\ job[j].pc = "committed" /\ UNCHANGED alerts
        /\ \A a \in job'[j].warm : a \in Rows /\ DueToWake(j, a)

LEMMA JobWorks ==
    ASSUME TypeOK, JobsSound, NEW j \in Jobs, Fetch(j) \/ JobStep(j) \/ Crash(j)
    PROVE  JobWork(j)
<1>0. job[j] \in JobState /\ JobOK(job[j]) /\ job \in [Jobs -> JobState]
  BY DEF TypeOK
\* A step that keeps what the job has seen, or forgets it
<1>1. ASSUME NEW from, NEW changes, Step(j, from, changes), changes.pc # "reactivating",
             changes.ins \subseteq job[j].ins, changes.warm = job[j].warm,
             changes.seen = job[j].seen, changes.now = job[j].now
      PROVE  JobWork(j)
  <2>1. job'[j] = changes /\ \A k \in Jobs \ {j} : job'[k] = job[k]
    BY <1>1, JobMoves
  <2> QED BY <1>1, <2>1 DEF JobWork, FiredBy
<1>2. ASSUME NEW from, NEW changes, Step(j, from, changes), changes.pc # "reactivating",
             changes.ins = {}, changes.warm = {}, changes.now = None,
             \A a \in Alerts : changes.seen[a] = None
      PROVE  JobWork(j)
  <2>1. job'[j] = changes /\ \A k \in Jobs \ {j} : job'[k] = job[k]
    BY <1>2, JobMoves
  <2> QED BY <1>2, <2>1 DEF JobWork, FiredBy
<1>3. ASSUME NEW from, Done(j, from) PROVE JobWork(j)
  <2>1. /\ IdleJob.pc = "idle" /\ IdleJob.ins = {} /\ IdleJob.warm = {} /\ IdleJob.now = None
        /\ \A a \in Alerts : IdleJob.seen[a] = None
    BY DEF IdleJob, NoRows
  <2> QED BY <1>2, <1>3, <2>1 DEF Done
<1>4. CASE Fetch(j)
  <2>1. ASSUME NEW p \in Prices,
               Step(j, "idle", [IdleJob EXCEPT !.pc = "fetched", !.started = clock,
                                  !.sample = [price |-> p, at |-> clock]])
        PROVE  JobWork(j)
    <3> DEFINE changes == [IdleJob EXCEPT !.pc = "fetched", !.started = clock,
                                  !.sample = [price |-> p, at |-> clock]]
    <3>1. /\ changes.pc = "fetched" /\ changes.ins = {} /\ changes.warm = {}
          /\ changes.now = None /\ \A a \in Alerts : changes.seen[a] = None
      BY DEF IdleJob, NoRows
    <3>2. Step(j, "idle", changes)
      BY <2>1
    <3> HIDE DEF changes
    <3> QED BY <1>2, <3>1, <3>2
  <2>2. ASSUME Step(j, "idle", [IdleJob EXCEPT !.pc = "stored", !.started = clock])
        PROVE  JobWork(j)
    <3> DEFINE changes == [IdleJob EXCEPT !.pc = "stored", !.started = clock]
    <3>1. /\ changes.pc = "stored" /\ changes.ins = {} /\ changes.warm = {}
          /\ changes.now = None /\ \A a \in Alerts : changes.seen[a] = None
      BY DEF IdleJob, NoRows
    <3>2. Step(j, "idle", changes)
      BY <2>2
    <3> HIDE DEF changes
    <3> QED BY <1>2, <3>1, <3>2
  <2> QED BY <1>4, <2>1, <2>2 DEF Fetch
<1>5. CASE StoreLatest(j) \/ StoreHistory(j)
  <2>1. ASSUME NEW pc \in {"half_stored", "stored"}, NEW from,
               Step(j, from, [job[j] EXCEPT !.pc = pc])
        PROVE  JobWork(j)
    <3>1. PICK changes : changes = [job[j] EXCEPT !.pc = pc]
      OBVIOUS
    <3>2. /\ changes.pc = pc /\ changes.ins = job[j].ins /\ changes.warm = job[j].warm
          /\ changes.seen = job[j].seen /\ changes.now = job[j].now
      BY <1>0, <3>1 DEF JobState
    <3> QED BY <1>1, <2>1, <3>1, <3>2
  <2> QED BY <1>3, <1>5, <2>1 DEF StoreLatest, StoreHistory, Done
<1>6. CASE EvalSelect(j)
  <2> DEFINE seen == [a \in Alerts |-> IF a \in ActiveAlerts THEN alerts[a] ELSE None]
  <2>1. CASE Done(j, "stored")
    BY <1>3, <2>1
  <2>2. CASE ~ Done(j, "stored")
    <3>1. PICK changes : changes = [job[j] EXCEPT !.pc = "selected", !.now = clock,
                                       !.todo = ActiveAlerts, !.seen = seen]
      OBVIOUS
    <3>2. Step(j, "stored", changes)
      BY <1>6, <2>2, <3>1 DEF EvalSelect
    <3>3. \A a \in Alerts : seen[a] = None \/ a \in Rows
      BY DEF ActiveAlerts
    <3> HIDE DEF seen
    <3>4. /\ changes.pc = "selected" /\ changes.ins = job[j].ins /\ changes.warm = job[j].warm
          /\ changes.seen = seen /\ changes.now = clock
      BY <1>0, <3>1 DEF JobState
    <3>5. job[j].pc = "stored" /\ job'[j] = changes /\ \A k \in Jobs \ {j} : job'[k] = job[k]
      BY <3>2, JobMoves
    <3>6. job'[j].ins = {}
      BY <3>4, <3>5 DEF JobsSound, InsSound
    <3> QED BY <3>3, <3>4, <3>5, <3>6 DEF JobWork, FiredBy
  <2> QED BY <2>1, <2>2
<1>7. CASE EvalReadLatest(j)
  <2>1. PICK changes : changes = [job[j] EXCEPT !.pc = "priced", !.latest = latest]
    OBVIOUS
  <2>2. /\ changes.pc = "priced" /\ changes.ins = job[j].ins /\ changes.warm = job[j].warm
        /\ changes.seen = job[j].seen /\ changes.now = job[j].now
    BY <1>0, <2>1 DEF JobState
  <2> QED BY <1>1, <1>7, <2>1, <2>2 DEF EvalReadLatest
<1>8. CASE EvalReadPrevious(j)
  <2>1. PICK changes :
          changes = [job[j] EXCEPT !.pc = "deciding", !.previous = previous_price(history)]
    OBVIOUS
  <2>2. /\ changes.pc = "deciding" /\ changes.ins = job[j].ins /\ changes.warm = job[j].warm
        /\ changes.seen = job[j].seen /\ changes.now = job[j].now
    BY <1>0, <2>1 DEF JobState
  <2> QED BY <1>1, <1>8, <2>1, <2>2 DEF EvalReadPrevious
<1>9. ASSUME NEW a \in Alerts, EvalDecide(j, a) PROVE JobWork(j)
  <2>0. PICK left, new : left = job[j].todo \ {a} /\ new = NewEvent(j, a)
    OBVIOUS
  <2>1. CASE Step(j, "deciding", [job[j] EXCEPT !.todo = left])
    <3>1. PICK changes : changes = [job[j] EXCEPT !.todo = left]
      OBVIOUS
    <3>2. /\ changes.pc = job[j].pc /\ changes.ins = job[j].ins /\ changes.warm = job[j].warm
          /\ changes.seen = job[j].seen /\ changes.now = job[j].now
      BY <1>0, <3>1 DEF JobState
    <3>3. job[j].pc = "deciding"
      BY <1>9 DEF EvalDecide
    <3> QED BY <1>1, <2>1, <3>1, <3>2, <3>3
  <2>2. CASE Done(j, "deciding")
    BY <1>3, <2>2
  <2>3. CASE /\ Step(j, "deciding", [job[j] EXCEPT !.todo = left, !.ins = @ \cup {new}])
             /\ a \in Rows
    <3>1. PICK changes : changes = [job[j] EXCEPT !.todo = left, !.ins = @ \cup {new}]
      OBVIOUS
    <3>2. /\ changes.pc = job[j].pc /\ changes.ins = job[j].ins \cup {new}
          /\ changes.warm = job[j].warm /\ changes.seen = job[j].seen
          /\ changes.now = job[j].now
      BY <1>0, <3>1 DEF JobState
    <3>3. job[j].pc = "deciding" /\ job'[j] = changes /\ \A k \in Jobs \ {j} : job'[k] = job[k]
      BY <2>3, <3>1, JobMoves
    <3>4. new.alert = a /\ job[j].seen[a] # None
      BY <1>0, <1>9, <2>0 DEF EvalDecide, JobOK, NewEvent, event
    <3>5. \A b \in Alerts : b \in FiredBy(j)' => b \in FiredBy(j) \/ b = a
      BY <3>2, <3>3, <3>4 DEF FiredBy
    <3> QED BY <2>3, <3>2, <3>3, <3>4, <3>5 DEF JobWork
  <2> QED BY <1>9, <2>0, <2>1, <2>2, <2>3 DEF EvalDecide
<1>10. CASE EvalCommit(j)
  <2>1. PICK changes : changes = [job[j] EXCEPT !.pc = "committed", !.ins = {}]
    OBVIOUS
  <2>2. /\ changes.pc = "committed" /\ changes.ins = {} /\ changes.warm = job[j].warm
        /\ changes.seen = job[j].seen /\ changes.now = job[j].now
    BY <1>0, <2>1 DEF JobState
  <2> QED BY <1>1, <1>10, <2>1, <2>2 DEF EvalCommit
<1>11. CASE ReactSelect(j)
  <2>0. PICK due : due = {a \in Rows : DueToWake(j, a)}
    OBVIOUS
  <2>1. CASE Done(j, "committed")
    BY <1>3, <2>1
  <2>2. CASE ~ Done(j, "committed")
    <3>1. PICK changes : changes = [job[j] EXCEPT !.pc = "reactivating", !.warm = due]
      OBVIOUS
    <3>2. Step(j, "committed", changes) /\ UNCHANGED alerts
      BY <1>11, <2>0, <2>2, <3>1 DEF ReactSelect
    <3>3. /\ changes.pc = "reactivating" /\ changes.ins = job[j].ins /\ changes.warm = due
          /\ changes.seen = job[j].seen /\ changes.now = job[j].now
      BY <1>0, <3>1 DEF JobState
    <3>4. job[j].pc = "committed" /\ job'[j] = changes /\ \A k \in Jobs \ {j} : job'[k] = job[k]
      BY <3>2, JobMoves
    <3>5. \A a \in due : a \in Rows /\ DueToWake(j, a)
      BY <2>0
    <3> QED BY <3>2, <3>3, <3>4, <3>5 DEF JobWork, FiredBy
  <2> QED BY <2>1, <2>2
<1>12. CASE EvalDeadlockVictim(j) \/ ReactCommit(j)
  BY <1>3, <1>12 DEF EvalDeadlockVictim, ReactCommit
<1>13. CASE Crash(j)
  <2>1. Done(j, job[j].pc)
    BY <1>13 DEF Crash, Done, Step
  <2> QED BY <1>3, <2>1
<1> QED
  BY <1>4, <1>5, <1>6, <1>7, <1>8, <1>9, <1>10, <1>11, <1>12, <1>13 DEF JobStep

\* What a step of job j does to a row: nothing, or it parks it, or it wakes it.
JobWrites(j, a) ==
    \/ alerts'[a] = alerts[a]
    \/ /\ job[j].pc = "deciding" /\ a \in FiredBy(j)
       /\ alerts'[a].last = job[j].now /\ alerts'[a].status # "active"
       /\ alerts'[a].cooldown = alerts[a].cooldown
    \/ /\ job[j].pc = "reactivating" /\ a \in job[j].warm
       /\ alerts'[a].last = alerts[a].last /\ alerts'[a].status = "active"
       /\ alerts'[a].cooldown = alerts[a].cooldown

LEMMA JobsWriteRows ==
    ASSUME TypeOK, NEW j \in Jobs, Fetch(j) \/ JobStep(j) \/ Crash(j), NEW a \in Rows
    PROVE  JobWrites(j, a)
<1>0. a \in Alerts /\ alerts[a] \in AlertRow
  BY DEF TypeOK, Rows, Table
<1>1. CASE EvalCommit(j)
  <2>1. \/ alerts'[a] = alerts[a]
        \/ /\ a \in FiredBy(j) /\ job[j].pc = "deciding"
           /\ alerts'[a] = Parked(alerts[a], job[j].seen[a].one_shot, job[j].now)
    BY <1>0, <1>1 DEF EvalCommit, Step
  <2> QED BY <1>0, <2>1 DEF Parked, AlertRow, JobWrites
<1>2. CASE ReactCommit(j)
  <2>1. \/ alerts'[a] = alerts[a]
        \/ /\ a \in job[j].warm /\ job[j].pc = "reactivating"
           /\ alerts'[a] = [alerts[a] EXCEPT !.status = "active"]
    BY <1>0, <1>2 DEF ReactCommit, Done, Step
  <2> QED BY <1>0, <2>1 DEF AlertRow, JobWrites
<1>3. CASE ~ EvalCommit(j) /\ ~ ReactCommit(j)
  <2>1. UNCHANGED alerts
    BY <1>3 DEF Fetch, JobStep, StoreLatest, StoreHistory, EvalSelect, EvalReadLatest,
       EvalReadPrevious, EvalDecide, EvalDeadlockVictim, ReactSelect, Crash
  <2> QED BY <2>1 DEF JobWrites
<1> QED BY <1>1, <1>2, <1>3

\* What a step of request r does to a row: it leaves what the cooldown is about,
\* except that it may pause the alert; or it parks the one it arms; or it makes the
\* one it has counted.
ReqWrites(r, a) ==
    \/ a \in Rows /\ \/ /\ alerts'[a].last = alerts[a].last
                        /\ alerts'[a].status \in {alerts[a].status, "paused"}
                        /\ alerts'[a].cooldown = alerts[a].cooldown
                     \/ /\ req[r].pc = "holding" /\ req[r].alert = a
                        /\ alerts'[a].last = clock /\ alerts'[a].status # "active"
                        /\ alerts'[a].cooldown = alerts[a].cooldown
    \/ /\ a \notin Rows /\ req[r].pc = "counted" /\ req[r].alert = a
       /\ alerts'[a] = req[r].row

LEMMA PatchKeepsTiming ==
    ASSUME NEW current \in AlertRow, NEW loaded \in AlertRow, NEW patch \in Patch,
           patch.status \in {None, "paused"}, patch.cooldown = None
    PROVE  LET merged == Merge(current, loaded, Patched(loaded, patch))
           IN  /\ merged.last = current.last
               /\ merged.status \in {current.status, "paused"}
               /\ merged.cooldown = current.cooldown
<1>0. PICK assigned : assigned = Patched(loaded, patch)
  OBVIOUS
<1>a. patch.status # "active"
  BY PipelineAssumption DEF Statuses
<1>1. /\ assigned.status \in {loaded.status, "paused"}
      /\ assigned.cooldown = loaded.cooldown /\ assigned.last = loaded.last
  BY <1>0, <1>a DEF Patched, Given, AlertRow
<1>2. PICK merged : merged = Merge(current, loaded, assigned)
  OBVIOUS
<1>3. /\ merged.last = current.last /\ merged.status \in {current.status, "paused"}
      /\ merged.cooldown = current.cooldown
  BY <1>1, <1>2 DEF Merge, AlertRow
<1> QED BY <1>0, <1>2, <1>3

LEMMA ReqsWriteRows ==
    ASSUME EditsNeverWake, TypeOK, CountedIdsAreFresh, NEW r \in Requests, ReqNext(r),
           NEW a \in Rows'
    PROVE  ReqWrites(r, a)
<1>0. /\ req[r] \in ReqState /\ ReqOK(req[r]) /\ clock \in Times /\ alerts \in Table
      /\ a \in Alerts /\ (a \in Rows => alerts[a] \in AlertRow) /\ alerts'[a] # None
      /\ (a \in Rows <=> alerts[a] # None)
  BY DEF TypeOK, Rows, Table
<1>1. CASE CreateInsert(r)
  <2>1. /\ alerts' = [alerts EXCEPT ![req[r].alert] = req[r].row] /\ req[r].alert \notin Rows
        /\ req[r].pc = "counted"
    BY <1>1 DEF CreateInsert, ReqStep, CountedIdsAreFresh
  <2> QED BY <1>0, <2>1 DEF Table, ReqWrites
<1>2. CASE ArmRecord(r)
  <2>1. CASE alerts'[a] = alerts[a]
    BY <1>0, <2>1 DEF ReqWrites
  <2>2. CASE alerts'[a] # alerts[a]
    <3>1. /\ req[r].pc = "holding" /\ req[r].alert = a /\ a \in Rows
          /\ alerts'[a] = Parked(alerts[a], req[r].row.one_shot, clock)
      BY <1>0, <1>2, <2>2 DEF ArmRecord, ReqDone, ReqStep, Table
    <3> QED BY <1>0, <3>1 DEF Parked, AlertRow, ReqWrites
  <2> QED BY <2>1, <2>2
<1>3. CASE PatchCommit(r)
  <2>1. CASE alerts'[a] = alerts[a]
    BY <1>0, <2>1 DEF ReqWrites
  <2>2. CASE alerts'[a] # alerts[a]
    <3>1. /\ req[r].pc = "loaded" /\ a \in Rows
          /\ alerts'[a] = Merge(alerts[a], req[r].row, Patched(req[r].row, req[r].patch))
      BY <1>0, <1>3, <2>2 DEF PatchCommit, ReqDone, ReqStep, Table
    <3>2. /\ req[r].row \in AlertRow /\ req[r].patch \in Patch
          /\ req[r].patch.status \in {None, "paused"} /\ req[r].patch.cooldown = None
      BY <1>0, <3>1, PipelineAssumption DEF ReqOK, ReqState, EditsNeverWake
    <3> QED BY <1>0, <3>1, <3>2, PatchKeepsTiming DEF ReqWrites
  <2> QED BY <2>1, <2>2
<1>4. ASSUME NEW b \in Alerts, Delete(r, b) PROVE ReqWrites(r, a)
  <2>1. alerts'[a] = alerts[a]
    BY <1>0, <1>4 DEF Delete, Table
  <2> QED BY <1>0, <2>1 DEF ReqWrites
<1>5. CASE \/ \E b \in Alerts, spec \in NewAlerts : CreateCount(r, b, spec)
           \/ \E b \in Alerts, patch \in Patches : PatchLoad(r, b, patch)
           \/ ArmRead(r) \/ ReqCrash(r)
  <2>1. alerts' = alerts
    BY <1>5 DEF CreateCount, PatchLoad, ArmRead, ReqCrash
  <2> QED BY <1>0, <2>1 DEF ReqWrites
<1> QED BY <1>1, <1>2, <1>3, <1>4, <1>5 DEF ReqNext, ReqFinish

\* What a step of request r does to its own memory: it ends, it begins now, or it goes on.
ReqClock(r) ==
    \/ req'[r].pc = "idle"
    \/ /\ req'[r].started = clock
       /\ \/ req'[r].pc = "loaded"
          \/ /\ req'[r].pc = "counted" /\ req'[r].alert \in unborn
             /\ req'[r].row.status = "active" /\ req'[r].row.cooldown > Slack
    \/ /\ req'[r].started = req[r].started /\ req'[r].alert = req[r].alert
       /\ \/ req[r].pc = "counted" /\ req'[r].pc = "arming"
          \/ req[r].pc = "arming" /\ req'[r].pc = "holding"

LEMMA ReqsKeepTime ==
    ASSUME PatientAlerts, TypeOK, NEW r \in Requests, ReqNext(r)
    PROVE  ReqClock(r)
<1>0. req[r] \in ReqState
  BY DEF TypeOK
<1>1. ASSUME NEW a \in Alerts, NEW spec \in NewAlerts, CreateCount(r, a, spec)
      PROVE  ReqClock(r)
  <2>1. PICK changes : changes = [IdleReq EXCEPT !.pc = "counted", !.started = clock,
                                                 !.alert = a, !.row = Fresh(spec)]
    OBVIOUS
  <2>2. /\ changes.pc = "counted" /\ changes.started = clock /\ changes.alert = a
        /\ changes.row = Fresh(spec)
    BY <2>1 DEF IdleReq
  <2>3. Fresh(spec).status = "active" /\ Fresh(spec).cooldown > Slack
    BY DEF Fresh, PatientAlerts
  <2>4. ReqStep(r, "idle", changes) /\ a \in unborn
    BY <1>1, <2>1 DEF CreateCount
  <2>5. req'[r] = changes
    BY <2>4, ReqMoves
  <2> QED BY <2>2, <2>3, <2>4, <2>5 DEF ReqClock
<1>2. ASSUME NEW a \in Alerts, NEW patch \in Patches, PatchLoad(r, a, patch)
      PROVE  ReqClock(r)
  <2>1. PICK changes : changes = [IdleReq EXCEPT !.pc = "loaded", !.started = clock,
                                    !.alert = a, !.row = alerts[a], !.patch = patch]
    OBVIOUS
  <2>2. changes.pc = "loaded" /\ changes.started = clock
    BY <2>1 DEF IdleReq
  <2>3. ReqStep(r, "idle", changes)
    BY <1>2, <2>1 DEF PatchLoad
  <2>4. req'[r] = changes
    BY <2>3, ReqMoves
  <2> QED BY <2>2, <2>4 DEF ReqClock
<1>3. CASE CreateInsert(r)
  <2>1. PICK changes : changes = [req[r] EXCEPT !.pc = "arming"]
    OBVIOUS
  <2>2. /\ changes.pc = "arming" /\ changes.started = req[r].started
        /\ changes.alert = req[r].alert
    BY <1>0, <2>1 DEF ReqState
  <2>3. ReqStep(r, "counted", changes)
    BY <1>3, <2>1 DEF CreateInsert
  <2>4. req[r].pc = "counted" /\ req'[r] = changes
    BY <2>3, ReqMoves
  <2> QED BY <2>2, <2>4 DEF ReqClock
<1>4. ASSUME NEW from, ReqDone(r, from) PROVE ReqClock(r)
  <2>1. req'[r] = IdleReq
    BY <1>4, ReqMoves DEF ReqDone
  <2> QED BY <2>1 DEF IdleReq, ReqClock
<1>5. CASE ArmRead(r)
  <2>1. CASE ReqStep(r, "arming", [req[r] EXCEPT !.pc = "holding", !.sample = latest])
    <3>1. PICK changes : changes = [req[r] EXCEPT !.pc = "holding", !.sample = latest]
      OBVIOUS
    <3>2. /\ changes.pc = "holding" /\ changes.started = req[r].started
          /\ changes.alert = req[r].alert
      BY <1>0, <3>1 DEF ReqState
    <3>3. req[r].pc = "arming" /\ req'[r] = changes
      BY <2>1, <3>1, ReqMoves
    <3> QED BY <3>2, <3>3 DEF ReqClock
  <2> QED BY <1>4, <1>5, <2>1 DEF ArmRead
<1>6. CASE ArmRecord(r) \/ PatchCommit(r)
  BY <1>4, <1>6 DEF ArmRecord, PatchCommit
<1>7. CASE ReqCrash(r)
  <2>1. ReqDone(r, req[r].pc)
    BY <1>7 DEF ReqCrash, ReqDone, ReqStep
  <2> QED BY <1>4, <2>1
<1>8. ASSUME NEW a \in Alerts, Delete(r, a) PROVE ReqClock(r)
  BY <1>8 DEF Delete, ReqClock
<1> QED BY <1>1, <1>2, <1>3, <1>5, <1>6, <1>7, <1>8 DEF ReqNext, ReqFinish

\* Cooldowns that are over stay so.
LEMMA CoolingPasses ==
    ASSUME NEW last \in Times \cup {None}, NEW cooldown \in Int,
           NEW now \in Int, NEW later \in Int, now <= later,
           ~ is_cooling(last, cooldown, now)
    PROVE  ~ is_cooling(last, cooldown, later)
BY DEF is_cooling, Times

\* An alert that is being armed has not cooled yet.
LEMMA YoungAreNotDue ==
    ASSUME CInv, NEW j \in Jobs, job[j].pc = "committed", NEW r \in Requests,
           req[r].pc \in {"arming", "holding"}, req[r].alert \in Rows
    PROVE  ~ DueToWake(j, req[r].alert)
<1> SUFFICES ASSUME DueToWake(j, req[r].alert) PROVE FALSE
  OBVIOUS
<1>1. PICK a \in Rows : a = req[r].alert
  OBVIOUS
<1>2. alerts[a] \in AlertRow /\ job[j] \in JobState /\ JobOK(job[j]) /\ clock \in Int
  BY DEF CInv, EInv, TypeOK, Rows, Table, Times
<1>3. /\ alerts[a].last \in Int /\ alerts[a].cooldown \in Int /\ alerts[a].status = "cooling"
      /\ ~ is_cooling(alerts[a].last, alerts[a].cooldown, job[j].now)
  BY <1>1, <1>2 DEF DueToWake, CInv, CoolingHasTime, AlertRow, Times
<1>4. job[j].now \in Int /\ job[j].now <= clock
  BY <1>2 DEF JobOK, JobState, CInv, InTime, Times
<1>5. /\ req[r].started \in Int /\ clock <= req[r].started + Slack /\ Slack \in Int
      /\ alerts[a].cooldown > Slack /\ alerts[a].last >= req[r].started
  BY <1>1, <1>3, NoneAssumption, PipelineAssumption
     DEF CInv, InTime, ArmedAreYoung, YoungAlert, Times
<1>6. alerts[a].last # None
  BY <1>3, NoneAssumption
<1>7. job[j].now >= alerts[a].last + alerts[a].cooldown
  BY <1>3, <1>4, <1>6 DEF is_cooling
<1>8. PICK last, cooldown, now, started \in Int :
          /\ last = alerts[a].last /\ cooldown = alerts[a].cooldown
          /\ now = job[j].now /\ started = req[r].started
  BY <1>3, <1>4, <1>5
<1>9. /\ now >= last + cooldown /\ now <= clock /\ clock <= started + Slack
      /\ cooldown > Slack /\ last >= started
  BY <1>4, <1>5, <1>7, <1>8
<1> QED BY <1>2, <1>5, <1>8, <1>9

\* The steps of the jobs
LEMMA JobsKeepCooling ==
    ASSUME OneEvaluator, CInv, NEW j \in Jobs, Fetch(j) \/ JobStep(j) \/ Crash(j)
    PROVE  IdsUnknown' /\ CoolingHasTime' /\ InTime' /\ ArmedAreYoung' /\ WarmAreDue'
<1>0. /\ TypeOK /\ JobsSound /\ clock \in Times /\ clock \in Int /\ clock # None
      /\ job[j] \in JobState /\ JobOK(job[j])
      /\ \A a \in Rows : a \in Alerts /\ alerts[a] \in AlertRow
  BY NoneAssumption DEF CInv, EInv, TypeOK, Rows, Table, Times
<1>1. Rows' = Rows /\ clock' = clock /\ unborn' = unborn /\ req' = req
  BY <1>0, JobWritesOK
<1>2. JobWork(j)
  BY <1>0, JobWorks
<1>3. \A a \in Rows : JobWrites(j, a)
  BY <1>0, JobsWriteRows
<1>4. \A k \in Jobs \ {j} : job'[k] = job[k] /\ FiredBy(k)' = FiredBy(k)
  BY <1>2 DEF JobWork, FiredBy
<1>5. ASSUME NEW a \in Alerts \ Rows, Unknown(a) PROVE Unknown(a)'
  BY <1>2, <1>4, <1>5 DEF Unknown, JobWork
<1>6. IdsUnknown'
  <2>1. \A a \in unborn : a \in Alerts \ Rows
    BY <1>0 DEF TypeOK
  <2>2. \A r \in Requests : req[r].pc = "counted" => req[r].alert \in Alerts \ Rows
    BY <1>0 DEF TypeOK, ReqOK, ReqState, CInv, CountedIdsAreFresh
  <2>3. \A a \in unborn' : Unknown(a)'
    BY <1>1, <1>5, <2>1 DEF CInv, IdsUnknown
  <2>4. ASSUME NEW r \in Requests, req'[r].pc = "counted"
        PROVE  /\ Unknown(req[r].alert)'
               /\ req'[r].row.status = "active" /\ req'[r].row.cooldown > Slack
    <3>1. PICK a \in Alerts \ Rows : a = req[r].alert
      BY <1>1, <2>2, <2>4
    <3>2. /\ Unknown(a) /\ req[r].row.status = "active" /\ req[r].row.cooldown > Slack
      BY <1>1, <2>4, <3>1 DEF CInv, IdsUnknown
    <3>3. Unknown(a)'
      BY <1>5, <3>2
    <3> QED BY <1>1, <3>1, <3>2, <3>3
  <2> QED BY <2>3, <2>4 DEF IdsUnknown
<1>7. CoolingHasTime'
  <2>1. ASSUME NEW a \in Rows, alerts'[a].status = "cooling" PROVE alerts'[a].last # None
    BY <1>0, <1>3, <2>1 DEF JobWrites, JobOK, CInv, CoolingHasTime
  <2> QED BY <1>1, <2>1 DEF CoolingHasTime
<1>8. InTime'
  <2>1. \A k \in Jobs : job'[k].now # None => job'[k].now <= clock
    BY <1>0, <1>2 DEF JobWork, CInv, InTime
  <2> QED BY <1>1, <2>1 DEF CInv, InTime
<1>9. ArmedAreYoung'
  <2>1. ASSUME NEW r \in Requests, req[r].pc \in {"arming", "holding"}, req[r].alert \in Rows
        PROVE  YoungAlert(r, req[r].alert)'
    <3>1. PICK a \in Rows : a = req[r].alert
      BY <2>1
    <3>2. YoungAlert(r, a) /\ a \in Alerts
      BY <1>0, <2>1, <3>1 DEF CInv, ArmedAreYoung
    <3>3. req[r].started <= clock /\ req[r].started \in Int
      BY <2>1 DEF CInv, InTime, Times
    <3>4. /\ alerts'[a].cooldown > Slack
          /\ alerts'[a].last # None => alerts'[a].last >= req[r].started
      BY <1>3, <3>2 DEF JobWrites, YoungAlert
    <3>5. a \notin job'[j].warm
      BY <1>2, <2>1, <3>1, <3>2, YoungAreNotDue DEF JobWork, YoungAlert
    <3>6. job'[j].seen[a] # None \/ a \in FiredBy(j)' =>
                job'[j].now # None /\ job'[j].now >= req[r].started
      BY <1>0, <1>2, <3>2, <3>3 DEF JobWork, YoungAlert
    <3>7. \A k \in Jobs :
            /\ a \notin job'[k].warm
            /\ job'[k].seen[a] # None \/ a \in FiredBy(k)' =>
                    job'[k].now # None /\ job'[k].now >= req[r].started
      BY <1>4, <3>2, <3>5, <3>6 DEF YoungAlert
    <3>8. YoungAlert(r, a)'
      BY <1>1, <3>4, <3>7 DEF YoungAlert
    <3> QED BY <1>1, <3>1, <3>8
  <2> QED BY <1>1, <2>1 DEF ArmedAreYoung
<1>10. WarmAreDue'
  <2>1. ASSUME NEW k \in Jobs, job'[k].pc = "reactivating", NEW a \in job'[k].warm \cap Rows,
               alerts'[a].status = "cooling"
        PROVE  ~ is_cooling(alerts'[a].last, alerts'[a].cooldown, clock)
    <3>1. CASE k = j
      <4>1. /\ alerts' = alerts /\ job[j].now \in Int /\ job[j].now <= clock
            /\ ~ is_cooling(alerts[a].last, alerts[a].cooldown, job[j].now)
        BY <1>0, <1>2, <2>1, <3>1
           DEF JobWork, DueToWake, JobOK, JobState, CInv, InTime, Times
      <4> QED BY <1>0, <4>1, CoolingPasses DEF AlertRow
    <3>2. CASE k # j
      <4>1. job[k].pc = "reactivating" /\ a \in job[k].warm
        BY <1>4, <2>1, <3>2
      <4>2. k \in PollJobs
        BY <1>0, <4>1 DEF JobsSound, Jobs
      <4>3. job[j].pc = "deciding" => j \in PollJobs
        BY <1>0 DEF JobsSound, Jobs
      <4>4. alerts'[a] = alerts[a]
        BY <1>3, <2>1, <3>2, <4>2, <4>3 DEF JobWrites, OneEvaluator
      <4> QED BY <2>1, <4>1, <4>4 DEF CInv, WarmAreDue
    <3> QED BY <3>1, <3>2
  <2> QED BY <1>1, <2>1 DEF WarmAreDue
<1> QED BY <1>6, <1>7, <1>8, <1>9, <1>10

\* The steps of the requests
LEMMA ReqsKeepCooling ==
    ASSUME EditsNeverWake, PatientAlerts, CInv, NEW r \in Requests, ReqNext(r)
    PROVE  IdsUnknown' /\ CoolingHasTime' /\ InTime' /\ ArmedAreYoung' /\ WarmAreDue'
<1>0. /\ TypeOK /\ ReqsSound /\ CountedIdsAreFresh
      /\ clock \in Times /\ clock \in Int /\ clock # None /\ Slack \in Nat
      /\ \A a \in Rows : a \in Alerts /\ alerts[a] \in AlertRow
  BY NoneAssumption, PipelineAssumption DEF CInv, EInv, TypeOK, Rows, Table, Times
<1>1. /\ clock' = clock /\ job' = job /\ \A a \in Alerts : Unknown(a)' <=> Unknown(a)
  BY <1>0, ReqWritesOK DEF Unknown, FiredBy
<1>2. /\ \A q \in Requests \ {r} : req'[q] = req[q]
      /\ unborn' \subseteq unborn
  BY <1>0, ReqEffects
<1>3. \A a \in Rows' : ReqWrites(r, a)
  BY <1>0, ReqsWriteRows
<1>4. ReqClock(r)
  BY <1>0, ReqsKeepTime
<1>5. \A a \in Rows' : a \in Alerts /\ (a \notin Rows => Unknown(a) /\ req[r].row.last = None
                                  /\ req[r].row.status = "active" /\ req[r].row.cooldown > Slack)
  BY <1>0, <1>3 DEF ReqWrites, CInv, IdsUnknown, ReqsSound, Rows
<1>6. IdsUnknown'
  <2>1. \A a \in unborn' : Unknown(a)'
    BY <1>0, <1>1, <1>2 DEF CInv, IdsUnknown, TypeOK
  <2>2. ASSUME NEW q \in Requests, req'[q].pc = "counted"
        PROVE  /\ Unknown(req[q].alert)'
               /\ req'[q].row.status = "active" /\ req'[q].row.cooldown > Slack
    <3>1. CASE q = r
      <4>1. PICK a \in unborn : a = req'[r].alert
        BY <1>4, <2>2, <3>1 DEF ReqClock
      <4>2. Unknown(a)'
        BY <1>0, <1>1, <4>1 DEF CInv, IdsUnknown, TypeOK
      <4>3. req'[r].row.status = "active" /\ req'[r].row.cooldown > Slack
        BY <1>4, <2>2, <3>1 DEF ReqClock
      <4> QED BY <3>1, <4>1, <4>2, <4>3
    <3>2. CASE q # r
      <4>1. PICK a : a = req[q].alert /\ a \in Alerts
        BY <1>0, <1>2, <2>2, <3>2, NoneAssumption DEF TypeOK, ReqOK, ReqState
      <4>2. Unknown(a) /\ req[q].row.status = "active" /\ req[q].row.cooldown > Slack
        BY <1>2, <2>2, <3>2, <4>1 DEF CInv, IdsUnknown
      <4>3. Unknown(a)' /\ a = req'[q].alert
        BY <1>1, <1>2, <3>2, <4>1, <4>2
      <4> QED BY <1>2, <3>2, <4>2, <4>3
    <3> QED BY <3>1, <3>2
  <2> QED BY <2>1, <2>2 DEF IdsUnknown
<1>7. CoolingHasTime'
  <2>1. ASSUME NEW a \in Rows', alerts'[a].status = "cooling" PROVE alerts'[a].last # None
    BY <1>0, <1>3, <1>5, <2>1 DEF ReqWrites, CInv, CoolingHasTime
  <2> QED BY <2>1 DEF CoolingHasTime
<1>8. InTime'
  <2>1. ASSUME NEW q \in Requests, req'[q].pc # "idle"
        PROVE  req'[q].started \in Times /\ req'[q].started <= clock
                                        /\ clock <= req'[q].started + Slack
    <3>1. CASE req'[q].started = clock
      BY <1>0, <3>1
    <3>2. CASE req'[q].started = req[q].started /\ req[q].pc # "idle"
      BY <3>2 DEF CInv, InTime
    <3> QED BY <1>2, <1>4, <2>1, <3>1, <3>2 DEF ReqClock
  <2> QED BY <1>1, <2>1 DEF CInv, InTime
<1>9. ArmedAreYoung'
  <2>1. ASSUME NEW q \in Requests, req'[q].pc \in {"arming", "holding"}, req'[q].alert \in Rows'
        PROVE  YoungAlert(q, req[q].alert)'
    <3>1. PICK a \in Rows' : a = req'[q].alert
      BY <2>1
    <3>2. /\ a \in Alerts /\ ReqWrites(r, a)
      BY <1>3, <1>5
    <3>3. a = req[q].alert /\ req'[q].started = req[q].started
          /\ req[q].pc \in {"counted", "arming", "holding"}
      BY <1>2, <1>4, <2>1, <3>1 DEF ReqClock
    <3>4. req[q].started <= clock
      BY <3>3 DEF CInv, InTime
    <3>5. CASE a \in Rows
      <4>1. req[q].pc \in {"arming", "holding"}
        BY <1>0, <3>3, <3>5 DEF CountedIdsAreFresh
      <4>2. YoungAlert(q, a)
        BY <3>3, <3>5, <4>1 DEF CInv, ArmedAreYoung
      <4>3. /\ alerts'[a].cooldown > Slack
            /\ alerts'[a].last # None => alerts'[a].last >= req[q].started
        BY <3>2, <3>4, <3>5, <4>2 DEF ReqWrites, YoungAlert
      <4>4. YoungAlert(q, a)'
        BY <1>1, <3>3, <4>2, <4>3 DEF YoungAlert, FiredBy
      <4> QED BY <3>1, <4>4
    <3>6. CASE a \notin Rows
      <4>1. Unknown(a) /\ alerts'[a].last = None /\ alerts'[a].cooldown > Slack
        BY <1>5, <3>2, <3>6 DEF ReqWrites
      <4>2. YoungAlert(q, a)'
        BY <1>1, <4>1 DEF YoungAlert, Unknown, FiredBy
      <4> QED BY <3>1, <4>2
    <3> QED BY <3>5, <3>6
  <2> QED BY <2>1 DEF ArmedAreYoung
<1>10. WarmAreDue'
  <2>1. ASSUME NEW k \in Jobs, job[k].pc = "reactivating", NEW a \in Rows', a \in job[k].warm,
               alerts'[a].status = "cooling"
        PROVE  ~ is_cooling(alerts'[a].last, alerts'[a].cooldown, clock)
    <3>1. a \in Rows
      BY <1>5, <2>1 DEF Unknown
    <3>2. ~ (req[r].pc = "holding" /\ req[r].alert = a)
      BY <2>1, <3>1 DEF CInv, ArmedAreYoung, YoungAlert
    <3>3. /\ alerts'[a].last = alerts[a].last /\ alerts'[a].cooldown = alerts[a].cooldown
          /\ alerts[a].status = "cooling"
      BY <1>3, <2>1, <3>1, <3>2 DEF ReqWrites
    <3> QED BY <2>1, <3>1, <3>3 DEF CInv, WarmAreDue
  <2> QED BY <1>1, <2>1 DEF WarmAreDue
<1> QED BY <1>6, <1>7, <1>8, <1>9, <1>10

\* Time passes only while no request is as old as it may be.
LEMMA TimeKeepsCooling ==
    ASSUME CInv, Tick
    PROVE  IdsUnknown' /\ CoolingHasTime' /\ InTime' /\ ArmedAreYoung' /\ WarmAreDue'
<1>0. /\ clock \in Int /\ clock' = clock + 1 /\ Slack \in Nat
      /\ job' = job /\ req' = req /\ alerts' = alerts /\ unborn' = unborn
      /\ \A a \in Rows : alerts[a] \in AlertRow
      /\ job \in [Jobs -> JobState]
  BY PipelineAssumption DEF CInv, EInv, TypeOK, Times, Rows, Table, Tick
<1>1. Rows' = Rows /\ \A j \in Jobs : FiredBy(j)' = FiredBy(j)
  BY <1>0 DEF Rows, FiredBy
<1>2. IdsUnknown' /\ CoolingHasTime' /\ ArmedAreYoung'
  BY <1>0, <1>1 DEF CInv, IdsUnknown, Unknown, CoolingHasTime, ArmedAreYoung, YoungAlert
<1>3. InTime'
  <2>1. ASSUME NEW j \in Jobs, job[j].now # None PROVE job[j].now <= clock + 1
    <3>1. job[j].now \in Int /\ job[j].now <= clock
      BY <1>0, <2>1 DEF CInv, InTime, JobState, Times
    <3> QED BY <1>0, <3>1
  <2>2. ASSUME NEW r \in Requests, req[r].pc # "idle"
        PROVE  req[r].started \in Times /\ req[r].started <= clock + 1
                                       /\ clock + 1 <= req[r].started + Slack
    <3>1. req[r].started \in Times /\ req[r].started <= clock /\ req[r].started \in Int
      BY <2>2 DEF CInv, InTime, Times
    <3>2. ~ (clock >= req[r].started + Slack)
      BY <2>2 DEF Tick, Overdue
    <3> QED BY <1>0, <3>1, <3>2
  <2> QED BY <1>0, <2>1, <2>2 DEF InTime
<1>4. WarmAreDue'
  <2>1. ASSUME NEW j \in Jobs, job[j].pc = "reactivating", NEW a \in job[j].warm \cap Rows,
               alerts[a].status = "cooling"
        PROVE  ~ is_cooling(alerts[a].last, alerts[a].cooldown, clock + 1)
    <3>1. ~ is_cooling(alerts[a].last, alerts[a].cooldown, clock)
      BY <2>1 DEF CInv, WarmAreDue
    <3> QED BY <1>0, <3>1, CoolingPasses DEF AlertRow
  <2> QED BY <1>0, <1>1, <2>1 DEF WarmAreDue
<1> QED BY <1>2, <1>3, <1>4

\* The invariant is inductive under the three conditions ...
LEMMA StepCInv ==
    ASSUME OneEvaluator, EditsNeverWake, PatientAlerts
    PROVE  CInv /\ [Next]_vars => CInv'
<1> SUFFICES ASSUME CInv, [Next]_vars PROVE CInv'
  OBVIOUS
<1>0. EInv' /\ CountedIdsAreFresh'
  BY StepEInv, StepCounted DEF CInv, EInv
<1>1. CASE Tick
  BY <1>0, <1>1, TimeKeepsCooling DEF CInv
<1>2. CASE Prune \/ UNCHANGED vars
  <2>1. IdsUnknown' /\ CoolingHasTime' /\ InTime' /\ ArmedAreYoung' /\ WarmAreDue'
    BY <1>2 DEF Prune, vars, CInv, IdsUnknown, Unknown, FiredBy, Rows, CoolingHasTime, InTime,
       ArmedAreYoung, YoungAlert, WarmAreDue
  <2> QED BY <1>0, <2>1 DEF CInv
<1>3. ASSUME NEW j \in Jobs, Fetch(j) \/ JobStep(j) \/ Crash(j) PROVE CInv'
  BY <1>0, <1>3, JobsKeepCooling DEF CInv
<1>4. ASSUME NEW r \in Requests, ReqNext(r) PROVE CInv'
  BY <1>0, <1>4, ReqsKeepCooling DEF CInv
<1> QED BY <1>1, <1>2, <1>3, <1>4 DEF Next

\* ... and holds at the start, when nothing is cooling and nobody is at work.
LEMMA InitCInv == Init => CInv
<1> SUFFICES ASSUME Init PROVE CInv
  OBVIOUS
<1>1. \A j \in Jobs : job[j].pc = "idle" /\ job[j].now = None /\ job[j].warm = {}
                     /\ job[j].ins = {} /\ \A a \in Alerts : job[j].seen[a] = None
  BY DEF Init, IdleJob, NoRows
<1>2. \A r \in Requests : req[r].pc = "idle"
  BY DEF Init, IdleReq
<1>3. \A a \in Rows : alerts[a].status = "active"
  BY DEF Init, Rows, Fresh
<1>4. \A a \in unborn : a \in Alerts
  BY DEF Init
<1>5. IdsUnknown
  BY <1>1, <1>2, <1>4 DEF IdsUnknown, Unknown, FiredBy
<1>6. CountedIdsAreFresh /\ CoolingHasTime /\ InTime /\ ArmedAreYoung /\ WarmAreDue
  BY <1>1, <1>2, <1>3
     DEF CountedIdsAreFresh, CoolingHasTime, InTime, ArmedAreYoung, WarmAreDue
<1> QED BY <1>5, <1>6, InitEInv DEF CInv

\* Where evaluations do not overlap, edits neither wake an alert nor change its
\* cooldown, and cooldowns outlast requests, a cooling alert is not made active
\* before its cooldown is over, however creations, arming, mutes, edits, deletes
\* and crashes interleave with the two halves of _reactivate_cooled.
THEOREM CoolingLasts ==
    ASSUME OneEvaluator, EditsNeverWake, PatientAlerts
    PROVE  Spec => CoolsUntilDue
<1>1. CInv /\ [Next]_vars =>
        [\A a \in Rows \cap Rows' :
            (alerts[a].status = "cooling" /\ alerts'[a].status = "active") =>
                \/ ~ is_cooling(alerts[a].last, alerts[a].cooldown, clock)
                \/ \E r \in Requests : req[r].pc = "loaded" /\ req[r].alert = a
          ]_vars
  <2> SUFFICES ASSUME CInv, Next, NEW a \in Rows \cap Rows',
                      alerts[a].status = "cooling", alerts'[a].status = "active"
               PROVE  ~ is_cooling(alerts[a].last, alerts[a].cooldown, clock)
    OBVIOUS
  <2>0. TypeOK /\ CountedIdsAreFresh
    BY DEF CInv, EInv
  <2>1. ~ (Tick \/ Prune)
    BY DEF Tick, Prune
  <2>2. ASSUME NEW j \in Jobs, Fetch(j) \/ JobStep(j) \/ Crash(j)
        PROVE  ~ is_cooling(alerts[a].last, alerts[a].cooldown, clock)
    <3>1. JobWrites(j, a)
      BY <2>0, <2>2, JobsWriteRows
    <3>2. job[j].pc = "reactivating" /\ a \in job[j].warm
      BY <3>1 DEF JobWrites
    <3> QED BY <3>2 DEF CInv, WarmAreDue
  <2>3. \A r \in Requests : ~ ReqNext(r)
    <3> SUFFICES ASSUME NEW r \in Requests, ReqNext(r) PROVE FALSE
      OBVIOUS
    <3>1. ReqWrites(r, a)
      BY <2>0, ReqsWriteRows
    <3> QED BY <3>1 DEF ReqWrites
  <2> QED BY <2>1, <2>2, <2>3 DEF Next
<1>2. CInv /\ [Next]_vars => CInv'
  BY StepCInv
<1> QED BY <1>1, <1>2, InitCInv, PTL DEF Spec, CoolsUntilDue
=============================================================================
