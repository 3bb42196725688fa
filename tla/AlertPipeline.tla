--------------------------- MODULE AlertPipeline ---------------------------
(***************************************************************************)
(* From a price sample to an alert event: the worker jobs that store       *)
(* samples and evaluate alerts (workers/tasks.py, services/market.py,      *)
(* services/cache.py, services/alerts.py) and the API requests that        *)
(* create, arm, patch, mute and delete alerts, interleaved at every await  *)
(* that lets another one in.                                               *)
(*                                                                         *)
(* One coin is modelled: alerts of different coins meet only in that they  *)
(* share the transaction of one evaluation, which the alerts of one coin   *)
(* do too.  Redis is price:{coin} (latest) and hist:{coin} (history).      *)
(* Postgres is alerts and events; what a job has flushed but not committed *)
(* is in the job's own record (ins) until it commits.                      *)
(***************************************************************************)
EXTENDS AlertEngine, FiniteSets

CONSTANTS
    Alerts,           \* alert ids; an id is used by one alert only, ever
    PollJobs,         \* jobs that store samples and then evaluate
    Manual,           \* those started by hand, at any time: the commands poll
                      \* and evaluate of workers/oneshot.py in a row, or evaluate
    SyncJobs,         \* jobs that only store samples (sync_coin_list)
    Requests,         \* API requests and telegram callbacks in flight at once
    Prices,           \* prices upstream may report
    FirstPrices,      \* the price redis may hold at the start; None: redis is cold
    NewAlerts,        \* the specs an alert may be created with
    Existing,         \* alerts that exist at the start, still unfired: id -> spec
    Patches,          \* the bodies PATCH /alerts/{id} may carry
    MaxActiveAlerts,  \* settings.max_active_alerts
    Retention,        \* HISTORY_RETENTION
    EventRetention,   \* the 180 days after which prune_old_data deletes events
    Epoch,            \* the time at the start
    MaxTime,          \* BOUND: the last time of a behaviour
    Interval,         \* poll_interval_seconds: cron starts polls at its multiples
    SyncInterval,     \* a day: how often cron starts sync_coin_list ...
    SyncAt,           \* ... and when, one time of them all
    Slack,            \* BOUND: clock ticks a job or a request may span
    MaxPatches, MaxDeletes, MaxCrashes    \* BOUNDS on each kind of event

Jobs     == PollJobs \cup SyncJobs
Times    == Epoch .. MaxTime
Statuses == {"active", "paused", "cooling", "expired"}

NewAlert == [kind : Kinds, threshold : Int, window : Int \cup {None},
             cooldown : Int, one_shot : BOOLEAN]
AlertRow == [kind : Kinds, threshold : Int, window : Int \cup {None},
             cooldown : Int, one_shot : BOOLEAN,
             status : Statuses, last : Times \cup {None}]
Patch    == [threshold : Int \cup {None}, cooldown : Int \cup {None},
             one_shot : BOOLEAN \cup {None}, status : Statuses \cup {None}]
Sample   == [price : Prices, at : Times]
Event    == [alert : Alerts, bucket : Int, sampled_at : Times,
             price : Prices, triggered_at : Times]

ASSUME PipelineAssumption ==
    /\ None \notin Alerts /\ None \notin Sample /\ None \notin AlertRow /\ None \notin Patch
    /\ None \notin Statuses
    /\ Prices \subseteq Int /\ FirstPrices \subseteq Prices \cup {None}
    /\ NewAlerts \subseteq NewAlert /\ Patches \subseteq Patch
    /\ DOMAIN Existing \subseteq Alerts
    /\ Existing \in [DOMAIN Existing -> NewAlert]
    /\ Epoch \in Nat /\ MaxTime \in Nat /\ Epoch <= MaxTime
    /\ PollJobs \cap SyncJobs = {} /\ Manual \subseteq PollJobs
    /\ Interval \in Nat \ {0} /\ SyncInterval \in Nat \ {0}
    /\ {MaxActiveAlerts, Retention, EventRetention, SyncAt, Slack, MaxPatches,
        MaxDeletes, MaxCrashes} \subseteq Nat
    /\ EventRetention >= Slack

VARIABLES
    clock,      \* datetime.now(UTC)
    latest,     \* redis price:{coin}, a Sample or None
    history,    \* redis hist:{coin}, a set of Samples scored by their time
    alerts,     \* table alerts: the row of each id, None when there is none
    unborn,     \* ids no alert has used yet
    events,     \* table alert_events, committed rows
    job,        \* what each worker job holds in memory
    ran,        \* the slot in which cron last started each job
    req,        \* what each API request holds in memory
    spent       \* how much of each bound is used up

vars == <<clock, latest, history, alerts, unborn, events, job, ran, req, spent>>

Rows    == {a \in Alerts : alerts[a] # None}
ActiveAlerts == {a \in Rows : alerts[a].status = "active"}
NoRows  == [a \in Alerts |-> None]
IdleJob == [pc |-> "idle", started |-> None, sample |-> None, now |-> None,
            seen |-> NoRows, latest |-> None, previous |-> None,
            todo |-> {}, ins |-> {}, warm |-> {}]
IdleReq == [pc |-> "idle", started |-> None, alert |-> None, row |-> None,
            sample |-> None, patch |-> None]

Fresh(spec) == [kind |-> spec.kind, threshold |-> spec.threshold,
                window |-> spec.window, cooldown |-> spec.cooldown,
                one_shot |-> spec.one_shot, status |-> "active", last |-> None]
-----------------------------------------------------------------------------
(* Reading redis: services/cache.py                                        *)

Newest(samples) == CHOOSE s \in samples : \A t \in samples : t.at <= s.at

previous_price(h) ==
    LET older == h \ {Newest(h)}
    IN  IF h = {} \/ older = {} THEN None ELSE Newest(older).price

price_at_or_before(h, moment) ==
    LET earlier == {s \in h : s.at <= moment}
    IN  IF earlier = {} THEN None ELSE Newest(earlier).price

\* services/alerts.py
window_base(alert, h, sampled_at) ==
    IF alert.kind \notin PctKinds \/ alert.window = None THEN None
    ELSE price_at_or_before(h, sampled_at - alert.window)
-----------------------------------------------------------------------------
(* The outbox row and its unique index (alert_id, dedupe_bucket)           *)

event(a, alert, sample, now) ==
    [alert |-> a, bucket |-> dedupe_bucket(sample.at, alert.cooldown),
     sampled_at |-> sample.at, price |-> sample.price, triggered_at |-> now]

SameKey(e, f) == e.alert = f.alert /\ e.bucket = f.bucket

\* mutant: the unique index is gone
Taken_never(e) == FALSE

\* A committed row holds the key: ON CONFLICT DO NOTHING returns no id.
Taken(e) == \E f \in events : SameKey(e, f)

\* Another transaction has inserted the key and not committed: postgres makes
\* the second insert wait for it.
HeldBy(k, e) == \E f \in job[k].ins : SameKey(e, f)
Held(e)      == \E k \in PollJobs : HeldBy(k, e)

\* mutant: a one-shot alert cools down like any other
Parked_cooling(row, one_shot, now) == [row EXCEPT !.last = now, !.status = "cooling"]

\* What _record_event writes on the alert; one_shot is the session's copy.
Parked(row, one_shot, now) ==
    [row EXCEPT !.last = now, !.status = IF one_shot THEN "paused" ELSE "cooling"]
-----------------------------------------------------------------------------
(* Worker jobs.  Tick is held back while a job or request is Slack old: arq *)
(* cancels a poll after 120 s, and requests take seconds, while a tick is a *)
(* good part of the 5 minute interval between polls.                       *)

Busy(j)  == job[j].pc # "idle"
Step(j, from, changes) ==
    /\ job[j].pc = from
    /\ job' = [job EXCEPT ![j] = changes]
Done(j, from) == Step(j, from, IdleJob)

Overdue(activity) == activity.pc # "idle" /\ clock >= activity.started + Slack

Tick ==
    /\ clock < MaxTime
    /\ \A j \in Jobs : ~ Overdue(job[j])
    /\ \A r \in Requests : ~ Overdue(req[r])
    /\ clock' = clock + 1
    /\ UNCHANGED <<latest, history, alerts, unborn, events, job, req, spent, ran>>

\* No two responses of upstream carry the same sampled_at.
Stamped(at) ==
    \/ \E s \in history : s.at = at
    \/ latest # None /\ latest.at = at
    \/ \E j \in Jobs : job[j].sample # None /\ job[j].sample.at = at

\* WorkerSettings.cron_jobs, _poll_minutes: arq starts a cron job once per slot,
\* the sync at 00:05:00 and the polls five seconds into every fifth minute.
CronSlot(j) ==
    \/ j \in Manual
    \/ /\ IF j \in SyncJobs THEN (clock - SyncAt) % SyncInterval = 0
                            ELSE (clock - Epoch) % Interval = 0
       /\ ran[j] # clock

\* The upstream call returned rows and they are committed to postgres; the coin
\* is among them or was left out (then the job goes on without a sample, which
\* is also what the one-shot command "evaluate" does).  BOUND: at MaxTime cron
\* goes on for ever, with no new sample.
Fetch(j) ==
    /\ \/ \E p \in Prices :
            /\ CronSlot(j) /\ ~ Stamped(clock)
            /\ Step(j, "idle", [IdleJob EXCEPT !.pc = "fetched", !.started = clock,
                                    !.sample = [price |-> p, at |-> clock]])
       \/ /\ j \in PollJobs /\ (CronSlot(j) \/ clock = MaxTime)
          /\ Step(j, "idle", [IdleJob EXCEPT !.pc = "stored", !.started = clock])
    /\ ran' = [ran EXCEPT ![j] = clock]
    /\ UNCHANGED <<clock, latest, history, alerts, unborn, events, req, spent>>

\* store_samples, first command of the pipeline: SET price:{coin}
StoreLatest(j) ==
    /\ Step(j, "fetched", [job[j] EXCEPT !.pc = "half_stored"])
    /\ latest' = job[j].sample
    /\ UNCHANGED <<clock, history, alerts, unborn, events, req, spent, ran>>

\* store_samples, the rest: ZADD hist:{coin} and ZREMRANGEBYSCORE.  The pipeline
\* is not a transaction, so other clients may run between the two.
StoreHistory(j) ==
    /\ Step(j, "half_stored",
            IF j \in PollJobs THEN [job[j] EXCEPT !.pc = "stored"] ELSE IdleJob)
    /\ history' = {s \in history \cup {job[j].sample} : s.at > clock - Retention}
    /\ UNCHANGED <<clock, latest, alerts, unborn, events, req, spent, ran>>

\* evaluate_active_alerts: take the time, read the active alerts.  With none
\* there is an early return, before _reactivate_cooled.
EvalSelect(j) ==
    /\ IF ActiveAlerts = {} THEN Done(j, "stored")
       ELSE Step(j, "stored",
                 [job[j] EXCEPT !.pc = "selected", !.now = clock, !.todo = ActiveAlerts,
                                !.seen = [a \in Alerts |-> IF a \in ActiveAlerts
                                            THEN alerts[a] ELSE None]])
    /\ UNCHANGED <<clock, latest, history, alerts, unborn, events, req, spent, ran>>

EvalReadLatest(j) ==
    /\ Step(j, "selected", [job[j] EXCEPT !.pc = "priced", !.latest = latest])
    /\ UNCHANGED <<clock, latest, history, alerts, unborn, events, req, spent, ran>>

EvalReadPrevious(j) ==
    /\ Step(j, "priced", [job[j] EXCEPT !.pc = "deciding",
                                        !.previous = previous_price(history)])
    /\ UNCHANGED <<clock, latest, history, alerts, unborn, events, req, spent, ran>>

\* The loop body up to _record_event, on the session's copy of the alert.
Wants(j, a) ==
    LET my == job[j]
        row == my.seen[a]
    IN  /\ my.latest # None
        /\ ~ is_cooling(row.last, row.cooldown, my.now)
        /\ should_fire(row.kind, row.threshold, my.previous, my.latest.price,
                       window_base(row, history, my.latest.at))

NewEvent(j, a) == event(a, job[j].seen[a], job[j].latest, job[j].now)

\* One alert of the loop.  Inserting for an alert deleted meanwhile breaks the
\* foreign key; the error leaves the loop and rolls the whole evaluation back.
EvalDecide(j, a) ==
    LET left == job[j].todo \ {a}
        new  == NewEvent(j, a)
    IN  /\ job[j].pc = "deciding" /\ a \in job[j].todo
        /\ \/ /\ ~ Wants(j, a)
              /\ Step(j, "deciding", [job[j] EXCEPT !.todo = left])
           \/ /\ Wants(j, a) /\ Taken(new)
              /\ Step(j, "deciding", [job[j] EXCEPT !.todo = left])
           \/ /\ Wants(j, a) /\ ~ Taken(new) /\ ~ Held(new) /\ a \in Rows
              /\ Step(j, "deciding", [job[j] EXCEPT !.todo = left, !.ins = @ \cup {new}])
           \/ /\ Wants(j, a) /\ ~ Taken(new) /\ ~ Held(new) /\ a \notin Rows
              /\ Done(j, "deciding")
        /\ UNCHANGED <<clock, latest, history, alerts, unborn, events, req, spent, ran>>

\* mutant: nobody breaks the wait
EvalDeadlockVictim_never(j) == FALSE /\ UNCHANGED vars

\* Two evaluations wait for each other's inserts: postgres aborts one of them.
EvalDeadlockVictim(j) ==
    /\ \E k \in PollJobs \ {j} :
        /\ job[j].pc = "deciding" /\ job[k].pc = "deciding"
        /\ \E a \in job[j].todo : Wants(j, a) /\ HeldBy(k, NewEvent(j, a))
        /\ \E a \in job[k].todo : Wants(k, a) /\ HeldBy(j, NewEvent(k, a))
    /\ Done(j, "deciding")
    /\ UNCHANGED <<clock, latest, history, alerts, unborn, events, req, spent, ran>>

\* The alerts this session has loaded
Loaded(j) == {a \in Alerts : job[j].seen[a] # None}

\* mutant: every alert of the loop is parked
FiredBy_selected(j) == Loaded(j)

FiredBy(j) == {e.alert : e \in job[j].ins}

\* The one commit of the loop: the events, and the parking of their alerts.
EvalCommit(j) ==
    /\ job[j].todo = {}
    /\ Step(j, "deciding", [job[j] EXCEPT !.pc = "committed", !.ins = {}])
    /\ events' = events \cup job[j].ins
    /\ alerts' = [a \in Alerts |->
                    IF a \in FiredBy(j) \cap Rows
                    THEN Parked(alerts[a], job[j].seen[a].one_shot, job[j].now)
                    ELSE alerts[a]]
    /\ UNCHANGED <<clock, latest, history, unborn, req, spent, ran>>

\* mutant: alerts wake up whether their cooldown is over or not
DueToWake_any(j, a) == a \notin Loaded(j) /\ alerts[a].status = "cooling"
\* mutant: cooled alerts are never woken
DueToWake_none(j, a) == FALSE

\* _reactivate_cooled looks at the rows that are cooling.  Those this session
\* has already loaded keep the attributes it knows (expire_on_commit is off):
\* either it has just parked them, or assigning "active" changes nothing.
DueToWake(j, a) ==
    /\ a \notin Loaded(j)
    /\ alerts[a].status = "cooling"
    /\ ~ is_cooling(alerts[a].last, alerts[a].cooldown, job[j].now)

ReactSelect(j) ==
    LET due == {a \in Rows : DueToWake(j, a)}
    IN  /\ job[j].pc = "committed"
        /\ IF due = {} THEN Done(j, "committed")
           ELSE Step(j, "committed", [job[j] EXCEPT !.pc = "reactivating", !.warm = due])
        /\ UNCHANGED <<clock, latest, history, alerts, unborn, events, req, spent, ran>>

\* The commit writes status alone; a row deleted meanwhile fails it as a whole.
ReactCommit(j) ==
    /\ Done(j, "reactivating")
    /\ alerts' = IF job[j].warm \subseteq Rows
                 THEN [a \in Alerts |->
                         IF a \in job[j].warm THEN [alerts[a] EXCEPT !.status = "active"]
                         ELSE alerts[a]]
                 ELSE alerts
    /\ UNCHANGED <<clock, latest, history, unborn, events, req, spent, ran>>

\* The worker dies, or arq cancels the job at its timeout: the session is rolled
\* back, redis keeps what was written, nothing is tried again (max_tries=1).
Crash(j) ==
    /\ Busy(j) /\ spent.crashes < MaxCrashes
    /\ job' = [job EXCEPT ![j] = IdleJob]
    /\ spent' = [spent EXCEPT !.crashes = @ + 1]
    /\ UNCHANGED <<clock, latest, history, alerts, unborn, events, req, ran>>

\* prune_old_data: events that are delivered or given up go when they are old,
\* while their alerts keep last_triggered_at.  Delivery is the business of
\* Outbox: any old event may be one of these.
Prune ==
    /\ \E old \in SUBSET {e \in events : e.triggered_at < clock - EventRetention} :
            old # {} /\ events' = events \ old
    /\ UNCHANGED <<clock, latest, history, alerts, unborn, job, req, spent, ran>>

JobStep(j) ==
    \/ StoreLatest(j) \/ StoreHistory(j)
    \/ EvalSelect(j) \/ EvalReadLatest(j) \/ EvalReadPrevious(j)
    \/ \E a \in Alerts : EvalDecide(j, a)
    \/ EvalDeadlockVictim(j) \/ EvalCommit(j)
    \/ ReactSelect(j) \/ ReactCommit(j)
-----------------------------------------------------------------------------
(* API requests and telegram callbacks.                                    *)

ReqStep(r, from, changes) ==
    /\ req[r].pc = from
    /\ req' = [req EXCEPT ![r] = changes]
ReqDone(r, from) == ReqStep(r, from, IdleReq)

\* mutant: the id may be handed out again
CreateCount_reuse(r, a, spec) ==
    /\ a \in unborn
    /\ Cardinality(ActiveAlerts) < MaxActiveAlerts
    /\ ReqStep(r, "idle", [IdleReq EXCEPT !.pc = "counted", !.started = clock,
                                          !.alert = a, !.row = Fresh(spec)])
    /\ UNCHANGED <<clock, latest, history, alerts, unborn, events, job, spent, ran>>

\* create_alert, up to the count of active alerts
CreateCount(r, a, spec) ==
    /\ a \in unborn
    /\ Cardinality(ActiveAlerts) < MaxActiveAlerts
    /\ ReqStep(r, "idle", [IdleReq EXCEPT !.pc = "counted", !.started = clock,
                                          !.alert = a, !.row = Fresh(spec)])
    /\ unborn' = unborn \ {a}
    /\ UNCHANGED <<clock, latest, history, alerts, events, job, spent, ran>>

\* create_alert, its commit
CreateInsert(r) ==
    LET a == req[r].alert
    IN  /\ ReqStep(r, "counted", [req[r] EXCEPT !.pc = "arming"])
        /\ alerts' = [alerts EXCEPT ![a] = req[r].row]
        /\ UNCHANGED <<clock, latest, history, unborn, events, job, spent, ran>>

\* mutant: a new alert is not armed
ArmHolds_never(row) == FALSE

\* The condition is already true of the latest sample.
ArmHolds(row) ==
    /\ latest # None
    /\ holds_now(row.kind, row.threshold, latest.price,
                 window_base(row, history, latest.at))

\* arm_alert, up to holds_now.  Its two reads of redis are one step: a sample
\* stored between them is newer than the window that the second read is about.
ArmRead(r) ==
    /\ req[r].pc = "arming"
    /\ IF ArmHolds(req[r].row)
       THEN ReqStep(r, "arming", [req[r] EXCEPT !.pc = "holding", !.sample = latest])
       ELSE ReqDone(r, "arming")
    /\ UNCHANGED <<clock, latest, history, alerts, unborn, events, job, spent, ran>>

\* arm_alert, _record_event and its commit.  A taken key means that the
\* evaluator got there first; a deleted alert fails the request.
ArmRecord(r) ==
    LET a   == req[r].alert
        new == event(a, req[r].row, req[r].sample, clock)
    IN  /\ ReqDone(r, "holding")
        /\ ~ Held(new)
        /\ IF Taken(new) \/ a \notin Rows
           THEN UNCHANGED <<alerts, events>>
           ELSE /\ events' = events \cup {new}
                /\ alerts' = [alerts EXCEPT ![a] = Parked(@, req[r].row.one_shot, clock)]
        /\ UNCHANGED <<clock, latest, history, unborn, job, spent, ran>>

\* update_alert and the mute callback load the row ...
PatchLoad(r, a, patch) ==
    /\ a \in Rows /\ spent.patches < MaxPatches
    /\ ReqStep(r, "idle", [IdleReq EXCEPT !.pc = "loaded", !.started = clock,
                               !.alert = a, !.row = alerts[a], !.patch = patch])
    /\ spent' = [spent EXCEPT !.patches = @ + 1]
    /\ UNCHANGED <<clock, latest, history, alerts, unborn, events, job, ran>>

Given(new, old) == IF new = None THEN old ELSE new

\* The loaded copy after the assignments of update_alert
Patched(row, patch) ==
    [row EXCEPT !.threshold = Given(patch.threshold, @),
                !.cooldown = Given(patch.cooldown, @),
                !.one_shot = Given(patch.one_shot, @),
                !.last = IF patch.status = "active" THEN None ELSE @,
                !.status = Given(patch.status, @)]

\* mutant: the loaded row is written back whole
Merge_whole(current, loaded, assigned) == assigned

\* The UPDATE names only the columns whose value the session saw change.
Merge(current, loaded, assigned) ==
    [current EXCEPT
        !.threshold = IF assigned.threshold # loaded.threshold THEN assigned.threshold ELSE @,
        !.cooldown = IF assigned.cooldown # loaded.cooldown THEN assigned.cooldown ELSE @,
        !.one_shot = IF assigned.one_shot # loaded.one_shot THEN assigned.one_shot ELSE @,
        !.last = IF assigned.last # loaded.last THEN assigned.last ELSE @,
        !.status = IF assigned.status # loaded.status THEN assigned.status ELSE @]

\* ... and commit what changed, over whatever was committed meanwhile.
PatchCommit(r) ==
    LET a == req[r].alert
    IN  /\ ReqDone(r, "loaded")
        /\ alerts' = IF a \in Rows
                     THEN [alerts EXCEPT ![a] =
                             Merge(@, req[r].row, Patched(req[r].row, req[r].patch))]
                     ELSE alerts
        /\ UNCHANGED <<clock, latest, history, unborn, events, job, spent, ran>>

\* mutant: the delete does not wait for an uncommitted event
Delete_unlocked(r, a) ==
    /\ req[r].pc = "idle"
    /\ a \in Rows /\ spent.deletes < MaxDeletes
    /\ alerts' = [alerts EXCEPT ![a] = None]
    /\ events' = {e \in events : e.alert # a}
    /\ spent' = [spent EXCEPT !.deletes = @ + 1]
    /\ UNCHANGED <<clock, latest, history, unborn, job, req, ran>>

\* delete_alert; the events go with the row (ON DELETE CASCADE).  An
\* uncommitted event keeps a share lock on its alert, so the delete waits.
Delete(r, a) ==
    /\ req[r].pc = "idle"
    /\ a \in Rows /\ spent.deletes < MaxDeletes
    /\ \A j \in PollJobs : a \notin FiredBy(j)
    /\ alerts' = [alerts EXCEPT ![a] = None]
    /\ events' = {e \in events : e.alert # a}
    /\ spent' = [spent EXCEPT !.deletes = @ + 1]
    /\ UNCHANGED <<clock, latest, history, unborn, job, req, ran>>

\* The API process dies with the request: an alert may exist and not be armed.
ReqCrash(r) ==
    /\ req[r].pc # "idle" /\ spent.crashes < MaxCrashes
    /\ req' = [req EXCEPT ![r] = IdleReq]
    /\ spent' = [spent EXCEPT !.crashes = @ + 1]
    /\ UNCHANGED <<clock, latest, history, alerts, unborn, events, job, ran>>

ReqFinish(r) == CreateInsert(r) \/ ArmRead(r) \/ ArmRecord(r) \/ PatchCommit(r)

ReqNext(r) ==
    \/ \E a \in Alerts, spec \in NewAlerts : CreateCount(r, a, spec)
    \/ \E a \in Alerts, patch \in Patches : PatchLoad(r, a, patch)
    \/ \E a \in Alerts : Delete(r, a)
    \/ ReqFinish(r) \/ ReqCrash(r)
-----------------------------------------------------------------------------
Init ==
    /\ clock = Epoch
    /\ latest \in {IF p = None THEN None ELSE [price |-> p, at |-> Epoch] : p \in FirstPrices}
    /\ history = {latest} \ {None}
    /\ alerts = [a \in Alerts |-> IF a \in DOMAIN Existing THEN Fresh(Existing[a]) ELSE None]
    /\ unborn = Alerts \ DOMAIN Existing
    /\ events = {}
    /\ job = [j \in Jobs |-> IdleJob]
    /\ ran = [j \in Jobs |-> None]
    /\ req = [r \in Requests |-> IdleReq]
    /\ spent = [patches |-> 0, deletes |-> 0, crashes |-> 0]

Next ==
    \/ Tick \/ Prune
    \/ \E j \in Jobs : Fetch(j) \/ JobStep(j) \/ Crash(j)
    \/ \E r \in Requests : ReqNext(r)

Spec == Init /\ [][Next]_vars

\* cron starts a poll every interval and upstream answers it, with or without the
\* coin; a job that has begun goes on, requests are answered, time passes.
\* Nothing is assumed of users, prices or crashes.
Fairness ==
    /\ WF_vars(Tick)
    /\ \A j \in PollJobs : WF_vars(Fetch(j)) /\ WF_vars(JobStep(j))
    /\ \A j \in SyncJobs : WF_vars(JobStep(j))
    /\ \A r \in Requests : WF_vars(ReqFinish(r))

FairSpec == Spec /\ Fairness
-----------------------------------------------------------------------------
Table == [Alerts -> AlertRow \cup {None}]

JobState == [pc : {"idle", "fetched", "half_stored", "stored", "selected", "priced",
                   "deciding", "committed", "reactivating"},
             started : Times \cup {None}, now : Times \cup {None},
             sample : Sample \cup {None}, latest : Sample \cup {None},
             previous : Prices \cup {None}, seen : Table,
             todo : SUBSET Alerts, ins : SUBSET Event, warm : SUBSET Alerts]

JobOK(b) ==
    /\ b.pc = "idle" => b = IdleJob
    /\ b.pc \in {"fetched", "half_stored"} => b.sample # None
    /\ b.pc \in {"selected", "priced", "deciding", "committed", "reactivating"}
            => b.now # None
    /\ \A a \in b.todo : b.seen[a] # None

ReqState == [pc : {"idle", "counted", "arming", "holding", "loaded"},
             started : Times \cup {None}, alert : Alerts \cup {None},
             row : AlertRow \cup {None}, sample : Sample \cup {None},
             patch : Patches \cup {None}]

ReqOK(q) ==
    /\ q.pc # "idle" => q.alert # None /\ q.row # None
    /\ q.pc = "holding" => q.sample # None
    /\ q.pc = "loaded" => q.patch # None

TypeOK ==
    /\ clock \in Times
    /\ latest \in Sample \cup {None} /\ history \in SUBSET Sample
    /\ alerts \in Table
    /\ unborn \in SUBSET Alerts /\ unborn \cap Rows = {}
    /\ \A r \in Requests : req[r].alert \notin unborn
    /\ events \in SUBSET Event
    /\ job \in [Jobs -> JobState] /\ \A j \in Jobs : JobOK(job[j])
    /\ ran \in [Jobs -> Times \cup {None}]
    /\ req \in [Requests -> ReqState] /\ \A r \in Requests : ReqOK(req[r])
    /\ spent \in [patches : 0 .. MaxPatches, deletes : 0 .. MaxDeletes,
                  crashes : 0 .. MaxCrashes]
-----------------------------------------------------------------------------
(* What an alert event says                                                *)

Triggered(a) == {e \in events : e.alert = a}

\* One sample speaks once for an alert, however many evaluators, one-shot
\* commands, arming requests and restarts look at it, and however often upstream
\* leaves the coin out so that the same pair of samples is compared again
\* (dedupe_bucket, uq_alert_events_dedupe).
SampleFiresOnce ==
    \A e, f \in events : (e.alert = f.alert /\ e.sampled_at = f.sampled_at) => e = f

\* An alert is never parked for an event that did not happen: the time it last
\* triggered is the time of an event of its own, whatever was rolled back,
\* patched or overwritten in between (one transaction for both, D6), unless that
\* is so long ago that the event may have been pruned.
ParkedHasEvent ==
    \A a \in Rows : alerts[a].last # None =>
        \/ \E e \in Triggered(a) : e.triggered_at = alerts[a].last
        \/ alerts[a].last < clock - EventRetention

\* No event outlives its alert (foreign key and cascade), committed or not.
EventsHaveAlerts ==
    /\ \A e \in events : e.alert \in Rows
    /\ \A j \in PollJobs : \A e \in job[j].ins : e.alert \in Rows
-----------------------------------------------------------------------------
(* What may change the status of an alert; when it speaks is in AlertTimings *)

\* Cooling ends only when the cooldown is over, or at the user's word.
CoolsUntilDue ==
    [][\A a \in Rows \cap Rows' :
        (alerts[a].status = "cooling" /\ alerts'[a].status = "active") =>
            \/ ~ is_cooling(alerts[a].last, alerts[a].cooldown, clock)
            \/ \E r \in Requests : req[r].pc = "loaded" /\ req[r].alert = a
      ]_vars

\* A paused alert stays paused until a request that is about its status says
\* otherwise, or an evaluation that had found it active or cooling before the pause
\* writes down that it fired or that its cooldown is over (then the pause is lost:
\* "mute" in telegram races the evaluation it reacts to).  An edit of a threshold
\* or a cooldown never brings a paused alert back, whatever it overlaps.
PausedStaysPaused ==
    [][\A a \in Rows \cap Rows' :
        (alerts[a].status = "paused" /\ alerts'[a].status # "paused") =>
            \/ \E r \in Requests : /\ req[r].alert = a
                                  /\ \/ req[r].pc = "loaded" /\ req[r].patch.status # None
                                     \/ req[r].pc = "holding"
            \/ \E j \in PollJobs : \/ job[j].pc = "deciding" /\ a \in FiredBy(j)
                                   \/ job[j].pc = "reactivating" /\ a \in job[j].warm
      ]_vars

\* Every job ends, whatever the evaluations wait for: an insert waiting for the
\* other transaction's, a row deleted under way, a crash of the other one.
JobsEnd == \A j \in Jobs : Busy(j) ~> ~ Busy(j)

\* A cooling alert does not stay so: it becomes active again once its cooldown is
\* over (if that is before the end of time in the model), or the user edits it, or
\* it fires again.
EndsInTime(a) == /\ a \in Rows /\ alerts[a].status = "cooling" /\ alerts[a].last # None
                 /\ alerts[a].last + alerts[a].cooldown <= MaxTime

CoolingEnds == \A a \in Alerts : EndsInTime(a) ~> ~ EndsInTime(a)

\* That is so unless the code finds no active alert at all: whatever users edit,
\* mute and delete, and wherever a crash strikes, a cooling alert wakes or there
\* comes a time when no alert is active.
CoolingEndsBesideOthers ==
    \A a \in Alerts : EndsInTime(a) ~> (~ EndsInTime(a) \/ ActiveAlerts = {})
=============================================================================
