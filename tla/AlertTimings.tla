---------------------------- MODULE AlertTimings ----------------------------
(***************************************************************************)
(* When an alert of AlertPipeline speaks, and when it must not.  What is   *)
(* said of that takes exception to a few things that have happened, and    *)
(* history variables remember them; no action of AlertPipeline reads one.  *)
(***************************************************************************)
EXTENDS AlertPipeline

VARIABLES
    calm,     \* nothing has come between the two commands that store a sample
    edited,   \* alerts that an edit, other than a mute, was committed for
    missed    \* alerts that a sample was stored for and nobody looked at

timedVars == <<clock, latest, history, alerts, unborn, events, job, ran, req, spent,
               calm, edited, missed>>

\* A job died after SET price:{coin} and before ZADD hist:{coin}: the two keys
\* disagree until the next sample.
TornStore == \E j \in Jobs : job[j].pc = "half_stored" /\ Crash(j)

\* The daily sync stores its sample while a poll, or a request that arms an
\* alert, is reading redis; or two evaluations run at once.
Overlap ==
    \/ \E j, k \in Jobs : j # k /\ Busy(j) /\ Busy(k)
    \/ \E j \in SyncJobs, r \in Requests : Busy(j) /\ req[r].pc \in {"arming", "holding"}

\* The mute callback, and the PATCH that does the same
Mutes(patch) == /\ patch.threshold = None /\ patch.cooldown = None /\ patch.one_shot = None
                /\ patch.status \in {None, "paused"}

EditedNow == {a \in Alerts : \E r \in Requests :
                PatchCommit(r) /\ req[r].alert = a /\ ~ Mutes(req[r].patch)}

\* The daily sync stores a sample and evaluates nothing, a crash comes between
\* storing and evaluating, a request dies before it has armed its alert.
MissedNow == {a \in Rows :
    \/ \E j \in SyncJobs : StoreLatest(j)
    \/ \E j \in PollJobs : job[j].pc \in {"stored", "selected", "priced", "deciding"} /\ Crash(j)
    \/ \E r \in Requests : req[r].alert = a /\ ReqCrash(r)}

Remember ==
    /\ calm' = (calm /\ ~ TornStore /\ ~ Overlap')
    /\ edited' = edited \cup EditedNow
    /\ missed' = missed \cup MissedNow

TimedInit == Init /\ calm = TRUE /\ edited = {} /\ missed = {}
TimedNext == Next /\ Remember
TimedSpec == TimedInit /\ [][TimedNext]_timedVars

\* The alerts the properties speak of: those on a price, as they were created.
\* A percentage is taken of a base that moves, and an edit moves the zone, the
\* cooldown or the alert itself.
Plain == {a \in Rows : alerts[a].kind \in PriceKinds /\ a \notin edited}

InZone(row, price) == holds_now(row.kind, row.threshold, price, None)
-----------------------------------------------------------------------------
AtRest == (\A j \in Jobs : ~ Busy(j)) /\ (\A r \in Requests : req[r].pc = "idle")

\* Between evaluations no alert that never spoke sits on a price that meets its
\* condition: arming (D8a) covers the moment of creation and crossing (D8) every
\* later sample, with no gap between the two, whichever way a request and an
\* evaluation interleave.
NoSilentEntry ==
    calm /\ AtRest => \A a \in Plain \ missed :
        (alerts[a].status = "active" /\ alerts[a].last = None /\ latest # None)
            => ~ InZone(alerts[a], latest.price)

\* "Sitting in the target zone produces exactly one alert, on entry": between
\* the samples of two events of an alert the price was outside its zone.  (Of
\* the samples before that, redis may have dropped the one that says so.)
OncePerStay ==
    calm => \A e, f \in events :
        (/\ e.alert = f.alert /\ e.alert \in Plain
         /\ e.sampled_at < f.sampled_at /\ e.sampled_at >= clock - Retention) =>
            \E s \in history :
                /\ e.sampled_at < s.at /\ s.at < f.sampled_at
                /\ ~ InZone(alerts[e.alert], s.price)

\* An alert is silent for its cooldown after it spoke.
CooldownRespected ==
    calm => \A e, f \in events :
        (e.alert = f.alert /\ e.alert \in Plain /\ e # f /\ e.triggered_at <= f.triggered_at) =>
            f.triggered_at >= e.triggered_at + alerts[e.alert].cooldown

\* A one-shot alert stops itself after the first event (architecture: it
\* "pauses itself after the first trigger").
OneShotSpeaksOnce ==
    calm => \A e, f \in events :
        (e.alert = f.alert /\ e.alert \in Plain /\ alerts[e.alert].one_shot) => e = f

\* The unique index only ever swallows a repetition: when the evaluation of a new
\* sample finds its key taken, the event there is about the very same sample.
\* (A poll that upstream answers without the coin compares old samples once more;
\* the second of these may share the bucket of an earlier event.)
SwallowsOnlyRepeats ==
    calm => \A j \in PollJobs : (job[j].pc = "deciding" /\ job[j].sample # None) =>
        \A a \in job[j].todo \cap Plain : Wants(j, a) =>
            \A f \in events : SameKey(f, NewEvent(j, a)) =>
                f.sampled_at = job[j].latest.at
=============================================================================
