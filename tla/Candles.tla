------------------------------- MODULE Candles -------------------------------
(***************************************************************************)
(* Snapshots and candles of one coin and one interval (services/market.py,   *)
(* workers/tasks.py).  Polls and syncs store snapshots, a poll then turns    *)
(* the recent ones into candles, a backfill adds candles from upstream's     *)
(* history and prune_old_data removes both.  Jobs overlap, and the INSERT .. *)
(* SELECT .. ON CONFLICT of an aggregation reads before it writes: it waits  *)
(* for the row another one is writing, and goes on with what it has read.   *)
(***************************************************************************)
EXTENDS Integers

CONSTANTS
    None,
    Prices,        \* prices upstream may report
    Jobs,          \* worker jobs running at once
    Width,         \* ticks per bucket
    Lookback,      \* ticks an aggregation looks back: 3 hours, or 2 days
    KeepSnapshots, \* ticks a snapshot is kept
    KeepCandles,   \* ticks a candle is kept
    Slack,         \* BOUND: ticks a job may span, its sample included
    Histories,     \* BOUND: the candles upstream's history may make
    MaxTime,       \* BOUND: the last time of a behaviour
    MaxSamples     \* BOUND: snapshots stored in a behaviour

Times     == 0 .. MaxTime
Bucket(t) == t \div Width
Buckets   == {Bucket(t) : t \in Times}

Candle == [open : Prices, close : Prices, high : Prices, low : Prices, partial : BOOLEAN]
Sound(c) == /\ c.low <= c.open /\ c.open <= c.high
            /\ c.low <= c.close /\ c.close <= c.high

ASSUME CandlesAssumption ==
    /\ Prices \subseteq Int /\ None \notin Prices /\ None \notin Nat /\ None \notin Candle
    /\ Width \in Nat \ {0} /\ MaxTime \in Nat /\ MaxSamples \in Nat /\ Slack \in Nat
    /\ Lookback \in Nat /\ KeepSnapshots \in Nat /\ KeepCandles \in Nat
    /\ Lookback + Slack <= KeepSnapshots /\ Width + KeepSnapshots <= KeepCandles
    /\ \A c \in Histories : c \in Candle /\ Sound(c) /\ ~ c.partial

\* Prices are finitely many, or at least have extremes.
ASSUME ExtremesAssumption ==
    \A some \in SUBSET Prices : some # {} =>
        \E lo, hi \in some : \A p \in some : lo <= p /\ p <= hi

VARIABLES
    clock,
    snapshot,      \* table price_snapshots: the price stored for a time, or None
    candle,        \* table ohlc_candles, by bucket
    job,           \* what each job holds in memory
    seen,          \* ghost: times of the snapshots some aggregation has written
    latest,        \* ghost: the latest time an aggregation that has written read at
    backfilled,    \* coins.backfilled_at is set
    samples,       \* how many snapshots were stored, for the bound
    raced          \* ghost: buckets written last by an aggregation that another
                   \* one overtook

vars == <<clock, snapshot, candle, job, seen, latest, backfilled, samples, raced>>

IdleJob == [pc |-> "idle", since |-> None, window |-> {}, now |-> None, overtaken |-> FALSE]

Stored    == {t \in Times : snapshot[t] # None}
Highest(s) == CHOOSE p \in s : \A q \in s : q <= p
Lowest(s)  == CHOOSE p \in s : \A q \in s : p <= q

JobStep(j, from, changes) ==
    /\ job[j].pc = from
    /\ job' = [job EXCEPT ![j] = changes]
-----------------------------------------------------------------------------
\* arq cancels a job after some time, or a job ends.
Tick ==
    /\ clock < MaxTime
    /\ \A j \in Jobs : job[j].pc # "idle" => clock < job[j].since + Slack
    /\ clock' = clock + 1
    /\ UNCHANGED <<snapshot, candle, job, seen, latest, backfilled, samples, raced>>

\* _insert_snapshots, of a sample taken a while ago; the second row of a minute is
\* dropped.
Sampled(at, price) ==
    /\ samples < MaxSamples /\ samples' = samples + 1
    /\ at <= clock /\ clock <= at + Slack
    /\ snapshot' = [snapshot EXCEPT ![at] = IF @ = None THEN price ELSE @]

\* sync_coin_list stores snapshots and leaves the candles to the next poll.
SyncStores ==
    /\ \E at \in Times, price \in Prices : Sampled(at, price)
    /\ UNCHANGED <<clock, candle, job, seen, latest, backfilled, raced>>

PollStores(j) ==
    /\ \E at \in Times, price \in Prices :
        Sampled(at, price) /\ JobStep(j, "idle", [IdleJob EXCEPT !.pc = "stored", !.since = at])
    /\ UNCHANGED <<clock, candle, seen, latest, backfilled, raced>>

\* AGGREGATE_SQL, the rows of its SELECT.  The window does not start with a bucket.
ReadWindow(j) ==
    /\ JobStep(j, "stored", [job[j] EXCEPT !.pc = "read", !.now = clock,
                                !.window = {t \in Stored : t >= clock - Lookback}])
    /\ UNCHANGED <<clock, snapshot, candle, seen, latest, backfilled, samples, raced>>

\* GROUP BY bucket; the window is far younger than what is pruned.
Group(j, b)  == {t \in job[j].window : Bucket(t) = b}
Selected(j, b) ==
    LET prices == {snapshot[t] : t \in Group(j, b)}
    IN  [open |-> snapshot[Lowest(Group(j, b))], close |-> snapshot[Highest(Group(j, b))],
         high |-> Highest(prices), low |-> Lowest(prices), partial |-> b = Bucket(job[j].now)]

\* mutant: high is replaced like close
Upserted_high(old, new) ==
    IF old = None THEN new
    ELSE [new EXCEPT !.open = old.open, !.low = Lowest({old.low, new.low})]
\* mutant: close is left out of the update
Upserted_close(old, new) ==
    IF old = None THEN new
    ELSE [new EXCEPT !.open = old.open, !.close = old.close,
                     !.high = Highest({old.high, new.high}), !.low = Lowest({old.low, new.low})]

\* ON CONFLICT DO UPDATE
Upserted(old, new) ==
    IF old = None THEN new
    ELSE [new EXCEPT !.open = old.open, !.high = Highest({old.high, new.high}),
                     !.low = Lowest({old.low, new.low})]

\* ... its INSERT, and the commit.
WriteCandles(j) ==
    LET mine == {b \in Buckets : Group(j, b) # {}}
    IN  /\ job[j].pc = "read"
        /\ candle' = [b \in Buckets |-> IF b \in mine THEN Upserted(candle[b], Selected(j, b))
                                        ELSE candle[b]]
        /\ seen' = seen \cup job[j].window
        /\ latest' = IF latest < job[j].now THEN job[j].now ELSE latest
        /\ raced' = IF job[j].overtaken THEN raced \cup mine ELSE raced \ mine
        /\ job' = [i \in Jobs |-> CASE i = j -> IdleJob
                                    [] i # j /\ job[i].pc = "read" -> [job[i] EXCEPT !.overtaken = TRUE]
                                    [] OTHER -> job[i]]
        /\ UNCHANGED <<clock, snapshot, backfilled, samples>>

\* backfill_coin: the history of all buckets so far, whole or not, is added where
\* there is no candle (ON CONFLICT DO NOTHING).  BOUND: every bucket of it alike.
Backfill ==
    /\ ~ backfilled /\ backfilled' = TRUE
    /\ \E c \in Histories :
        candle' = [b \in Buckets |-> IF candle[b] = None /\ b <= Bucket(clock) THEN c
                                     ELSE candle[b]]
    /\ UNCHANGED <<clock, snapshot, job, seen, latest, samples, raced>>

\* prune_old_data; daily candles are kept for ever
Prune ==
    /\ snapshot' = [t \in Times |-> IF t < clock - KeepSnapshots THEN None ELSE snapshot[t]]
    /\ candle' = [b \in Buckets |-> IF b * Width < clock - KeepCandles THEN None ELSE candle[b]]
    /\ seen' = {t \in seen : t >= clock - KeepSnapshots}
    /\ UNCHANGED <<clock, job, latest, backfilled, samples, raced>>

\* The worker dies, or arq cancels the job.
JobDies(j) ==
    /\ job[j].pc # "idle"
    /\ job' = [job EXCEPT ![j] = IdleJob]
    /\ UNCHANGED <<clock, snapshot, candle, seen, latest, backfilled, samples, raced>>
-----------------------------------------------------------------------------
Init ==
    /\ clock = 0 /\ latest = 0
    /\ snapshot = [t \in Times |-> None]
    /\ candle = [b \in Buckets |-> None]
    /\ job = [j \in Jobs |-> IdleJob]
    /\ seen = {} /\ raced = {} /\ backfilled = FALSE /\ samples = 0

Next ==
    \/ Tick \/ SyncStores \/ Backfill \/ Prune
    \/ \E j \in Jobs : PollStores(j) \/ ReadWindow(j) \/ WriteCandles(j) \/ JobDies(j)

Spec == Init /\ [][Next]_vars
-----------------------------------------------------------------------------
JobState == [pc : {"idle", "stored", "read"}, since : Times \cup {None},
             window : SUBSET Times, now : Times \cup {None}, overtaken : BOOLEAN]

TypeOK ==
    /\ clock \in Times /\ latest \in Times
    /\ snapshot \in [Times -> Prices \cup {None}]
    /\ candle \in [Buckets -> Candle \cup {None}]
    /\ job \in [Jobs -> JobState]
    /\ seen \in SUBSET Times /\ raced \in SUBSET Buckets
    /\ backfilled \in BOOLEAN /\ samples \in 0 .. MaxSamples

\* A candle holds every snapshot that was ever aggregated into it, and its own open
\* and close: also when the window of a later aggregation covers the bucket in part,
\* when aggregations overlap, and when the history came from upstream.
CandleHoldsSamples ==
    /\ TypeOK
    /\ \A b \in Buckets : candle[b] # None => Sound(candle[b])
    /\ \A t \in seen : LET c == candle[Bucket(t)]
                       IN  c # None /\ c.low <= snapshot[t] /\ snapshot[t] <= c.high

\* The latest aggregation has the last word, except in a bucket where one that read
\* earlier wrote later: a candle closes at the newest snapshot aggregated, and is
\* "marked partial while its bucket is the current one", or until the poll has been
\* out for longer than the aggregation looks back.
LastWordStands ==
    \A b \in Buckets \ raced :
        LET times == {t \in seen : Bucket(t) = b}
        IN  times # {} =>
              /\ candle[b].close = snapshot[Highest(times)]
              /\ candle[b].partial =>
                    Bucket(latest) = b \/ \A t \in times : t < latest - Lookback
=============================================================================
