---------------------------- MODULE CandlesProofs ----------------------------
(***************************************************************************)
(* What Candles keeps for any number of jobs, any prices and any widths of *)
(* bucket, window and retention the assumption allows: a candle holds what *)
(* was aggregated into it, and the latest aggregation has the last word.   *)
(***************************************************************************)
EXTENDS Candles, TLAPS, WellFoundedInduction

\* What an aggregation that reads at n sees of a set of times
Recent(s, n) == {t \in s : t >= n - Lookback}

\* Nothing the candles hold is hidden from the window of j, but what is too old for it.
Covered(j) == Recent(seen, job[j].now) \subseteq job[j].window

\* A job ends within the slack of its sample.
InTime(j) ==
    job[j].pc # "idle" =>
        job[j].since \in Times /\ job[j].since <= clock /\ clock <= job[j].since + Slack

\* What an aggregation has read is stored still, and covers what is aggregated
\* already, unless one that read later has written first.
WindowSound(j) ==
    job[j].pc = "read" =>
        /\ job[j].now \in Times /\ job[j].since <= job[j].now /\ job[j].now <= clock
        /\ job[j].window \subseteq Stored
        /\ \A t \in job[j].window : t >= job[j].now - Lookback
        /\ latest < job[j].now => Covered(j)
        /\ ~ job[j].overtaken => latest <= job[j].now /\ Covered(j)

\* Of two aggregations the one that reads later covers the other, but what is too old.
LaterCovers ==
    \A i, j \in Jobs :
        job[i].pc = "read" /\ job[j].pc = "read" /\ job[i].now < job[j].now
            => Recent(job[i].window, job[j].now) \subseteq job[j].window

JobsSound == LaterCovers /\ \A j \in Jobs : InTime(j) /\ WindowSound(j)

IInv ==
    /\ CandleHoldsSamples /\ LastWordStands
    /\ seen \subseteq Stored /\ latest <= clock
    /\ JobsSound
-----------------------------------------------------------------------------
\* A set of numbers that is not empty has a least one.
LEMMA LeastNat ==
    ASSUME NEW T \in SUBSET Nat, T # {}
    PROVE  \E least \in T : \A n \in T : least <= n
<1>1. PICK least \in T : \A n \in T : ~ (<<n, least>> \in OpToRel(<, Nat))
  BY WFMin, NatLessThanWellFounded
<1>2. \A n \in T : ~ (n < least)
  BY <1>1 DEF OpToRel
<1> QED BY <1>2

\* A set of prices, or of times, that is not empty has a highest and a lowest.
LEMMA PriceExtremes ==
    ASSUME NEW s \in SUBSET Prices, s # {}
    PROVE  /\ Highest(s) \in s /\ \A q \in s : q <= Highest(s)
           /\ Lowest(s) \in s /\ \A q \in s : Lowest(s) <= q
BY ExtremesAssumption DEF Highest, Lowest

LEMMA TimeExtremes ==
    ASSUME NEW s \in SUBSET Times, s # {}
    PROVE  /\ Highest(s) \in s /\ \A q \in s : q <= Highest(s)
           /\ Lowest(s) \in s /\ \A q \in s : Lowest(s) <= q
<1>0. MaxTime \in Nat /\ s \in SUBSET Nat /\ \A q \in s : q <= MaxTime
  BY CandlesAssumption DEF Times
<1>1. PICK lo \in s : \A q \in s : lo <= q
  BY <1>0, LeastNat
<1>2. PICK hi \in s : \A q \in s : q <= hi
  <2> DEFINE left == {n \in Nat : \E q \in s : n = MaxTime - q}
  <2>1. left # {}
    <3>1. PICK q \in s : TRUE
      OBVIOUS
    <3>2. MaxTime - q \in left
      BY <1>0
    <3> QED BY <3>2
  <2>2. PICK x \in left : \A y \in left : x <= y
    BY <2>1, LeastNat
  <2>3. PICK h \in s : x = MaxTime - h
    OBVIOUS
  <2>4. ASSUME NEW q \in s PROVE q <= h
    <3>1. MaxTime - q \in left
      BY <1>0
    <3>2. MaxTime - h <= MaxTime - q
      BY <3>1, <2>2, <2>3
    <3> QED BY <1>0, <3>2
  <2> QED BY <2>4
<1> QED BY <1>1, <1>2 DEF Highest, Lowest

\* There is one highest time.
LEMMA HighestIs ==
    ASSUME NEW s \in SUBSET Times, NEW m \in s, \A q \in s : q <= m
    PROVE  Highest(s) = m
<1>1. Highest(s) \in s /\ m <= Highest(s) /\ Highest(s) <= m
  BY TimeExtremes
<1>2. \A q \in s : q \in Nat
  BY DEF Times
<1> QED BY <1>1, <1>2

\* What a candle becomes holds the old and the new one and closes like the new one.
LEMMA UpsertedHolds ==
    ASSUME NEW old \in Candle \cup {None}, old # None => Sound(old),
           NEW new \in Candle, Sound(new)
    PROVE  /\ Upserted(old, new) \in Candle /\ Sound(Upserted(old, new))
           /\ Upserted(old, new).close = new.close
           /\ Upserted(old, new).partial = new.partial
           /\ Upserted(old, new).low <= new.low /\ new.high <= Upserted(old, new).high
           /\ old # None => /\ Upserted(old, new).low <= old.low
                            /\ old.high <= Upserted(old, new).high
<1>0. Prices \subseteq Int /\ None \notin Candle
  BY CandlesAssumption
<1>1. CASE old = None
  BY <1>0, <1>1 DEF Upserted, Candle
<1>2. CASE old # None
  <2>1. {old.high, new.high} \in SUBSET Prices /\ {old.low, new.low} \in SUBSET Prices
    BY <1>2 DEF Candle
  <2>2. PICK hi \in Prices : hi = Highest({old.high, new.high})
    BY <2>1, PriceExtremes
  <2>3. PICK lo \in Prices : lo = Lowest({old.low, new.low})
    BY <2>1, PriceExtremes
  <2>4. old.high <= hi /\ new.high <= hi /\ lo <= old.low /\ lo <= new.low
    BY <2>1, <2>2, <2>3, PriceExtremes
  <2>5. Upserted(old, new) = [new EXCEPT !.open = old.open, !.high = hi, !.low = lo]
    BY <1>2, <2>2, <2>3 DEF Upserted
  <2>6. /\ Upserted(old, new) \in Candle
        /\ Upserted(old, new).open = old.open /\ Upserted(old, new).close = new.close
        /\ Upserted(old, new).high = hi /\ Upserted(old, new).low = lo
        /\ Upserted(old, new).partial = new.partial
    BY <1>2, <2>5 DEF Candle
  <2>7. Sound(old) /\ old \in Candle
    BY <1>2
  <2>8. /\ old.open \in Int /\ old.low \in Int /\ old.high \in Int
        /\ new.open \in Int /\ new.close \in Int /\ new.low \in Int /\ new.high \in Int
        /\ lo \in Int /\ hi \in Int
    BY <1>0, <2>7 DEF Candle
  <2>9. Sound(Upserted(old, new))
    <3> SUFFICES /\ lo <= old.open /\ old.open <= hi
                 /\ lo <= new.close /\ new.close <= hi
      BY <2>6 DEF Sound
    <3> QED BY <2>4, <2>7, <2>8 DEF Sound
  <2> QED BY <2>4, <2>6, <2>9
<1> QED BY <1>1, <1>2

\* A row of the SELECT holds the samples of its bucket and closes at the newest.
LEMMA SelectedHolds ==
    ASSUME TypeOK, NEW j \in Jobs, NEW b, job[j].window \subseteq Stored, Group(j, b) # {}
    PROVE  /\ Selected(j, b) \in Candle /\ Sound(Selected(j, b))
           /\ \A t \in Group(j, b) : /\ Selected(j, b).low <= snapshot[t]
                                     /\ snapshot[t] <= Selected(j, b).high
           /\ Selected(j, b).close = snapshot[Highest(Group(j, b))]
           /\ Selected(j, b).partial = (b = Bucket(job[j].now))
<1> DEFINE prices == {snapshot[t] : t \in Group(j, b)}
<1>1. Group(j, b) \in SUBSET Times /\ \A t \in Group(j, b) : snapshot[t] \in Prices
  BY DEF TypeOK, Group, Stored
<1>2. prices \in SUBSET Prices /\ prices # {}
  BY <1>1
<1>3. PICK first \in Group(j, b) : first = Lowest(Group(j, b))
  BY <1>1, TimeExtremes
<1>4. PICK last \in Group(j, b) : last = Highest(Group(j, b))
  BY <1>1, TimeExtremes
<1>5. PICK hi \in prices : hi = Highest(prices) /\ \A q \in prices : q <= hi
  <2> HIDE DEF prices
  <2> QED BY <1>2, PriceExtremes
<1>6. PICK lo \in prices : lo = Lowest(prices) /\ \A q \in prices : lo <= q
  <2> HIDE DEF prices
  <2> QED BY <1>2, PriceExtremes
<1>7. Selected(j, b) = [open |-> snapshot[first], close |-> snapshot[last],
                        high |-> hi, low |-> lo, partial |-> b = Bucket(job[j].now)]
  BY <1>3, <1>4, <1>5, <1>6 DEF Selected
<1>8. \A t \in Group(j, b) : snapshot[t] \in prices
  OBVIOUS
<1> HIDE DEF prices
<1>9. Selected(j, b) \in Candle /\ Sound(Selected(j, b))
  BY <1>1, <1>2, <1>5, <1>6, <1>7, <1>8 DEF Candle, Sound
<1> QED BY <1>4, <1>5, <1>6, <1>7, <1>8, <1>9
-----------------------------------------------------------------------------
\* The types of the prices, times and jobs of a state.
LEMMA NumbersOK ==
    /\ Prices \subseteq Int /\ Times \subseteq Nat /\ Width \in Nat \ {0} /\ Slack \in Nat
    /\ Lookback \in Nat /\ KeepSnapshots \in Nat /\ KeepCandles \in Nat
    /\ Lookback + Slack <= KeepSnapshots /\ Width + KeepSnapshots <= KeepCandles
    /\ None \notin Prices /\ None \notin Candle /\ None \notin Nat
    /\ \A t \in Times : Bucket(t) \in Buckets
BY CandlesAssumption DEF Times, Buckets

\* A step that leaves the snapshots and the candles that are there, and aggregates
\* nothing, leaves what the candles say.
LEMMA ChartsStand ==
    ASSUME CandleHoldsSamples, LastWordStands, seen \subseteq Stored, TypeOK',
           UNCHANGED <<seen, latest, raced>>,
           \A t \in Stored : snapshot'[t] = snapshot[t],
           \A b \in Buckets : candle'[b] # candle[b] => candle[b] = None /\ Sound(candle'[b])
    PROVE  CandleHoldsSamples' /\ LastWordStands' /\ Stored \subseteq Stored' /\ seen' \subseteq Stored'
<1>1. Stored \subseteq Stored'
  BY DEF Stored
<1>2. \A t \in seen : /\ t \in Times /\ Bucket(t) \in Buckets /\ snapshot'[t] = snapshot[t]
                      /\ candle[Bucket(t)] # None /\ candle'[Bucket(t)] = candle[Bucket(t)]
  BY NumbersOK DEF CandleHoldsSamples, Stored
<1>3. CandleHoldsSamples'
  <2>1. ASSUME NEW b \in Buckets, candle'[b] # None PROVE Sound(candle'[b])
    BY <2>1 DEF CandleHoldsSamples
  <2>2. \A t \in seen' : /\ candle'[Bucket(t)] # None
                         /\ candle'[Bucket(t)].low <= snapshot'[t]
                         /\ snapshot'[t] <= candle'[Bucket(t)].high
    BY <1>2 DEF CandleHoldsSamples
  <2> QED BY <2>1, <2>2 DEF CandleHoldsSamples
<1>4. LastWordStands'
  <2> SUFFICES ASSUME NEW b \in Buckets \ raced, NEW times, times = {t \in seen : Bucket(t) = b},
                      times # {}
               PROVE  /\ candle'[b].close = snapshot'[Highest(times)]
                      /\ candle'[b].partial =>
                            Bucket(latest) = b \/ \A t \in times : t < latest - Lookback
    BY DEF LastWordStands
  <2>1. /\ candle[b].close = snapshot[Highest(times)]
        /\ candle[b].partial =>
              Bucket(latest) = b \/ \A t \in times : t < latest - Lookback
    BY DEF LastWordStands
  <2>2. Highest(times) \in times
    <3>1. times \in SUBSET Times
      BY <1>2
    <3> QED BY <3>1, TimeExtremes
  <2> QED BY <1>2, <2>1, <2>2
<1> QED BY <1>1, <1>3, <1>4

\* Nor does it disturb what the jobs have read.
LEMMA JobsStand ==
    ASSUME TypeOK, JobsSound, clock' \in Times, clock <= clock', job' = job, latest' = latest,
           seen' \subseteq seen,
           \A j \in Jobs : job[j].pc # "idle" => clock' <= job[j].since + Slack,
           \A j \in Jobs : job[j].pc = "read" => job[j].window \subseteq Stored'
    PROVE  JobsSound'
<1>0. clock \in Nat /\ clock' \in Nat
  BY NumbersOK DEF TypeOK
<1>1. LaterCovers'
  BY DEF JobsSound, LaterCovers, Recent
<1>2. ASSUME NEW j \in Jobs PROVE InTime(j)'
  <2> SUFFICES ASSUME job[j].pc # "idle"
               PROVE  /\ job[j].since \in Times /\ job[j].since <= clock'
                      /\ clock' <= job[j].since + Slack
    BY DEF InTime
  <2>1. job[j].since \in Nat /\ job[j].since \in Times /\ job[j].since <= clock
    BY NumbersOK DEF JobsSound, InTime
  <2> QED BY <1>0, <2>1
<1>3. ASSUME NEW j \in Jobs PROVE WindowSound(j)'
  <2>1. Covered(j) => Covered(j)'
    BY DEF Covered, Recent
  <2> SUFFICES ASSUME job[j].pc = "read" PROVE job[j].now <= clock'
    BY <2>1 DEF JobsSound, WindowSound
  <2>2. job[j].now \in Nat /\ job[j].now <= clock
    BY NumbersOK DEF JobsSound, WindowSound
  <2> QED BY <1>0, <2>2
<1> QED BY <1>1, <1>2, <1>3 DEF JobsSound

\* A job that starts or ends takes nothing from the others.
LEMMA JobStands ==
    ASSUME TypeOK, JobsSound, NEW j \in Jobs, NEW row, job' = [job EXCEPT ![j] = row],
           row.pc # "read", InTime(j)', UNCHANGED <<clock, seen, latest>>, Stored \subseteq Stored'
    PROVE  JobsSound'
<1>1. job'[j] = row /\ \A i \in Jobs \ {j} : job'[i] = job[i]
  BY DEF TypeOK
<1>2. LaterCovers'
  BY <1>1 DEF JobsSound, LaterCovers
<1>3. ASSUME NEW i \in Jobs PROVE InTime(i)' /\ WindowSound(i)'
  <2>1. CASE i = j
    BY <1>1, <2>1 DEF WindowSound
  <2>2. CASE i # j
    BY <1>1, <2>2 DEF JobsSound, InTime, WindowSound, Covered
  <2> QED BY <2>1, <2>2
<1> QED BY <1>2, <1>3 DEF JobsSound

LEMMA TickKeeps == ASSUME IInv, Tick PROVE IInv'
<1>0. TypeOK
  BY DEF IInv, CandleHoldsSamples
<1>1. clock \in Nat /\ clock' = clock + 1 /\ clock' \in Times /\ latest \in Nat
  BY <1>0, NumbersOK, CandlesAssumption DEF Tick, Times, TypeOK
<1>2. TypeOK'
  BY <1>0, <1>1 DEF Tick, TypeOK
<1>3. CandleHoldsSamples' /\ LastWordStands' /\ Stored' = Stored /\ seen' \subseteq Stored'
  BY <1>2, ChartsStand DEF IInv, Tick, Stored
<1>4. \A j \in Jobs : job[j].pc # "idle" => clock' <= job[j].since + Slack
  <2> SUFFICES ASSUME NEW j \in Jobs, job[j].pc # "idle" PROVE clock' <= job[j].since + Slack
    OBVIOUS
  <2>1. job[j].since \in Nat /\ clock < job[j].since + Slack
    BY NumbersOK DEF IInv, JobsSound, InTime, Tick
  <2> QED BY <1>1, <2>1, NumbersOK
<1>5. JobsSound'
  <2>1. \A j \in Jobs : job[j].pc = "read" => job[j].window \subseteq Stored'
    BY <1>3 DEF IInv, JobsSound, WindowSound
  <2> QED BY <1>0, <1>1, <1>4, <2>1, JobsStand DEF IInv, Tick
<1>6. latest' <= clock'
  BY <1>1 DEF IInv, Tick
<1> QED BY <1>3, <1>5, <1>6 DEF IInv

\* A new snapshot keeps the type and every snapshot there is.
LEMMA SampledKeeps ==
    ASSUME TypeOK, NEW at \in Times, NEW price \in Prices, Sampled(at, price)
    PROVE  /\ snapshot' \in [Times -> Prices \cup {None}] /\ samples' \in 0 .. MaxSamples
           /\ \A t \in Stored : snapshot'[t] = snapshot[t]
           /\ at <= clock /\ clock <= at + Slack
<1>1. samples' \in 0 .. MaxSamples
  BY CandlesAssumption DEF Sampled, TypeOK
<1>2. snapshot' = [snapshot EXCEPT ![at] = IF @ = None THEN price ELSE @]
  BY DEF Sampled
<1> QED BY <1>1, <1>2 DEF Sampled, TypeOK, Stored

LEMMA SyncKeeps == ASSUME IInv, SyncStores PROVE IInv'
<1>0. TypeOK
  BY DEF IInv, CandleHoldsSamples
<1>1. PICK at \in Times, price \in Prices : Sampled(at, price)
  BY DEF SyncStores
<1>2. TypeOK' /\ \A t \in Stored : snapshot'[t] = snapshot[t]
  BY <1>0, <1>1, SampledKeeps DEF SyncStores, TypeOK
<1>3. CandleHoldsSamples' /\ LastWordStands' /\ Stored \subseteq Stored' /\ seen' \subseteq Stored'
  BY <1>2, ChartsStand DEF IInv, SyncStores
<1>4. JobsSound'
  <2>1. \A j \in Jobs : job[j].pc = "read" => job[j].window \subseteq Stored'
    BY <1>3 DEF IInv, JobsSound, WindowSound
  <2>2. \A j \in Jobs : job[j].pc # "idle" => clock' <= job[j].since + Slack
    BY DEF IInv, JobsSound, InTime, SyncStores
  <2>3. clock' \in Times /\ clock <= clock'
    BY <1>0, NumbersOK DEF TypeOK, SyncStores
  <2> QED BY <1>0, <2>1, <2>2, <2>3, JobsStand DEF IInv, SyncStores
<1> QED BY <1>3, <1>4 DEF IInv, SyncStores

LEMMA PollKeeps == ASSUME IInv, NEW j \in Jobs, PollStores(j) PROVE IInv'
<1>0. TypeOK
  BY DEF IInv, CandleHoldsSamples
<1>1. PICK at \in Times, price \in Prices :
          Sampled(at, price) /\ JobStep(j, "idle", [IdleJob EXCEPT !.pc = "stored", !.since = at])
  BY DEF PollStores
<1>2. PICK row \in JobState : row = [IdleJob EXCEPT !.pc = "stored", !.since = at]
  BY DEF IdleJob, JobState
<1>3. row.pc = "stored" /\ row.since = at
  BY <1>2 DEF IdleJob
<1>4. job' = [job EXCEPT ![j] = row]
  BY <1>1, <1>2 DEF JobStep
<1>5. /\ TypeOK' /\ \A t \in Stored : snapshot'[t] = snapshot[t]
      /\ at <= clock /\ clock <= at + Slack
  BY <1>0, <1>1, <1>4, SampledKeeps DEF PollStores, TypeOK
<1>6. CandleHoldsSamples' /\ LastWordStands' /\ Stored \subseteq Stored' /\ seen' \subseteq Stored'
  BY <1>5, ChartsStand DEF IInv, PollStores
<1>7. JobsSound'
  <2>1. InTime(j)'
    BY <1>0, <1>3, <1>4, <1>5 DEF InTime, PollStores, TypeOK
  <2> QED BY <1>0, <1>3, <1>4, <1>6, <2>1, JobStands DEF IInv, PollStores
<1> QED BY <1>6, <1>7 DEF IInv, PollStores

LEMMA DiesKeeps == ASSUME IInv, NEW j \in Jobs, JobDies(j) PROVE IInv'
<1>0. TypeOK /\ IdleJob \in JobState /\ IdleJob.pc = "idle"
  BY DEF IInv, CandleHoldsSamples, IdleJob, JobState
<1>1. TypeOK'
  BY <1>0 DEF JobDies, TypeOK
<1>2. CandleHoldsSamples' /\ LastWordStands' /\ Stored \subseteq Stored' /\ seen' \subseteq Stored'
  BY <1>1, ChartsStand DEF IInv, JobDies
<1>3. JobsSound'
  <2>1. InTime(j)'
    BY <1>0 DEF InTime, JobDies, TypeOK
  <2> QED BY <1>0, <1>2, <2>1, JobStands DEF IInv, JobDies
<1> QED BY <1>2, <1>3 DEF IInv, JobDies

LEMMA BackfillKeeps == ASSUME IInv, Backfill PROVE IInv'
<1>0. TypeOK
  BY DEF IInv, CandleHoldsSamples
<1>1. PICK c \in Histories :
          candle' = [b \in Buckets |-> IF candle[b] = None /\ b <= Bucket(clock) THEN c
                                       ELSE candle[b]]
  BY DEF Backfill
<1>2. c \in Candle /\ Sound(c)
  BY CandlesAssumption
<1>3. TypeOK' /\ \A b \in Buckets : candle'[b] # candle[b] => candle[b] = None /\ Sound(candle'[b])
  BY <1>0, <1>1, <1>2 DEF Backfill, TypeOK
<1>4. CandleHoldsSamples' /\ LastWordStands' /\ Stored \subseteq Stored' /\ seen' \subseteq Stored'
  BY <1>3, ChartsStand DEF IInv, Backfill
<1>5. JobsSound'
  <2>1. \A j \in Jobs : job[j].pc = "read" => job[j].window \subseteq Stored'
    BY <1>4 DEF IInv, JobsSound, WindowSound
  <2>2. \A j \in Jobs : job[j].pc # "idle" => clock' <= job[j].since + Slack
    BY DEF IInv, JobsSound, InTime, Backfill
  <2>3. clock' \in Times /\ clock <= clock'
    BY <1>0, NumbersOK DEF TypeOK, Backfill
  <2> QED BY <1>0, <2>1, <2>2, <2>3, JobsStand DEF IInv, Backfill
<1> QED BY <1>4, <1>5 DEF IInv, Backfill

LEMMA ReadKeeps == ASSUME IInv, NEW j \in Jobs, ReadWindow(j) PROVE IInv'
<1>0. TypeOK /\ Stored \in SUBSET Times /\ clock \in Times
  BY DEF IInv, CandleHoldsSamples, TypeOK, Stored
<1>1. PICK row \in JobState :
          row = [job[j] EXCEPT !.pc = "read", !.now = clock,
                               !.window = {t \in Stored : t >= clock - Lookback}]
  BY <1>0 DEF TypeOK, JobState
<1>2. /\ row.pc = "read" /\ row.now = clock /\ row.since = job[j].since
      /\ row.window = Recent(Stored, clock)
  BY <1>0, <1>1 DEF Recent, TypeOK, JobState
<1>3. job' = [job EXCEPT ![j] = row] /\ job[j].pc = "stored"
  BY <1>1 DEF ReadWindow, JobStep
<1>4. /\ TypeOK' /\ job'[j] = row
      /\ \A i \in Jobs \ {j} : job'[i] = job[i]
  BY <1>0, <1>3 DEF ReadWindow, TypeOK
<1>5. CandleHoldsSamples' /\ LastWordStands' /\ Stored' = Stored /\ seen' \subseteq Stored'
  BY <1>4, ChartsStand DEF IInv, ReadWindow, Stored
<1>6. InTime(j)' /\ WindowSound(j)'
  <2>1. InTime(j)'
    BY <1>2, <1>3, <1>4 DEF IInv, JobsSound, InTime, ReadWindow
  <2>2. Covered(j)'
    BY <1>2, <1>4 DEF IInv, Covered, Recent, ReadWindow
  <2>3. clock \in Nat /\ job[j].since <= clock
    BY <1>0, <1>3, NumbersOK DEF IInv, JobsSound, InTime
  <2>4. \A t \in row.window : t >= clock - Lookback
    BY <1>2 DEF Recent
  <2>5. row.window \subseteq Stored
    BY <1>2 DEF Recent
  <2> QED BY <1>0, <1>2, <1>4, <1>5, <2>1, <2>2, <2>3, <2>4, <2>5
          DEF IInv, WindowSound, ReadWindow
<1>7. ASSUME NEW i \in Jobs, i # j PROVE InTime(i)' /\ WindowSound(i)'
  BY <1>4, <1>5, <1>7 DEF IInv, JobsSound, InTime, WindowSound, Covered, ReadWindow
<1>8. LaterCovers'
  <2> SUFFICES ASSUME NEW h \in Jobs, NEW i \in Jobs, job'[h].pc = "read", job'[i].pc = "read",
                      job'[h].now < job'[i].now
               PROVE  Recent(job'[h].window, job'[i].now) \subseteq job'[i].window
    BY DEF LaterCovers
  <2>1. \A k \in Jobs : job'[k].pc = "read" =>
            job'[k].now \in Nat /\ job'[k].now <= clock /\ job'[k].window \subseteq Stored
    BY <1>5, <1>6, <1>7, NumbersOK DEF WindowSound, ReadWindow
  <2>2. CASE i = j
    BY <1>2, <1>4, <2>1, <2>2 DEF Recent
  <2>3. CASE h = j
    BY <1>0, <1>2, <1>4, <2>1, <2>3, NumbersOK
  <2>4. CASE i # j /\ h # j
    BY <1>4, <2>4 DEF IInv, JobsSound, LaterCovers
  <2> QED BY <2>2, <2>3, <2>4
<1> QED BY <1>5, <1>6, <1>7, <1>8 DEF IInv, JobsSound, ReadWindow

\* The width of a bucket, and what it is for the pruning
LEMMA BucketEnds == ASSUME NEW t \in Times PROVE t < Bucket(t) * Width + Width /\ Bucket(t) \in Nat
<1>1. t \in Nat /\ Width \in Nat /\ Width > 0
  BY NumbersOK
<1> QED BY <1>1 DEF Bucket

LEMMA PruneKeeps == ASSUME IInv, Prune PROVE IInv'
<1>0. TypeOK /\ clock \in Nat /\ \A t \in seen : t \in Times /\ t \in Nat
  BY NumbersOK DEF IInv, CandleHoldsSamples, TypeOK
<1> DEFINE kept == {t \in seen : t >= clock - KeepSnapshots}
<1>1. TypeOK'
  BY <1>0 DEF Prune, TypeOK
<1>2. \A t \in Times : t >= clock - KeepSnapshots => snapshot'[t] = snapshot[t]
  BY <1>0, NumbersOK DEF Prune
<1>3. seen' = kept
  BY DEF Prune
<1>4. \A t \in kept : /\ candle[Bucket(t)] # None /\ candle'[Bucket(t)] = candle[Bucket(t)]
                      /\ snapshot'[t] = snapshot[t] /\ t \in Stored
  <2> SUFFICES ASSUME NEW t \in kept
               PROVE  /\ candle[Bucket(t)] # None /\ candle'[Bucket(t)] = candle[Bucket(t)]
                      /\ snapshot'[t] = snapshot[t] /\ t \in Stored
    OBVIOUS
  <2>1. t \in Nat /\ t >= clock - KeepSnapshots /\ t < Bucket(t) * Width + Width
    BY <1>0, BucketEnds
  <2>2. PICK start \in Nat : start = Bucket(t) * Width
    BY <1>0, BucketEnds, NumbersOK
  <2>3. ~ (Bucket(t) * Width < clock - KeepCandles)
    <3> SUFFICES ~ (start < clock - KeepCandles)
      BY <2>2
    <3>1. t < start + Width
      BY <2>1, <2>2
    <3> QED BY <1>0, <2>1, <3>1, NumbersOK
  <2>4. candle'[Bucket(t)] = candle[Bucket(t)]
    BY <1>0, <2>3, NumbersOK DEF Prune
  <2> QED BY <1>0, <1>2, <2>1, <2>4 DEF IInv, CandleHoldsSamples
<1>5. seen' \subseteq Stored'
  BY <1>0, <1>3, <1>4 DEF Stored
<1>6. CandleHoldsSamples'
  <2>1. ASSUME NEW b \in Buckets, candle'[b] # None PROVE Sound(candle'[b])
    BY <2>1 DEF IInv, CandleHoldsSamples, Prune
  <2>2. \A t \in seen' : /\ candle'[Bucket(t)] # None
                         /\ candle'[Bucket(t)].low <= snapshot'[t]
                         /\ snapshot'[t] <= candle'[Bucket(t)].high
    BY <1>3, <1>4 DEF IInv, CandleHoldsSamples
  <2> QED BY <1>1, <2>1, <2>2 DEF CandleHoldsSamples
<1>7. LastWordStands'
  <2> SUFFICES ASSUME NEW b \in Buckets \ raced,
                      NEW times, times = {t \in kept : Bucket(t) = b}, times # {}
               PROVE  /\ candle'[b].close = snapshot'[Highest(times)]
                      /\ candle'[b].partial =>
                            Bucket(latest) = b \/ \A t \in times : t < latest - Lookback
    BY <1>3 DEF LastWordStands, Prune
  <2> DEFINE before == {t \in seen : Bucket(t) = b}
  <2>1. before \in SUBSET Times /\ times \in SUBSET Times /\ times \subseteq before
    BY <1>0
  <2>2. before # {}
    BY <2>1
  <2>3. /\ candle[b].close = snapshot[Highest(before)]
        /\ candle[b].partial =>
              Bucket(latest) = b \/ \A t \in before : t < latest - Lookback
    BY <2>2 DEF IInv, LastWordStands
  <2>4. PICK m \in before : m = Highest(before) /\ \A q \in before : q <= m
    <3> HIDE DEF before
    <3> QED BY <2>1, <2>2, TimeExtremes
  <2>5. m \in times
    <3>1. PICK t \in times : t >= clock - KeepSnapshots /\ t \in Nat /\ t <= m
      BY <1>0, <2>4
    <3>2. m \in Nat /\ m >= clock - KeepSnapshots
      BY <1>0, <3>1, NumbersOK
    <3> QED BY <2>4, <3>2
  <2>6. Highest(times) = m
    <3>1. \A q \in times : q <= m
      BY <2>1, <2>4
    <3> HIDE DEF before, kept
    <3> QED BY <2>1, <2>5, <3>1, HighestIs
  <2>7. candle'[b] = candle[b] /\ snapshot'[m] = snapshot[m]
    BY <1>4, <2>5
  <2> QED BY <2>1, <2>3, <2>4, <2>6, <2>7
<1>8. JobsSound'
  <2>1. \A j \in Jobs : job[j].pc = "read" => job[j].window \subseteq Stored'
    <3> SUFFICES ASSUME NEW j \in Jobs, job[j].pc = "read", NEW t \in job[j].window
                 PROVE  t \in Stored'
      OBVIOUS
    <3>1. /\ t \in Stored /\ t \in Times /\ t \in Nat
          /\ job[j].now \in Nat /\ job[j].since \in Nat
          /\ t >= job[j].now - Lookback /\ job[j].since <= job[j].now
          /\ clock <= job[j].since + Slack
      BY NumbersOK DEF IInv, JobsSound, InTime, WindowSound, Stored
    <3>2. t >= clock - KeepSnapshots
      BY <1>0, <3>1, NumbersOK
    <3> QED BY <1>2, <3>1, <3>2 DEF Stored
  <2>2. \A j \in Jobs : job[j].pc # "idle" => clock' <= job[j].since + Slack
    BY DEF IInv, JobsSound, InTime, Prune
  <2>3. clock' \in Times /\ clock <= clock'
    BY <1>0 DEF TypeOK, Prune
  <2>4. seen' \subseteq seen
    BY <1>3
  <2> QED BY <1>0, <2>1, <2>2, <2>3, <2>4, JobsStand DEF IInv, Prune
<1> QED BY <1>5, <1>6, <1>7, <1>8 DEF IInv, Prune

\* What an aggregation writes: the candles of its window become upserts, the others stay.
LEMMA WriteWrites ==
    ASSUME IInv, NEW j \in Jobs, WriteCandles(j)
    PROVE  /\ job[j].pc = "read" /\ job[j].window \in SUBSET Times
           /\ job[j].window \subseteq Stored
           /\ \A b \in Buckets : Group(j, b) = {} => candle'[b] = candle[b]
           /\ \A b \in Buckets : Group(j, b) # {} =>
                /\ candle'[b] \in Candle /\ Sound(candle'[b])
                /\ candle'[b].close = snapshot[Highest(Group(j, b))]
                /\ candle'[b].partial = (b = Bucket(job[j].now))
                /\ \A t \in Group(j, b) : candle'[b].low <= snapshot[t] /\ snapshot[t] <= candle'[b].high
                /\ candle[b] # None =>
                      candle'[b].low <= candle[b].low /\ candle[b].high <= candle'[b].high
<1>0. TypeOK /\ job[j].pc = "read" /\ job[j].window \subseteq Stored
  BY DEF IInv, CandleHoldsSamples, JobsSound, WindowSound, WriteCandles
<1>1. job[j].window \in SUBSET Times
  BY <1>0 DEF Stored
<1>2. \A b \in Buckets : candle'[b] = IF Group(j, b) # {} THEN Upserted(candle[b], Selected(j, b))
                                      ELSE candle[b]
  BY DEF WriteCandles
<1>3. ASSUME NEW b \in Buckets, Group(j, b) # {}
      PROVE  /\ candle'[b] \in Candle /\ Sound(candle'[b])
             /\ candle'[b].close = snapshot[Highest(Group(j, b))]
             /\ candle'[b].partial = (b = Bucket(job[j].now))
             /\ \A t \in Group(j, b) : candle'[b].low <= snapshot[t] /\ snapshot[t] <= candle'[b].high
             /\ candle[b] # None =>
                   candle'[b].low <= candle[b].low /\ candle[b].high <= candle'[b].high
  <2>1. PICK new \in Candle :
          /\ new = Selected(j, b) /\ Sound(new)
          /\ \A t \in Group(j, b) : new.low <= snapshot[t] /\ snapshot[t] <= new.high
          /\ new.close = snapshot[Highest(Group(j, b))]
          /\ new.partial = (b = Bucket(job[j].now))
    BY <1>0, <1>3, SelectedHolds
  <2>2. PICK old \in Candle \cup {None} : old = candle[b] /\ (old # None => Sound(old))
    BY <1>0 DEF IInv, CandleHoldsSamples, TypeOK
  <2>3. candle'[b] = Upserted(old, new)
    BY <1>2, <1>3, <2>1, <2>2
  <2>4. /\ candle'[b] \in Candle /\ Sound(candle'[b])
        /\ candle'[b].close = new.close /\ candle'[b].partial = new.partial
        /\ candle'[b].low <= new.low /\ new.high <= candle'[b].high
        /\ old # None => candle'[b].low <= old.low /\ old.high <= candle'[b].high
    BY <2>1, <2>2, <2>3, UpsertedHolds
  <2>5. ASSUME NEW t \in Group(j, b)
        PROVE  candle'[b].low <= snapshot[t] /\ snapshot[t] <= candle'[b].high
    <3>1. snapshot[t] \in Int
      BY <1>0, <1>1, NumbersOK DEF Group, TypeOK, Stored
    <3>2. candle'[b].low \in Int /\ candle'[b].high \in Int /\ new.low \in Int /\ new.high \in Int
      BY <2>4, NumbersOK DEF Candle
    <3> QED BY <2>1, <2>4, <3>1, <3>2
  <2> QED BY <2>1, <2>2, <2>4, <2>5
<1> QED BY <1>0, <1>1, <1>2, <1>3

LEMMA WriteKeepsSamples ==
    ASSUME IInv, NEW j \in Jobs, WriteCandles(j)
    PROVE  CandleHoldsSamples' /\ Stored' = Stored /\ seen' \subseteq Stored'
<1>0. TypeOK /\ snapshot' = snapshot
  BY DEF IInv, CandleHoldsSamples, WriteCandles
<1>1. TypeOK'
  <2>1. job' \in [Jobs -> JobState]
    <3>1. \A i \in Jobs : [job[i] EXCEPT !.overtaken = TRUE] \in JobState
      BY <1>0 DEF TypeOK, JobState
    <3>2. IdleJob \in JobState
      BY DEF IdleJob, JobState
    <3>3. \A i \in Jobs : job'[i] \in JobState
      BY <1>0, <3>1, <3>2 DEF WriteCandles, TypeOK
    <3> QED BY <3>3 DEF WriteCandles
  <2>2. candle' \in [Buckets -> Candle \cup {None}]
    <3>1. \A b \in Buckets : candle'[b] \in Candle \cup {None}
      BY <1>0, WriteWrites DEF TypeOK
    <3> QED BY <3>1 DEF WriteCandles
  <2>3. latest' \in Times
    BY <1>0 DEF IInv, JobsSound, WindowSound, WriteCandles, TypeOK
  <2>4. seen' \in SUBSET Times /\ raced' \in SUBSET Buckets
    BY <1>0, WriteWrites DEF WriteCandles, TypeOK
  <2> QED BY <1>0, <2>1, <2>2, <2>3, <2>4 DEF WriteCandles, TypeOK
<1>2. Stored' = Stored /\ seen' \subseteq Stored'
  BY WriteWrites DEF WriteCandles, Stored, IInv
<1>3. ASSUME NEW b \in Buckets, candle'[b] # None PROVE Sound(candle'[b])
  BY <1>3, WriteWrites DEF IInv, CandleHoldsSamples
<1>4. ASSUME NEW t \in seen'
      PROVE  /\ candle'[Bucket(t)] # None
             /\ candle'[Bucket(t)].low <= snapshot[t] /\ snapshot[t] <= candle'[Bucket(t)].high
  <2>1. PICK b \in Buckets : b = Bucket(t) /\ t \in Stored
    BY <1>2, NumbersOK DEF Stored
  <2>2. CASE t \in job[j].window
    <3>1. t \in Group(j, b)
      BY <2>1, <2>2 DEF Group
    <3> QED BY <2>1, <3>1, WriteWrites, NumbersOK
  <2>3. CASE t \notin job[j].window
    <3>1. t \in seen
      BY <2>3 DEF WriteCandles
    <3>2. /\ candle[b] # None /\ candle[b].low <= snapshot[t] /\ snapshot[t] <= candle[b].high
      BY <2>1, <3>1 DEF IInv, CandleHoldsSamples
    <3>3. CASE Group(j, b) = {}
      BY <2>1, <3>2, <3>3, WriteWrites
    <3>4. CASE Group(j, b) # {}
      <4>1. /\ candle'[b] \in Candle
            /\ candle'[b].low <= candle[b].low /\ candle[b].high <= candle'[b].high
        BY <3>2, <3>4, WriteWrites
      <4>2. /\ candle'[b].low \in Int /\ candle'[b].high \in Int
            /\ candle[b].low \in Int /\ candle[b].high \in Int /\ snapshot[t] \in Int
        BY <1>0, <2>1, <3>2, <4>1, NumbersOK DEF Candle, TypeOK, Stored
      <4> QED BY <2>1, <3>2, <4>1, <4>2, NumbersOK
    <3> QED BY <3>3, <3>4
  <2> QED BY <2>2, <2>3
<1> QED BY <1>0, <1>1, <1>2, <1>3, <1>4 DEF CandleHoldsSamples

LEMMA WriteKeepsLastWord ==
    ASSUME IInv, NEW j \in Jobs, WriteCandles(j)
    PROVE  LastWordStands'
<1>0. /\ TypeOK /\ snapshot' = snapshot /\ job[j].pc = "read" /\ seen' = seen \cup job[j].window
      /\ job[j].window \in SUBSET Times /\ seen \in SUBSET Times
  BY WriteWrites DEF IInv, CandleHoldsSamples, WriteCandles, TypeOK
<1>1. PICK now \in Times : now = job[j].now
  BY <1>0 DEF IInv, JobsSound, WindowSound
<1>2. /\ now \in Nat /\ latest \in Nat /\ \A t \in seen' : t \in Nat
      /\ latest' = IF latest < now THEN now ELSE latest
  BY <1>0, <1>1, NumbersOK DEF WriteCandles, TypeOK
<1>3. /\ \A t \in job[j].window : t >= now - Lookback
      /\ latest < now \/ ~ job[j].overtaken =>
            \A t \in seen : t >= now - Lookback => t \in job[j].window
      /\ ~ job[j].overtaken => latest <= now
  BY <1>0, <1>1 DEF IInv, JobsSound, WindowSound, Covered, Recent
<1> SUFFICES ASSUME NEW b \in Buckets \ raced',
                    NEW times, times = {t \in seen' : Bucket(t) = b}, times # {}
             PROVE  /\ candle'[b].close = snapshot[Highest(times)]
                    /\ candle'[b].partial =>
                          Bucket(latest') = b \/ \A t \in times : t < latest' - Lookback
  BY <1>0 DEF LastWordStands
<1>4. CASE Group(j, b) = {}
  <2>1. times = {t \in seen : Bucket(t) = b} /\ candle'[b] = candle[b]
    BY <1>0, <1>4, WriteWrites DEF Group
  <2>2. b \notin raced
    BY <1>4 DEF WriteCandles
  <2>3. /\ candle[b].close = snapshot[Highest(times)]
        /\ candle[b].partial =>
              Bucket(latest) = b \/ \A t \in times : t < latest - Lookback
    BY <2>1, <2>2 DEF IInv, LastWordStands
  <2>4. CASE latest < now
    <3>1. ASSUME NEW t \in times PROVE t < now - Lookback
      <4>1. t \in Nat /\ t \in seen /\ t \notin job[j].window
        BY <1>2, <1>4, <2>1 DEF Group
      <4> QED BY <1>2, <1>3, <2>4, <4>1, NumbersOK
    <3> QED BY <1>2, <2>1, <2>3, <2>4, <3>1
  <2>5. CASE ~ (latest < now)
    BY <1>2, <2>1, <2>3, <2>5
  <2> QED BY <2>4, <2>5
<1>5. CASE Group(j, b) # {}
  <2>1. ~ job[j].overtaken
    BY <1>5 DEF WriteCandles
  <2>2. latest' = now
    BY <1>2, <1>3, <2>1
  <2>3. Group(j, b) \in SUBSET Times /\ Group(j, b) \subseteq times /\ times \in SUBSET Times
    BY <1>0 DEF Group
  <2>4. PICK m \in Group(j, b) : m = Highest(Group(j, b)) /\ \A q \in Group(j, b) : q <= m
    BY <1>5, <2>3, TimeExtremes
  <2>5. ASSUME NEW t \in times PROVE t <= m
    <3>1. CASE t \in job[j].window
      BY <2>4, <3>1 DEF Group
    <3>2. CASE t \notin job[j].window
      <4>1. t \in Nat /\ t \in seen /\ m \in Nat /\ m \in job[j].window
        BY <1>0, <1>2, <2>3, <2>4, <3>2, NumbersOK DEF Group
      <4> QED BY <1>2, <1>3, <2>1, <3>2, <4>1, NumbersOK
    <3> QED BY <3>1, <3>2
  <2>6. Highest(times) = m
    BY <2>3, <2>4, <2>5, HighestIs
  <2>7. /\ candle'[b].close = snapshot[Highest(Group(j, b))]
        /\ candle'[b].partial = (b = Bucket(job[j].now))
    BY <1>5, WriteWrites
  <2>8. candle'[b].partial => Bucket(latest') = b
    BY <1>1, <2>2, <2>7, Zenon
  <2> QED BY <2>4, <2>6, <2>7, <2>8
<1> QED BY <1>4, <1>5

LEMMA WriteKeepsJobs == ASSUME IInv, NEW j \in Jobs, WriteCandles(j) PROVE JobsSound'
<1>0. /\ TypeOK /\ job[j].pc = "read" /\ seen' = seen \cup job[j].window
      /\ Stored' = Stored /\ clock' = clock
  BY DEF IInv, CandleHoldsSamples, WriteCandles, Stored
<1>1. /\ job'[j].pc = "idle"
      /\ \A i \in Jobs \ {j} :
            /\ job'[i].pc = job[i].pc /\ job'[i].since = job[i].since
            /\ job'[i].now = job[i].now /\ job'[i].window = job[i].window
            /\ job'[i].pc = "read" => job'[i].overtaken
  BY <1>0 DEF WriteCandles, IdleJob, TypeOK, JobState
<1>2. LaterCovers'
  <2> SUFFICES ASSUME NEW h \in Jobs, NEW i \in Jobs, job'[h].pc = "read", job'[i].pc = "read",
                      job'[h].now < job'[i].now
               PROVE  Recent(job'[h].window, job'[i].now) \subseteq job'[i].window
    BY DEF LaterCovers
  <2> QED BY <1>1 DEF IInv, JobsSound, LaterCovers
<1>3. ASSUME NEW i \in Jobs PROVE InTime(i)' /\ WindowSound(i)'
  <2>1. CASE i = j
    BY <1>1, <2>1 DEF InTime, WindowSound
  <2>2. CASE i # j
    <3>1. InTime(i)'
      BY <1>0, <1>1, <2>2 DEF IInv, JobsSound, InTime
    <3>2. WindowSound(i)'
      <4> SUFFICES ASSUME job[i].pc = "read"
                   PROVE  latest' < job[i].now =>
                              Recent(seen', job[i].now) \subseteq job[i].window
        BY <1>0, <1>1, <2>2 DEF IInv, JobsSound, WindowSound, Covered
      <4> SUFFICES ASSUME latest' < job[i].now, NEW t \in seen', t >= job[i].now - Lookback
                   PROVE  t \in job[i].window
        BY DEF Recent
      <4>1. latest \in Nat /\ job[j].now \in Nat /\ job[i].now \in Nat
        BY <1>0, NumbersOK DEF IInv, JobsSound, WindowSound, TypeOK
      <4>2. latest < job[i].now /\ job[j].now < job[i].now
        BY <4>1 DEF WriteCandles
      <4>3. CASE t \in seen
        BY <4>2, <4>3 DEF IInv, JobsSound, WindowSound, Covered, Recent
      <4>4. CASE t \in job[j].window
        BY <1>0, <4>2, <4>4 DEF IInv, JobsSound, LaterCovers, Recent
      <4> QED BY <1>0, <4>3, <4>4
    <3> QED BY <3>1, <3>2
  <2> QED BY <2>1, <2>2
<1> QED BY <1>2, <1>3 DEF JobsSound

LEMMA WriteKeeps == ASSUME IInv, NEW j \in Jobs, WriteCandles(j) PROVE IInv'
<1>1. CandleHoldsSamples' /\ Stored' = Stored /\ seen' \subseteq Stored' /\ LastWordStands' /\ JobsSound'
  BY WriteKeepsSamples, WriteKeepsLastWord, WriteKeepsJobs
<1>2. latest' <= clock'
  <2>1. job[j].now <= clock /\ latest <= clock
    BY DEF IInv, JobsSound, WindowSound, WriteCandles
  <2> QED BY <2>1 DEF WriteCandles
<1> QED BY <1>1, <1>2 DEF IInv
-----------------------------------------------------------------------------
LEMMA InitKeeps == Init => IInv
<1> SUFFICES ASSUME Init PROVE IInv
  OBVIOUS
<1>1. TypeOK
  <2>1. 0 \in Times /\ 0 \in 0 .. MaxSamples
    BY CandlesAssumption DEF Times
  <2>2. IdleJob \in JobState
    BY DEF IdleJob, JobState
  <2> QED BY <2>1, <2>2 DEF Init, TypeOK
<1>2. CandleHoldsSamples /\ LastWordStands
  BY <1>1 DEF Init, CandleHoldsSamples, LastWordStands
<1>3. JobsSound
  <2>1. \A j \in Jobs : job[j].pc = "idle"
    BY DEF Init, IdleJob
  <2> QED BY <2>1 DEF JobsSound, LaterCovers, InTime, WindowSound
<1> QED BY <1>2, <1>3 DEF Init, IInv

LEMMA NextKeeps == IInv /\ [Next]_vars => IInv'
<1> SUFFICES ASSUME IInv, [Next]_vars PROVE IInv'
  OBVIOUS
<1>1. CASE Tick
  BY <1>1, TickKeeps
<1>2. CASE SyncStores
  BY <1>2, SyncKeeps
<1>3. CASE Backfill
  BY <1>3, BackfillKeeps
<1>4. CASE Prune
  BY <1>4, PruneKeeps
<1>5. ASSUME NEW j \in Jobs, PollStores(j) \/ ReadWindow(j) \/ WriteCandles(j) \/ JobDies(j)
      PROVE  IInv'
  BY <1>5, PollKeeps, ReadKeeps, WriteKeeps, DiesKeeps
<1>6. CASE UNCHANGED vars
  BY <1>6 DEF vars, IInv, CandleHoldsSamples, TypeOK, LastWordStands, Stored, JobsSound,
              LaterCovers, InTime, WindowSound, Covered
<1> QED BY <1>1, <1>2, <1>3, <1>4, <1>5, <1>6 DEF Next

\* What the jobs have read and the candles say of each other
THEOREM CandlesInvariant == Spec => []IInv
BY InitKeeps, NextKeeps, PTL DEF Spec

\* A candle holds every snapshot that AGGREGATE_SQL ever aggregated into it and its own
\* open and close: the ON CONFLICT clause widens it only, and prune_old_data takes no
\* candle while one of its snapshots is there.
THEOREM CandlesHoldTheirSamples == Spec => []CandleHoldsSamples
<1>1. IInv => CandleHoldsSamples
  BY DEF IInv
<1> QED BY <1>1, CandlesInvariant, PTL

\* The latest aggregation has the last word on where a candle closes and whether it is
\* partial, in every bucket that no overtaken aggregation wrote last.
THEOREM TheLatestHasTheLastWord == Spec => []LastWordStands
<1>1. IInv => LastWordStands
  BY DEF IInv
<1> QED BY <1>1, CandlesInvariant, PTL
=============================================================================
