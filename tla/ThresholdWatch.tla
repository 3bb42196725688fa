--------------------------- MODULE ThresholdWatch ---------------------------
(***************************************************************************)
(* One alert and the samples of its coin, with nothing in between: the     *)
(* alert is armed against the first sample (create_alert calls arm_alert,  *)
(* which asks holds_now) and then shown every later one                    *)
(* (evaluate_active_alerts asks should_fire about the last two).  There is *)
(* no cooldown, no database and no race here, so what this module shows is *)
(* the rule itself: does an alert speak once for every stay in its zone?   *)
(*                                                                         *)
(* AlertPipeline puts the same rule behind redis, postgres and concurrency.*)
(***************************************************************************)
EXTENDS AlertEngine, Sequences

CONSTANTS
    Prices,         \* the prices upstream may report; _parse_markets drops p <= 0
    Thresholds,     \* the thresholds an alert may be created with
    WatchedKinds,   \* the kinds of alert watched in a run
    Window,         \* a percentage window, in sampling intervals
    MaxSamples      \* BOUND: samples seen in one behaviour

ASSUME WatchAssumption ==
    /\ Prices \subseteq Int /\ \A p \in Prices : p > 0
    /\ Thresholds \subseteq Int /\ \A t \in Thresholds : t > 0
    /\ WatchedKinds \subseteq Kinds
    /\ Window \in Nat \ {0}
    /\ MaxSamples \in Nat \ {0}

VARIABLES
    kind, threshold,  \* the AlertSpec: fixed once created
    samples,          \* the prices seen so far, oldest first
    fired             \* fired[i]: did sample i produce an alert?

vars == <<kind, threshold, samples, fired>>

\* price_at_or_before(sampled_at - window): the sample one window before the
\* i-th, when there is one.  Percentage kinds only (_window_base).
window_base(seen, i) ==
    IF kind \in PctKinds /\ i > Window THEN seen[i - Window] ELSE None

\* The alert is created when only the samples up to now exist.
arm_alert(price) ==
    /\ samples = <<>>
    /\ samples' = <<price>>
    /\ fired' = <<holds_now(kind, threshold, price, window_base(samples', 1))>>
    /\ UNCHANGED <<kind, threshold>>

\* A new sample arrives and is evaluated against the one before it.
evaluate(price) ==
    /\ samples # <<>> /\ Len(samples) < MaxSamples
    /\ samples' = Append(samples, price)
    /\ LET n == Len(samples')
       IN  fired' = Append(fired, should_fire(kind, threshold, samples[n - 1], price,
                                              window_base(samples', n)))
    /\ UNCHANGED <<kind, threshold>>

Init ==
    /\ kind \in WatchedKinds
    /\ threshold \in Thresholds
    /\ samples = <<>> /\ fired = <<>>

Next == \E price \in Prices : arm_alert(price) \/ evaluate(price)

Spec == Init /\ [][Next]_vars

-----------------------------------------------------------------------------
TypeOK ==
    /\ kind \in WatchedKinds
    /\ threshold \in Thresholds
    /\ samples \in Seq(Prices)
    /\ fired \in Seq(BOOLEAN) /\ Len(fired) = Len(samples)
    /\ Len(samples) <= MaxSamples

\* The price is in the alert's target zone at sample i.
Inside(i) == holds_now(kind, threshold, samples[i], window_base(samples, i))

\* Sample i begins a stay in the zone.
Enters(i) == Inside(i) /\ (i > 1 => ~ Inside(i - 1))

\* Price alerts: arming (holds_now) and crossing (should_fire) together speak
\* exactly once for each stay of the price in the zone, on the sample that
\* enters it, whether the alert was created inside the zone or outside.
\* "Sitting in the target zone produces exactly one alert, on entry."
PriceAlertOncePerStay ==
    kind \in PriceKinds => \A i \in DOMAIN samples : fired[i] <=> Enters(i)

\* Percentage alerts keep the promise while the base they compare with stands
\* still: a sample fires exactly when it enters the zone as that base sees it.
PctAlertOnEntryWhileBaseStands ==
    kind \in PctKinds =>
        \A i \in DOMAIN samples :
            (i > Window + 1 /\ samples[i - Window] = samples[i - Window - 1])
                => (fired[i] <=> Enters(i))

\* An alert never speaks of a price outside its zone, whatever the kind and
\* however the base drifted.
FiresOnlyInside == \A i \in DOMAIN samples : fired[i] => Inside(i)
=============================================================================
