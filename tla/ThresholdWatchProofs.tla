------------------------ MODULE ThresholdWatchProofs ------------------------
(***************************************************************************)
(* What ThresholdWatch keeps for every set of prices and thresholds, every *)
(* percentage window and any number of samples.                            *)
(***************************************************************************)
EXTENDS ThresholdWatch, TLAPS

\* For positive integer prices the rule of crossing is the rule of entering:
\* should_fire about two samples is holds_now about the second and not about
\* the first, whichever of the two price kinds (alert_engine.py).
LEMMA CrossingIsEntering ==
    ASSUME NEW k \in PriceKinds, NEW t \in Int, NEW previous \in Int,
           NEW current \in Int, NEW base, previous > 0, current > 0
    PROVE  should_fire(k, t, previous, current, base)
             <=> /\ holds_now(k, t, current, base)
                 /\ ~ holds_now(k, t, previous, base)
BY NoneAssumption
   DEF PriceKinds, PctKinds, should_fire, holds_now, unusable, crosses_up, crosses_down

\* An alert of a percentage kind fires only on a sample that holds, whatever
\* the base is.
LEMMA FiringHolds ==
    ASSUME NEW k \in Kinds, NEW t \in Int, NEW previous \in Int,
           NEW current \in Int, NEW base \in Int \cup {None},
           should_fire(k, t, previous, current, base)
    PROVE  holds_now(k, t, current, base)
BY NoneAssumption
   DEF Kinds, PriceKinds, PctKinds, should_fire, holds_now, unusable,
       crosses_up, crosses_down, pct_change

\* Seen from one base, crossing is entering for the percentage kinds as well.
LEMMA PctCrossingIsEntering ==
    ASSUME NEW k \in PctKinds, NEW t \in Int, NEW previous \in Int, NEW current \in Int,
           NEW base \in Int, previous > 0, current > 0, base > 0
    PROVE  should_fire(k, t, previous, current, base)
             <=> /\ holds_now(k, t, current, base)
                 /\ ~ holds_now(k, t, previous, base)
<1>1. PICK edge \in Int : edge = t * base
  OBVIOUS
<1>2. PICK was \in Int : was = pct_change(base, previous)
  BY DEF pct_change
<1>3. PICK is \in Int : is = pct_change(base, current)
  BY DEF pct_change
<1>4. ~ unusable(previous) /\ ~ unusable(current) /\ ~ unusable(base)
  BY NoneAssumption DEF unusable
<1>5. should_fire(k, t, previous, current, base)
        <=> \/ k = "pct_up" /\ was < edge /\ edge <= is
            \/ k = "pct_down" /\ was > -edge /\ -edge >= is
  BY <1>1, <1>2, <1>3, <1>4
     DEF PctKinds, should_fire, crosses_up, crosses_down
<1>6. holds_now(k, t, current, base)
        <=> (k = "pct_up" /\ is >= edge) \/ (k = "pct_down" /\ is <= -edge)
  BY <1>1, <1>3, <1>4 DEF PctKinds, holds_now
<1>7. holds_now(k, t, previous, base)
        <=> (k = "pct_up" /\ was >= edge) \/ (k = "pct_down" /\ was <= -edge)
  BY <1>1, <1>2, <1>4 DEF PctKinds, holds_now
<1> QED BY <1>5, <1>6, <1>7 DEF PctKinds

\* Extending the history changes nothing about the samples already in it.
LEMMA InsideOfAppend ==
    ASSUME TypeOK, NEW price \in Prices, samples' = Append(samples, price),
           UNCHANGED <<kind, threshold>>, NEW i \in DOMAIN samples
    PROVE  /\ samples'[i] = samples[i]
           /\ Inside(i)' <=> Inside(i)
           /\ Enters(i)' <=> Enters(i)
<1>1. \A n \in DOMAIN samples : samples'[n] = samples[n]
  BY DEF TypeOK
<1>2. \A n \in DOMAIN samples : Inside(n)' <=> Inside(n)
  BY <1>1, WatchAssumption DEF TypeOK, Inside, window_base
<1>3. Enters(i)' <=> Enters(i)
  BY <1>2 DEF TypeOK, Enters
<1> QED BY <1>1, <1>2, <1>3

\* Type correctness: a verdict for every sample, whatever arrives.
THEOREM TypeCorrect == Spec => []TypeOK
<1>1. Init => TypeOK
  BY WatchAssumption DEF Init, TypeOK
<1>2. TypeOK /\ [Next]_vars => TypeOK'
  <2> SUFFICES ASSUME TypeOK, [Next]_vars PROVE TypeOK'
    OBVIOUS
  <2>1. ASSUME NEW price \in Prices, arm_alert(price) PROVE TypeOK'
    BY <2>1, WatchAssumption DEF TypeOK, arm_alert, holds_now
  <2>2. ASSUME NEW price \in Prices, evaluate(price) PROVE TypeOK'
    BY <2>2, WatchAssumption DEF TypeOK, evaluate, should_fire
  <2>3. CASE UNCHANGED vars
    BY <2>3 DEF TypeOK, vars
  <2> QED BY <2>1, <2>2, <2>3 DEF Next
<1> QED BY <1>1, <1>2, PTL DEF Spec

\* What one more sample does to a verdict already given: nothing, and the new
\* verdict is that of should_fire.
LEMMA EvaluateAppends ==
    ASSUME TypeOK, NEW price \in Prices, evaluate(price)
    PROVE  /\ samples' = Append(samples, price)
           /\ DOMAIN samples' = DOMAIN samples \cup {Len(samples) + 1}
           /\ Len(samples) \in Nat /\ Len(samples) \in DOMAIN samples
           /\ samples'[Len(samples)] = samples[Len(samples)]
           /\ samples'[Len(samples) + 1] = price
           /\ \A i \in DOMAIN samples : fired'[i] <=> fired[i]
           /\ fired'[Len(samples) + 1] <=>
                should_fire(kind, threshold, samples[Len(samples)], price,
                            window_base(samples', Len(samples) + 1))
BY DEF TypeOK, evaluate

\* D8 and D8a for price alerts: for every threshold, every history of prices
\* and any number of samples, arming and crossing together speak on exactly the
\* samples that enter the zone.
THEOREM PriceAlertsSpeakOnEntry == Spec => []PriceAlertOncePerStay
<1>1. Init => PriceAlertOncePerStay
  BY DEF Init, PriceAlertOncePerStay
<1>2. TypeOK /\ TypeOK' /\ PriceAlertOncePerStay /\ [Next]_vars => PriceAlertOncePerStay'
  <2> SUFFICES ASSUME TypeOK, TypeOK', PriceAlertOncePerStay, [Next]_vars
               PROVE  PriceAlertOncePerStay'
    OBVIOUS
  <2>1. ASSUME NEW price \in Prices, arm_alert(price) PROVE PriceAlertOncePerStay'
    BY <2>1 DEF arm_alert, PriceAlertOncePerStay, Enters, Inside, window_base, PriceKinds, PctKinds
  <2>2. ASSUME NEW price \in Prices, evaluate(price) PROVE PriceAlertOncePerStay'
    <3> PICK n \in Nat : n = Len(samples)
      BY <2>2, EvaluateAppends
    <3>0. n \in DOMAIN samples /\ samples[n] \in Prices /\ price \in Prices
      BY <2>2, EvaluateAppends DEF TypeOK
    <3> SUFFICES ASSUME kind \in PriceKinds, NEW i \in DOMAIN samples'
                 PROVE  fired'[i] <=> Enters(i)'
      BY <2>2 DEF PriceAlertOncePerStay, evaluate
    <3>1. UNCHANGED <<kind, threshold>>
      BY <2>2 DEF evaluate
    <3>2. CASE i \in DOMAIN samples
      BY <2>2, <3>1, <3>2, EvaluateAppends, InsideOfAppend DEF PriceAlertOncePerStay
    <3>3. CASE i = n + 1
      <4>1. samples[n] \in Int /\ samples[n] > 0 /\ price \in Int /\ price > 0
        BY <3>0, WatchAssumption
      <4>2. threshold \in Int
        BY WatchAssumption DEF TypeOK
      <4>3. Inside(n)' <=> holds_now(kind, threshold, samples[n], None)
        BY <2>2, <3>1, EvaluateAppends DEF Inside, window_base, PriceKinds, PctKinds
      <4>4. Inside(n + 1)' <=> holds_now(kind, threshold, price, None)
        BY <2>2, <3>1, EvaluateAppends DEF Inside, window_base, PriceKinds, PctKinds
      <4>5. fired'[n + 1] <=> should_fire(kind, threshold, samples[n], price, None)
        BY <2>2, <3>1, EvaluateAppends DEF window_base, PriceKinds, PctKinds
      <4>6. Enters(n + 1)' <=> Inside(n + 1)' /\ ~ Inside(n)'
        BY <2>2, EvaluateAppends DEF Enters, TypeOK
      <4>7. fired'[n + 1] <=> Enters(n + 1)'
        BY <4>1, <4>2, <4>3, <4>4, <4>5, <4>6, CrossingIsEntering
      <4> QED BY <3>3, <4>7
    <3> QED BY <2>2, <3>2, <3>3, EvaluateAppends
  <2>3. CASE UNCHANGED vars
    BY <2>3 DEF vars, PriceAlertOncePerStay, Enters, Inside, window_base
  <2> QED BY <2>1, <2>2, <2>3 DEF Next
<1> QED BY <1>1, <1>2, TypeCorrect, PTL DEF Spec

\* No alert of any kind ever speaks of a price outside its zone, however the
\* base of a percentage drifts.
THEOREM AlertsFireOnlyInside == Spec => []FiresOnlyInside
<1>1. Init => FiresOnlyInside
  BY DEF Init, FiresOnlyInside
<1>2. TypeOK /\ TypeOK' /\ FiresOnlyInside /\ [Next]_vars => FiresOnlyInside'
  <2> SUFFICES ASSUME TypeOK, TypeOK', FiresOnlyInside, [Next]_vars
               PROVE  FiresOnlyInside'
    OBVIOUS
  <2>1. ASSUME NEW price \in Prices, arm_alert(price) PROVE FiresOnlyInside'
    BY <2>1 DEF arm_alert, FiresOnlyInside, Inside, window_base
  <2>2. ASSUME NEW price \in Prices, evaluate(price) PROVE FiresOnlyInside'
    <3> PICK n \in Nat : n = Len(samples)
      BY <2>2, EvaluateAppends
    <3>0. n \in DOMAIN samples /\ samples[n] \in Prices /\ price \in Prices
      BY <2>2, EvaluateAppends DEF TypeOK
    <3>1. UNCHANGED <<kind, threshold>>
      BY <2>2 DEF evaluate
    <3>2. \A i \in DOMAIN samples : fired'[i] => Inside(i)'
      BY <2>2, <3>1, EvaluateAppends, InsideOfAppend DEF FiresOnlyInside
    <3>3. ASSUME fired'[n + 1] PROVE Inside(n + 1)'
      <4>1. samples[n] \in Int /\ price \in Int /\ threshold \in Int /\ kind \in Kinds
        BY <3>0, WatchAssumption DEF TypeOK
      <4>2. window_base(samples', n + 1) \in Int \cup {None}
        <5>1. samples' \in Seq(Prices) /\ Len(samples') = n + 1
          BY <2>2, EvaluateAppends DEF TypeOK
        <5>2. ASSUME n + 1 > Window PROVE samples'[n + 1 - Window] \in Prices
          BY <5>1, <5>2, WatchAssumption
        <5>3. window_base(samples', n + 1) \in Prices \cup {None}
          BY <5>2, WatchAssumption DEF window_base
        <5> QED BY <5>3, WatchAssumption
      <4>3. holds_now(kind, threshold, price, window_base(samples', n + 1))
        BY <2>2, <3>3, <4>1, <4>2, EvaluateAppends, FiringHolds
      <4> QED BY <2>2, <3>1, <4>3, EvaluateAppends DEF Inside, window_base
    <3> QED BY <2>2, <3>2, <3>3, EvaluateAppends DEF FiresOnlyInside
  <2>3. CASE UNCHANGED vars
    BY <2>3 DEF vars, FiresOnlyInside, Inside, window_base
  <2> QED BY <2>1, <2>2, <2>3 DEF Next
<1> QED BY <1>1, <1>2, TypeCorrect, PTL DEF Spec

\* A percentage alert fires exactly on entering the zone as its base sees it, for every
\* threshold, window and history, whenever the sample _window_base compares with is as
\* high as the one it compared the sample before with.
THEOREM PctAlertsSpeakOnEntry == Spec => []PctAlertOnEntryWhileBaseStands
<1>1. Init => PctAlertOnEntryWhileBaseStands
  BY DEF Init, PctAlertOnEntryWhileBaseStands
<1>2. TypeOK /\ TypeOK' /\ PctAlertOnEntryWhileBaseStands /\ [Next]_vars
        => PctAlertOnEntryWhileBaseStands'
  <2> SUFFICES ASSUME TypeOK, TypeOK', PctAlertOnEntryWhileBaseStands, [Next]_vars
               PROVE  PctAlertOnEntryWhileBaseStands'
    OBVIOUS
  <2>1. ASSUME NEW price \in Prices, arm_alert(price) PROVE PctAlertOnEntryWhileBaseStands'
    BY <2>1, WatchAssumption DEF arm_alert, PctAlertOnEntryWhileBaseStands
  <2>2. ASSUME NEW price \in Prices, evaluate(price) PROVE PctAlertOnEntryWhileBaseStands'
    <3> PICK n \in Nat : n = Len(samples)
      BY <2>2, EvaluateAppends
    <3>0. /\ n \in DOMAIN samples /\ DOMAIN samples' = DOMAIN samples \cup {n + 1}
          /\ DOMAIN samples = 1 .. n /\ Window \in Nat \ {0}
          /\ \A i \in 1 .. n : samples[i] \in Prices /\ samples'[i] = samples[i]
      BY <2>2, EvaluateAppends, WatchAssumption DEF TypeOK, evaluate
    <3>1. UNCHANGED <<kind, threshold>>
      BY <2>2 DEF evaluate
    <3> SUFFICES ASSUME kind \in PctKinds, NEW i \in DOMAIN samples', i > Window + 1,
                        samples'[i - Window] = samples'[i - Window - 1]
                 PROVE  fired'[i] <=> Enters(i)'
      BY <3>1 DEF PctAlertOnEntryWhileBaseStands
    <3>2. CASE i \in DOMAIN samples
      <4>1. samples[i - Window] = samples[i - Window - 1]
        BY <3>0, <3>2
      <4>2. fired[i] <=> Enters(i)
        BY <3>2, <4>1 DEF PctAlertOnEntryWhileBaseStands
      <4> QED BY <2>2, <3>1, <3>2, <4>2, EvaluateAppends, InsideOfAppend
    <3>3. CASE i = n + 1
      <4>1. /\ (n + 1) - Window \in 1 .. n /\ n - Window \in 1 .. n
            /\ n > Window /\ n + 1 > Window
        BY <3>0, <3>3
      <4>2. PICK base \in Prices : base = samples'[(n + 1) - Window] /\ base = samples'[n - Window]
        <5>1. ((n + 1) - Window) - 1 = n - Window
          BY <3>0
        <5> QED BY <3>0, <3>3, <4>1, <5>1
      <4>3. /\ samples[n] \in Int /\ samples[n] > 0 /\ price \in Int /\ price > 0
            /\ base \in Int /\ base > 0 /\ threshold \in Int
        BY <3>0, WatchAssumption DEF TypeOK
      <4>4. window_base(samples', n + 1) = base
        BY <4>1, <4>2 DEF window_base
      <4>5. /\ kind' = kind /\ threshold' = threshold
            /\ samples'[n] = samples[n] /\ samples'[n + 1] = price
        BY <2>2, <3>1, EvaluateAppends
      <4>6. Inside(n + 1)' <=> holds_now(kind, threshold, price, base)
        BY <4>1, <4>2, <4>5 DEF Inside, window_base
      <4>7. Inside(n)' <=> holds_now(kind, threshold, samples[n], base)
        BY <4>1, <4>2, <4>5 DEF Inside, window_base
      <4>8. fired'[n + 1] <=> should_fire(kind, threshold, samples[n], price, base)
        BY <2>2, <4>4, EvaluateAppends
      <4>9. Enters(n + 1)' <=> Inside(n + 1)' /\ ~ Inside(n)'
        BY <2>2, EvaluateAppends DEF Enters, TypeOK
      <4>10. fired'[n + 1] <=> Enters(n + 1)'
        BY <4>3, <4>6, <4>7, <4>8, <4>9, PctCrossingIsEntering
      <4> QED BY <3>3, <4>10
    <3> QED BY <3>0, <3>2, <3>3
  <2>3. CASE UNCHANGED vars
    BY <2>3 DEF vars, PctAlertOnEntryWhileBaseStands, Enters, Inside, window_base
  <2> QED BY <2>1, <2>2, <2>3 DEF Next
<1> QED BY <1>1, <1>2, TypeCorrect, PTL DEF Spec
=============================================================================
