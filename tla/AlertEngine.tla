---------------------------- MODULE AlertEngine ----------------------------
(***************************************************************************)
(* The pure alert rules of backend/app/services/alert_engine.py.           *)
(*                                                                         *)
(* Prices, thresholds and times are integers.  A percentage is never       *)
(* divided out: pct_change is kept as a numerator over its (positive) base *)
(* and the threshold is scaled by the same base, which compares exactly as *)
(* the Decimal quotient does.  Times are counted in the unit the cooldown  *)
(* is given in.                                                            *)
(***************************************************************************)
EXTENDS Integers

CONSTANT None     \* Python's None: no sample, no base price, never triggered

ASSUME NoneAssumption == None \notin Int \cup BOOLEAN

PriceKinds == {"price_above", "price_below"}
PctKinds   == {"pct_up", "pct_down"}
Kinds      == PriceKinds \cup PctKinds

\* (current - base) / base * 100, as the numerator over base
pct_change(base, current) == (current - base) * 100

\* mutant: standing on the threshold counts as outside (here and below)
crosses_up_from_edge(threshold, previous, current) ==
    previous <= threshold /\ threshold <= current

crosses_up(threshold, previous, current) ==
    previous < threshold /\ threshold <= current

crosses_down_from_edge(threshold, previous, current) ==
    previous >= threshold /\ threshold >= current

crosses_down(threshold, previous, current) ==
    previous > threshold /\ threshold >= current

\* An unusable price: absent, or not positive
unusable(price) == IF price = None THEN TRUE ELSE price <= 0

\* mutant: the sign of a percentage fall is lost
should_fire_unsigned(kind, threshold, previous, current, base) ==
    /\ ~ unusable(previous) /\ ~ unusable(current)
    /\ \/ kind = "price_above" /\ crosses_up(threshold, previous, current)
       \/ kind = "price_below" /\ crosses_down(threshold, previous, current)
       \/ /\ kind \in PctKinds /\ ~ unusable(base)
          /\ LET was == pct_change(base, previous)
                 is  == pct_change(base, current)
             IN  \/ kind = "pct_up"   /\ crosses_up(threshold * base, was, is)
                 \/ kind = "pct_down" /\ crosses_down(threshold * base, was, is)

should_fire(kind, threshold, previous, current, base) ==
    /\ ~ unusable(previous) /\ ~ unusable(current)
    /\ \/ kind = "price_above" /\ crosses_up(threshold, previous, current)
       \/ kind = "price_below" /\ crosses_down(threshold, previous, current)
       \/ /\ kind \in PctKinds /\ ~ unusable(base)
          /\ LET was == pct_change(base, previous)
                 is  == pct_change(base, current)
             IN  \/ kind = "pct_up"   /\ crosses_up(threshold * base, was, is)
                 \/ kind = "pct_down" /\ crosses_down(-(threshold * base), was, is)

holds_now(kind, threshold, current, base) ==
    /\ ~ unusable(current)
    /\ \/ kind = "price_above" /\ current >= threshold
       \/ kind = "price_below" /\ current <= threshold
       \/ /\ kind \in PctKinds /\ ~ unusable(base)
          /\ LET move == pct_change(base, current)
             IN  \/ kind = "pct_up"   /\ move >= threshold * base
                 \/ kind = "pct_down" /\ move <= -(threshold * base)

\* mutant: the cooldown is dropped
is_cooling_never(last_triggered_at, cooldown, now) == FALSE

is_cooling(last_triggered_at, cooldown, now) ==
    IF last_triggered_at = None THEN FALSE ELSE now < last_triggered_at + cooldown

in_quiet_hours(local_hour, quiet_from, quiet_to) ==
    /\ quiet_from # None /\ quiet_to # None /\ quiet_from # quiet_to
    /\ IF quiet_from < quiet_to
       THEN quiet_from <= local_hour /\ local_hour < quiet_to
       ELSE local_hour >= quiet_from \/ local_hour < quiet_to

\* mutant: the window is an hour for every minute of cooldown
dedupe_bucket_wide(sampled_at, cooldown) ==
    sampled_at \div ((IF cooldown > 1 THEN cooldown ELSE 1) * 60)

dedupe_bucket(sampled_at, cooldown) ==
    sampled_at \div (IF cooldown > 1 THEN cooldown ELSE 1)
=============================================================================
