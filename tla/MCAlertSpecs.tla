---------------------------- MODULE MCAlertSpecs ----------------------------
\* Alerts and edits for the instances of AlertPipeline and AlertTimings.
EXTENDS AlertEngine, TLC

CONSTANTS a1, a2

Spec1(kind, threshold, cooldown, one_shot) ==
    [kind |-> kind, threshold |-> threshold, window |-> None,
     cooldown |-> cooldown, one_shot |-> one_shot]

PatchOf(status, cooldown) ==
    [threshold |-> None, cooldown |-> cooldown, one_shot |-> None, status |-> status]

Above    == Spec1("price_above", 2, 4, FALSE)
AboveOne == Spec1("price_above", 2, 4, TRUE)
Below    == Spec1("price_below", 1, 4, FALSE)
Keeper   == Spec1("price_above", 9, 4, FALSE)    \* never reached: stays active
Pct      == [Spec1("pct_up", 50, 4, FALSE) EXCEPT !.window = 1]

MCRaceSpecs == {Above, Pct}
MCNoPatches == {}
MCNone == {}
MCEdits == {PatchOf("active", None), PatchOf("paused", None),
            [PatchOf("cooling", None) EXCEPT !.threshold = 1],
            [PatchOf(None, None) EXCEPT !.one_shot = TRUE]}
MCOne == a1 :> Above
MCKeeper == a2 :> Keeper
MCWithOneShot == a1 :> [Above EXCEPT !.cooldown = 3] @@ a2 :> [Below EXCEPT !.one_shot = TRUE]
=============================================================================
