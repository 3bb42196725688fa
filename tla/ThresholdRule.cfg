SPECIFICATION Spec
CONSTANTS
    None = None
    Prices = {8, 9, 10, 11, 12}
    Thresholds = {10, 20}
    WatchedKinds <- MCKinds
    Window = 2
    MaxSamples = 5
INVARIANTS
    PriceAlertOncePerStay
    PctAlertOnEntryWhileBaseStands
    FiresOnlyInside
CHECK_DEADLOCK FALSE
