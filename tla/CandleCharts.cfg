SPECIFICATION Spec
CONSTANTS
    None = None
    Prices = {1, 2}
    Jobs = {j1, j2}
    Width = 2
    Lookback = 2
    KeepSnapshots = 3
    KeepCandles = 5
    Slack = 1
    Histories <- MCHistories
    MaxTime = 6
    MaxSamples = 3
SYMMETRY MCSymmetry
INVARIANTS
    CandleHoldsSamples
    LastWordStands
CHECK_DEADLOCK FALSE
