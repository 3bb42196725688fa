SPECIFICATION MarketSpec
CONSTANTS
    None = None
    Gone = Gone
    Users = {u1}
    Coins = {btc, eth}
    Holdings = {h1, h2}
    NewRow <- MCNewRow
    Patches <- MCPatches
    Requests = {r1, r2}
    Jobs = {j1, j2}
    TopN = 1
    PerPage = 1
    MaxBusy = 2
SYMMETRY MCSymmetry
INVARIANTS
    OneHoldingPerCoin
    TrackedIsTopList
PROPERTIES
    NoEditUndone
CHECK_DEADLOCK FALSE
