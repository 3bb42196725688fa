SPECIFICATION FairSpec
CONSTANTS
    None = None
    Rows = {m1, m2, m3}
    Workers = {w1}
    Retries = 1
    BatchSize = 3
    HasChats = TRUE
    HoursPerDay = 2
    QuietFrom = None
    QuietTo = None
    Patience = 2
    MaxLost = 0
    MaxCrashes = 0
PROPERTIES
    Settles
