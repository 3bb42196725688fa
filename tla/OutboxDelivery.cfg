SPECIFICATION FairSpec
CONSTANTS
    None = None
    Rows = {m1, m2}
    Workers = {w1, w2}
    Retries = 1
    BatchSize = 2
    HasChats = TRUE
    HoursPerDay = 4
    QuietFrom = 3
    QuietTo = 1
    Patience = 1
    MaxLost = 1
    MaxCrashes = 1
INVARIANTS
    TypeOK
    OneRunPerRow
    OneCopyUnlessLost
    PutOffToTheEndOfQuiet
    SentWasDelivered
PROPERTIES
    GivenUpOnlyWhenExhausted
    SettlesUnlessCancelled
    KeepsPromise
