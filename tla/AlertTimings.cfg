SPECIFICATION TimedSpec
CONSTANTS
    None = None
    a1 = a1
    a2 = a2
    Alerts = {a1, a2}
    PollJobs = {worker}
    Manual = {}
    SyncJobs = {sync}
    Requests = {r1}
    Prices = {1, 2}
    FirstPrices = {1}
    NewAlerts <- MCTimedSpecs
    Existing <- MCKeeper
    Patches <- MCTimedEdits
    MaxActiveAlerts = 2
    Retention = 100
    EventRetention = 100
    Epoch = 20
    MaxTime = 28
    Interval = 3
    SyncInterval = 100
    SyncAt = 22
    Slack = 1
    MaxPatches = 1
    MaxDeletes = 0
    MaxCrashes = 1
CONSTRAINT
    MCCalm
INVARIANTS
    TypeOK
    NoSilentEntry
    OncePerStay
    CooldownRespected
    OneShotSpeaksOnce
    SwallowsOnlyRepeats
PROPERTIES
    CoolsUntilDue
CHECK_DEADLOCK FALSE
