SPECIFICATION FairSpec
CONSTANTS
    None = None
    a1 = a1
    a2 = a2
    Alerts = {a1, a2}
    PollJobs = {worker, oneshot}
    Manual = {oneshot}
    SyncJobs = {}
    Requests = {r1}
    Prices = {1, 2}
    FirstPrices = {1}
    NewAlerts <- MCRaceSpecs
    Existing <- MCOne
    Patches <- MCNoPatches
    MaxActiveAlerts = 2
    Retention = 2
    EventRetention = 100
    Epoch = 20
    MaxTime = 21
    Interval = 1
    SyncInterval = 100
    SyncAt = 20
    Slack = 1
    MaxPatches = 0
    MaxDeletes = 1
    MaxCrashes = 0
INVARIANTS
    SampleFiresOnce
PROPERTIES
    JobsEnd
CHECK_DEADLOCK FALSE
