SPECIFICATION FairSpec
CONSTANTS
    None = None
    a1 = a1
    a2 = a2
    Alerts = {a1}
    PollJobs = {worker}
    Manual = {}
    SyncJobs = {}
    Requests = {r1}
    Prices = {1, 2}
    FirstPrices = {1}
    NewAlerts <- MCNone
    Existing <- MCOne
    Patches <- MCNoPatches
    MaxActiveAlerts = 1
    Retention = 100
    EventRetention = 100
    Epoch = 20
    MaxTime = 32
    Interval = 3
    SyncInterval = 100
    SyncAt = 20
    Slack = 1
    MaxPatches = 0
    MaxDeletes = 0
    MaxCrashes = 0
PROPERTIES
    CoolingEnds
CHECK_DEADLOCK FALSE
