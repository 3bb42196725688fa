SPECIFICATION FairSpec
CONSTANTS
    None = None
    a1 = a1
    a2 = a2
    Alerts = {a1, a2}
    PollJobs = {worker}
    Manual = {}
    SyncJobs = {}
    Requests = {r1}
    Prices = {1, 2}
    FirstPrices = {1}
    NewAlerts <- MCNone
    Existing <- MCWithOneShot
    Patches <- MCEdits
    MaxActiveAlerts = 2
    Retention = 4
    EventRetention = 2
    Epoch = 20
    MaxTime = 27
    Interval = 3
    SyncInterval = 100
    SyncAt = 20
    Slack = 1
    MaxPatches = 1
    MaxDeletes = 1
    MaxCrashes = 1
INVARIANTS
    ParkedHasEvent
    EventsHaveAlerts
PROPERTIES
    PausedStaysPaused
    CoolingEndsBesideOthers
CHECK_DEADLOCK FALSE
