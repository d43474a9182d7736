\* Goroutines have the same names in every part, so that one permutation serves all.
CONSTANTS
    Apps = {app}
    Infra = {nas}
    Statuses = {online, unknown}
    Unknown = unknown
    Refreshers = {r1, r2}
    Repairs = {fix}
    MaxPerSubject = 2
    MaxTime = 3
    MaxChanges = 1
    MaxRepairs = 1
    MaxOutages = 1
    MaxFailures = 1
    MaxPrunes = 1
    MaxRestarts = 1
    Garbage = Garbage
    MaxRecords = 3
    MaxWriteFails = 1
    MaxStops = 2
    SessionTokens = {k1}
    NoteCap = 1
    MaxWrites = 3
    Polls = {r1, r2}
    BucketWindow = 2
    WindowSamples = 2
    MaxTicks = 3
    MaxReadings = 4
    MaxFaults = 1
    Subscriptions = {1}
    Refreshes = {r1, r2}
    RateLimitWindow = 1
    MaxMinute = 1
    MaxNotices = 4
    MaxEdits = 1
    MaxLost = 1
    None = None
SYMMETRY Symmetry
SPECIFICATION MCSpec
INVARIANTS
    TypeOK
    RecorderFollowsLog
    OneLostPerTear
    ReadingsKept
    NoticesHold
PROPERTIES
    ChainUnbroken
    HistoryDurable
    StoreDurable
CHECK_DEADLOCK FALSE
