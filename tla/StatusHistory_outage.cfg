CONSTANTS
    Apps = {app}
    Infra = {}
    Statuses = {online, offline, unknown}
    Unknown = unknown
    Refreshers = {poller}
    Repairs = {}
    MaxPerSubject = 2
    MaxTime = 20
    MaxChanges = 0
    MaxRepairs = 0
    MaxOutages = 1
    MaxFailures = 0
    MaxPrunes = 0
    MaxRestarts = 0
    None = None
SPECIFICATION Spec
INVARIANT HistoryCurrent
CHECK_DEADLOCK FALSE
