CONSTANTS
    Threads = {t1, t2}
    Apps = {plex}
    Array = array
    Device = device
    Targets = {plex, array, device}
    Tokens = {}
    Requests = {q1}
    Kinds = {"request", "deny", "create"}
    TokenTTL = 2
    MaxAttempts = 2
    MaxClock = 1
    MaxControls = 1
    MaxToggles = 1
    Cooldown = 1
    Window = 3
    Limit = 2
    None = None
SPECIFICATION FairSpec
INVARIANT RequestOutcomeTrue
PROPERTY HandlersFinish
CHECK_DEADLOCK FALSE
