CONSTANTS
    Threads = {t1, t2}
    Apps = {plex}
    Array = array
    Device = device
    Targets = {plex, array, device}
    Tokens = {}
    Requests = {q1}
    Kinds = {"request", "deny", "create"}
    TokenTTL = 2
    MaxAttempts = 2
    MaxClock = 1
    MaxControls = 2
    MaxToggles = 0
    Cooldown = 1
    Window = 3
    Limit = 2
    None = None
SPECIFICATION Spec
PROPERTY RequestDecidedOnce
CHECK_DEADLOCK FALSE
