CONSTANTS
    Threads = {t1, t2}
    Apps = {plex}
    Array = array
    Device = device
    Targets = {plex, array, device}
    Tokens = {n1}
    Requests = {}
    Kinds = {"plan", "array", "direct", "auto", "unifi", "control"}
    TokenTTL = 2
    MaxAttempts = 2
    MaxClock = 2
    MaxControls = 2
    MaxToggles = 1
    Cooldown = 1
    Window = 2
    Limit = 2
    None = None
SYMMETRY Symmetry
SPECIFICATION Spec
ACTION_CONSTRAINT OneMix
INVARIANTS
    TypeOK
    ControlsGated
    EveryControlReserved
    TokenOncePerLifetime
CHECK_DEADLOCK FALSE
