\* Requests, and what they are about, have the same names in every part, so that one
\* permutation serves all.
CONSTANTS
    Targets = {k1, k2}
    Callers = {r1, r2}
    Cooldown = 2
    Window = 3
    Limit = 2
    MaxClock = 4
    Second = 2
    MaxGrants = 3
    Users = {ann}
    Tokens = {k1, k2}
    LoneToken = k3
    Requests = {r1, r2}
    Admins = {a1}
    SessionTimeout = 1
    RememberTimeout = 1
    ArmDuration = 2
    MaxSessions = 1
    MaxStored = 1
    MaxRestarts = 1
    BusyKinds = {"me", "logout"}
    BusyClock = 0
    BusySaves = 1
    AgingKinds = {"read", "me", "arm"}
    AgingClock = 3
    AgingSaves = 0
    LoginKeys = {addr1, addr2, addr3}
    Attempts = {r1, r2}
    MaxLoginFailures = 2
    FailureWindow = 1
    Lockout = 2
    MaxFailureKeys = 2
    MaxHour = 2
    MaxGuesses = 5
    Savers = {r1, r2}
    Names = {"admin", "viewer", "bob"}
    AdminNames = {"admin", "root"}
    MaxAccountSaves = 3
    MaxStarts = 1
    None = None
SYMMETRY Symmetry
SPECIFICATION MCSpec
INVARIANTS
    CooldownHeld
    GlobalCapHeld
    RetryAfterSufficient
    IInv
    AdmittedWhileValid
    SessionCapHeld
    NoSessionAfterExpiry
    ArmedWithinSession
    ThrottleHolds
    UniqueAccounts
PROPERTY ImplementsBudget
CHECK_DEADLOCK FALSE
