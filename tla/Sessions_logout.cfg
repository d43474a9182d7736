CONSTANTS
    Users = {ann}
    Tokens = {k1}
    Requests = {r1, r2}
    Admins = {}
    Kinds = {"read", "me", "logout"}
    SessionTimeout = 1
    RememberTimeout = 2
    ArmDuration = 2
    MaxSessions = 2
    MaxStored = 1
    MaxClock = 2
    MaxSaves = 0
    MaxRestarts = 0
    None = None
SYMMETRY Symmetry
SPECIFICATION Spec
INVARIANT LogoutFinal
CHECK_DEADLOCK FALSE
