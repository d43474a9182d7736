CONSTANTS
    Calls = {d1}
    Clients = {k1, k2}
    Lifetime = 3
    Margin = 1
    MaxTime = 5
    MaxTokens = 3
    MaxFailures = 0
    None = None
SPECIFICATION Spec
INVARIANT ReplacementStored
CHECK_DEADLOCK FALSE
