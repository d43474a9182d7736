\* Goroutines have the same names in every part, so that one permutation serves all.
CONSTANTS
    Apps = {a1, a2}
    MaxTroubles = 3
    Callers = {c1, c2}
    MaxDoubts = 3
    MaxCalls = 2
    Devices = {switch, gateway}
    Gateways = {gateway}
    Admins = {c1, c2}
    Attempts = 2
    MaxChanges = 4
    Browser = {b1, b2}
    Headless = {h1}
    Workers = {c1, c2}
    BrowserTTL = 1
    HeadlessTTL = 1
    MaxNow = 2
    MaxCallbacks = 2
    MaxBroken = 1
    Calls = {c1, c2}
    Clients = {k1, k2}
    Lifetime = 3
    Margin = 1
    MaxTime = 5
    MaxTokens = 3
    MaxFailures = 1
    None = None
SYMMETRY Symmetry
SPECIFICATION MCSpec
INVARIANTS
    ReportsBacked
    RestartStartsAgain
    SuccessIsTrue
    RestartsBacked
    SingleUse
    ReplacedTokenUnused
    SentInTime
PROPERTY HiddenAppsSilent
CHECK_DEADLOCK FALSE
