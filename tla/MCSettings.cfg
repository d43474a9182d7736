CONSTANTS
    Writers = {w1, w2}
    Readers = {r1}
    Poller = poller
    Kinds = {"visibility", "privacy", "icon", "catalog", "llm", "chatgpt"}
    MaxSaves = 2
    MaxRestarts = 1
    Handlers = {h1}
    Keys = {typed}
    FileKeys = {filed}
    Blank = Blank
    MaxLifeSaves = 2
    MaxStarts = 3
    Tools = {"status", "logs"}
    AppTools = {"logs"}
    AnyTool = "*"
    Actions = {"allow", "deny"}
    Apps = {plex}
    MaxModels = 2
    MaxBudget = 2
    MaxRules = 2
    MaxCalls = 2
    None = None
SPECIFICATION MCSpec
INVARIANTS
    TypeOK
    StoredAsOneState
    PartsFollowSettings
    SavedInForce
    PolicyHeld
PROPERTIES
    CacheCatchesUp
    RequestEnds
CHECK_DEADLOCK FALSE
