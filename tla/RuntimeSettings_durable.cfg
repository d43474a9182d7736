CONSTANTS
    Writers = {w1, w2}
    Readers = {}
    Poller = poller
    Kinds = {"visibility", "privacy"}
    MaxSaves = 2
    MaxRestarts = 0
    None = None
SYMMETRY Symmetry
SPECIFICATION Spec
INVARIANT SavesKept
CHECK_DEADLOCK FALSE
