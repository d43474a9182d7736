CONSTANTS
    Apps = {a1}
    MaxTroubles = 1
    None = None
SPECIFICATION Spec
INVARIANT SlowLinkReported
CHECK_DEADLOCK FALSE
