\* Two workers take over one job from each other.
SPECIFICATION Spec
CONSTANTS
    None = None
    j1 = j1
    j2 = j2
    w1 = w1
    w2 = w2
    d1 = d1
    d2 = d2
    r1 = r1
    r2 = r2
    Job = {j1}
    Worker = {w1, w2}
    Cleaner = {}
    Reader = {}
    MaxAttempts = 2
    Batch = 1
    Limit = 1
    MaxPages = 2
    MaxRetries = 1
    MaxFaults = 2
SYMMETRY Symmetric
INVARIANTS
    PagesRunOnce
    AttemptsAreReal
PROPERTIES
    NoPageAfterExpiry
CHECK_DEADLOCK FALSE
