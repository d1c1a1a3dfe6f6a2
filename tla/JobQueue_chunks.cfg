\* A worker, a cleanup, a reader and the purge compete for the chunks of a job.
SPECIFICATION FairSpec
CONSTANTS
    None = None
    j1 = j1
    j2 = j2
    w1 = w1
    w2 = w2
    d1 = d1
    d2 = d2
    r1 = r1
    r2 = r2
    Job = {j1}
    Worker = {w1}
    Cleaner = {d1}
    Reader = {r1}
    MaxAttempts = 2
    Batch = 1
    Limit = 1
    MaxPages = 3
    MaxRetries = 1
    MaxFaults = 1
INVARIANTS
    ChunksAreContiguous
    CleanupHolds
    ReadsAreWhole
PROPERTIES
    ImplementsLifecycle
    JobsEnd
    ExpiredIsPurged
