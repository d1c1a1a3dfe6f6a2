\* Two workers, one delivery: the pages of one job.
SPECIFICATION FairSpec
CONSTANTS
    None = None
    r1 = r1
    r2 = r2
    w1 = w1
    w2 = w2
    s1 = s1
    s2 = s2
    f1 = f1
    f2 = f2
    Receiver = {r1}
    Worker = {w1, w2}
    Subject = {s1}
    Fingerprint = {f1}
    MaxAttempts = 2
    MaxRetries = 1
    MaxFaults = 1
INVARIANTS
    ChangesAreFenced
    ResultsAreTrue
PROPERTIES
    JobEnds
