\* Two workers, a reader and a cleanup on the artifact of request 2, next to what is left of 1.
SPECIFICATION FairSpec
CONSTANTS
    None = None
    w1 = w1
    w2 = w2
    r1 = r1
    d1 = d1
    x = x
    y = y
    Req = {1, 2}
    Old = {1}
    Worker = {w1, w2}
    Reader = {r1}
    Cleaner = {d1}
    Content = {x, y}
    Retention = 4
    Grace = 2
    Second = 2
    Asked = {1, 2}
    Start = 1
    MaxTime = 5
    MaxFaults = 1
INVARIANTS
    ArtifactsAreKept
    NothingOutlivesExpiry
PROPERTIES
    LeftoversAreRemoved
CHECK_DEADLOCK FALSE
