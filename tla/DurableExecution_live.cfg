\* The expiry worker is scheduled; calls and workers compete for one row lock.
SPECIFICATION FairSpec
CONSTANTS
    None = None
    c1 = c1
    c2 = c2
    w1 = w1
    r1 = r1
    r2 = r2
    k1 = k1
    k2 = k2
    y1 = y1
    y2 = y2
    Caller = {c1}
    Worker = {w1}
    Req = {r1}
    Key = {k1}
    EraseKey = {k1}
    Payload = {y1}
    Channel = {"outbox"}
    MaxFaults = 2
PROPERTIES
    ExpiredBytesAreErased
    CallsReturn
