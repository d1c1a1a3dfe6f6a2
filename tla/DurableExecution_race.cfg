\* Two callers race on one key, with the same or a different payload.
SPECIFICATION Spec
CONSTANTS
    None = None
    c1 = c1
    c2 = c2
    w1 = w1
    r1 = r1
    r2 = r2
    k1 = k1
    k2 = k2
    y1 = y1
    y2 = y2
    Caller = {c1, c2}
    Worker = {}
    Req = {r1, r2}
    Key = {k1}
    EraseKey = {k1}
    Payload = {y1, y2}
    Channel = {"outbox"}
    MaxFaults = 2
SYMMETRY Symmetric
INVARIANTS
    Inv
    OneRequestPerKey
    DataCommitsWithRecord
    EvidenceIsKept
PROPERTIES
    FailedIsFinal
