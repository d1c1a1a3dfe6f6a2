\* A caller and an expiry worker on an erasure and an export, both channels.
SPECIFICATION Spec
CONSTANTS
    None = None
    c1 = c1
    c2 = c2
    w1 = w1
    r1 = r1
    r2 = r2
    k1 = k1
    k2 = k2
    y1 = y1
    y2 = y2
    Caller = {c1}
    Worker = {w1}
    Req = {r1, r2}
    Key = {k1, k2}
    EraseKey = {k1}
    Payload = {y1}
    Channel = {"outbox", "audit"}
    MaxFaults = 1
INVARIANTS
    CompletedIsStored
    AdviceHolds
    OutboxIsDurable
    AnnouncementsAreTrue
PROPERTIES
    OutcomesAreFinal
    ImplementsLifecycle
