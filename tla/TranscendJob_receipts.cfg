\* Two receivers and two workers: deliveries that agree or contradict each other.
SPECIFICATION Spec
CONSTANTS
    None = None
    r1 = r1
    r2 = r2
    w1 = w1
    w2 = w2
    s1 = s1
    s2 = s2
    f1 = f1
    f2 = f2
    Receiver = {r1, r2}
    Worker = {w1, w2}
    Subject = {s1, s2}
    Fingerprint = {f1, f2}
    MaxAttempts = 1
    MaxRetries = 0
    MaxFaults = 1
SYMMETRY Symmetry
INVARIANTS
    OneErasure
