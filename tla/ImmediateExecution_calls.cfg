\* Two calls, which may get one id.
SPECIFICATION Spec
CONSTANTS
    None = None
    c1 = c1
    c2 = c2
    r1 = r1
    Caller = {c1, c2}
    Req = {r1}
SYMMETRY Symmetric
INVARIANTS
    OutcomesAreTrue
    AnnouncementsAreTrue
