\* An entity anonymized in part, one deleted with what refers to it, one without identities.
SPECIFICATION Spec
CONSTANTS
    None = None
    Entity <- Entities
    i1 = i1
    i2 = i2
    Id = {i1, i2}
    Rule <- Rules
    Cascade <- Cascades
    Identified = {1, 2}
    MaxEdits = 1
SYMMETRY Symmetric
INVARIANTS
    SuccessIsErased
PROPERTIES
    WritesAreApproved
CHECK_DEADLOCK FALSE
