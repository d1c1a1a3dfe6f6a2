\* Two and three entities under all kinds of policies, relations and dependencies.
SPECIFICATION ErasureSpec
CONSTANTS
    None = None
    Entity = {1, 2, 3}
    Family <- Families
INVARIANTS
    ListIsOrdered
    LintIsSound
CHECK_DEADLOCK FALSE
