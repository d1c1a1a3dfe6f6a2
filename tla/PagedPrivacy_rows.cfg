\* Up to two entities, three keys, pages of two rows.
SPECIFICATION FairSpec
CONSTANTS
    None = None
    Id <- Ids
    Policies <- SomePolicies
    Batch = 2
INVARIANTS
    ScopeIsErased
    EachRowOnce
    NumbersAgree
    ChangesAreKnown
PROPERTIES
    JobEnds
