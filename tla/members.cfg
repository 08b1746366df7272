\* A move or a deletion, garbled pages, a failed run; and everything settles.
SPECIFICATION MCFairSpec
CONSTANTS
    Members = {m1, m2}
    Units = {u1, u2}
    Ids = {r1, r2}
    None = None
    Grace = 2
    Stale = 1
    MinCandidates = 1
    Percent = 40
    MaxMutations = 2
    MaxChanges = 1
    MaxGlitches = 2
    MaxFailures = 1
INVARIANTS
    TypeOK
    OneRowPerMember
PROPERTIES
    NobodyHereIsDeleted
    EventuallyListed
    EventuallyRemoved
