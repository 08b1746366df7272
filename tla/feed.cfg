\* Two people, one of whom may be new; two writes or runs and one fault; one row to a page.
SPECIFICATION MCFairSpec
CONSTANTS
    N = 2
    Entities = {e1}
    None = None
    Limit = 1
    Settle = 2
    Late = 1
    Skew = 1
    Start = 2
    WriteUntil = 3
    MaxTime = 8
    MaxWrites = 2
    MaxFaults = 1
INVARIANTS
    TypeOK
    Settled
    CursorCovers
PROPERTIES
    CursorNeverMovesBack
    Converges
