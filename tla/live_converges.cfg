\* Convergence under fairness.
SPECIFICATION FairSpec
CONSTANTS
    Periods = {p1}
    None = None
    IndexLags = FALSE
    Crossing = TRUE
    MaxVersion = 2
    MaxFetches = 2
    MaxFailures = 1
    MaxDrops = 1
\* Everyone may be signed out and everything quiet.
CHECK_DEADLOCK FALSE
PROPERTIES
    ShowsWhoIsHere
