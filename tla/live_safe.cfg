\* Lost, repeated and reordered messages, a lagging index, requests that cross, a failure, an
\* interruption, a quiet day.
SPECIFICATION Spec
CONSTANTS
    Periods = {p1}
    None = None
    IndexLags = TRUE
    Crossing = TRUE
    MaxVersion = 2
    MaxFetches = 2
    MaxFailures = 1
    MaxDrops = 1
\* Everyone may be signed out and everything quiet.
CHECK_DEADLOCK FALSE
INVARIANTS
    TypeOK
    PolledOrAttached
    LiveMeansCaughtUp
PROPERTIES
    ClosedStaysClosed
    BufferedIsApplied
    NoFlicker
