\* Two events at two units by two scanners and the night, dated up to two days back or one ahead;
\* four evenings, two faults. The bounds end the run.
SPECIFICATION Spec
SYMMETRY ScannerSymmetry
CONSTANTS
    Units = {u1, u2}
    Scanners = {k1, k2}
    None = None
    Threshold = 1
    Evenings = 2
    Back = 1
    MaxAgo = 2
    MaxAhead = 1
    MaxAttempts = 2
    MaxEvents = 2
    MaxDay = 6
    MaxFaults = 2
INVARIANTS
    TypeOK
    CountsEveryEvent
    CelebratedOnce
    EachWinIsMailed
CHECK_DEADLOCK FALSE
