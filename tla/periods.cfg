SPECIFICATION Spec
CONSTANTS
    Ids = {p1, p2}
    Members = {m1}
    Guest = Guest
    Units = {u1, u2}
    Handlers = {h1, h2}
    None = None
    IndexLags = TRUE
    MaxCalls = 3
    MaxFailures = 1
SYMMETRY Symmetry
CHECK_DEADLOCK FALSE
INVARIANTS
    TypeOK
    OpenIndexIsExact
    LiveIndexMissesNone
    CloseIsTold
    AuditHasSignInsAndOuts
PROPERTIES
    RowsSpec
