\* Edits that overlap Phase 1: an edit never reaches SES.
SPECIFICATION Spec
CONSTANTS
    Periods = {p1}
    Groups = {g1}
    NoGroup = NoGroup
    Slots = {s1}
    Exportable = {s1}
    None = None
    Workers = {w1}
    Editors = {x1,x2}
    MaxReceive = 3
    MaxEdits = 3
    MaxScans = 0
    MaxFaults = 0
SYMMETRY Symmetry
\* Once the bounds are used up and the queue is empty nothing is left to do.
CHECK_DEADLOCK FALSE
INVARIANTS
    SettledIsRight
