\* Two periods, two groups, one slot: changes of category, time and deletions, and a backfill.
SPECIFICATION Spec
CONSTANTS
    Periods = {p1,p2}
    Groups = {g1,g2}
    NoGroup = NoGroup
    Slots = {s1}
    Exportable = {s1}
    None = None
    Workers = {w1}
    Editors = {x1,x2}
    MaxReceive = 3
    MaxEdits = 3
    MaxScans = 1
    MaxFaults = 0
CONSTRAINT ApartFromPhase1
SYMMETRY Symmetry
\* Once the bounds are used up and the queue is empty nothing is left to do.
CHECK_DEADLOCK FALSE
INVARIANTS
    SettledIsRight
    RosterOfOneGroup
