\* Two periods that move between the days of two events.
SPECIFICATION FairAllEditsSpec
CONSTANTS
    Periods = {p1,p2}
    Groups = {g1}
    NoGroup = NoGroup
    Slots = {s1,s2}
    Exportable = {s1,s2}
    None = None
    Workers = {w1}
    Editors = {x1,x2}
    MaxReceive = 3
    MaxEdits = 4
    MaxScans = 0
    MaxFaults = 0
\* The edits may be over and the queue empty.
CHECK_DEADLOCK FALSE
INVARIANTS
    BumpedIsExportedAgain
PROPERTIES
    EventuallyExported
