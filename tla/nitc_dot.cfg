\* One invocation at a time, overlapping edits and a fault.
SPECIFICATION FairSpec
CONSTANTS
    Periods = {p1}
    Groups = {g1}
    NoGroup = NoGroup
    Slots = {s1}
    Exportable = {s1}
    None = None
    Workers = {w1}
    Editors = {x1,x2}
    MaxReceive = 2
    MaxEdits = 3
    MaxScans = 0
    MaxFaults = 1
\* The edits may be over and the queue empty.
CHECK_DEADLOCK FALSE
INVARIANTS
    GreenMeansExported
PROPERTIES
    QueueDrains
