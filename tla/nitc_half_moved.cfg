\* One invocation at a time, edits that do not overlap it, and one crash.
SPECIFICATION AllEditsSpec
CONSTANTS
    Periods = {p1}
    Groups = {g1}
    NoGroup = NoGroup
    Slots = {s1,s2}
    Exportable = {s1,s2}
    None = None
    Workers = {w1}
    Editors = {x1}
    MaxReceive = 3
    MaxEdits = 2
    MaxScans = 0
    MaxFaults = 1
SYMMETRY Symmetry
\* Once the bounds are used up and the queue is empty nothing is left to do.
CHECK_DEADLOCK FALSE
INVARIANTS
    ListedOnce
