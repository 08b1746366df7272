\* Two invocations and a fault; the period moves between the days of two events.
SPECIFICATION HSpec
CONSTANTS
    Periods = {p1}
    Groups = {g1}
    NoGroup = NoGroup
    Slots = {s1,s2}
    Exportable = {s1,s2}
    None = None
    Workers = {w1,w2}
    Editors = {x1}
    MaxReceive = 2
    MaxEdits = 2
    MaxScans = 0
    MaxFaults = 1
SYMMETRY Symmetry
\* Once the bounds are used up and the queue is empty nothing is left to do.
CHECK_DEADLOCK FALSE
INVARIANTS
    TypeOK
    ParticipantOfOwnEvent
    NoVersionFromTheFuture
    OneNitcPerEvent
    SentToItsIssuer
PROPERTIES
    ExportedNeverRegresses
    SyncedNeverRegresses
