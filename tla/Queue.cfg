SPECIFICATION Spec
CONSTANTS
    q1 = q1
    q2 = q2
    PriorityStart = 3
    PriorityGap = 2
    BullmqPriorityMax = 7
    Rows = {1, 2, 3}
    Adders = {q1}
    Movers = {q2}
    Boot = Boot
    ChunkSize = 2
    MaxEvents <- Events
    MaxTotal = 2
INVARIANTS
    TypeOK
    PrioritiesDistinct
    PrioritiesInRange
    MoveFindsPlace
    MirrorAgrees
PROPERTIES
    MoveReorders
CHECK_DEADLOCK FALSE
