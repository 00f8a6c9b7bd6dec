\* One broadcast recorded, with any one event of any kind but a lost lock or an
\* enqueue, and one probe that names a length and no status.
SPECIFICATION Spec
CONSTANTS
    b1 = b1
    Videos = {b1}
    Captures = {1, 2}
    Sessions = {1, 2}
    MinLength = 3
    MaxLength = 3
    MaxFaults <- Anything
    MaxTrouble = 1
    NoVideo = NoVideo
INVARIANTS
    TypeOK
    NoDoubleRecord
    SessionOwned
    VerifiedIsComplete
PROPERTIES
    RecordingKept
    SessionVerdictFinal
    FollowsLifecycle
    BootFreesSessions
\* Everything is recorded, and nothing is asked for any more.
CHECK_DEADLOCK FALSE
