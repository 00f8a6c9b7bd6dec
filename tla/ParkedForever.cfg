\* A crash while a recording is parked.
SPECIFICATION Spec
CONSTANTS
    b1 = b1
    Videos = {b1}
    Captures = {1, 2}
    Sessions = {1, 2}
    MinLength = 1
    MaxLength = 1
    MaxFaults <- Crashed
    MaxTrouble = 1
    NoVideo = NoVideo
INVARIANTS
    ParkedHasSession
\* Everything is recorded, and nothing is asked for any more.
CHECK_DEADLOCK FALSE
