\* The owner enqueues a broadcast while it is detected.
SPECIFICATION Spec
CONSTANTS
    b1 = b1
    Videos = {b1}
    Captures = {1, 2}
    Sessions = {1, 2}
    MinLength = 1
    MaxLength = 1
    MaxFaults <- Enqueued
    MaxTrouble = 1
    NoVideo = NoVideo
INVARIANTS
    OneWriter
\* Everything is recorded, and nothing is asked for any more.
CHECK_DEADLOCK FALSE
