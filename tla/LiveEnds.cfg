\* A broadcast recorded to its end, through a crash or an enqueue.
SPECIFICATION FairSpec
CONSTANTS
    b1 = b1
    Videos = {b1}
    Captures = {1, 2}
    Sessions = {1, 2}
    MinLength = 1
    MaxLength = 1
    MaxFaults <- Endings
    MaxTrouble = 1
    NoVideo = NoVideo
PROPERTIES
    StagedPublished
    ParkedResolved
    ChannelReprobed
    VodNeverRefetched
\* Everything is recorded, and nothing is asked for any more.
CHECK_DEADLOCK FALSE
