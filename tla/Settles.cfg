SPECIFICATION FairSpec
CONSTANTS
    v1 = v1
    v2 = v2
    r1 = r1
    r2 = r2
    Videos = {v1}
    Downloads = {1}
    Verifies = {3, 4}
    Requests = {r1}
    Asks = {"enqueue", "cancel", "pause"}
    Concurrency = 1
    DownloadAttempts = 1
    VerifyAttempts = 2
    MaxSignals = 1
    MaxFaults <- Stops
    NoVideo = NoVideo
INVARIANTS
    CancelNeverBlind
    VerifyingHasVerify
PROPERTIES
    DownloadSettles
    VideoSettles
CHECK_DEADLOCK FALSE
