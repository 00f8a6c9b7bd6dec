SPECIFICATION Spec
CONSTANTS
    v1 = v1
    v2 = v2
    r1 = r1
    r2 = r2
    Videos = {v1}
    Downloads = {1, 2}
    Verifies = {3, 4}
    Requests = {r1}
    Asks = {"enqueue", "cancel"}
    Concurrency = 2
    DownloadAttempts = 1
    VerifyAttempts = 1
    MaxSignals = 1
    MaxFaults <- Locks
    NoVideo = NoVideo
INVARIANTS
    TwinFree
CHECK_DEADLOCK FALSE
