SPECIFICATION Spec
CONSTANTS
    v1 = v1
    v2 = v2
    r1 = r1
    r2 = r2
    Videos = {v1}
    Downloads = {1}
    Verifies = {3, 4}
    Requests = {r1, r2}
    Asks = {"enqueue", "cancel", "pause", "resume"}
    Concurrency = 1
    DownloadAttempts = 2
    VerifyAttempts = 1
    MaxSignals = 1
    MaxFaults <- Restarts
    NoVideo = NoVideo
SYMMETRY RequestSymmetry
INVARIANTS
    RunnerOwnsRow
PROPERTIES
    PauseKept
CHECK_DEADLOCK FALSE
