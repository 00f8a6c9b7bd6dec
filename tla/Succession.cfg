SPECIFICATION Spec
CONSTANTS
    v1 = v1
    v2 = v2
    r1 = r1
    r2 = r2
    Videos = {v1}
    Downloads = {1, 2}
    Verifies = {3}
    Requests = {r1}
    Asks = {"enqueue", "cancel", "pause", "resume"}
    Concurrency = 2
    DownloadAttempts = 1
    VerifyAttempts = 1
    MaxSignals = 1
    MaxFaults <- Rejections
    NoVideo = NoVideo
INVARIANTS
    TypeOK
    OneActiveDownload
    NoTwin
    QueuedHasExecution
    NoZombieVideo
PROPERTIES
    PartialKept
    StaleVerdictFree
CHECK_DEADLOCK FALSE
