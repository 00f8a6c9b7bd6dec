SPECIFICATION FairSpec
CONSTANTS
    v1 = v1
    d1 = d1
    NoVideo = NoVideo
    Videos = {v1}
    Checks = {1, 2}
    Workers = {1, 2}
    Failures = {3, 4}
    Deletes = {d1}
    Threshold = 2
    MaxEvents <- Events
    MaxTrouble = 2
INVARIANTS
    TypeOK
    OneAlertPerLoss
    AlertsDeduped
    HeldHasMedia
PROPERTIES
    GoneConfirmed
    ReclaimSparesDownload
    CheckedAgain
CHECK_DEADLOCK FALSE
