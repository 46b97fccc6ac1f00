SPECIFICATION FairSpec
CONSTANTS
    MaxPayload = 2
    MaxTransfer = 3
    MaxTransferId = 3
    MaxWindow = 2
    MaxRetransmissions = 3
    ReceiverTimeout = 5
    MaxIoFailures = 1
    MaxAttempts = 3
    HostWindow = 2
    MaxUploads = 2
    MaxLosses = 2
    MaxDamaged = 1
INVARIANTS
    SuccessMeansCommitted
    DuplicatesRecognised
    RetriesSurviveLoss
PROPERTIES
    UploadEnds
    DeviceReleased
CHECK_DEADLOCK FALSE
