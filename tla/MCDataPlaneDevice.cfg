SPECIFICATION DeviceSpec
CONSTANTS
    MaxPayload = 2
    MaxTransfer = 3
    MaxTransferId = 2
    MaxWindow = 2
    MaxRetransmissions = 3
    ReceiverTimeout = 5
    MaxIoFailures = 1
    MaxUnread = 2
    Frames <- MCFrames
INVARIANTS
    TerminalAgreesWithEndpoint
    BytesOnceInOrder
