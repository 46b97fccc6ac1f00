SPECIFICATION FairImages
CONSTANTS
    Capacity <- EqualCapacity
    Sizes = {1, 3}
    Rows = 2
    MaxFrames = 4
    MaxDrops = 2
    MaxLease = 2
    MaxFaults = 3
    Tiles = 3
    MaxSlices = 3
INVARIANTS
    AcquiredFrameIntact
    SlotsOutliveUse
    LitOverPicture
    EngineOwnsItsMemory
PROPERTIES
    LatestFrameWins
    PictureCatchesUp
    BenchmarkEnds
CHECK_DEADLOCK FALSE
