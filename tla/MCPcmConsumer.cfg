SPECIFICATION FairAudio
CONSTANTS Descriptors = 3 EpochMod = 6 MaxFaults = 2 RingCapacity = 2 Prefill = 1 MaxUnits = 4
CONSTANTS TaskFaults = 1
CONSTANTS Script <- TwoEvents EndQuantum = 2 QueueCapacity = 1 SlotCapacity = 1 PrefillSlots = 1
CONSTANTS Plan <- SmallPlan FramesPerQuantum = 2 Quanta = 2 EventCapacity = 3 RunCapacity = 2
CONSTANTS GuestCapacity = 3 GuestPrefill = 2
INVARIANTS DrainedWasPlayed QuiescentIsQuiet VerdictIsTruth ReleasedAtRest
PROPERTY AudioEnds
CHECK_DEADLOCK FALSE
