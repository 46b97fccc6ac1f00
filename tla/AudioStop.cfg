SPECIFICATION Spec
CONSTANTS EventCapacity = 2 ByteCapacity = 2 MaxRun = 2 Quantum = 2 RingCapacity = 1 MaxFrame = 2 MaxSequence = 2
INVARIANT StopKeepsRun
CHECK_DEADLOCK FALSE
