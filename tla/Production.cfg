SPECIFICATION Spec
CONSTANTS QueueCapacity = 1 MaxPlugs = 1 MaxInput = 2 FailingSteps = {2, 5} MaxTrouble = 1
INVARIANTS NoCallIntoDestroyed TeardownFailsForCause KeysReleased EverythingReleased
CHECK_DEADLOCK FALSE
PROPERTY RunEnds
