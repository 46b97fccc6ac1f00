SPECIFICATION Spec
CONSTANTS
    Paths = {p1, p2}
    Size = 2
    MaxSessions = 4
    MaxSequence = 6
    MaxFailures = 3
    MaxResets = 2
INVARIANTS
    CommittedSurvives
CHECK_DEADLOCK FALSE
PROPERTY ReplacesAtomically
