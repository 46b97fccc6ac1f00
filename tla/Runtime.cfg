SPECIFICATION FairSpec
CONSTANTS
    Owner = owner
    Stoppers = {s1, s2}
    Failers = {f1}
INVARIANTS
    TerminalAgrees
PROPERTIES
    EndHonoured
CHECK_DEADLOCK FALSE
