SPECIFICATION Spec
CONSTANTS
    Dirs = {"project"}
    MaxProcs = 2
    MaxSessions = 1
    Resuming = {}
    Prompting = {1}
    MaxKeys = 3
    MaxChains = 4
    MaxLaunches = 1
    MaxLosses = 0
INVARIANTS
    TypeOK
    EntriesAreSought
    EndedIsDead
\* All processes may have ended and all entries be removed.
CHECK_DEADLOCK FALSE
