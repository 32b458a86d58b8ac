SPECIFICATION FairSpec
CONSTANTS
    Dirs = {"project"}
    MaxProcs = 1
    MaxSessions = 2
    Resuming = {1}
    Prompting = {}
    MaxKeys = 2
    MaxChains = 3
    MaxLaunches = 1
    MaxLosses = 1
INVARIANTS
    WatchIsKept
PROPERTIES
    SessionIsWatched
    DeadIsRemoved
\* All processes may have ended and all entries be removed.
CHECK_DEADLOCK FALSE
