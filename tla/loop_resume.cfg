SPECIFICATION Spec
CONSTANTS
    Clients = {"tui"}
    Remote = {}
    Issues = {1}
    Deps <- Independent
    Contains <- OwnIDs
    ForeignPRs = {}
    MaxPerProject = 1
    MaxReviewRounds = 1
    AutoMerge = {FALSE}
    SlowPolls = FALSE
    MaxStarts = 2
    MaxOverlays = 0
    MaxEnds = 1
    MaxPolls = 1
    MaxRejects = 2
    MaxAgents = 2
INVARIANTS
    EverySlotContinues
\* The bounded starts and stops run out: the loop is off and stays off.
CHECK_DEADLOCK FALSE
