SPECIFICATION Spec
CONSTANTS
    Clients = {"tui"}
    Remote = {}
    Issues = {1, 2}
    Deps <- Chained
    Contains <- OwnIDs
    ForeignPRs = {}
    MaxPerProject = 1
    MaxReviewRounds = 1
    AutoMerge = {TRUE, FALSE}
    SlowPolls = FALSE
    MaxStarts = 1
    MaxOverlays = 0
    MaxEnds = 1
    MaxPolls = 1
    MaxRejects = 2
    MaxAgents = 2
INVARIANTS
    TypeOK
    DependenciesMerged
    CapacityRespected
    OneAgentPerIssue
    VerdictsAccount
\* The bounded starts and stops run out: the loop is off and stays off.
CHECK_DEADLOCK FALSE
