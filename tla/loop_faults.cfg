SPECIFICATION Spec
CONSTANTS
    Clients = {"ssh", "local"}
    Remote = {"ssh"}
    Issues = {1}
    Deps <- Independent
    Contains <- OwnIDs
    ForeignPRs = {}
    MaxPerProject = 1
    MaxReviewRounds = 0
    AutoMerge = {TRUE, FALSE}
    SlowPolls = TRUE
    MaxStarts = 2
    MaxOverlays = 1
    MaxEnds = 1
    MaxPolls = 1
    MaxRejects = 1
    MaxAgents = 2
ACTION_CONSTRAINTS
    FaultsApart
INVARIANTS
    HeartbeatPreserved
PROPERTIES
    WorkKeptUntilMerged
\* The bounded starts and stops run out: the loop is off and stays off.
CHECK_DEADLOCK FALSE
