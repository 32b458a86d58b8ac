SPECIFICATION FairSpec
CONSTANTS
    Clients = {"tui"}
    Remote = {}
    Issues = {1}
    Deps <- Independent
    Contains <- OwnIDs
    ForeignPRs = {}
    MaxPerProject = 1
    MaxReviewRounds = 1
    AutoMerge = {TRUE, FALSE}
    SlowPolls = FALSE
    MaxStarts = 1
    MaxOverlays = 0
    MaxEnds = 1
    MaxPolls = 1
    MaxRejects = 1
    MaxAgents = 2
PROPERTIES
    ReviewIsPickedUp
    MergeIsNoticed
    TodoIsDispatched
\* The bounded starts and stops run out: the loop is off and stays off.
CHECK_DEADLOCK FALSE
