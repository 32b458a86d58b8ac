SPECIFICATION Spec
CONSTANTS
    Order <- TwoProjects
    None = None
    Issues = 2
    Kinds <- OneOfEach
    MaxPresses = 2
    MaxVisits = 1
    MaxReloads = 1
    MaxDeletions = 1
INVARIANTS
    ActsAsAsked
\* The bounded work comes to an end and nothing is left to do.
CHECK_DEADLOCK FALSE
