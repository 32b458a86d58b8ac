SPECIFICATION MachineSpec
CONSTANTS
    Tools <- MCTools
    DefaultAllowedTools <- MCDefaultAllowed
    DefaultDeniedTools <- MCDefaultDenied
    ReadOnlyTools <- MCReadOnly
    StandardExtra <- MCStandardExtra
    NoneScriptExtra <- MCNoneScriptExtra
    Texts <- MCTexts
    DefaultDenyKeys <- MCDenyKeys
    LockoutKeys <- MCLockout
    Trips <- MCTrips
    Apps <- MCApps
    UpstreamTools <- MCTools
    Files <- MCFiles
    Calls <- MCCalls
    FrameKinds = {"call", "list", "other", "junk", "huge"}
    AnswerKinds = {"result", "known_error", "rpc_error", "huge"}
    MaxFrames = 2
    MaxStarts = 2
    Never = Never
    IssueIDs = {1, 2, 3}
    NoIssue = 0
    Bodies <- AllBodies
    Trackers <- AnyTracker
    MaxPolls = 1
    MaxEdits = 1
    Issues = {1, 2, 3}
    Children = {1}
    MaxPerProject = 2
    Faults = {"crash", "git", "locked", "overlap", "parallel", "orphans", "reopen"}
    MaxSessions = 2
    Mishaps = {"hasty", "slow", "late", "dropped", "unreadable", "foreign", "restart"}
    MaxLaunches = 2
    MaxForeign = 1
    MaxScans = 1
    MaxRestarts = 1
INVARIANTS
    GateKept
    ProxyIsTrue
    CyclesAreFound
    UserIsTold
    TreesAreWhole
    AgentsAreGuarded
    OneDesktopAgent
PROPERTIES
    ImplementsContract
    TreesLeftAlone
    HeldWhileAlive
\* In every model the bounded work comes to an end and nothing is left to do.
CHECK_DEADLOCK FALSE
