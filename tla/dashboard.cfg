SPECIFICATION DashboardSpec
CONSTANTS
    Sessions = {"a", "b"}
    Own = "a"
    Dialogs = FALSE
    MaxVersion = 2
    Projects = {"p", "q"}
    None = None
    MaxOps = 3
    Overlays = 1
    Dests = {"home"}
    Bundles = {"b1", "b2", "b3"}
    SessionIDs = {"s1", "s2"}
    Manifest <- MCManifest
    Works = {1}
    MaxWizards = 2
    MaxFaults = 1
    MaxAppear = 1
INVARIANTS
    NoLostWakeup
    ChannelsKept
    PageIsTrue
    EditsKept
    BundlesAreHonest
PROPERTIES
    ContractKept
\* In every model the bounded work comes to an end and nothing is left to do.
CHECK_DEADLOCK FALSE
