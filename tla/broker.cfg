SPECIFICATION ListenersSpec
CONSTANTS
    Projects = {"own", "other"}
    Streams = {"s1", "s2"}
    BufferSize = 1
    MaxPosts = 2
    Own = "own"
    ListenProjects <- Listed
    Calls = {"subscribe", "unsubscribe", "list", "close"}
    MaxListeners = 3
    MaxBreaks = 1
    BigPosts = TRUE
INVARIANTS
    NoChannelPanic
    CountsAreExact
    EventsDelivered
    ListenersAreTrue
\* The clients post a bounded number of times and the broker shuts down.
CHECK_DEADLOCK FALSE
