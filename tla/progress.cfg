SPECIFICATION ProgressSpec
CONSTANTS
    Projects = {"api"}
    Streams = {"s1", "s2"}
    BufferSize = 1
    MaxPosts = 1
    None = None
    Never = Never
PROPERTIES
    ChangesAreSeen
    StoppedEnds
    AskedIsAnswered
\* In every model the bounded work comes to an end and nothing is left to do.
CHECK_DEADLOCK FALSE
