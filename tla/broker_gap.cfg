SPECIFICATION Spec
CONSTANTS
    Projects = {"api"}
    Streams = {"s1"}
    BufferSize = 2
    MaxPosts = 2
INVARIANTS
    EveryArtifactArrives
CHECK_DEADLOCK FALSE
