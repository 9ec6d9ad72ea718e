\* A component that switches between streaming requests and a unary one, back
\* to a request it had before, and goes away.
CONSTANTS
    UnaryRequests = {u}
    StreamRequests = {s, t}
    KeepAll = FALSE
    RegisterRunsLate = TRUE
    MaxGenerations = 3
    MaxResponses = 2
SPECIFICATION FairSpec
INVARIANTS
    TypeOK
    ShownIsOfRequest
    ShownFollowsRender
    NoOrphanStream
    OneLiveGeneration
PROPERTIES
    StreamRetried
    CanceledLoopStops
\* A component that is gone has nothing left to do.
CHECK_DEADLOCK FALSE
