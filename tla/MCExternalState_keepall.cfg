\* One streaming component; its reducer keeps all items: TRUE.
CONSTANTS
    UnaryRequests = {}
    StreamRequests = {s}
    KeepAll = TRUE
    RegisterRunsLate = TRUE
    MaxGenerations = 1
    MaxResponses = 2
SPECIFICATION Spec
INVARIANTS
    KeepAllKeepsAll
CHECK_DEADLOCK FALSE
