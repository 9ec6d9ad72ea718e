\* Three uses, two writers, callbacks that write up to two bytes in one level.
CONSTANTS
    Users = {a, b, c}
    MaxWriters = 2
    MaxContent = 2
    MaxDepth = 1
SPECIFICATION Spec
INVARIANTS
    TypeOK
    AlwaysUsable
    ResultIsOwn
\* Every user may have had its turn.
CHECK_DEADLOCK FALSE
