\* One unary call, one stream of up to two messages and a ping, on Android and on iOS.
CONSTANTS
    Platforms = {"android", "ios"}
    UnaryCalls = {u1}
    StreamCalls = {s1}
    Pings = {p1}
    MaxMessages = 2
SPECIFICATION Spec
INVARIANTS
    TypeOK
    WaiterDiscipline
    CallStatesReclaimed
    NothingLost
    ActiveCallsTracked
PROPERTIES
    ImplementsCallService
\* The application may settle every call and stop.
CHECK_DEADLOCK FALSE
