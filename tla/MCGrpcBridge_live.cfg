\* Liveness on Android: a unary call and a ping beside a stream.
CONSTANTS
    Platforms = {"android"}
    UnaryCalls = {u1}
    StreamCalls = {s1}
    Pings = {p1}
    MaxMessages = 1
SPECIFICATION FairSpec
PROPERTIES
    CreateCallAnswered
    AwaitedCallProgresses
    PingReturns
\* The application may settle every call and stop.
CHECK_DEADLOCK FALSE
