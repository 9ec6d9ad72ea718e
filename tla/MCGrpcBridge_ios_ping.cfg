\* ping on iOS: the pong's number is a string the ping's key never equals.
CONSTANTS
    Platforms = {"ios"}
    UnaryCalls = {}
    StreamCalls = {}
    Pings = {p1}
    MaxMessages = 1
SPECIFICATION FairSpec
PROPERTIES
    PingReturns
CHECK_DEADLOCK FALSE
