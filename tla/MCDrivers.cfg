\* A unary call and a stream, under every configuration that makes a difference.
CONSTANTS
    Configurations <- MCConfigurations
    Calls = {c}
    Streams = {s}
    Snapshots <- MCSnapshots
    Deltas <- MCDeltas
    MaxMessages = 3
SPECIFICATION Spec
INVARIANTS
    SentAsConfigured
    StreamIsWhole
    StateFollowsServer
PROPERTY ReaderReleased
