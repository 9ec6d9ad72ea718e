CONSTANTS
    VarintBits = 3
    RestBits = 2
    SafeBits = 23
    ChunkBits = 10
    ChunkDigits = 3
    HexBits = 2
    FloatWordBits = 6
    FloatExponentBits = 3
    DoubleExponentBits = 4
    Requests <- MCRequests
    NumberSamples <- MCNumberSamples
    FloatSamples <- MCFloatSamples
SPECIFICATION Spec
INVARIANT OneofSurvives
