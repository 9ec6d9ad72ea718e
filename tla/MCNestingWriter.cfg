\* Messages of up to eight bytes in up to two open levels.
CONSTANTS
    Capacity = 2
    VarintBase = 2
    Blocks <- MCBlocks
    Bytes = {3}
    MaxCursor = 7
    MaxDepth = 2
SPECIFICATION Spec
INVARIANTS
    TypeOK
    CountsAgree
    PiecesTile
    HolesAreOpen
    BufferHoldsMessage
PROPERTIES
    ImplementsNestedBuffers
