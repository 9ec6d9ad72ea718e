\* Messages of up to three pieces, out of 26: known fields, unknown fields, and
\* fields with a wire type that does not fit.
CONSTANTS
    Base = 8
    WriteContents <- InnerContents
    ReadContents <- InnerRead
    MergeContents <- InnerMerge
    IsContents <- InnerIs
    Fields <- MCFields
    PartList <- MCParts
    MaxParts = 3
SPECIFICATION Spec
INVARIANTS
    TypeOK
    InStep
    DecodesParts
    ThrowsOnMismatch
\* A decoded message is the end.
CHECK_DEADLOCK FALSE
