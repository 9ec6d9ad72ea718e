\* An unknown field whose length takes two bytes.
CONSTANTS
    Base = 8
    WriteContents <- InnerContents
    ReadContents <- InnerRead
    MergeContents <- InnerMerge
    IsContents <- InnerIs
    Fields <- MCFields
    PartList <- MCLong
    MaxParts = 2
SPECIFICATION Spec
INVARIANTS
    InStep
CHECK_DEADLOCK FALSE
