\* A struct without an exact size inside one with an exact size.
SPECIFICATION Spec
CONSTANTS
    Size = 3
    Plans <- SizePlans
    Operations <- PlanOperations
    Inputs <- DecoderInputs
    HostLittle = TRUE
    Registered = {"known"}
    Touches = {"none"}
    RequireFullInput = FALSE
    MaxArrayElements = 3
    MaxAllocationBytes = 64
    MaxRecursionDepth = 8
    SizeofValue = 8
    MaxKept = 4
CHECK_DEADLOCK FALSE
INVARIANT
    SizeOnlyIfExact
