\* A terminated sequence of elements that take no bytes.
SPECIFICATION FairSpec
CONSTANTS
    Size = 3
    Plans <- ZeroProgressPlans
    Operations <- PlanOperations
    Inputs <- DecoderInputs
    HostLittle = TRUE
    Registered = {"known"}
    Touches = {"none"}
    RequireFullInput = FALSE
    MaxArrayElements = 3
    MaxAllocationBytes = 64
    MaxRecursionDepth = 8
    SizeofValue = 8
    MaxKept = 4
CHECK_DEADLOCK FALSE
PROPERTY
    AlwaysTerminates
