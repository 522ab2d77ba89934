\* An at($next) in a struct that is not at the start of the input.
SPECIFICATION Spec
CONSTANTS
    Size = 3
    Plans <- NextPlans
    Operations <- PlanOperations
    Inputs <- DecoderInputs
    HostLittle = TRUE
    Registered = {"known"}
    Touches = {"none"}
    RequireFullInput = FALSE
    MaxArrayElements = 3
    MaxAllocationBytes = 64
    MaxRecursionDepth = 8
    SizeofValue = 8
    MaxKept = 4
CHECK_DEADLOCK FALSE
INVARIANT
    NextIsHere
