\* Terminated sequences of structs that hold terminated sequences.
SPECIFICATION Spec
CONSTANTS
    Size = 3
    Plans <- NestedPlans
    Operations <- PlanOperations
    Inputs <- DecoderInputs
    HostLittle = TRUE
    Registered = {"known"}
    Touches = {"none"}
    RequireFullInput = FALSE
    MaxArrayElements = 3
    MaxAllocationBytes = 64
    MaxRecursionDepth = 8
    SizeofValue = 8
    MaxKept = 4
CHECK_DEADLOCK FALSE
INVARIANT
    NestedSequencesDecode
