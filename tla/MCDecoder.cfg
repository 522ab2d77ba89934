\* Valid plans with callbacks that leave the reader alone.
SPECIFICATION FairSpec
CONSTANTS
    Size = 3
    Plans <- DecoderPlans
    Operations <- PlanOperations
    Inputs <- DecoderInputs
    HostLittle = TRUE
    Registered = {"known"}
    Touches = {"none"}
    RequireFullInput = FALSE
    MaxArrayElements = 3
    MaxAllocationBytes = 64
    MaxRecursionDepth = 8
    SizeofValue = 8
    MaxKept = 4
CHECK_DEADLOCK FALSE
INVARIANTS
    TypeOK
    LimitsMirrorFrames
    FailureLeavesNothing
    Resolved
    MatchesReference
    NoRecursion
PROPERTY
    Termination
