\* Callbacks that move the cursor, change the byte order, and push and pop limits.
SPECIFICATION Spec
CONSTANTS
    Size = 3
    Plans <- CallbackPlans
    Operations <- PlanOperations
    Inputs <- DecoderInputs
    HostLittle = TRUE
    Registered = {"known"}
    Touches = {"none", "read", "rewind", "order", "push", "pop", "trap"}
    RequireFullInput = TRUE
    MaxArrayElements = 3
    MaxAllocationBytes = 64
    MaxRecursionDepth = 2
    SizeofValue = 8
    MaxKept = 4
CHECK_DEADLOCK FALSE
INVARIANTS
    TypeOK
    FailureLeavesNothing
    ExceptionsContained
PROPERTIES
    Progress
    PayloadWithinMax
