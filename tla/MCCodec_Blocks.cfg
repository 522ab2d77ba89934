\* A block that is not the last thing in its struct.
SPECIFICATION CodecSpec
CONSTANTS
    Size = 3
    Plans <- BlockPlans
    Operations <- PlanOperations
    Inputs <- DecoderInputs
    HostLittle = TRUE
    Registered = {"known"}
    Touches = {"none"}
    RequireFullInput = FALSE
    MaxArrayElements = 3
    MaxAllocationBytes = 64
    MaxRecursionDepth = 8
    SizeofValue = 8
    MaxKept = 4
    AllowTrailing = TRUE
    EncodeRegistered = {"known"}
    EncodeTouches = {"none", "write", "rewind", "fail"}
    Made <- MadeValues
CHECK_DEADLOCK FALSE
INVARIANT
    BackendsWriteAlike
