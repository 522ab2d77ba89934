\* An array of elements wider than a byte, with a constant count.
SPECIFICATION CodecSpec
CONSTANTS
    Size = 4
    Plans <- StaticPlans
    Operations <- PlanOperations
    Inputs <- DecoderInputs
    HostLittle = TRUE
    Registered = {"known"}
    Touches = {"none"}
    RequireFullInput = FALSE
    MaxArrayElements = 3
    MaxAllocationBytes = 64
    MaxRecursionDepth = 8
    SizeofValue = 8
    MaxKept = 4
    AllowTrailing = TRUE
    EncodeRegistered = {"known"}
    EncodeTouches = {"none", "write", "rewind", "fail"}
    Made <- MadeValues
CHECK_DEADLOCK FALSE
INVARIANT
    DecodedEncodes
