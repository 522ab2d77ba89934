\* Modules from the syntax tree to the plan, with words of three bits.
SPECIFICATION FrontEndSpec
CONSTANTS
    Half = 4
    Sources <- FrontEndModules
    Uses <- UsesOf
    Evaluate <- EvaluateIn
CHECK_DEADLOCK FALSE
INVARIANTS
    ValuesAreExact
    TypedExpressionsEvaluate
    NamesMeanNearest
PROPERTIES
    OrderDoesNotMatter
    Settles
