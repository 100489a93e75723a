SPECIFICATION Spec

CONSTANTS
    Text = {"string", "uuid"}
    Wide = {"u64"}
    Procedures <- MCProcedures
    Options <- AllOptions
    IntRange <- MCIntRange
    MaxSafe = 4
    ToF32 <- MCToF32
    TupleCap = 1
    Depth = 4
    Tried <- Sample
    Json <- MCJson
    Parsed <- MCParsed
    Ordinary <- MCOrdinary
    Fits <- MCFits
    Through <- MCThrough
    Issues <- MCIssues
    TsType <- MCTsType
    Schema <- MCSchema
    Mcp <- MCMcp
    Serde <- MCSerde
    Errors <- MCErrors
    SubTypes <- MCSubTypes
    Validates <- MCValidates
    Strings <- MCStrings
    Ints = {0, 1, 3, 5, 7}
    MaxItems = 1

INVARIANTS
    PlainValuesArrive
    ChecksAgree

CHECK_DEADLOCK FALSE
