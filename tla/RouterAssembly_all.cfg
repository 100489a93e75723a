SPECIFICATION GenSpec

CONSTANTS
    Nodes <- MCNodes
    Rust <- MCRust
    IrName <- MCIrName
    Unit = "unit"
    Functions <- AllFunctions
    Builtins = {"_health", "_ir"}
    Layers = {"L1", "L2"}
    MaxDepth = 15
    MaxCalls = 2
    MaxLayers = 2
    Unwritable = {"_health"}
    Validators = {"valibot", "zod", "none"}
    SubscriptionsAsTools = {TRUE, FALSE}

INVARIANTS
    AsmTypeOK
    IrIsExact
    OnlyRecursionAborts
    OnlyReservedNamesPanic
    ClientMatchesServer
    EveryRequestPassesEveryLayer
    TypesDecideTheLoad
    ManifestIsClosed

CHECK_DEADLOCK FALSE
