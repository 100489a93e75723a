SPECIFICATION GenSpec

CONSTANTS
    Nodes <- MCNodes
    Rust <- MCRust
    IrName <- MCIrName
    Unit = "unit"
    Functions <- AllFunctions
    Builtins = {"_health", "_ir"}
    Layers = {"L1", "L2"}
    MaxDepth = 15
    MaxCalls = 2
    MaxLayers = 2
    Unwritable = {"_health"}
    Validators = {"valibot"}
    SubscriptionsAsTools = {TRUE, FALSE}

INVARIANT
    ModuleLoads

CHECK_DEADLOCK FALSE
