SPECIFICATION FairSpec

CONSTANTS
    c1 = c1
    c2 = c2
    Before = Before
    Commands <- TwoCommands
    Invocations <- MainInvocations
    Irs <- ThreeIrs
    IrVersion = 1
    Binaries <- AllBinaries
    Existing <- Leftovers

INVARIANTS
    TypeOK
    DumpedIrIsFresh
    PassMeansNoDrift
    OutputsAreAccepted

PROPERTY
    CommandsEnd

CHECK_DEADLOCK FALSE
