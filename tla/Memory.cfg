CONSTANTS
    PageSize = 2
    MaxAddress = 7
    StackSize = 1
    Platforms = {"skylake"}
    MaxListed = 2
    kMinSkipOverBytes = 2
    Unknown = Unknown
    MaxCalls = 3
    Fanout = 2
    PageTableAddr = 8
    MaxTableCalls = 3
    TableMappings <- MCTableMappings
    PhysicalStarts = {0, 4, 28}
    Externals <- MCExternals
    MappingInputs <- MCMappings
    BytesInputs <- MCBytes
    Writes <- MCWrites
    RegisterInputs <- MCRegisters
    EndStateInputs <- MCEndStates
    Snapshots <- MCSnapshots
    PlatformIds <- MCPlatformIds
    kMaxPlatformId = 1
    ExitPadding = 1
SPECIFICATION Spec
INVARIANTS
    SnapshotGuarantees
    DeltasRight
    ProtoFaithful
    ToolOutputIsRight
    TranslationRight
PROPERTIES
    AddressSpaceSpec
CHECK_DEADLOCK FALSE
