CONSTANTS
    PageSize = 4
    MaxAddress = 23
    StackSize = 2
    Platforms = {"skylake"}
    MaxListed = 3
    kMinSkipOverBytes = 2
    Unknown = Unknown
    MaxCalls = 0
    MappingInputs = {}
    BytesInputs = {}
    Writes = {}
    RegisterInputs = {}
    EndStateInputs = {}
    Snapshots <- MCSnapshots
    ExitSequence <- MCExitSequence
    ExitStackSize = 2
    Reserved <- MCReserved
    kByteRunAlignmentSize = 2
    kMinRepeatingByteRunSize = 2
    SizeOf <- MCSizeOf
    AlignOf <- MCAlignOf
    IdSize = 3
    OptionChoices <- MCOptions
    LoadAddresses = {16, 64}
    RunnerMappings <- MCReserved
    MaxSnaps = 2
SPECIFICATION Spec
INVARIANTS
    CorpusRoundTrips
    PlaysTheSnapshot
    StrictFindsDamage
CHECK_DEADLOCK FALSE
