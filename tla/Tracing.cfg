SPECIFICATION MCSpec
CONSTANTS
    MaxSnaps = 3
    Signals = {"SIGSEGV", "SIGXCPU"}
    Snippets <- MCSnippets
    Limits = {2, 4}
    PageBytes = 6
    Fuel = 24
    MaxInputs = 2
    MaxHiccups = 1
    Events <- MCEvents
    SourceOf <- MCSourceOf
    NumCounters = 2
    num_iterations = 2
    Cost <- MCCost
    kMaxCount = 3
    MaxFaults = 3
    data_size = 8
    OffsetModulus = 16
    RecordSizes = {3, 5}
    MaxRecords = 6
INVARIANTS
    StatusNotLost
    TracerTransparent
    CaptureFaithful
    CriticalIsReal
    ProxyOutputTrue
PROPERTIES
    TracingReturns
CHECK_DEADLOCK FALSE
