\* Two shards, two CPUs, one fault, one failing result.
CONSTANTS
    p1 = p1
    p2 = p2
    comment = comment
    Paths = {p1, p2}
    Files <- MCFiles
    FileSystems <- MCFileSystems
    ShardLists <- MCShardLists
    Unlimited = Unlimited
    Limits = {Unlimited, 3, 5}
    MaxCpus = {0, 1}
    NumCpus = {2}
    HwConcurrency = {0, 2}
    MaxFaults = 1
    MaxResults = 1
    HeaderSize = 1
    UnitsPerMb = 2
    RunnerMb = 2
    EntryKinds = {"start", "result", "summary"}
    BodyBytes <- MCBodyBytes
    HeaderBytes = 2
    PipeBytes = 2
SPECIFICATION FairSpec
INVARIANTS
    SetupSound
    LogFramed
PROPERTIES
    SessionEnds
CHECK_DEADLOCK FALSE
