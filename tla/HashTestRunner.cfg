\* Three CPUs: one that may be bad, or two, so that end states need not be
\* reconcilable.
CONSTANTS
    Workers = {0, 1, 2}
    EpochModulus = 2
    MaxJobs = 4
    NumTests = 2
    NumInputs = 1
    NumRepeat = 1
    BatchSize = 1
    kMaxTestBytes = 2
    TestSizes = {1}
    WrongHashes = {"wrong1", "wrong2"}
    BadChoices = {{1}, {0, 1}}
    MaxCorpora = 1
SPECIFICATION HashTestFairSpec
INVARIANTS
    AllWorkersDidTheJob
    JobsFindTheirInput
    OnlyBadCpusSuspected
PROPERTIES
    RunnerEnds
CHECK_DEADLOCK FALSE
