SPECIFICATION Spec
CONSTANTS
    FailAfterChoices = {0, 2}
    LogFdChoices = {FALSE}
    NumThreads = 2
    NumCpus = 3
    NumShards = 1
    Sequential = FALSE
    HasWatchdog = TRUE
    MaxRuns = 3
INVARIANTS
    ResultsConserved
    ExitCodeTruthful
    AtMostOneLateRun
    CpuExclusive
PROPERTIES
    StreamSpec
