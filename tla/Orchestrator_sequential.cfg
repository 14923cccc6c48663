SPECIFICATION FairSpec
CONSTANTS
    FailAfterChoices = {0, 2}
    LogFdChoices = {TRUE, FALSE}
    NumThreads = 1
    NumCpus = 2
    NumShards = 3
    Sequential = TRUE
    HasWatchdog = FALSE
    MaxRuns = 4
INVARIANTS
    ScanAndLogComplete
PROPERTIES
    Shutdown
