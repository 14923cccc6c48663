SPECIFICATION FairSpec
CONSTANTS
    Ids = {1, 2, 3, 4, 5}
    SortKey <- MCSortKey
    Pages = {"a", "b", "c", "data"}
    MappingChoices <- MCMappings
    NumGroups = 3
    NumIterations = 2
    Threads = {t1, t2}
    Inputs <- MCInputs
    NumWorkers = 2
    kMinCountUpdateSize = 2
INVARIANTS
    CorpusFromBlobs
    GroupingSound
PROPERTIES
    FixupCorpusEnds
    LaterIterationsAddNothing
