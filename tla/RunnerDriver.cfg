SPECIFICATION FairSpec
CONSTANTS
    Modes = {"run", "sequential", "make"}
    NumSnaps = 2
    NumIterations = 2
    NumAttempts = 2
    Pages = {p1, p2, p3}
    MaxPagesToAdd = 3
    kMaxAddedPageAddresses = 2
INVARIANTS
    VerdictSound
PROPERTIES
    TimeoutEndsRun
