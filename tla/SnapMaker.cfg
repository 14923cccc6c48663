SPECIFICATION FairSpec
CONSTANTS
    d0 = d0
    d1 = d1
    d2 = d2
    d3 = d3
    ro = ro
    null = null
    res = res
    out = out
    Pages <- MCPages
    InitialPages = {d0}
    ReadOnly = {ro}
    Unmappable = {null}
    Reserved = {null, res}
    ConfigPages = {d0, d1, d2, d3}
    Pcs = {"end", "loop", "none"}
    Programs <- MCPrograms
    MaxPagesToAdd = 2
    NumVerifyAttempts = 2
    NumIterations = 2
INVARIANTS
    MadeSound
PROPERTIES
    MakeSnapshotReturns
