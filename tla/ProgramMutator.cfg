CONSTANTS
    FixupLimit = 1000
    kInvalid = kInvalid
    Inputs <- MCInputs
    Generated <- MCGenerated
    MaxRepeat = 2
    RetryLimit = 1
    MinKept = 1
    MaxLen <- MCMaxLen
    Chips <- MCChips
    kLoopIndex = 8
    StackIndex = 4
    PopOrders <- MCPopOrders
    PopTmp <- MCPopTmp
    Interleavings <- MCInterleavings
    Instructions <- MCInstructions
    DuplicationBudgets <- MCBudgets
    FlagSaveSize = 3
    TargetInstructions = 150
SPECIFICATION MCSpec
INVARIANTS
    MutationSound
    SynthesisSound
PROPERTIES
    MutatorEnds
CHECK_DEADLOCK FALSE
