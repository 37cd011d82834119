CONSTANTS
    NumSMs = 2
    NumUPs = 1
    NumIHs = 1
    NumFlags = 2
    HandlerOf <- MCOneHandler
    IhLength = 2
    IhOutcomes = {"done", "repeat", "exit"}
    UserInstrs <- MCAllInstrs
    SmMayEnd = TRUE
    Capacity = 1
SPECIFICATION FairSpec
INVARIANTS PrefetchIsCurrent EnabledHandlerRuns
PROPERTIES TurnsAlternate RaisedFlagIsAnswered
