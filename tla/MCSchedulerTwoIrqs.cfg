CONSTANTS
    NumSMs = 2
    NumUPs = 1
    NumIHs = 2
    NumFlags = 2
    HandlerOf <- MCTwoHandlers
    IhLength = 2
    IhOutcomes = {"done"}
    UserInstrs <- MCOther
    SmMayEnd = FALSE
    Capacity = 0
SPECIFICATION FairSpec
PROPERTY RaisedFlagIsAnswered
