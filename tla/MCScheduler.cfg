CONSTANTS
    NumSMs = 3
    NumUPs = 2
    NumIHs = 0
    NumFlags = 0
    HandlerOf <- MCNoHandlers
    IhLength = 2
    IhOutcomes = {}
    UserInstrs <- MCPlainInstrs
    SmMayEnd = TRUE
    Capacity = 1
SPECIFICATION FairSpec
INVARIANTS TypeOK RoundRobin
PROPERTIES SmKeepsRunning BlockedWriteGoesOn
