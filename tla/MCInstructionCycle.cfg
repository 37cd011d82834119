\* Flag 2, which state machine 1 names with REL 1, does not exist.
SPECIFICATION FairSpec
CONSTANTS
    NumSMs = 2
    NumFlags = 2
    Length = 4
    Programs <- MCPrograms
INVARIANTS
    TypeOK
    StaysInOwnProgram
    MarksAreCurrent
PROPERTIES
    ImplementsMachines
    HandshakeGoesOn
\* State machines that wait for each other's flags may stop for good.
CHECK_DEADLOCK FALSE
