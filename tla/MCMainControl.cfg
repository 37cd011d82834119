CONSTANTS
    NumPIOs = 2
    SMsPerPIO = 1
    NumUPs = 2
    NumIHs = 1
    NumInstructions = 2
    NumUserInstructions = 1
    Int8Bound = 8
    Statements <- MCStatements
    MaxLines = 4
    FileLines <- MCFileLines
SPECIFICATION Spec
INVARIANTS LoadedIsWritten JumpsGoToLabels BreakpointsAreSeen
PROPERTIES RunStopsAtBreakpoints
