CONSTANTS
    Size = 4
    Values <- MCValues
    UPs <- MCUPs
    Programs <- MCPrograms
    Max = 4
    Stop = "."
    NUL = "NUL"
    Vars <- MCVars
    None = "none"
SPECIFICATION Spec
INVARIANTS BytesArriveInOrder LinesAreWhole
PROPERTIES TransfersComplete
