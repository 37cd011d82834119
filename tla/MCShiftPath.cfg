CONSTANTS
    Size = 2
    word = word
    Values <- MCValues
    Instructions <- MCInstructions
    Thresholds <- MCThresholds
    FifoModes = {"BIDI", "TX_ONLY", "RX_ONLY"}
    Loops <- MCLoops
SPECIFICATION LoopSpec
INVARIANTS STypeOK NeverRefused PulledWordIsSentWhole
PROPERTIES BlockedGoesOn AutopushKeepsUp
