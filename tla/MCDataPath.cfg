CONSTANTS
    W = 4
    Setups <- MCSetups
SPECIFICATION Spec
INVARIANTS TypeOK DecodedAsEncoded
PROPERTIES ImplementsBits
