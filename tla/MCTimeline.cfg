CONSTANTS
    Max = 50
    MaxSamples = 160
    MaxPlaces <- MCMaxPlaces
SPECIFICATION Spec
INVARIANTS TypeOK RingInOrder ShownInOrder
