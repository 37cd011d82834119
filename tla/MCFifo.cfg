CONSTANTS
    Size = 8
    Values <- MCValues
    Zero = 0
    Levels <- MCLevels
SPECIFICATION Spec
INVARIANTS TypeOK RegionsDisjoint
PROPERTIES ImplementsQueues LevelChangeRefreshesStatus StepIsMarked
