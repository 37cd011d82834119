CONSTANTS
    Width = 3
    ByteRange = 8
    CountRange = 256
    WordRange = 1024
    Size = 2
    SectorSize = 4
    Id <- MCId
    PAGE_PROGRAM = 2
    READ = 3
    STATUS = 5
    WRITE_EN = 6
    SECTOR_ERASE = 4
    READ_ID = 1
    Messages <- MCMessages
SPECIFICATION Spec
PROPERTY ImplementsChip
