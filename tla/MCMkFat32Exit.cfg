SPECIFICATION MkSpec
CONSTANTS
    Hosts <- MCHosts
    Hidden = {}
    FatName <- MCFatName
    Size = 22
    BlkSize = 8
    ReadSize = 2
    SectorSize = 4
    CodeSize = 3
    Track = 3
INVARIANTS ExitCodeTellsFailure
CHECK_DEADLOCK FALSE
