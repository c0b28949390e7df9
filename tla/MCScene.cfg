SPECIFICATION SceneSpec
CONSTANTS
    Hosts <- MCHosts
    Hidden <- MCHidden
    FatName <- MCFatName
    Size = 22
    BlkSize = 8
    ReadSize = 2
    SectorSize = 4
    CodeSize = 3
    Track = 3
    MAX_SIZE = 3
    RES_SIZE = 8
    DdSectors = 2
    LOADER_SECTORS = 2
    BootSizes = {1, 3, 4}
    LoaderSizes = {1, 7, 8, 9}
INVARIANTS NeverGarbled SilentSuccessIsComplete SceneTypeOK VolumeSurvives BootsWhatWasBuilt BootsWithKernel ErrorNamesStep
PROPERTIES ComesToRest
CHECK_DEADLOCK FALSE
