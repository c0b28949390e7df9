SPECIFICATION FatSpec
CONSTANTS
    Drives <- MCDrives
    Wrap = 1073741824
    Sizes = {0, 64, 190, 191, 511, 512, 513, 575, 2000, 4148, 4149, 4158, 4159, 8234, 8235, 16446, 16447, 65598, 65599, 262206, 262207, 516096, 516097, 516600, 1048639, 2097215, 4194175, 4194176, 4194688, 8257536, 16515072}
INVARIANTS
    MountsWhatWasMade
    PartitionNamesVolume
    FatTypeOK
    NoCrossLinks
    Durable
    NothingLeaks
    FullMeansFull
    ReadsBack
PROPERTIES
    FormattingEnds
    KeepsPromise
    LayoutSpec
CHECK_DEADLOCK FALSE
