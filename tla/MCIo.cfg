\* Messages of all kinds, among callers' own output.
SPECIFICATION IoSpec
CONSTANTS
    TUI_WIDTH = 2
    TUI_HEIGHT = 2
    UINT8 = 4
    TUI_MEM_CELLS = 6
    LF = "lf"
    TAB = "tab"
    BS = "bs"
    SPACE = " "
    Glyphs = {"a"}
    Colors = {7, 15}
    Strings <- MCStrings
    InitText <- MCInitText
    BootScreens <- MCBootScreens
    Rows = {}
    Cols = {}
    EdgeTabs = FALSE
    IO_BUF_SIZE = 4
    NUL = "nul"
    Outputs <- MCOutputs
INVARIANTS IoTypeOK PrintsWhatIsOwed CallerUndisturbed
