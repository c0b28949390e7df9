\* The driver against one of its comments.
SPECIFICATION Spec
CONSTANTS
    TUI_WIDTH = 4
    TUI_HEIGHT = 2
    UINT8 = 8
    TUI_MEM_CELLS = 12
    LF = "lf"
    TAB = "tab"
    BS = "bs"
    SPACE = " "
    Glyphs = {"a"}
    Colors = {15}
    Strings <- MCTabStrings
    InitText <- MCInitText
    BootScreens <- MCBootScreens
    Rows = {0, 1}
    Cols = {0, 1, 2, 3}
    EdgeTabs = TRUE
INVARIANTS WrapsAtLastColumn
