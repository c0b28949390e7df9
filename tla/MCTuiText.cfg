\* A screen of 5 x 2, callers that change the colour and stay off the right
\* edge with their tabs.
SPECIFICATION Spec
CONSTANTS
    TUI_WIDTH = 5
    TUI_HEIGHT = 2
    UINT8 = 16
    TUI_MEM_CELLS = 21
    LF = "lf"
    TAB = "tab"
    BS = "bs"
    SPACE = " "
    Glyphs = {"a"}
    Colors = {3}
    Strings <- MCStrings
    InitText <- MCInitText
    BootScreens <- MCBootScreens
    Rows = {}
    Cols = {}
    EdgeTabs = FALSE
INVARIANTS BlackBackground
PROPERTIES ShowsText
