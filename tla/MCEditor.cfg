CONSTANTS
    Chars = {"a", "b"}
    Files <- MCFiles
    Rows = 2
    BufferSize = 9
    GotoLines = {1, 2, 3, 4}
    Careful = TRUE
SPECIFICATION Spec
INVARIANTS LinesLaidOut CursorShowsCurrentLine
PROPERTY ImplementsLineEditor
