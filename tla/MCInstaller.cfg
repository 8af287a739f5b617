\* Three sessions: an installation cut short, a second one, a removal.
SPECIFICATION Spec
CONSTANTS
    Dirs <- MCDirs
    Parts = {"druk.exe", "druk-core.lib"}
    Compiler = "druk.exe"
    Chars <- MCChars
    Ansi <- MCAnsi
    Paths <- MCPaths
    Buffer = 6
    Sessions = 3
INVARIANT CompletionIsTrue
PROPERTY PathKeepsOthers
CHECK_DEADLOCK FALSE
