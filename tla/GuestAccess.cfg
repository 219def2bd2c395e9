CONSTANTS
    PageSize = 2
    Maps <- MCMaps
    Span = 10
    MaxSize = 7
    Fan = 2
    Frames = 4
    TableFrames = {0, 1}
    Roots = {0}
    Entries <- MCEntries
    Modes = {"off", "legacy", "pse", "pae", "long", "la57"}
    MaxRead = 3
    Width = 16
SPECIFICATION MCSpec
INVARIANTS TypesOK ExactlyThePrefix TranslationCorrect
PROPERTY Returns
CHECK_DEADLOCK FALSE
