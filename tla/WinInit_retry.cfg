SPECIFICATION WinInitSpec
CONSTANTS
    FirstSize = 2
    MaxAdapters = 4
INVARIANT
    RetriesWithLargerBuffer
CHECK_DEADLOCK FALSE
