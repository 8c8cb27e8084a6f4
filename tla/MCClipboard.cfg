SPECIFICATION MCSpec
CONSTANTS
    Threads = {1, 2, 3}
    Chunks = 2
    MaxCopies = 2
    MaxReconnects = 1
    Loggers = {l1, l2}
    MaxLines = 2
    Items = {i1, i2}
INVARIANTS PointersAreLive SettersAreSafe LinesAreKept
PROPERTIES CopiesSettle EverythingIsFlushed
