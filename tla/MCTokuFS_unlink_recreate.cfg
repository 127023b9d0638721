CONSTANTS
    Threads = {t1}
    Paths = {p1}
    Values = {1, 2}
    BLOCKSIZE = 2
    NBLOCKS = 2
    MAX_OPEN_FILES = 1
    FdArgs = {0}
    Offsets = {0, 2}
    Counts = {1, 2}
    Lengths = {0}
    LinkSizes = {2}
    Ops = {"open", "pwrite", "unlink"}
    OwnFdsOnly = TRUE
    NDEBUG = FALSE
    MaxOps = 4
    NoName = NoName
    NoBlock = NoBlock
    NoMeta = NoMeta
SPECIFICATION Spec
INVARIANT DataWithinSize
