CONSTANTS
    Threads = {t1, t2}
    Paths = {p1}
    Values = {1, 2}
    BLOCKSIZE = 2
    NBLOCKS = 2
    MAX_OPEN_FILES = 2
    FdArgs <- BadFdArgs
    Offsets = {0, 2}
    Counts = {1, 2}
    Lengths = {0, 1}
    LinkSizes = {2}
    Ops = {"open", "close", "pwrite", "pread", "truncate", "unlink", "mount", "unmount"}
    OwnFdsOnly = FALSE
    NDEBUG = FALSE
    MaxOps = 4
    NoName = NoName
    NoBlock = NoBlock
    NoMeta = NoMeta
SPECIFICATION Spec
SYMMETRY Symmetry
INVARIANT PendingSlotExclusive
INVARIANT ReadSeesStore
PROPERTY FdTableRefinement
