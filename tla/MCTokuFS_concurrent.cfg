\* Two threads on two files, each using the descriptors it opened:
\* open, close, pwrite and pread interleaved at engine-call grain.
CONSTANTS
    Threads = {t1, t2}
    Paths = {p1, p2}
    Values = {1, 2}
    BLOCKSIZE = 2
    NBLOCKS = 2
    MAX_OPEN_FILES = 2
    FdArgs = {0, 1}
    Offsets = {0, 1, 2}
    Counts = {0, 1, 2}
    Lengths = {0}
    LinkSizes = {2}
    Ops = {"open", "close", "pwrite", "pread"}
    OwnFdsOnly = TRUE
    NDEBUG = FALSE
    MaxOps = 5
    NoName = NoName
    NoBlock = NoBlock
    NoMeta = NoMeta
SPECIFICATION Spec
SYMMETRY Symmetry
INVARIANT TypeOK
INVARIANT PendingSlotExclusive
INVARIANT ReadSeesStore
INVARIANT DataWithinSize
INVARIANT IoNameStable
PROPERTY PwriteStaysInRange
PROPERTY FdTableRefinement
