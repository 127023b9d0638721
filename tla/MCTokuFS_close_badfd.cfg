\* close given a descriptor that was never open.
CONSTANTS
    Threads = {t1}
    Paths = {p1}
    Values = {1}
    BLOCKSIZE = 2
    NBLOCKS = 2
    MAX_OPEN_FILES = 2
    FdArgs <- BadFdArgs
    Offsets = {0}
    Counts = {1}
    Lengths = {0}
    LinkSizes = {2}
    Ops = {"open", "close"}
    OwnFdsOnly = FALSE
    NDEBUG = FALSE
    MaxOps = 2
    NoName = NoName
    NoBlock = NoBlock
    NoMeta = NoMeta
SPECIFICATION Spec
INVARIANT NoUndefinedBehaviour
