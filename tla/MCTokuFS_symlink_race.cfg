\* One thread symlinks a name while another creates it with open(O_CREAT):
\* symlink's existence check, its block put and its metadata update are
\* three engine calls, and the process restarts after the failed assert.
CONSTANTS
    Threads = {t1, t2}
    Paths = {p1}
    Values = {1}
    BLOCKSIZE = 2
    NBLOCKS = 2
    MAX_OPEN_FILES = 2
    FdArgs = {0, 1}
    Offsets = {0}
    Counts = {1}
    Lengths = {0}
    LinkSizes = {2}
    Ops = {"open", "symlink"}
    OwnFdsOnly = TRUE
    NDEBUG = FALSE
    MaxOps = 2
    NoName = NoName
    NoBlock = NoBlock
    NoMeta = NoMeta
SPECIFICATION Spec
INVARIANT DataWithinSize
