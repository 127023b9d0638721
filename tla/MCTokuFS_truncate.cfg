\* One thread writes, truncates, reads, symlinks and readlinks one file: the
\* shrink, grow and same-size paths of toku_fs_truncate against sparse reads,
\* and a symlink's block (or ENAMETOOLONG) under the same size invariant.
CONSTANTS
    Threads = {t1}
    Paths = {p1}
    Values = {1, 2}
    BLOCKSIZE = 2
    NBLOCKS = 2
    MAX_OPEN_FILES = 1
    FdArgs = {0}
    Offsets = {0, 1, 2}
    Counts = {1, 2}
    Lengths = {0, 1, 2, 3}
    LinkSizes = {2, 3}
    Ops = {"open", "pwrite", "pread", "truncate", "symlink", "readlink"}
    OwnFdsOnly = TRUE
    NDEBUG = FALSE
    MaxOps = 6
    NoName = NoName
    NoBlock = NoBlock
    NoMeta = NoMeta
SPECIFICATION Spec
INVARIANT ReadSeesStore
INVARIANT DataWithinSize
