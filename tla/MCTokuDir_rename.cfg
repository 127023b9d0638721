\* Two threads renaming /a -> /b and /a. -> /b with asserts compiled out, so
\* that rename copies instead of aborting, against create, mkdir, unlink and
\* rmdir of the entries it moves.
CONSTANTS
    Threads = {t1, t2}
    InitNS <- MCInitNS
    MkdirPaths <- MCMkdirPaths
    CreatePaths <- MCCreatePaths
    UnlinkPaths <- MCUnlinkPaths
    RmdirPaths <- MCRmdirPaths
    ListDirs = {}
    RenamePairs <- MCRenamePairs
    SymlinkPaths <- MCSymlinkPaths
    AttrPaths = {}
    ChmodTypes = {}
    Batch = 1
    NDEBUG = TRUE
    MaxOps = 3
SPECIFICATION Spec
PROPERTY RenameCopiesSubtree
PROPERTY RenameTerminates
