\* Two threads over /a, /b and their subtrees in the default build: create,
\* symlink, chmod, chown, utime,
\* mkdir, unlink, rmdir, listings of /, /a and /b one entry per readdir call,
\* and renames, which abort at the stubbed cursor delete.
CONSTANTS
    Threads = {t1, t2}
    InitNS <- MCInitNS
    MkdirPaths <- MCMkdirPaths
    CreatePaths <- MCCreatePaths
    UnlinkPaths <- MCUnlinkPaths
    RmdirPaths <- MCRmdirPaths
    ListDirs <- MCListDirs
    RenamePairs <- MCRenamePairs
    SymlinkPaths <- MCSymlinkPaths
    AttrPaths <- MCAttrPaths
    ChmodTypes <- MCChmodTypes
    Batch = 1
    NDEBUG = FALSE
    MaxOps = 3
SPECIFICATION Spec
INVARIANT TypeOK
INVARIANT ReaddirNoDuplicates
INVARIANT ReaddirCompleteWhenQuiet
PROPERTY ReaddirOnlyChildren
PROPERTY ListingTerminates
