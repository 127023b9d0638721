\* One thread renames the directory /a onto the non-empty directory /b, in
\* the default build: rename(2) must fail with ENOTEMPTY, and the kernel
\* leaves that check to the file system.
CONSTANTS
    Threads = {t1}
    InitNS <- MCRenameOverNS
    MkdirPaths = {}
    CreatePaths = {}
    UnlinkPaths = {}
    RmdirPaths = {}
    ListDirs = {}
    RenamePairs <- MCRenameOverPairs
    SymlinkPaths = {}
    AttrPaths = {}
    ChmodTypes = {}
    Batch = 1
    NDEBUG = FALSE
    MaxOps = 1
SPECIFICATION Spec
INVARIANT NamespaceIsTree
