# TLA+ models of TokuFS

TokuFS is a file system library. Its files and directories are stored as
key/value pairs in two TokuDB dictionaries. This directory holds TLA+ modules
that model the library's key layout, its prefix rename, and its file
operations under concurrent callers, crashes and restarts. It also holds the
TLC configurations that check them. `PROJECT.json` lists:

- every component,
- every run,
- the mutant that shows each property can fail,
- the source lines each definition models,
- the findings,
- the hazards.

## The system

| Part | Source | What it does |
|---|---|---|
| Block store | `src/src/bstore.c`, `bstore.h`, `block.h`, `byteorder.h` | Two dictionaries. `data_db` maps *name ++ htonl64(block) ++ 115* to a block of `BSTORE_BLOCKSIZE` bytes. `meta_db` maps *name ++ NUL* to a `struct stat`. Operations: get, put, update (an engine callback: `block_update_cb`), cursor scans (`toku_bstore_scan`, `toku_bstore_meta_scan`), truncate (a set_range/next loop whose delete is stubbed), and prefix rename (`rename_prefix`). |
| Key order | `keycmp`, `src/src/tokufs.c:160` | Data keys (last byte 115) compare by memcmp, so the blocks of a name are contiguous and in block order. Metadata keys compare by slash count ("level order") first and then by memcmp, so the entries of a directory form one run. |
| Metadata | `src/src/metadata.c` | One update callback per operation (create, pread, pwrite, truncate, symlink, delete, rename, utime, chmod, chown), dispatched by `toku_metadata_update_callback` and run by the engine atomically. |
| File layer | `src/src/tokufs.c` | The POSIX-like API. `fd_table` is guarded by a rwlock. open marks a slot PENDING, releases the lock for the metadata update, and retakes it to make the slot VALID. pread/pwrite look the slot up under the lock and then use `file->bstore.name` after unlocking. truncate, unlink, symlink, readlink, rename, mkdir, rmdir, opendir/readdir. |
| Front ends | `src/fuse`, `src/mpi/adio` | FUSE and MPI-IO adapters that call `toku_fs_*` one to one. |

Threads come from the FUSE worker pool or from MPI ranks. Nothing
serialises them except the fd table lock and the engine's per-call
atomicity. No transaction groups the several engine calls of one operation.

## Modules

- **`KeyOrder`** (pure operators). Models:
  - the key layout: `DataKey`, `MetaKey`, `Htonl64`, `GetDataKeyBlockNum`;
  - the C string helpers with their C semantics: `StrLen`, `StrCount`, `StrPrefix`;
  - `keycmp`, as `MemCmp` and `KeyCmp`;
  - the engine cursor: `FirstKeyGE` (set_range) and `NextKeyAfter` (next);
  - `keys_share_name_prefix`, `is_directly_under_dir` and `WithSlash` (the path with a trailing slash, built by `opendir` and `directory_is_empty`);
  - the rename machinery: `rename_prefix_cb` as `ShouldRename`, the probe keys as `RenameProbe`, and the do/while loop as the recursive `RenameRun`/`RenamePass`.
- **`KeyPaths`**: a bounded path universe of 8 paths. It includes the sibling traps `/a.` and `/a/b.`: under memcmp, "." (46) sorts before "/" (47).
- **`MCKeyOrder`**: its state is two key descriptors, and any step replaces one of them. The reachable states are all pairs of keys, and the invariants are checked on each pair.
- **`MCRenamePass`**: its state is a prefix-closed set of present paths and the path being renamed. Its invariants compare what rename_prefix's passes select with the subtree.
- **`TokuFS`**: the file layer with threads. Its variables:
  - `data` (name → block → block or `NoBlock`);
  - `meta` (name → `[size, blocks, link]` or `NoMeta`);
  - `fdTable` (slot → `[status, name]`);
  - per-thread `pc` and locals `loc`;
  - `alive` (the process has not aborted);
  - `mounted` (`data_db`, `meta_db` and `db_env` are open, that is `mount_path != NULL`);
  - ghosts: `owned` (descriptors a thread's opens returned), `touched` (a pread's file changed under it), `ub` (undefined behaviour happened);
  - `opsLeft`, which bounds the number of operations.

  Each engine call and each section under the fd table lock is one action:

  | Operation | Actions |
  |---|---|
  | open | `OpenAlloc`, `OpenMeta`, `OpenFinish` |
  | close | `Close` |
  | pwrite | `PwriteLookup`, then `PwriteChunk` once per loop pass, then `PwriteMeta` |
  | pread | `PreadLookup`, `PreadMeta`, `PreadScanFirst`/`PreadScanNext` per cursor call, `PreadFinish` |
  | truncate | `TruncateGet`, `TruncateBlocks`, `TruncateBlock`, `TruncateMeta` |
  | unlink | `UnlinkGet`, `UnlinkDelete`, `UnlinkTruncate` |
  | symlink | `SymlinkGet` (meta_get, EEXIST, ENAMETOOLONG), `SymlinkPut` (block 0), `SymlinkMeta` (`symlink_meta_cb`) |
  | readlink | `ReadlinkGet` (meta_get, ENOENT, EINVAL), `ReadlinkBlock` (`toku_bstore_get` of block 0 and its assert) |
  | unmount, mount | `Unmount`, `Mount`; `CallUnmounted`, `StartUnmounted` and `OpenCloseUnmounted` (open and close fail `assert(mount_path != NULL)`) are the calls that reach the closed environment |

  The engine wrappers are operators the actions share: `toku_bstore_get`,
  `toku_bstore_put`, `toku_bstore_update` (with `block_update_cb`), and
  `toku_metadata_update_for_pwrite` / `_for_truncate` (with their callbacks).
  `LinkSizes` is the set of `strlen(oldpath) + 1` a symlink is given; a
  symlink target is `n - 1` bytes of one value and a NUL.

  Data abstractions:
  - A name is a model value. The facts about key order that justify this (a name's blocks are contiguous and in block order; the scan stops at another name) are checked in `MCKeyOrder`.
  - A pwrite writes one value over its range.
  - Times, modes and owners are left out, because no property reads them.

  Failures and restarts:
  - A failed `assert` ends the process unless the constant `NDEBUG` says asserts are compiled out.
  - A NULL dereference always ends the process.
  - `Restart` is the next mount. The engine keeps every committed call; the fd table and the threads start afresh.
  - `Unmount` and `Mount` are the calls of a running process. Unmount closes the environment and never looks at `fd_table`, so a descriptor open at the unmount stays VALID. Any engine call made while unmounted goes through a NULL handle and ends the process (`CallUnmounted`, `StartUnmounted`); open and close abort earlier, on `assert(mount_path != NULL)` (`OpenCloseUnmounted`), unless NDEBUG. A second unmount, or a mount over a mounted environment, fails its assert.
- **`MCTokuFS`**: definitions for the cfgs: thread and path symmetry, and the descriptor set `{-1,0,1,2}`.
- **`OpenFileTable`** (abstract). A table of slots, each free or holding a path, plus the threads that claimed a slot and have not yet published it. Actions: `Reserve`, `Publish`, `Abandon`, `Close`, `Mount`. `TokuFS` maps its `fdTable` onto it (`AbstractFiles`: VALID slots with their names; `AbstractClaims`: the PENDING slot of each thread between `OpenAlloc` and `OpenFinish`). `FdTableRefinement` is `FdAbs!Spec`, checked as a PROPERTY.
- **`TokuDir`**: the namespace and the directory operations. Its variables:
  - `ns` (path → type: `dir`, `file`, `link`, or `none` after a chmod that dropped the type bits);
  - per-thread `pc` and locals `loc`, `alive`, `opsLeft`;
  - ghosts: `quiet` (no other thread changed `ns` since the thread's listing or rename began) and `stable` (the children present at opendir and not removed since).

  Paths are byte sequences, and the engine cursor orders keys by `keycmp` (`KeyCmp` of `KeyOrder`, tabulated once as `KeyRank`). Each engine call is one action:

  | Operation | Actions |
  |---|---|
  | mkdir, create | `Mkdir`, `Create` (one create update) |
  | unlink | `UnlinkGet`, `UnlinkDelete`, then `UnlinkTruncate` for a symlink (st_blocks = 1): the stubbed block delete aborts unless NDEBUG |
  | rmdir | `RmdirGet`, `RmdirScan` (`directory_is_empty`), `RmdirDelete` |
  | symlink | `SymlinkGet`, `SymlinkMeta` |
  | chmod, chown, utime | `Chmod`, `Chown`, `Utime` (one update each, through `AttrUpdate`) |
  | FUSE readdir loop | `ListOpen` (opendir), `ListStat`, then per `toku_fs_readdir` call `ReaddirSetRange` and `ReaddirNext` per cursor step, `ListClose` |
  | rename | `RenameGet`, `RenameExists`, `RenameUnlinkGet`, `RenameUnlinkDelete` (and `UnlinkTruncate` when the target is a symlink), then per pass `RenameSetRange`, `RenameCurrent`, `RenamePut`, `RenameNext` |

  `Batch` is the adapter's number of entries per `toku_fs_readdir` call. `RenameCurrent` models the stubbed delete of the old key: it aborts unless `NDEBUG`. `Restart` and `Terminating` are as in `TokuFS`.
- **`MCTokuDir`**: three initial namespaces (one with the `/a.` sibling trap) and the small path sets of each operation.

## Runs

| Run | Checks | Shows |
|---|---|---|
| key_order | 7 key-order invariants | The blocks of a name sort by number, are contiguous, and are recognised by `keys_share_name_prefix`. A directory's entries form one run, and `is_directly_under_dir` is "is a child of". The rename check selects exactly the subtree. Block numbers survive the round trip through the encoding. |
| rename_data_pass | `DataRenameCoversSubtree` (violation) | The single data-database pass misses `/a/b`'s blocks when `/a.` exists. |
| fs_concurrent | TypeOK, `PendingSlotExclusive`, `ReadSeesStore`, `DataWithinSize`, `IoNameStable`, `PwriteStaysInRange`, `FdTableRefinement` | 2 threads and 2 files; open/close/pwrite/pread interleaved at every engine call. The fd table refines `OpenFileTable`. Each thread uses only its own descriptors, as under FUSE. A pread or pwrite reads `file->bstore.name` after it released the lock, and `IoNameStable` shows that this slot is still VALID and still names the file it looked up. |
| fs_truncate | `ReadSeesStore`, `DataWithinSize` | One thread: pwrite, pread, truncate to every length 0..3, symlink (a 1-byte target, and a 2-byte one too long for the 2-byte block) and readlink. A truncate to 0 or 1 while block 1 is stored reaches the stubbed block delete (bstore.c:905) and aborts. The abort comes before the size update, so no block is left past the size. |
| fs_misuse | `PendingSlotExclusive`, `ReadSeesStore`, `FdTableRefinement` | Any descriptor, including another thread's and out-of-range ones, through open, close, pwrite, pread, truncate and unlink. The process also unmounts and remounts itself. An in-process unmount and mount are stuttering steps of `OpenFileTable`, because the fd table survives them. |
| unlink_recreate | `DataWithinSize` (violation) | A pwrite on an unlinked file leaves a block that a re-created file shows. |
| truncate_race | `DataWithinSize` (violation) | A truncate using a stale size races a pwrite, and sets a size below a block the pwrite stored. Only library callers can reach this. Under FUSE the kernel holds the inode lock across truncate and across write, which serialises them. |
| symlink_race | `DataWithinSize` (violation) | A create lands between symlink's name check and its metadata update. symlink_meta_cb's assert then aborts the process after block 0 was put. After the restart, the empty regular file holds the link target as data. Under FUSE the kernel's parent-directory lock serialises the two calls; a library caller has no such lock. |
| close_badfd | `NoUndefinedBehaviour` (violation) | `close(-1)` unlocks an unheld lock, and `close(MAX_OPEN_FILES)` reads past the table. |
| dir_listing | TypeOK, `ReaddirNoDuplicates`, `ReaddirOnlyChildren`, `ReaddirCompleteWhenQuiet`, `ListingTerminates` | Two threads: listings of `/`, `/a` and `/b` one name per call, against mkdir, create, unlink, rmdir, rename, symlink, chmod, chown and utime. No name is listed twice, only present children are listed, an undisturbed listing is complete, and every listing ends. |
| dir_rename | `RenameCopiesSubtree`, `RenameTerminates` | With NDEBUG, an undisturbed rename of `/a` or `/a.` copies the whole subtree under the new name, and every rename returns. |
| rename_nonempty | `NamespaceIsTree` (violation) | `rename(/a, /b)` where `/b` is a non-empty directory. The kernel checks only that both are directories, and leaves the emptiness check (ENOTEMPTY) to the file system. `toku_fs_rename` unlinks `/b` without that check, so `/b/c` is left with no parent directory. This happens in the default build, before `rename_prefix` aborts on the stubbed delete. |

Five findings are kept in `PROJECT.json` without a run of their own, because the checker's budget of runs is used up:

- I/O on a descriptor of an unlinked file dereferences NULL.
- With NDEBUG, a dropped block stays readable past a truncate.
- A shrinking truncate aborts on the stubbed cursor delete (`NeverCrashes`).
- A resumed `toku_fs_readdir` skips a child that was present throughout, when another thread unlinked the last name returned (`ReaddirListsStableChildren`). This affects library callers only: under FUSE the kernel holds the directory lock shared across the adapter's whole loop.
- `toku_fs_unmount` does not refuse while files are open, although its comment says it does. A descriptor survives the unmount, and the next call through it reaches a NULL `data_db`. TLC finds this in three steps (`OpenAlloc`, `Unmount`, `CallUnmounted`) when `NeverCrashes` is checked with the operations open, pwrite and unmount.

The findings in `PROJECT.json` explain each violation, at its source line.

Each property of a passing run has a mutant in `PROJECT.json`. A mutant is a
plausible bug in a mapped definition, and TLC finds the property violated
when that definition is replaced by it. Examples:

- a block count that rounds up always;
- a slot search that takes PENDING slots;
- a scan that skips its first block;
- a size update without `MAX`;
- a block update that copies to offset 0;
- a truncate without `truncate_block`;
- little-endian block numbers;
- keycmp without its level order.

## Bounds and why they are enough

- **Blocks:** `BLOCKSIZE = 2`, `NBLOCKS = 2`. Every boundary case occurs: an offset inside a block, a write spanning two blocks, a whole-block put, a partial update, a hole before the first stored block, and a read past the last block.
- **Offsets and counts:** in `{0,1,2}` and `{0,1,2}` or `{1,2}`. They reach every in-block offset, both blocks, and the zero-count pwrite.
- **Threads:** 2 threads share 2 slots, or 2 slots of a `MAX_OPEN_FILES = 2` table. This is the least that makes a PENDING slot, a full table (EMFILE) and two concurrent operations on one file reachable.
- **Operations:** `MaxOps` is 4 to 6. That is enough for open plus three more operations per thread, which every violation trace needs, and it keeps each run under a minute.
- **Key order:** `Blocks = {0,1,255,256}`. 255 and 256 differ in the second-lowest byte, so little- and big-endian orders disagree.
- **Paths:** the 8 paths include depth 0 to 3 and the `.` sibling of a directory and of a file.
- **Directories:** 2 threads and `MaxOps = 3` in `TokuDir`. `Batch = 1` makes every listing of two children resume at least once, which is where the skip and duplicate hazards lie. The namespaces reach depth 3, so rename needs three passes. They contain `/a.`, which sorts between `/a` and `/a/...`.

## Fairness

`TokuDir`'s `Spec` assumes `WF_vars(Continue(t))` for each thread: a call
in progress keeps running. A thread blocks only inside an engine call, and
each engine call returns. No fairness is assumed for starting calls or for
`Restart`: a caller may stop calling, and a crashed mount need not be
remounted. Under this assumption `ListingTerminates` and `RenameTerminates`
state that every call in progress returns or the process aborts. `TokuFS`
checks no liveness property and assumes no fairness. No cfg sets
`CHECK_DEADLOCK FALSE`. `Terminating` is the explicit stop once every
operation has returned.

## Not modelled, and why

- The FUSE adapter beyond its readdir loop and one-to-one wrappers (read, write, truncate, readlink, mount options). The MPI-IO driver, echofs, benchmarks, utilities, sandbox and tests: they hold no state of the library's.
- The insides of environment set-up (directory creation, `DB_ENV` flags, cache size getters and setters). `Mount` opens the environment in one step, and no property tells its parts apart.
- atime, mtime, mode and owner: no property reads them.
- `bstore_update_rmw` (USE_BDB builds): the default build uses atomic engine updates.
- In `TokuDir`: the data side of symlink and rename (block 0 of a symlink is in `TokuFS`; the data-database pass is checked by `MCRenamePass` on a static tree), readlink (in `TokuFS`), stat fields other than the type, and symlink's ENAMETOOLONG check (in `TokuFS`).
- readlink's copy of a whole block into the caller's buffer of `size` bytes (an overflow when `size < BSTORE_BLOCKSIZE`). Buffer sizes are abstracted away.
- `rename_meta_cb` and `toku_metadata_update_for_rename`: nothing calls them. Renames of a directory into its own subtree are not started, because the kernel rejects them before the adapter is called.
- Negative offsets and lengths (EINVAL before any state is read).
- The `int` overflow of `block_get_count_by_size`, which needs sizes of 2^40 bytes.

## Plan for later work

In order of importance:

1. **Rename against file I/O.** Rename interleaved with open and pwrite in one model composing `TokuFS` and `TokuDir`. Check that an open descriptor's name still names its file's metadata.
2. **An abstract byte-file specification.** Files are byte sequences with atomic pread/pwrite/truncate. Show that `TokuFS`, restricted to non-overlapping operations, refines it.
3. **An abstract directory specification.** A set of paths with atomic operations. Show which `TokuDir` behaviours refine it, and where readdir does not.
4. **A run of its own for `NeverCrashes`** on unmount with files open, should a run become free.
5. **Crash anywhere.** A crash at every step, not only at failed asserts, with a property stating what a mount after any crash must see.
