------------------------------- MODULE TokuFS -------------------------------
(***************************************************************************)
(* The file layer of TokuFS (tokufs.c) over the block store (bstore.c)    *)
(* and the metadata callbacks (metadata.c): the open-file table, open,     *)
(* close, pwrite, pread, truncate, unlink, symlink and readlink, run by    *)
(* concurrent threads, and unmount and mount of the running process.      *)
(*                                                                         *)
(* Each engine call (get, put, update, cursor set_range / next) is one     *)
(* atomic step: the engine runs every call and every update callback      *)
(* atomically, and nothing groups two calls.  A section of code that holds *)
(* the fd table lock and makes no engine call is one step as well.         *)
(*                                                                         *)
(* A file name is a model value; the key order of names is checked in      *)
(* MCKeyOrder, which shows that the blocks of one name are contiguous and  *)
(* in block order, so a scan from (name, b) meets the blocks of name from  *)
(* b upwards and then a key of another name.  A byte is 0 or a value of   *)
(* Values; a pwrite writes one value v over its whole range.  Times       *)
(* (atime, mtime) are left out: no property reads them.                   *)
(*                                                                         *)
(* A failed assert (NDEBUG false) or a NULL dereference ends the process:  *)
(* alive becomes FALSE.  Restart models the next mount: the engine keeps   *)
(* every committed call, the fd table and the threads start afresh.        *)
(***************************************************************************)
EXTENDS Naturals, Integers, Sequences, FiniteSets

CONSTANTS
    Threads,          \* threads calling into the library (FUSE workers)
    Paths,            \* file names, model values
    Values,           \* nonzero byte values a pwrite may write
    BLOCKSIZE,        \* BSTORE_BLOCKSIZE
    NBLOCKS,          \* blocks per file the model has room for
    MAX_OPEN_FILES,   \* size of fd_table
    FdArgs,           \* descriptors a caller may pass to close/pread/pwrite
    Offsets, Counts,  \* pread/pwrite arguments
    Lengths,          \* truncate lengths
    LinkSizes,        \* strlen(oldpath) + 1 of the symlinks created
    Ops,              \* the operations the callers use
    OwnFdsOnly,       \* TRUE: a thread passes only descriptors it opened
    NDEBUG,           \* TRUE: built with asserts compiled out
    MaxOps,           \* bound on the operations started
    NoName,           \* bstore.name after invalidate_open_file's memset
    NoBlock,          \* no data pair for this key
    NoMeta            \* no metadata pair for this name

FileBytes == NBLOCKS * BLOCKSIZE

ASSUME /\ BLOCKSIZE \in Nat \ {0} /\ NBLOCKS \in Nat \ {0}
       /\ MAX_OPEN_FILES \in Nat \ {0} /\ MaxOps \in Nat
       /\ Values \subseteq Nat \ {0} /\ FdArgs \subseteq Int
       /\ \A o \in Offsets, c \in Counts : o + c <= FileBytes
       /\ Lengths \subseteq 0..FileBytes
       /\ LinkSizes \subseteq 1..(BLOCKSIZE + 1)
       /\ Ops \subseteq {"open", "close", "pwrite", "pread", "truncate", "unlink",
                        "symlink", "readlink", "mount", "unmount"}
       /\ NDEBUG \in BOOLEAN /\ OwnFdsOnly \in BOOLEAN

FREE == "FREE"
VALID == "VALID"
PENDING == "PENDING"

Slots == 0..(MAX_OPEN_FILES - 1)
Blocks == 0..(NBLOCKS - 1)
Bytes == {0} \cup Values
Block == [0..(BLOCKSIZE - 1) -> Bytes]
Meta == [size : 0..FileBytes, blocks : 0..NBLOCKS, link : BOOLEAN]   \* link: S_ISLNK

MIN(a, b) == IF a < b THEN a ELSE b
MAX(a, b) == IF a > b THEN a ELSE b
Zeros(n) == [k \in 1..n |-> 0]
Least(S) == CHOOSE s \in S : \A r \in S : s <= r

(* block.h *)
block_get_num_by_position(pos) == pos \div BLOCKSIZE
block_get_offset_by_position(pos) == pos % BLOCKSIZE

(* Variant: a block count that adds one block whatever the remainder.     *)
block_get_count_by_size_plus1(size) == size \div BLOCKSIZE + 1

block_get_count_by_size(size) ==
    size \div BLOCKSIZE + (IF size % BLOCKSIZE # 0 THEN 1 ELSE 0)

(* Variant: a slot search that takes any slot not VALID.                  *)
get_free_fd_not_valid(ft) ==
    LET free == {i \in Slots : ft[i].status # VALID}
    IN  IF free = {} THEN -1 ELSE Least(free)

(* get_free_fd: the lowest FREE slot, or -1.                               *)
get_free_fd(ft) ==
    LET free == {i \in Slots : ft[i].status = FREE}
    IN  IF free = {} THEN -1 ELSE Least(free)

(* invalidate_open_file                                                    *)
FreeSlot == [status |-> FREE, name |-> NoName]

(* Variant: the caller's bytes copied to the start of the block.          *)
block_update_cb_at0(old, offset, size, v) ==
    LET base == IF old = NoBlock THEN [i \in 0..(BLOCKSIZE - 1) |-> 0] ELSE old
    IN  [i \in 0..(BLOCKSIZE - 1) |-> IF i < size THEN v ELSE base[i]]

(* block_update_cb: the old block, or zeros when there is none, with       *)
(* [offset, offset + size) overwritten by the caller's bytes.              *)
block_update_cb(old, offset, size, v) ==
    LET base == IF old = NoBlock THEN [i \in 0..(BLOCKSIZE - 1) |-> 0] ELSE old
    IN  [i \in 0..(BLOCKSIZE - 1) |->
            IF offset <= i /\ i < offset + size THEN v ELSE base[i]]

(* The metadata callbacks on an existing record.                           *)
create_meta_cb == [size |-> 0, blocks |-> 0, link |-> FALSE]
(* Variant: the size set to the last offset, without MAX.                 *)
pwrite_meta_cb_no_max(old, last_offset) ==
    [old EXCEPT !.size = last_offset, !.blocks = block_get_count_by_size(last_offset)]
pwrite_meta_cb(old, last_offset) ==
    LET size == MAX(old.size, last_offset)
    IN  [old EXCEPT !.size = size, !.blocks = block_get_count_by_size(size)]
truncate_meta_cb(old, size) ==
    [old EXCEPT !.size = size, !.blocks = block_get_count_by_size(size)]
(* symlink_meta_cb: a new record, S_IFLNK, the target's size, one block.  *)
symlink_meta_cb(link_size) == [size |-> link_size, blocks |-> 1, link |-> TRUE]

(* The update_for wrappers: one meta_db->update of the name's record.     *)
toku_metadata_update_for_pwrite(m, name, last_offset) ==
    [m EXCEPT ![name] = pwrite_meta_cb(@, last_offset)]
toku_metadata_update_for_truncate(m, name, size) ==
    [m EXCEPT ![name] = truncate_meta_cb(@, size)]
(* pread_meta_cb asserts oldval != NULL and then reads it: no record ends *)
(* the process, with or without asserts.                                  *)
pread_meta_cb_faults(m, name) == m[name] = NoMeta

(* toku_bstore_get: the block, or NoBlock for BSTORE_NOTFOUND.           *)
toku_bstore_get(dat, name, b) == dat[name][b]
(* toku_bstore_put and toku_bstore_update of block b of name.             *)
toku_bstore_put(dat, name, b, blk) == [dat EXCEPT ![name][b] = blk]
toku_bstore_update(dat, name, b, offset, size, v) ==
    [dat EXCEPT ![name][b] = block_update_cb(@, offset, size, v)]

(* The block symlink puts: the target (n - 1 bytes, here all v) and its   *)
(* NUL, in a zeroed block.                                                 *)
LinkBlock(n, v) == [i \in 0..(BLOCKSIZE - 1) |-> IF i < n - 1 THEN v ELSE 0]

(* update_pread_scan_cb_info after appending bytes to the buffer.          *)
update_pread_scan_cb_info(info, bytes) ==
    [offset |-> info.offset + Len(bytes),
     count  |-> info.count - Len(bytes),
     buf    |-> info.buf \o bytes]

(* The gap loop of pread_scan_cb: zeros up to the scanned block b.         *)
RECURSIVE PadGap(_, _)
PadGap(info, b) ==
    IF info.count > 0 /\ block_get_num_by_position(info.offset) < b
    THEN LET rs == MIN(info.count,
                       BLOCKSIZE - block_get_offset_by_position(info.offset))
         IN  PadGap(update_pread_scan_cb_info(info, Zeros(rs)), b)
    ELSE info

(* pread_scan_cb: pad the gap, then copy from block b while count > 0.     *)
pread_scan_cb(info, b, blk) ==
    LET g  == PadGap(info, b)
        bo == block_get_offset_by_position(g.offset)
        rs == MIN(g.count, BLOCKSIZE - bo)
    IN  IF g.count > 0
        THEN update_pread_scan_cb_info(g, [k \in 1..rs |-> blk[bo + k - 1]])
        ELSE g

(* Variant: the stored blocks strictly after block b.                     *)
BlocksAfter(dat, name, b) == {c \in Blocks : c > b /\ dat[name][c] # NoBlock}

(* The stored blocks of name at or after block b (c_getf_set_range) and    *)
(* after block b (c_getf_next) that a block scan of name can reach.        *)
BlocksFrom(dat, name, b) == {c \in Blocks : c >= b /\ dat[name][c] # NoBlock}

VARIABLES
    data,      \* data_db: name -> block number -> block or NoBlock
    meta,      \* meta_db: name -> [size, blocks] or NoMeta
    fdTable,   \* fd_table: slot -> [status, name]
    pc,        \* thread -> the step it is at
    loc,       \* thread -> its locals
    owned,     \* thread -> the descriptors its opens returned (callers' view)
    touched,   \* thread -> a pread whose file changed while it ran (ghost)
    alive,     \* the process runs; FALSE after an abort or a segfault
    ub,        \* undefined behaviour happened (ghost)
    opsLeft,   \* operations that may still start
    mounted    \* data_db, meta_db and db_env are open (mount_path != NULL)

vars == <<data, meta, fdTable, pc, loc, owned, touched, alive, ub, opsLeft, mounted>>

Idle == [op |-> "none", path |-> NoName, fd |-> -1, creat |-> FALSE,
         ok |-> FALSE, off |-> 0, cnt |-> 0, v |-> 0, buf |-> <<>>,
         sname |-> NoName, cur |-> -1, start |-> 0, total |-> 0,
         len |-> 0, seen |-> 0]

Init ==
    /\ data = [p \in Paths |-> [b \in Blocks |-> NoBlock]]
    /\ meta = [p \in Paths |-> NoMeta]
    /\ fdTable = [i \in Slots |-> FreeSlot]
    /\ pc = [t \in Threads |-> "idle"]
    /\ loc = [t \in Threads |-> Idle]
    /\ owned = [t \in Threads |-> {}]
    /\ touched = [t \in Threads |-> FALSE]
    /\ alive = TRUE
    /\ ub = FALSE
    /\ opsLeft = MaxOps
    /\ mounted = TRUE

-----------------------------------------------------------------------------
(* Step helpers.                                                           *)

Begin(t, op) ==
    /\ alive /\ op \in Ops /\ pc[t] = "idle" /\ opsLeft > 0
    /\ opsLeft' = opsLeft - 1

Goto(t, s) == pc' = [pc EXCEPT ![t] = s]
Done(t) == pc' = [pc EXCEPT ![t] = "idle"] /\ loc' = [loc EXCEPT ![t] = Idle]

(* The process dies: an assert fails or a NULL pointer is dereferenced.    *)
Crash == alive' = FALSE /\ UNCHANGED <<data, meta, fdTable, pc, loc, owned,
                                       touched, ub, opsLeft, mounted>>

(* A failed assert ends the process unless it is compiled out.             *)
AssertHolds(cond) == cond \/ NDEBUG

(* Ghost: a pread of file p, or of slot i, sees its source change.         *)
Touch(p) ==
    touched' = [u \in Threads |-> touched[u] \/
                                  (loc[u].op = "pread" /\ loc[u].path = p)]
TouchSlot(i) ==
    touched' = [u \in Threads |-> touched[u] \/
                                  (loc[u].op = "pread" /\ loc[u].fd = i)]

(* The descriptors a thread may pass.                                      *)
FdChoices(t) == IF OwnFdsOnly THEN owned[t] ELSE FdArgs

(* locked_get_open_file: the slot if fd is in range and VALID.             *)
locked_get_open_file(fd) == fd \in Slots /\ fdTable[fd].status = VALID

(* The name the open file's bstore holds now: file->bstore.name is read    *)
(* at each use, after the fd table lock was released.                     *)
BstoreName(t) == fdTable[loc[t].fd].name

-----------------------------------------------------------------------------
(* toku_fs_open                                                            *)

(* Under the write lock: get_free_fd, EMFILE or mark the slot PENDING.     *)
OpenAlloc(t, p, creat) ==
    /\ Begin(t, "open")
    /\ mounted \/ NDEBUG
    /\ LET i == get_free_fd(fdTable)
       IN  IF i < 0
           THEN UNCHANGED <<fdTable, pc, loc, owned, touched, mounted>>
           ELSE /\ fdTable' = [fdTable EXCEPT ![i] = [status |-> PENDING, name |-> NoName]]
                /\ TouchSlot(i)
                /\ Goto(t, "open_meta")
                /\ loc' = [loc EXCEPT ![t] = [Idle EXCEPT !.op = "open", !.path = p,
                                                          !.fd = i, !.creat = creat]]
                /\ UNCHANGED owned
    /\ UNCHANGED <<data, meta, alive, ub, mounted>>

(* O_CREAT: the CREATE metadata update (ignored if present); otherwise     *)
(* file_exists.                                                            *)
OpenMeta(t) ==
    /\ alive /\ mounted /\ pc[t] = "open_meta"
    /\ LET p == loc[t].path
       IN  /\ meta' = IF loc[t].creat /\ meta[p] = NoMeta
                      THEN [meta EXCEPT ![p] = create_meta_cb] ELSE meta
           /\ loc' = [loc EXCEPT ![t].ok = loc[t].creat \/ meta[p] # NoMeta]
    /\ Goto(t, "open_finish")
    /\ UNCHANGED <<data, fdTable, owned, touched, alive, ub, opsLeft, mounted>>

(* Under the write lock again: bstore_open and VALID, or invalidate.       *)
OpenFinish(t) ==
    /\ alive /\ pc[t] = "open_finish"
    /\ AssertHolds(mounted)
    /\ LET i == loc[t].fd
       IN  /\ fdTable' = [fdTable EXCEPT ![i] =
                            IF loc[t].ok THEN [status |-> VALID, name |-> loc[t].path]
                            ELSE FreeSlot]
           /\ owned' = IF loc[t].ok THEN [owned EXCEPT ![t] = @ \cup {i}] ELSE owned
           /\ TouchSlot(i)
    /\ Done(t)
    /\ UNCHANGED <<data, meta, alive, ub, opsLeft, mounted>>

(* toku_fs_close.  A descriptor out of range jumps to out: and unlocks a   *)
(* lock it never took; fd = MAX_OPEN_FILES passes the range test and reads *)
(* fd_table[MAX_OPEN_FILES], past the array: EBADF or a free of garbage.   *)
Close(t, fd) ==
    /\ Begin(t, "close")
    /\ mounted \/ NDEBUG
    /\ fd \in FdChoices(t)
    /\ \/ /\ fd < 0 \/ fd > MAX_OPEN_FILES
          /\ ub' = TRUE
          /\ UNCHANGED <<data, meta, fdTable, pc, loc, owned, touched, alive, mounted>>
       \/ /\ fd = MAX_OPEN_FILES
          /\ ub' = TRUE
          /\ \/ UNCHANGED <<data, meta, fdTable, pc, loc, owned, touched, alive, mounted>>
             \/ alive' = FALSE /\ UNCHANGED <<data, meta, fdTable, pc, loc, owned, touched, mounted>>
       \/ /\ fd \in Slots /\ fdTable[fd].status # VALID
          /\ UNCHANGED <<data, meta, fdTable, pc, loc, owned, touched, alive, ub, mounted>>
       \/ /\ fd \in Slots /\ fdTable[fd].status = VALID
          /\ fdTable' = [fdTable EXCEPT ![fd] = FreeSlot]
          /\ owned' = [u \in Threads |-> owned[u] \ {fd}]
          /\ TouchSlot(fd)
          /\ UNCHANGED <<data, meta, pc, loc, alive, ub, mounted>>

-----------------------------------------------------------------------------
(* toku_fs_pwrite                                                          *)

(* locked_get_open_file, or EBADF.                                         *)
PwriteLookup(t, fd, off, cnt, v) ==
    /\ Begin(t, "pwrite")
    /\ fd \in FdChoices(t)
    /\ IF locked_get_open_file(fd)
       THEN /\ Goto(t, IF cnt > 0 THEN "pwrite_chunk" ELSE "pwrite_meta")
            /\ loc' = [loc EXCEPT ![t] = [Idle EXCEPT !.op = "pwrite", !.fd = fd,
                          !.path = fdTable[fd].name, !.off = off, !.cnt = cnt, !.v = v,
                          !.start = off, !.total = cnt]]
       ELSE UNCHANGED <<pc, loc, mounted>>
    /\ UNCHANGED <<data, meta, fdTable, owned, touched, alive, ub, mounted>>

(* One pass of the chunk loop: put a full block, update a partial one.     *)
PwriteChunk(t) ==
    /\ alive /\ mounted /\ pc[t] = "pwrite_chunk"
    /\ LET name == BstoreName(t)
           off  == loc[t].off
           b    == block_get_num_by_position(off)
           bo   == block_get_offset_by_position(off)
           ws   == MIN(loc[t].cnt, BLOCKSIZE - bo)
       IN  IF name = NoName THEN Crash
           ELSE /\ data' = IF ws = BLOCKSIZE
                            THEN toku_bstore_put(data, name, b, [i \in 0..(BLOCKSIZE - 1) |-> loc[t].v])
                            ELSE toku_bstore_update(data, name, b, bo, ws, loc[t].v)
                /\ loc' = [loc EXCEPT ![t].off = off + ws, ![t].cnt = @ - ws]
                /\ Goto(t, IF loc[t].cnt - ws > 0 THEN "pwrite_chunk" ELSE "pwrite_meta")
                /\ Touch(name)
                /\ UNCHANGED <<meta, fdTable, owned, alive, ub, opsLeft, mounted>>

(* The PWRITE metadata update with the offset the loop ended at.           *)
PwriteMeta(t) ==
    /\ alive /\ mounted /\ pc[t] = "pwrite_meta"
    /\ LET name == BstoreName(t)
       IN  IF name = NoName \/ meta[name] = NoMeta THEN Crash
           ELSE /\ meta' = toku_metadata_update_for_pwrite(meta, name, loc[t].off)
                /\ Done(t)
                /\ UNCHANGED <<data, fdTable, owned, touched, alive, ub, opsLeft, mounted>>

-----------------------------------------------------------------------------
(* toku_fs_pread                                                           *)

PreadLookup(t, fd, off, cnt) ==
    /\ Begin(t, "pread")
    /\ fd \in FdChoices(t)
    /\ IF locked_get_open_file(fd)
       THEN /\ Goto(t, "pread_meta")
            /\ loc' = [loc EXCEPT ![t] = [Idle EXCEPT !.op = "pread", !.fd = fd,
                          !.path = fdTable[fd].name, !.off = off, !.cnt = cnt,
                          !.start = off, !.total = cnt]]
            /\ touched' = [touched EXCEPT ![t] = FALSE]
       ELSE UNCHANGED <<pc, loc, touched, mounted>>
    /\ UNCHANGED <<data, meta, fdTable, owned, alive, ub, mounted>>

(* toku_bstore_meta_get and assert(ret == 0).                              *)
PreadMeta(t) ==
    /\ alive /\ mounted /\ pc[t] = "pread_meta"
    /\ LET name == BstoreName(t)
       IN  IF name = NoName \/ ~AssertHolds(meta[name] # NoMeta) THEN Crash
           ELSE /\ Goto(t, "pread_scan")
                /\ UNCHANGED <<data, meta, fdTable, loc, owned, touched, alive, ub, opsLeft, mounted>>

(* One cursor call of toku_bstore_scan with pread_scan_cb: set_range from  *)
(* the block of the offset, then next while the callback continues.  The   *)
(* start key, and with it the name, is built once, at set_range.           *)
ScanStep(t, name, from) ==
    LET bs   == BlocksFrom(data, name, from)
        info == [offset |-> loc[t].off, count |-> loc[t].cnt, buf |-> loc[t].buf]
        b    == Least(bs)
        new  == pread_scan_cb(info, b, data[name][b])
    IN  IF bs = {}
        THEN /\ Goto(t, "pread_finish")
             /\ loc' = [loc EXCEPT ![t].sname = name]
        ELSE /\ Goto(t, IF new.count > 0 THEN "pread_scan_next" ELSE "pread_finish")
             /\ loc' = [loc EXCEPT ![t].sname = name, ![t].cur = b, ![t].off = new.offset,
                                   ![t].cnt = new.count, ![t].buf = new.buf]

PreadScanFirst(t) ==
    /\ alive /\ mounted /\ pc[t] = "pread_scan"
    /\ IF BstoreName(t) = NoName THEN Crash
       ELSE /\ ScanStep(t, BstoreName(t), block_get_num_by_position(loc[t].off))
            /\ UNCHANGED <<data, meta, fdTable, owned, touched, alive, ub, opsLeft, mounted>>

PreadScanNext(t) ==
    /\ alive /\ mounted /\ pc[t] = "pread_scan_next"
    /\ ScanStep(t, loc[t].sname, loc[t].cur + 1)
    /\ UNCHANGED <<data, meta, fdTable, owned, touched, alive, ub, opsLeft, mounted>>

(* Zero-fill the rest of the buffer, then the PREAD metadata update, which *)
(* reads oldval without a NULL check.  atime is not modelled, so a present *)
(* record is left as it is.                                                *)
PreadFinish(t) ==
    /\ alive /\ mounted /\ pc[t] = "pread_finish"
    /\ LET name == BstoreName(t)
       IN  IF name = NoName \/ pread_meta_cb_faults(meta, name) THEN Crash
           ELSE /\ Done(t)
                /\ UNCHANGED <<data, meta, fdTable, owned, touched, alive, ub, opsLeft, mounted>>

-----------------------------------------------------------------------------
(* toku_fs_truncate                                                        *)

(* toku_bstore_truncate(name, first): set_range to (name, first); the     *)
(* callback asks for a delete iff a block of name >= first is there.  The  *)
(* delete is stubbed (ret = ENOSYS; assert(ret == 0)), so a delete aborts, *)
(* or, with asserts compiled out, the loop walks the blocks and deletes    *)
(* none.  No step of it changes the store.                                 *)
toku_bstore_truncate_aborts(name, first) ==
    BlocksFrom(data, name, first) # {} /\ ~NDEBUG

(* meta_get: ENOENT; grow to the not_deleting_blocks label; same size:     *)
(* out; shrink: the block store truncate.                                  *)
TruncateGet(t, p, len) ==
    /\ Begin(t, "truncate")
    /\ mounted
    /\ IF meta[p] = NoMeta \/ meta[p].size = len
       THEN UNCHANGED <<pc, loc, mounted>>
       ELSE /\ Goto(t, IF meta[p].size < len THEN "truncate_meta" ELSE "truncate_blocks")
            /\ loc' = [loc EXCEPT ![t] = [Idle EXCEPT !.op = "truncate", !.path = p,
                                                      !.len = len]]
    /\ UNCHANGED <<data, meta, fdTable, owned, touched, alive, ub, mounted>>

TruncateBlocks(t) ==
    /\ alive /\ mounted /\ pc[t] = "truncate_blocks"
    /\ LET first == block_get_num_by_position(loc[t].len) + 1
       IN  IF toku_bstore_truncate_aborts(loc[t].path, first) THEN Crash
           ELSE /\ Goto(t, "truncate_block")
                /\ UNCHANGED <<data, meta, fdTable, loc, owned, touched, alive, ub, opsLeft, mounted>>

(* Variant: truncate without its truncate_block call.                     *)
TruncateBlockSkipped(t) ==
    /\ alive /\ mounted /\ pc[t] = "truncate_block"
    /\ Goto(t, "truncate_meta")
    /\ UNCHANGED <<data, meta, fdTable, loc, owned, touched, alive, ub, opsLeft, mounted>>

(* truncate_block: an update zeroing the last block from the new length.   *)
TruncateBlock(t) ==
    /\ alive /\ mounted /\ pc[t] = "truncate_block"
    /\ LET p  == loc[t].path
           b  == block_get_num_by_position(loc[t].len)
           bo == block_get_offset_by_position(loc[t].len)
       IN  /\ data' = toku_bstore_update(data, p, b, bo, BLOCKSIZE - bo, 0)
           /\ Touch(p)
    /\ Goto(t, "truncate_meta")
    /\ UNCHANGED <<meta, fdTable, loc, owned, alive, ub, opsLeft, mounted>>

(* The TRUNCATE metadata update: assert(oldval != NULL), exact size.       *)
TruncateMeta(t) ==
    /\ alive /\ mounted /\ pc[t] = "truncate_meta"
    /\ LET p == loc[t].path
       IN  IF meta[p] = NoMeta THEN Crash
           ELSE /\ meta' = toku_metadata_update_for_truncate(meta, p, loc[t].len)
                /\ Done(t)
                /\ UNCHANGED <<data, fdTable, owned, touched, alive, ub, opsLeft, mounted>>

-----------------------------------------------------------------------------
(* toku_fs_unlink                                                          *)

(* meta_get: ENOENT, or remember st_blocks.                                *)
UnlinkGet(t, p) ==
    /\ Begin(t, "unlink")
    /\ mounted
    /\ IF meta[p] = NoMeta
       THEN UNCHANGED <<pc, loc, mounted>>
       ELSE /\ Goto(t, "unlink_delete")
            /\ loc' = [loc EXCEPT ![t] = [Idle EXCEPT !.op = "unlink", !.path = p,
                                                      !.seen = meta[p].blocks]]
    /\ UNCHANGED <<data, meta, fdTable, owned, touched, alive, ub, mounted>>

(* The DELETE metadata update, then the truncate if st_blocks was > 0.    *)
UnlinkDelete(t) ==
    /\ alive /\ mounted /\ pc[t] = "unlink_delete"
    /\ meta' = [meta EXCEPT ![loc[t].path] = NoMeta]
    /\ IF loc[t].seen > 0 THEN Goto(t, "unlink_truncate") /\ UNCHANGED loc
       ELSE Done(t)
    /\ UNCHANGED <<data, fdTable, owned, touched, alive, ub, opsLeft, mounted>>

(* do_bstore_truncate: toku_bstore_truncate from block 0.                  *)
UnlinkTruncate(t) ==
    /\ alive /\ mounted /\ pc[t] = "unlink_truncate"
    /\ IF toku_bstore_truncate_aborts(loc[t].path, 0) THEN Crash
       ELSE /\ Done(t)
            /\ UNCHANGED <<data, meta, fdTable, owned, touched, alive, ub, opsLeft, mounted>>

-----------------------------------------------------------------------------
(* toku_fs_symlink and toku_fs_readlink                                    *)

(* meta_get of newpath: EEXIST; a target that does not fit a block:       *)
(* ENAMETOOLONG.  The target is n - 1 bytes of value v and a NUL.          *)
SymlinkGet(t, p, n, v) ==
    /\ Begin(t, "symlink")
    /\ mounted
    /\ IF meta[p] # NoMeta \/ n > BLOCKSIZE
       THEN UNCHANGED <<pc, loc, mounted>>
       ELSE /\ Goto(t, "symlink_put")
            /\ loc' = [loc EXCEPT ![t] = [Idle EXCEPT !.op = "symlink", !.path = p,
                                                      !.cnt = n, !.v = v]]
    /\ UNCHANGED <<data, meta, fdTable, owned, touched, alive, ub, mounted>>

(* toku_bstore_put of block 0, in a bstore opened on newpath.              *)
SymlinkPut(t) ==
    /\ alive /\ mounted /\ pc[t] = "symlink_put"
    /\ data' = toku_bstore_put(data, loc[t].path, 0, LinkBlock(loc[t].cnt, loc[t].v))
    /\ Touch(loc[t].path)
    /\ Goto(t, "symlink_meta")
    /\ UNCHANGED <<meta, fdTable, loc, owned, alive, ub, opsLeft, mounted>>

(* toku_metadata_update_for_symlink: symlink_meta_cb asserts there is no   *)
(* old record (created since the meta_get); without asserts it replaces    *)
(* the record by the symlink's.                                            *)
SymlinkMeta(t) ==
    /\ alive /\ mounted /\ pc[t] = "symlink_meta"
    /\ LET p == loc[t].path
       IN  IF ~AssertHolds(meta[p] = NoMeta) THEN Crash
           ELSE /\ meta' = [meta EXCEPT ![p] = symlink_meta_cb(loc[t].cnt)]
                /\ Done(t)
                /\ UNCHANGED <<data, fdTable, owned, touched, alive, ub, opsLeft, mounted>>

(* meta_get: ENOENT, or EINVAL when the record is not S_ISLNK.             *)
ReadlinkGet(t, p) ==
    /\ Begin(t, "readlink")
    /\ mounted
    /\ IF meta[p] = NoMeta \/ ~meta[p].link
       THEN UNCHANGED <<pc, loc, mounted>>
       ELSE /\ Goto(t, "readlink_block")
            /\ loc' = [loc EXCEPT ![t] = [Idle EXCEPT !.op = "readlink", !.path = p]]
    /\ UNCHANGED <<data, meta, fdTable, owned, touched, alive, ub, mounted>>

(* toku_bstore_get of block 0 and assert(ret == 0): an absent block fails *)
(* the assert; with asserts compiled out the buffer is left as it was.     *)
ReadlinkBlock(t) ==
    /\ alive /\ mounted /\ pc[t] = "readlink_block"
    /\ IF ~AssertHolds(toku_bstore_get(data, loc[t].path, 0) # NoBlock) THEN Crash
       ELSE /\ Done(t)
            /\ UNCHANGED <<data, meta, fdTable, owned, touched, alive, ub, opsLeft, mounted>>

-----------------------------------------------------------------------------
(* toku_fs_unmount and toku_fs_mount, called by a running process.         *)

(* The steps that make an engine call (a get, put, update or cursor call  *)
(* on data_db or meta_db).  toku_bstore_open, at open_finish, only asserts *)
(* db_env != NULL.                                                         *)
EnginePCs == {"open_meta", "pwrite_chunk", "pwrite_meta", "pread_meta",
              "pread_scan", "pread_scan_next", "pread_finish", "truncate_blocks",
              "truncate_block", "truncate_meta", "unlink_delete", "unlink_truncate",
              "symlink_put", "symlink_meta", "readlink_block"}

(* assert(mount_path != NULL), then toku_bstore_env_close: close data_db,  *)
(* meta_db and the environment and set them to NULL.  Nothing looks at the *)
(* fd table: descriptors still open stay VALID.  A second unmount calls    *)
(* data_db->close through NULL, with or without asserts.                   *)
Unmount(t) ==
    /\ Begin(t, "unmount")
    /\ IF ~mounted THEN alive' = FALSE /\ UNCHANGED mounted
       ELSE mounted' = FALSE /\ UNCHANGED alive
    /\ UNCHANGED <<data, meta, fdTable, pc, loc, owned, touched, ub>>

(* assert(mount_path == NULL), toku_bstore_env_open (its own asserts that  *)
(* no comparator and callback are installed), and toku_fs_mkdir("/"): the *)
(* root's record is outside Paths.  A mount over a mounted environment     *)
(* fails the assert; without asserts it opens a second DB_ENV over the     *)
(* same files, which is undefined.                                         *)
Mount(t) ==
    /\ Begin(t, "mount")
    /\ IF ~mounted THEN mounted' = TRUE /\ UNCHANGED <<alive, ub>>
       ELSE IF ~NDEBUG THEN alive' = FALSE /\ UNCHANGED <<mounted, ub>>
       ELSE ub' = TRUE /\ alive' \in BOOLEAN /\ UNCHANGED mounted
    /\ UNCHANGED <<data, meta, fdTable, pc, loc, owned, touched>>

(* A call reaches data_db or meta_db after an unmount set them to NULL, or *)
(* toku_bstore_open's assert finds db_env NULL: the process dies.          *)
CallUnmounted(t) ==
    /\ alive /\ ~mounted
    /\ pc[t] \in EnginePCs \/ (pc[t] = "open_finish" /\ ~NDEBUG)
    /\ Crash

(* toku_fs_open and toku_fs_close start with assert(mount_path != NULL),   *)
(* and toku_fs_unmount left mount_path NULL.                               *)
OpenCloseUnmounted(t) ==
    /\ \E op \in {"open", "close"} : Begin(t, op)
    /\ ~mounted /\ ~NDEBUG
    /\ alive' = FALSE
    /\ UNCHANGED <<data, meta, fdTable, pc, loc, owned, touched, ub, mounted>>

(* truncate, unlink, symlink and readlink start with a meta_get.           *)
StartUnmounted(t) ==
    /\ \E op \in {"truncate", "unlink", "symlink", "readlink"} : Begin(t, op)
    /\ ~mounted
    /\ alive' = FALSE
    /\ UNCHANGED <<data, meta, fdTable, pc, loc, owned, touched, ub, mounted>>

-----------------------------------------------------------------------------
(* toku_fs_mount after a crash: the engine keeps what it committed, the    *)
(* process state starts afresh.                                            *)
Restart ==
    /\ ~alive
    /\ alive' = TRUE
    /\ fdTable' = [i \in Slots |-> FreeSlot]
    /\ pc' = [t \in Threads |-> "idle"]
    /\ loc' = [t \in Threads |-> Idle]
    /\ owned' = [t \in Threads |-> {}]
    /\ touched' = [t \in Threads |-> FALSE]
    /\ mounted' = TRUE
    /\ UNCHANGED <<data, meta, ub, opsLeft>>

(* Every operation the callers started has returned and no more start.     *)
Terminating ==
    /\ alive /\ opsLeft = 0 /\ \A t \in Threads : pc[t] = "idle"
    /\ UNCHANGED vars

Next ==
    \/ \E t \in Threads :
        \/ \E p \in Paths, creat \in BOOLEAN : OpenAlloc(t, p, creat)
        \/ OpenMeta(t) \/ OpenFinish(t)
        \/ \E fd \in FdArgs : Close(t, fd)
        \/ \E fd \in FdArgs, off \in Offsets, cnt \in Counts, v \in Values :
              PwriteLookup(t, fd, off, cnt, v)
        \/ PwriteChunk(t) \/ PwriteMeta(t)
        \/ \E fd \in FdArgs, off \in Offsets, cnt \in Counts : PreadLookup(t, fd, off, cnt)
        \/ PreadMeta(t) \/ PreadScanFirst(t) \/ PreadScanNext(t) \/ PreadFinish(t)
        \/ \E p \in Paths, len \in Lengths : TruncateGet(t, p, len)
        \/ TruncateBlocks(t) \/ TruncateBlock(t) \/ TruncateMeta(t)
        \/ \E p \in Paths : UnlinkGet(t, p)
        \/ UnlinkDelete(t) \/ UnlinkTruncate(t)
        \/ \E p \in Paths, n \in LinkSizes, v \in Values : SymlinkGet(t, p, n, v)
        \/ SymlinkPut(t) \/ SymlinkMeta(t)
        \/ \E p \in Paths : ReadlinkGet(t, p)
        \/ ReadlinkBlock(t)
        \/ Unmount(t) \/ Mount(t)
        \/ CallUnmounted(t) \/ StartUnmounted(t) \/ OpenCloseUnmounted(t)
    \/ Restart
    \/ Terminating

Spec == Init /\ [][Next]_vars

-----------------------------------------------------------------------------
(* Properties                                                              *)

(* The descriptor table seen through the abstract specification: a VALID  *)
(* slot holds its file, a PENDING slot is held by the opens that are      *)
(* between OpenAlloc and OpenFinish with it.                               *)
AbstractFiles == [i \in Slots |-> IF fdTable[i].status = VALID THEN fdTable[i].name ELSE NoName]
AbstractClaims ==
    [i \in Slots |-> IF fdTable[i].status = PENDING
                     THEN {t \in Threads : pc[t] \in {"open_meta", "open_finish"} /\ loc[t].fd = i}
                     ELSE {}]
FdAbs == INSTANCE OpenFileTable WITH Free <- NoName,
                                     files <- AbstractFiles, claimed <- AbstractClaims

(* The fd table, with its lock released between allocation and            *)
(* publication, implements the abstract open-file table: get_free_fd never *)
(* hands out a held or open descriptor, nothing but close (and the next    *)
(* mount) removes an open file, and an open publishes only the slot it     *)
(* reserved.                                                               *)
FdTableRefinement == FdAbs!Spec

PCs == {"idle", "open_meta", "open_finish", "pwrite_chunk", "pwrite_meta",
        "pread_meta", "pread_scan", "pread_scan_next", "pread_finish",
        "truncate_blocks", "truncate_block", "truncate_meta",
        "unlink_delete", "unlink_truncate", "symlink_put", "symlink_meta",
        "readlink_block"}

TypeOK ==
    /\ data \in [Paths -> [Blocks -> Block \cup {NoBlock}]]
    /\ meta \in [Paths -> Meta \cup {NoMeta}]
    /\ fdTable \in [Slots -> [status : {FREE, VALID, PENDING},
                              name : Paths \cup {NoName}]]
    /\ pc \in [Threads -> PCs]
    /\ \A t \in Threads : loc[t].fd \in Slots \cup {-1}
    /\ owned \in [Threads -> SUBSET Slots]
    /\ touched \in [Threads -> BOOLEAN]
    /\ alive \in BOOLEAN /\ ub \in BOOLEAN /\ opsLeft \in 0..MaxOps
    /\ mounted \in BOOLEAN

(* Byte k of file p as a read sees it: an absent block reads as zeros.     *)
ByteAt(dat, p, k) ==
    LET b == k \div BLOCKSIZE
    IN  IF dat[p][b] = NoBlock THEN 0 ELSE dat[p][b][k % BLOCKSIZE]
Contents(p) == [k \in 1..FileBytes |-> ByteAt(data, p, k - 1)]

AtRest == alive /\ \A t \in Threads : pc[t] = "idle"

(***************************************************************************)
(* open's allocation: a PENDING slot belongs to exactly one thread in the  *)
(* middle of toku_fs_open, and no two such threads hold the same slot.     *)
(* get_free_fd, run under the write lock, must hand out only FREE slots,   *)
(* or two opens finish on one descriptor and one file's I/O goes to the    *)
(* other.                                                                  *)
(***************************************************************************)
PendingSlotExclusive ==
    LET opening == {t \in Threads : pc[t] \in {"open_meta", "open_finish"}}
    IN  /\ \A i \in Slots :
              fdTable[i].status = PENDING <=> \E t \in opening : loc[t].fd = i
        /\ \A t, u \in opening : t # u => loc[t].fd # loc[u].fd

(***************************************************************************)
(* pread and pwrite look the descriptor up under the read lock and then    *)
(* use file->bstore.name with the lock released.  Under the calling        *)
(* discipline of FUSE (a file is released only after its last read or     *)
(* write returned; here: a thread passes only descriptors it opened), the  *)
(* slot a call is using stays VALID and still names the file it looked up, *)
(* whatever opens and closes other threads run: get_free_fd never hands a  *)
(* slot in use to a second open.                                           *)
(***************************************************************************)
IoPCs == {"pwrite_chunk", "pwrite_meta", "pread_meta", "pread_scan", "pread_finish"}
IoNameStable ==
    \A t \in Threads :
        pc[t] \in IoPCs => locked_get_open_file(loc[t].fd) /\ BstoreName(t) = loc[t].path

(***************************************************************************)
(* Sparse zero-fill (spec, testable properties): a pread whose file did    *)
(* not change while it ran returns exactly the file's bytes from its       *)
(* offset, zeros for absent blocks and past the last block.  Checked when  *)
(* pread_scan_cb's gap and copy loops and the tail zero-fill are done.     *)
(***************************************************************************)
ReadSeesStore ==
    \A t \in Threads :
        (pc[t] = "pread_finish" /\ ~touched[t] /\ loc[t].path # NoName) =>
            loc[t].buf \o Zeros(loc[t].cnt)
                = SubSeq(Contents(loc[t].path), loc[t].start + 1,
                         loc[t].start + loc[t].total)

(***************************************************************************)
(* A pwrite changes only the bytes of its own range: each pass of the      *)
(* chunk loop writes the block of the current offset from its in-block     *)
(* offset, by a put only when the chunk is a whole block.  (A step of the  *)
(* thread's own pass is one that moves its locals on.)                     *)
(***************************************************************************)
PwriteStaysInRange ==
    [][\A t \in Threads :
          (pc[t] = "pwrite_chunk" /\ alive /\ alive' /\ loc'[t] # loc[t]) =>
              \A p \in Paths, k \in 0..(FileBytes - 1) :
                  (p # loc[t].path \/ k < loc[t].start \/ k >= loc[t].start + loc[t].total)
                      => ByteAt(data', p, k) = ByteAt(data, p, k)]_vars

(***************************************************************************)
(* Every byte a read can see at or past a file's size is zero, whenever no *)
(* operation is in progress (spec: "pread beyond L returns zero bytes"     *)
(* after truncate(path, L); reads of holes and past end of file are zero). *)
(* pread ignores st_size, so this is what keeps a file's contents within   *)
(* its size: pwrite's size update, truncate's block deletion and tail      *)
(* zeroing, and unlink's deletion of the blocks must all do their part.    *)
(***************************************************************************)
DataWithinSize ==
    AtRest =>
        \A p \in Paths : meta[p] # NoMeta =>
            \A k \in 0..(FileBytes - 1) : k >= meta[p].size => ByteAt(data, p, k) = 0

(***************************************************************************)
(* No operation aborts or dereferences NULL: the spec's error taxonomy     *)
(* returns NotFound or BadDescriptor for a storage condition or a bad      *)
(* argument, and reserves aborts for corrupted in-process calls.           *)
(***************************************************************************)
NeverCrashes == alive

(***************************************************************************)
(* toku_fs_close never performs undefined behaviour, whatever descriptor  *)
(* it is given: it answers EBADF for one that is not open.                 *)
(***************************************************************************)
NoUndefinedBehaviour == ~ub

=============================================================================
