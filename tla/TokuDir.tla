------------------------------ MODULE TokuDir ------------------------------
(***************************************************************************)
(* The TokuFS namespace: the metadata dictionary as a map from present     *)
(* paths (byte sequences) to their type, under threads that call mkdir,    *)
(* create (open with O_CREAT), unlink, rmdir, rename and the directory     *)
(* listing loop of the FUSE adapter (opendir, stat, readdir until it       *)
(* returns 0, closedir).  Each engine call (get, update, cursor set_range, *)
(* current, next, put) is one atomic step; nothing groups the calls of one *)
(* operation.  Files have no blocks here (st_blocks = 0), so unlink never  *)
(* truncates and rename's data-database pass has nothing to move; the data *)
(* side is the subject of TokuFS.                                          *)
(***************************************************************************)
EXTENDS KeyOrder, FiniteSetsExt, TLC

CONSTANTS
    Threads,      \* caller threads
    InitNS,       \* namespaces a mount can start from
    MkdirPaths, CreatePaths, UnlinkPaths, RmdirPaths, ListDirs,
    SymlinkPaths, AttrPaths,
    ChmodTypes,   \* the file type bits of the modes chmod is passed
    RenamePairs,  \* <<old, new>> pairs the caller passes (new not below old)
    Batch,        \* num_entries of each readdir call
    NDEBUG,       \* asserts compiled out
    MaxOps        \* operations started in one behaviour

DIR == "dir"
FILE == "file"
LINK == "link"
NOTYPE == "none"    \* st_mode without S_IFMT bits
ROOT == <<SLASH>>

VARIABLES
    ns,       \* meta_db: present path -> DIR or FILE
    pc, loc,  \* per-thread program counter and locals
    alive,    \* the process has not aborted
    opsLeft,
    quiet,    \* ghost: no other thread changed ns since this operation began
    stable    \* ghost: children present at opendir and never removed since

vars == <<ns, pc, loc, alive, opsLeft, quiet, stable>>

(* The meta keys the engine holds, and the name a key stands for.         *)
Keys == {MetaKey(p) : p \in DOMAIN ns}
KeyName(k) == SubSeq(k, 1, Len(k) - 1)
TheKey(S) == CHOOSE k \in S : TRUE

(* Reference: where rename puts an entry q of the subtree of o.            *)
Moved(q, o, nw) == nw \o SubSeq(q, Len(o) + 1, Len(q))
InTree(q, o) == q = o \/ (Len(q) > Len(o) /\ SubSeq(q, 1, Len(o) + 1) = o \o <<SLASH>>)

(* Every path that can be present and every key a cursor can be          *)
(* positioned at.                                                          *)
Universe0 == UNION {DOMAIN f : f \in InitNS} \cup MkdirPaths \cup CreatePaths \cup SymlinkPaths
Universe == Universe0 \cup UNION {{Moved(q, pr[1], pr[2]) : q \in {r \in Universe0 : InTree(r, pr[1])}}
                                  : pr \in RenamePairs}
MaxPass == 1 + Max({StrCount(p, SLASH) : p \in Universe})
CursorKeys == {MetaKey(p) : p \in Universe} \cup {MetaKey(WithSlash(d)) : d \in Universe}
              \cup {RenameProbe(pr[1], i, FALSE) : pr \in RenamePairs, i \in 0..MaxPass}
(* keycmp as a rank: the number of cursor keys it orders below a key.     *)
KeyRank == [k \in CursorKeys |-> Cardinality({j \in CursorKeys : KeyCmp(j, k) < 0})]

(* The engine cursor over the meta keys: c_getf_set_range and c_getf_next.*)
SetRange(probe) ==
    LET after == {k \in Keys : KeyRank[k] >= KeyRank[probe]}
    IN  {k \in after : \A j \in after : KeyRank[k] <= KeyRank[j]}
CursorNext(cur) ==
    LET after == {k \in Keys : KeyRank[k] > KeyRank[cur]}
    IN  {k \in after : \A j \in after : KeyRank[k] <= KeyRank[j]}

(* Reference relations, independent of the code's prefix tests.           *)
ParentPath(p) ==
    LET last == CHOOSE i \in 1..Len(p) : p[i] = SLASH /\
                    \A j \in (i + 1)..Len(p) : p[j] # SLASH
    IN  IF last = 1 THEN ROOT ELSE SubSeq(p, 1, last - 1)
ChildrenOf(d, S) == {p \in S \ {ROOT} : ParentPath(p) = d}

NoLoc == [op |-> "none", path |-> <<>>, new |-> <<>>, key |-> <<>>,
          dirname |-> <<>>, current |-> <<>>, cst |-> "FIRST", cb |-> "READING",
          n |-> 0, got |-> <<>>, sub |-> {}, pass |-> 0, val |-> DIR]

Init ==
    /\ ns \in InitNS
    /\ pc = [t \in Threads |-> "idle"]
    /\ loc = [t \in Threads |-> NoLoc]
    /\ alive = TRUE
    /\ opsLeft = MaxOps
    /\ quiet = [t \in Threads |-> TRUE]
    /\ stable = [t \in Threads |-> {}]

Begin(t) == alive /\ pc[t] = "idle" /\ opsLeft > 0 /\ opsLeft' = opsLeft - 1

(* An engine write by thread t: the other threads' operations see a change.*)
SetNS(t, new) ==
    /\ ns' = new
    /\ quiet' = [u \in Threads |-> quiet[u] /\ (u = t \/ new = ns)]
    /\ stable' = [u \in Threads |-> stable[u] \cap DOMAIN new]
Remove(p) == [q \in DOMAIN ns \ {p} |-> ns[q]]
Goto(t, l, where) == pc' = [pc EXCEPT ![t] = where] /\ loc' = [loc EXCEPT ![t] = l]
Done(t) == Goto(t, NoLoc, "idle")
(* A failed assert: abort, unless asserts are compiled out.                *)
AssertHolds(cond, cont) ==
    IF cond \/ NDEBUG THEN cont /\ UNCHANGED alive
    ELSE alive' = FALSE /\ UNCHANGED <<ns, pc, loc, quiet, stable>>

(* create_meta_cb through the engine update: a new entry of the given     *)
(* type, or BSTORE_UPDATE_IGNORE when one exists.                          *)
CreateMeta(p, type) == IF p \in DOMAIN ns THEN ns ELSE (p :> type) @@ ns

(* toku_fs_mkdir: one create update with S_IFDIR, no check of the parent. *)
Mkdir(t, p) ==
    /\ Begin(t)
    /\ SetNS(t, CreateMeta(p, DIR))
    /\ UNCHANGED <<pc, loc, alive>>

(* toku_fs_open with O_CREAT: the metadata step of open.                   *)
Create(t, p) ==
    /\ Begin(t)
    /\ SetNS(t, CreateMeta(p, FILE))
    /\ UNCHANGED <<pc, loc, alive>>

(* toku_fs_unlink: meta_get (ENOENT when absent), then the delete update, *)
(* then do_bstore_truncate(path) when the st_blocks it read is > 0.        *)
UnlinkGet(t, p) ==
    /\ Begin(t)
    /\ IF p \in DOMAIN ns
       THEN Goto(t, [NoLoc EXCEPT !.op = "unlink", !.path = p, !.val = ns[p]], "un_delete")
       ELSE Done(t)
    /\ UNCHANGED <<ns, alive, quiet, stable>>

(* st_blocks > 0: only symlink_meta_cb sets it (to 1), after block 0 of    *)
(* the link target was put; files here have no data and mkdir sets 0.     *)
HasBlocks(type) == type = LINK

UnlinkDelete(t) ==
    /\ alive /\ pc[t] = "un_delete"
    /\ SetNS(t, Remove(loc[t].path))
    /\ IF HasBlocks(loc[t].val) THEN Goto(t, loc[t], "un_trunc") ELSE Done(t)
    /\ UNCHANGED <<alive, opsLeft>>

(* do_bstore_truncate(path, 0), from toku_fs_unlink or from rename's       *)
(* unlink of its target: the cursor finds block 0, whose stubbed delete   *)
(* (ENOSYS, then assert) aborts; with NDEBUG the loop deletes nothing.     *)
UnlinkTruncate(t) ==
    /\ alive /\ pc[t] \in {"un_trunc", "rn_unlink_trunc"}
    /\ AssertHolds(FALSE, IF pc[t] = "un_trunc" THEN Done(t)
                                                ELSE Goto(t, loc[t], "rn_setrange"))
    /\ UNCHANGED <<ns, opsLeft, quiet, stable>>

(* toku_fs_rmdir: "/" is EINVAL; meta_get gives ENOENT or ENOTDIR.         *)
RmdirGet(t, p) ==
    /\ Begin(t)
    /\ IF p # ROOT /\ p \in DOMAIN ns /\ ns[p] = DIR
       THEN Goto(t, [NoLoc EXCEPT !.op = "rmdir", !.path = p], "rm_scan")
       ELSE Done(t)
    /\ UNCHANGED <<ns, alive, quiet, stable>>

(* directory_is_empty: a meta scan from path_with_slash whose callback     *)
(* looks at the first key only; no key at all means empty.                 *)
DirectoryIsEmpty(d) ==
    LET first == SetRange(MetaKey(WithSlash(d)))
    IN  first = {} \/ ~IsDirectlyUnderDir(KeyName(TheKey(first)), WithSlash(d))

RmdirScan(t) ==
    /\ alive /\ pc[t] = "rm_scan"
    /\ IF DirectoryIsEmpty(loc[t].path) THEN Goto(t, loc[t], "rm_delete") ELSE Done(t)
    /\ UNCHANGED <<ns, alive, opsLeft, quiet, stable>>

(* toku_metadata_delete: delete_meta_cb deletes whatever is there.         *)
RmdirDelete(t) ==
    /\ alive /\ pc[t] = "rm_delete"
    /\ SetNS(t, Remove(loc[t].path))
    /\ Done(t)
    /\ UNCHANGED <<alive, opsLeft>>

(* toku_fs_symlink: meta_get of newpath (EEXIST), then the put of block 0 *)
(* holding the target (the data side is not modelled here).                *)
SymlinkGet(t, p) ==
    /\ Begin(t)
    /\ IF p \in DOMAIN ns THEN Done(t)
       ELSE Goto(t, [NoLoc EXCEPT !.op = "symlink", !.path = p], "sl_meta")
    /\ UNCHANGED <<ns, alive, quiet, stable>>

(* toku_metadata_update_for_symlink: symlink_meta_cb asserts there is no   *)
(* old value, then asserts the engine's buffer is empty and replaces it    *)
(* with the symlink's metadata; without asserts an entry created since the *)
(* meta_get is overwritten.                                                *)
SymlinkMeta(t) ==
    /\ alive /\ pc[t] = "sl_meta"
    /\ AssertHolds(loc[t].path \notin DOMAIN ns,
                   SetNS(t, (loc[t].path :> LINK) @@ ns) /\ Done(t))
    /\ UNCHANGED opsLeft

(* chmod_meta_cb, chown_meta_cb, utime_meta_cb: assert the engine's buffer *)
(* has the metadata's size and copy the old value into it.  With no entry *)
(* the buffer is empty: the assert aborts, and without asserts the copy    *)
(* from the NULL old value faults.                                         *)
AttrUpdate(t, p, new) ==
    /\ Begin(t)
    /\ IF p \in DOMAIN ns
       THEN SetNS(t, [ns EXCEPT ![p] = new]) /\ UNCHANGED alive
       ELSE alive' = FALSE /\ UNCHANGED <<ns, quiet, stable>>
    /\ UNCHANGED <<pc, loc>>

(* toku_fs_chmod: the whole st_mode, file type bits included, is replaced. *)
Chmod(t, p, type) == AttrUpdate(t, p, type)

(* toku_fs_chown and toku_fs_utime: owner and times are not modelled.     *)
TypeOf(p) == IF p \in DOMAIN ns THEN ns[p] ELSE NOTYPE
Chown(t, p) == AttrUpdate(t, p, TypeOf(p))
Utime(t, p) == AttrUpdate(t, p, TypeOf(p))

(***************************************************************************)
(* The listing loop of tokufs_fuse_readdir over toku_fs_opendir,           *)
(* toku_fs_readdir and toku_fs_closedir.  The adapter's num_entries is     *)
(* the constant Batch; got is what the filler has been given.              *)
(***************************************************************************)

(* toku_fs_opendir: meta_get gives ENOENT or ENOTDIR; the cursor starts    *)
(* at the path with a slash in state FIRST.                                *)
ListOpen(t, d) ==
    /\ Begin(t)
    /\ IF d \in DOMAIN ns /\ ns[d] = DIR
       THEN /\ Goto(t, [NoLoc EXCEPT !.op = "list", !.path = d,
                        !.dirname = WithSlash(d), !.current = WithSlash(d),
                        !.cst = "FIRST"], "ls_stat")
            /\ quiet' = [quiet EXCEPT ![t] = TRUE]
            /\ stable' = [stable EXCEPT ![t] = ChildrenOf(d, DOMAIN ns)]
       ELSE Done(t) /\ UNCHANGED <<quiet, stable>>
    /\ UNCHANGED <<ns, alive>>

(* The adapter's toku_fs_stat of the directory, with assert(ret == 0).    *)
ListStat(t) ==
    /\ alive /\ pc[t] = "ls_stat"
    /\ AssertHolds(loc[t].path \in DOMAIN ns, Goto(t, loc[t], "ls_call"))
    /\ UNCHANGED <<ns, opsLeft, quiet, stable>>

(* Variant: the callback fills the buffer without its count check.        *)
ReaddirScanCbNoLimit(l, k) ==
    IF l.cb = "SKIP_FIRST" THEN [l EXCEPT !.cb = "READING"]
    ELSE IF IsDirectlyUnderDir(KeyName(k), l.dirname)
         THEN [l EXCEPT !.got = Append(@, KeyName(k)), !.n = @ + 1, !.cb = "READING"]
         ELSE [l EXCEPT !.cb = "DONE"]

(* readdir_scan_cb on the key k: the locals after it, and whether the     *)
(* scan continues (BSTORE_SCAN_CONTINUE).                                  *)
ReaddirScanCb(l, k) ==
    IF l.cb = "SKIP_FIRST" THEN [l EXCEPT !.cb = "READING"]
    ELSE IF l.n < Batch
         THEN IF IsDirectlyUnderDir(KeyName(k), l.dirname)
              THEN [l EXCEPT !.got = Append(@, KeyName(k)), !.n = @ + 1, !.cb = "READING"]
              ELSE [l EXCEPT !.cb = "DONE"]
         ELSE [l EXCEPT !.cb = "MORE"]
ScanContinues(l, k) == l.cb = "SKIP_FIRST" \/ (l.n < Batch /\ IsDirectlyUnderDir(KeyName(k), l.dirname))

(* Variants: the cursor stays READING when the directory stream ended, or *)
(* is DONE after the first buffer.                                         *)
ReaddirRetMoreOrDone(cb) == IF cb \in {"MORE", "DONE"} THEN 1 ELSE 0
ReaddirRetFirstBuffer(cb) == 0

(* toku_fs_readdir after the scan: MORE returns 1 and keeps reading,       *)
(* anything else returns 0 and the cursor is DONE.                         *)
ReaddirRet(cb) == IF cb = "MORE" THEN 1 ELSE 0

(* The cursor moves to the last name this call returned.                   *)
ReaddirAdvance(l) == IF l.n > 0 THEN [l EXCEPT !.current = l.got[Len(l.got)]] ELSE l

ReaddirFinish(t, l) ==
    LET r == ReaddirRet(l.cb)
    IN  Goto(t, [ReaddirAdvance(l) EXCEPT !.cst = IF r = 1 THEN "READING" ELSE "DONE"],
             IF r = 1 THEN "ls_call" ELSE "ls_close")

(* Apply the callback to k; continue with c_getf_next or finish.           *)
ReaddirVisit(t, l, k) ==
    IF ScanContinues(l, k)
    THEN Goto(t, [ReaddirScanCb(l, k) EXCEPT !.key = k], "ls_next")
    ELSE ReaddirFinish(t, ReaddirScanCb(l, k))

(* Variant: a resumed (READING) cursor does not skip its first key.       *)
ReaddirCbStatusNoSkip(cst, dirname) == IF dirname # ROOT THEN "READING" ELSE "SKIP_FIRST"

(* The callback status a call starts with: a FIRST cursor reads at once,  *)
(* except on "/", whose own key comes first; a READING cursor skips the    *)
(* name it stopped at.                                                     *)
ReaddirCbStatus(cst, dirname) ==
    IF cst = "FIRST" /\ dirname # ROOT THEN "READING" ELSE "SKIP_FIRST"

(* One toku_fs_readdir call up to its first cursor call: the callback      *)
(* status from the cursor status, then set_range at the current name.     *)
(* DB_NOTFOUND makes the cursor DONE.  The adapter's loop stops at 0.      *)
ReaddirSetRange(t) ==
    /\ alive /\ pc[t] = "ls_call"
    /\ LET l0 == [loc[t] EXCEPT !.n = 0, !.cb = ReaddirCbStatus(loc[t].cst, loc[t].dirname)]
           first == SetRange(MetaKey(l0.current))
       IN  IF first = {} THEN Goto(t, [l0 EXCEPT !.cst = "DONE"], "ls_close")
                         ELSE ReaddirVisit(t, l0, TheKey(first))
    /\ UNCHANGED <<ns, alive, opsLeft, quiet, stable>>

(* c_getf_next of toku_bstore_meta_scan; DB_NOTFOUND ends the scan with 0. *)
ReaddirNext(t) ==
    /\ alive /\ pc[t] = "ls_next"
    /\ LET nxt == CursorNext(loc[t].key)
       IN  IF nxt = {} THEN ReaddirFinish(t, loc[t])
                       ELSE ReaddirVisit(t, loc[t], TheKey(nxt))
    /\ UNCHANGED <<ns, alive, opsLeft, quiet, stable>>

(* toku_fs_closedir frees the cursor.                                      *)
ListClose(t) ==
    /\ alive /\ pc[t] = "ls_close"
    /\ Done(t)
    /\ UNCHANGED <<ns, alive, opsLeft, quiet, stable>>

(***************************************************************************)
(* toku_fs_rename: meta_get of the old path, file_exists and toku_fs_unlink *)
(* of the new one, then toku_bstore_rename_prefix.  Its data-database pass *)
(* finds no blocks here; its metadata passes are rename_prefix's loop: a   *)
(* set_range to each pass's probe, then rename_cursor_current_prefix and   *)
(* c_getf_next while rename_prefix_cb says the key is under the old name.  *)
(***************************************************************************)
RenameGet(t, pr) ==
    /\ Begin(t)
    /\ IF pr[1] \in DOMAIN ns
       THEN /\ Goto(t, [NoLoc EXCEPT !.op = "rename", !.path = pr[1], !.new = pr[2],
                        !.sub = {<<q, ns[q]>> : q \in {r \in DOMAIN ns : InTree(r, pr[1])}}],
                    "rn_exists")
            /\ quiet' = [quiet EXCEPT ![t] = TRUE]
       ELSE Done(t) /\ UNCHANGED quiet
    /\ UNCHANGED <<ns, alive, stable>>

(* file_exists(newpath): a meta_get.                                       *)
RenameExists(t) ==
    /\ alive /\ pc[t] = "rn_exists"
    /\ Goto(t, loc[t], IF loc[t].new \in DOMAIN ns THEN "rn_unlink_get" ELSE "rn_setrange")
    /\ UNCHANGED <<ns, alive, opsLeft, quiet, stable>>

(* toku_fs_unlink(newpath): ENOENT fails rename's assert(ret == 0).        *)
RenameUnlinkGet(t) ==
    /\ alive /\ pc[t] = "rn_unlink_get"
    /\ AssertHolds(loc[t].new \in DOMAIN ns,
                   IF loc[t].new \in DOMAIN ns
                   THEN Goto(t, [loc[t] EXCEPT !.val = ns[loc[t].new]], "rn_unlink_delete")
                   ELSE Goto(t, loc[t], "rn_setrange"))
    /\ UNCHANGED <<ns, opsLeft, quiet, stable>>

RenameUnlinkDelete(t) ==
    /\ alive /\ pc[t] = "rn_unlink_delete"
    /\ SetNS(t, Remove(loc[t].new))
    /\ Goto(t, loc[t], IF HasBlocks(loc[t].val) THEN "rn_unlink_trunc" ELSE "rn_setrange")
    /\ UNCHANGED <<alive, opsLeft>>

(* Variant: the first key of a pass is renamed without the check callback.*)
RenameSetRangeNoCheck(t) ==
    /\ alive /\ pc[t] = "rn_setrange"
    /\ LET first == SetRange(RenameProbe(loc[t].path, loc[t].pass, FALSE))
       IN  IF first # {} THEN Goto(t, [loc[t] EXCEPT !.key = TheKey(first)], "rn_current")
                         ELSE Done(t)
    /\ UNCHANGED <<ns, alive, opsLeft, quiet, stable>>

(* The set_range of pass i; a first key the check callback does not want  *)
(* sets done and the rename returns 0.                                     *)
RenameSetRange(t) ==
    /\ alive /\ pc[t] = "rn_setrange"
    /\ LET first == SetRange(RenameProbe(loc[t].path, loc[t].pass, FALSE))
       IN  IF first # {} /\ ShouldRename(TheKey(first), loc[t].path)
           THEN Goto(t, [loc[t] EXCEPT !.key = TheKey(first)], "rn_current")
           ELSE Done(t)
    /\ UNCHANGED <<ns, alive, opsLeft, quiet, stable>>

(* rename_cursor_current_prefix: c_getf_current copies the pair (a pair    *)
(* deleted under the cursor fails assert(ret == 0); without asserts the    *)
(* uninitialised key is used, taken here as the process ending too); then  *)
(* the delete is the stub "ret = ENOSYS; assert(ret == 0)".                *)
RenameCurrent(t) ==
    /\ alive /\ pc[t] = "rn_current"
    /\ IF loc[t].key \in Keys
       THEN AssertHolds(FALSE, Goto(t, [loc[t] EXCEPT !.val = ns[KeyName(loc[t].key)]], "rn_put"))
       ELSE alive' = FALSE /\ UNCHANGED <<pc, loc>>
    /\ UNCHANGED <<ns, opsLeft, quiet, stable>>

(* db->put of the new key (new prefix, rest of the old key) with the value.*)
RenamePut(t) ==
    /\ alive /\ pc[t] = "rn_put"
    /\ SetNS(t, (KeyName(RenamedKey(loc[t].key, loc[t].path, loc[t].new)) :> loc[t].val) @@ ns)
    /\ Goto(t, loc[t], "rn_next")
    /\ UNCHANGED <<alive, opsLeft>>

(* Variant: the for loop of rename_prefix without i++.                    *)
NextPassNoInc(i) == i

(* The next pass of rename_prefix probes one "/" 0x1 pair deeper.          *)
NextPass(i) == i + 1

(* c_getf_next with the check callback: go on while it says rename, else  *)
(* start the next pass.                                                    *)
RenameNext(t) ==
    /\ alive /\ pc[t] = "rn_next"
    /\ LET nxt == CursorNext(loc[t].key)
       IN  IF nxt # {} /\ ShouldRename(TheKey(nxt), loc[t].path)
           THEN Goto(t, [loc[t] EXCEPT !.key = TheKey(nxt)], "rn_current")
           ELSE Goto(t, [loc[t] EXCEPT !.pass = NextPass(@)], "rn_setrange")
    /\ UNCHANGED <<ns, alive, opsLeft, quiet, stable>>

(* The next mount after an abort: the engine keeps every committed call.   *)
Restart ==
    /\ ~alive
    /\ alive' = TRUE
    /\ pc' = [t \in Threads |-> "idle"]
    /\ loc' = [t \in Threads |-> NoLoc]
    /\ UNCHANGED <<ns, opsLeft, quiet, stable>>

(* Every operation has returned and no more start.                         *)
Terminating ==
    /\ alive /\ opsLeft = 0 /\ \A t \in Threads : pc[t] = "idle"
    /\ UNCHANGED vars

(* The calls a thread starts, and the steps of a call in progress.         *)
Start(t) ==
    \/ \E p \in MkdirPaths : Mkdir(t, p)
    \/ \E p \in CreatePaths : Create(t, p)
    \/ \E p \in UnlinkPaths : UnlinkGet(t, p)
    \/ \E p \in RmdirPaths : RmdirGet(t, p)
    \/ \E d \in ListDirs : ListOpen(t, d)
    \/ \E pr \in RenamePairs : RenameGet(t, pr)
    \/ \E p \in SymlinkPaths : SymlinkGet(t, p)
    \/ \E p \in AttrPaths : \/ \E type \in ChmodTypes : Chmod(t, p, type)
                          \/ Chown(t, p) \/ Utime(t, p)

Continue(t) ==
    \/ UnlinkDelete(t) \/ UnlinkTruncate(t) \/ RmdirScan(t) \/ RmdirDelete(t)
    \/ ListStat(t) \/ ReaddirSetRange(t) \/ ReaddirNext(t) \/ ListClose(t)
    \/ RenameExists(t) \/ RenameUnlinkGet(t) \/ RenameUnlinkDelete(t)
    \/ RenameSetRange(t) \/ RenameCurrent(t) \/ RenamePut(t) \/ RenameNext(t)
    \/ SymlinkMeta(t)

Next == (\E t \in Threads : Start(t) \/ Continue(t)) \/ Restart \/ Terminating

(* A call in progress is not starved: each thread blocks only in engine    *)
(* calls, which return.                                                    *)
Spec == Init /\ [][Next]_vars /\ \A t \in Threads : WF_vars(Continue(t))

-----------------------------------------------------------------------------
ListPcs == {"ls_stat", "ls_call", "ls_next", "ls_close"}
RenamePcs == {"rn_exists", "rn_unlink_get", "rn_unlink_delete", "rn_unlink_trunc",
              "rn_setrange", "rn_current", "rn_put", "rn_next"}
Listed(t) == {loc[t].got[i] : i \in DOMAIN loc[t].got}
RenameReturns(t) == alive /\ pc[t] = "rn_setrange" /\ pc'[t] = "idle" /\ alive'

TypeOK ==
    /\ DOMAIN ns \subseteq Universe /\ \A p \in DOMAIN ns : ns[p] \in {DIR, FILE, LINK, NOTYPE}
    /\ pc \in [Threads -> {"idle", "un_delete", "un_trunc", "rm_scan", "rm_delete", "sl_meta"}
                          \cup ListPcs \cup RenamePcs]
    /\ \A t \in Threads : loc[t].cst \in {"FIRST", "READING", "DONE"}
                       /\ loc[t].cb \in {"READING", "SKIP_FIRST", "MORE", "DONE"}
                       /\ loc[t].n \in 0..Batch
    /\ alive \in BOOLEAN /\ opsLeft \in 0..MaxOps
    /\ quiet \in [Threads -> BOOLEAN]

(* The namespace stays a tree: every entry other than the root lies in a  *)
(* present directory.  rmdir deletes a directory only after                *)
(* directory_is_empty found no child, and rename(old, new) may replace new *)
(* only when POSIX lets it (a directory target must be empty, else        *)
(* ENOTEMPTY); the kernel leaves that emptiness check to the file system.  *)
NamespaceIsTree ==
    \A p \in DOMAIN ns \ {ROOT} :
        ParentPath(p) \in DOMAIN ns /\ ns[ParentPath(p)] = DIR

(* The FUSE readdir loop never gives the filler a name twice, whatever     *)
(* other threads create or delete between its toku_fs_readdir calls: the   *)
(* skip of the first key when a READING cursor resumes at its last name.   *)
ReaddirNoDuplicates ==
    \A t \in Threads : \A i, j \in DOMAIN loc[t].got :
        i < j => loc[t].got[i] # loc[t].got[j]

(* Every name readdir_scan_cb copies out is, when the cursor reads it, a   *)
(* present direct child of the directory: is_directly_under_dir and the    *)
(* level order of keycmp keep grandchildren and siblings out.              *)
ReaddirOnlyChildren ==
    [][\A t \in Threads :
         loc'[t].op = "list" /\ Len(loc'[t].got) > Len(loc[t].got) =>
            LET p == loc'[t].got[Len(loc'[t].got)]
            IN  p \in DOMAIN ns /\ p # ROOT /\ ParentPath(p) = loc[t].path]_vars

(* A listing that no other thread disturbs returns exactly the children of *)
(* the directory, however small Batch is: the MORE/READING hand-off of     *)
(* toku_fs_readdir resumes where the previous call stopped.                *)
ReaddirCompleteWhenQuiet ==
    \A t \in Threads : pc[t] = "ls_close" /\ quiet[t] =>
        Listed(t) = ChildrenOf(loc[t].path, DOMAIN ns)

(* Every child present from opendir to the end of the listing is returned, *)
(* whatever else other threads change (POSIX readdir's promise for entries *)
(* neither added nor removed).                                             *)
ReaddirListsStableChildren ==
    \A t \in Threads : pc[t] = "ls_close" => stable[t] \subseteq Listed(t)

(* Every listing the adapter starts ends (or the process aborts): each     *)
(* toku_fs_readdir call moves the cursor past the names it returned.       *)
ListingTerminates ==
    \A t \in Threads : pc[t] \in ListPcs ~> (pc[t] = "idle" \/ ~alive)

(* Every rename the kernel lets through returns (or the process aborts):  *)
(* each pass of rename_prefix probes one level deeper under the old name,  *)
(* so the first pass that finds nothing to rename comes.                   *)
RenameTerminates ==
    \A t \in Threads : pc[t] \in RenamePcs ~> (pc[t] = "idle" \/ ~alive)

(* When a rename no other thread disturbs returns, every entry of the old  *)
(* subtree is present under the new name with its type: the passes of     *)
(* rename_prefix reach every level of the subtree.                         *)
RenameCopiesSubtree ==
    [][\A t \in Threads : RenameReturns(t) /\ quiet[t] =>
         \A e \in loc[t].sub : LET q == Moved(e[1], loc[t].path, loc[t].new)
                               IN  q \in DOMAIN ns' /\ ns'[q] = e[2]]_vars

=============================================================================
