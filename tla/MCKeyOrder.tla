----------------------------- MODULE MCKeyOrder -----------------------------
(***************************************************************************)
(* Checks the key encoding and keycmp over a bounded key universe.  The    *)
(* state is two key descriptors x and y; Pick replaces one of them, so     *)
(* the reachable states are all pairs of keys and every invariant below    *)
(* is checked for each pair.                                               *)
(***************************************************************************)
EXTENDS KeyPaths

Descs ==
    [db : {"meta"}, name : Paths, blk : {0}] \cup
    [db : {"data"}, name : Paths \ {Root}, blk : Blocks]

Enc(d) == IF d.db = "data" THEN DataKey(d.name, d.blk) ELSE MetaKey(d.name)

VARIABLES x, y
vars == <<x, y>>

Init == x \in Descs /\ y \in Descs

Pick ==
    \E d \in Descs :
        \/ x' = d /\ UNCHANGED y
        \/ y' = d /\ UNCHANGED x

Spec == Init /\ [][Pick]_vars


(***************************************************************************)
(* The blocks of one file are ordered by block number: the big-endian      *)
(* encoding of generate_data_key_dbt under keycmp's unsigned memcmp.       *)
(* pread's scan and bstore truncate walk blocks in this order.             *)
(***************************************************************************)
DataBlocksInBlockOrder ==
    (x.db = "data" /\ y.db = "data" /\ x.name = y.name) =>
        (KeyLess(Enc(x), Enc(y)) <=> x.blk < y.blk)

(***************************************************************************)
(* The data keys of one name form one run: a key of another name lies     *)
(* before all of them or after all of them.  toku_bstore_scan and          *)
(* toku_bstore_truncate stop at the first key of another name, so a key    *)
(* inside the run would end a read or a truncate early.                    *)
(***************************************************************************)
DataKeysOfNameContiguous ==
    (x.db = "data" /\ y.db = "data" /\ x.name # y.name) =>
        \/ \A b \in Blocks : KeyLess(Enc(y), DataKey(x.name, b))
        \/ \A b \in Blocks : KeyLess(DataKey(x.name, b), Enc(y))

(***************************************************************************)
(* keys_share_name_prefix, the test block_scan_cb and truncate_cursor_cb   *)
(* use to tell the blocks of their file from the next key, holds exactly   *)
(* for two data keys of the same name.                                     *)
(***************************************************************************)
SharePrefixIsSameName ==
    (x.db = "data" /\ y.db = "data") =>
        (KeysShareNamePrefix(Enc(x), Enc(y)) <=> x.name = y.name)

(***************************************************************************)
(* Level order keeps a directory listing in one run: every metadata key    *)
(* from readdir's start key WithSlash(d) up to a child of d is itself a    *)
(* child of d, or d itself when d is the root (which readdir skips once).  *)
(* readdir and directory_is_empty stop at the first key that is not        *)
(* directly under d, so a key of another directory inside the run would    *)
(* cut the listing short.                                                  *)
(***************************************************************************)
ReaddirRunIsContiguous ==
    \A d \in Dirs :
        (x.db = "meta" /\ y.db = "meta" /\ ChildOf(x.name, d) /\
         KeyCmp(MetaKey(WithSlash(d)), Enc(y)) <= 0 /\ KeyCmp(Enc(y), Enc(x)) <= 0)
            => (ChildOf(y.name, d) \/ (d = Root /\ y.name = Root))

(***************************************************************************)
(* is_directly_under_dir with readdir's slashed directory name agrees      *)
(* with the direct-child relation, for every key other than d itself.      *)
(***************************************************************************)
DirectlyUnderIsChild ==
    \A d \in Dirs :
        x.db = "meta" /\ x.name # d =>
            (IsDirectlyUnderDir(Enc(x), WithSlash(d)) <=> ChildOf(x.name, d))

(***************************************************************************)
(* rename_prefix_cb selects exactly the entry being renamed and its        *)
(* subtree, in both databases, and never a sibling such as "/a." of "/a".  *)
(***************************************************************************)
RenameCheckSelectsSubtree ==
    \A q \in Paths \ {Root} : ShouldRename(Enc(x), q) <=> InSubtree(x.name, q)

(***************************************************************************)
(* get_data_key_block_num recovers the block number generate_data_key_dbt *)
(* put in the key: bstore truncate and scan rely on it.                    *)
(***************************************************************************)
DataKeyBlockNumRoundTrip ==
    x.db = "data" => GetDataKeyBlockNum(Enc(x)) = x.blk

=============================================================================
