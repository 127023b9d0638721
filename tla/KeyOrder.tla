------------------------------ MODULE KeyOrder ------------------------------
(***************************************************************************)
(* Key encoding and key ordering of the TokuFS block store.                *)
(*                                                                         *)
(* Keys are byte sequences.  A path is the sequence of its byte codes      *)
(* without the C terminator.  Data keys are the path, the 8-byte           *)
(* big-endian block number and a magic byte; metadata keys are the path   *)
(* and a NUL.  The engine orders both databases with keycmp: memcmp for    *)
(* data keys, slash count then memcmp for metadata keys.                   *)
(*                                                                         *)
(* The C string helpers are modelled with their C semantics: strlen stops  *)
(* at the first NUL, strncmp compares at most strlen(prefix) bytes.        *)
(***************************************************************************)
EXTENDS Naturals, Integers, Sequences, FiniteSets

NUL == 0
SLASH == 47                 \* '/'
LOW_SENTINEL == 1           \* the 0x1 byte rename_prefix puts after a slash
DATA_DB_KEY_MAGIC == 115    \* bstore.h: the magic last byte of data keys
BLOCK_NUM_BYTES == 8        \* sizeof(uint64_t)

(* strlen: the number of bytes before the first NUL.                       *)
StrLen(s) ==
    IF \E i \in DOMAIN s : s[i] = NUL
    THEN (CHOOSE i \in DOMAIN s : s[i] = NUL /\ \A j \in 1..(i-1) : s[j] # NUL) - 1
    ELSE Len(s)

(* toku_strcount: occurrences of byte c before the terminator.             *)
StrCount(s, c) == Cardinality({i \in 1..StrLen(s) : s[i] = c})

(* toku_strprefix: strncmp(str, prefix, strlen(prefix)) == 0.              *)
StrPrefix(str, prefix) ==
    LET n == StrLen(prefix)
    IN  n <= Len(str) /\ SubSeq(str, 1, n) = SubSeq(prefix, 1, n)

(* Variant: the block number written least significant byte first, as a   *)
(* missing htonl64 on a little-endian host would leave it.                 *)
HtonlLE(n) ==
    [i \in 1..BLOCK_NUM_BYTES |->
        LET k == i - 1
        IN  IF k >= 4 THEN 0 ELSE (n \div (256 ^ k)) % 256]

(* htonl64 as the bytes it leaves in memory: most significant first.       *)
(* The model's block numbers are below 2^31, so the four high bytes are 0. *)
Htonl64(n) ==
    [i \in 1..BLOCK_NUM_BYTES |->
        LET k == BLOCK_NUM_BYTES - i
        IN  IF k >= 4 THEN 0 ELSE (n \div (256 ^ k)) % 256]

(* Variant: a data key with the block number ahead of the name.           *)
DataKeyBlockFirst(name, n) == Htonl64(n) \o name \o <<DATA_DB_KEY_MAGIC>>

(* generate_data_key_dbt: name bytes, block number, magic byte.            *)
DataKey(name, n) == name \o Htonl64(n) \o <<DATA_DB_KEY_MAGIC>>

(* generate_meta_key_dbt: the NUL-terminated name.                         *)
MetaKey(name) == name \o <<NUL>>

(* get_data_key_block_num: ntohl64 of the 8 bytes before the magic byte.   *)
GetDataKeyBlockNum(key) ==
    LET b(k) == key[Len(key) - 1 - k]
    IN  b(0) + 256 * b(1) + 65536 * b(2) + 16777216 * b(3)

(* The byte loop of keycmp: first differing byte, then shorter-is-less.    *)
RECURSIVE MemCmp(_, _)
MemCmp(a, b) ==
    CASE a = <<>> /\ b = <<>> -> 0
      [] a = <<>>             -> -1
      [] b = <<>>             -> 1
      [] Head(a) # Head(b)    -> Head(a) - Head(b)
      [] OTHER                -> MemCmp(Tail(a), Tail(b))

(* Variant: keycmp without the slash-count level, plain memcmp.           *)
KeyCmpNoLevel(a, b) == MemCmp(a, b)

(* keycmp: a data key (magic last byte) compares by memcmp; any other key  *)
(* by its slash count first and memcmp on a tie.                           *)
KeyCmp(a, b) ==
    IF a[Len(a)] = DATA_DB_KEY_MAGIC
    THEN MemCmp(a, b)
    ELSE LET ca == StrCount(a, SLASH)
             cb == StrCount(b, SLASH)
         IN  IF ca > cb THEN 1
             ELSE IF ca < cb THEN -1
             ELSE MemCmp(a, b)

KeyLess(a, b) == KeyCmp(a, b) < 0

(* The engine's c_getf_set_range: the least key >= probe, if any.          *)
FirstKeyGE(keys, probe) ==
    {k \in keys : KeyCmp(k, probe) >= 0 /\
                  \A j \in keys : KeyCmp(j, probe) >= 0 => KeyCmp(k, j) <= 0}

(* The engine's c_getf_next: the least key greater than cur, if any.       *)
NextKeyAfter(keys, cur) ==
    {k \in keys : KeyCmp(k, cur) > 0 /\
                  \A j \in keys : KeyCmp(j, cur) > 0 => KeyCmp(k, j) <= 0}

(* Variant: keys_share_name_prefix without the size test.                 *)
KeysShareNamePrefixNoSize(a, b) == StrPrefix(a, b)

(* keys_share_name_prefix: same size and strprefix(a, b).                  *)
KeysShareNamePrefix(a, b) == Len(a) = Len(b) /\ StrPrefix(a, b)

(* Variant: is_directly_under_dir without the slash-count test.           *)
IsDirectlyUnderDirNoLevel(filename, dirname) == StrPrefix(filename, dirname)

(* is_directly_under_dir(filename, dirname), dirname ending in a slash.    *)
IsDirectlyUnderDir(filename, dirname) ==
    /\ StrPrefix(filename, dirname)
    /\ StrCount(filename, SLASH) = StrCount(dirname, SLASH)

(* path_with_slash of opendir and directory_is_empty.                      *)
WithSlash(path) == IF path = <<SLASH>> THEN path ELSE path \o <<SLASH>>

(* Variant: rename_prefix_cb without the test of the byte after the prefix.*)
ShouldRenameNoSep(key, oldprefix) == StrPrefix(key, oldprefix)

(* Variant: rename_prefix_cb without the test for the terminator, so only *)
(* the subtree and not the entry itself is renamed.                        *)
ShouldRenameSlashOnly(key, oldprefix) ==
    /\ StrPrefix(key, oldprefix)
    /\ Len(key) > Len(oldprefix)
    /\ key[Len(oldprefix) + 1] = SLASH

(* rename_prefix_cb, check mode: the key has the old prefix followed by    *)
(* the terminator (the entry itself) or by a slash (its subtree).          *)
ShouldRename(key, oldprefix) ==
    /\ StrPrefix(key, oldprefix)
    /\ Len(key) > Len(oldprefix)
    /\ key[Len(oldprefix) + 1] \in {NUL, SLASH}

(* rename_prefix's probe key for pass i: i pairs "/" 0x1 after the old     *)
(* prefix, then the terminator; the data probe (built only for pass 0,     *)
(* since the data pass runs once) is the prefix, nine zero bytes and the   *)
(* magic byte.                                                             *)
RenameProbe(oldprefix, i, isData) ==
    IF isData
    THEN oldprefix \o [k \in 1..(BLOCK_NUM_BYTES + 1) |-> NUL]
                   \o <<DATA_DB_KEY_MAGIC>>
    ELSE oldprefix \o [k \in 1..(2 * i) |-> IF k % 2 = 1 THEN SLASH ELSE LOW_SENTINEL]
                   \o <<NUL>>

(* The do/while loop of rename_prefix from the key the cursor is on (cur,  *)
(* empty once c_getf_* returned DB_NOTFOUND): the keys it renames before   *)
(* the check callback says no.                                             *)
RECURSIVE RenameRun(_, _, _)
RenameRun(keys, cur, oldprefix) ==
    IF \E k \in cur : ShouldRename(k, oldprefix)
    THEN cur \cup RenameRun(keys, UNION {NextKeyAfter(keys, k) : k \in cur}, oldprefix)
    ELSE {}

(* Pass i of rename_prefix: set_range to the pass's probe, then the run.   *)
(* An empty result is the pass that sets done.                             *)
RenamePass(keys, oldprefix, i, isData) ==
    RenameRun(keys, FirstKeyGE(keys, RenameProbe(oldprefix, i, isData)), oldprefix)

(* rename_cursor_current_prefix: new prefix, then the old key without the  *)
(* old prefix.                                                             *)
RenamedKey(key, oldprefix, newprefix) ==
    newprefix \o SubSeq(key, Len(oldprefix) + 1, Len(key))

=============================================================================
