---------------------------- MODULE MCRenamePass ----------------------------
(***************************************************************************)
(* Checks the pass structure of rename_prefix (bstore.c) over every tree   *)
(* of a bounded namespace: the keys each pass reaches by set_range from   *)
(* its probe and c_getf_next while the check callback agrees, against the *)
(* entry and its subtree.  The engine contents are the keys of the tree as *)
(* they are before the rename starts; what the rename's own puts add is    *)
(* the subject of the rename action of the file system model.             *)
(***************************************************************************)
EXTENDS KeyPaths

(* The trees a namespace can hold: the root and the parent of every path.  *)
Trees == {T \in SUBSET Paths : Root \in T /\ \A p \in T \ {Root} : Parent(p) \in T}

(* Files hold data, directories (paths with a child) do not.               *)
Leaves(T) == {p \in T \ {Root} : \A c \in T : c # p => ~InSubtree(c, p)}
MetaKeys(T) == {MetaKey(p) : p \in T}
DataKeys(T) == {DataKey(p, b) : p \in Leaves(T), b \in {0, 256}}

(* present: the paths that exist; old: the path being renamed.            *)
VARIABLES present, old
rpvars == <<present, old>>

RPInit == present \in Trees /\ old \in present \ {Root}

(* Any tree of the namespace, and any entry of it other than the root, can *)
(* be where a rename starts.                                               *)
RPNext == \E T \in Trees : \E q \in T \ {Root} : present' = T /\ old' = q

RPSpec == RPInit /\ [][RPNext]_rpvars

(***************************************************************************)
(* The single data pass of rename_prefix renames every data block of the   *)
(* entry and of its subtree.                                               *)
(***************************************************************************)
DataRenameCoversSubtree ==
    RenamePass(DataKeys(present), old, 0, TRUE)
        = {k \in DataKeys(present) : \E p \in present, b \in {0, 256} :
                                        InSubtree(p, old) /\ k = DataKey(p, b)}

=============================================================================
