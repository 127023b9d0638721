------------------------------ MODULE KeyPaths ------------------------------
(***************************************************************************)
(* A bounded namespace for checking the key order: seven paths as byte     *)
(* sequences, with the reference relations (subtree, parent, child) the    *)
(* block store's prefix tests are compared with.                          *)
(***************************************************************************)
EXTENDS KeyOrder

Dot == 46
A == 97
B == 98
C == 99

(* Reference: p lies strictly below q.                                    *)
InSubtreeStrict(p, q) ==
    p # q /\ (q = <<SLASH>> \/
              (Len(p) > Len(q) + 1 /\ SubSeq(p, 1, Len(q) + 1) = q \o <<SLASH>>))
InSubtree(p, q) == p = q \/ InSubtreeStrict(p, q)

(* "/", "/a", "/a.", "/a/b", "/a/b.", "/a/c", "/a/b/c", "/b": directories, *)
(* siblings that share their name up to a byte below '/' at two depths,   *)
(* children and a grandchild.                                              *)
Root   == <<SLASH>>
PA     == <<SLASH, A>>
PADot  == <<SLASH, A, Dot>>
PAB    == <<SLASH, A, SLASH, B>>
PABDot == <<SLASH, A, SLASH, B, Dot>>
PAC    == <<SLASH, A, SLASH, C>>
PABC   == <<SLASH, A, SLASH, B, SLASH, C>>
PB     == <<SLASH, B>>
Paths  == {Root, PA, PADot, PAB, PABDot, PAC, PABC, PB}
Dirs   == {Root, PA, PAB}
Blocks == {0, 1, 255, 256}

(* The parent directory of a path other than the root.                    *)
Parent(p) == CHOOSE q \in Paths : InSubtreeStrict(p, q) /\
                 StrCount(p, SLASH) = StrCount(q, SLASH) + (IF q = Root THEN 0 ELSE 1)

(* Reference: p is a direct child of directory d.                          *)
ChildOf(p, d) == p \in Paths \ {Root} /\ Parent(p) = d

=============================================================================
