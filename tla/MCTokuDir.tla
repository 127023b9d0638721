----------------------------- MODULE MCTokuDir -----------------------------
(***************************************************************************)
(* TokuDir for TLC over the paths of KeyPaths.  A mount starts from any    *)
(* namespace the library's own calls could have built: the root, and any  *)
(* of /a, /a/b, /a/c (directories /a, /a/b hold the others), /a., /b.      *)
(***************************************************************************)
EXTENDS TokuDir

Dot == 46
A == 97
B == 98
C == 99
PA   == <<SLASH, A>>
PADot == <<SLASH, A, Dot>>
PAB  == <<SLASH, A, SLASH, B>>
PAC  == <<SLASH, A, SLASH, C>>
PABC == <<SLASH, A, SLASH, B, SLASH, C>>
PB   == <<SLASH, B>>

(* /a with two files; /a with a subdirectory, its sibling /a. and a file  *)
(* /b; an empty directory /b.                                              *)
MCInitNS ==
    { (ROOT :> DIR) @@ (PA :> DIR) @@ (PAB :> FILE) @@ (PAC :> FILE),
      (ROOT :> DIR) @@ (PA :> DIR) @@ (PAB :> DIR) @@ (PABC :> FILE) @@ (PAC :> FILE)
                    @@ (PADot :> FILE) @@ (PB :> FILE),
      (ROOT :> DIR) @@ (PB :> DIR) }

MCUnlinkPaths == {PAB, PAC, PB}
MCCreatePaths == {PAB}
MCMkdirPaths  == {PB}
MCRmdirPaths  == {PA, PB}
MCListDirs    == {ROOT, PA, PB}
MCSymlinkPaths == {PB}
MCAttrPaths   == {PAB}
(* A mode passed without file type bits, as a library caller may do.      *)
MCChmodTypes  == {NOTYPE}
(* The kernel passes rename only a target outside the source's subtree.   *)
MCRenamePairs == {<<PA, PB>>, <<PADot, PB>>}

(* rename(/a, /b) onto the non-empty directory /b: the kernel checks only  *)
(* that both are directories and passes the call on.                       *)
PBC  == <<SLASH, B, SLASH, C>>
MCRenameOverNS == { (ROOT :> DIR) @@ (PA :> DIR) @@ (PB :> DIR) @@ (PBC :> FILE) }
MCRenameOverPairs == {<<PA, PB>>}

=============================================================================
