------------------------------ MODULE MCTokuFS ------------------------------
(***************************************************************************)
(* TokuFS for TLC: threads and file names are model values, and both are   *)
(* interchangeable, so runs without liveness use symmetry over them.       *)
(***************************************************************************)
EXTENDS TokuFS, TLC

Symmetry == Permutations(Threads) \cup Permutations(Paths)

(* Descriptors a careless caller may pass with two slots: one below the    *)
(* table, the slots, and MAX_OPEN_FILES itself, which close lets through.  *)
BadFdArgs == {-1, 0, 1, 2}

=============================================================================
