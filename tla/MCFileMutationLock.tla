------------------------- MODULE MCFileMutationLock -------------------------
(* Small instances of FileMutationLock for TLC. *)
EXTENDS FileMutationLock, TLC

\* The calls are interchangeable.
Symmetry == Permutations(Proc)
=============================================================================
