--------------------------- MODULE MCActivityLog ---------------------------
(* Small instances of ActivityLog for TLC. *)
EXTENDS ActivityLog, TLC

CONSTANTS c1, c2, s1

\* Compact commands are interchangeable; used only where no liveness is checked.
Interchangeable == Permutations(Compactor)
=============================================================================
