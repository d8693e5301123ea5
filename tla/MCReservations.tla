--------------------------- MODULE MCReservations ---------------------------
(* Small instances of Reservations for TLC. *)
EXTENDS Reservations, TLC

CONSTANTS
    a1, a2,  \* two names of one local session
    b,       \* another local session
    r,       \* an agent on another machine
    f, g,    \* two files
    glob     \* a pattern over both

\* The first name of a session stands for it.
CanonOf == [n \in Local |-> IF n = a2 THEN a1 ELSE n]

CoversOf == [k \in Pattern |-> IF k = glob THEN Path ELSE {k}]

NoLineage == {}
=============================================================================
