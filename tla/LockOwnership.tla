--------------------------- MODULE LockOwnership ---------------------------
(***************************************************************************)
(* What the file-mutation lock promises its callers: ownership that is on  *)
(* disk passes from a call to nobody by the owner's own release, or by a   *)
(* revocation that only a dead owner can suffer, and from nobody to one    *)
(* live call.                                                              *)
(***************************************************************************)
CONSTANTS Proc, None

VARIABLES
    holder,  \* the call whose ownership is on disk, or None
    dead     \* the calls whose process was killed

vars == <<holder, dead>>

Init == holder = None /\ dead = {}

Take(p) ==
    /\ holder = None
    /\ p \notin dead
    /\ holder' = p
    /\ UNCHANGED dead

Release(p) ==
    /\ holder = p
    /\ p \notin dead
    /\ holder' = None
    /\ UNCHANGED dead

Revoke(p) ==
    /\ holder = p
    /\ p \in dead
    /\ holder' = None
    /\ UNCHANGED dead

Die(p) ==
    /\ p \notin dead
    /\ dead' = dead \cup {p}
    /\ UNCHANGED holder

Next == \E p \in Proc : Take(p) \/ Release(p) \/ Revoke(p) \/ Die(p)

Spec == Init /\ [][Next]_vars
=============================================================================
