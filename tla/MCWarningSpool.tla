--------------------------- MODULE MCWarningSpool ---------------------------
(* Small instances of WarningSpool for TLC. *)
EXTENDS WarningSpool

CONSTANTS r1, r2, r3, d1, d2

\* Everything runs in one session, except r3.
Sessions == [x \in Req \cup Drain |-> IF x = r3 THEN "B" ELSE "A"]
=============================================================================
