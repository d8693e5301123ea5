------------------------- MODULE MCGatedTransaction -------------------------
(* Two commands over the same two files.  The first rewrites one and       *)
(* deletes the other; the second rewrites one and only compares the other, *)
(* unless somebody has changed it.                                         *)
EXTENDS GatedTransaction, TLC

Contents == {"old", "new", "newer", "missing"}

Targets == [t \in Txn |-> File]

Proposals ==
    "t1" :> ("a" :> "new" @@ "b" :> "missing")
      @@ "t2" :> ("a" :> "newer" @@ "b" :> "old")
=============================================================================
