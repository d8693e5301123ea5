---------------------------- MODULE LtlSemantics ----------------------------
(***************************************************************************)
(* What a temporal rule means: linear temporal logic over infinite         *)
(* sequences of tool calls, as formula.ts documents each constructor, with *)
(* bounds that count events, the current one first.  An infinite sequence  *)
(* that is periodic is a record of the calls before the period and those   *)
(* of the period; a formula at any position of it is decided.              *)
(***************************************************************************)
EXTENDS Integers, Sequences

CONSTANT Inf  \* the bound of an unbounded operator

\* Positions count from 0.
Size(w)  == Len(w.stem) + Len(w.loop)
At(w, i) == IF i < Len(w.stem) THEN w.stem[i + 1] ELSE w.loop[i - Len(w.stem) + 1]
Fold(w, i) == IF i < Size(w) THEN i
              ELSE Len(w.stem) + ((i - Len(w.stem)) % Len(w.loop))

\* The positions that n events cover from i on; all the later ones, when unbounded.
Window(w, i, n) ==
    IF n = Inf
    THEN i..((IF i < Len(w.stem) THEN Len(w.stem) ELSE i) + Len(w.loop) - 1)
    ELSE i..(i + n - 1)

RECURSIVE Sat(_, _, _)
Sat(f, w, j) ==
    LET i == Fold(w, j)
        L(k) == Sat(f.left, w, k)
        R(k) == Sat(f.right, w, k)
    IN CASE f.kind = "const"   -> f.value
         [] f.kind = "atom"    -> (f.name \in At(w, i)) # f.negated
         [] f.kind = "next"    -> Sat(f.sub, w, i + 1)
         [] f.kind = "and"     -> L(i) /\ R(i)
         [] f.kind = "or"      -> L(i) \/ R(i)
         [] f.kind = "implies" -> L(i) => R(i)
         [] f.kind = "always"  -> \A k \in Window(w, i, f.bound) : Sat(f.sub, w, k)
         [] f.kind = "eventually" -> \E k \in Window(w, i, f.bound) : Sat(f.sub, w, k)
         [] f.kind = "until"   ->
              \E k \in Window(w, i, Inf) : R(k) /\ \A m \in i..(k - 1) : L(m)
         [] OTHER ->
              \A k \in Window(w, i, Inf) : R(k) \/ \E m \in i..(k - 1) : L(m)

-----------------------------------------------------------------------------
(* Classes of formulas.                                                    *)

Unary   == {"next", "always", "eventually"}
Leaves  == {"const", "atom"}
Larger(m, n) == IF m > n THEN m ELSE n

\* Every operator has a bound: so many events decide the formula.
RECURSIVE Bounded(_), Horizon(_)
Bounded(f) ==
    CASE f.kind \in Leaves -> TRUE
      [] f.kind = "next"   -> Bounded(f.sub)
      [] f.kind \in Unary  -> f.bound # Inf /\ Bounded(f.sub)
      [] OTHER -> f.kind \in {"and", "or", "implies"} /\ Bounded(f.left) /\ Bounded(f.right)
Horizon(f) ==
    CASE f.kind \in Leaves -> 1
      [] f.kind = "next"   -> Horizon(f.sub) + 1
      [] f.kind \in Unary  -> Horizon(f.sub) + f.bound - 1
      [] OTHER -> Larger(Horizon(f.left), Horizon(f.right))

\* No eventually, until or next.
RECURSIVE Safety(_)
Safety(f) ==
    CASE f.kind \in Leaves  -> TRUE
      [] f.kind = "always"  -> Safety(f.sub)
      [] f.kind \in {"and", "or", "implies", "release"} -> Safety(f.left) /\ Safety(f.right)
      [] OTHER -> FALSE

\* The operators that look ahead, and that none of them has a bound.
RECURSIVE Temporals(_), Unbounded(_)
Temporals(f) ==
    CASE f.kind \in Leaves -> 0
      [] f.kind \in Unary  -> 1 + Temporals(f.sub)
      [] OTHER -> Temporals(f.left) + Temporals(f.right)
                    + (IF f.kind \in {"until", "release"} THEN 1 ELSE 0)
Unbounded(f) ==
    CASE f.kind \in Leaves -> TRUE
      [] f.kind = "next"   -> FALSE
      [] f.kind \in Unary  -> f.bound = Inf /\ Unbounded(f.sub)
      [] OTHER -> Unbounded(f.left) /\ Unbounded(f.right)

\* No implication waits for its antecedent.
RECURSIVE PlainAntecedents(_)
PlainAntecedents(f) ==
    CASE f.kind \in Leaves -> TRUE
      [] f.kind \in Unary  -> PlainAntecedents(f.sub)
      [] OTHER -> /\ PlainAntecedents(f.left) /\ PlainAntecedents(f.right)
                  /\ f.kind = "implies" => Temporals(f.left) = 0
=============================================================================
