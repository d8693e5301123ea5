-------------------------- MODULE MCTrajectoryLtl --------------------------
(* Rules over two predicates: every operator over literals, every operator *)
(* over some of those, and the shapes the shipped rules have.              *)
EXTENDS TrajectoryLtl

CONSTANTS x, y

MCAtom == {x, y}

Px == Literal(x, FALSE)
Py == Literal(y, FALSE)
Bounds == {Inf, 1, 2}

Unaries(F)   == {NextOf(f) : f \in F}
                  \cup {Within(k, f, n) : k \in {"always", "eventually"}, f \in F, n \in Bounds}
Binaries(F, G) == {Binary(k, f, g) : k \in {"and", "or", "implies", "until", "release"},
                                     f \in F, g \in G}

Simple  == {Px, Py, Const(TRUE), Const(FALSE)}
OneDeep == Unaries({Py}) \cup Binaries({Px}, {Py})
TwoDeep == Unaries(OneDeep) \cup Binaries(OneDeep, {Px}) \cup Binaries({Px}, OneDeep)
             \cup Binaries(OneDeep, OneDeep) \cup Binaries(Unaries({Px}), Unaries({Py}))

\* always(x => eventually(f) within n), as rules.ts ships it.
Shipped ==
    {Within("always", Binary("implies", Px, Within("eventually", f, n)), Inf) :
       f \in {Py, NextOf(Py), Within("always", Py, Inf)}, n \in {Inf, 1, 2, 3}}

\* Antecedents that stay open, over consequents that have failed by then.
Waiting ==
    {Within("always", Binary("implies", f, g), Inf) :
       f \in Unaries({Px}), g \in {Py} \cup Unaries({Py})}

\* Two unbounded answers owed to each call.
TwoAnswers ==
    {Within("always", Binary(k, Within(m, Px, Inf), Within(n, Py, Inf)), Inf) :
       k \in {"and", "or"}, m \in {"always", "eventually"}, n \in {"always", "eventually"}}

MCRules == Unaries(Simple) \cup Binaries(Simple, Simple) \cup TwoDeep \cup Shipped
             \cup Waiting \cup TwoAnswers
=============================================================================
