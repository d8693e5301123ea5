--------------------------- MODULE TrajectoryLtl ---------------------------
(***************************************************************************)
(* The temporal rules of src/src/harness/trajectory/ltl: formula.ts (the   *)
(* algebra), residual.ts (what remains of a formula, and the fold at the   *)
(* end of a trace) and eval.ts (the monitor).  Each tool call is an event; *)
(* the monitor rewrites a rule into the residual it leaves for the rest of *)
(* the trace, and reports a violation when a residual becomes false.       *)
(*                                                                         *)
(* An event is the set of the atoms that hold at it.  A violation is the   *)
(* index at which the failing obligation began, its onset; the evidence it *)
(* carries is left out.  The monitor runs a rule and its negation side by  *)
(* side.                                                                   *)
(***************************************************************************)
EXTENDS Integers, Sequences, FiniteSets

CONSTANTS
    Atom,     \* names of predicates
    Rules,    \* the formulas a monitor may be given
    MaxEvents, \* the length of a trace
    MaxLoop   \* the period of the runs a verdict is compared with

Inf == -1  \* the bound of an unbounded always or eventually

-----------------------------------------------------------------------------
(* Formulas, in negation normal form.                                      *)

Const(b)        == [kind |-> "const", value |-> b]
Literal(a, neg) == [kind |-> "atom", name |-> a, negated |-> neg]
NextOf(f)       == [kind |-> "next", sub |-> f]
Binary(k, l, r) == [kind |-> k, left |-> l, right |-> r]
Within(k, f, n) == [kind |-> k, sub |-> f, bound |-> n]

DualOf ==
    [k \in {"and", "or", "until", "release", "always", "eventually"} |->
       CASE k = "and"   -> "or"      [] k = "or"      -> "and"
         [] k = "until" -> "release" [] k = "release" -> "until"
         [] k = "always" -> "eventually" [] OTHER -> "always"]

RECURSIVE Not(_)
Not(f) ==
    CASE f.kind = "const"   -> Const(~f.value)
      [] f.kind = "atom"    -> Literal(f.name, ~f.negated)
      [] f.kind = "next"    -> NextOf(Not(f.sub))
      [] f.kind = "implies" -> Binary("and", f.left, Not(f.right))
      [] f.kind \in {"always", "eventually"} -> Within(DualOf[f.kind], Not(f.sub), f.bound)
      [] OTHER -> Binary(DualOf[f.kind], Not(f.left), Not(f.right))

-----------------------------------------------------------------------------
(* Residuals.                                                              *)

AsFormula(f) == [kind |-> "formula", f |-> f]
Node(k, l, r) == [kind |-> k, left |-> l, right |-> r]
TrueResidual == [kind |-> "true"]
Violated(vs) == [kind |-> "violated", violations |-> vs]
NoResidual   == [kind |-> "none"]

\* residualKey: an always or eventually node forgets its onset and the order and
\* onsets of its obligations; a stored violation does not.
RECURSIVE KeyOf(_)
KeyOf(r) ==
    CASE r.kind \in {"always", "eventually"} ->
           <<r.kind, r.remaining, r.sub,
             {KeyOf(r.pending[i].residual) : i \in DOMAIN r.pending}>>
      [] r.kind \in {"and", "or", "implies"} -> <<r.kind, KeyOf(r.left), KeyOf(r.right)>>
      [] r.kind = "violated" -> <<r.kind, r.violations>>
      [] r.kind = "formula"  -> <<r.kind, r.f>>
      [] OTHER -> <<r.kind>>

-----------------------------------------------------------------------------
(* Outcomes of one event.                                                  *)

Ok            == [kind |-> "true"]
Pending(r)    == [kind |-> "pending", residual |-> r]
Failed(vs, c) == [kind |-> "false", violations |-> vs, continuation |-> c]

JoinContinuations(k, l, r) ==
    CASE l = NoResidual -> r
      [] r = NoResidual -> l
      [] OTHER -> Node(k, l, r)

\* The violation travels on; the pending side joins its continuation.
FalseBesidePending(f, p) ==
    Failed(f.violations, JoinContinuations("and", f.continuation, p.residual))

CombineAnd(l, r) ==
    CASE l.kind = "true" -> r
      [] r.kind = "true" -> l
      [] l.kind = "pending" /\ r.kind = "pending" -> Pending(Node("and", l.residual, r.residual))
      [] l.kind = "false" /\ r.kind = "pending" -> FalseBesidePending(l, r)
      [] l.kind = "pending" /\ r.kind = "false" -> FalseBesidePending(r, l)
      [] OTHER -> Failed(l.violations \o r.violations,
                         JoinContinuations("and", l.continuation, r.continuation))

\* A plausible slip: a disjunct that fails is reported at once.
CombineOrEager(l, r) ==
    CASE l.kind = "true" \/ r.kind = "true" -> Ok
      [] l.kind = "false" -> l
      [] r.kind = "false" -> r
      [] OTHER -> Pending(Node("or", l.residual, r.residual))

CombineOr(l, r) ==
    CASE l.kind = "true" \/ r.kind = "true" -> Ok
      [] l.kind = "false" /\ r.kind = "false" ->
           Failed(l.violations \o r.violations,
                  JoinContinuations("or", l.continuation, r.continuation))
      [] l.kind = "pending" /\ r.kind = "pending" -> Pending(Node("or", l.residual, r.residual))
      [] OTHER -> IF l.kind = "pending" THEN l ELSE r

ImpliesWithTrueAntecedent(r) ==
    CASE r.kind = "true"    -> Ok
      [] r.kind = "pending" -> Pending(Node("implies", TrueResidual, r.residual))
      [] OTHER -> Failed(r.violations,
                         IF r.continuation = NoResidual THEN NoResidual
                         ELSE Node("implies", TrueResidual, r.continuation))

\* A plausible slip: a consequent that has failed is dropped, and the antecedent
\* decides alone.
CombineImpliesForgetful(l, r) ==
    CASE l.kind = "false" \/ r.kind = "true" -> Ok
      [] l.kind = "true" -> ImpliesWithTrueAntecedent(r)
      [] OTHER -> Pending(IF r.kind = "false" THEN l.residual
                          ELSE Node("implies", l.residual, r.residual))

\* While the antecedent is pending, a consequent that has failed is stored.
CombineImplies(l, r) ==
    CASE l.kind = "false" \/ r.kind = "true" -> Ok
      [] l.kind = "true" -> ImpliesWithTrueAntecedent(r)
      [] OTHER -> Pending(Node("implies", l.residual,
                               IF r.kind = "false" THEN Violated(r.violations)
                               ELSE r.residual))

-----------------------------------------------------------------------------
(* always and eventually: a list of the obligations that are still open.   *)

\* A plausible slip: the latest of two equal obligations is kept.
KeepUniqueLatest(kept, ob) ==
    Append(SelectSeq(kept, LAMBDA o : KeyOf(o.residual) # KeyOf(ob.residual)), ob)

\* A plausible slip: equal obligations are not merged.
KeepAll(kept, ob) == Append(kept, ob)

\* Equal obligations have one future: the earliest stands for them.
KeepUnique(kept, ob) ==
    IF \E i \in DOMAIN kept : KeyOf(kept[i].residual) = KeyOf(ob.residual)
    THEN kept ELSE Append(kept, ob)

\* What the obligations of a node come to, in their order: those that stay open,
\* the violations, and whether one has become true.
RECURSIVE Stepped(_, _)
Stepped(kind, outcomes) ==
    IF outcomes = <<>> THEN [kept |-> <<>>, violations |-> <<>>, witness |-> FALSE]
    ELSE LET n    == Len(outcomes)
             acc  == Stepped(kind, SubSeq(outcomes, 1, n - 1))
             o    == outcomes[n].outcome
             Keep(r) == KeepUnique(acc.kept, [residual |-> r, onset |-> outcomes[n].onset])
         IN CASE o.kind = "true" -> [acc EXCEPT !.witness = TRUE]
              [] o.kind = "pending" -> [acc EXCEPT !.kept = Keep(o.residual)]
              [] OTHER ->
                   [acc EXCEPT
                      !.violations = @ \o o.violations,
                      !.kept = IF o.continuation # NoResidual /\ kind = "always"
                               THEN Keep(o.continuation) ELSE @]

\* A plausible slip: the last event of a window never closes it.
DecrementLate(n) == IF n <= 1 THEN n ELSE n - 1

Decrement(n) == IF n = Inf THEN Inf ELSE IF n = 0 THEN 0 ELSE n - 1

CloseAlways(node, s) ==
    LET left == Decrement(node.remaining)
        next == [node EXCEPT !.remaining = left, !.pending = s.kept]
        open == left # 0 \/ s.kept # <<>>
    IN CASE s.violations # <<>> -> Failed(s.violations, IF open THEN next ELSE NoResidual)
         [] open -> Pending(next)
         [] OTHER -> Ok

CloseEventually(node, s) ==
    LET left == Decrement(node.remaining)
    IN CASE s.witness -> Ok
         [] left = 0 /\ s.kept = <<>> -> Failed(<<node.onset>>, NoResidual)
         [] OTHER -> Pending([node EXCEPT !.remaining = left, !.pending = s.kept])

FreshTemporal(f, index) ==
    [kind |-> f.kind, sub |-> f.sub, remaining |-> f.bound, pending |-> <<>>, onset |-> index]

-----------------------------------------------------------------------------
(* One event.                                                              *)

EvalAtom(f, ctx) ==
    IF (f.name \in ctx.event) # f.negated THEN Ok ELSE Failed(<<ctx.index>>, NoResidual)

RECURSIVE EvalFormula(_, _), StepResidual(_, _)

\* stepObligations, and stepAlways or stepEventually.
StepTemporal(node, ctx) ==
    LET old   == [i \in DOMAIN node.pending |->
                    [outcome |-> StepResidual(node.pending[i].residual, ctx),
                     onset   |-> node.pending[i].onset]]
        fresh == IF node.remaining = 0 THEN <<>>
                 ELSE <<[outcome |-> EvalFormula(node.sub, ctx), onset |-> ctx.index]>>
        s     == Stepped(node.kind, old \o fresh)
    IN IF node.kind = "always" THEN CloseAlways(node, s) ELSE CloseEventually(node, s)

EvalFormula(f, ctx) ==
    LET L == EvalFormula(f.left, ctx)
        R == EvalFormula(f.right, ctx)
        Again == Pending(AsFormula(f))
    IN CASE f.kind = "const"   -> IF f.value THEN Ok ELSE Failed(<<ctx.index>>, NoResidual)
         [] f.kind = "atom"    -> EvalAtom(f, ctx)
         [] f.kind = "and"     -> CombineAnd(L, R)
         [] f.kind = "or"      -> CombineOr(L, R)
         [] f.kind = "implies" -> CombineImplies(L, R)
         [] f.kind = "next"    -> Pending(AsFormula(f.sub))
         [] f.kind = "until"   -> CombineOr(R, CombineAnd(L, Again))
         [] f.kind = "release" -> CombineAnd(R, CombineOr(L, Again))
         [] OTHER              -> StepTemporal(FreshTemporal(f, ctx.index), ctx)

StepResidual(r, ctx) ==
    LET L == StepResidual(r.left, ctx)
        R == StepResidual(r.right, ctx)
    IN CASE r.kind = "true"     -> Ok
         [] r.kind = "violated" -> Failed(r.violations, NoResidual)
         [] r.kind = "formula"  -> EvalFormula(r.f, ctx)
         [] r.kind = "and"      -> CombineAnd(L, R)
         [] r.kind = "or"       -> CombineOr(L, R)
         [] r.kind = "implies"  -> CombineImplies(L, R)
         [] OTHER               -> StepTemporal(r, ctx)

-----------------------------------------------------------------------------
(* The end of the trace: "strict" leaves open whatever an event could      *)
(* still decide, "weak" reads an open always or release as kept.           *)

KleeneAnd(V) ==
    IF "false" \in V THEN "false" ELSE IF "unknown" \in V THEN "unknown" ELSE "true"
KleeneOr(V) ==
    IF "true" \in V THEN "true" ELSE IF "unknown" \in V THEN "unknown" ELSE "false"
KleeneNot(v) ==
    CASE v = "true" -> "false" [] v = "false" -> "true" [] OTHER -> v

LeanWeak(v, mode) == IF mode = "weak" /\ v = "unknown" THEN "true" ELSE v

RECURSIVE EndOfFormula(_, _)
EndOfFormula(f, mode) ==
    LET L == EndOfFormula(f.left, mode)
        R == EndOfFormula(f.right, mode)
    IN CASE f.kind = "const"   -> IF f.value THEN "true" ELSE "false"
         [] f.kind = "atom"    -> "unknown"
         [] f.kind = "and"     -> KleeneAnd({L, R})
         [] f.kind = "or"      -> KleeneOr({L, R})
         [] f.kind = "implies" -> KleeneOr({KleeneNot(L), R})
         [] f.kind \in {"next", "eventually"} -> EndOfFormula(f.sub, mode)
         [] f.kind = "until"   -> R
         [] f.kind = "always"  -> LeanWeak(EndOfFormula(f.sub, mode), mode)
         [] OTHER              -> LeanWeak(R, mode)

\* A plausible slip: the open window of an always does not lean.
WindowFoldUnleaning(r, mode) ==
    IF r.remaining = 0 THEN {} ELSE {EndOfFormula(r.sub, mode)}

\* The part that the unseen rest of an open window adds.
WindowFold(r, mode) ==
    CASE r.remaining = 0    -> {}
      [] r.kind = "always"  -> {LeanWeak(EndOfFormula(r.sub, mode), mode)}
      [] OTHER              -> {EndOfFormula(r.sub, mode)}

RECURSIVE EndOfResidual(_, _)
EndOfResidual(r, mode) ==
    LET L == EndOfResidual(r.left, mode)
        R == EndOfResidual(r.right, mode)
        Parts == {EndOfResidual(r.pending[i].residual, mode) : i \in DOMAIN r.pending}
                   \cup WindowFold(r, mode)
    IN CASE r.kind = "true"     -> "true"
         [] r.kind = "violated" -> "false"
         [] r.kind = "formula"  -> EndOfFormula(r.f, mode)
         [] r.kind = "and"      -> KleeneAnd({L, R})
         [] r.kind = "or"       -> KleeneOr({L, R})
         [] r.kind = "implies"  -> KleeneOr({KleeneNot(L), R})
         [] r.kind = "always"   -> KleeneAnd(Parts)
         [] OTHER               -> KleeneOr(Parts)

-----------------------------------------------------------------------------
(* The monitor.                                                            *)

VARIABLES
    rule,  \* the formula that is watched
    trace, \* the events so far
    slot,  \* its residual, whether it is settled, the onsets it has reported
    dual   \* the same for its negation

vars == <<rule, trace, slot, dual>>

FreshSlot(f) ==
    [residual |-> AsFormula(f), settled |-> "open", reported |-> {}, available |-> TRUE]

Init ==
    /\ rule \in Rules
    /\ trace = <<>>
    /\ slot = FreshSlot(rule)
    /\ dual = FreshSlot(Not(rule))

\* stepSlot: a rule that has reported a violation stays false; its continuation is
\* stepped only for what else it has to report.
StepSlot(s, ctx) ==
    LET o == StepResidual(s.residual, ctx)
    IN CASE s.settled # "open" \/ ~s.available -> s
         [] o.kind = "true" ->
              [s EXCEPT !.settled = IF s.reported # {} THEN "false" ELSE "true"]
         [] o.kind = "pending" -> [s EXCEPT !.residual = o.residual]
         [] OTHER ->
              [s EXCEPT
                 !.residual = IF o.continuation = NoResidual THEN @ ELSE o.continuation,
                 !.settled  = IF o.continuation = NoResidual THEN "false" ELSE @,
                 !.reported = @ \cup {o.violations[i] : i \in DOMAIN o.violations}]

\* One tool call.
Step ==
    /\ Len(trace) < MaxEvents
    /\ \E event \in SUBSET Atom :
         LET ctx == [event |-> event, index |-> Len(trace)]
         IN /\ trace' = Append(trace, event)
            /\ slot' = StepSlot(slot, ctx)
            /\ dual' = StepSlot(dual, ctx)
    /\ UNCHANGED rule

\* A predicate throws: the rule is not evaluated any more.
Taint(s) == IF s.settled = "open" THEN [s EXCEPT !.available = FALSE] ELSE s

StepThrows ==
    /\ Len(trace) < MaxEvents
    /\ \E event \in SUBSET Atom : trace' = Append(trace, event)
    /\ slot' = Taint(slot)
    /\ dual' = Taint(dual)
    /\ UNCHANGED rule

Next == Step \/ StepThrows

Spec == Init /\ [][Next]_vars

\* endOfSlot
EndOfSlot(s, mode) ==
    CASE s.settled = "false" \/ s.reported # {} -> "false"
      [] ~s.available -> "unknown"
      [] s.settled = "true" -> "true"
      [] OTHER -> EndOfResidual(s.residual, mode)

-----------------------------------------------------------------------------
(* Properties.                                                             *)

S == INSTANCE LtlSemantics

\* The infinite runs that continue the trace, the periodic ones with a short loop.
Loops == UNION {[1..n -> SUBSET Atom] : n \in 1..MaxLoop}
Runs  == {[stem |-> trace, loop |-> l] : l \in Loops}

Onsets(f) == {i \in 0..(Len(trace) - 1) : \A w \in Runs : ~S!Sat(f, w, i)}

\* A strict verdict is never taken back (EndReport, eval.ts 74-75: "unknown whenever
\* anything is still pending"): whatever tool calls follow, the rule holds over the run
\* when the monitor says true and fails when it says false.  Residuals, merged
\* obligations, continuations and the fold at the end all have to be right for it.
VerdictSound ==
    LET v == EndOfSlot(slot, "strict")
    IN /\ v = "true"  => \A w \in Runs : S!Sat(rule, w, 0)
       /\ v = "false" => \A w \in Runs : ~S!Sat(rule, w, 0)

\* A rule with bounds only is decided by the last event its bounds reach: none of its
\* windows stays open, and no verdict waits for the session to end.
DecidedWithinBounds ==
    slot.available /\ S!Bounded(rule) /\ Len(trace) >= S!Horizon(rule)
        => EndOfSlot(slot, "strict") # "unknown"

\* not() commutes with the monitor (laws.test.ts, residual.ts 118-121: "the fold commutes
\* with negation"): the rule and its negation, followed side by side, never both hold,
\* never both fail, and are open together.
NegationCommutes ==
    slot.available = dual.available
        => EndOfSlot(dual, "strict") = KleeneNot(EndOfSlot(slot, "strict"))

\* For the shipped shape always(a => eventually(f) within n), the reported onsets are
\* exactly the calls whose deadline has passed in vain when f is a plain predicate;
\* when equal obligations are merged, the earliest of them is the one reported
\* (keepUnique, eval.ts 238: "same future, earliest onset wins").
OnsetsExact ==
    LET f     == rule.sub
        late  == Onsets(f)
        plain == f.right.sub.kind = "atom"
    IN /\ slot.available
       /\ rule.kind = "always" /\ rule.bound = Inf
       /\ f.kind = "implies" /\ f.left.kind \in {"atom", "const"}
       /\ f.right.kind = "eventually" /\ f.right.bound # Inf
       => /\ slot.reported \subseteq late
          /\ plain => slot.reported = late
          /\ late # {} => (CHOOSE i \in late : \A j \in late : i <= j) \in slot.reported

\* A leaning of "unknown" means that an eventually, until or next is still owed
\* (EndReport, eval.ts 76-77): a rule without one leans to an answer after the first event.
LeaningNamesStrong ==
    slot.available /\ trace # <<>> /\ S!Safety(rule)
        => EndOfSlot(slot, "weak") # "unknown"

\* Equal obligations are merged, so a rule that owes unbounded answers to each call
\* holds only as many obligations as there are ways to owe some of them, however long the
\* session is (eval.ts 14-15: always(eventually(p)) "cannot grow without limit").  A rule
\* whose antecedent may stay open, such as always((eventually x) => y), is exempt: the
\* failures of its consequent are stored under their onsets, which keeps them apart
\* (residualKey, residual.ts 75), and its obligations do grow with the session.
ObligationsMerged ==
    /\ rule.kind = "always" /\ rule.bound = Inf
    /\ slot.residual.kind = "always"
    /\ S!Unbounded(rule.sub) /\ S!PlainAntecedents(rule.sub)
    => Len(slot.residual.pending) < 2 ^ S!Temporals(rule.sub)
=============================================================================
