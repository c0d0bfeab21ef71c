--------------------------- MODULE ConstraintExpr ---------------------------
(***************************************************************************)
(* Hard constraints: expressions over atomic constraints that give the     *)
(* feasible periods of a timeline (schedulers/src/constraints).            *)
(*                                                                         *)
(* An atom is abstracted to the ticks it allows, to a missing context      *)
(* (location, target, bounds) that makes it fail, or to a judgement of the *)
(* midpoint of the timeline it is asked about, as the separation from the  *)
(* Moon is.                                                                *)
(***************************************************************************)
EXTENDS PeriodAlgebra, ExprTrees

CONSTANT Failed   \* the check returns an error

ASSUME FailedIsNoSet == Failed \notin Seq(PeriodsOver(Int))

Atom(allowed) == [kind |-> "atom", allowed |-> allowed]
Midpoint(allowed) == [kind |-> "midpoint", allowed |-> allowed]
Failing == [kind |-> "failing"]
UnionExpr(parts) == [kind |-> "union", parts |-> parts]
Intersection(parts) == [kind |-> "intersection", parts |-> parts]

HardExprs ==
    Trees([kind : {"atom", "midpoint"}, allowed : SUBSET Int] \cup {Failing},
          {"union", "intersection"})

Unconstrained == Intersection(<<>>)
IsUnconstrained(e) == e = Unconstrained

(* The ticks of a set, as periods in normal form. *)
PeriodsOfTicks(T) ==
    LET ticks == SortedBy(LAMBDA t, u : t < u, T)
    IN  Normalise([n \in DOMAIN ticks |-> [start |-> ticks[n], end |-> ticks[n] + 1]])

Middle(p) == (p.start + p.end) \div 2

UnionStep(acc, set) ==
    IF acc = Failed \/ set = Failed THEN Failed ELSE UnionOf(acc, set)

(* The children after the one that leaves nothing are not looked at; the   *)
(* second child is, even when the first one leaves nothing.                *)
IntersectionStep(acc, set) ==
    IF acc.over THEN acc
    ELSE IF set = Failed THEN [set |-> Failed, over |-> TRUE]
    ELSE LET out == IntersectionOf(acc.set, set) IN [set |-> out, over |-> out = <<>>]

FirstChild(set) == [set |-> set, over |-> set = Failed]

(* What an expression finds, given what its children found.                *)
FoundBy(e, found, timeline) ==
    CASE e.kind = "atom" -> PeriodsOfTicks(e.allowed \cap Ticks(timeline))
      [] e.kind = "midpoint" -> IF Middle(timeline) \in e.allowed THEN <<timeline>> ELSE <<>>
      [] e.kind = "failing" -> Failed
      [] e.kind = "union" -> FoldLeft(UnionStep, <<>>, found)
      [] OTHER ->   \* an intersection
            IF found = <<>> THEN <<timeline>>
            ELSE FoldLeft(IntersectionStep, FirstChild(Head(found)), Tail(found)).set

CheckExpr(e, timeline) ==
    LET check[x \in HardExprs] ==
            FoundBy(x, [i \in DOMAIN x.parts |-> check[x.parts[i]]], timeline)
    IN  check[e]

(* The dynamic expression inside each of some windows. *)
CheckInside(e, windows) ==
    FoldLeft(UnionStep, <<>>, [n \in DOMAIN windows |-> CheckExpr(e, windows[n])])

(* The dynamic expression is asked only inside what the static one leaves. *)
CheckHard(static, dynamic, timeline) ==
    LET s == CheckExpr(static, timeline)
    IN  IF s = Failed \/ s = <<>> \/ IsUnconstrained(dynamic) THEN s
        ELSE LET d == IF IsUnconstrained(static) THEN CheckExpr(dynamic, timeline)
                                                 ELSE CheckInside(dynamic, s)
             IN  IF d = Failed THEN Failed ELSE IntersectionOf(s, d)

(* Faulty: gaps between the feasible periods are not seen. *)
Covered_Envelope(feasible, candidate) ==
    feasible # <<>> /\ Inside(candidate, Hull(Head(feasible), Last(feasible)))

(* can_place: one feasible period covers the candidate. *)
Covered(feasible, candidate) ==
    \E i \in DOMAIN feasible : Inside(candidate, feasible[i])
=============================================================================
