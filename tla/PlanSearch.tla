----------------------------- MODULE PlanSearch -----------------------------
(***************************************************************************)
(* What a scheduler promises, whatever its algorithm: it builds plans one  *)
(* placement at a time, every placement is legal in the plan it joins, and *)
(* the answer is one of the plans it built                                 *)
(* (docs/algorithms/cursor-engine.md, "Placement validity invariants").    *)
(***************************************************************************)
EXTENDS Periods

CONSTANTS
    Horizon,   \* the period to be scheduled
    Problems   \* the scheduling problems

VARIABLES
    problem,   \* the problem of this search
    plans,     \* the plans in hand: sets of placements [task, start, end]
    answer     \* no plan yet, or the one returned

vars == <<problem, plans, answer>>

(* Placement p may join a plan. *)
Legal(plan, p) ==
    /\ \A r \in plan : r.task # p.task /\ ~ Overlaps(r, p)
    /\ Inside(p, Horizon)
    /\ Span(p) = problem.dur[p.task]
    /\ \E w \in problem.windows[p.task] : Inside(p, w)
    /\ \A d \in problem.deps : d[2] = p.task =>
          \E r \in plan : r.task = d[1] /\ r.end <= p.start

(* A plan is in hand already, or adds one legal placement to one that is. *)
Reached(plan) ==
    \/ plan \in plans
    \/ \E p \in plan : plan \ {p} \in plans /\ Legal(plan \ {p}, p)

Init == problem \in Problems /\ plans = {{}} /\ answer = {}

(* Keep, drop and extend plans. *)
Search ==
    /\ answer = {}
    /\ \A plan \in plans' : Reached(plan)
    /\ UNCHANGED <<problem, answer>>

Answer ==
    /\ answer = {}
    /\ \E plan \in plans : answer' = {plan}
    /\ UNCHANGED <<problem, plans>>

Next == Search \/ Answer

Spec == Init /\ [][Next]_vars
=============================================================================
