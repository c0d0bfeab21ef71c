---------------------------- MODULE Accumulation ----------------------------
(***************************************************************************)
(* What the accumulative planner promises: every block has its turn once,  *)
(* and each plan that survives it has survived before, or is a valid plan  *)
(* in which the block is complete.  The answer is one of the survivors     *)
(* (schedulers/src/scheduler/hap/README.md, "Main idea").                  *)
(***************************************************************************)
EXTENDS Periods

CONSTANTS
    Blocks,      \* the blocks of the problems
    Problems     \* windows, durations and completion branches

VARIABLES
    problem,   \* the problem of this run
    left,      \* the blocks that have not had their turn
    pool,      \* the surviving plans: sets of placements [task, start, end]
    answer     \* no plan yet, or the one returned

vars == <<problem, left, pool, answer>>

Valid(plan) ==
    /\ \A p \in plan :
          /\ Span(p) = problem.dur[p.task]
          /\ \E w \in problem.windows[p.task] : Inside(p, w)
    /\ \A p, q \in plan : p = q \/ (p.task # q.task /\ ~ Overlaps(p, q))

Complete(b, plan) ==
    \E i \in DOMAIN problem.branches[b] : \A j \in DOMAIN problem.branches[b][i] :
        \E p \in plan : p.task = problem.branches[b][i][j]

Init ==
    /\ problem \in Problems
    /\ left = Blocks
    /\ pool = {{}}
    /\ answer = {}

Round(b) ==
    /\ b \in left
    /\ left' = left \ {b}
    /\ pool' # {}
    /\ \A plan \in pool' : plan \in pool \/ (Valid(plan) /\ Complete(b, plan))
    /\ UNCHANGED <<problem, answer>>

Answer ==
    /\ left = {} /\ answer = {}
    /\ \E plan \in pool : answer' = {plan}
    /\ UNCHANGED <<problem, left, pool>>

Next == (\E b \in Blocks : Round(b)) \/ Answer

Spec == Init /\ [][Next]_vars
=============================================================================
