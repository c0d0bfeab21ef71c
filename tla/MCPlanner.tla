----------------------------- MODULE MCPlanner -----------------------------
(***************************************************************************)
(* Small instances of the accumulative planner for TLC.                    *)
(***************************************************************************)
EXTENDS PlannerProperties, TLC

P(s, e) == [start |-> s, end |-> e]

(* A task of its own block each; or two that share a block, which asks for *)
(* both or for either.                                                     *)
Shape(blockOf, alternatives) == [owner |-> blockOf, branches |-> alternatives]
Apart == Shape(1 :> 1 @@ 2 :> 2 @@ 3 :> 3, 1 :> <<<<1>>>> @@ 2 :> <<<<2>>>> @@ 3 :> <<<<3>>>>)
Both == Shape(1 :> 1 @@ 2 :> 2 @@ 3 :> 2, 1 :> <<<<1>>>> @@ 2 :> <<<<2, 3>>>> @@ 3 :> <<<<>>>>)
Either == Shape(1 :> 1 @@ 2 :> 2 @@ 3 :> 2, 1 :> <<<<1>>>> @@ 2 :> <<<<2>>, <<3>>>> @@ 3 :> <<>>)

Problem(windows, dur, shape, priority, deps) ==
    [windows |-> windows, dur |-> dur, owner |-> shape.owner, branches |-> shape.branches,
     priority |-> priority, deps |-> deps]

WindowSets == {{P(0, 2)}, {P(0, 1), P(2, 4)}, {P(1, 4)}}

(* Priorities that differ, and priorities that are equal or negative. *)
Distinct == 1 :> 1 @@ 2 :> 2 @@ 3 :> 4
Mixed == 1 :> 2 @@ 2 :> 2 @@ 3 :> -1

MCProblems ==
    {Problem(windows, dur, rank[1], rank[2], {}) :
        windows \in [Tasks -> WindowSets], dur \in [Tasks -> {1, 2}],
        rank \in {<<Apart, Distinct>>, <<Apart, Mixed>>, <<Both, Mixed>>, <<Either, Mixed>>}}

Config(selector, rho, population, survivor, keep, rejection) ==
    [selector |-> selector, rho |-> rho, maxIter |-> 4, population |-> population,
     survivor |-> survivor, keep |-> keep, rejection |-> rejection]

(* AP; and HAP with each selector and each selection. *)
AP == Config("deterministic", 0, 1, "elitist", 1, TRUE)
MCConfigs ==
    {AP, Config("stochastic", 2, 2, "elitist", 2, TRUE),
     [Config("random", 0, 2, "pareto", 2, FALSE) EXCEPT !.maxIter = 1]}

APOnly == {AP}

(* Two tasks, the second after the first, in one block. *)
OrderedProblems ==
    {Problem(windows, dur, Both, 1 :> 1 @@ 2 :> 2 @@ 3 :> 1, {<<2, 3>>}) :
        windows \in [Tasks -> WindowSets], dur \in [Tasks -> {1, 2}]}
=============================================================================
