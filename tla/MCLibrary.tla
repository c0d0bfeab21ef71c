----------------------------- MODULE MCLibrary -----------------------------
(***************************************************************************)
(* Small instances of the library below the schedulers: one behaviour per  *)
(* sample of an algorithm, and the behaviours of the interval tree, of a   *)
(* problem with its schedule, of the prescheduler and of its cache.  The   *)
(* parts share no state: each behaviour is one of one part.                *)
(***************************************************************************)
EXTENDS LibraryProperties, Library

CONSTANTS p1, p2, k1, k2, a2

VARIABLE part

P(s, e) == [start |-> s, end |-> e]
UpTo(S, n) == UNION {[1 .. k -> S] : k \in 0 .. n}
-----------------------------------------------------------------------------
(* Samples of the algorithms *)

MCTicks == 0 .. 4
NoSample == [about |-> "nothing"]

RawSamples == {[about |-> "raw", periods |-> ps] : ps \in UpTo(PeriodsOver(MCTicks), 3)}

SetSamples ==
    {[about |-> "sets", left |-> l, right |-> r] : l \in SUBSET MCTicks, r \in SUBSET (0 .. 5)}

(* Nested expressions of up to two parts, the empty And and Or included,   *)
(* and those of three parts that have one, two or no branches.             *)
Leaves == {Leaf(t) : t \in 1 .. 3}
Composed(E) == {And(x) : x \in UpTo(E, 2)} \cup {Or(x) : x \in UpTo(E, 2)}
Threes == [1 .. 3 -> {Leaf(1), Or(<<Leaf(1), Leaf(2)>>), Or(<<Leaf(2), Leaf(3)>>), Or(<<>>)}]
Expressions ==
    Leaves \cup Composed(Leaves \cup Composed(Leaves))
    \cup {And(x) : x \in Threes} \cup {Or(x) : x \in Threes}

CompletionSamples ==
    {[about |-> "completion", expression |-> e, tasks |-> <<1, 2, 3>>] :
        e \in {NoExpression} \cup {e \in Expressions : Accepted(e, <<1, 2, 3>>)}}

Atoms == {Atom({0, 1, 3}), Atom({1, 2, 3}), Atom({2}), Failing}
Constraints ==
    LET few == UpTo(Atoms, 2) IN
    Atoms \cup {UnionExpr(x) : x \in few}
    \cup {Intersection(x) : x \in few \cup {<<Atom({2}), Atom({0, 1, 3}), Failing>>}}

Judged ==
    {Unconstrained, Atom({0, 1, 3}), Midpoint({2}), Midpoint({0, 3}),
     Intersection(<<Atom({0, 1, 3}), Midpoint({2})>>), UnionExpr(<<Midpoint({0, 3}), Atom({2})>>)}

HardSamples ==
    {[about |-> "hard", static |-> a, dynamic |-> b, timeline |-> P(0, 4)] :
        a \in Constraints, b \in Constraints}
    \cup {[about |-> "hard", static |-> a, dynamic |-> b, timeline |-> P(0, 4)] :
            a \in Judged, b \in Judged}

FutureSamples ==
    {[about |-> "future", tasks |-> 1 .. 3, windows |-> w, dur |-> d, preds |-> e,
      placed |-> at, soft |-> soft, regions |-> r] :
        w \in {w \in [1 .. 3 -> {<<P(0, 3)>>, <<P(0, 1), P(2, 6)>>, <<P(1, 3), P(4, 6)>>, <<>>}] :
                 w[1] # <<>> /\ w[2] # <<P(0, 3)>>},
        d \in {<<1, 2, 1>>, <<2, 1, 2>>},
        e \in {<<{}, {}, {}>>, <<{}, {1}, {1, 2}>>},
        at \in {<<NotPlaced, NotPlaced, NotPlaced>>, <<P(0, 2), NotPlaced, NotPlaced>>,
                <<P(0, 2), P(2, 3), NotPlaced>>},
        soft \in {<<2, 2, 1>>},
        r \in {<<P(2, 6)>>, <<P(0, 2), P(4, 6)>>, <<P(1, 4), P(3, 5)>>, <<P(0, 4)>>}}

MCLasts == <<1, 2, 1>>

Placings ==
    {f \in [1 .. 3 -> {NoPlacement} \cup PeriodsOver(0 .. 6)] :
        \A t \in 1 .. 3 : f[t] # NoPlacement =>
            /\ Span(f[t]) = MCLasts[t]
            /\ \A u \in (1 .. 3) \ {t} : f[u] # NoPlacement => ~ Overlaps(f[t], f[u])}

MCWeights == [scheduled_task |-> 1, scheduled_priority |-> 2,
              utilization |-> 1, fragmentation |-> 3]

ResultSamples ==
    {[about |-> "result", tasks |-> 1 .. 3, dur |-> MCLasts, priority |-> p, placed |-> f,
      horizon |-> P(0, 6), available |-> a, weights |-> MCWeights] :
        p \in {<<0, 0, 0>>, <<1, 1, 1>>, <<1, 3, 1>>, <<0, 1, 3>>, <<3, 3, 1>>, <<3, 1, 0>>},
        f \in Placings, a \in {Default, 2}}

Samples == RawSamples \cup SetSamples \cup CompletionSamples \cup HardSamples
           \cup FutureSamples \cup ResultSamples
-----------------------------------------------------------------------------
(* Constants of the other parts *)

MCInstants == 0 .. 3
MCDuration == [t \in Tasks |-> IF t = 3 THEN 2 ELSE 1]
MCFeasible == [t \in Tasks |-> IF t = 1 THEN {P(0, 3)} ELSE {P(0, 2), P(1, 3)}]

(* Blocks of up to two tasks.  The first one lists its tasks in order, and *)
(* has the dependencies; a third one follows only on a refusal.            *)
SmallBlocks ==
    draft' # NoBlock =>
        /\ begun' = 1 =>
              /\ draft'.id = 1
              /\ \A i, j \in DOMAIN draft'.tasks : i < j => draft'.tasks[i] < draft'.tasks[j]
        /\ begun' > 1 => draft'.deps = {}
        /\ begun' = 3 => refused /\ draft'.id = 2
        /\ Len(draft'.tasks) <= IF begun' = 3 THEN 1 ELSE 2

(* Three tasks; the third fails its static check in some of them. *)
MCEvaluations ==
    [telescope : {Error, {}, {1, 2}},
     key       : {<<"d", "d", "e">>, <<"d", "d", "d">>, <<"d", "d", NoDynamic>>},
     candidate : {<<c, d, e>> : c, d \in {{1}, {1, 2}}, e \in {{1}, {}, Error}},
     dynamic   : [1 .. 3 -> {{}, {1}, Error}]]

(* The keys and the answers of two problems, up to renaming. *)
MCKeys == {p1 :> k1 @@ p2 :> k1, p1 :> k1 @@ p2 :> k2}
MCFinds == {f \in [Problems -> Answers \cup {IoError}] : f[p1] # a2}
-----------------------------------------------------------------------------
MCLibraryInit ==
    /\ part \in {"algorithms", "tree", "problem", "prescheduler", "cache"}
    /\ IF part = "algorithms" THEN sample \in Samples ELSE sample = NoSample
    /\ part = "prescheduler" \/ eval = CHOOSE e \in Evaluations : TRUE
    /\ IF part = "cache" THEN keyOf \in MCKeys /\ finds \in MCFinds
       ELSE /\ keyOf = CHOOSE f \in [Problems -> CacheKeys] : TRUE
            /\ finds = CHOOSE f \in [Problems -> Answers \cup {IoError}] : TRUE
    /\ LibraryInit

MCLibraryNext ==
    /\ \/ part = "tree" /\ TreeMoves
       \/ part = "problem" /\ ProblemMoves
       \/ part = "prescheduler" /\ PreschedulerMoves
       \/ part = "cache" /\ CacheMoves
    /\ UNCHANGED <<part, sample>>

MCLibrarySpec == MCLibraryInit /\ [][MCLibraryNext]_<<part, sample, libraryVars>>
=============================================================================
