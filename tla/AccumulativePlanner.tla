------------------------ MODULE AccumulativePlanner ------------------------
(***************************************************************************)
(* The HAP and AP schedulers (schedulers/src/scheduler/hap): blocks are    *)
(* taken one by one, and for each the conflict resolution unit (cru) tries *)
(* to complete the block in the schedules that survived the last round.    *)
(*                                                                         *)
(* The unit tries every completion branch of the block on a fresh copy of  *)
(* the source schedule, and places the tasks of a branch one after the     *)
(* other.  Placing one task is a repair cycle: the task may evict others   *)
(* into a lobby, from which they are placed again in turn, and in the end  *)
(* the cheapest schedule of the cycle is restored.                         *)
(*                                                                         *)
(* A schedule maps each placed task to its start.  The program also keeps  *)
(* an interval tree of the placements; it agrees with the map because a    *)
(* task is only inserted while it is not placed (TriedOnce).               *)
(*                                                                         *)
(* An operator with an underscore in its name is a faulty variant of the   *)
(* one that follows it.                                                    *)
(***************************************************************************)
EXTENDS Periods, FiniteSets, Sequences, FiniteSetsExt

CONSTANTS
    Tasks,      \* task ids: numbers
    Blocks,     \* block ids: numbers
    Problems,   \* the scheduling problems to run
    Configs,    \* the planner configurations to run
    Unit,       \* a common multiple of the block sizes: 1 in the code
    MaxCost     \* the largest cost (usize::MAX), more than any sum of costs

(* owner: the block of each task.  branches: the completion alternatives   *)
(* of a block, from its expression in disjunctive normal form.  priority:  *)
(* the soft-constraint scores of the block's tasks, summed up.  deps is    *)
(* what the blocks require of the order of their tasks.                    *)
ProblemRecord == [windows  : [Tasks -> SUBSET PeriodsOver(Int)],
                  dur      : [Tasks -> Nat \ {0}],
                  owner    : [Tasks -> Blocks],
                  branches : [Blocks -> Seq(Seq(Tasks))],
                  priority : [Blocks -> Int],
                  deps     : SUBSET (Tasks \X Tasks)]

ConfigRecord == [selector   : {"deterministic", "stochastic", "random"},
                 rho        : Nat,
                 maxIter    : Nat,
                 population : Nat \ {0},
                 survivor   : {"elitist", "pareto"},   \* GreedyOne keeps 1
                 keep       : Nat \ {0},
                 rejection  : BOOLEAN]

ASSUME PlannerTasks == Tasks \subseteq Nat /\ IsFiniteSet(Tasks)
ASSUME PlannerBlocks == Blocks \subseteq Nat /\ IsFiniteSet(Blocks)
ASSUME PlannerProblems ==
    /\ Problems \subseteq ProblemRecord
    /\ \A p \in Problems : \A b \in Blocks : \A i \in DOMAIN p.branches[b] :
          \A j \in DOMAIN p.branches[b][i] :
             /\ p.owner[p.branches[b][i][j]] = b
             /\ \A k \in DOMAIN p.branches[b][i] :
                   p.branches[b][i][j] = p.branches[b][i][k] => j = k
ASSUME PlannerConfigs == Configs \subseteq ConfigRecord
ASSUME PlannerNumbers ==
    /\ MaxCost \in Nat /\ MaxCost > Cardinality(Tasks) * Cardinality(Tasks)
    /\ Unit \in Nat \ {0}

VARIABLES
    problem, config,   \* the inputs of this run
    phase,             \* the loop that control is in
    round,             \* number of the block in hand, by priority
    survivors,         \* the schedules that survived the last block
    candidates,        \* the schedules found for the block in hand
    source,            \* number of sources done
    base,              \* the source schedule
    branches,          \* completion branches of the block yet to be tried
    todo,              \* tasks of the branch yet to be placed
    working,           \* the schedule of the branch
    lobby,             \* stack of tasks waiting to be placed
    protected,         \* tasks placed in this repair cycle
    iter,              \* iterations of this repair cycle
    minCost, best,     \* the cheapest schedule of this repair cycle
    before,            \* history: the schedule when this cycle began
    result             \* no schedule yet, or the one returned

rounds == <<round, survivors>>
sources == <<candidates, source, base>>
cycle == <<lobby, protected, iter, minCost, best, before>>
vars == <<problem, config, phase, rounds, sources, branches, todo, working, cycle, result>>

Empty == [t \in {} |-> 0]
Image(q) == {q[i] : i \in DOMAIN q}
Members(b) == {t \in Tasks : problem.owner[t] = b}

-----------------------------------------------------------------------------
(* Candidate placements of one task *)

Placed(s) == DOMAIN s
Interval(s, t) == [start |-> s[t], end |-> s[t] + problem.dur[t]]
Overlapping(s, p) == {u \in Placed(s) : Overlaps(Interval(s, u), p)}

(* A task may start with a window, or after a placement that overlaps the  *)
(* window, if it ends in the window.                                       *)
(* Faulty: it may end after the window. *)
Starts_AnyEnd(t, s) ==
    UNION {{w.start} \cup {Interval(s, u).end : u \in Overlapping(s, w)} : w \in problem.windows[t]}

Starts(t, s) ==
    UNION {{x \in {w.start} \cup {Interval(s, u).end : u \in Overlapping(s, w)} :
               x + problem.dur[t] <= w.end} : w \in problem.windows[t]}

(* The tasks that t would displace at x; their number is the cost. *)
Displaced(t, s, x) == Overlapping(s, [start |-> x, end |-> x + problem.dur[t]])
InsertionCost(t, s, x) == Cardinality(Displaced(t, s, x))

Candidates(t, s, spared) == {x \in Starts(t, s) : Displaced(t, s, x) \cap spared = {}}

Precedes(t, s, x, y) ==
    \/ InsertionCost(t, s, x) < InsertionCost(t, s, y)
    \/ InsertionCost(t, s, x) = InsertionCost(t, s, y) /\ x < y

Rank(t, s, C, x) == Cardinality({y \in C : Precedes(t, s, y, x)})

(* The candidates that the selector may choose: the first that costs       *)
(* nothing if there is one, else the first, one of the first rho, or any.  *)
Choosable(t, s, C) ==
    LET free == \E x \in C : InsertionCost(t, s, x) = 0
        reach == CASE config.selector = "deterministic" \/ free -> 1
                   [] config.selector = "stochastic" /\ ~ free -> Later(config.rho, 1)
                   [] config.selector = "random" /\ ~ free -> Cardinality(C)
    IN  {x \in C : Rank(t, s, C, x) < reach}

Insert(t, s, x) ==
    [u \in (Placed(s) \ Displaced(t, s, x)) \cup {t} |-> IF u = t THEN x ELSE s[u]]

(* Tasks in the order of their starts, in which the tree reports them. *)
ByStart(s, S) ==
    [i \in 1 .. Cardinality(S) |->
        CHOOSE u \in S : Cardinality({v \in S : s[v] < s[u]}) = i - 1]

(* The cheapest way to place each waiting task, summed up. *)
CheapestCost(t, s, spared) ==
    LET C == Candidates(t, s, spared)
    IN  IF C = {} THEN MaxCost
        ELSE InsertionCost(t, s, CHOOSE x \in C : Rank(t, s, C, x) = 0)

LobbyCost(l, s, spared) ==
    Earlier(MaxCost, MapThenSumSet(LAMBDA i : CheapestCost(l[i], s, spared), DOMAIN l))

-----------------------------------------------------------------------------
(* Comparing schedules *)

(* The completed share of each block, weighted with its priority. *)
Fitness(s) ==
    MapThenSumSet(LAMBDA b : IF Members(b) = {} THEN 0
                             ELSE Cardinality(Members(b) \cap Placed(s))
                                  * (Unit \div Cardinality(Members(b))) * problem.priority[b],
                  Blocks)

ScienceTime(s) == MapThenSumSet(LAMBDA t : problem.dur[t], Placed(s))

(* Ties are broken by the placements themselves, here in any order. *)
Better(r, s) ==
    \/ Fitness(r) > Fitness(s)
    \/ /\ Fitness(r) = Fitness(s)
       /\ \/ ScienceTime(r) > ScienceTime(s)
          \/ /\ ScienceTime(r) = ScienceTime(s)
             /\ Cardinality(Placed(r)) > Cardinality(Placed(s))

(* The block is complete: all tasks of one of its branches are placed. *)
Complete(b, s) ==
    \E i \in DOMAIN problem.branches[b] : Image(problem.branches[b][i]) \subseteq Placed(s)

PrioritySum(s) ==
    MapThenSumSet(LAMBDA b : problem.priority[b], {b \in Blocks : Complete(b, s)})

(* More placements and more completed priority. *)
Dominates(r, s) ==
    /\ Cardinality(Placed(r)) >= Cardinality(Placed(s))
    /\ PrioritySum(r) >= PrioritySum(s)
    /\ \/ Cardinality(Placed(r)) > Cardinality(Placed(s))
       \/ PrioritySum(r) > PrioritySum(s)

ParetoFront(C) == {s \in C : \A r \in C : ~ Dominates(r, s)}

Arrangements(S, n) ==
    {q \in [1 .. n -> S] : \A i, j \in 1 .. n : q[i] = q[j] => i = j}

(* The lists of survivors that the selection may return: the best of all,  *)
(* best first; or the Pareto front, in any order and with any of its       *)
(* members left out when it is too long (the crowding distance decides).   *)
(* Faulty: the worst come first. *)
Selections_Worst(C) ==
    {q \in Arrangements(C, Earlier(config.keep, Cardinality(C))) :
        \A i, j \in DOMAIN q : i < j => ~ Better(q[i], q[j])}

Selections(C) ==
    IF config.survivor = "elitist"
      THEN {q \in Arrangements(C, Earlier(config.keep, Cardinality(C))) :
              \A i \in DOMAIN q :
                 /\ \A j \in DOMAIN q : i < j => ~ Better(q[j], q[i])
                 /\ \A s \in C \ Image(q) : ~ Better(s, q[i])}
      ELSE LET F == ParetoFront(C) IN Arrangements(F, Earlier(config.keep, Cardinality(F)))

-----------------------------------------------------------------------------
(* Blocks by descending priority, then ascending id. *)
Turn(b) == Cardinality({c \in Blocks :
    \/ problem.priority[c] > problem.priority[b]
    \/ problem.priority[c] = problem.priority[b] /\ c < b})

Block == CHOOSE b \in Blocks : Turn(b) = round - 1

Init ==
    /\ problem \in Problems /\ config \in Configs
    /\ phase = "source" /\ round = 1 /\ survivors = <<Empty>>
    /\ candidates = {} /\ source = 0 /\ base = Empty
    /\ branches = <<>> /\ todo = <<>> /\ working = Empty
    /\ lobby = <<>> /\ protected = {} /\ iter = 0
    /\ minCost = MaxCost /\ best = Empty /\ before = Empty
    /\ result = {}

BlocksLeft == round <= Cardinality(Blocks)

(* Take a survivor, in turn, and keep it as a candidate in case the block  *)
(* is better rejected.  Without a survivor the program panics.             *)
Rejection(s) == IF config.rejection THEN {s} ELSE {}

BeginSource ==
    /\ phase = "source" /\ BlocksLeft /\ source < config.population
    /\ survivors # <<>>
    /\ base' = survivors[(source % Len(survivors)) + 1]
    /\ candidates' = candidates \cup Rejection(base')
    /\ branches' = problem.branches[Block]
    /\ phase' = "branch"
    /\ UNCHANGED <<problem, config, rounds, source, todo, working, cycle, result>>

BeginBranch ==
    /\ phase = "branch" /\ branches # <<>>
    /\ working' = base
    /\ todo' = Head(branches)
    /\ phase' = "task"
    /\ UNCHANGED <<problem, config, rounds, sources, branches, cycle, result>>

(* Faulty: the rollback goes back to the start of the branch. *)
BeginCycle_FromBase ==
    /\ phase = "task" /\ todo # <<>>
    /\ lobby' = <<Head(todo)>> /\ protected' = {} /\ iter' = 0
    /\ minCost' = MaxCost /\ best' = base /\ before' = working
    /\ phase' = "repair"
    /\ UNCHANGED <<problem, config, rounds, sources, branches, todo, working, result>>

BeginCycle ==
    /\ phase = "task" /\ todo # <<>>
    /\ lobby' = <<Head(todo)>> /\ protected' = {} /\ iter' = 0
    /\ minCost' = MaxCost /\ best' = working /\ before' = working
    /\ phase' = "repair"
    /\ UNCHANGED <<problem, config, rounds, sources, branches, todo, working, result>>

(* What a task may not evict: tasks of its own block, and those placed     *)
(* since the cycle began.                                                  *)
Spared(t) == Members(problem.owner[t]) \cup protected

(* Place t, with what it displaces put into the lobby; or drop it. *)
ScheduleTask(t, rest) ==
    LET C == Candidates(t, working, Spared(t))
    IN  \/ /\ C = {}
           /\ lobby' = rest
           /\ UNCHANGED <<working, protected>>
        \/ \E x \in Choosable(t, working, C) :
              /\ working' = Insert(t, working, x)
              /\ lobby' = rest \o ByStart(working, Displaced(t, working, x))
              /\ protected' = protected \cup {t}

Snapshot ==
    LET cost == LobbyCost(lobby', working', protected')
    IN  IF cost < minCost THEN minCost' = cost /\ best' = working'
        ELSE UNCHANGED <<minCost, best>>

(* Faulty: one iteration too many. *)
Repairing_OneMore == lobby # <<>> /\ iter <= config.maxIter
Repairing == lobby # <<>> /\ iter < config.maxIter

Repair ==
    /\ phase = "repair" /\ Repairing
    /\ ScheduleTask(lobby[Len(lobby)], SubSeq(lobby, 1, Len(lobby) - 1))
    /\ iter' = iter + 1
    /\ Snapshot
    /\ UNCHANGED <<problem, config, phase, rounds, sources, branches, todo, before, result>>

(* Restore the cheapest schedule. *)
EndCycle ==
    /\ phase = "repair" /\ ~ Repairing
    /\ working' = best
    /\ todo' = Tail(todo)
    /\ phase' = "task"
    /\ UNCHANGED <<problem, config, rounds, sources, branches, cycle, result>>

(* A branch counts only if the block is complete. *)
(* Faulty: every branch counts. *)
Accepted_Any == {working}
Accepted == IF Complete(Block, working) THEN {working} ELSE {}

EndBranch ==
    /\ phase = "task" /\ todo = <<>>
    /\ candidates' = candidates \cup Accepted
    /\ branches' = Tail(branches)
    /\ phase' = "branch"
    /\ UNCHANGED <<problem, config, rounds, source, base, todo, working, cycle, result>>

(* Faulty: the next source is the same again. *)
EndSource_Stays ==
    /\ phase = "branch" /\ branches = <<>>
    /\ source' = source
    /\ phase' = "source"
    /\ UNCHANGED <<problem, config, rounds, candidates, base, branches, todo, working, cycle, result>>

EndSource ==
    /\ phase = "branch" /\ branches = <<>>
    /\ source' = source + 1
    /\ phase' = "source"
    /\ UNCHANGED <<problem, config, rounds, candidates, base, branches, todo, working, cycle, result>>

(* The next block. Without a candidate the survivors stay. *)
EndBlock ==
    /\ phase = "source" /\ BlocksLeft /\ source = config.population
    /\ IF candidates = {} THEN UNCHANGED survivors ELSE survivors' \in Selections(candidates)
    /\ round' = round + 1
    /\ source' = 0 /\ candidates' = {}
    /\ UNCHANGED <<problem, config, phase, base, branches, todo, working, cycle, result>>

Return ==
    /\ phase = "source" /\ ~ BlocksLeft
    /\ \E s \in Image(survivors) :
          /\ \A r \in Image(survivors) : ~ Better(r, s)
          /\ result' = {s}
    /\ phase' = "done"
    /\ UNCHANGED <<problem, config, rounds, sources, branches, todo, working, cycle>>

(* The program has returned. *)
Finished == phase = "done" /\ UNCHANGED vars

Next ==
    \/ BeginSource \/ BeginBranch \/ BeginCycle \/ Repair \/ EndCycle
    \/ EndBranch \/ EndSource \/ EndBlock \/ Return \/ Finished

(* One thread runs the loops. *)
Spec == Init /\ [][Next]_vars /\ WF_vars(Next)
=============================================================================
