-------------------------- MODULE SchedulingProblem --------------------------
(***************************************************************************)
(* A scheduling problem under construction and the schedule made for it:   *)
(* blocks of tasks with their dependencies (schedulers/src/                *)
(* scheduling_block/mod.rs), the problem that owns the blocks and validates *)
(* placements (schedule/problem.rs), and the placement map with its        *)
(* interval tree (schedule/mod.rs).                                        *)
(*                                                                         *)
(* Whoever builds a block or a problem may go on after a refusal, as the   *)
(* methods let it.  A problem is complete before a schedule is made for    *)
(* it, as in every caller.  The interval tree is the bag of its entries,   *)
(* which IntervalTree shows the sorted index to implement.                 *)
(***************************************************************************)
EXTENDS EntryBags, FiniteSets, Sequences

CONSTANTS
    BlockIds,     \* scheduling block ids
    Duration,     \* ticks that each task takes
    Feasible,     \* feasible periods of each task (hard constraints)
    MaxBlocks,    \* bound: blocks that are begun
    MaxEdges,     \* bound: dependencies of a block
    NoBlock,      \* no draft in hand
    Unplaced,     \* the task has no placement
    Nowhere       \* the index does not know the task

BlockSet == [id : BlockIds, tasks : Seq(Tasks), deps : SUBSET (Tasks \X Tasks)]
Locations == [block : Nat \ {0}, pos : Nat \ {0}]

ASSUME ProblemConstants ==
    /\ Duration \in [Tasks -> Nat \ {0}]
    /\ Feasible \in [Tasks -> SUBSET Slots]
    /\ MaxBlocks \in Nat /\ MaxEdges \in Nat
ASSUME NothingIsThere == Unplaced \notin Slots /\ Nowhere \notin Locations

VARIABLES
    draft,      \* the block being built
    begun,      \* bounded by MaxBlocks
    blocks,     \* the blocks of the problem, in input order
    taskAt,     \* task_index
    refused,    \* history: push_block or add_dependency has returned an error
    placements, \* the placement of each task
    tree,       \* tree[t][p]: how many entries of task t hold period p
    replaced    \* history: a placed task has been placed again

problem == <<draft, begun, blocks, taskAt, refused>>
schedule == <<placements, tree, replaced>>
problemVars == <<problem, schedule>>

TasksIn(b) == {b.tasks[i] : i \in DOMAIN b.tasks}

ProblemInit ==
    /\ draft = NoBlock /\ begun = 0
    /\ blocks = <<>>
    /\ taskAt = [t \in Tasks |-> Nowhere]
    /\ refused = FALSE
    /\ placements = [t \in Tasks |-> Unplaced]
    /\ tree = [t \in Tasks |-> [p \in Slots |-> 0]]
    /\ replaced = FALSE
-----------------------------------------------------------------------------
(* Building *)

Building ==
    /\ placements = [t \in Tasks |-> Unplaced]
    /\ \A t \in Tasks, p \in Slots : tree[t][p] = 0

NewBlock(id) ==
    /\ draft = NoBlock /\ Building
    /\ begun < MaxBlocks /\ begun' = begun + 1
    /\ draft' = [id |-> id, tasks |-> <<>>, deps |-> {}]
    /\ UNCHANGED <<blocks, taskAt, refused, schedule>>

(* A task that the block has already is refused, and nothing changes. *)
PushTask(t) ==
    /\ draft # NoBlock
    /\ t \notin TasksIn(draft)
    /\ draft' = [draft EXCEPT !.tasks = Append(@, t)]
    /\ UNCHANGED <<begun, blocks, taskAt, refused, schedule>>

(* The tasks reachable from t along deps, in one step or more. *)
Reach(deps, t) ==
    {u \in Tasks : \A S \in SUBSET Tasks :
        (/\ \A e \in deps : e[1] = t => e[2] \in S
         /\ \A e \in deps : e[1] \in S => e[2] \in S) => u \in S}

Cyclic(deps) == \E t \in Tasks : t \in Reach(deps, t)

(* The edge is added before the graph is sorted: it stays when the call    *)
(* reports a cycle.                                                        *)
AddDependency(from, to) ==
    /\ draft # NoBlock
    /\ {from, to} \subseteq TasksIn(draft)
    /\ Cardinality(draft.deps) < MaxEdges
    /\ LET deps == draft.deps \cup {<<from, to>>}
       IN  /\ draft' = [draft EXCEPT !.deps = deps]
           /\ refused' = (refused \/ Cyclic(deps))
    /\ UNCHANGED <<begun, blocks, taskAt, schedule>>

(* The index with the first n tasks of the draft as those of the block     *)
(* that would come next.                                                   *)
Indexed(n) ==
    [t \in Tasks |->
        IF \E i \in 1 .. n : draft.tasks[i] = t
          THEN [block |-> Len(blocks) + 1, pos |-> CHOOSE i \in 1 .. n : draft.tasks[i] = t]
          ELSE taskAt[t]]

KnownId == \E i \in DOMAIN blocks : blocks[i].id = draft.id
KnownAt(i) == taskAt[draft.tasks[i]] # Nowhere

(* A block with a task that the index knows is refused, but the index      *)
(* keeps the tasks before that one, at a block that does not exist yet.    *)
PushBlock ==
    /\ draft # NoBlock
    /\ draft' = NoBlock
    /\ \/ /\ KnownId
          /\ refused' = TRUE
          /\ UNCHANGED <<blocks, taskAt>>
       \/ \E i \in DOMAIN draft.tasks :
          /\ ~ KnownId
          /\ KnownAt(i) /\ \A j \in 1 .. i - 1 : ~ KnownAt(j)
          /\ refused' = TRUE
          /\ taskAt' = Indexed(i - 1)
          /\ UNCHANGED blocks
       \/ /\ ~ KnownId
          /\ \A i \in DOMAIN draft.tasks : ~ KnownAt(i)
          /\ blocks' = Append(blocks, draft)
          /\ taskAt' = Indexed(Len(draft.tasks))
          /\ UNCHANGED refused
    /\ UNCHANGED <<begun, schedule>>
-----------------------------------------------------------------------------
(* Placing *)

(* task: what the index finds at the position it has for t. *)
Finds(t) ==
    /\ taskAt[t] # Nowhere
    /\ taskAt[t].block \in DOMAIN blocks
    /\ taskAt[t].pos \in DOMAIN blocks[taskAt[t].block].tasks

Found(t) == blocks[taskAt[t].block].tasks[taskAt[t].pos]

AllPredecessors(t) ==
    {u \in Tasks : t \in Reach(blocks[taskAt[t].block].deps, u)}

(* Faulty: a predecessor may still run when the task starts. *)
CanPlace_AnyOrder(at, entries, t, p) ==
    /\ Finds(t)
    /\ Span(p) = Duration[Found(t)]
    /\ \A u \in Tasks, q \in Slots : entries[u][q] > 0 => ~ Overlaps(p, q)
    /\ \E f \in Feasible[Found(t)] : Inside(p, f)
    /\ \A u \in AllPredecessors(t) : at[u] # Unplaced

CanPlace(at, entries, t, p) ==
    /\ Finds(t)
    /\ Span(p) = Duration[Found(t)]
    /\ \A u \in Tasks, q \in Slots : entries[u][q] > 0 => ~ Overlaps(p, q)
    /\ \E f \in Feasible[Found(t)] : Inside(p, f)
    /\ \A u \in AllPredecessors(t) : at[u] # Unplaced /\ at[u].end <= p.start

(* The old entry of a task that is placed already stays in the tree. *)
PlaceTask(t, p) ==
    /\ draft = NoBlock
    /\ CanPlace(placements, tree, t, p)
    /\ placements' = [placements EXCEPT ![t] = p]
    /\ tree' = WithEntry(tree, t, p)
    /\ replaced' = (replaced \/ placements[t] # Unplaced)
    /\ UNCHANGED problem

UnplaceTask(t) ==
    /\ draft = NoBlock
    /\ placements[t] # Unplaced
    /\ placements' = [placements EXCEPT ![t] = Unplaced]
    /\ tree' = WithoutEntry(tree, t)
    /\ UNCHANGED <<replaced, problem>>

(* The schedule while move_task holds the placement of t in its hand. *)
Lifted(t) == [placements EXCEPT ![t] = Unplaced]
LiftedTree(t) == IF placements[t] = Unplaced THEN tree ELSE WithoutEntry(tree, t)

(* Faulty: a failed move puts the placement back, but not its entry. *)
MoveTask_EntryLost(t, p) ==
    /\ draft = NoBlock
    /\ \/ /\ CanPlace(Lifted(t), LiftedTree(t), t, p)
          /\ placements' = [placements EXCEPT ![t] = p]
          /\ tree' = WithEntry(LiftedTree(t), t, p)
       \/ /\ ~ CanPlace(Lifted(t), LiftedTree(t), t, p)
          /\ placements' = placements
          /\ tree' = LiftedTree(t)
    /\ UNCHANGED <<replaced, problem>>

(* The old placement is put back when the new one is refused. *)
MoveTask(t, p) ==
    /\ draft = NoBlock
    /\ \/ /\ CanPlace(Lifted(t), LiftedTree(t), t, p)
          /\ placements' = [placements EXCEPT ![t] = p]
          /\ tree' = WithEntry(LiftedTree(t), t, p)
       \/ /\ ~ CanPlace(Lifted(t), LiftedTree(t), t, p)
          /\ placements' = placements
          /\ tree' = IF placements[t] = Unplaced THEN tree
                     ELSE WithEntry(LiftedTree(t), t, placements[t])
    /\ UNCHANGED <<replaced, problem>>

ProblemNext ==
    \/ \E id \in BlockIds : NewBlock(id)
    \/ \E t \in Tasks : PushTask(t)
    \/ \E from, to \in Tasks : AddDependency(from, to)
    \/ PushBlock
    \/ \E t \in Tasks, p \in Slots : PlaceTask(t, p)
    \/ \E t \in Tasks : UnplaceTask(t)
    \/ \E t \in Tasks, p \in Slots : MoveTask(t, p)

ProblemSpec == ProblemInit /\ [][ProblemNext]_problemVars
-----------------------------------------------------------------------------
ProblemTypeOK ==
    /\ draft \in BlockSet \cup {NoBlock}
    /\ begun \in 0 .. MaxBlocks
    /\ blocks \in Seq(BlockSet)
    /\ taskAt \in [Tasks -> Locations \cup {Nowhere}]
    /\ refused \in BOOLEAN
    /\ placements \in [Tasks -> Slots \cup {Unplaced}]
    /\ tree \in [Tasks -> [Slots -> Nat]]
    /\ replaced \in BOOLEAN

(* No two tasks of a schedule overlap, whatever was placed, moved and      *)
(* removed, and though the tree may hold entries of placements that are    *)
(* gone (problem.rs:132-134).                                              *)
NoOverlapPlaced ==
    \A t, u \in Tasks :
        (t # u /\ placements[t] # Unplaced /\ placements[u] # Unplaced)
            => ~ Overlaps(placements[t], placements[u])

(* The tree never misses a placement (schedule/mod.rs:22).                 *)
TreeCovers ==
    \A t \in Tasks : placements[t] # Unplaced => tree[t][placements[t]] > 0

(* As long as nobody places a placed task again, the tree holds the        *)
(* placements and nothing else (schedule/mod.rs:22).                       *)
TreeIsExactUnlessReplaced ==
    ~ replaced =>
        \A t \in Tasks, p \in Slots :
            tree[t][p] = IF placements[t] = p THEN 1 ELSE 0

(* The index leads from every task of the problem to that task, although a *)
(* refused block leaves traces in it (problem.rs:43-70, 93-98).            *)
LookupIsExact ==
    \A i \in DOMAIN blocks : \A j \in DOMAIN blocks[i].tasks :
        taskAt[blocks[i].tasks[j]] = [block |-> i, pos |-> j]

(* Until a call is refused, the index finds no task under the id of        *)
(* another.                                                                *)
FindsItselfUnlessRefused ==
    ~ refused => \A t \in Tasks : Finds(t) => Found(t) = t

(* The graph of a block is acyclic, unless whoever built it went on after  *)
(* an error; and even then no task on a cycle is ever placed               *)
(* (scheduling_block/mod.rs:4, 138-141; problem.rs:208-235).               *)
CyclesAreInert ==
    \A i \in DOMAIN blocks :
        /\ ~ refused => ~ Cyclic(blocks[i].deps)
        /\ \A j \in DOMAIN blocks[i].tasks :
              LET t == blocks[i].tasks[j] IN
              placements[t] # Unplaced => t \notin Reach(blocks[i].deps, t)

(* The schedule, its tree and the index of the problem agree, and no       *)
(* schedule is illegal, whatever was refused, moved or undone              *)
(* (problem.rs:43-235; schedule/mod.rs:22-90).                             *)
ProblemIsSound ==
    /\ NoOverlapPlaced
    /\ TreeCovers
    /\ TreeIsExactUnlessReplaced
    /\ LookupIsExact
    /\ FindsItselfUnlessRefused
    /\ CyclesAreInert

(* When a task receives a placement, all of its predecessors are placed    *)
(* and have ended (problem.rs:208-235).                                    *)
PlacedAfterPredecessors ==
    [][\A t \in Tasks :
         (placements'[t] # placements[t] /\ placements'[t] # Unplaced) =>
            \A u \in AllPredecessors(t) :
               placements[u] # Unplaced /\ placements[u].end <= placements'[t].start]_problemVars
=============================================================================
