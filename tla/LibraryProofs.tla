--------------------------- MODULE LibraryProofs ---------------------------
(***************************************************************************)
(* Proofs about the parts of the scheduler's library that keep state, for  *)
(* any blocks, tasks, horizon, durations and constraints, windows,         *)
(* requests, keys and faults.                                              *)
(*                                                                         *)
(* SchedulingProblem.tla: placements never overlap and the interval tree   *)
(* never misses one, the index of a problem is exact, a cycle that was let *)
(* in places nothing.  IntervalTree.tla: the sorted vector with its pruned *)
(* scan implements the bag of entries that the schedule counts on.         *)
(* Prescheduler.tla, PrescheduleCache.tla: neither the memo of the         *)
(* evaluation nor the files that keep its answers change an answer.        *)
(***************************************************************************)
EXTENDS Library, FiniteLemmas

ScheduleTyped ==
    /\ placements \in [Tasks -> Slots \cup {Unplaced}]
    /\ tree \in [Tasks -> [Slots -> Nat]]
    /\ replaced \in BOOLEAN

(* The inductive invariant of the schedule, whatever the problem. *)
ScheduleInv == ScheduleTyped /\ NoOverlapPlaced /\ TreeCovers /\ TreeIsExactUnlessReplaced

-----------------------------------------------------------------------------
(* The bag of entries *)

LEMMA SlotFacts ==
    ASSUME NEW p \in Slots
    PROVE  p.start \in Nat /\ p.end \in Nat
BY InstantsAreTicks DEF Slots, PeriodsOver

(* A task that has entries has an earliest one. *)
LEMMA EarliestFacts ==
    ASSUME NEW bag \in [Tasks -> [Slots -> Nat]], NEW t \in Tasks,
           NEW p \in Slots, bag[t][p] > 0
    PROVE  /\ EarliestEntry(bag, t) \in Slots
           /\ bag[t][EarliestEntry(bag, t)] > 0
           /\ \A q \in Slots : bag[t][q] > 0 => EarliestEntry(bag, t).start <= q.start
<1> DEFINE S == {q.start : q \in {r \in Slots : bag[t][r] > 0}}
<1>1. S \in SUBSET Nat /\ S # {}
    BY SlotFacts
<1>2. PICK n \in S : \A m \in S : n <= m
    BY <1>1, LeastNumber
<1>3. PICK q \in Slots : bag[t][q] > 0 /\ q.start = n
    BY <1>2
<1>4. \A r \in Slots : bag[t][r] > 0 => q.start <= r.start
    BY <1>2, <1>3
<1> QED
    BY <1>3, <1>4 DEF EarliestEntry

LEMMA WithFacts ==
    ASSUME NEW bag \in [Tasks -> [Slots -> Nat]], NEW t \in Tasks, NEW p \in Slots
    PROVE  /\ WithEntry(bag, t, p) \in [Tasks -> [Slots -> Nat]]
           /\ WithEntry(bag, t, p)[t][p] = bag[t][p] + 1
           /\ \A q \in Slots \ {p} : WithEntry(bag, t, p)[t][q] = bag[t][q]
           /\ \A u \in Tasks \ {t} : WithEntry(bag, t, p)[u] = bag[u]
BY DEF WithEntry

(* One entry goes, or there was none. *)
LEMMA WithoutFacts ==
    ASSUME NEW bag \in [Tasks -> [Slots -> Nat]], NEW t \in Tasks
    PROVE  /\ WithoutEntry(bag, t) \in [Tasks -> [Slots -> Nat]]
           /\ \A u \in Tasks \ {t} : WithoutEntry(bag, t)[u] = bag[u]
           /\ \/ /\ \A p \in Slots : bag[t][p] = 0
                 /\ WithoutEntry(bag, t) = bag
              \/ \E e \in Slots :
                   /\ bag[t][e] > 0
                   /\ \A q \in Slots : bag[t][q] > 0 => e.start <= q.start
                   /\ WithoutEntry(bag, t)[t][e] = bag[t][e] - 1
                   /\ \A p \in Slots \ {e} : WithoutEntry(bag, t)[t][p] = bag[t][p]
<1>1. CASE \A p \in Slots : bag[t][p] = 0
    BY <1>1 DEF WithoutEntry
<1>2. CASE \E p \in Slots : bag[t][p] # 0
    <2> DEFINE e == EarliestEntry(bag, t)
    <2>1. PICK p \in Slots : bag[t][p] # 0
        BY <1>2
    <2>2. bag[t][p] \in Nat /\ bag[t][p] > 0
        BY <2>1
    <2>3. e \in Slots /\ bag[t][e] > 0 /\ \A q \in Slots : bag[t][q] > 0 => e.start <= q.start
        BY <2>2, EarliestFacts
    <2>4. WithoutEntry(bag, t) = [bag EXCEPT ![t][e] = @ - 1]
        BY <2>1 DEF WithoutEntry
    <2> HIDE DEF e
    <2>5. bag[t][e] \in Nat /\ bag[t][e] - 1 \in Nat
        BY <2>3
    <2>6. /\ WithoutEntry(bag, t) \in [Tasks -> [Slots -> Nat]]
          /\ WithoutEntry(bag, t)[t][e] = bag[t][e] - 1
          /\ \A q \in Slots \ {e} : WithoutEntry(bag, t)[t][q] = bag[t][q]
          /\ \A u \in Tasks \ {t} : WithoutEntry(bag, t)[u] = bag[u]
        BY <2>3, <2>4, <2>5
    <2> QED
        BY <2>3, <2>6
<1> QED
    BY <1>1, <1>2

-----------------------------------------------------------------------------
(* The schedule *)

LEMMA OverlapsIsSymmetric ==
    ASSUME NEW p, NEW q, ~ Overlaps(p, q)
    PROVE  ~ Overlaps(q, p)
BY DEF Overlaps

(* What CanPlace says of the placements that the tree covers. *)
LEMMA CanPlaceFacts ==
    ASSUME NEW at, NEW bag, NEW t \in Tasks, NEW p \in Slots,
           CanPlace(at, bag, t, p)
    PROVE  \A u \in Tasks, q \in Slots : bag[u][q] > 0 => ~ Overlaps(p, q) /\ ~ Overlaps(q, p)
BY OverlapsIsSymmetric DEF CanPlace

(* A task that gets a free period joins the placements without overlap. *)
LEMMA PlacedWithoutOverlap ==
    ASSUME ScheduleInv, NEW t \in Tasks, NEW p \in Slots,
           placements' = [placements EXCEPT ![t] = p],
           \A u \in Tasks \ {t} : placements[u] # Unplaced =>
              ~ Overlaps(p, placements[u]) /\ ~ Overlaps(placements[u], p)
    PROVE  NoOverlapPlaced'
<1>1. placements'[t] = p /\ \A u \in Tasks \ {t} : placements'[u] = placements[u]
    BY DEF ScheduleInv, ScheduleTyped
<1> SUFFICES ASSUME NEW u \in Tasks, NEW v \in Tasks, u # v,
                    placements'[u] # Unplaced, placements'[v] # Unplaced
             PROVE  ~ Overlaps(placements'[u], placements'[v])
    BY DEF NoOverlapPlaced
<1>2. CASE u = t
    BY <1>1, <1>2
<1>3. CASE v = t
    BY <1>1, <1>3
<1>4. CASE u # t /\ v # t
    BY <1>1, <1>4 DEF ScheduleInv, NoOverlapPlaced
<1> QED
    BY <1>2, <1>3, <1>4

LEMMA PlaceTaskKeeps ==
    ASSUME ScheduleInv, NEW t \in Tasks, NEW p \in Slots, PlaceTask(t, p)
    PROVE  ScheduleInv'
<1>1. /\ placements \in [Tasks -> Slots \cup {Unplaced}] /\ tree \in [Tasks -> [Slots -> Nat]]
      /\ replaced \in BOOLEAN
    BY DEF ScheduleInv, ScheduleTyped
<1>2. /\ CanPlace(placements, tree, t, p)
      /\ placements' = [placements EXCEPT ![t] = p] /\ tree' = WithEntry(tree, t, p)
      /\ replaced' = (replaced \/ placements[t] # Unplaced)
    BY DEF PlaceTask
<1>3. /\ placements' \in [Tasks -> Slots \cup {Unplaced}] /\ placements'[t] = p
      /\ \A u \in Tasks \ {t} : placements'[u] = placements[u]
    BY <1>1, <1>2
<1>4. /\ tree' \in [Tasks -> [Slots -> Nat]] /\ tree'[t][p] = tree[t][p] + 1
      /\ \A q \in Slots \ {p} : tree'[t][q] = tree[t][q]
      /\ \A u \in Tasks \ {t} : tree'[u] = tree[u]
    <2>1. tree \in [Tasks -> [Slots -> Nat]] /\ tree' = WithEntry(tree, t, p)
        BY <1>1, <1>2
    <2> QED
        BY <2>1, WithFacts
<1>5. NoOverlapPlaced'
    <2>1. ASSUME NEW u \in Tasks \ {t}, placements[u] # Unplaced
          PROVE  ~ Overlaps(p, placements[u]) /\ ~ Overlaps(placements[u], p)
        <3>1. placements[u] \in Slots /\ tree[u][placements[u]] > 0
            BY <1>1, <2>1 DEF ScheduleInv, TreeCovers
        <3> QED
            BY <1>2, <3>1, CanPlaceFacts
    <2> QED
        BY <1>2, <2>1, PlacedWithoutOverlap
<1>6. TreeCovers'
    <2>1. tree[t][p] \in Nat
        BY <1>1
    <2> QED
        BY <1>3, <1>4, <2>1 DEF ScheduleInv, TreeCovers
<1>7. TreeIsExactUnlessReplaced'
    <2> SUFFICES ASSUME ~ replaced', NEW u \in Tasks, NEW q \in Slots
                 PROVE  tree'[u][q] = IF placements'[u] = q THEN 1 ELSE 0
        BY DEF TreeIsExactUnlessReplaced
    <2>1. ~ replaced /\ placements[t] = Unplaced
        BY <1>2
    <2>2. \A v \in Tasks, r \in Slots : tree[v][r] = IF placements[v] = r THEN 1 ELSE 0
        BY <2>1 DEF ScheduleInv, TreeIsExactUnlessReplaced
    <2>3. \A r \in Slots : tree[t][r] = 0
        BY <2>1, <2>2, NothingIsThere
    <2>4. CASE u = t
        <3>1. CASE q = p
            BY <1>3, <1>4, <2>3, <2>4, <3>1
        <3>2. CASE q # p
            BY <1>3, <1>4, <2>3, <2>4, <3>2
        <3> QED
            BY <3>1, <3>2
    <2>5. CASE u # t
        BY <1>3, <1>4, <2>2, <2>5
    <2> QED
        BY <2>4, <2>5
<1> QED
    BY <1>1, <1>2, <1>3, <1>4, <1>5, <1>6, <1>7 DEF ScheduleInv, ScheduleTyped

LEMMA UnplaceTaskKeeps ==
    ASSUME ScheduleInv, NEW t \in Tasks, UnplaceTask(t)
    PROVE  ScheduleInv'
<1>1. /\ placements \in [Tasks -> Slots \cup {Unplaced}] /\ tree \in [Tasks -> [Slots -> Nat]]
      /\ replaced \in BOOLEAN
    BY DEF ScheduleInv, ScheduleTyped
<1>2. /\ placements[t] # Unplaced /\ replaced' = replaced
      /\ placements' = [placements EXCEPT ![t] = Unplaced] /\ tree' = WithoutEntry(tree, t)
    BY DEF UnplaceTask
<1>3. /\ placements' \in [Tasks -> Slots \cup {Unplaced}] /\ placements'[t] = Unplaced
      /\ \A u \in Tasks \ {t} : placements'[u] = placements[u]
    BY <1>1, <1>2
<1>4. /\ tree' \in [Tasks -> [Slots -> Nat]]
      /\ \A u \in Tasks \ {t} : tree'[u] = tree[u]
    BY <1>1, <1>2, WithoutFacts
<1>5. NoOverlapPlaced'
    BY <1>3 DEF ScheduleInv, NoOverlapPlaced
<1>6. TreeCovers'
    BY <1>3, <1>4 DEF ScheduleInv, TreeCovers
<1>7. TreeIsExactUnlessReplaced'
    <2> SUFFICES ASSUME ~ replaced', NEW u \in Tasks, NEW q \in Slots
                 PROVE  tree'[u][q] = IF placements'[u] = q THEN 1 ELSE 0
        BY DEF TreeIsExactUnlessReplaced
    <2>1. \A v \in Tasks, r \in Slots : tree[v][r] = IF placements[v] = r THEN 1 ELSE 0
        BY <1>2 DEF ScheduleInv, TreeIsExactUnlessReplaced
    <2>2. placements[t] \in Slots /\ tree[t][placements[t]] = 1
        BY <1>1, <1>2, <2>1
    <2>3. PICK e \in Slots : /\ tree[t][e] > 0
                             /\ tree'[t][e] = tree[t][e] - 1
                             /\ \A r \in Slots \ {e} : tree'[t][r] = tree[t][r]
        <3>1. tree \in [Tasks -> [Slots -> Nat]] /\ tree' = WithoutEntry(tree, t)
            BY <1>1, <1>2
        <3>2. ~ \A r \in Slots : tree[t][r] = 0
            BY <2>2
        <3>3. \E e \in Slots :
                 /\ tree[t][e] > 0
                 /\ WithoutEntry(tree, t)[t][e] = tree[t][e] - 1
                 /\ \A r \in Slots \ {e} : WithoutEntry(tree, t)[t][r] = tree[t][r]
            BY <3>1, <3>2, WithoutFacts
        <3> QED
            BY <3>1, <3>3
    <2>4. e = placements[t]
        BY <2>1, <2>3
    <2>5. \A r \in Slots : tree'[t][r] = 0
        BY <2>1, <2>2, <2>3, <2>4
    <2>6. CASE u = t
        BY <1>3, <2>5, <2>6, NothingIsThere
    <2>7. CASE u # t
        BY <1>3, <1>4, <2>1, <2>7
    <2> QED
        BY <2>6, <2>7
<1> QED
    BY <1>1, <1>2, <1>3, <1>4, <1>5, <1>6, <1>7 DEF ScheduleInv, ScheduleTyped

(* The schedule without t, whose entry is taken out and kept in hand. *)
LEMMA LiftedFacts ==
    ASSUME ScheduleInv, NEW t \in Tasks
    PROVE  /\ LiftedTree(t) \in [Tasks -> [Slots -> Nat]]
           /\ \A u \in Tasks \ {t} : LiftedTree(t)[u] = tree[u]
           /\ placements[t] # Unplaced =>
                 LiftedTree(t)[t][placements[t]] + 1 >= tree[t][placements[t]]
           /\ ~ replaced => \A p \in Slots : LiftedTree(t)[t][p] = 0
<1>1. /\ placements \in [Tasks -> Slots \cup {Unplaced}] /\ tree \in [Tasks -> [Slots -> Nat]]
    BY DEF ScheduleInv, ScheduleTyped
<1>2. CASE placements[t] = Unplaced
    <2>1. LiftedTree(t) = tree
        BY <1>2 DEF LiftedTree
    <2>2. ~ replaced => \A p \in Slots : tree[t][p] = 0
        BY <1>2, NothingIsThere DEF ScheduleInv, TreeIsExactUnlessReplaced
    <2> QED
        BY <1>1, <1>2, <2>1, <2>2
<1>3. CASE placements[t] # Unplaced
    <2> DEFINE W == WithoutEntry(tree, t)
    <2>1. LiftedTree(t) = W
        BY <1>3 DEF LiftedTree
    <2>2. W \in [Tasks -> [Slots -> Nat]] /\ \A u \in Tasks \ {t} : W[u] = tree[u]
        BY <1>1, WithoutFacts
    <2>3. placements[t] \in Slots /\ tree[t][placements[t]] > 0
        BY <1>1, <1>3 DEF ScheduleInv, TreeCovers
    <2>4. PICK e \in Slots : /\ tree[t][e] > 0
                             /\ W[t][e] = tree[t][e] - 1
                             /\ \A p \in Slots \ {e} : W[t][p] = tree[t][p]
        <3>1. ~ \A p \in Slots : tree[t][p] = 0
            BY <2>3
        <3> QED
            BY <1>1, <3>1, WithoutFacts
    <2> HIDE DEF W
    <2>5. W[t][placements[t]] + 1 >= tree[t][placements[t]]
        <3>1. tree[t][placements[t]] \in Nat
            BY <1>1, <2>3
        <3>2. CASE e = placements[t]
            BY <2>4, <3>1, <3>2
        <3>3. CASE e # placements[t]
            BY <2>3, <2>4, <3>1, <3>3
        <3> QED
            BY <3>2, <3>3
    <2>6. ASSUME ~ replaced, NEW p \in Slots
          PROVE  W[t][p] = 0
        <3>1. \A r \in Slots : tree[t][r] = IF placements[t] = r THEN 1 ELSE 0
            BY <2>6 DEF ScheduleInv, TreeIsExactUnlessReplaced
        <3>2. e = placements[t]
            BY <2>4, <3>1
        <3> QED
            BY <2>4, <3>1, <3>2
    <2> QED
        BY <2>1, <2>2, <2>5, <2>6
<1> QED
    BY <1>2, <1>3

LEMMA MoveTaskKeeps ==
    ASSUME ScheduleInv, NEW t \in Tasks, NEW p \in Slots, MoveTask(t, p)
    PROVE  ScheduleInv'
<1> DEFINE L == LiftedTree(t)
<1>1. /\ placements \in [Tasks -> Slots \cup {Unplaced}] /\ tree \in [Tasks -> [Slots -> Nat]]
      /\ replaced \in BOOLEAN /\ replaced' = replaced
    BY DEF ScheduleInv, ScheduleTyped, MoveTask
<1>2. /\ L \in [Tasks -> [Slots -> Nat]]
      /\ \A u \in Tasks \ {t} : L[u] = tree[u]
      /\ placements[t] # Unplaced => L[t][placements[t]] + 1 >= tree[t][placements[t]]
      /\ ~ replaced => \A q \in Slots : L[t][q] = 0
    BY LiftedFacts
<1>3. ASSUME NEW q \in Slots, placements'[t] = q, tree' = WithEntry(L, t, q),
             placements' \in [Tasks -> Slots \cup {Unplaced}],
             \A u \in Tasks \ {t} : placements'[u] = placements[u], NoOverlapPlaced'
      PROVE  ScheduleInv'
    <2> HIDE DEF L
    <2>1. /\ tree' \in [Tasks -> [Slots -> Nat]] /\ tree'[t][q] = L[t][q] + 1
          /\ \A r \in Slots \ {q} : tree'[t][r] = L[t][r]
          /\ \A u \in Tasks \ {t} : tree'[u] = tree[u]
        BY <1>2, <1>3, WithFacts
    <2>2. L[t][q] \in Nat
        BY <1>2
    <2>3. TreeCovers'
        BY <1>3, <2>1, <2>2 DEF ScheduleInv, TreeCovers
    <2>4. TreeIsExactUnlessReplaced'
        <3> SUFFICES ASSUME ~ replaced, NEW u \in Tasks, NEW r \in Slots
                     PROVE  tree'[u][r] = IF placements'[u] = r THEN 1 ELSE 0
            BY <1>1 DEF TreeIsExactUnlessReplaced
        <3>1. CASE u = t /\ r = q
            BY <1>2, <1>3, <2>1, <3>1
        <3>2. CASE u = t /\ r # q
            BY <1>2, <1>3, <2>1, <3>2
        <3>3. CASE u # t
            BY <1>3, <2>1, <3>3 DEF ScheduleInv, TreeIsExactUnlessReplaced
        <3> QED
            BY <3>1, <3>2, <3>3
    <2> QED
        BY <1>1, <1>3, <2>1, <2>3, <2>4 DEF ScheduleInv, ScheduleTyped
<1>4. CASE /\ CanPlace(Lifted(t), L, t, p)
           /\ placements' = [placements EXCEPT ![t] = p] /\ tree' = WithEntry(L, t, p)
    <2> HIDE DEF L
    <2>1. ASSUME NEW u \in Tasks \ {t}, placements[u] # Unplaced
          PROVE  ~ Overlaps(p, placements[u]) /\ ~ Overlaps(placements[u], p)
        <3>1. placements[u] \in Slots /\ L[u][placements[u]] > 0
            BY <1>1, <1>2, <2>1 DEF ScheduleInv, TreeCovers
        <3> QED
            BY <1>4, <3>1, CanPlaceFacts
    <2>2. NoOverlapPlaced'
        BY <1>4, <2>1, PlacedWithoutOverlap
    <2>3. /\ placements' \in [Tasks -> Slots \cup {Unplaced}] /\ placements'[t] = p
          /\ \A u \in Tasks \ {t} : placements'[u] = placements[u]
        BY <1>1, <1>4
    <2> QED
        BY <1>3, <1>4, <2>2, <2>3
<1>5. CASE placements' = placements /\ placements[t] # Unplaced
           /\ tree' = WithEntry(L, t, placements[t])
    <2> HIDE DEF L
    <2>1. placements[t] \in Slots /\ NoOverlapPlaced'
        BY <1>1, <1>5 DEF ScheduleInv, NoOverlapPlaced
    <2> QED
        BY <1>1, <1>3, <1>5, <2>1
<1>6. CASE placements' = placements /\ tree' = tree
    BY <1>1, <1>6 DEF ScheduleInv, ScheduleTyped, NoOverlapPlaced, TreeCovers,
                      TreeIsExactUnlessReplaced
<1> QED
    BY <1>4, <1>5, <1>6 DEF MoveTask

-----------------------------------------------------------------------------
(* The problem *)

BuildTyped ==
    /\ draft \in BlockSet \cup {NoBlock} /\ begun \in 0 .. MaxBlocks
    /\ blocks \in Seq(BlockSet) /\ taskAt \in [Tasks -> Locations \cup {Nowhere}]
    /\ refused \in BOOLEAN

Injective(tasks) == \A i, j \in DOMAIN tasks : tasks[i] = tasks[j] => i = j

(* A block in hand has each task once, and no cycle that went unnoticed;   *)
(* as long as there is one, nothing is placed.                             *)
DraftOK ==
    draft # NoBlock =>
       /\ Injective(draft.tasks) /\ (~ refused => ~ Cyclic(draft.deps))
       /\ \A t \in Tasks : placements[t] = Unplaced

(* Until a call is refused, the index knows tasks of the problem only. *)
KnowsOnly(t) ==
    LET at == taskAt[t] IN
    /\ at.block \in DOMAIN blocks /\ at.pos \in DOMAIN blocks[at.block].tasks
    /\ blocks[at.block].tasks[at.pos] = t
IndexOK == ~ refused => \A t \in Tasks : taskAt[t] # Nowhere => KnowsOnly(t)

(* The inductive invariant of the problem. *)
BuildInv == BuildTyped /\ DraftOK /\ LookupIsExact /\ IndexOK /\ CyclesAreInert

(* What a sequence holds. *)
LEMMA ItemFacts ==
    ASSUME NEW S, NEW s \in Seq(S), NEW i \in DOMAIN s
    PROVE  s[i] \in S /\ i \in Nat \ {0} /\ Len(s) \in Nat /\ i <= Len(s)
OBVIOUS

LEMMA BlockFacts ==
    ASSUME BuildInv, NEW i \in DOMAIN blocks
    PROVE  /\ blocks[i] \in BlockSet /\ blocks[i].tasks \in Seq(Tasks)
           /\ \A j \in DOMAIN blocks[i].tasks : blocks[i].tasks[j] \in Tasks
<1>1. blocks \in Seq(BlockSet)
    BY DEF BuildInv, BuildTyped
<1>2. blocks[i] \in BlockSet
    BY <1>1, ItemFacts
<1>3. blocks[i].tasks \in Seq(Tasks)
    BY <1>2 DEF BlockSet
<1> QED
    BY <1>2, <1>3, ItemFacts

(* A step that leaves the problem as it is, and places no task on a cycle. *)
LEMMA PlacingKeeps ==
    ASSUME BuildInv, draft = NoBlock, UNCHANGED problem,
           \A i \in DOMAIN blocks : \A j \in DOMAIN blocks[i].tasks :
              LET t == blocks[i].tasks[j] IN
              placements'[t] # Unplaced => t \notin Reach(blocks[i].deps, t)
    PROVE  BuildInv'
<1>1. /\ draft' = draft /\ begun' = begun /\ blocks' = blocks /\ taskAt' = taskAt
      /\ refused' = refused
    BY DEF problem
<1>2. BuildTyped' /\ LookupIsExact' /\ DraftOK' /\ IndexOK'
    BY <1>1 DEF BuildInv, BuildTyped, LookupIsExact, DraftOK, IndexOK, KnowsOnly
<1>3. CyclesAreInert'
    BY <1>1 DEF BuildInv, CyclesAreInert
<1> QED
    BY <1>2, <1>3 DEF BuildInv

(* A task that depends on itself cannot be placed first. *)
LEMMA CycleBlocksItself ==
    ASSUME BuildInv, NEW at, NEW bag, NEW t \in Tasks, NEW p,
           CanPlace(at, bag, t, p), at[t] = Unplaced,
           NEW i \in DOMAIN blocks, NEW j \in DOMAIN blocks[i].tasks, blocks[i].tasks[j] = t
    PROVE  t \notin Reach(blocks[i].deps, t)
<1>1. taskAt[t].block = i
    <2>1. taskAt[blocks[i].tasks[j]] = [block |-> i, pos |-> j]
        BY DEF BuildInv, LookupIsExact
    <2> QED
        BY <2>1
<1>2. t \notin AllPredecessors(t)
    BY DEF CanPlace
<1> QED
    BY <1>1, <1>2 DEF AllPredecessors

LEMMA PlaceStepsKeepProblem ==
    ASSUME BuildInv, ScheduleTyped, NEW t \in Tasks,
           UnplaceTask(t) \/ \E p \in Slots : PlaceTask(t, p) \/ MoveTask(t, p)
    PROVE  BuildInv'
<1>1. draft = NoBlock /\ UNCHANGED problem
    BY DEF UnplaceTask, PlaceTask, MoveTask
<1>2. placements \in [Tasks -> Slots \cup {Unplaced}]
    BY DEF ScheduleTyped
<1>3. \A u \in Tasks : placements'[u] # Unplaced /\ placements[u] = Unplaced =>
         \E at, bag, p : CanPlace(at, bag, u, p) /\ at[u] = Unplaced
    <2> SUFFICES ASSUME NEW u \in Tasks, placements'[u] # Unplaced, placements[u] = Unplaced
                 PROVE  \E at, bag, p : CanPlace(at, bag, u, p) /\ at[u] = Unplaced
        OBVIOUS
    <2>1. CASE UnplaceTask(t)
        BY <1>2, <2>1 DEF UnplaceTask
    <2>2. ASSUME NEW p \in Slots, PlaceTask(t, p)
          PROVE  \E at, bag, q : CanPlace(at, bag, u, q) /\ at[u] = Unplaced
        <3>1. placements' = [placements EXCEPT ![t] = p] /\ CanPlace(placements, tree, t, p)
            BY <2>2 DEF PlaceTask
        <3>2. u = t
            BY <1>2, <3>1
        <3> QED
            BY <3>1, <3>2
    <2>3. ASSUME NEW p \in Slots, MoveTask(t, p)
          PROVE  \E at, bag, q : CanPlace(at, bag, u, q) /\ at[u] = Unplaced
        <3>1. placements' = [placements EXCEPT ![t] = p]
              /\ CanPlace(Lifted(t), LiftedTree(t), t, p)
            BY <2>3 DEF MoveTask
        <3>2. u = t
            BY <1>2, <3>1
        <3>3. Lifted(t)[t] = Unplaced
            BY <1>2 DEF Lifted
        <3> QED
            BY <3>1, <3>2, <3>3
    <2> QED
        BY <2>1, <2>2, <2>3
<1>4. ASSUME NEW i \in DOMAIN blocks, NEW j \in DOMAIN blocks[i].tasks,
             placements'[blocks[i].tasks[j]] # Unplaced
      PROVE  blocks[i].tasks[j] \notin Reach(blocks[i].deps, blocks[i].tasks[j])
    <2> DEFINE u == blocks[i].tasks[j]
    <2>1. u \in Tasks
        BY BlockFacts
    <2>2. CASE placements[u] # Unplaced
        BY <2>2 DEF BuildInv, CyclesAreInert
    <2>3. CASE placements[u] = Unplaced
        <3>1. PICK at, bag, p : CanPlace(at, bag, u, p) /\ at[u] = Unplaced
            BY <1>3, <1>4, <2>1, <2>3
        <3> QED
            BY <2>1, <3>1, CycleBlocksItself
    <2> QED
        BY <2>2, <2>3
<1> QED
    BY <1>1, <1>4, PlacingKeeps

(* Nothing is reached along no edges. *)
LEMMA NoEdgesNoCycle == ~ Cyclic({})
<1>1. \A t \in Tasks : Reach({}, t) = {}
    <2> SUFFICES ASSUME NEW t \in Tasks, NEW u \in Reach({}, t) PROVE FALSE
        OBVIOUS
    <2>1. {} \in SUBSET Tasks
        OBVIOUS
    <2> QED
        BY <2>1 DEF Reach
<1> QED
    BY <1>1 DEF Cyclic

LEMMA DraftStepsKeep ==
    ASSUME BuildInv, ScheduleTyped,
           \/ \E id \in BlockIds : NewBlock(id)
           \/ \E t \in Tasks : PushTask(t)
           \/ \E from, to \in Tasks : AddDependency(from, to)
    PROVE  BuildInv'
<1>1. blocks' = blocks /\ taskAt' = taskAt /\ placements' = placements
    BY DEF NewBlock, PushTask, AddDependency, schedule
<1>2. ASSUME NEW id \in BlockIds, NewBlock(id)
      PROVE  BuildTyped' /\ DraftOK' /\ refused' = refused
    <2> DEFINE b == [id |-> id, tasks |-> <<>>, deps |-> {}]
    <2>1. /\ draft' = b /\ begun' = begun + 1 /\ begun < MaxBlocks /\ refused' = refused
          /\ placements = [t \in Tasks |-> Unplaced]
        BY <1>2 DEF NewBlock, Building
    <2>2. b \in BlockSet /\ Injective(b.tasks) /\ b.deps = {}
        BY DEF BlockSet, Injective
    <2> HIDE DEF b
    <2>3. DraftOK'
        BY <1>1, <2>1, <2>2, NoEdgesNoCycle DEF DraftOK
    <2> QED
        BY <1>1, <2>1, <2>2, <2>3, ProblemConstants DEF BuildInv, BuildTyped
<1>3. ASSUME NEW t \in Tasks, PushTask(t)
      PROVE  BuildTyped' /\ DraftOK' /\ refused' = refused
    <2> DEFINE b == [draft EXCEPT !.tasks = Append(@, t)]
    <2>1. /\ draft # NoBlock /\ t \notin TasksIn(draft) /\ draft' = b
          /\ begun' = begun /\ refused' = refused
        BY <1>3 DEF PushTask
    <2>2. draft \in BlockSet
        BY <2>1 DEF BuildInv, BuildTyped
    <2>3. draft.tasks \in Seq(Tasks) /\ b.deps = draft.deps
          /\ b.tasks = Append(draft.tasks, t) /\ b \in BlockSet
        <3>1. draft.tasks \in Seq(Tasks)
            BY <2>2 DEF BlockSet
        <3>2. Append(draft.tasks, t) \in Seq(Tasks)
            BY <3>1
        <3>3. b.deps = draft.deps /\ b.tasks = Append(draft.tasks, t)
            BY <2>2 DEF BlockSet
        <3> QED
            BY <2>2, <3>1, <3>2, <3>3 DEF BlockSet
    <2>4. Injective(b.tasks)
        <3>1. Injective(draft.tasks) /\ \A i \in DOMAIN draft.tasks : draft.tasks[i] # t
            BY <2>1 DEF BuildInv, DraftOK, TasksIn
        <3> HIDE DEF b
        <3> QED
            BY <2>3, <3>1 DEF Injective
    <2> HIDE DEF b
    <2>5. DraftOK'
        BY <1>1, <2>1, <2>3, <2>4 DEF BuildInv, DraftOK
    <2> QED
        BY <1>1, <2>1, <2>3, <2>5 DEF BuildInv, BuildTyped
<1>4. ASSUME NEW from \in Tasks, NEW to \in Tasks, AddDependency(from, to)
      PROVE  BuildTyped' /\ DraftOK' /\ (~ refused' => ~ refused)
    <2> DEFINE deps == draft.deps \cup {<<from, to>>}
               b == [draft EXCEPT !.deps = deps]
    <2>1. /\ draft # NoBlock /\ draft' = b /\ begun' = begun
          /\ refused' = (refused \/ Cyclic(deps))
        BY <1>4 DEF AddDependency
    <2>2. draft \in BlockSet /\ refused \in BOOLEAN
        BY <2>1 DEF BuildInv, BuildTyped
    <2>3. b \in BlockSet /\ b.tasks = draft.tasks /\ b.deps = deps
        BY <2>2 DEF BlockSet
    <2>4. refused' \in BOOLEAN
        BY <2>1, <2>2 DEF Cyclic
    <2> HIDE DEF b, deps
    <2>5. DraftOK'
        BY <1>1, <2>1, <2>3 DEF BuildInv, DraftOK
    <2> QED
        BY <1>1, <2>1, <2>3, <2>4, <2>5 DEF BuildInv, BuildTyped
<1>5. BuildTyped' /\ DraftOK' /\ (~ refused' => ~ refused)
    BY <1>2, <1>3, <1>4
<1>6. LookupIsExact' /\ IndexOK' /\ CyclesAreInert'
    BY <1>1, <1>5 DEF BuildInv, LookupIsExact, IndexOK, KnowsOnly, CyclesAreInert
<1> QED
    BY <1>5, <1>6 DEF BuildInv

(* The tasks of the block in hand get their places in the block to come,   *)
(* the other tasks keep theirs. *)
LEMMA IndexedFacts ==
    ASSUME BuildInv, draft # NoBlock, NEW n \in 0 .. Len(draft.tasks)
    PROVE  /\ Indexed(n) \in [Tasks -> Locations \cup {Nowhere}]
           /\ \A u \in Tasks : (\A k \in 1 .. n : draft.tasks[k] # u) => Indexed(n)[u] = taskAt[u]
           /\ \A k \in 1 .. n :
                Indexed(n)[draft.tasks[k]] = [block |-> Len(blocks) + 1, pos |-> k]
<1>1. /\ draft \in BlockSet /\ draft.tasks \in Seq(Tasks) /\ Injective(draft.tasks)
      /\ blocks \in Seq(BlockSet) /\ taskAt \in [Tasks -> Locations \cup {Nowhere}]
    BY DEF BuildInv, BuildTyped, BlockSet, DraftOK
<1>2. Len(blocks) + 1 \in Nat \ {0} /\ n \in Nat /\ n <= Len(draft.tasks)
      /\ 1 .. n \subseteq DOMAIN draft.tasks
    BY <1>1
<1>3. ASSUME NEW k \in 1 .. n
      PROVE  /\ draft.tasks[k] \in Tasks
             /\ (CHOOSE i \in 1 .. n : draft.tasks[i] = draft.tasks[k]) = k
    <2>1. draft.tasks[k] \in Tasks
        BY <1>1, <1>2, ItemFacts
    <2>2. \A i \in 1 .. n : draft.tasks[i] = draft.tasks[k] => i = k
        BY <1>1, <1>2 DEF Injective
    <2> QED
        BY <2>1, <2>2
<1>4. \A u \in Tasks : Indexed(n)[u] =
         IF \E i \in 1 .. n : draft.tasks[i] = u
           THEN [block |-> Len(blocks) + 1, pos |-> CHOOSE i \in 1 .. n : draft.tasks[i] = u]
           ELSE taskAt[u]
    BY DEF Indexed
<1>5. \A k \in 1 .. n :
         Indexed(n)[draft.tasks[k]] = [block |-> Len(blocks) + 1, pos |-> k]
    BY <1>3, <1>4
<1>6. \A u \in Tasks : (\A k \in 1 .. n : draft.tasks[k] # u) => Indexed(n)[u] = taskAt[u]
    BY <1>4
<1>7. ASSUME NEW u \in Tasks
      PROVE  Indexed(n)[u] \in Locations \cup {Nowhere}
    <2>1. CASE \E k \in 1 .. n : draft.tasks[k] = u
        <3>1. PICK k \in 1 .. n : draft.tasks[k] = u
            BY <2>1
        <3>2. Indexed(n)[u] = [block |-> Len(blocks) + 1, pos |-> k]
            BY <1>5, <3>1
        <3>3. k \in Nat \ {0}
            BY <1>2
        <3> QED
            BY <1>2, <3>2, <3>3 DEF Locations
    <2>2. CASE ~ \E k \in 1 .. n : draft.tasks[k] = u
        BY <1>1, <1>6, <2>2
    <2> QED
        BY <2>1, <2>2
<1>8. Indexed(n) \in [Tasks -> Locations \cup {Nowhere}]
    BY <1>7 DEF Indexed
<1> QED
    BY <1>5, <1>6, <1>8

(* The tasks of a block that is refused leave traces for unknown tasks     *)
(* only, those of a block that is taken are found where they are. *)
LEMMA PushBlockKeeps ==
    ASSUME BuildInv, PushBlock
    PROVE  BuildInv'
<1>1. /\ draft # NoBlock /\ draft' = NoBlock /\ begun' = begun /\ placements' = placements
      /\ draft \in BlockSet /\ draft.tasks \in Seq(Tasks) /\ Injective(draft.tasks)
      /\ blocks \in Seq(BlockSet) /\ taskAt \in [Tasks -> Locations \cup {Nowhere}]
      /\ \A t \in Tasks : placements[t] = Unplaced
    BY DEF BuildInv, BuildTyped, BlockSet, DraftOK, PushBlock, schedule
<1>2. DraftOK'
    BY <1>1 DEF DraftOK
<1>3. \A i \in DOMAIN blocks : \A j \in DOMAIN blocks[i].tasks :
         LET t == blocks[i].tasks[j] IN
         /\ t \in Tasks /\ taskAt[t] = [block |-> i, pos |-> j] /\ taskAt[t] # Nowhere
    <2> SUFFICES ASSUME NEW i \in DOMAIN blocks, NEW j \in DOMAIN blocks[i].tasks
                 PROVE  LET t == blocks[i].tasks[j] IN
                        t \in Tasks /\ taskAt[t] = [block |-> i, pos |-> j] /\ taskAt[t] # Nowhere
        OBVIOUS
    <2>1. taskAt[blocks[i].tasks[j]] = [block |-> i, pos |-> j]
        BY DEF BuildInv, LookupIsExact
    <2>2. blocks[i].tasks[j] \in Tasks /\ blocks[i].tasks \in Seq(Tasks)
        BY BlockFacts
    <2>3. i \in Nat \ {0} /\ j \in Nat \ {0}
        BY <1>1, <2>2, ItemFacts
    <2>4. [block |-> i, pos |-> j] \in Locations
        BY <2>3 DEF Locations
    <2> QED
        BY <2>1, <2>2, <2>4, NothingIsThere
<1>4. CASE refused' = TRUE /\ UNCHANGED <<blocks, taskAt>>
    BY <1>1, <1>2, <1>4 DEF BuildInv, BuildTyped, LookupIsExact, IndexOK, CyclesAreInert
<1>5. ASSUME NEW n \in DOMAIN draft.tasks, \A j \in 1 .. n - 1 : ~ KnownAt(j),
             refused' = TRUE, taskAt' = Indexed(n - 1), blocks' = blocks
      PROVE  BuildInv'
    <2>1. n - 1 \in 0 .. Len(draft.tasks)
        BY <1>1
    <2>2. /\ taskAt' \in [Tasks -> Locations \cup {Nowhere}]
          /\ \A u \in Tasks : (\A k \in 1 .. n - 1 : draft.tasks[k] # u) => taskAt'[u] = taskAt[u]
        BY <1>1, <1>5, <2>1, IndexedFacts
    <2>3. \A u \in Tasks : taskAt[u] # Nowhere => taskAt'[u] = taskAt[u]
        BY <1>5, <2>2 DEF KnownAt
    <2>4. LookupIsExact'
        BY <1>3, <1>5, <2>3 DEF LookupIsExact
    <2>5. BuildTyped' /\ IndexOK' /\ CyclesAreInert'
        BY <1>1, <1>5, <2>2 DEF BuildInv, BuildTyped, IndexOK, CyclesAreInert
    <2> QED
        BY <1>2, <2>4, <2>5 DEF BuildInv
<1>6. ASSUME \A i \in DOMAIN draft.tasks : ~ KnownAt(i), blocks' = Append(blocks, draft),
             taskAt' = Indexed(Len(draft.tasks)), refused' = refused
      PROVE  BuildInv'
    <2> DEFINE n == Len(draft.tasks)
               m == Len(blocks) + 1
    <2>1. n \in 0 .. Len(draft.tasks) /\ DOMAIN draft.tasks = 1 .. n /\ m \in Nat \ {0}
        BY <1>1
    <2>2. /\ taskAt' \in [Tasks -> Locations \cup {Nowhere}]
          /\ \A u \in Tasks : (\A k \in 1 .. n : draft.tasks[k] # u) => taskAt'[u] = taskAt[u]
          /\ \A k \in 1 .. n : taskAt'[draft.tasks[k]] = [block |-> m, pos |-> k]
        BY <1>1, <1>6, <2>1, IndexedFacts
    <2>3. \A u \in Tasks : taskAt[u] # Nowhere => taskAt'[u] = taskAt[u]
        BY <1>6, <2>1, <2>2 DEF KnownAt
    <2>4. /\ blocks' \in Seq(BlockSet) /\ DOMAIN blocks' = DOMAIN blocks \cup {m}
          /\ blocks'[m] = draft /\ \A i \in DOMAIN blocks : blocks'[i] = blocks[i] /\ i # m
        BY <1>1, <1>6
    <2> HIDE DEF n, m
    <2>5. LookupIsExact'
        <3> SUFFICES ASSUME NEW i \in DOMAIN blocks', NEW j \in DOMAIN blocks'[i].tasks
                     PROVE  taskAt'[blocks'[i].tasks[j]] = [block |-> i, pos |-> j]
            BY DEF LookupIsExact
        <3>1. CASE i = m
            BY <2>1, <2>2, <2>4, <3>1
        <3>2. CASE i # m
            <4>1. i \in DOMAIN blocks /\ blocks'[i] = blocks[i]
                BY <2>4, <3>2
            <4> QED
                BY <1>3, <2>3, <4>1
        <3> QED
            BY <3>1, <3>2
    <2>6. ASSUME ~ refused, NEW t \in Tasks, taskAt'[t] # Nowhere
          PROVE  KnowsOnly(t)'
        <3>1. CASE \E k \in 1 .. n : draft.tasks[k] = t
            <4>1. PICK k \in 1 .. n : draft.tasks[k] = t
                BY <3>1
            <4>2. taskAt'[t] = [block |-> m, pos |-> k]
                BY <2>2, <4>1
            <4> QED
                BY <2>1, <2>4, <4>1, <4>2 DEF KnowsOnly
        <3>2. CASE ~ \E k \in 1 .. n : draft.tasks[k] = t
            <4>1. taskAt'[t] = taskAt[t]
                BY <2>2, <3>2
            <4>2. KnowsOnly(t)
                BY <2>6, <4>1 DEF BuildInv, IndexOK
            <4> QED
                BY <2>4, <4>1, <4>2 DEF KnowsOnly
        <3> QED
            BY <3>1, <3>2
    <2>7. IndexOK'
        BY <1>6, <2>6 DEF IndexOK
    <2>8. CyclesAreInert'
        <3> SUFFICES ASSUME NEW i \in DOMAIN blocks'
                     PROVE  /\ ~ refused' => ~ Cyclic(blocks'[i].deps)
                            /\ \A j \in DOMAIN blocks'[i].tasks :
                                 LET t == blocks'[i].tasks[j] IN
                                 placements'[t] # Unplaced => t \notin Reach(blocks'[i].deps, t)
            BY DEF CyclesAreInert
        <3>1. CASE i = m
            <4>1. \A j \in DOMAIN draft.tasks : draft.tasks[j] \in Tasks
                BY <1>1, ItemFacts
            <4> QED
                BY <1>1, <1>6, <2>4, <3>1, <4>1 DEF BuildInv, DraftOK
        <3>2. CASE i # m
            <4>1. i \in DOMAIN blocks /\ blocks'[i] = blocks[i]
                BY <2>4, <3>2
            <4> QED
                BY <1>1, <1>6, <4>1 DEF BuildInv, CyclesAreInert
        <3> QED
            BY <3>1, <3>2
    <2>9. BuildTyped'
        BY <1>1, <1>6, <2>2, <2>4 DEF BuildInv, BuildTyped
    <2> QED
        BY <1>2, <2>5, <2>7, <2>8, <2>9 DEF BuildInv
<1> QED
    BY <1>4, <1>5, <1>6 DEF PushBlock

-----------------------------------------------------------------------------
(* The theorems *)

ProblemInv == ScheduleInv /\ BuildInv

LEMMA ProblemInitOK ==
    ASSUME ProblemInit
    PROVE  ProblemInv
<1>1. ScheduleInv
    BY NothingIsThere DEF ProblemInit, ScheduleInv, ScheduleTyped, NoOverlapPlaced, TreeCovers,
                          TreeIsExactUnlessReplaced
<1>2. BuildTyped
    <2>1. /\ draft = NoBlock /\ begun = 0 /\ blocks = <<>> /\ refused = FALSE
          /\ taskAt = [t \in Tasks |-> Nowhere]
        BY DEF ProblemInit
    <2>2. 0 \in 0 .. MaxBlocks /\ <<>> \in Seq(BlockSet)
        BY ProblemConstants
    <2> QED
        BY <2>1, <2>2 DEF BuildTyped
<1>3. DraftOK /\ LookupIsExact /\ IndexOK /\ CyclesAreInert
    BY DEF ProblemInit, DraftOK, LookupIsExact, IndexOK, CyclesAreInert
<1> QED
    BY <1>1, <1>2, <1>3 DEF ProblemInv, BuildInv

LEMMA ProblemStep ==
    ASSUME ProblemInv, [ProblemNext]_problemVars
    PROVE  ProblemInv'
<1>1. ScheduleInv /\ BuildInv /\ ScheduleTyped
    BY DEF ProblemInv, ScheduleInv
<1>2. ASSUME UNCHANGED schedule
      PROVE  ScheduleInv'
    BY <1>1, <1>2 DEF schedule, ScheduleInv, ScheduleTyped, NoOverlapPlaced, TreeCovers,
                      TreeIsExactUnlessReplaced
<1>3. CASE \/ \E id \in BlockIds : NewBlock(id)
           \/ \E t \in Tasks : PushTask(t)
           \/ \E from, to \in Tasks : AddDependency(from, to)
    <2>1. UNCHANGED schedule
        BY <1>3 DEF NewBlock, PushTask, AddDependency
    <2> QED
        BY <1>1, <1>2, <1>3, <2>1, DraftStepsKeep DEF ProblemInv
<1>4. CASE PushBlock
    <2>1. UNCHANGED schedule
        BY <1>4 DEF PushBlock
    <2> QED
        BY <1>1, <1>2, <1>4, <2>1, PushBlockKeeps DEF ProblemInv
<1>5. CASE \/ \E t \in Tasks, p \in Slots : PlaceTask(t, p)
           \/ \E t \in Tasks : UnplaceTask(t)
           \/ \E t \in Tasks, p \in Slots : MoveTask(t, p)
    <2>1. ScheduleInv'
        BY <1>1, <1>5, PlaceTaskKeeps, UnplaceTaskKeeps, MoveTaskKeeps
    <2>2. BuildInv'
        BY <1>1, <1>5, PlaceStepsKeepProblem
    <2> QED
        BY <2>1, <2>2 DEF ProblemInv
<1>6. CASE UNCHANGED problemVars
    <2>1. /\ UNCHANGED schedule /\ draft' = draft /\ begun' = begun /\ blocks' = blocks
          /\ taskAt' = taskAt /\ refused' = refused /\ placements' = placements
        BY <1>6 DEF problemVars, problem, schedule
    <2>2. BuildInv'
        BY <1>1, <2>1 DEF BuildInv, BuildTyped, DraftOK, LookupIsExact, IndexOK, KnowsOnly,
                          CyclesAreInert
    <2> QED
        BY <1>2, <2>1, <2>2 DEF ProblemInv
<1> QED
    BY <1>3, <1>4, <1>5, <1>6 DEF ProblemNext

LEMMA ProblemInvHolds == ProblemSpec => []ProblemInv
<1>1. ProblemInit => ProblemInv
    BY ProblemInitOK
<1>2. ProblemInv /\ [ProblemNext]_problemVars => ProblemInv'
    BY ProblemStep
<1> QED
    BY <1>1, <1>2, PTL DEF ProblemSpec

(* Blocks, the index, placements and entries are what their readers        *)
(* expect: no entry is counted below zero. *)
THEOREM ProblemTypeCorrect == ProblemSpec => []ProblemTypeOK
<1>1. ProblemInv => ProblemTypeOK
    BY DEF ProblemInv, ScheduleInv, ScheduleTyped, BuildInv, BuildTyped, ProblemTypeOK
<1> QED
    BY <1>1, ProblemInvHolds, PTL

(* Whatever is placed, moved, refused and removed, no two tasks overlap,   *)
(* although what is compared are the entries of the tree. *)
THEOREM PlacementsNeverOverlap == ProblemSpec => []NoOverlapPlaced
<1>1. ProblemInv => NoOverlapPlaced
    BY DEF ProblemInv, ScheduleInv
<1> QED
    BY <1>1, ProblemInvHolds, PTL

(* Every placement is in the tree; and as long as no placed task is placed *)
(* again, nothing else is. *)
THEOREM TreeHoldsPlacements == ProblemSpec => [](TreeCovers /\ TreeIsExactUnlessReplaced)
<1>1. ProblemInv => TreeCovers /\ TreeIsExactUnlessReplaced
    BY DEF ProblemInv, ScheduleInv
<1> QED
    BY <1>1, ProblemInvHolds, PTL

(* The index leads to every task of the problem, also after refusals that  *)
(* left traces in it; without one it leads nowhere else. *)
THEOREM IndexLeadsToTasks == ProblemSpec => [](LookupIsExact /\ FindsItselfUnlessRefused)
<1>1. BuildInv => FindsItselfUnlessRefused
    BY DEF BuildInv, IndexOK, KnowsOnly, FindsItselfUnlessRefused, Finds, Found
<1>2. ProblemInv => LookupIsExact /\ FindsItselfUnlessRefused
    BY <1>1 DEF ProblemInv, BuildInv
<1> QED
    BY <1>2, ProblemInvHolds, PTL

(* A cycle gets into a block only past an error, and even then none of its *)
(* tasks is ever placed. *)
THEOREM CyclesPlaceNothing == ProblemSpec => []CyclesAreInert
<1>1. ProblemInv => CyclesAreInert
    BY DEF ProblemInv, BuildInv
<1> QED
    BY <1>1, ProblemInvHolds, PTL

(* The schedule, its tree and the index agree, and no schedule is illegal, *)
(* whatever was refused, moved or undone (problem.rs:43-235).              *)
THEOREM ProblemStaysSound == ProblemSpec => []ProblemIsSound
<1>1. /\ NoOverlapPlaced
      /\ TreeCovers /\ TreeIsExactUnlessReplaced
      /\ LookupIsExact /\ FindsItselfUnlessRefused
      /\ CyclesAreInert
      => ProblemIsSound
    BY DEF ProblemIsSound
<1> QED
    BY <1>1, PlacementsNeverOverlap, TreeHoldsPlacements, IndexLeadsToTasks, CyclesPlaceNothing, PTL

(* A task gets a placement only after its predecessors have ended. *)
THEOREM PredecessorsComeFirst == ProblemSpec => PlacedAfterPredecessors
<1> DEFINE After ==
        \A t \in Tasks : (placements'[t] # placements[t] /\ placements'[t] # Unplaced) =>
           \A u \in AllPredecessors(t) :
              placements[u] # Unplaced /\ placements[u].end <= placements'[t].start
<1>1. ASSUME ProblemInv, [ProblemNext]_problemVars
      PROVE  [After]_problemVars
    <2>1. placements \in [Tasks -> Slots \cup {Unplaced}]
        BY <1>1 DEF ProblemInv, ScheduleInv, ScheduleTyped
    <2>2. CASE placements' = placements
        BY <2>2
    <2>3. ASSUME NEW t \in Tasks, NEW p \in Slots, PlaceTask(t, p)
          PROVE  After
        <3>1. placements' = [placements EXCEPT ![t] = p] /\ CanPlace(placements, tree, t, p)
            BY <2>3 DEF PlaceTask
        <3>2. /\ placements'[t] = p /\ \A u \in Tasks \ {t} : placements'[u] = placements[u]
              /\ \A u \in AllPredecessors(t) : placements[u] # Unplaced /\ placements[u].end <= p.start
            BY <2>1, <3>1 DEF CanPlace
        <3> QED
            BY <3>2
    <2>4. ASSUME NEW t \in Tasks
          PROVE  UnplaceTask(t) => After
        <3>1. SUFFICES ASSUME UnplaceTask(t) PROVE After
            OBVIOUS
        <3>2. placements' = [placements EXCEPT ![t] = Unplaced]
            BY <3>1 DEF UnplaceTask
        <3> QED
            BY <2>1, <3>2
    <2>5. ASSUME NEW t \in Tasks, NEW p \in Slots, MoveTask(t, p), placements' # placements
          PROVE  After
        <3>1. placements' = [placements EXCEPT ![t] = p]
              /\ CanPlace(Lifted(t), LiftedTree(t), t, p)
            BY <2>5 DEF MoveTask
        <3>2. \A u \in AllPredecessors(t) : Lifted(t)[u] # Unplaced /\ Lifted(t)[u].end <= p.start
            BY <3>1 DEF CanPlace
        <3>3. \A u \in Tasks : Lifted(t)[u] # Unplaced => Lifted(t)[u] = placements[u]
            BY <2>1 DEF Lifted
        <3>4. \A u \in AllPredecessors(t) : placements[u] # Unplaced /\ placements[u].end <= p.start
            BY <3>2, <3>3 DEF AllPredecessors
        <3>5. placements'[t] = p /\ \A u \in Tasks \ {t} : placements'[u] = placements[u]
            BY <2>1, <3>1
        <3> QED
            BY <3>4, <3>5
    <2> HIDE DEF After
    <2>6. CASE placements' # placements
        <3>1. \/ \E t \in Tasks, p \in Slots : PlaceTask(t, p) \/ MoveTask(t, p)
              \/ \E t \in Tasks : UnplaceTask(t)
            BY <1>1, <2>6 DEF ProblemNext, NewBlock, PushTask, AddDependency, PushBlock, schedule,
                              problemVars
        <3> QED
            BY <2>3, <2>4, <2>5, <2>6, <3>1
    <2> QED
        BY <2>2, <2>6 DEF After
<1> QED
    BY <1>1, ProblemInvHolds, PTL DEF ProblemSpec, PlacedAfterPredecessors

-----------------------------------------------------------------------------
(* The sorted vector of the interval tree *)

EntryOf(t, p) == [start |-> p.start, end |-> p.end, task |-> t]
TreeEntries == {EntryOf(t, p) : t \in Tasks, p \in Slots}

(* An entry takes what its task takes.                                     *)
Fits(e) == e.end - e.start = Lasts[e.task]

Sorted(s) == \A i, j \in DOMAIN s : i < j => s[i].start <= s[j].start

(* How often x occurs in s.                                                *)
Count(s, x) == Cardinality({i \in DOMAIN s : s[i] = x})

(* The vector is sorted and holds the bag.                                 *)
TreeInv ==
    /\ entries \in Seq(TreeEntries)
    /\ \A i \in DOMAIN entries : Fits(entries[i])
    /\ Sorted(entries)
    /\ held \in [Tasks -> [Slots -> Nat]]
    /\ \A t \in Tasks, p \in Slots : held[t][p] = Count(entries, EntryOf(t, p))

LEMMA EntryFacts ==
    ASSUME NEW e \in TreeEntries
    PROVE  /\ e.start \in Nat /\ e.end \in Nat /\ e.start < e.end /\ e.task \in Tasks
           /\ [start |-> e.start, end |-> e.end] \in Slots
           /\ e = EntryOf(e.task, [start |-> e.start, end |-> e.end])
<1>1. PICK t \in Tasks, p \in Slots : e = EntryOf(t, p)
    BY DEF TreeEntries
<1>2. p = [start |-> p.start, end |-> p.end] /\ p.start < p.end
    BY DEF Slots, PeriodsOver
<1>3. e.start = p.start /\ e.end = p.end /\ e.task = t
    BY <1>1 DEF EntryOf
<1> QED
    BY <1>1, <1>2, <1>3, SlotFacts DEF EntryOf

(* r is s with e put in at position k.                                     *)
Grown(s, k, e, r) ==
    /\ k \in 1 .. Len(s) + 1 /\ Len(r) = Len(s) + 1 /\ r[k] = e
    /\ \A i \in 1 .. k - 1 : r[i] = s[i]
    /\ \A i \in k .. Len(s) : r[i + 1] = s[i]

LEMMA Spliced ==
    ASSUME NEW S, NEW a \in Seq(S), NEW b \in Seq(S), NEW e \in S,
           NEW m \in Nat, NEW n \in Nat, m = Len(a), n = Len(b), NEW r, r = a \o <<e>> \o b
    PROVE  /\ r \in Seq(S) /\ Len(r) = m + 1 + n /\ r[m + 1] = e
           /\ \A i \in 1 .. m : r[i] = a[i]
           /\ \A i \in 1 .. n : r[m + 1 + i] = b[i]
OBVIOUS

LEMMA Joined ==
    ASSUME NEW S, NEW a \in Seq(S), NEW b \in Seq(S),
           NEW m \in Nat, NEW n \in Nat, m = Len(a), n = Len(b), NEW r, r = a \o b
    PROVE  /\ r \in Seq(S) /\ Len(r) = m + n
           /\ \A i \in 1 .. m : r[i] = a[i]
           /\ \A i \in 1 .. n : r[m + i] = b[i]
OBVIOUS

LEMMA InsertAtGrows ==
    ASSUME NEW S, NEW s \in Seq(S), NEW k \in 1 .. Len(s) + 1, NEW e \in S
    PROVE  InsertAt(s, k, e) \in Seq(S) /\ Grown(s, k, e, InsertAt(s, k, e))
<1>1. PICK m \in Nat, n \in Nat : m = k - 1 /\ n = Len(s) - k + 1 /\ Len(s) = m + n /\ k = m + 1
    OBVIOUS
<1>2. PICK a : a = SubSeq(s, 1, k - 1)
    OBVIOUS
<1>3. PICK b : b = SubSeq(s, k, Len(s))
    OBVIOUS
<1>4. PICK r : r = a \o <<e>> \o b
    OBVIOUS
<1>5. /\ a \in Seq(S) /\ m = Len(a) /\ \A i \in 1 .. m : a[i] = s[i]
      /\ b \in Seq(S) /\ n = Len(b) /\ \A i \in 1 .. n : b[i] = s[m + i]
    BY <1>1, <1>2, <1>3, SMTT(30)
<1>6. /\ r \in Seq(S) /\ Len(r) = m + 1 + n /\ r[m + 1] = e
      /\ \A i \in 1 .. m : r[i] = a[i]
      /\ \A i \in 1 .. n : r[m + 1 + i] = b[i]
    <2>1. a \in Seq(S) /\ m = Len(a) /\ b \in Seq(S) /\ n = Len(b) /\ e \in S /\ m \in Nat /\ n \in Nat
        BY <1>5
    <2> QED
        BY ONLY <1>4, <2>1, Spliced
<1>8. \A i \in k .. Len(s) : r[i + 1] = s[i]
    <2> TAKE i \in k .. Len(s)
    <2>1. PICK j \in 1 .. n : i = m + j /\ i + 1 = m + 1 + j
        BY <1>1
    <2> QED
        BY <1>5, <1>6, <2>1
<1>9. InsertAt(s, k, e) = r
    BY <1>2, <1>3, <1>4 DEF InsertAt
<1> QED
    BY <1>1, <1>5, <1>6, <1>8, <1>9 DEF Grown

LEMMA RemoveAtShrinks ==
    ASSUME NEW S, NEW s \in Seq(S), NEW k \in 1 .. Len(s)
    PROVE  RemoveAt(s, k) \in Seq(S) /\ Grown(RemoveAt(s, k), k, s[k], s)
<1>1. PICK m \in Nat, n \in Nat : m = k - 1 /\ n = Len(s) - k /\ Len(s) = m + n + 1 /\ k = m + 1
    OBVIOUS
<1>2. PICK a : a = SubSeq(s, 1, k - 1)
    OBVIOUS
<1>3. PICK b : b = SubSeq(s, k + 1, Len(s))
    OBVIOUS
<1>4. PICK r : r = a \o b
    OBVIOUS
<1>5. /\ a \in Seq(S) /\ m = Len(a) /\ \A i \in 1 .. m : a[i] = s[i]
      /\ b \in Seq(S) /\ n = Len(b) /\ \A i \in 1 .. n : b[i] = s[m + 1 + i]
    <2>1. a \in Seq(S) /\ m = Len(a) /\ \A i \in 1 .. m : a[i] = s[i]
        <3>1. /\ s \in Seq(S) /\ k \in Int /\ 1 <= k /\ k <= Len(s) /\ Len(s) \in Nat
              /\ m \in Int /\ m = k - 1
            BY <1>1
        <3>2. a \in Seq(S)
            BY ONLY <1>2, <3>1
        <3>3. Len(a) = m
            BY ONLY <1>2, <3>1
        <3>4. \A i \in 1 .. m : a[i] = s[1 + i - 1]
            BY ONLY <1>2, <3>1
        <3> QED
            BY <3>1, <3>2, <3>3, <3>4
    <2>2. /\ b \in Seq(S) /\ Len(b) = Len(s) - k
          /\ \A i \in 1 .. Len(s) - k : b[i] = s[k + i]
        <3>1. s \in Seq(S) /\ k \in Int /\ 1 <= k /\ k <= Len(s) /\ Len(s) \in Nat
            OBVIOUS
        <3>2. b \in Seq(S)
            BY ONLY <1>3, <3>1
        <3>3. Len(b) = Len(s) - k
            BY ONLY <1>3, <3>1
        <3>4. \A i \in 1 .. Len(s) - k : b[i] = s[(k + 1) + i - 1]
            BY ONLY <1>3, <3>1
        <3> QED
            BY <3>1, <3>2, <3>3, <3>4
    <2> QED
        BY <1>1, <2>1, <2>2
<1>6. /\ r \in Seq(S) /\ Len(r) = m + n
      /\ \A i \in 1 .. m : r[i] = a[i]
      /\ \A i \in 1 .. n : r[m + i] = b[i]
    <2>1. a \in Seq(S) /\ m = Len(a) /\ b \in Seq(S) /\ n = Len(b) /\ m \in Nat /\ n \in Nat
        BY <1>5
    <2> QED
        BY ONLY <1>4, <2>1, Joined
<1>8. \A i \in k .. Len(r) : s[i + 1] = r[i]
    <2> TAKE i \in k .. Len(r)
    <2>1. PICK j \in 1 .. n : i = m + j /\ i + 1 = m + 1 + j
        BY <1>1, <1>6
    <2> QED
        BY <1>5, <1>6, <2>1
<1>9. RemoveAt(s, k) = r
    BY <1>2, <1>3, <1>4 DEF RemoveAt
<1> QED
    BY <1>1, <1>5, <1>6, <1>8, <1>9 DEF Grown

(* Where the elements of the longer vector come from.                      *)
LEMMA GrownOrigins ==
    ASSUME NEW S, NEW s \in Seq(S), NEW r \in Seq(S), NEW k, NEW e, Grown(s, k, e, r)
    PROVE  /\ \A i \in DOMAIN s : LET j == IF i < k THEN i ELSE i + 1 IN
                 j \in DOMAIN r /\ j # k /\ r[j] = s[i]
           /\ \A j \in DOMAIN r : j # k => LET i == IF j < k THEN j ELSE j - 1 IN
                 i \in DOMAIN s /\ s[i] = r[j] /\ j = IF i < k THEN i ELSE i + 1
           /\ k \in DOMAIN r /\ k \in Nat
<1>1. /\ k \in 1 .. Len(s) + 1 /\ Len(r) = Len(s) + 1 /\ r[k] = e
      /\ \A i \in 1 .. k - 1 : r[i] = s[i]
      /\ \A i \in k .. Len(s) : r[i + 1] = s[i]
      /\ Len(s) \in Nat /\ DOMAIN s = 1 .. Len(s) /\ DOMAIN r = 1 .. Len(s) + 1
    BY DEF Grown
<1>2. ASSUME NEW i \in DOMAIN s
      PROVE  LET j == IF i < k THEN i ELSE i + 1 IN j \in DOMAIN r /\ j # k /\ r[j] = s[i]
    BY <1>1
<1>3. ASSUME NEW j \in DOMAIN r, j # k
      PROVE  LET i == IF j < k THEN j ELSE j - 1 IN
                i \in DOMAIN s /\ s[i] = r[j] /\ j = IF i < k THEN i ELSE i + 1
    <2>1. CASE j < k
        BY <1>1, <2>1
    <2>2. CASE ~ (j < k)
        <3>1. j - 1 \in k .. Len(s) /\ (j - 1) + 1 = j
            BY <1>1, <1>3, <2>2
        <3>2. s[j - 1] = r[j] /\ ~ (j - 1 < k)
            BY <1>1, <3>1
        <3> QED
            BY <1>1, <2>2, <3>1, <3>2
    <2> QED
        BY <2>1, <2>2
<1> QED
    BY <1>1, <1>2, <1>3

LEMMA GrownCounts ==
    ASSUME NEW S, NEW s \in Seq(S), NEW r \in Seq(S), NEW k, NEW e, Grown(s, k, e, r), NEW x
    PROVE  /\ Count(s, x) \in Nat
           /\ Count(r, x) = Count(s, x) + IF e = x THEN 1 ELSE 0
<1> DEFINE I == {i \in DOMAIN s : s[i] = x}
<1> DEFINE J == {j \in DOMAIN r : r[j] = x}
<1> DEFINE f == [i \in I |-> IF i < k THEN i ELSE i + 1]
<1>1. IsFiniteSet(I) /\ IsFiniteSet(J)
    <2>1. DOMAIN s = 1 .. Len(s) /\ DOMAIN r = 1 .. Len(r) /\ Len(s) \in Nat /\ Len(r) \in Nat
        OBVIOUS
    <2>2. IsFiniteSet(DOMAIN s) /\ IsFiniteSet(DOMAIN r)
        BY <2>1, FS_Interval
    <2> QED
        BY <2>2, FS_Subset
<1>2. I \subseteq Nat /\ k \in Nat
    BY GrownOrigins
<1>3. f \in [I -> J \ {k}]
    BY GrownOrigins
<1>4. \A a, b \in I : f[a] = f[b] => a = b
    BY <1>2
<1>5. \A j \in J \ {k} : \E i \in I : f[i] = j
    <2> TAKE j \in J \ {k}
    <2> DEFINE i == IF j < k THEN j ELSE j - 1
    <2>1. i \in DOMAIN s /\ s[i] = r[j] /\ j = IF i < k THEN i ELSE i + 1
        BY GrownOrigins
    <2> HIDE DEF i
    <2>2. i \in I /\ f[i] = j
        BY <2>1
    <2> QED
        BY <2>2
<1>6. k \in J <=> e = x
    BY GrownOrigins DEF Grown
<1>7. Cardinality(I) = Cardinality(J \ {k})
    <2> HIDE DEF I, J, f
    <2>1. f \in Bijection(I, J \ {k})
        BY <1>3, <1>4, <1>5, Fun_IsInj, Fun_IsSurj DEF Bijection
    <2>2. ExistsBijection(I, J \ {k})
        BY <2>1 DEF ExistsBijection
    <2> QED
        BY <1>1, <2>2, FS_Bijection
<1>8. Cardinality(J \ {k}) = IF k \in J THEN Cardinality(J) - 1 ELSE Cardinality(J)
    BY <1>1, FS_RemoveElement
<1>9. Cardinality(I) \in Nat /\ Cardinality(J) \in Nat
    BY <1>1, FS_CardinalityType
<1>10. Count(s, x) = Cardinality(I) /\ Count(r, x) = Cardinality(J)
    BY DEF Count
<1> HIDE DEF I, J
<1> QED
    BY <1>6, <1>7, <1>8, <1>9, <1>10

LEMMA GrownSorts ==
    ASSUME NEW s \in Seq(TreeEntries), NEW r \in Seq(TreeEntries), NEW k, NEW e,
           Grown(s, k, e, r)
    PROVE  /\ Sorted(r) => Sorted(s)
           /\ /\ Sorted(s)
              /\ \A i \in DOMAIN s : i < k => s[i].start <= e.start
              /\ \A i \in DOMAIN s : i >= k => e.start <= s[i].start
              => Sorted(r)
<1>1. /\ k \in 1 .. Len(s) + 1 /\ Len(r) = Len(s) + 1 /\ r[k] = e
      /\ Len(s) \in Nat /\ DOMAIN s = 1 .. Len(s) /\ DOMAIN r = 1 .. Len(s) + 1
    BY DEF Grown
<1>2. ASSUME Sorted(r)
      PROVE  Sorted(s)
    <2> SUFFICES ASSUME NEW i \in DOMAIN s, NEW j \in DOMAIN s, i < j
                 PROVE  s[i].start <= s[j].start
        BY DEF Sorted
    <2> DEFINE a == IF i < k THEN i ELSE i + 1
    <2> DEFINE b == IF j < k THEN j ELSE j + 1
    <2>1. a \in DOMAIN r /\ r[a] = s[i] /\ b \in DOMAIN r /\ r[b] = s[j]
        BY GrownOrigins
    <2>2. a < b
        BY <1>1
    <2> HIDE DEF a, b
    <2> QED
        BY <1>2, <2>1, <2>2 DEF Sorted
<1>3. ASSUME Sorted(s),
             \A i \in DOMAIN s : i < k => s[i].start <= e.start,
             \A i \in DOMAIN s : i >= k => e.start <= s[i].start
      PROVE  Sorted(r)
    <2> SUFFICES ASSUME NEW i \in DOMAIN r, NEW j \in DOMAIN r, i < j
                 PROVE  r[i].start <= r[j].start
        BY DEF Sorted
    <2> DEFINE a == IF i < k THEN i ELSE i - 1
    <2> DEFINE b == IF j < k THEN j ELSE j - 1
    <2>1. i # k => a \in DOMAIN s /\ s[a] = r[i]
        BY GrownOrigins
    <2>2. j # k => b \in DOMAIN s /\ s[b] = r[j]
        BY GrownOrigins
    <2>3. /\ i # k /\ j # k => a < b
          /\ i = k => b >= k
          /\ j = k => a < k
        BY <1>1
    <2> HIDE DEF a, b
    <2>4. CASE i # k /\ j # k
        BY <1>3, <2>1, <2>2, <2>3, <2>4 DEF Sorted
    <2>5. CASE i = k
        <3>1. j # k
            BY <1>1, <2>5
        <3> QED
            BY <1>1, <1>3, <2>2, <2>3, <2>5, <3>1
    <2>6. CASE j = k
        <3>1. i # k
            BY <1>1, <2>6
        <3> QED
            BY <1>1, <1>3, <2>1, <2>3, <2>6, <3>1
    <2> QED
        BY <2>4, <2>5, <2>6
<1> QED
    BY <1>2, <1>3

(* A set of positions that holds all positions before each of its own is   *)
(* an interval.                                                            *)
LEMMA PrefixIsInterval ==
    ASSUME NEW n \in Nat, NEW S \in SUBSET (1 .. n),
           \A i \in S : \A j \in 1 .. n : j < i => j \in S
    PROVE  Cardinality(S) \in 0 .. n /\ S = 1 .. Cardinality(S)
<1> DEFINE out == {i \in 1 .. n + 1 : i \notin S}
<1>1. n + 1 \in out /\ out \in SUBSET Nat
    OBVIOUS
<1>2. PICK m \in out : \A i \in out : m <= i
    BY <1>1, LeastNumber
<1>3. m \in 1 .. n + 1 /\ m \notin S
    OBVIOUS
<1>4. S = 1 .. m - 1
    <2>1. ASSUME NEW i \in S
          PROVE  i \in 1 .. m - 1
        <3>1. i # m /\ ~ (m < i)
            BY <1>3, <2>1
        <3> QED
            BY <1>3, <3>1
    <2>2. ASSUME NEW i \in 1 .. m - 1
          PROVE  i \in S
        <3>1. i \in 1 .. n + 1 /\ ~ (m <= i)
            BY <1>3, <2>2
        <3> QED
            BY <1>2, <3>1
    <2> QED
        BY <2>1, <2>2
<1> HIDE DEF out
<1>5. m - 1 \in 0 .. n
    BY <1>3
<1>6. Cardinality(1 .. m - 1) = m - 1
    BY <1>5, FS_Interval
<1> QED
    BY <1>4, <1>5, <1>6

(* The partition point divides the vector.                                 *)
LEMMA PartitionFacts ==
    ASSUME entries \in Seq(TreeEntries), Sorted(entries), NEW bound \in Int
    PROVE  /\ PartitionPoint(bound) \in 0 .. Len(entries)
           /\ \A i \in DOMAIN entries : i <= PartitionPoint(bound) <=> entries[i].start < bound
<1> DEFINE n == Len(entries)
<1> DEFINE S == {i \in DOMAIN entries : entries[i].start < bound}
<1>1. n \in Nat /\ DOMAIN entries = 1 .. n
    OBVIOUS
<1>2. \A i \in DOMAIN entries : entries[i].start \in Nat
    <2>1. \A i \in DOMAIN entries : entries[i] \in TreeEntries
        OBVIOUS
    <2> QED
        BY <2>1, EntryFacts
<1>3. S \in SUBSET (1 .. n) /\ \A i \in S : \A j \in 1 .. n : j < i => j \in S
    BY <1>1, <1>2 DEF Sorted
<1>4. PartitionPoint(bound) = Cardinality(S)
    BY DEF PartitionPoint
<1>5. Cardinality(S) \in 0 .. n /\ S = 1 .. Cardinality(S)
    <2> HIDE DEF S, n
    <2> QED
        BY <1>1, <1>3, PrefixIsInterval
<1>6. \A i \in DOMAIN entries : i \in S <=> entries[i].start < bound
    OBVIOUS
<1> HIDE DEF S
<1>7. \A i \in DOMAIN entries : i \in S <=> i <= Cardinality(S)
    BY <1>1, <1>5
<1> QED
    BY <1>4, <1>5, <1>6, <1>7

(* A finite set of natural numbers has a greatest one.                     *)
LEMMA GreatestIs ==
    ASSUME NEW S \in SUBSET Nat, S # {}, IsFiniteSet(S)
    PROVE  Max(S) \in S /\ \A x \in S : Max(S) >= x
<1> DEFINE above(x) == {y \in S : y > x}
<1> DEFINE sizes == {n \in Nat : \E x \in S : Cardinality(above(x)) = n}
<1>1. ASSUME NEW x \in S
      PROVE  IsFiniteSet(above(x)) /\ Cardinality(above(x)) \in Nat
    BY FS_Subset, FS_CardinalityType
<1>2. sizes \in SUBSET Nat /\ sizes # {}
    BY <1>1
<1>3. PICK m \in sizes : \A n \in sizes : m <= n
    <2> HIDE DEF sizes
    <2> QED
        BY <1>2, LeastNumber
<1>4. PICK x \in S : Cardinality(above(x)) = m
    BY <1>3
<1>5. ASSUME NEW y \in S, y > x
      PROVE  FALSE
    <2>1. above(y) \subseteq above(x) /\ y \in above(x) /\ y \notin above(y)
        <3>1. x \in Nat /\ y \in Nat /\ \A z \in S : z \in Nat
            OBVIOUS
        <3>2. \A z \in S : z > y => z > x
            BY <1>5, <3>1
        <3>3. ~ (y > y)
            BY <3>1
        <3> QED
            BY <1>5, <3>2, <3>3
    <2> HIDE DEF above
    <2>2. /\ IsFiniteSet(above(x)) /\ above(y) # above(x)
          /\ Cardinality(above(y)) \in Nat /\ Cardinality(above(x)) \in Nat
        BY <1>1, <2>1
    <2>3. Cardinality(above(y)) <= Cardinality(above(x)) /\ Cardinality(above(y)) # Cardinality(above(x))
        BY <2>1, <2>2, FS_Subset
    <2>4. Cardinality(above(y)) \in sizes /\ ~ (m <= Cardinality(above(y)))
        BY <1>4, <2>2, <2>3
    <2> QED
        BY <1>3, <2>4
<1>6. x \in S /\ \A y \in S : x >= y
    BY <1>5
<1> QED
    BY <1>6 DEF Max

-----------------------------------------------------------------------------
(* The steps of the tree *)

LEMMA TreeInitOK == TreeInit => TreeInv
<1> SUFFICES ASSUME TreeInit
             PROVE  TreeInv
    OBVIOUS
<1>1. entries = <<>> /\ held = NoEntries
    BY DEF TreeInit
<1>2. \A x : Count(entries, x) = 0
    <2> TAKE x
    <2>1. {i \in DOMAIN entries : entries[i] = x} = {}
        BY <1>1
    <2> QED
        BY <2>1, FS_EmptySet DEF Count
<1>3. entries \in Seq(TreeEntries) /\ DOMAIN entries = {}
    BY <1>1
<1>4. held \in [Tasks -> [Slots -> Nat]] /\ \A t \in Tasks, p \in Slots : held[t][p] = 0
    BY <1>1 DEF NoEntries
<1> QED
    BY <1>2, <1>3, <1>4 DEF TreeInv, Sorted

LEMMA SlotsAreRecords ==
    ASSUME NEW p \in Slots, NEW q \in Slots, NEW t, NEW u, EntryOf(t, p) = EntryOf(u, q)
    PROVE  t = u /\ p = q
<1>1. p = [start |-> p.start, end |-> p.end] /\ q = [start |-> q.start, end |-> q.end]
    BY DEF Slots, PeriodsOver
<1>2. /\ EntryOf(t, p).start = p.start /\ EntryOf(t, p).end = p.end /\ EntryOf(t, p).task = t
      /\ EntryOf(u, q).start = q.start /\ EntryOf(u, q).end = q.end /\ EntryOf(u, q).task = u
    BY DEF EntryOf
<1> QED
    BY <1>1, <1>2

(* Every entry fits its task, whatever was put in.                         *)
LEMMA GrownFits ==
    ASSUME NEW s \in Seq(TreeEntries), NEW r \in Seq(TreeEntries), NEW k, NEW e,
           Grown(s, k, e, r)
    PROVE  /\ (\A j \in DOMAIN r : Fits(r[j])) => \A i \in DOMAIN s : Fits(s[i])
           /\ Fits(e) /\ (\A i \in DOMAIN s : Fits(s[i])) => \A j \in DOMAIN r : Fits(r[j])
<1>1. ASSUME \A j \in DOMAIN r : Fits(r[j]), NEW i \in DOMAIN s
      PROVE  Fits(s[i])
    <2> DEFINE j == IF i < k THEN i ELSE i + 1
    <2>1. j \in DOMAIN r /\ r[j] = s[i]
        BY GrownOrigins
    <2> HIDE DEF j
    <2> QED
        BY <1>1, <2>1
<1>2. ASSUME Fits(e), \A i \in DOMAIN s : Fits(s[i]), NEW j \in DOMAIN r
      PROVE  Fits(r[j])
    <2> DEFINE i == IF j < k THEN j ELSE j - 1
    <2>1. j # k => i \in DOMAIN s /\ s[i] = r[j]
        BY GrownOrigins
    <2>2. j = k => r[j] = e
        BY DEF Grown
    <2> HIDE DEF i
    <2> QED
        BY <1>2, <2>1, <2>2
<1> QED
    BY <1>1, <1>2

LEMMA InsertEntryKeeps ==
    ASSUME TreeInv, NEW t \in Tasks, NEW p \in Slots, Span(p) = Lasts[t], InsertEntry(t, p)
    PROVE  TreeInv'
<1>1. PICK e : e = EntryOf(t, p)
    OBVIOUS
<1>2. PICK k : k = 1 + PartitionPoint(p.start)
    OBVIOUS
<1>3. entries' = InsertAt(entries, k, e) /\ held' = WithEntry(held, t, p)
    BY <1>1, <1>2 DEF InsertEntry, EntryOf
<1>4. /\ entries \in Seq(TreeEntries) /\ Sorted(entries)
      /\ \A i \in DOMAIN entries : Fits(entries[i])
      /\ held \in [Tasks -> [Slots -> Nat]]
      /\ \A u \in Tasks, q \in Slots : held[u][q] = Count(entries, EntryOf(u, q))
    BY DEF TreeInv
<1>5. e \in TreeEntries /\ Fits(e) /\ e.start = p.start /\ p.start \in Nat
    BY <1>1, SlotFacts DEF TreeEntries, EntryOf, Fits, Span
<1>6. /\ k \in 1 .. Len(entries) + 1
      /\ \A i \in DOMAIN entries : i < k <=> entries[i].start < e.start
    <2>1. /\ PartitionPoint(p.start) \in 0 .. Len(entries)
          /\ \A i \in DOMAIN entries :
                i <= PartitionPoint(p.start) <=> entries[i].start < p.start
        <3>1. PICK bound \in Int : bound = p.start
            BY <1>5
        <3>2. /\ PartitionPoint(bound) \in 0 .. Len(entries)
              /\ \A i \in DOMAIN entries : i <= PartitionPoint(bound) <=> entries[i].start < bound
            BY <1>4, PartitionFacts
        <3> QED
            BY <3>1, <3>2
    <2>2. Len(entries) \in Nat /\ DOMAIN entries = 1 .. Len(entries)
        BY <1>4
    <2> QED
        BY <1>2, <1>5, <2>1, <2>2
<1>7. entries' \in Seq(TreeEntries) /\ Grown(entries, k, e, entries')
    BY <1>3, <1>4, <1>5, <1>6, InsertAtGrows
<1>8. Sorted(entries')
    <2>1. \A i \in DOMAIN entries : entries[i].start \in Nat
        <3>1. \A i \in DOMAIN entries : entries[i] \in TreeEntries
            BY <1>4
        <3> QED
            BY <3>1, EntryFacts
    <2>2. \A i \in DOMAIN entries : i < k => entries[i].start <= e.start
        BY <1>5, <1>6, <2>1
    <2>3. \A i \in DOMAIN entries : i >= k => e.start <= entries[i].start
        BY <1>4, <1>5, <1>6, <2>1
    <2> QED
        BY <1>4, <1>7, <2>2, <2>3, GrownSorts, ZenonT(30)
<1>9. \A i \in DOMAIN entries' : Fits(entries'[i])
    BY <1>4, <1>5, <1>7, GrownFits
<1>10. /\ held' \in [Tasks -> [Slots -> Nat]]
       /\ held'[t][p] = held[t][p] + 1
       /\ \A q \in Slots \ {p} : held'[t][q] = held[t][q]
       /\ \A u \in Tasks \ {t} : held'[u] = held[u]
    BY <1>3, <1>4, WithFacts
<1>11. ASSUME NEW u \in Tasks, NEW q \in Slots
       PROVE  held'[u][q] = Count(entries', EntryOf(u, q))
    <2>1. Count(entries', EntryOf(u, q))
            = Count(entries, EntryOf(u, q)) + IF e = EntryOf(u, q) THEN 1 ELSE 0
        BY <1>4, <1>7, GrownCounts
    <2>2. e = EntryOf(u, q) <=> u = t /\ q = p
        BY <1>1, SlotsAreRecords
    <2>3. held[u][q] = Count(entries, EntryOf(u, q)) /\ held[u][q] \in Nat
        BY <1>4
    <2>4. CASE u = t /\ q = p
        BY <1>10, <2>1, <2>2, <2>3, <2>4
    <2>5. CASE ~ (u = t /\ q = p)
        BY <1>10, <2>1, <2>2, <2>3, <2>5
    <2> QED
        BY <2>4, <2>5
<1> QED
    BY <1>7, <1>8, <1>9, <1>10, <1>11 DEF TreeInv

(* A task's entries in the vector are those that the bag counts.           *)
LEMMA HeldIsThere ==
    ASSUME TreeInv, NEW t \in Tasks, NEW p \in Slots
    PROVE  held[t][p] > 0 <=> \E i \in DOMAIN entries : entries[i] = EntryOf(t, p)
<1> DEFINE I == {i \in DOMAIN entries : entries[i] = EntryOf(t, p)}
<1>1. held[t][p] = Cardinality(I)
    BY DEF TreeInv, Count
<1>2. IsFiniteSet(I)
    <2>1. DOMAIN entries = 1 .. Len(entries) /\ Len(entries) \in Nat
        BY DEF TreeInv
    <2>2. IsFiniteSet(DOMAIN entries)
        BY <2>1, FS_Interval
    <2> QED
        BY <2>2, FS_Subset
<1>3. Cardinality(I) \in Nat /\ (Cardinality(I) = 0 <=> I = {})
    BY <1>2, FS_CardinalityType, FS_EmptySet
<1>4. I # {} <=> \E i \in DOMAIN entries : entries[i] = EntryOf(t, p)
    OBVIOUS
<1> HIDE DEF I
<1> QED
    BY <1>1, <1>3, <1>4

(* The first entry of a task is its earliest.                              *)
LEMMA RemoveEntryKeeps ==
    ASSUME TreeInv, NEW t \in Tasks, RemoveEntry(t)
    PROVE  TreeInv'
<1>1. /\ entries \in Seq(TreeEntries) /\ Sorted(entries)
      /\ \A i \in DOMAIN entries : Fits(entries[i])
      /\ held \in [Tasks -> [Slots -> Nat]]
      /\ \A u \in Tasks, q \in Slots : held[u][q] = Count(entries, EntryOf(u, q))
      /\ DOMAIN entries = 1 .. Len(entries) /\ Len(entries) \in Nat
      /\ \A i \in DOMAIN entries : entries[i] \in TreeEntries
    BY DEF TreeInv
<1>2. held' = WithoutEntry(held, t)
    BY DEF RemoveEntry
<1>3. CASE \A i \in 1 .. Len(entries) : entries[i].task # t
    <2>1. entries' = entries
        BY <1>3 DEF RemoveEntry, RemoveFirstMatch
    <2>2. \A p \in Slots : held[t][p] = 0
        <3> SUFFICES ASSUME NEW p \in Slots
                     PROVE  held[t][p] = 0
            OBVIOUS
        <3>1. ~ \E i \in DOMAIN entries : entries[i] = EntryOf(t, p)
            BY <1>1, <1>3 DEF EntryOf
        <3>2. ~ (held[t][p] > 0) /\ held[t][p] \in Nat
            BY <1>1, <3>1, HeldIsThere
        <3> QED
            BY <3>2
    <2>3. held' = held
        BY <1>2, <2>2 DEF WithoutEntry
    <2> QED
        BY <2>1, <2>3 DEF TreeInv
<1>4. CASE \E i \in 1 .. Len(entries) : entries[i].task = t
    <2> DEFINE I == {i \in 1 .. Len(entries) : entries[i].task = t}
    <2>1. PICK k \in I : \A i \in I : k <= i
        <3>1. I \in SUBSET Nat /\ I # {}
            BY <1>4
        <3> QED
            BY <3>1, LeastNumber
    <2>2. Min(I) = k
        <3>1. \A i \in I : (\A j \in I : i <= j) => i = k
            BY <2>1
        <3> QED
            BY <2>1, <3>1 DEF Min
    <2>3. entries' = RemoveAt(entries, k)
        <3>1. SelectInSeq(entries, LAMBDA e : e.task = t) = Min(I)
            BY <1>4 DEF SelectInSeq
        <3>2. entries' = RemoveAt(entries, SelectInSeq(entries, LAMBDA e : e.task = t))
            BY <1>4 DEF RemoveEntry, RemoveFirstMatch
        <3> QED
            BY <2>2, <3>1, <3>2
    <2>4. k \in 1 .. Len(entries) /\ entries[k].task = t /\ k \in DOMAIN entries
        BY <1>1, <2>1
    <2>5. PICK e : e = entries[k]
        OBVIOUS
    <2>6. PICK p : p = [start |-> e.start, end |-> e.end]
        OBVIOUS
    <2>7. p \in Slots /\ e = EntryOf(t, p) /\ e \in TreeEntries /\ p.start = e.start
        BY <1>1, <2>4, <2>5, <2>6, EntryFacts
    <2>8. entries' \in Seq(TreeEntries) /\ Grown(entries', k, e, entries)
        BY <1>1, <2>3, <2>4, <2>5, RemoveAtShrinks
    <2>9. Sorted(entries') /\ \A i \in DOMAIN entries' : Fits(entries'[i])
        BY <1>1, <2>8, GrownSorts, GrownFits
    <2>10. held[t][p] > 0
        BY <2>4, <2>5, <2>7, HeldIsThere
    <2>11. ASSUME NEW q \in Slots, held[t][q] > 0, \A r \in Slots : held[t][r] > 0 => q.start <= r.start
           PROVE  q = p
        <3>1. PICK i \in DOMAIN entries : entries[i] = EntryOf(t, q)
            BY <2>11, HeldIsThere
        <3>2. entries[i].task = t /\ entries[i].start = q.start /\ entries[i].end = q.end
            BY <3>1 DEF EntryOf
        <3>3. k <= i /\ i \in Nat /\ k \in Nat
            BY <1>1, <2>1, <2>4, <3>2
        <3>4. p.start <= q.start /\ q.start <= p.start
            <4>1. CASE k = i
                BY <2>5, <2>7, <2>10, <2>11, <3>2, <4>1
            <4>2. CASE k < i
                BY <1>1, <2>4, <2>5, <2>7, <2>10, <2>11, <3>2, <4>2 DEF Sorted
            <4> QED
                BY <3>3, <4>1, <4>2
        <3>5. /\ p.start \in Nat /\ p.end \in Nat /\ q.start \in Nat /\ q.end \in Nat
              /\ p = [start |-> p.start, end |-> p.end] /\ q = [start |-> q.start, end |-> q.end]
            BY <2>7, SlotFacts DEF Slots, PeriodsOver
        <3>6. p.end - p.start = Lasts[t] /\ q.end - q.start = Lasts[t]
            <4>1. Fits(entries[k]) /\ Fits(entries[i])
                BY <1>1, <2>4
            <4>2. e.end = p.end /\ e.start = p.start /\ e.task = t
                BY <2>7 DEF EntryOf
            <4> QED
                BY <2>5, <3>2, <4>1, <4>2 DEF Fits
        <3>7. p.start = q.start /\ p.end = q.end
            <4>1. Lasts[t] \in Nat
                BY IntervalTreeConstants
            <4> QED
                BY <3>4, <3>5, <3>6, <4>1
        <3> QED
            BY <3>5, <3>7
    <2>12. /\ held' \in [Tasks -> [Slots -> Nat]]
           /\ \A u \in Tasks \ {t} : held'[u] = held[u]
           /\ held'[t][p] = held[t][p] - 1
           /\ \A q \in Slots \ {p} : held'[t][q] = held[t][q]
        <3>1. PICK h : h = WithoutEntry(held, t)
            OBVIOUS
        <3>2. /\ h \in [Tasks -> [Slots -> Nat]]
              /\ \A u \in Tasks \ {t} : h[u] = held[u]
              /\ \/ \A q \in Slots : held[t][q] = 0
                 \/ \E q \in Slots :
                      /\ held[t][q] > 0
                      /\ \A r \in Slots : held[t][r] > 0 => q.start <= r.start
                      /\ h[t][q] = held[t][q] - 1
                      /\ \A r \in Slots \ {q} : h[t][r] = held[t][r]
            <4>1. PICK bag \in [Tasks -> [Slots -> Nat]] : bag = held
                BY <1>1
            <4>2. /\ WithoutEntry(bag, t) \in [Tasks -> [Slots -> Nat]]
                  /\ \A u \in Tasks \ {t} : WithoutEntry(bag, t)[u] = bag[u]
                  /\ \/ /\ \A x \in Slots : bag[t][x] = 0
                        /\ WithoutEntry(bag, t) = bag
                     \/ \E x \in Slots :
                          /\ bag[t][x] > 0
                          /\ \A q \in Slots : bag[t][q] > 0 => x.start <= q.start
                          /\ WithoutEntry(bag, t)[t][x] = bag[t][x] - 1
                          /\ \A y \in Slots \ {x} : WithoutEntry(bag, t)[t][y] = bag[t][y]
                BY WithoutFacts
            <4>3. h = WithoutEntry(bag, t)
                BY <3>1, <4>1
            <4> QED
                BY <4>1, <4>2, <4>3
        <3>3. \E q \in Slots :
                 /\ held[t][q] > 0
                 /\ \A r \in Slots : held[t][r] > 0 => q.start <= r.start
                 /\ h[t][q] = held[t][q] - 1
                 /\ \A r \in Slots \ {q} : h[t][r] = held[t][r]
            BY <2>7, <2>10, <3>2
        <3>4. h[t][p] = held[t][p] - 1 /\ \A r \in Slots \ {p} : h[t][r] = held[t][r]
            BY <2>11, <3>3
        <3> QED
            BY <1>2, <3>1, <3>2, <3>4
    <2>13. ASSUME NEW u \in Tasks, NEW q \in Slots
           PROVE  held'[u][q] = Count(entries', EntryOf(u, q))
        <3>1. /\ Count(entries, EntryOf(u, q))
                    = Count(entries', EntryOf(u, q)) + IF e = EntryOf(u, q) THEN 1 ELSE 0
              /\ Count(entries', EntryOf(u, q)) \in Nat
            BY <1>1, <2>8, GrownCounts
        <3>2. e = EntryOf(u, q) <=> u = t /\ q = p
            BY <2>7, SlotsAreRecords
        <3>3. held[u][q] = Count(entries, EntryOf(u, q)) /\ held[u][q] \in Nat
            BY <1>1
        <3>4. CASE u = t /\ q = p
            BY <2>12, <3>1, <3>2, <3>3, <3>4
        <3>5. CASE ~ (u = t /\ q = p)
            BY <2>12, <3>1, <3>2, <3>3, <3>5
        <3> QED
            BY <3>4, <3>5
    <2> QED
        BY <2>8, <2>9, <2>12, <2>13 DEF TreeInv
<1> QED
    BY <1>3, <1>4

-----------------------------------------------------------------------------
(* The scan *)

(* The scan sees every entry that overlaps the query: it starts before the *)
(* query ends, and from no position up to its own do all entries end too   *)
(* early.                                                                  *)
LEMMA ScanReaches ==
    ASSUME TreeInv, NEW q \in Slots, NEW i \in DOMAIN entries, Overlaps(entries[i], q)
    PROVE  /\ i \in 1 .. PartitionPoint(q.end)
           /\ \A j \in 1 .. i : SuffixMaxEnd(j) > q.start
<1>1. /\ entries \in Seq(TreeEntries) /\ Sorted(entries)
      /\ DOMAIN entries = 1 .. Len(entries) /\ Len(entries) \in Nat
      /\ \A k \in DOMAIN entries : entries[k] \in TreeEntries
    BY DEF TreeInv
<1>2. q.start \in Nat /\ q.end \in Nat
    BY SlotFacts
<1>3. entries[i].start < q.end /\ q.start < entries[i].end
    BY DEF Overlaps
<1>4. i \in 1 .. PartitionPoint(q.end)
    <2>1. /\ PartitionPoint(q.end) \in 0 .. Len(entries)
          /\ \A k \in DOMAIN entries : k <= PartitionPoint(q.end) <=> entries[k].start < q.end
        <3>1. q.end \in Int
            BY <1>2
        <3> QED
            BY <1>1, <3>1, PartitionFacts
    <2>2. i \in 1 .. Len(entries) /\ i <= PartitionPoint(q.end)
        BY <1>1, <1>3, <2>1
    <2> QED
        BY <1>1, <2>1, <2>2
<1>5. ASSUME NEW j \in 1 .. i
      PROVE  SuffixMaxEnd(j) > q.start
    <2> DEFINE ends == {entries[k].end : k \in j .. Len(entries)}
    <2>1. \A k \in j .. Len(entries) : entries[k].end \in Nat
        <3>1. \A k \in j .. Len(entries) : entries[k] \in TreeEntries
            BY <1>1
        <3> QED
            BY <3>1, EntryFacts
    <2>2. entries[i].end \in ends
        BY <1>1
    <2>3. ends \in SUBSET Nat /\ ends # {}
        BY <2>1, <2>2
    <2>4. IsFiniteSet(ends)
        <3> DEFINE I == j .. Len(entries)
        <3> DEFINE f == [k \in I |-> entries[k].end]
        <3>1. IsFiniteSet(I)
            BY <1>1, FS_Interval
        <3>2. f \in [I -> ends] /\ \A x \in ends : \E k \in I : f[k] = x
            OBVIOUS
        <3> HIDE DEF f, I, ends
        <3>3. f \in Surjection(I, ends)
            BY <3>2, Fun_IsSurj
        <3> QED
            BY <3>1, <3>3, FS_Surjection
    <2>5. SuffixMaxEnd(j) = Max(ends)
        BY DEF SuffixMaxEnd
    <2> HIDE DEF ends
    <2>6. Max(ends) \in ends /\ Max(ends) >= entries[i].end
        BY <2>2, <2>3, <2>4, GreatestIs
    <2>7. Max(ends) \in Nat /\ entries[i].end \in Nat
        BY <2>2, <2>3, <2>6
    <2> QED
        BY <1>2, <1>3, <2>5, <2>6, <2>7
<1> QED
    BY <1>4, <1>5

(* What the scan answers and what the bag holds are the same tasks.        *)
LEMMA ScanIsExact ==
    ASSUME TreeInv, NEW q \in Slots
    PROVE  TreeQuery(q) = {t \in Tasks : \E p \in Slots : held[t][p] > 0 /\ Overlaps(p, q)}
<1> DEFINE reported == {i \in 1 .. PartitionPoint(q.end) :
                          /\ \A j \in 1 .. i : SuffixMaxEnd(j) > q.start
                          /\ Overlaps(entries[i], q)}
<1> DEFINE wanted == {t \in Tasks : \E p \in Slots : held[t][p] > 0 /\ Overlaps(p, q)}
<1>1. /\ entries \in Seq(TreeEntries) /\ Sorted(entries)
      /\ DOMAIN entries = 1 .. Len(entries) /\ Len(entries) \in Nat
      /\ \A k \in DOMAIN entries : entries[k] \in TreeEntries
    BY DEF TreeInv
<1>2. TreeQuery(q) = {entries[i].task : i \in reported}
    BY DEF TreeQuery
<1>3. ASSUME NEW i \in reported
      PROVE  entries[i].task \in wanted
    <2>1. PICK bound \in Int : bound = q.end
        BY SlotFacts
    <2>2. PartitionPoint(bound) \in 0 .. Len(entries)
        BY <1>1, PartitionFacts
    <2>3. i \in DOMAIN entries /\ Overlaps(entries[i], q)
        BY <1>1, <2>1, <2>2
    <2>4. PICK e \in TreeEntries : e = entries[i]
        BY <1>1, <2>3
    <2>5. PICK p \in Slots : e = EntryOf(e.task, p) /\ p.start = e.start /\ p.end = e.end
        BY EntryFacts
    <2>6. e.task \in Tasks
        BY EntryFacts
    <2>7. held[e.task][p] > 0
        BY <2>3, <2>4, <2>5, <2>6, HeldIsThere
    <2>8. Overlaps(p, q)
        BY <2>3, <2>4, <2>5 DEF Overlaps
    <2> QED
        BY <2>4, <2>6, <2>7, <2>8
<1>4. ASSUME NEW t \in wanted
      PROVE  \E i \in reported : entries[i].task = t
    <2>1. t \in Tasks
        OBVIOUS
    <2>2. PICK p \in Slots : held[t][p] > 0 /\ Overlaps(p, q)
        OBVIOUS
    <2>3. PICK i \in DOMAIN entries : entries[i] = EntryOf(t, p)
        BY <2>1, <2>2, HeldIsThere
    <2>4. Overlaps(entries[i], q) /\ entries[i].task = t
        BY <2>2, <2>3 DEF Overlaps, EntryOf
    <2>5. i \in reported
        BY <2>4, ScanReaches
    <2> QED
        BY <2>4, <2>5
<1> HIDE DEF reported
<1> QED
    BY <1>2, <1>3, <1>4

LEMMA TreeInvIsEnough == TreeInv => TreeIsTheBag
<1> SUFFICES ASSUME TreeInv
             PROVE  TreeIsTheBag
    OBVIOUS
<1>1. HoldsTheBag
    BY DEF TreeInv, HoldsTheBag, Count, EntryOf
<1>2. QueryIsExact
    BY ScanIsExact DEF QueryIsExact
<1> QED
    BY <1>1, <1>2 DEF TreeIsTheBag

LEMMA TreeStep == TreeInv /\ [TreeNext]_treeVars => TreeInv'
<1> SUFFICES ASSUME TreeInv, [TreeNext]_treeVars
             PROVE  TreeInv'
    OBVIOUS
<1>1. ASSUME NEW t \in Tasks, NEW p \in Slots, Span(p) = Lasts[t], InsertEntry(t, p)
      PROVE  TreeInv'
    BY <1>1, InsertEntryKeeps
<1>2. ASSUME NEW t \in Tasks, RemoveEntry(t)
      PROVE  TreeInv'
    BY <1>2, RemoveEntryKeeps
<1>3. CASE UNCHANGED treeVars
    BY <1>3 DEF treeVars, TreeInv
<1> QED
    BY <1>1, <1>2, <1>3 DEF TreeNext

(* The sorted vector of the interval tree holds exactly the entries that   *)
(* were inserted and not removed, and its pruned scan reports exactly the  *)
(* tasks whose entries overlap the query (interval_tree.rs:74-135).        *)
THEOREM TreeImplementsBag == TreeSpec => []TreeIsTheBag
<1>1. TreeSpec => []TreeInv
    BY TreeInitOK, TreeStep, PTL DEF TreeSpec
<1> QED
    BY <1>1, TreeInvIsEnough, PTL

-----------------------------------------------------------------------------
(* The memo *)

(* Tasks that share an entry of the memo. *)
Alike(t, u) == eval.key[u] = eval.key[t] /\ eval.candidate[u] = eval.candidate[t]

(* The dynamic constraints of a task are asked. *)
Asked(t) == eval.candidate[t] \notin {Error, {}} /\ eval.key[t] # NoDynamic

(* What has been found for a task is its own, or that of a task alike.     *)
Borrowed(t) == \E u \in Items : Alike(t, u) /\ got[t] = Own(u)

(* The telescope decides alone, or all results were collected. *)
AnswerOK ==
    answer # Pending =>
       IF eval.telescope = Error THEN answer = [failed |-> 0]
       ELSE IF eval.telescope = {} THEN answer = [windows |-> [t \in Items |-> {}]]
       ELSE answer = Collected /\ \A t \in Items : got[t] # Pending

(* The inductive invariant: a memo entry is what some task computed, a     *)
(* task at its insert has no result yet.                                   *)
MemoInv ==
    /\ PreschedulerTypeOK
    /\ \A e \in memo : \E u \in Items : Asked(u) /\ e = Entry(u)
    /\ \A t \in computing : Asked(t) /\ got[t] = Pending
    /\ \A t \in Items : got[t] # Pending => Borrowed(t)
    /\ AnswerOK

(* What an evaluation holds. *)
LEMMA EvaluationFacts ==
    ASSUME eval \in Evaluations, NEW t \in Items
    PROVE  /\ eval.candidate[t] \in Outcomes /\ eval.dynamic[t] \in Outcomes
           /\ Asked(t) => /\ eval.key[t] \in DynamicKeys
                          /\ eval.candidate[t] \in SUBSET Windows
           /\ Own(t) \in Outcomes
           /\ Asked(t) => Own(t) = eval.dynamic[t]
           /\ Alike(t, t)
<1>1. eval \in [telescope : Outcomes,
                key       : [Items -> DynamicKeys \cup {NoDynamic}],
                candidate : [Items -> Outcomes],
                dynamic   : [Items -> Outcomes]]
    BY PreschedulerConstants
<1>2. /\ eval.key[t] \in DynamicKeys \cup {NoDynamic}
      /\ eval.candidate[t] \in Outcomes /\ eval.dynamic[t] \in Outcomes
    BY <1>1
<1> QED
    BY <1>2 DEF Asked, Own, Alike, Outcomes

LEMMA MemoInit ==
    ASSUME PreschedulerInit
    PROVE  MemoInv
BY DEF PreschedulerInit, MemoInv, PreschedulerTypeOK, AnswerOK

LEMMA JudgeKeeps ==
    ASSUME MemoInv, JudgeTelescope
    PROVE  MemoInv'
<1>1. /\ UNCHANGED <<eval, memo, computing, got>>
      /\ eval.telescope \in {Error, {}}
      /\ answer' = IF eval.telescope = Error THEN [failed |-> 0]
                   ELSE [windows |-> [t \in Items |-> {}]]
    BY DEF JudgeTelescope
<1>2. AnswerOK'
    BY <1>1 DEF AnswerOK
<1> QED
    BY <1>1, <1>2 DEF MemoInv, PreschedulerTypeOK, Asked, Entry, Borrowed, Alike, Own

LEMMA CollectKeeps ==
    ASSUME MemoInv, Collect
    PROVE  MemoInv'
<1>1. /\ UNCHANGED <<eval, memo, computing, got>>
      /\ eval.telescope \notin {Error, {}}
      /\ \A t \in Items : got[t] # Pending
      /\ answer' = Collected
    BY DEF Collect, Evaluating
<1>2. Collected' = Collected
    BY <1>1 DEF Collected
<1>3. AnswerOK'
    BY <1>1, <1>2 DEF AnswerOK
<1>4. /\ \A e \in memo' : \E u \in Items : Asked(u)' /\ e = Entry(u)'
      /\ \A t \in computing' : Asked(t)' /\ got'[t] = Pending
    BY <1>1 DEF MemoInv, Asked, Entry
<1>5. \A t \in Items : got'[t] # Pending => Borrowed(t)'
    BY <1>1 DEF MemoInv, Borrowed, Alike, Own
<1>6. PreschedulerTypeOK'
    BY <1>1 DEF MemoInv, PreschedulerTypeOK
<1> QED
    BY <1>3, <1>4, <1>5, <1>6 DEF MemoInv

LEMMA LookupKeeps ==
    ASSUME MemoInv, NEW t \in Items, Lookup(t)
    PROVE  MemoInv'
<1>1. /\ UNCHANGED <<eval, memo, answer>> /\ answer = Pending
      /\ got[t] = Pending /\ t \notin computing
      /\ got \in [Items -> Outcomes \cup {Pending}] /\ eval \in Evaluations
      /\ computing \subseteq Items
    BY DEF Lookup, Evaluating, MemoInv, PreschedulerTypeOK
<1>2. AnswerOK'
    BY <1>1 DEF AnswerOK
<1>3. \A u \in Items : Own(u)' = Own(u) /\ Asked(u)' = Asked(u) /\ Entry(u)' = Entry(u)
    BY <1>1 DEF Own, Asked, Entry
<1>4. CASE UNCHANGED got /\ computing' = computing \cup {t} /\ Asked(t)
    BY <1>1, <1>2, <1>4 DEF MemoInv, PreschedulerTypeOK, Asked, Entry, Borrowed, Alike, Own
<1>5. ASSUME NEW w \in Outcomes, NEW u \in Items, Alike(t, u), w = Own(u),
             got' = [got EXCEPT ![t] = w], computing' = computing
      PROVE  MemoInv'
    <2>1. got' \in [Items -> Outcomes \cup {Pending}] /\ got'[t] = Own(u)
        BY <1>1, <1>5
    <2>2. \A v \in Items \ {t} : got'[v] = got[v]
        BY <1>1, <1>5
    <2>3. \A v \in Items : got'[v] # Pending => Borrowed(v)'
        <3> SUFFICES ASSUME NEW v \in Items, got'[v] # Pending
                     PROVE  \E x \in Items : Alike(v, x)' /\ got'[v] = Own(x)'
            BY DEF Borrowed
        <3>1. CASE v = t
            BY <1>1, <1>3, <1>5, <2>1, <3>1 DEF Alike
        <3>2. CASE v # t
            <4>1. Borrowed(v) /\ got'[v] = got[v]
                BY <2>2, <3>2 DEF MemoInv
            <4> QED
                BY <1>1, <1>3, <4>1 DEF Borrowed, Alike
        <3> QED
            BY <3>1, <3>2
    <2>4. \A v \in computing' : Asked(v)' /\ got'[v] = Pending
        BY <1>1, <1>3, <1>5, <2>2 DEF MemoInv
    <2>5. \A e \in memo' : \E v \in Items : Asked(v)' /\ e = Entry(v)'
        BY <1>1, <1>3 DEF MemoInv
    <2>6. PreschedulerTypeOK'
        BY <1>1, <1>5, <2>1 DEF MemoInv, PreschedulerTypeOK
    <2> QED
        BY <1>2, <2>3, <2>4, <2>5, <2>6 DEF MemoInv
<1>6. CASE ~ Asked(t) /\ got' = [got EXCEPT ![t] = eval.candidate[t]] /\ UNCHANGED computing
    <2>1. eval.candidate[t] = Own(t) /\ eval.candidate[t] \in Outcomes /\ Alike(t, t)
        BY <1>1, <1>6, EvaluationFacts DEF Own, Asked
    <2> QED
        BY <1>5, <1>6, <2>1
<1>7. ASSUME NEW e \in memo, SameKey(t, e),
             got' = [got EXCEPT ![t] = e.windows], UNCHANGED computing
      PROVE  MemoInv'
    <2>1. PICK u \in Items : Asked(u) /\ e = Entry(u)
        BY DEF MemoInv
    <2>2. Alike(t, u) /\ e.windows = eval.dynamic[u]
        BY <1>7, <2>1 DEF Alike, SameKey, Entry
    <2>3. e.windows = Own(u) /\ e.windows \in Outcomes
        BY <1>1, <2>1, <2>2, EvaluationFacts
    <2> QED
        BY <1>5, <1>7, <2>2, <2>3
<1> QED
    BY <1>4, <1>6, <1>7 DEF Lookup, Asked

LEMMA InsertKeeps ==
    ASSUME MemoInv, NEW t \in Items, Insert(t)
    PROVE  MemoInv'
<1>1. /\ UNCHANGED <<eval, answer>>
      /\ t \in computing /\ computing' = computing \ {t} /\ computing \subseteq Items
      /\ got' = [got EXCEPT ![t] = eval.dynamic[t]]
      /\ got \in [Items -> Outcomes \cup {Pending}] /\ eval \in Evaluations
      /\ Asked(t) /\ got[t] = Pending
    BY DEF Insert, MemoInv, PreschedulerTypeOK
<1>2. eval.dynamic[t] \in Outcomes /\ Own(t) = eval.dynamic[t] /\ Alike(t, t)
    BY <1>1, EvaluationFacts
<1>3. \A u \in Items : Own(u)' = Own(u) /\ Asked(u)' = Asked(u) /\ Entry(u)' = Entry(u)
    BY <1>1 DEF Own, Asked, Entry
<1>4. /\ got' \in [Items -> Outcomes \cup {Pending}] /\ got'[t] = Own(t)
      /\ \A v \in Items \ {t} : got'[v] = got[v]
    BY <1>1, <1>2
<1>5. \A e \in memo' : \E v \in Items : Asked(v)' /\ e = Entry(v)'
    <2> SUFFICES ASSUME NEW e \in memo'
                 PROVE  \E v \in Items : Asked(v) /\ e = Entry(v)
        BY <1>3
    <2>1. e \in memo \/ e = Entry(t)
        BY DEF Insert
    <2> QED
        BY <1>1, <2>1 DEF MemoInv
<1>6. memo' \subseteq [key : DynamicKeys, candidate : SUBSET Windows, windows : Outcomes]
      /\ \A e \in memo' : e.windows # Error
    <2>1. CASE eval.dynamic[t] = Error
        BY <2>1 DEF Insert, MemoInv, PreschedulerTypeOK
    <2>2. CASE eval.dynamic[t] # Error
        <3>1. Entry(t) \in [key : DynamicKeys, candidate : SUBSET Windows, windows : Outcomes]
              /\ Entry(t).windows # Error
            BY <1>1, <1>2, <2>2, EvaluationFacts DEF Entry
        <3>2. \A e \in memo' : e \in memo \/ e = Entry(t)
            BY DEF Insert
        <3> QED
            BY <3>1, <3>2 DEF MemoInv, PreschedulerTypeOK
    <2> QED
        BY <2>1, <2>2
<1>7. PreschedulerTypeOK'
    BY <1>1, <1>4, <1>6 DEF MemoInv, PreschedulerTypeOK
<1>8. \A v \in Items : got'[v] # Pending => Borrowed(v)'
    <2> SUFFICES ASSUME NEW v \in Items, got'[v] # Pending
                 PROVE  \E x \in Items : Alike(v, x)' /\ got'[v] = Own(x)'
        BY DEF Borrowed
    <2>1. CASE v = t
        BY <1>1, <1>2, <1>3, <1>4, <2>1 DEF Alike
    <2>2. CASE v # t
        <3>1. Borrowed(v) /\ got'[v] = got[v]
            BY <1>4, <2>2 DEF MemoInv
        <3> QED
            BY <1>1, <1>3, <3>1 DEF Borrowed, Alike
    <2> QED
        BY <2>1, <2>2
<1>9. \A v \in computing' : Asked(v)' /\ got'[v] = Pending
    BY <1>1, <1>3, <1>4 DEF MemoInv
<1>10. AnswerOK'
    BY <1>1 DEF MemoInv, AnswerOK
<1> QED
    BY <1>5, <1>7, <1>8, <1>9, <1>10 DEF MemoInv

LEMMA MemoInvHolds == PreschedulerSpec => []MemoInv
<1>1. PreschedulerInit => MemoInv
    BY MemoInit
<1>2. MemoInv /\ [PreschedulerNext]_preschedulerVars => MemoInv'
    <2> SUFFICES ASSUME MemoInv, [PreschedulerNext]_preschedulerVars
                 PROVE  MemoInv'
        OBVIOUS
    <2>1. CASE UNCHANGED preschedulerVars
        <3>1. UNCHANGED <<eval, memo, computing, got, answer>>
            BY <2>1 DEF preschedulerVars
        <3>2. /\ \A e \in memo' : \E u \in Items : Asked(u)' /\ e = Entry(u)'
              /\ \A t \in computing' : Asked(t)' /\ got'[t] = Pending
            BY <3>1 DEF MemoInv, Asked, Entry
        <3>3. \A t \in Items : got'[t] # Pending => Borrowed(t)'
            BY <3>1 DEF MemoInv, Borrowed, Alike, Own
        <3>4. Collected' = Collected
            BY <3>1 DEF Collected
        <3>5. PreschedulerTypeOK' /\ AnswerOK'
            BY <3>1, <3>4 DEF MemoInv, PreschedulerTypeOK, AnswerOK
        <3> QED
            BY <3>2, <3>3, <3>5 DEF MemoInv
    <2> QED
        BY <2>1, JudgeKeeps, CollectKeeps, LookupKeeps, InsertKeeps DEF PreschedulerNext
<1> QED
    BY <1>1, <1>2, PTL DEF PreschedulerSpec

(* The first error is the same whoever looks for it. *)
LEMMA SequentialAnswer ==
    ASSUME MemoInv, KeysDecide, answer # Pending
    PROVE  answer = Sequential
<1>1. CASE eval.telescope \in {Error, {}}
    BY <1>1 DEF MemoInv, AnswerOK, Sequential
<1>2. CASE eval.telescope \notin {Error, {}}
    <2>1. /\ answer = Collected /\ \A t \in Items : got[t] # Pending
          /\ got \in [Items -> Outcomes \cup {Pending}] /\ eval \in Evaluations
        BY <1>2 DEF MemoInv, AnswerOK, PreschedulerTypeOK
    <2>2. \A t \in Items : got[t] = Own(t)
        <3> SUFFICES ASSUME NEW t \in Items PROVE got[t] = Own(t)
            OBVIOUS
        <3>1. PICK u \in Items : Alike(t, u) /\ got[t] = Own(u)
            BY <2>1 DEF MemoInv, Borrowed
        <3>2. eval.dynamic[t] = eval.dynamic[u]
            BY <3>1 DEF KeysDecide, Alike
        <3> QED
            BY <3>1, <3>2 DEF Own, Alike
    <2>3. CASE \A t \in Items : Own(t) # Error
        <3>1. got = [t \in Items |-> Own(t)]
            BY <2>1, <2>2
        <3>2. Collected = [windows |-> got]
            BY <2>2, <2>3 DEF Collected
        <3>3. Sequential = [windows |-> [t \in Items |-> Own(t)]]
            BY <1>2, <2>3 DEF Sequential
        <3> QED
            BY <2>1, <3>1, <3>2, <3>3
    <2>4. CASE \E t \in Items : Own(t) = Error
        <3> DEFINE S == {t \in Items : Own(t) = Error}
                   Reported(t) == got[t] = Error /\ \A u \in Items : got[u] = Error => t <= u
                   Due(t) == Own(t) = Error /\ \A u \in Items : Own(u) = Error => t <= u
                   reported == CHOOSE t \in Items : Reported(t)
                   due == CHOOSE t \in Items : Due(t)
        <3>1. PICK n \in S : \A m \in S : n <= m
            BY <2>4, LeastNumber, PreschedulerConstants
        <3>2. n \in Items /\ Due(n) /\ Reported(n)
            BY <2>2, <3>1
        <3>3. reported \in Items /\ Reported(reported) /\ due \in Items /\ Due(due)
            <4> HIDE DEF Reported, Due
            <4> QED
                BY <3>2
        <3>4. Collected = [failed |-> reported]
            BY <2>2, <2>4 DEF Collected
        <3>5. Sequential = [failed |-> due]
            BY <1>2, <2>4 DEF Sequential
        <3> HIDE DEF reported, due
        <3>6. reported = due
            <4>1. reported \in Nat /\ due \in Nat
                BY <3>3, PreschedulerConstants
            <4>2. reported <= due /\ due <= reported
                BY <2>2, <3>3
            <4> QED
                BY <4>1, <4>2
        <3> QED
            BY <2>1, <3>4, <3>5, <3>6
    <2> QED
        BY <2>3, <2>4
<1> QED
    BY <1>1, <1>2

(* However the tasks interleave between their two looks at the memo, a run *)
(* answers what a sequential run without a memo would, its first error     *)
(* included, as long as the key of the memo decides; otherwise a task gets *)
(* the windows of a task of its key (prescheduler/mod.rs:52-85, 172-196).  *)
THEOREM MemoChangesNoAnswer == PreschedulerSpec => []MemoIsTransparent
<1>1. MemoInv => AnswerIsSequential
    BY SequentialAnswer DEF AnswerIsSequential
<1>2. MemoInv => WindowsOfSameKey
    BY DEF MemoInv, Borrowed, Alike, WindowsOfSameKey
<1>3. MemoInv => MemoIsTransparent
    BY <1>1, <1>2 DEF MemoIsTransparent
<1> QED
    BY <1>3, MemoInvHolds, PTL
-----------------------------------------------------------------------------
(* The files of the cache *)

Begun(r) == query[r].at # "idle"
Writing(r) == query[r].at \in {"first", "second", "rename"}

(* A request that computes has an answer, and writes to a file that was    *)
(* created for its own key.                                                *)
RequestsOK ==
    \A r \in Queries :
       /\ Begun(r) => query[r].problem \in Problems
       /\ ~ Begun(r) => served[r] = Unanswered
       /\ Busy(r) => finds[query[r].problem] \in Answers
       /\ Writing(r) =>
             \E i \in Queries : query[r].inode = i /\ Begun(i) /\ Key(i) = Key(r)

(* The files behind the two names of a key. *)
Named(k) == {entryAt[k], tmpAt[k]} \ {NoFile}

NamesOK ==
    \A k \in CacheKeys : \A i \in Named(k) : i \in Queries /\ Begun(i) /\ Key(i) = k

(* What is in a file was found for problems of the key it was created for. *)
FoundFor(k, a) == \E p \in Problems : keyOf[p] = k /\ finds[p] = a
ContentsOK ==
    \A i \in Queries : \A a \in {file[i].first, file[i].second} \ {Nothing} :
       Begun(i) /\ FoundFor(Key(i), a)

(* Two requests of one key that are under way at once have met.            *)
MeetingsOK ==
    \A r, s \in Queries :
       r # s /\ Busy(r) /\ Busy(s) /\ Key(r) = Key(s) => r \in met /\ s \in met

(* Only a request that one has met takes the temporary name away.          *)
RenamesOK ==
    \A r \in Queries : Writing(r) /\ r \notin met => tmpAt[Key(r)] # NoFile

(* As long as nothing fails, who emptied a file goes on to write it.       *)
FillsFirst(i) == \E r \in Queries : At(r, "first") /\ query[r].inode = i
FillsSecond(i) ==
    \E r \in Queries : query[r].at \in {"first", "second"} /\ query[r].inode = i
FilledOK ==
    cacheFaults = 0 =>
       \A k \in CacheKeys : \A i \in Named(k) :
          /\ file[i].first = Nothing => FillsFirst(i)
          /\ file[i].second = Nothing => FillsSecond(i)

(* The inductive invariant. *)
CacheInv ==
    /\ CacheTypeOK
    /\ RequestsOK /\ NamesOK /\ ContentsOK /\ MeetingsOK /\ RenamesOK /\ FilledOK
    /\ ServedOfSameKey /\ FailsOnlyWhenMet

LEMMA CacheStarts ==
    ASSUME CacheInit
    PROVE  CacheInv
<1>1. CacheTypeOK
    BY CacheConstants DEF CacheInit, CacheTypeOK, Waiting, CacheStages, Halves
<1>2. \A r \in Queries : query[r] = Waiting /\ served[r] = Unanswered
    BY DEF CacheInit
<1>3. RequestsOK /\ MeetingsOK /\ RenamesOK
    BY <1>2 DEF RequestsOK, MeetingsOK, RenamesOK, Begun, Busy, Writing, Waiting
<1>4. NamesOK /\ ContentsOK /\ FilledOK
    BY DEF CacheInit, NamesOK, Named, ContentsOK, FilledOK
<1>5. ServedOfSameKey /\ FailsOnlyWhenMet
    BY <1>2, CacheConstants DEF ServedOfSameKey, FailsOnlyWhenMet
<1> QED
    BY <1>1, <1>3, <1>4, <1>5 DEF CacheInv

(* The types, as the steps need them. *)
LEMMA CacheTypes ==
    ASSUME CacheInv
    PROVE  /\ keyOf \in [Problems -> CacheKeys]
           /\ finds \in [Problems -> Answers \cup {IoError}]
           /\ file \in [Queries -> [first : Halves, second : Halves]]
           /\ entryAt \in [CacheKeys -> Queries \cup {NoFile}]
           /\ tmpAt \in [CacheKeys -> Queries \cup {NoFile}]
           /\ query \in [Queries -> [at : CacheStages, problem : Problems \cup {NoFile},
                                     inode : Queries \cup {NoFile}]]
           /\ served \in [Queries -> [first : Halves, second : Halves]
                                       \cup {IoError, Unanswered}]
           /\ met \subseteq Queries
           /\ cacheFaults \in 0 .. MaxCacheFaults
           /\ Answers \subseteq Halves
BY DEF CacheInv, CacheTypeOK, Halves

(* A request goes on with its problem; the others stay where they are.     *)
Goes(r, q) ==
    /\ query' = [query EXCEPT ![r] = q]
    /\ q \in [at : CacheStages \ {"idle"}, problem : {query[r].problem},
              inode : Queries \cup {NoFile}]
    /\ Begun(r) /\ UNCHANGED <<keyOf, finds>>

LEMMA GoesFacts ==
    ASSUME CacheInv, NEW r \in Queries, NEW q, Goes(r, q)
    PROVE  /\ query'[r] = q
           /\ \A s \in Queries \ {r} : query'[s] = query[s]
           /\ \A s \in Queries : /\ Key(s)' = Key(s) /\ Begun(s)' = Begun(s)
                                 /\ query'[s].problem = query[s].problem
                                 /\ Begun(s) => Key(s) \in CacheKeys
           /\ query' \in [Queries -> [at : CacheStages, problem : Problems \cup {NoFile},
                                      inode : Queries \cup {NoFile}]]
<1>1. query'[r] = q /\ \A s \in Queries \ {r} : query'[s] = query[s]
    BY CacheTypes DEF Goes
<1>2. q.problem = query[r].problem /\ q.at # "idle" /\ query[r].at # "idle"
    BY DEF Goes, Begun
<1>3. \A s \in Queries : query'[s].problem = query[s].problem /\ Begun(s)' = Begun(s)
    BY <1>1, <1>2 DEF Begun
<1>4. \A s \in Queries : Key(s)' = Key(s)
    BY <1>3 DEF Key, Goes
<1>5. \A s \in Queries : Begun(s) => Key(s) \in CacheKeys
    BY CacheTypes DEF CacheInv, RequestsOK, Key
<1>6. q \in [at : CacheStages, problem : Problems \cup {NoFile}, inode : Queries \cup {NoFile}]
    BY CacheTypes DEF Goes, CacheStages
<1> QED
    BY <1>1, <1>3, <1>4, <1>5, <1>6, CacheTypes DEF Goes

(* Who goes on has met whom it meets. *)
LEMMA GoesMeets ==
    ASSUME CacheInv, NEW r \in Queries, NEW q, Goes(r, q), Busy(r), met' = met
    PROVE  MeetingsOK'
<1> SUFFICES ASSUME NEW s \in Queries, NEW t \in Queries,
                    s # t, Busy(s)', Busy(t)', Key(s)' = Key(t)'
             PROVE  s \in met /\ t \in met
    BY DEF MeetingsOK
<1>1. Busy(s) /\ Busy(t) /\ Key(s) = Key(t)
    BY GoesFacts DEF Busy
<1> QED
    BY <1>1 DEF CacheInv, MeetingsOK

(* Who is not served anew keeps what was right. *)
LEMMA GoesServed ==
    ASSUME CacheInv, NEW r \in Queries, NEW q, Goes(r, q), served' = served,
           UNCHANGED <<met, cacheFaults>>
    PROVE  ServedOfSameKey' /\ FailsOnlyWhenMet'
<1>1. \A s \in Queries : query'[s].problem = query[s].problem
    BY GoesFacts
<1>2. keyOf' = keyOf /\ finds' = finds
    BY DEF Goes
<1>3. ServedOfSameKey'
    BY <1>1, <1>2 DEF CacheInv, ServedOfSameKey
<1>4. FailsOnlyWhenMet'
    BY <1>1, <1>2 DEF CacheInv, FailsOnlyWhenMet
<1> QED
    BY <1>3, <1>4

(* What a request under way has in hand. *)
LEMMA BusyFacts ==
    ASSUME CacheInv, NEW r \in Queries, Busy(r)
    PROVE  /\ Begun(r) /\ query[r].problem \in Problems /\ Key(r) \in CacheKeys
           /\ finds[query[r].problem] \in Answers /\ finds[query[r].problem] # Nothing
           /\ FoundFor(Key(r), finds[query[r].problem])
<1>1. Begun(r) /\ query[r].problem \in Problems /\ finds[query[r].problem] \in Answers
    BY DEF CacheInv, RequestsOK, Busy, Begun
<1> QED
    BY <1>1, CacheTypes, CacheConstants DEF Key, FoundFor

LEMMA CreateKeeps ==
    ASSUME CacheInv, NEW r \in Queries, Create(r)
    PROVE  CacheInv'
<1> DEFINE k == Key(r)
           inode == IF tmpAt[k] = NoFile THEN r ELSE tmpAt[k]
           q == [query[r] EXCEPT !.at = "first", !.inode = inode]
<1>1. /\ tmpAt' = [tmpAt EXCEPT ![k] = inode]
      /\ file' = [file EXCEPT ![inode] = Torn]
      /\ query' = [query EXCEPT ![r] = q]
      /\ UNCHANGED <<keyOf, finds, entryAt, served, met, cacheFaults>>
      /\ query[r].at = "create" /\ Busy(r)
    BY CacheTypes DEF Create, At, Busy
<1>0. UNCHANGED <<keyOf, finds, entryAt, served, met, cacheFaults>> /\ Busy(r)
    BY <1>1
<1>2. k \in CacheKeys /\ Begun(r)
    BY <1>1, BusyFacts
<1>3. inode \in Queries /\ Begun(inode) /\ Key(inode) = k
    BY <1>2, CacheTypes DEF CacheInv, NamesOK, Named
<1> HIDE DEF inode
<1>4. Goes(r, q) /\ q.at = "first" /\ q.inode = inode /\ q.problem = query[r].problem
    BY <1>1, <1>2, <1>3, CacheTypes DEF Goes, CacheStages
<1> HIDE DEF q, k
<1>5. /\ query'[r] = q /\ \A s \in Queries \ {r} : query'[s] = query[s]
      /\ \A s \in Queries : /\ Key(s)' = Key(s) /\ Begun(s)' = Begun(s)
                            /\ query'[s].problem = query[s].problem
      /\ query' \in [Queries -> [at : CacheStages, problem : Problems \cup {NoFile},
                                 inode : Queries \cup {NoFile}]]
    BY <1>4, GoesFacts
<1>6. /\ tmpAt'[k] = inode /\ \A l \in CacheKeys \ {k} : tmpAt'[l] = tmpAt[l]
      /\ file'[inode] = Torn /\ \A i \in Queries \ {inode} : file'[i] = file[i]
      /\ tmpAt' \in [CacheKeys -> Queries \cup {NoFile}]
      /\ file' \in [Queries -> [first : Halves, second : Halves]]
    BY <1>1, <1>2, <1>3, CacheTypes DEF Torn, Halves
<1>7. CacheTypeOK'
    BY <1>0, <1>5, <1>6, CacheTypes DEF CacheTypeOK
<1>8. RequestsOK'
    <2> SUFFICES ASSUME NEW s \in Queries
                 PROVE  /\ Begun(s)' => query'[s].problem \in Problems
                        /\ ~ Begun(s)' => served[s] = Unanswered
                        /\ Busy(s)' => finds[query'[s].problem] \in Answers
                        /\ Writing(s)' => \E i \in Queries : /\ query'[s].inode = i
                                                              /\ Begun(i)' /\ Key(i)' = Key(s)'
        BY <1>0 DEF RequestsOK
    <2>1. CASE s = r
        <3>1. Begun(s) /\ query[s].problem \in Problems /\ finds[query[s].problem] \in Answers
            BY <1>0, <2>1, BusyFacts
        <3>2. query'[s].inode = inode
            BY <1>4, <1>5, <2>1
        <3> QED
            BY <1>3, <1>5, <2>1, <3>1, <3>2 DEF k
    <2>2. CASE s # r
        <3>1. query'[s] = query[s]
            BY <1>5, <2>2
        <3>2. Busy(s)' = Busy(s) /\ Writing(s)' = Writing(s)
            BY <3>1 DEF Busy, Writing
        <3> QED
            BY <1>5, <3>1, <3>2 DEF CacheInv, RequestsOK
    <2> QED
        BY <2>1, <2>2
<1>9. NamesOK'
    <2> SUFFICES ASSUME NEW l \in CacheKeys, NEW i \in Named(l)'
                 PROVE  i \in Queries /\ Begun(i)' /\ Key(i)' = l
        BY DEF NamesOK
    <2>1. i \in Named(l) \/ (l = k /\ i = inode)
        BY <1>1, <1>6 DEF Named
    <2> QED
        BY <1>3, <1>5, <2>1 DEF CacheInv, NamesOK
<1>10. ContentsOK'
    <2> SUFFICES ASSUME NEW i \in Queries, i # inode,
                        NEW a \in {file[i].first, file[i].second} \ {Nothing}
                 PROVE  Begun(i)' /\ FoundFor(Key(i), a)'
        BY <1>6 DEF ContentsOK, Torn
    <2>1. Begun(i) /\ FoundFor(Key(i), a)
        BY DEF CacheInv, ContentsOK
    <2> QED
        BY <1>1, <1>5, <2>1 DEF FoundFor
<1>11. MeetingsOK'
    BY <1>1, <1>4, GoesMeets
<1>12. RenamesOK'
    <2> SUFFICES ASSUME NEW s \in Queries, Writing(s)', s \notin met
                 PROVE  tmpAt'[Key(s)] # NoFile
        BY <1>1, <1>5 DEF RenamesOK
    <2>1. CASE Key(s) = k
        BY <1>3, <1>6, <2>1, CacheConstants
    <2>2. CASE Key(s) # k
        <3>1. s # r /\ query'[s] = query[s]
            BY <1>5, <2>2 DEF k
        <3>2. Writing(s) /\ Busy(s)
            BY <3>1 DEF Writing, Busy
        <3> QED
            BY <1>6, <2>2, <3>2, BusyFacts DEF CacheInv, RenamesOK
    <2> QED
        BY <2>1, <2>2
<1>13. FilledOK'
    <2> SUFFICES ASSUME cacheFaults = 0, NEW l \in CacheKeys, NEW i \in Named(l)'
                 PROVE  /\ file'[i].first = Nothing => FillsFirst(i)'
                        /\ file'[i].second = Nothing => FillsSecond(i)'
        BY <1>1 DEF FilledOK
    <2>1. CASE i = inode
        BY <1>4, <1>5, <2>1 DEF FillsFirst, FillsSecond, At
    <2>2. CASE i # inode
        <3>1. i \in Named(l) /\ i \in Queries
            BY <1>1, <1>6, <2>2, CacheTypes DEF Named
        <3>2. file'[i] = file[i]
            BY <1>6, <2>2, <3>1
        <3>3. /\ FillsFirst(i) => FillsFirst(i)'
              /\ FillsSecond(i) => FillsSecond(i)'
            BY <1>1, <1>5 DEF FillsFirst, FillsSecond, At
        <3> QED
            BY <3>1, <3>2, <3>3 DEF CacheInv, FilledOK
    <2> QED
        BY <2>1, <2>2
<1>14. ServedOfSameKey' /\ FailsOnlyWhenMet'
    BY <1>1, <1>4, GoesServed
<1> QED
    BY <1>7, <1>8, <1>9, <1>10, <1>11, <1>12, <1>13, <1>14 DEF CacheInv

(* A request writes one half of the file that it created. *)
LEMMA WriteKeeps ==
    ASSUME CacheInv, NEW r \in Queries, WriteFirst(r) \/ WriteSecond(r)
    PROVE  CacheInv'
<1> DEFINE inode == query[r].inode
           a == finds[query[r].problem]
           first == query[r].at = "first"
           q == [query[r] EXCEPT !.at = IF first THEN "second" ELSE "rename"]
<1>1. /\ file' = IF first THEN [file EXCEPT ![inode].first = a]
                          ELSE [file EXCEPT ![inode].second = a]
      /\ query' = [query EXCEPT ![r] = q]
      /\ UNCHANGED <<keyOf, finds, entryAt, tmpAt, served, met, cacheFaults>>
      /\ query[r].at \in {"first", "second"}
      /\ Busy(r) /\ Writing(r)
    BY CacheTypes DEF WriteFirst, WriteSecond, At, Advance, Busy, Writing
<1>0. UNCHANGED <<keyOf, finds, entryAt, tmpAt, served, met, cacheFaults>>
      /\ Busy(r) /\ Writing(r)
    BY <1>1
<1>2. Begun(r) /\ a \in Answers /\ a # Nothing /\ FoundFor(Key(r), a)
    BY <1>1, BusyFacts
<1>3. inode \in Queries /\ Begun(inode) /\ Key(inode) = Key(r)
    BY <1>1 DEF CacheInv, RequestsOK
<1>4. /\ Goes(r, q) /\ q.inode = inode /\ q.problem = query[r].problem
      /\ q.at = IF first THEN "second" ELSE "rename"
    BY <1>1, <1>2, <1>3, CacheTypes DEF Goes, CacheStages
<1> HIDE DEF q, a, inode
<1>5. /\ query'[r] = q /\ \A s \in Queries \ {r} : query'[s] = query[s]
      /\ \A s \in Queries : /\ Key(s)' = Key(s) /\ Begun(s)' = Begun(s)
                            /\ query'[s].problem = query[s].problem
      /\ query' \in [Queries -> [at : CacheStages, problem : Problems \cup {NoFile},
                                 inode : Queries \cup {NoFile}]]
    BY <1>4, GoesFacts
<1>6. /\ file' \in [Queries -> [first : Halves, second : Halves]]
      /\ \A i \in Queries \ {inode} : file'[i] = file[i]
      /\ file'[inode].first = IF first THEN a ELSE file[inode].first
      /\ file'[inode].second = IF first THEN file[inode].second ELSE a
    BY <1>1, <1>2, <1>3, CacheTypes
<1> HIDE DEF first
<1>7. CacheTypeOK'
    BY <1>0, <1>5, <1>6, CacheTypes DEF CacheTypeOK
<1>8. RequestsOK'
    <2> SUFFICES ASSUME NEW s \in Queries
                 PROVE  /\ Begun(s)' => query'[s].problem \in Problems
                        /\ ~ Begun(s)' => served[s] = Unanswered
                        /\ Busy(s)' => finds[query'[s].problem] \in Answers
                        /\ Writing(s)' => \E i \in Queries : /\ query'[s].inode = i
                                                              /\ Begun(i)' /\ Key(i)' = Key(s)'
        BY <1>0 DEF RequestsOK
    <2>1. /\ query'[s].inode = query[s].inode
          /\ Busy(s)' => Busy(s)
          /\ Writing(s)' => Writing(s)
        BY <1>1, <1>4, <1>5 DEF Busy, Writing, inode
    <2> QED
        BY <1>5, <2>1 DEF CacheInv, RequestsOK
<1>9. NamesOK'
    <2>1. \A l \in CacheKeys : Named(l)' = Named(l)
        BY <1>1 DEF Named
    <2> QED
        BY <1>5, <2>1 DEF CacheInv, NamesOK
<1>10. ContentsOK'
    <2> SUFFICES ASSUME NEW i \in Queries,
                        NEW b \in {file'[i].first, file'[i].second} \ {Nothing}
                 PROVE  Begun(i)' /\ FoundFor(Key(i), b)'
        BY DEF ContentsOK
    <2>1. b \in {file[i].first, file[i].second} \/ (i = inode /\ b = a)
        BY <1>6
    <2>2. Begun(i) /\ FoundFor(Key(i), b)
        BY <1>2, <1>3, <2>1 DEF CacheInv, ContentsOK
    <2> QED
        BY <1>1, <1>5, <2>2 DEF FoundFor
<1>11. MeetingsOK'
    BY <1>1, <1>4, GoesMeets
<1>12. RenamesOK'
    <2> SUFFICES ASSUME NEW s \in Queries, Writing(s)', s \notin met
                 PROVE  tmpAt[Key(s)] # NoFile
        BY <1>1, <1>5 DEF RenamesOK
    <2>1. Writing(s)
        BY <1>1, <1>5 DEF Writing
    <2> QED
        BY <2>1 DEF CacheInv, RenamesOK
<1>13. FilledOK'
    <2> SUFFICES ASSUME cacheFaults = 0, NEW l \in CacheKeys, NEW i \in Named(l)
                 PROVE  /\ file'[i].first = Nothing => FillsFirst(i)'
                        /\ file'[i].second = Nothing => FillsSecond(i)'
        BY <1>1 DEF FilledOK, Named
    <2>1. /\ i \in Queries
          /\ file[i].first = Nothing => FillsFirst(i)
          /\ file[i].second = Nothing => FillsSecond(i)
        BY DEF CacheInv, NamesOK, FilledOK
    <2>2. CASE i = inode /\ first
        <3>1. file'[i].first # Nothing /\ FillsSecond(i)'
            BY <1>2, <1>4, <1>5, <1>6, <2>2 DEF FillsSecond
        <3> QED
            BY <3>1
    <2>3. CASE i = inode /\ ~ first
        <3>1. file'[i].second # Nothing /\ file'[i].first = file[i].first
            BY <1>2, <1>6, <2>3
        <3>2. FillsFirst(i) => FillsFirst(i)'
            BY <1>1, <1>5, <2>3 DEF FillsFirst, At, first
        <3> QED
            BY <2>1, <3>1, <3>2
    <2>4. CASE i # inode
        <3>1. file'[i] = file[i]
            BY <1>6, <2>1, <2>4
        <3>2. /\ FillsFirst(i) => FillsFirst(i)'
              /\ FillsSecond(i) => FillsSecond(i)'
            BY <1>5, <2>4 DEF FillsFirst, FillsSecond, At, inode
        <3> QED
            BY <2>1, <3>1, <3>2
    <2> QED
        BY <2>2, <2>3, <2>4
<1>14. ServedOfSameKey' /\ FailsOnlyWhenMet'
    BY <1>1, <1>4, GoesServed
<1> QED
    BY <1>7, <1>8, <1>9, <1>10, <1>11, <1>12, <1>13, <1>14 DEF CacheInv

(* A request that is done leaves the files to the others. *)
LEMMA DoneKeeps ==
    ASSUME CacheInv, NEW r \in Queries, Busy(r), NEW a, Serve(r, a),
           a = IoError \/ a = Whole(finds[query[r].problem]),
           UNCHANGED <<keyOf, finds, file, met>>,
           entryAt' \in [CacheKeys -> Queries \cup {NoFile}],
           tmpAt' \in [CacheKeys -> Queries \cup {NoFile}],
           cacheFaults' \in 0 .. MaxCacheFaults
    PROVE  /\ CacheTypeOK' /\ RequestsOK' /\ ContentsOK' /\ MeetingsOK' /\ ServedOfSameKey'
           /\ \A s \in Queries : /\ Key(s)' = Key(s) /\ Begun(s)' = Begun(s)
                                 /\ query'[s].problem = query[s].problem
           /\ ~ Writing(r)'
           /\ \A s \in Queries \ {r} : query'[s] = query[s] /\ served'[s] = served[s]
           /\ served'[r] = a
<1> DEFINE q == [query[r] EXCEPT !.at = "done"]
<1>1. query' = [query EXCEPT ![r] = q] /\ served' = [served EXCEPT ![r] = a]
    BY CacheTypes DEF Serve
<1>2. /\ Begun(r) /\ query[r].problem \in Problems
      /\ finds[query[r].problem] \in Answers /\ FoundFor(Key(r), finds[query[r].problem])
    BY BusyFacts
<1>3. Goes(r, q) /\ q.at = "done" /\ q.problem = query[r].problem
    BY <1>1, <1>2, CacheTypes DEF Goes, CacheStages
<1> HIDE DEF q
<1>4. /\ query'[r] = q /\ \A s \in Queries \ {r} : query'[s] = query[s]
      /\ \A s \in Queries : /\ Key(s)' = Key(s) /\ Begun(s)' = Begun(s)
                            /\ query'[s].problem = query[s].problem
      /\ query' \in [Queries -> [at : CacheStages, problem : Problems \cup {NoFile},
                                 inode : Queries \cup {NoFile}]]
    BY <1>3, GoesFacts
<1>5. /\ served'[r] = a /\ \A s \in Queries \ {r} : served'[s] = served[s]
      /\ served' \in [Queries -> [first : Halves, second : Halves] \cup {IoError, Unanswered}]
    BY <1>1, <1>2, CacheTypes DEF Whole
<1>6. CacheTypeOK'
    BY <1>4, <1>5, CacheTypes DEF CacheTypeOK
<1>7. RequestsOK'
    <2> SUFFICES ASSUME NEW s \in Queries
                 PROVE  /\ Begun(s)' => query'[s].problem \in Problems
                        /\ ~ Begun(s)' => served'[s] = Unanswered
                        /\ Busy(s)' => finds[query'[s].problem] \in Answers
                        /\ Writing(s)' => \E i \in Queries : /\ query'[s].inode = i
                                                              /\ Begun(i)' /\ Key(i)' = Key(s)'
        BY DEF RequestsOK
    <2>1. CASE s = r
        BY <1>2, <1>3, <1>4, <2>1 DEF Busy, Writing
    <2>2. CASE s # r
        <3>1. query'[s] = query[s] /\ served'[s] = served[s]
            BY <1>4, <1>5, <2>2
        <3>2. Busy(s)' = Busy(s) /\ Writing(s)' = Writing(s)
            BY <3>1 DEF Busy, Writing
        <3> QED
            BY <1>4, <3>1, <3>2 DEF CacheInv, RequestsOK
    <2> QED
        BY <2>1, <2>2
<1>8. ContentsOK'
    <2> SUFFICES ASSUME NEW i \in Queries,
                        NEW b \in {file[i].first, file[i].second} \ {Nothing}
                 PROVE  Begun(i)' /\ FoundFor(Key(i), b)'
        BY DEF ContentsOK
    <2>1. Begun(i) /\ FoundFor(Key(i), b)
        BY DEF CacheInv, ContentsOK
    <2> QED
        BY <1>4, <2>1 DEF FoundFor
<1>9. MeetingsOK'
    BY <1>3, GoesMeets
<1>10. ServedOfSameKey'
    <2> SUFFICES ASSUME NEW s \in Queries, served'[s] \notin {Unanswered, IoError},
                        NEW b \in {served'[s].first, served'[s].second}
                 PROVE  \E p \in Problems : keyOf[p] = keyOf[query'[s].problem] /\ finds[p] = b
        BY DEF ServedOfSameKey
    <2>1. CASE s = r
        <3>1. b = finds[query[r].problem]
            BY <1>5, <2>1 DEF Whole
        <3> QED
            BY <1>2, <1>4, <2>1, <3>1
    <2>2. CASE s # r
        BY <1>4, <1>5, <2>2 DEF CacheInv, ServedOfSameKey
    <2> QED
        BY <2>1, <2>2
<1> QED
    BY <1>3, <1>4, <1>5, <1>6, <1>7, <1>8, <1>9, <1>10 DEF Writing

(* Only who has met another finds nothing to rename. *)
LEMMA RenameKeeps ==
    ASSUME CacheInv, NEW r \in Queries, Rename(r)
    PROVE  CacheInv'
<1> DEFINE k == Key(r)
           whole == Whole(finds[query[r].problem])
<1>1. /\ UNCHANGED <<keyOf, finds, file, met, cacheFaults>>
      /\ query[r].at = "rename" /\ Busy(r) /\ Writing(r)
    BY DEF Rename, At, Busy, Writing
<1>2. k \in CacheKeys
    BY <1>1, BusyFacts
<1>3. \/ tmpAt[k] = NoFile /\ Serve(r, IoError) /\ UNCHANGED <<entryAt, tmpAt>>
      \/ /\ tmpAt[k] # NoFile /\ Serve(r, whole)
         /\ entryAt' = [entryAt EXCEPT ![k] = tmpAt[k]]
         /\ tmpAt' = [tmpAt EXCEPT ![k] = NoFile]
    BY DEF Rename
<1> HIDE DEF k
<1>4. /\ entryAt' \in [CacheKeys -> Queries \cup {NoFile}]
      /\ tmpAt' \in [CacheKeys -> Queries \cup {NoFile}]
      /\ \A l \in CacheKeys : Named(l)' \subseteq Named(l)
      /\ \A l \in CacheKeys \ {k} : tmpAt'[l] = tmpAt[l]
      /\ cacheFaults' \in 0 .. MaxCacheFaults
    BY <1>1, <1>2, <1>3, CacheTypes DEF Named
<1>5. PICK a \in {IoError, whole} : Serve(r, a) /\ (a = IoError => r \in met)
    <2>1. CASE tmpAt[k] = NoFile
        BY <1>1, <1>3, <2>1 DEF CacheInv, RenamesOK, k
    <2>2. whole # IoError
        <3>1. finds[query[r].problem] \in Halves
            BY <1>1, BusyFacts, CacheTypes
        <3> QED
            BY <3>1, CacheConstants DEF Whole
    <2> QED
        BY <1>3, <2>1, <2>2
<1>6. /\ CacheTypeOK' /\ RequestsOK' /\ ContentsOK' /\ MeetingsOK' /\ ServedOfSameKey'
      /\ \A s \in Queries : /\ Key(s)' = Key(s) /\ Begun(s)' = Begun(s)
                            /\ query'[s].problem = query[s].problem
      /\ ~ Writing(r)'
      /\ \A s \in Queries \ {r} : query'[s] = query[s] /\ served'[s] = served[s]
      /\ served'[r] = a
    BY <1>1, <1>4, <1>5, DoneKeeps
<1>7. NamesOK'
    BY <1>4, <1>6 DEF CacheInv, NamesOK
<1>8. RenamesOK'
    <2> SUFFICES ASSUME NEW s \in Queries, Writing(s)', s \notin met
                 PROVE  tmpAt'[Key(s)] # NoFile
        BY <1>1, <1>6 DEF RenamesOK
    <2>1. s # r /\ Writing(s) /\ Busy(s)
        BY <1>6 DEF Writing, Busy
    <2>2. Key(s) # Key(r)
        BY <1>1, <2>1 DEF CacheInv, MeetingsOK
    <2> QED
        BY <1>4, <2>1, <2>2, BusyFacts DEF CacheInv, RenamesOK, k
<1>9. FilledOK'
    <2> SUFFICES ASSUME cacheFaults = 0, NEW l \in CacheKeys, NEW i \in Named(l)
                 PROVE  /\ file[i].first = Nothing => FillsFirst(i)'
                        /\ file[i].second = Nothing => FillsSecond(i)'
        BY <1>1, <1>4 DEF FilledOK
    <2>1. /\ FillsFirst(i) => FillsFirst(i)'
          /\ FillsSecond(i) => FillsSecond(i)'
        BY <1>1, <1>6 DEF FillsFirst, FillsSecond, At
    <2> QED
        BY <2>1 DEF CacheInv, FilledOK
<1>10. FailsOnlyWhenMet'
    <2> SUFFICES ASSUME NEW s \in Queries, served'[s] = IoError, cacheFaults = 0, s \notin met
                 PROVE  finds[query'[s].problem] = IoError
        BY <1>1 DEF FailsOnlyWhenMet
    <2>1. s # r /\ served[s] = IoError
        BY <1>5, <1>6
    <2> QED
        BY <1>6, <2>1 DEF CacheInv, FailsOnlyWhenMet
<1> QED
    BY <1>6, <1>7, <1>8, <1>9, <1>10 DEF CacheInv

LEMMA IoFailsKeeps ==
    ASSUME CacheInv, NEW r \in Queries, IoFails(r)
    PROVE  CacheInv'
<1>1. /\ UNCHANGED <<keyOf, finds, file, entryAt, tmpAt, met>>
      /\ Busy(r) /\ Serve(r, IoError)
      /\ cacheFaults' = cacheFaults + 1 /\ cacheFaults < MaxCacheFaults
    BY DEF IoFails
<1>2. cacheFaults' \in 0 .. MaxCacheFaults /\ cacheFaults' # 0
    BY <1>1, CacheTypes, CacheConstants
<1>3. /\ CacheTypeOK' /\ RequestsOK' /\ ContentsOK' /\ MeetingsOK' /\ ServedOfSameKey'
      /\ \A s \in Queries : Key(s)' = Key(s) /\ Begun(s)' = Begun(s)
      /\ ~ Writing(r)'
      /\ \A s \in Queries \ {r} : query'[s] = query[s]
    BY <1>1, <1>2, CacheTypes, DoneKeeps
<1>4. NamesOK'
    BY <1>1, <1>3 DEF CacheInv, NamesOK, Named
<1>5. RenamesOK'
    <2> SUFFICES ASSUME NEW s \in Queries, Writing(s)', s \notin met
                 PROVE  tmpAt[Key(s)] # NoFile
        BY <1>1, <1>3 DEF RenamesOK
    <2>1. Writing(s)
        BY <1>3 DEF Writing
    <2> QED
        BY <2>1 DEF CacheInv, RenamesOK
<1>6. FilledOK' /\ FailsOnlyWhenMet'
    BY <1>2 DEF FilledOK, FailsOnlyWhenMet
<1> QED
    BY <1>3, <1>4, <1>5, <1>6 DEF CacheInv

(* A crash ends the requests; it counts as a fault. *)
LEMMA CacheCrashKeeps ==
    ASSUME CacheInv, CacheCrash
    PROVE  CacheInv'
<1>1. /\ UNCHANGED <<keyOf, finds, file, entryAt, tmpAt, served, met>>
      /\ query' = [r \in Queries |->
                     IF Busy(r) THEN [query[r] EXCEPT !.at = "done"] ELSE query[r]]
      /\ cacheFaults' = cacheFaults + 1 /\ cacheFaults < MaxCacheFaults
    BY DEF CacheCrash
<1>2. cacheFaults' \in 0 .. MaxCacheFaults /\ cacheFaults' # 0
    BY <1>1, CacheTypes, CacheConstants
<1>3. \A r \in Queries : /\ query'[r].problem = query[r].problem
                         /\ query'[r].at = IF Busy(r) THEN "done" ELSE query[r].at
                         /\ query'[r].inode = query[r].inode
    BY <1>1, CacheTypes
<1>4. query' \in [Queries -> [at : CacheStages, problem : Problems \cup {NoFile},
                              inode : Queries \cup {NoFile}]]
    BY <1>1, CacheTypes, SMTT(30) DEF CacheStages
<1>5. \A r \in Queries : /\ Begun(r)' = Begun(r) /\ Key(r)' = Key(r)
                         /\ ~ Busy(r)' /\ ~ Writing(r)'
    BY <1>1, <1>3 DEF Begun, Key, Busy, Writing
<1>6. CacheTypeOK'
    BY <1>1, <1>2, <1>4, CacheTypes DEF CacheTypeOK
<1>7. MeetingsOK' /\ RenamesOK'
    BY <1>5 DEF MeetingsOK, RenamesOK
<1>8. RequestsOK'
    <2>1. \A r \in Queries : /\ Begun(r)' => query'[r].problem \in Problems
                             /\ ~ Begun(r)' => served'[r] = Unanswered
        BY <1>1, <1>3, <1>5 DEF CacheInv, RequestsOK
    <2> QED
        BY <1>5, <2>1 DEF RequestsOK
<1>9. NamesOK'
    BY <1>1, <1>5 DEF CacheInv, NamesOK, Named
<1>10. ContentsOK'
    <2> SUFFICES ASSUME NEW i \in Queries,
                        NEW a \in {file[i].first, file[i].second} \ {Nothing}
                 PROVE  Begun(i)' /\ FoundFor(Key(i), a)'
        BY <1>1 DEF ContentsOK
    <2>1. Begun(i) /\ FoundFor(Key(i), a)
        BY DEF CacheInv, ContentsOK
    <2> QED
        BY <1>1, <1>5, <2>1 DEF FoundFor
<1>11. ServedOfSameKey'
    BY <1>1, <1>3 DEF CacheInv, ServedOfSameKey
<1>12. FilledOK' /\ FailsOnlyWhenMet'
    BY <1>2 DEF FilledOK, FailsOnlyWhenMet
<1> QED
    BY <1>6, <1>7, <1>8, <1>9, <1>10, <1>11, <1>12 DEF CacheInv

(* A request serves the entry of its key, if it can be read, or goes on to *)
(* write one.                                                              *)
LEMMA ReadKeeps ==
    ASSUME CacheInv, NEW r \in Queries, NEW p \in Problems, Read(r, p)
    PROVE  CacheInv'
<1> DEFINE k == keyOf[p]
           others == {s \in Queries : Busy(s) /\ Key(s) = k}
           e == entryAt[k]
           q == query'[r]
<1>1. /\ UNCHANGED <<keyOf, finds, file, entryAt, tmpAt, cacheFaults>>
      /\ ~ Begun(r) /\ k \in CacheKeys
      /\ met' = IF others = {} THEN met ELSE met \cup others \cup {r}
    BY CacheTypes DEF Read, At, Begun
<1>2. PICK at \in {"done", "create"} :
         /\ query' = [query EXCEPT ![r] = [Waiting EXCEPT !.at = at, !.problem = p]]
         /\ \/ /\ Readable(e) /\ served' = [served EXCEPT ![r] = file[e]] /\ at = "done"
            \/ /\ ~ Readable(e) /\ finds[p] = IoError
               /\ served' = [served EXCEPT ![r] = IoError] /\ at = "done"
            \/ ~ Readable(e) /\ finds[p] # IoError /\ served' = served /\ at = "create"
    BY DEF Read
<1>3. /\ q = [at |-> at, problem |-> p, inode |-> NoFile]
      /\ \A s \in Queries \ {r} : query'[s] = query[s]
      /\ query' \in [Queries -> [at : CacheStages, problem : Problems \cup {NoFile},
                                 inode : Queries \cup {NoFile}]]
    BY <1>2, CacheTypes DEF Waiting, CacheStages
<1>4. /\ Begun(r)' /\ Key(r)' = k /\ ~ Writing(r)' /\ q.problem = p /\ q.at = at
    BY <1>1, <1>3 DEF Begun, Key, Writing
<1>5. \A s \in Queries \ {r} : /\ Begun(s)' = Begun(s) /\ Key(s)' = Key(s)
                               /\ Busy(s)' = Busy(s) /\ Writing(s)' = Writing(s)
    BY <1>1, <1>3 DEF Begun, Key, Busy, Writing
<1>6. Readable(e) => /\ e \in Queries /\ Begun(e) /\ Key(e) = k /\ file[e] \in [first : Halves, second : Halves]
                     /\ \A a \in {file[e].first, file[e].second} : FoundFor(k, a)
    BY <1>1, CacheTypes DEF Readable, CacheInv, NamesOK, Named, ContentsOK
<1>7. /\ served' \in [Queries -> [first : Halves, second : Halves] \cup {IoError, Unanswered}]
      /\ \A s \in Queries \ {r} : served'[s] = served[s]
      /\ served'[r] \in {Unanswered, IoError} \/ (Readable(e) /\ served'[r] = file[e])
      /\ served'[r] = IoError => finds[p] = IoError
    <2>1. served[r] = Unanswered
        BY <1>1 DEF CacheInv, RequestsOK
    <2>2. CASE Readable(e) /\ served' = [served EXCEPT ![r] = file[e]]
        BY <1>6, <2>2, CacheTypes, CacheConstants
    <2>3. CASE finds[p] = IoError /\ served' = [served EXCEPT ![r] = IoError]
        BY <2>3, CacheTypes
    <2>4. CASE served' = served
        BY <2>1, <2>4, CacheTypes, CacheConstants
    <2> QED
        BY <1>2, <2>2, <2>3, <2>4
<1>8. at = "create" => finds[p] \in Answers
    BY <1>2, CacheTypes
<1>9. met \subseteq met' /\ met' \subseteq Queries
    BY <1>1, CacheTypes
<1> HIDE DEF q, e
<1>10. CacheTypeOK'
    BY <1>1, <1>3, <1>7, <1>9, CacheTypes DEF CacheTypeOK
<1>11. RequestsOK'
    <2> SUFFICES ASSUME NEW s \in Queries
                 PROVE  /\ Begun(s)' => query'[s].problem \in Problems
                        /\ ~ Begun(s)' => served'[s] = Unanswered
                        /\ Busy(s)' => finds[query'[s].problem] \in Answers
                        /\ Writing(s)' => \E i \in Queries : /\ query'[s].inode = i
                                                              /\ Begun(i)' /\ Key(i)' = Key(s)'
        BY <1>1 DEF RequestsOK
    <2>1. CASE s = r
        <3>1. query'[s].problem = p /\ query'[s].at = at
            BY <1>4, <2>1 DEF q
        <3> QED
            BY <1>4, <1>8, <2>1, <3>1 DEF Busy
    <2>2. CASE s # r
        <3>1. query'[s] = query[s] /\ served'[s] = served[s]
            BY <1>3, <1>7, <2>2
        <3>2. \A i \in Queries : Begun(i) => Begun(i)' /\ Key(i)' = Key(i)
            BY <1>1, <1>5
        <3> QED
            BY <1>5, <2>2, <3>1, <3>2 DEF CacheInv, RequestsOK
    <2> QED
        BY <2>1, <2>2
<1>12. NamesOK'
    <2> SUFFICES ASSUME NEW l \in CacheKeys, NEW i \in Named(l)
                 PROVE  i \in Queries /\ Begun(i)' /\ Key(i)' = l
        BY <1>1 DEF NamesOK, Named
    <2>1. i \in Queries /\ Begun(i) /\ Key(i) = l
        BY DEF CacheInv, NamesOK
    <2> QED
        BY <1>1, <1>5, <2>1
<1>13. ContentsOK'
    <2> SUFFICES ASSUME NEW i \in Queries,
                        NEW a \in {file[i].first, file[i].second} \ {Nothing}
                 PROVE  Begun(i)' /\ FoundFor(Key(i), a)'
        BY <1>1 DEF ContentsOK
    <2>1. Begun(i) /\ FoundFor(Key(i), a)
        BY DEF CacheInv, ContentsOK
    <2>2. i # r
        BY <1>1, <2>1
    <2> QED
        BY <1>1, <1>5, <2>1, <2>2 DEF FoundFor
<1>14. MeetingsOK'
    <2> SUFFICES ASSUME NEW s \in Queries, NEW t \in Queries,
                        s # t, Busy(s)', Busy(t)', Key(s)' = Key(t)'
                 PROVE  s \in met' /\ t \in met'
        BY DEF MeetingsOK
    <2>1. CASE s # r /\ t # r
        BY <1>5, <1>9, <2>1 DEF CacheInv, MeetingsOK
    <2>2. CASE s = r
        <3>1. t \in others
            BY <1>4, <1>5, <2>2
        <3> QED
            BY <1>1, <2>2, <3>1
    <2>3. CASE t = r
        <3>1. s \in others
            BY <1>4, <1>5, <2>3
        <3> QED
            BY <1>1, <2>3, <3>1
    <2> QED
        BY <2>1, <2>2, <2>3
<1>15. RenamesOK'
    <2> SUFFICES ASSUME NEW s \in Queries, Writing(s)', s \notin met'
                 PROVE  tmpAt[Key(s)'] # NoFile
        BY <1>1 DEF RenamesOK
    <2>1. s # r /\ Writing(s) /\ Key(s)' = Key(s)
        BY <1>4, <1>5
    <2> QED
        BY <1>9, <2>1 DEF CacheInv, RenamesOK
<1>16. FilledOK'
    <2> SUFFICES ASSUME cacheFaults = 0, NEW l \in CacheKeys, NEW i \in Named(l)
                 PROVE  /\ file[i].first = Nothing => FillsFirst(i)'
                        /\ file[i].second = Nothing => FillsSecond(i)'
        BY <1>1 DEF FilledOK, Named
    <2>1. /\ FillsFirst(i) => FillsFirst(i)'
          /\ FillsSecond(i) => FillsSecond(i)'
        BY <1>1, <1>3 DEF FillsFirst, FillsSecond, At, Begun
    <2> QED
        BY <2>1 DEF CacheInv, FilledOK
<1>17. ServedOfSameKey'
    <2> SUFFICES ASSUME NEW s \in Queries, served'[s] \notin {Unanswered, IoError},
                        NEW a \in {served'[s].first, served'[s].second}
                 PROVE  \E o \in Problems : keyOf[o] = keyOf[query'[s].problem] /\ finds[o] = a
        BY <1>1 DEF ServedOfSameKey
    <2>1. CASE s = r
        <3>1. query'[s].problem = p
            BY <1>4, <2>1 DEF q
        <3>2. FoundFor(k, a)
            BY <1>6, <1>7, <2>1
        <3> QED
            BY <3>1, <3>2 DEF FoundFor
    <2>2. CASE s # r
        BY <1>3, <1>7, <2>2 DEF CacheInv, ServedOfSameKey
    <2> QED
        BY <2>1, <2>2
<1>18. FailsOnlyWhenMet'
    <2> SUFFICES ASSUME NEW s \in Queries, served'[s] = IoError, cacheFaults = 0, s \notin met'
                 PROVE  finds[query'[s].problem] = IoError
        BY <1>1 DEF FailsOnlyWhenMet
    <2>1. CASE s = r
        BY <1>4, <1>7, <2>1 DEF q
    <2>2. CASE s # r
        BY <1>3, <1>7, <1>9, <2>2 DEF CacheInv, FailsOnlyWhenMet
    <2> QED
        BY <2>1, <2>2
<1> QED
    BY <1>10, <1>11, <1>12, <1>13, <1>14, <1>15, <1>16, <1>17, <1>18 DEF CacheInv

LEMMA CacheInvHolds == CacheSpec => []CacheInv
<1>1. CacheInit => CacheInv
    BY CacheStarts
<1>2. CacheInv /\ [CacheNext]_cacheVars => CacheInv'
    <2> SUFFICES ASSUME CacheInv, [CacheNext]_cacheVars
                 PROVE  CacheInv'
        OBVIOUS
    <2>1. CASE UNCHANGED cacheVars
        <3>1. UNCHANGED <<keyOf, finds, file, entryAt, tmpAt, query, served, met, cacheFaults>>
            BY <2>1 DEF cacheVars
        <3>2. \A r \in Queries : /\ Begun(r)' = Begun(r) /\ Key(r)' = Key(r)
                                 /\ Busy(r)' = Busy(r) /\ Writing(r)' = Writing(r)
            BY <3>1 DEF Begun, Key, Busy, Writing
        <3>3. RequestsOK' /\ NamesOK' /\ ContentsOK'
            BY <3>1, <3>2 DEF CacheInv, RequestsOK, NamesOK, Named, ContentsOK, FoundFor
        <3>4. MeetingsOK' /\ RenamesOK'
            BY <3>1, <3>2 DEF CacheInv, MeetingsOK, RenamesOK
        <3>5. FilledOK'
            BY <3>1 DEF CacheInv, FilledOK, Named, FillsFirst, FillsSecond, At
        <3>6. CacheTypeOK' /\ ServedOfSameKey' /\ FailsOnlyWhenMet'
            BY <3>1 DEF CacheInv, CacheTypeOK, ServedOfSameKey, FailsOnlyWhenMet
        <3> QED
            BY <3>3, <3>4, <3>5, <3>6 DEF CacheInv
    <2> QED
        BY <2>1, ReadKeeps, CreateKeeps, WriteKeeps, RenameKeeps, IoFailsKeeps, CacheCrashKeeps
        DEF CacheNext
<1> QED
    BY <1>1, <1>2, PTL DEF CacheSpec

(* What is served is whole and the request's own, if the key decides.      *)
LEMMA ServedWhole ==
    ASSUME CacheInv
    PROVE  ServedIsOwn
<1> SUFFICES ASSUME KeyDecides, NEW r \in Queries, served[r] \notin {Unanswered, IoError}
             PROVE  served[r] = Whole(finds[query[r].problem])
    BY DEF ServedIsOwn, OtherProblemsDetected
<1>1. query[r].problem \in Problems
    BY DEF CacheInv, RequestsOK
<1>2. \A a \in {served[r].first, served[r].second} : a = finds[query[r].problem]
    BY <1>1 DEF CacheInv, ServedOfSameKey, KeyDecides
<1>3. served[r] \in [first : Halves, second : Halves]
    BY CacheTypes
<1> QED
    BY <1>2, <1>3 DEF Whole

(* When all requests are done, nobody is left to write, so all is written. *)
LEMMA QuietWhole ==
    ASSUME CacheInv
    PROVE  QuietEntryIsWhole
<1> SUFFICES ASSUME cacheFaults = 0, \A r \in Queries : ~ Busy(r),
                    NEW k \in CacheKeys, entryAt[k] # NoFile
             PROVE  Readable(entryAt[k])
    BY DEF QuietEntryIsWhole
<1>1. entryAt[k] \in Named(k)
    BY DEF Named
<1>2. ~ FillsFirst(entryAt[k]) /\ ~ FillsSecond(entryAt[k])
    BY DEF FillsFirst, FillsSecond, At, Busy
<1> QED
    BY <1>1, <1>2 DEF CacheInv, FilledOK, Readable

(* Whatever requests meet over the two files of a key, and wherever a      *)
(* crash cuts them short, what is served was computed whole for problems   *)
(* of the key, is the request's own if the key decides, and a request      *)
(* fails only for a cause (preschedule_cache.rs:35-70).                    *)
THEOREM CacheServesWholeAnswers == CacheSpec => []CacheIsTransparent
<1>1. CacheInv => CacheIsTransparent
    BY ServedWhole, QuietWhole DEF CacheInv, CacheIsTransparent
<1> QED
    BY <1>1, CacheInvHolds, PTL
-----------------------------------------------------------------------------
(* The library as a whole *)

(* Put together, each part still behaves as it does alone.                 *)
LEMMA PartsBehave ==
    LibrarySpec => ProblemSpec /\ PreschedulerSpec /\ CacheSpec /\ TreeSpec
<1>1. LibraryInit => ProblemInit /\ PreschedulerInit /\ CacheInit /\ TreeInit
    BY DEF LibraryInit
<1>2. ASSUME LibraryNext
      PROVE  /\ ProblemNext \/ UNCHANGED problemVars
             /\ PreschedulerNext \/ UNCHANGED preschedulerVars
             /\ CacheNext \/ UNCHANGED cacheVars
             /\ TreeNext \/ UNCHANGED treeVars
    BY <1>2, Zenon DEF LibraryNext, TreeMoves, ProblemMoves, PreschedulerMoves, CacheMoves
<1>3. UNCHANGED libraryVars =>
        UNCHANGED problemVars /\ UNCHANGED preschedulerVars /\ UNCHANGED cacheVars /\ UNCHANGED treeVars
    BY DEF libraryVars
<1>4. [LibraryNext]_libraryVars => [ProblemNext]_problemVars /\ [PreschedulerNext]_preschedulerVars
                                   /\ [CacheNext]_cacheVars /\ [TreeNext]_treeVars
    BY <1>2, <1>3
<1> QED
    BY <1>1, <1>4, PTL DEF LibrarySpec, ProblemSpec, PreschedulerSpec, CacheSpec, TreeSpec

(* However the steps of the parts interleave, problem, schedule, memo and  *)
(* cache hold values of their types (problem.rs, prescheduler/mod.rs,      *)
(* preschedule_cache.rs).                                                  *)
THEOREM LibraryKeepsTypes == LibrarySpec => []LibraryTypeOK
<1>1. MemoInv => PreschedulerTypeOK
    BY DEF MemoInv
<1>2. CacheInv => CacheTypeOK
    BY DEF CacheInv
<1>3. ProblemTypeOK /\ PreschedulerTypeOK /\ CacheTypeOK => LibraryTypeOK
    BY DEF LibraryTypeOK
<1> QED
    BY <1>1, <1>2, <1>3, PartsBehave, ProblemTypeCorrect, MemoInvHolds, CacheInvHolds, PTL
=============================================================================
