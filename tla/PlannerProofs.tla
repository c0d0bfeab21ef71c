--------------------------- MODULE PlannerProofs ---------------------------
(***************************************************************************)
(* Proofs about the accumulative planner, for any problems, configurations *)
(* and numbers of tasks and blocks: its schedules are valid, its repair    *)
(* cycles drain their lobby, it keeps the promise of module Accumulation,  *)
(* its state keeps its types, and the best schedule never gets worse.      *)
(***************************************************************************)
EXTENDS PlannerProperties, FiniteLemmas

-----------------------------------------------------------------------------
(* The turns of the blocks *)

(* Every block has its turn, and no two at once.                           *)
LEMMA Turns ==
    ASSUME problem \in Problems
    PROVE  /\ \A b \in Blocks : Turn(b) \in 0 .. Cardinality(Blocks) - 1
           /\ \A b, c \in Blocks : Turn(b) = Turn(c) => b = c
           /\ \A i \in 0 .. Cardinality(Blocks) - 1 : \E b \in Blocks : Turn(b) = i
<1> DEFINE R == {p \in Blocks \X Blocks :
                   \/ problem.priority[p[1]] > problem.priority[p[2]]
                   \/ problem.priority[p[1]] = problem.priority[p[2]] /\ p[1] < p[2]}
<1>1. problem.priority \in [Blocks -> Int]
    BY PlannerProblems DEF ProblemRecord
<1>2. StrictTotalOrder(Blocks, R)
    <2>1. Blocks \subseteq Int
        BY PlannerBlocks
    <2>2. \A b, c \in Blocks : <<b, c>> \in R <=>
            \/ problem.priority[b] > problem.priority[c]
            \/ problem.priority[b] = problem.priority[c] /\ b < c
        OBVIOUS
    <2> HIDE DEF R
    <2> QED
        BY <1>1, <2>1, <2>2 DEF StrictTotalOrder
<1>3. \A b \in Blocks : Turn(b) = Cardinality(Preceding(Blocks, R, b))
    BY DEF Turn, Preceding
<1> HIDE DEF R
<1>4. /\ \A b \in Blocks : Cardinality(Preceding(Blocks, R, b)) \in 0 .. Cardinality(Blocks) - 1
      /\ \A b, c \in Blocks :
            Cardinality(Preceding(Blocks, R, b)) = Cardinality(Preceding(Blocks, R, c)) => b = c
      /\ \A i \in 0 .. Cardinality(Blocks) - 1 :
            \E b \in Blocks : Cardinality(Preceding(Blocks, R, b)) = i
    <2>1. IsFiniteSet(Blocks)
        BY PlannerBlocks
    <2> QED
        BY <1>2, <2>1, RankIsBijective
<1> QED
    BY <1>3, <1>4

-----------------------------------------------------------------------------
(* Schedules *)

Schedules == UNION {[S -> Int] : S \in SUBSET Tasks}

(* Valid, of a problem p: without the variables, so that it is easy to see *)
(* that it stays true.                                                     *)
SoundFor(p, s) ==
    /\ s \in Schedules
    /\ \A t \in DOMAIN s : \E w \in p.windows[t] :
          w.start <= s[t] /\ s[t] + p.dur[t] <= w.end
    /\ \A t, u \in DOMAIN s : t # u =>
          ~ (s[t] < s[u] + p.dur[u] /\ s[u] < s[t] + p.dur[t])

LEMMA ProblemTypes ==
    ASSUME problem \in Problems
    PROVE  /\ problem.windows \in [Tasks -> SUBSET PeriodsOver(Int)]
           /\ problem.dur \in [Tasks -> Nat \ {0}]
           /\ problem.owner \in [Tasks -> Blocks]
           /\ problem.branches \in [Blocks -> Seq(Seq(Tasks))]
BY PlannerProblems DEF ProblemRecord

LEMMA ScheduleFacts ==
    ASSUME NEW s \in Schedules
    PROVE  Placed(s) \subseteq Tasks /\ \A t \in Placed(s) : s[t] \in Int
BY DEF Schedules, Placed

LEMMA SoundIsValid ==
    ASSUME NEW s, SoundFor(problem, s)
    PROVE  Valid(s)
BY DEF SoundFor, Valid, Placed, Interval, Inside, Overlaps

LEMMA EmptyIsSound ==
    ASSUME NEW p
    PROVE  SoundFor(p, Empty) /\ Placed(Empty) = {}
<1>1. Empty \in [{} -> Int] /\ DOMAIN Empty = {}
    BY DEF Empty
<1>2. Empty \in Schedules
    BY <1>1 DEF Schedules
<1> QED
    BY <1>1, <1>2 DEF SoundFor, Placed

(* A candidate start lets the task lie in one of its windows.              *)
LEMMA StartFits ==
    ASSUME problem \in Problems, NEW s \in Schedules, NEW t \in Tasks,
           NEW x \in Starts(t, s)
    PROVE  /\ x \in Int
           /\ \E w \in problem.windows[t] : w.start <= x /\ x + problem.dur[t] <= w.end
<1>1. PICK w \in problem.windows[t] :
        /\ x \in {w.start} \cup {Interval(s, u).end : u \in Overlapping(s, w)}
        /\ x + problem.dur[t] <= w.end
    BY DEF Starts
<1>2. w.start \in Int /\ w.end \in Int
    BY ProblemTypes DEF PeriodsOver
<1>3. ASSUME NEW u \in Overlapping(s, w)
      PROVE  Interval(s, u).end \in Int /\ w.start < Interval(s, u).end
    BY <1>2, ProblemTypes, ScheduleFacts DEF Overlapping, Interval, Overlaps, Placed
<1> QED
    BY <1>1, <1>2, <1>3

(* What a task displaces, and what is left where it was.                   *)
LEMMA InsertPlaces ==
    ASSUME NEW s, NEW t, NEW x
    PROVE  /\ Displaced(t, s, x) \subseteq Placed(s)
           /\ Placed(Insert(t, s, x)) = (Placed(s) \ Displaced(t, s, x)) \cup {t}
           /\ Insert(t, s, x)[t] = x
           /\ \A u \in Placed(s) \ Displaced(t, s, x) : u # t => Insert(t, s, x)[u] = s[u]
BY DEF Displaced, Overlapping, Insert, Placed

LEMMA InsertIsSound ==
    ASSUME problem \in Problems, NEW s, SoundFor(problem, s),
           NEW t \in Tasks, t \notin Placed(s), NEW x \in Starts(t, s)
    PROVE  SoundFor(problem, Insert(t, s, x))
<1> DEFINE r == Insert(t, s, x)
<1> DEFINE D == Displaced(t, s, x)
<1>1. s \in Schedules
    BY DEF SoundFor
<1>2. x \in Int /\ \E w \in problem.windows[t] : w.start <= x /\ x + problem.dur[t] <= w.end
    BY <1>1, StartFits
<1>3. /\ DOMAIN r = (DOMAIN s \ D) \cup {t}
      /\ r[t] = x
      /\ \A u \in DOMAIN s \ D : u # t /\ r[u] = s[u]
    <2>1. /\ Placed(r) = (Placed(s) \ D) \cup {t}
          /\ r[t] = x
          /\ \A u \in Placed(s) \ D : u # t => r[u] = s[u]
        BY InsertPlaces
    <2> HIDE DEF r, D
    <2> QED
        BY <2>1 DEF Placed
<1>4. ASSUME NEW u \in DOMAIN s \ D
      PROVE  ~ (s[u] < x + problem.dur[t] /\ x < s[u] + problem.dur[u])
    BY DEF Displaced, Overlapping, Interval, Overlaps, Placed
<1>5. r \in Schedules
    <2>1. r \in [(DOMAIN s \ D) \cup {t} -> Int]
        BY <1>1, <1>2, ScheduleFacts DEF Insert, Placed
    <2>2. (DOMAIN s \ D) \cup {t} \in SUBSET Tasks
        BY <1>1, ScheduleFacts DEF Placed
    <2> QED
        BY <2>1, <2>2 DEF Schedules
<1> HIDE DEF r, D
<1>6. ASSUME NEW u \in DOMAIN r
      PROVE  \E w \in problem.windows[u] : w.start <= r[u] /\ r[u] + problem.dur[u] <= w.end
    BY <1>2, <1>3 DEF SoundFor
<1>7. ASSUME NEW u \in DOMAIN r, NEW v \in DOMAIN r, u # v
      PROVE  ~ (r[u] < r[v] + problem.dur[v] /\ r[v] < r[u] + problem.dur[u])
    <2>1. CASE u = t
        BY <1>3, <1>4, <1>7, <2>1
    <2>2. CASE v = t
        BY <1>3, <1>4, <1>7, <2>2
    <2>3. CASE u # t /\ v # t
        BY <1>3, <1>7, <2>3 DEF SoundFor
    <2> QED
        BY <2>1, <2>2, <2>3
<1> QED
    BY <1>5, <1>6, <1>7 DEF SoundFor, r

(* Placed tasks have starts of their own.                                  *)
LEMMA StartsDiffer ==
    ASSUME problem \in Problems, NEW s, SoundFor(problem, s),
           NEW u \in Placed(s), NEW v \in Placed(s), s[u] = s[v]
    PROVE  u = v
<1>1. s[u] \in Int /\ problem.dur[u] \in Nat \ {0} /\ problem.dur[v] \in Nat \ {0}
    BY ScheduleFacts, ProblemTypes DEF SoundFor
<1> QED
    BY <1>1 DEF SoundFor, Placed

(* The displaced tasks are listed once each.                               *)
LEMMA ByStartLists ==
    ASSUME NEW s, NEW D, IsFiniteSet(D), \A u \in D : s[u] \in Int,
           \A u, v \in D : s[u] = s[v] => u = v
    PROVE  /\ Cardinality(D) \in Nat
           /\ ByStart(s, D) \in [1 .. Cardinality(D) -> D]
           /\ \A u \in D : \E i \in 1 .. Cardinality(D) : ByStart(s, D)[i] = u
           /\ \A i, j \in 1 .. Cardinality(D) : ByStart(s, D)[i] = ByStart(s, D)[j] => i = j
<1> DEFINE R == {p \in D \X D : s[p[1]] < s[p[2]]}
<1> DEFINE n == Cardinality(D)
<1> DEFINE rank(u) == Cardinality({v \in D : s[v] < s[u]})
<1>1. n \in Nat
    BY FS_CardinalityType
<1>2. \A u, v \in D : <<u, v>> \in R <=> s[u] < s[v]
    OBVIOUS
<1>3. StrictTotalOrder(D, R)
    <2> HIDE DEF R
    <2> QED
        BY <1>2 DEF StrictTotalOrder
<1>4. \A u \in D : rank(u) = Cardinality(Preceding(D, R, u))
    BY DEF Preceding
<1>5. /\ \A u \in D : Cardinality(Preceding(D, R, u)) \in 0 .. Cardinality(D) - 1
      /\ \A u, v \in D :
            Cardinality(Preceding(D, R, u)) = Cardinality(Preceding(D, R, v)) => u = v
      /\ \A i \in 0 .. Cardinality(D) - 1 :
            \E u \in D : Cardinality(Preceding(D, R, u)) = i
    <2> HIDE DEF R
    <2> QED
        BY <1>3, RankIsBijective
<1>6. /\ \A u \in D : rank(u) \in 0 .. n - 1
      /\ \A u, v \in D : rank(u) = rank(v) => u = v
      /\ \A i \in 0 .. n - 1 : \E u \in D : rank(u) = i
    <2> HIDE DEF R, rank
    <2> QED
        BY <1>4, <1>5
<1>7. /\ DOMAIN ByStart(s, D) = 1 .. n
      /\ ByStart(s, D) = [i \in 1 .. n |-> CHOOSE u \in D : rank(u) = i - 1]
    BY DEF ByStart
<1> HIDE DEF n, rank
<1>8. ASSUME NEW i \in 1 .. n
      PROVE  ByStart(s, D)[i] \in D /\ rank(ByStart(s, D)[i]) = i - 1
    <2>1. i - 1 \in 0 .. n - 1
        BY <1>1
    <2>2. \E u \in D : rank(u) = i - 1
        BY <1>6, <2>1
    <2> QED
        BY <1>7, <2>2
<1>9. ASSUME NEW u \in D
      PROVE  \E i \in 1 .. n : ByStart(s, D)[i] = u
    <2>1. rank(u) \in 0 .. n - 1
        BY <1>6
    <2>2. rank(u) + 1 \in 1 .. n /\ (rank(u) + 1) - 1 = rank(u)
        BY <1>1, <2>1
    <2>3. rank(ByStart(s, D)[rank(u) + 1]) = rank(u) /\ ByStart(s, D)[rank(u) + 1] \in D
        BY <1>8, <2>2
    <2> QED
        BY <1>6, <2>2, <2>3
<1>10. ASSUME NEW i \in 1 .. n, NEW j \in 1 .. n, ByStart(s, D)[i] = ByStart(s, D)[j]
       PROVE  i = j
    <2>1. i - 1 = j - 1
        BY <1>8, <1>10
    <2> QED
        BY <1>1, <2>1
<1>11. ByStart(s, D) \in [1 .. n -> D]
    BY <1>7, <1>8
<1> QED
    BY <1>1, <1>9, <1>10, <1>11 DEF n

-----------------------------------------------------------------------------
(* Lists without repetitions *)

Distinct(q) == \A i, j \in DOMAIN q : q[i] = q[j] => i = j

LEMMA DistinctLength ==
    ASSUME NEW q \in Seq(Tasks), Distinct(q)
    PROVE  Cardinality(Image(q)) = Len(q)
<1>1. DOMAIN q = 1 .. Len(q) /\ Len(q) \in Nat
    OBVIOUS
<1>2. q \in [1 .. Len(q) -> Image(q)]
    BY <1>1 DEF Image
<1>3. q \in Surjection(1 .. Len(q), Image(q))
    BY <1>1, <1>2 DEF Image, Surjection
<1>4. q \in Injection(1 .. Len(q), Image(q))
    BY <1>1, <1>2, Fun_IsInj DEF Distinct
<1>5. IsFiniteSet(1 .. Len(q)) /\ Cardinality(1 .. Len(q)) = Len(q)
    BY <1>1, FS_Interval
<1> QED
    BY <1>3, <1>4, <1>5, FS_Surjection

(* The last of a list, and the rest.                                       *)
LEMMA LastAndRest ==
    ASSUME NEW q \in Seq(Tasks), Distinct(q), q # <<>>,
           NEW rest, rest = SubSeq(q, 1, Len(q) - 1)
    PROVE  /\ rest \in Seq(Tasks) /\ Distinct(rest)
           /\ Len(q) \in Nat /\ Len(rest) = Len(q) - 1
           /\ q[Len(q)] \in Tasks /\ q[Len(q)] \notin Image(rest)
           /\ Image(q) = Image(rest) \cup {q[Len(q)]}
<1> DEFINE n == Len(q)
<1>1. n \in Nat /\ n >= 1 /\ DOMAIN q = 1 .. n
    OBVIOUS
<1>2. /\ rest \in Seq(Tasks) /\ Len(rest) = n - 1 /\ DOMAIN rest = 1 .. n - 1
      /\ \A i \in 1 .. n - 1 : rest[i] = q[i]
    BY <1>1
<1>3. q[n] \in Tasks
    BY <1>1
<1>4. Distinct(rest)
    BY <1>1, <1>2 DEF Distinct
<1>5. q[n] \notin Image(rest)
    BY <1>1, <1>2 DEF Distinct, Image
<1>6. Image(q) = Image(rest) \cup {q[n]}
    <2>1. \A i \in 1 .. n : i = n \/ i \in 1 .. n - 1
        <3> HIDE DEF n
        <3> QED
            BY <1>1
    <2>2. Image(q) \subseteq Image(rest) \cup {q[n]}
        BY <1>1, <1>2, <2>1 DEF Image
    <2>3. Image(rest) \subseteq Image(q)
        BY <1>1, <1>2 DEF Image
    <2>4. q[n] \in Image(q)
        BY <1>1 DEF Image
    <2> QED
        BY <2>2, <2>3, <2>4
<1> QED
    BY <1>1, <1>2, <1>3, <1>4, <1>5, <1>6

(* A list of D behind a list of other tasks.                               *)
LEMMA Appended ==
    ASSUME NEW q \in Seq(Tasks), Distinct(q),
           NEW D \in SUBSET Tasks, NEW n \in Nat, NEW l \in [1 .. n -> D],
           \A u \in D : \E i \in 1 .. n : l[i] = u,
           \A i, j \in 1 .. n : l[i] = l[j] => i = j,
           Image(q) \cap D = {}
    PROVE  /\ q \o l \in Seq(Tasks) /\ Distinct(q \o l)
           /\ Len(q \o l) = Len(q) + n
           /\ Image(q \o l) = Image(q) \cup D
<1> DEFINE m == Len(q)
<1> DEFINE r == q \o l
<1>1. m \in Nat /\ DOMAIN q = 1 .. m
    OBVIOUS
<1>2. l \in Seq(Tasks) /\ Len(l) = n /\ DOMAIN l = 1 .. n
    OBVIOUS
<1>3. /\ r \in Seq(Tasks) /\ Len(r) = m + n /\ DOMAIN r = 1 .. m + n
      /\ \A i \in 1 .. m : r[i] = q[i]
      /\ \A i \in 1 .. n : r[m + i] = l[i]
    BY <1>1, <1>2
<1> HIDE DEF r
<1>4. \A i \in 1 .. m + n : i \in 1 .. m \/ (i - m \in 1 .. n /\ r[i] = l[i - m])
    BY <1>1, <1>3
<1>5. \A i \in 1 .. m : r[i] \in Image(q)
    BY <1>1, <1>3 DEF Image
<1>6. \A i \in 1 .. m + n : i \in 1 .. m \/ r[i] \in D
    BY <1>2, <1>4
<1>7. Distinct(r)
    <2> SUFFICES ASSUME NEW i \in 1 .. m + n, NEW j \in 1 .. m + n, r[i] = r[j]
                 PROVE  i = j
        BY <1>3 DEF Distinct
    <2>1. CASE i \in 1 .. m /\ j \in 1 .. m
        <3>1. q[i] = q[j]
            BY <1>3, <2>1
        <3> QED
            BY <1>1, <2>1, <3>1 DEF Distinct
    <2>2. CASE i \in 1 .. m /\ j \notin 1 .. m
        BY <1>5, <1>6, <2>2
    <2>3. CASE i \notin 1 .. m /\ j \in 1 .. m
        BY <1>5, <1>6, <2>3
    <2>4. CASE i \notin 1 .. m /\ j \notin 1 .. m
        <3>1. i - m = j - m
            BY <1>4, <2>4
        <3> QED
            BY <1>1, <3>1
    <2> QED
        BY <2>1, <2>2, <2>3, <2>4
<1>8. Image(r) = Image(q) \cup D
    <2>1. Image(r) \subseteq Image(q) \cup D
        BY <1>3, <1>5, <1>6 DEF Image
    <2>2. Image(q) \subseteq Image(r)
        BY <1>1, <1>3 DEF Image
    <2>3. ASSUME NEW u \in D
          PROVE  u \in Image(r)
        <3>1. PICK i \in 1 .. n : l[i] = u
            OBVIOUS
        <3>2. m + i \in 1 .. m + n /\ r[m + i] = u
            BY <1>1, <1>3, <3>1
        <3> QED
            BY <1>3, <3>2 DEF Image
    <2> QED
        BY <2>1, <2>2, <2>3
<1> QED
    BY <1>3, <1>7, <1>8 DEF r

(* The lobby, with the displaced tasks in the order of their starts.       *)
LEMMA LobbyGrows ==
    ASSUME NEW q \in Seq(Tasks), Distinct(q),
           NEW s, NEW D \in SUBSET Tasks, IsFiniteSet(D), \A u \in D : s[u] \in Int,
           \A u, v \in D : s[u] = s[v] => u = v,
           Image(q) \cap D = {}
    PROVE  /\ q \o ByStart(s, D) \in Seq(Tasks) /\ Distinct(q \o ByStart(s, D))
           /\ Len(q \o ByStart(s, D)) = Len(q) + Cardinality(D)
           /\ Image(q \o ByStart(s, D)) = Image(q) \cup D
<1> DEFINE l == ByStart(s, D)
<1>1. /\ Cardinality(D) \in Nat /\ l \in [1 .. Cardinality(D) -> D]
      /\ \A u \in D : \E i \in 1 .. Cardinality(D) : l[i] = u
      /\ \A i, j \in 1 .. Cardinality(D) : l[i] = l[j] => i = j
    BY ByStartLists
<1> HIDE DEF l
<1>2. /\ q \o l \in Seq(Tasks) /\ Distinct(q \o l)
      /\ Len(q \o l) = Len(q) + Cardinality(D)
      /\ Image(q \o l) = Image(q) \cup D
    BY <1>1, Appended
<1> QED
    BY <1>2 DEF l

-----------------------------------------------------------------------------
(* The inductive invariant *)

(* Tasks whose block has its r-th turn, and those that have it later.      *)
TurnFor(p, b) == Cardinality({c \in Blocks :
    \/ p.priority[c] > p.priority[b]
    \/ p.priority[c] = p.priority[b] /\ c < b})

InHand(p, r) == {t \in Tasks : TurnFor(p, p.owner[t]) = r - 1}
Waiting(p, r) == {t \in Tasks : TurnFor(p, p.owner[t]) >= r}

(* Every schedule is sound.                                                *)
SoundInv ==
    /\ problem \in Problems /\ config \in Configs
    /\ phase \in {"source", "branch", "task", "repair", "done"}
    /\ round \in 1 .. Cardinality(Blocks) + 1
    /\ source \in Nat
    /\ survivors \in Seq(Schedules)
    /\ IsFiniteSet(candidates)
    /\ \A s \in Image(survivors) \cup candidates \cup {base, working, best, before} \cup result :
          SoundFor(problem, s)

(* No schedule holds a task of a block that has not had its turn.          *)
TurnInv ==
    /\ \A s \in Image(survivors) : Placed(s) \cap Waiting(problem, round - 1) = {}
    /\ \A s \in candidates : Placed(s) \cap Waiting(problem, round) = {}
    /\ phase \in {"branch", "task", "repair"} =>
          /\ round <= Cardinality(Blocks)
          /\ Placed(base) \cap Waiting(problem, round - 1) = {}

(* A branch lists tasks of the block in hand, without repetitions.         *)
BranchFits(p, r, q) == q \in Seq(Tasks) /\ Distinct(q) /\ Image(q) \subseteq InHand(p, r)

BranchInv ==
    /\ phase \in {"branch", "task", "repair"} =>
          branches \in Seq({q \in Seq(Tasks) : BranchFits(problem, round, q)})
    /\ phase \in {"task", "repair"} =>
          branches # <<>> /\ BranchFits(problem, round, todo)
    /\ phase = "task" =>
          Placed(working) \cap (Waiting(problem, round) \cup Image(todo)) = {}
    /\ phase = "repair" =>
          /\ todo # <<>>
          /\ Placed(before) \cap (Waiting(problem, round) \cup Image(todo)) = {}

(* In a repair cycle the placed and the waiting tasks are those of before, *)
(* and the one to place.  Every iteration uses up a task.                  *)
CycleInv ==
    phase = "repair" =>
       /\ lobby \in Seq(Tasks) /\ Distinct(lobby)
       /\ Image(lobby) \cap (Placed(working) \cup protected) = {}
       /\ protected \subseteq Placed(working)
       /\ Image(lobby) \cup Placed(working) \subseteq Placed(before) \cup {Head(todo)}
       /\ iter \in Nat
       /\ iter + Len(lobby) + Cardinality(Placed(working) \ protected) <= Cardinality(Tasks)
       /\ \/ working = before /\ Image(lobby) \subseteq {Head(todo)}
          \/ Head(todo) \in Placed(working) \cap protected
       /\ Placed(best) \subseteq Placed(before) \cup {Head(todo)}
       /\ best = before \/ Head(todo) \in Placed(best)

IInv == SoundInv /\ TurnInv /\ BranchInv /\ CycleInv

(* The block in hand, and what still waits.                                *)
LEMMA BlockInHand ==
    ASSUME problem \in Problems, round \in 1 .. Cardinality(Blocks)
    PROVE  /\ Block \in Blocks /\ Turn(Block) = round - 1
           /\ InHand(problem, round) = Members(Block)
<1>1. round - 1 \in 0 .. Cardinality(Blocks) - 1
    <2>1. Cardinality(Blocks) \in Nat
        BY PlannerBlocks, FS_CardinalityType
    <2> QED
        BY <2>1
<1>2. \E b \in Blocks : Turn(b) = round - 1
    BY <1>1, Turns
<1>3. Block \in Blocks /\ Turn(Block) = round - 1
    BY <1>2 DEF Block
<1>4. \A b \in Blocks : Turn(b) = round - 1 => b = Block
    BY <1>3, Turns
<1>5. \A b : TurnFor(problem, b) = Turn(b)
    BY DEF Turn, TurnFor
<1> QED
    BY <1>3, <1>4, <1>5, ProblemTypes DEF InHand, Members

LEMMA TurnNumbers ==
    ASSUME NEW p, NEW b
    PROVE  TurnFor(p, b) \in Nat
<1>1. \A S \in SUBSET Blocks : Cardinality(S) \in Nat
    BY PlannerBlocks, FS_Subset, FS_CardinalityType
<1> QED
    BY <1>1, Zenon DEF TurnFor

LEMMA WaitingFacts ==
    ASSUME NEW p, NEW r \in Int
    PROVE  /\ InHand(p, r) \subseteq Waiting(p, r - 1)
           /\ Waiting(p, r) \subseteq Waiting(p, r - 1)
           /\ InHand(p, r) \cap Waiting(p, r) = {}
<1>1. \A b : TurnFor(p, b) \in Int
    BY TurnNumbers
<1> QED
    BY <1>1 DEF InHand, Waiting

LEMMA BranchesFit ==
    ASSUME problem \in Problems, round \in 1 .. Cardinality(Blocks)
    PROVE  problem.branches[Block] \in Seq({q \in Seq(Tasks) : BranchFits(problem, round, q)})
<1> DEFINE l == problem.branches[Block]
<1>1. Block \in Blocks /\ InHand(problem, round) = Members(Block)
    BY BlockInHand
<1>2. l \in Seq(Seq(Tasks))
    BY <1>1, ProblemTypes
<1>3. ASSUME NEW i \in DOMAIN l
      PROVE  BranchFits(problem, round, l[i])
    <2>1. l[i] \in Seq(Tasks)
        BY <1>2
    <2>2. \A j \in DOMAIN l[i] :
             /\ problem.owner[l[i][j]] = Block
             /\ \A k \in DOMAIN l[i] : l[i][j] = l[i][k] => j = k
        BY <1>1, PlannerProblems
    <2>3. Distinct(l[i])
        BY <2>2 DEF Distinct
    <2>4. Image(l[i]) \subseteq Members(Block)
        BY <2>1, <2>2 DEF Image, Members
    <2> QED
        BY <1>1, <2>1, <2>3, <2>4 DEF BranchFits
<1> HIDE DEF l
<1>4. l \in Seq({q \in Seq(Tasks) : BranchFits(problem, round, q)})
    BY <1>2, <1>3
<1> QED
    BY <1>4 DEF l

LEMMA InitIInv == Init => IInv
<1> SUFFICES ASSUME Init
             PROVE  IInv
    OBVIOUS
<1>1. SoundFor(problem, Empty) /\ Placed(Empty) = {} /\ Empty \in Schedules
    BY EmptyIsSound DEF SoundFor
<1>2. survivors = <<Empty>> /\ Image(survivors) = {Empty}
    BY DEF Init, Image
<1>3. Cardinality(Blocks) \in Nat
    BY PlannerBlocks, FS_CardinalityType
<1>4. SoundInv
    <2>1. survivors \in Seq(Schedules)
        BY <1>1, <1>2
    <2>2. IsFiniteSet(candidates)
        BY FS_EmptySet DEF Init
    <2> QED
        BY <1>1, <1>2, <1>3, <2>1, <2>2 DEF Init, SoundInv
<1>5. TurnInv
    BY <1>1, <1>2 DEF Init, TurnInv
<1>6. BranchInv /\ CycleInv
    BY DEF Init, BranchInv, CycleInv
<1> QED
    BY <1>4, <1>5, <1>6 DEF IInv

(* What a configuration holds.                                             *)
LEMMA ConfigTypes ==
    ASSUME config \in Configs
    PROVE  config.population \in Nat \ {0} /\ config.keep \in Nat \ {0} /\ config.maxIter \in Nat
BY PlannerConfigs DEF ConfigRecord

(* The source of a turn is one of the survivors.                           *)
LEMMA SourceSurvived ==
    ASSUME survivors \in Seq(Schedules), survivors # <<>>, source \in Nat
    PROVE  survivors[(source % Len(survivors)) + 1] \in Image(survivors)
<1>1. Len(survivors) \in Nat \ {0} /\ DOMAIN survivors = 1 .. Len(survivors)
    OBVIOUS
<1>2. source % Len(survivors) \in 0 .. Len(survivors) - 1
    BY <1>1
<1>3. (source % Len(survivors)) + 1 \in 1 .. Len(survivors)
    BY <1>1, <1>2
<1> QED
    BY <1>1, <1>3 DEF Image

LEMMA BeginSourceKeeps ==
    ASSUME IInv, BeginSource
    PROVE  IInv'
<1>1. round \in 1 .. Cardinality(Blocks)
    BY DEF IInv, SoundInv, BeginSource, BlocksLeft
<1>2. base' \in Image(survivors)
    BY SourceSurvived DEF IInv, SoundInv, BeginSource
<1>3. candidates' \subseteq candidates \cup {base'} /\ IsFiniteSet(candidates')
    <2>1. candidates' = candidates \/ candidates' = candidates \cup {base'}
        BY DEF BeginSource, Rejection
    <2> QED
        BY <2>1, FS_AddElement DEF IInv, SoundInv
<1>4. Placed(base') \cap Waiting(problem, round - 1) = {}
    BY <1>2 DEF IInv, TurnInv
<1>5. Placed(base') \cap Waiting(problem, round) = {}
    BY <1>1, <1>4, WaitingFacts
<1>6. SoundInv'
    BY <1>2, <1>3 DEF IInv, SoundInv, BeginSource, rounds, cycle
<1>7. TurnInv'
    BY <1>1, <1>3, <1>4, <1>5 DEF IInv, TurnInv, BeginSource, rounds
<1>8. BranchInv'
    <2>1. branches' \in Seq({q \in Seq(Tasks) : BranchFits(problem, round, q)})
        BY <1>1, BranchesFit DEF IInv, SoundInv, BeginSource
    <2> QED
        BY <2>1 DEF BranchInv, BeginSource, rounds
<1>9. CycleInv'
    BY DEF CycleInv, BeginSource
<1> QED
    BY <1>6, <1>7, <1>8, <1>9 DEF IInv

LEMMA BeginBranchKeeps ==
    ASSUME IInv, BeginBranch
    PROVE  IInv'
<1>1. /\ UNCHANGED <<problem, config, round, survivors, candidates, source, base,
                      branches, best, before, result>>
      /\ phase = "branch" /\ phase' = "task" /\ working' = base
    BY DEF BeginBranch, rounds, sources, cycle
<1>2. /\ SoundInv' /\ TurnInv' /\ CycleInv'
    BY <1>1 DEF IInv, SoundInv, TurnInv, CycleInv
<1>3. BranchFits(problem, round, todo')
    BY DEF IInv, BranchInv, BeginBranch
<1>4. Placed(working') \cap (Waiting(problem, round) \cup Image(todo')) = {}
    <2>1. round \in Int
        BY DEF IInv, SoundInv
    <2>2. Placed(base) \cap Waiting(problem, round - 1) = {}
        BY <1>1 DEF IInv, TurnInv
    <2>3. Image(todo') \subseteq InHand(problem, round)
        BY <1>3 DEF BranchFits
    <2> QED
        BY <1>1, <2>1, <2>2, <2>3, WaitingFacts
<1>5. BranchInv'
    BY <1>1, <1>3, <1>4 DEF IInv, BranchInv, BeginBranch
<1> QED
    BY <1>2, <1>5 DEF IInv

LEMMA BeginCycleKeeps ==
    ASSUME IInv, BeginCycle
    PROVE  IInv'
<1>1. /\ UNCHANGED <<problem, config, round, survivors, candidates, source, base,
                      branches, todo, working, result>>
      /\ phase = "task" /\ phase' = "repair" /\ todo # <<>>
      /\ best' = working /\ before' = working /\ lobby' = <<Head(todo)>>
      /\ protected' = {} /\ iter' = 0
    BY DEF BeginCycle, rounds, sources
<1>2. SoundInv' /\ TurnInv'
    BY <1>1 DEF IInv, SoundInv, TurnInv
<1>3. BranchInv'
    BY <1>1 DEF IInv, BranchInv
<1>4. /\ todo \in Seq(Tasks) /\ Head(todo) \in Tasks
      /\ Head(todo) \notin Placed(working)
    <2>1. todo \in Seq(Tasks)
        BY <1>1 DEF IInv, BranchInv, BranchFits
    <2>2. Head(todo) \in Image(todo) /\ Head(todo) \in Tasks
        BY <1>1, <2>1 DEF Image
    <2> QED
        BY <1>1, <2>1, <2>2 DEF IInv, BranchInv
<1>5. /\ lobby' \in Seq(Tasks) /\ Distinct(lobby') /\ Image(lobby') = {Head(todo)}
      /\ Len(lobby') = 1
    BY <1>1, <1>4 DEF Distinct, Image
<1>6. 1 + Cardinality(Placed(working) \ {}) <= Cardinality(Tasks)
    <2>1. Placed(working) \subseteq Tasks
        BY ScheduleFacts DEF IInv, SoundInv, SoundFor
    <2>2. IsFiniteSet(Placed(working)) /\ IsFiniteSet(Tasks)
        BY <2>1, PlannerTasks, FS_Subset
    <2>3. Cardinality(Placed(working) \cup {Head(todo)}) = Cardinality(Placed(working)) + 1
        BY <1>4, <2>2, FS_AddElement
    <2>4. Cardinality(Placed(working) \cup {Head(todo)}) <= Cardinality(Tasks)
        BY <1>4, <2>1, <2>2, FS_Subset
    <2>5. Cardinality(Placed(working)) \in Nat /\ Cardinality(Tasks) \in Nat
        BY <2>2, FS_CardinalityType
    <2>6. Placed(working) \ {} = Placed(working)
        OBVIOUS
    <2> QED
        BY <2>3, <2>4, <2>5, <2>6
<1>7. CycleInv'
    <2>1. Cardinality(Placed(working) \ {}) \in Nat
        BY ScheduleFacts, PlannerTasks, FS_Subset, FS_CardinalityType, FS_Difference
           DEF IInv, SoundInv, SoundFor
    <2>2. 0 + 1 + Cardinality(Placed(working) \ {}) <= Cardinality(Tasks)
        BY <1>6, <2>1
    <2> QED
        BY <1>1, <1>4, <1>5, <2>2 DEF CycleInv
<1> QED
    BY <1>2, <1>3, <1>7 DEF IInv

(* A task of the lobby is placed: what it displaces goes to the lobby.     *)
PlacesTask(t, rest, x) ==
    /\ x \in Starts(t, working)
    /\ Displaced(t, working, x) \cap protected = {}
    /\ working' = Insert(t, working, x)
    /\ lobby' = rest \o ByStart(working, Displaced(t, working, x))
    /\ protected' = protected \cup {t}

LEMMA ScheduleTaskCases ==
    ASSUME NEW t, NEW rest, ScheduleTask(t, rest)
    PROVE  \/ lobby' = rest /\ UNCHANGED <<working, protected>>
           \/ \E x : PlacesTask(t, rest, x)
<1>1. \A C : Choosable(t, working, C) \subseteq C
    BY DEF Choosable
<1>2. ASSUME NEW x \in Candidates(t, working, Spared(t))
      PROVE  x \in Starts(t, working) /\ Displaced(t, working, x) \cap protected = {}
    BY DEF Candidates, Spared
<1> QED
    BY <1>1, <1>2 DEF ScheduleTask, PlacesTask

(* How the lobby, the schedule and the tasks placed so far move together.  *)
LEMMA PlacingMoves ==
    ASSUME SoundInv, NEW rest \in Seq(Tasks), Distinct(rest),
           Image(rest) \cap Placed(working) = {},
           NEW t \in Tasks, t \notin Placed(working),
           NEW x, PlacesTask(t, rest, x)
    PROVE  \E D \in SUBSET (Placed(working) \ protected) :
              /\ IsFiniteSet(D)
              /\ Placed(working') = (Placed(working) \ D) \cup {t}
              /\ \A u \in Placed(working) \ D : working'[u] = working[u]
              /\ SoundFor(problem, working')
              /\ lobby' \in Seq(Tasks) /\ Distinct(lobby')
              /\ Len(lobby') = Len(rest) + Cardinality(D)
              /\ Image(lobby') = Image(rest) \cup D
<1> DEFINE D == Displaced(t, working, x)
<1>1. SoundFor(problem, working) /\ working \in Schedules /\ problem \in Problems
    BY DEF SoundInv, SoundFor
<1>2. Placed(working) \subseteq Tasks /\ \A u \in Placed(working) : working[u] \in Int
    BY <1>1, ScheduleFacts
<1>3. /\ D \subseteq Placed(working) \ protected
      /\ Placed(working') = (Placed(working) \ D) \cup {t}
      /\ \A u \in Placed(working) \ D : working'[u] = working[u]
    BY InsertPlaces DEF PlacesTask
<1>4. SoundFor(problem, working')
    BY <1>1, InsertIsSound DEF PlacesTask
<1>5. lobby' = rest \o ByStart(working, D)
    BY DEF PlacesTask
<1> HIDE DEF D
<1>6. IsFiniteSet(D) /\ D \in SUBSET Tasks
    BY <1>2, <1>3, PlannerTasks, FS_Subset
<1>7. \A u, v \in D : working[u] = working[v] => u = v
    BY <1>1, <1>3, StartsDiffer
<1>8. \A u \in D : working[u] \in Int
    BY <1>2, <1>3
<1>9. Image(rest) \cap D = {}
    BY <1>3
<1>10. /\ rest \o ByStart(working, D) \in Seq(Tasks) /\ Distinct(rest \o ByStart(working, D))
       /\ Len(rest \o ByStart(working, D)) = Len(rest) + Cardinality(D)
       /\ Image(rest \o ByStart(working, D)) = Image(rest) \cup D
    BY <1>6, <1>7, <1>8, <1>9, LobbyGrows
<1> QED
    BY <1>3, <1>4, <1>5, <1>6, <1>10

(* A repair step, as far as the invariant can tell.                        *)
LEMMA RepairFacts ==
    ASSUME IInv, Repair
    PROVE  /\ UNCHANGED <<problem, config, phase, round, survivors, candidates, source, base,
                          branches, todo, before, result>>
           /\ phase = "repair" /\ lobby # <<>> /\ iter' = iter + 1
           /\ best' = best \/ best' = working'
    BY DEF Repair, Repairing, Snapshot, rounds, sources

(* Dropping a task, or placing it, keeps the books of the repair cycle.    *)
LEMMA DroppingKeeps ==
    ASSUME SoundInv, CycleInv, phase = "repair", phase' = phase,
           UNCHANGED <<problem, before, todo, working, protected>>,
           NEW t \in Tasks, NEW rest \in Seq(Tasks), Distinct(rest),
           Len(lobby) \in Nat, Len(rest) = Len(lobby) - 1,
           Image(lobby) = Image(rest) \cup {t},
           lobby' = rest, iter' = iter + 1, best' = best \/ best' = working'
    PROVE  CycleInv' /\ SoundFor(problem, working')
<1>1. SoundFor(problem, working)
    BY DEF SoundInv
<1>2. Cardinality(Placed(working) \ protected) \in Nat
    BY <1>1, ScheduleFacts, PlannerTasks, FS_Subset, FS_CardinalityType, FS_Difference DEF SoundFor
<1>3. Cardinality(Tasks) \in Nat
    BY PlannerTasks, FS_CardinalityType
<1>4. /\ lobby' \in Seq(Tasks) /\ Distinct(lobby')
      /\ Image(lobby') \cap (Placed(working') \cup protected') = {}
      /\ protected' \subseteq Placed(working')
      /\ Image(lobby') \cup Placed(working') \subseteq Placed(before') \cup {Head(todo')}
      /\ Placed(best') \subseteq Placed(before') \cup {Head(todo')}
    BY DEF CycleInv
<1>5. /\ iter' \in Nat
      /\ iter' + Len(lobby') + Cardinality(Placed(working') \ protected') <= Cardinality(Tasks)
    BY <1>2, <1>3 DEF CycleInv
<1>6. /\ \/ working' = before' /\ Image(lobby') \subseteq {Head(todo')}
         \/ Head(todo') \in Placed(working') \cap protected'
      /\ best' = before' \/ Head(todo') \in Placed(best')
    BY DEF CycleInv
<1> QED
    BY <1>1, <1>4, <1>5, <1>6 DEF CycleInv

LEMMA PlacingKeeps ==
    ASSUME SoundInv, CycleInv, phase = "repair", phase' = phase,
           UNCHANGED <<problem, before, todo>>,
           NEW t \in Tasks, NEW rest \in Seq(Tasks), Distinct(rest),
           Len(lobby) \in Nat, Len(rest) = Len(lobby) - 1,
           t \notin Image(rest), Image(lobby) = Image(rest) \cup {t},
           NEW x, PlacesTask(t, rest, x),
           iter' = iter + 1, best' = best \/ best' = working'
    PROVE  CycleInv' /\ SoundFor(problem, working')
<1>1. t \notin Placed(working) /\ t \notin protected /\ Image(rest) \cap (Placed(working) \cup protected) = {}
    BY DEF CycleInv
<1>2. PICK D \in SUBSET (Placed(working) \ protected) :
        /\ IsFiniteSet(D)
        /\ Placed(working') = (Placed(working) \ D) \cup {t}
        /\ \A u \in Placed(working) \ D : working'[u] = working[u]
        /\ SoundFor(problem, working')
        /\ lobby' \in Seq(Tasks) /\ Distinct(lobby')
        /\ Len(lobby') = Len(rest) + Cardinality(D)
        /\ Image(lobby') = Image(rest) \cup D
    BY <1>1, PlacingMoves
<1>3. protected' = protected \cup {t}
    BY DEF PlacesTask
<1>4. /\ Image(lobby') \cap (Placed(working') \cup protected') = {}
      /\ protected' \subseteq Placed(working')
    BY <1>1, <1>2, <1>3 DEF CycleInv
<1>5. Image(lobby') \cup Placed(working') \subseteq Placed(before') \cup {Head(todo')}
    BY <1>2 DEF CycleInv
<1>6. iter' + Len(lobby') + Cardinality(Placed(working') \ protected') <= Cardinality(Tasks)
    <2> DEFINE M == Placed(working) \ protected
    <2>1. IsFiniteSet(M)
        BY ScheduleFacts, PlannerTasks, FS_Subset, FS_Difference DEF SoundInv, SoundFor
    <2>2. Placed(working') \ protected' = M \ D /\ M \cap D = D
        BY <1>1, <1>2, <1>3
    <2>3. Cardinality(M \ D) = Cardinality(M) - Cardinality(M \cap D)
        BY <2>1, FS_Difference
    <2>4. Cardinality(M) \in Nat /\ Cardinality(D) \in Nat /\ Cardinality(Tasks) \in Nat
        BY <1>2, <2>1, PlannerTasks, FS_CardinalityType
    <2>5. iter + Len(lobby) + Cardinality(M) <= Cardinality(Tasks) /\ iter \in Nat
        BY DEF CycleInv
    <2> HIDE DEF M
    <2>6. Cardinality(Placed(working') \ protected') = Cardinality(M) - Cardinality(D)
        BY <2>2, <2>3
    <2>7. Len(lobby') = Len(lobby) - 1 + Cardinality(D)
        BY <1>2
    <2> QED
        BY <2>4, <2>5, <2>6, <2>7
<1>7. \/ working' = before' /\ Image(lobby') \subseteq {Head(todo')}
      \/ Head(todo') \in Placed(working') \cap protected'
    <2>1. CASE t = Head(todo)
        BY <1>2, <1>3, <2>1
    <2>2. CASE t # Head(todo)
        BY <1>2, <1>3, <2>2 DEF CycleInv
    <2> QED
        BY <2>1, <2>2
<1>8. Head(todo') \in Placed(working')
    <2>1. CASE t = Head(todo)
        BY <1>2, <2>1
    <2>2. CASE t # Head(todo)
        BY <1>2, <1>3, <2>2 DEF CycleInv
    <2> QED
        BY <2>1, <2>2
<1>9. /\ Placed(best') \subseteq Placed(before') \cup {Head(todo')}
      /\ best' = before' \/ Head(todo') \in Placed(best')
    BY <1>5, <1>8 DEF CycleInv
<1>10. iter' \in Nat
    BY DEF CycleInv
<1> QED
    BY <1>2, <1>4, <1>5, <1>6, <1>7, <1>9, <1>10 DEF CycleInv

LEMMA RepairKeeps ==
    ASSUME IInv, Repair
    PROVE  IInv'
<1> DEFINE t == lobby[Len(lobby)]
<1> DEFINE rest == SubSeq(lobby, 1, Len(lobby) - 1)
<1>1. /\ UNCHANGED <<problem, config, phase, round, survivors, candidates, source, base,
                      branches, todo, before, result>>
      /\ phase = "repair" /\ lobby # <<>> /\ iter' = iter + 1
      /\ best' = best \/ best' = working'
    BY RepairFacts
<1>2. lobby \in Seq(Tasks) /\ Distinct(lobby)
    BY <1>1 DEF IInv, CycleInv
<1>3. /\ rest \in Seq(Tasks) /\ Distinct(rest)
      /\ Len(lobby) \in Nat /\ Len(rest) = Len(lobby) - 1
      /\ t \in Tasks /\ t \notin Image(rest)
      /\ Image(lobby) = Image(rest) \cup {t}
    BY <1>1, <1>2, LastAndRest
<1>4. \/ lobby' = rest /\ UNCHANGED <<working, protected>>
      \/ \E x : PlacesTask(t, rest, x)
    BY ScheduleTaskCases DEF Repair
<1> HIDE DEF t, rest
<1>5. CycleInv' /\ SoundFor(problem, working')
    <2>1. CASE lobby' = rest /\ UNCHANGED <<working, protected>>
        BY <1>1, <1>3, <2>1, DroppingKeeps DEF IInv
    <2>2. CASE \E x : PlacesTask(t, rest, x)
        BY <1>1, <1>3, <2>2, PlacingKeeps DEF IInv
    <2> QED
        BY <1>4, <2>1, <2>2
<1>6. SoundInv'
    BY <1>1, <1>5 DEF IInv, SoundInv
<1>7. TurnInv' /\ BranchInv'
    BY <1>1 DEF IInv, TurnInv, BranchInv
<1> QED
    BY <1>5, <1>6, <1>7 DEF IInv

(* The tail of a branch.                                                   *)
LEMMA TailFits ==
    ASSUME NEW p, NEW r, NEW q, BranchFits(p, r, q), q # <<>>
    PROVE  /\ BranchFits(p, r, Tail(q))
           /\ Head(q) \in InHand(p, r) /\ Head(q) \notin Image(Tail(q))
           /\ Image(Tail(q)) \subseteq Image(q)
<1>1. q \in Seq(Tasks) /\ Distinct(q) /\ Image(q) \subseteq InHand(p, r)
    BY DEF BranchFits
<1>2. /\ Tail(q) \in Seq(Tasks) /\ DOMAIN Tail(q) = 1 .. Len(q) - 1
      /\ \A i \in 1 .. Len(q) - 1 : i + 1 \in DOMAIN q /\ Tail(q)[i] = q[i + 1]
      /\ 1 \in DOMAIN q /\ Head(q) = q[1] /\ Len(q) \in Nat
    BY <1>1
<1>3. Distinct(Tail(q))
    <2> SUFFICES ASSUME NEW i \in DOMAIN Tail(q), NEW j \in DOMAIN Tail(q),
                        Tail(q)[i] = Tail(q)[j]
                 PROVE  i = j
        BY DEF Distinct
    <2>1. i + 1 = j + 1
        BY <1>1, <1>2 DEF Distinct
    <2> QED
        BY <1>2, <2>1
<1>4. Image(Tail(q)) \subseteq Image(q) /\ Head(q) \in Image(q)
    BY <1>2 DEF Image
<1>5. Head(q) \notin Image(Tail(q))
    BY <1>1, <1>2 DEF Image, Distinct
<1> QED
    BY <1>1, <1>2, <1>3, <1>4, <1>5 DEF BranchFits

LEMMA EndCycleKeeps ==
    ASSUME IInv, EndCycle
    PROVE  IInv'
<1>1. /\ UNCHANGED <<problem, config, round, survivors, candidates, source, base,
                      branches, best, before, result>>
      /\ phase = "repair" /\ phase' = "task" /\ working' = best /\ todo' = Tail(todo)
    BY DEF EndCycle, rounds, sources, cycle
<1>2. SoundInv' /\ TurnInv' /\ CycleInv'
    BY <1>1 DEF IInv, SoundInv, TurnInv, CycleInv
<1>3. /\ BranchFits(problem, round, todo')
      /\ Head(todo) \in InHand(problem, round) /\ Head(todo) \notin Image(todo')
      /\ Image(todo') \subseteq Image(todo)
    BY <1>1, TailFits DEF IInv, BranchInv
<1>4. Placed(working') \cap (Waiting(problem, round) \cup Image(todo')) = {}
    <2>1. Placed(best) \subseteq Placed(before) \cup {Head(todo)}
        BY <1>1 DEF IInv, CycleInv
    <2>2. Placed(before) \cap (Waiting(problem, round) \cup Image(todo)) = {}
        BY <1>1 DEF IInv, BranchInv
    <2>3. Head(todo) \notin Waiting(problem, round)
        BY <1>3, WaitingFacts DEF IInv, SoundInv
    <2> QED
        BY <1>1, <1>3, <2>1, <2>2, <2>3
<1>5. BranchInv'
    BY <1>1, <1>3, <1>4 DEF IInv, BranchInv
<1> QED
    BY <1>2, <1>5 DEF IInv

LEMMA EndBranchKeeps ==
    ASSUME IInv, EndBranch
    PROVE  IInv'
<1>1. /\ UNCHANGED <<problem, config, round, survivors, source, base,
                      todo, working, best, before, result>>
      /\ phase = "task" /\ phase' = "branch" /\ todo = <<>>
      /\ branches' = Tail(branches) /\ candidates' = candidates \cup Accepted
    BY DEF EndBranch, rounds, cycle
<1>2. candidates' = candidates \/ candidates' = candidates \cup {working}
    BY <1>1 DEF Accepted
<1>3. IsFiniteSet(candidates')
    BY <1>2, FS_AddElement DEF IInv, SoundInv
<1>4. SoundInv'
    BY <1>1, <1>2, <1>3 DEF IInv, SoundInv
<1>5. TurnInv'
    BY <1>1, <1>2 DEF IInv, TurnInv, BranchInv
<1>6. BranchInv' /\ CycleInv'
    <2> DEFINE Q == {q \in Seq(Tasks) : BranchFits(problem, round, q)}
    <2>1. branches \in Seq(Q) /\ branches # <<>>
        BY <1>1 DEF IInv, BranchInv
    <2> HIDE DEF Q
    <2>2. Tail(branches) \in Seq(Q)
        BY <2>1
    <2> QED
        BY <1>1, <2>2 DEF BranchInv, CycleInv, Q
<1> QED
    BY <1>4, <1>5, <1>6 DEF IInv

LEMMA EndSourceKeeps ==
    ASSUME IInv, EndSource
    PROVE  IInv'
<1>1. /\ UNCHANGED <<problem, config, round, survivors, candidates, base,
                      branches, todo, working, best, before, result>>
      /\ phase = "branch" /\ phase' = "source" /\ source' = source + 1
    BY DEF EndSource, rounds, cycle
<1> QED
    BY <1>1 DEF IInv, SoundInv, TurnInv, BranchInv, CycleInv

(* The survivors are candidates.                                           *)
LEMMA SelectionsChoose ==
    ASSUME NEW C, IsFiniteSet(C), C \subseteq Schedules, config \in Configs,
           NEW q \in Selections(C)
    PROVE  q \in Seq(C) /\ Image(q) \subseteq C
<1>1. ASSUME NEW F \in SUBSET C, q \in Arrangements(F, Earlier(config.keep, Cardinality(F)))
      PROVE  q \in Seq(C) /\ Image(q) \subseteq C
    <2>1. Earlier(config.keep, Cardinality(F)) \in Nat
        BY FS_Subset, FS_CardinalityType, ConfigTypes DEF Earlier
    <2>2. \A n \in Nat : Arrangements(F, n) \subseteq [1 .. n -> F]
        BY DEF Arrangements
    <2>3. \E n \in Nat : q \in [1 .. n -> F]
        BY <1>1, <2>1, <2>2
    <2> QED
        BY <2>3 DEF Image
<1>2. ParetoFront(C) \subseteq C
    BY DEF ParetoFront
<1>3. \E F \in SUBSET C : q \in Arrangements(F, Earlier(config.keep, Cardinality(F)))
    BY <1>2 DEF Selections
<1> QED
    BY <1>1, <1>3

LEMMA EndBlockKeeps ==
    ASSUME IInv, EndBlock
    PROVE  IInv'
<1>1. /\ UNCHANGED <<problem, config, phase, base, branches, todo, working, best, before, result>>
      /\ phase = "source" /\ round <= Cardinality(Blocks) /\ round' = round + 1
      /\ source' = 0 /\ candidates' = {}
      /\ survivors' = survivors \/ survivors' \in Selections(candidates)
    BY DEF EndBlock, BlocksLeft, cycle
<1>2. \A s \in candidates : s \in Schedules
    BY DEF IInv, SoundInv, SoundFor
<1>3. survivors' \in Selections(candidates) =>
        survivors' \in Seq(Schedules) /\ Image(survivors') \subseteq candidates
    <2>1. ASSUME survivors' \in Selections(candidates)
          PROVE  survivors' \in Seq(candidates) /\ Image(survivors') \subseteq candidates
        BY <1>2, <2>1, SelectionsChoose DEF IInv, SoundInv
    <2>2. Seq(candidates) \subseteq Seq(Schedules)
        BY <1>2
    <2> QED
        BY <2>1, <2>2
<1>4. Cardinality(Blocks) \in Nat /\ round \in Int
    BY PlannerBlocks, FS_CardinalityType DEF IInv, SoundInv
<1>5. SoundInv'
    BY <1>1, <1>3, <1>4, FS_EmptySet DEF IInv, SoundInv
<1>6. TurnInv'
    <2>1. Waiting(problem, round) \subseteq Waiting(problem, round - 1) /\ round' - 1 = round
        BY <1>1, <1>4, WaitingFacts
    <2>2. \A s \in Image(survivors') : Placed(s) \cap Waiting(problem, round) = {}
        BY <1>1, <1>3, <2>1 DEF IInv, TurnInv
    <2> QED
        BY <1>1, <2>1, <2>2 DEF TurnInv
<1>7. BranchInv' /\ CycleInv'
    BY <1>1 DEF BranchInv, CycleInv
<1> QED
    BY <1>5, <1>6, <1>7 DEF IInv

LEMMA ReturnKeeps ==
    ASSUME IInv, Return
    PROVE  IInv'
<1>1. /\ UNCHANGED <<problem, config, round, survivors, candidates, source, base,
                      branches, todo, working, best, before>>
      /\ phase = "source" /\ phase' = "done" /\ \E s \in Image(survivors) : result' = {s}
    BY DEF Return, rounds, sources, cycle
<1> QED
    BY <1>1 DEF IInv, SoundInv, TurnInv, BranchInv, CycleInv

LEMMA StutterKeeps ==
    ASSUME IInv, UNCHANGED vars
    PROVE  IInv'
BY DEF IInv, SoundInv, TurnInv, BranchInv, CycleInv, vars, rounds, sources, cycle

LEMMA NextIInv == IInv /\ [Next]_vars => IInv'
BY BeginSourceKeeps, BeginBranchKeeps, BeginCycleKeeps, RepairKeeps, EndCycleKeeps,
   EndBranchKeeps, EndSourceKeeps, EndBlockKeeps, ReturnKeeps, StutterKeeps DEF Next, Finished

LEMMA PlannerInvariant == Spec => []IInv
BY InitIInv, NextIInv, PTL DEF Spec

-----------------------------------------------------------------------------
(* The theorems *)

(* Every placement the planner holds, in the middle of a repair as well as *)
(* in what it returns, lies in a window of its task, and none overlap      *)
(* (task_scheduler.rs:78-134, 218-227).                                    *)
THEOREM PlannerValid == Spec => []SchedulesValid
<1>1. IInv => SchedulesValid
    BY SoundIsValid DEF IInv, SoundInv, SchedulesValid
<1> QED
    BY <1>1, PlannerInvariant, PTL

(* A repair cycle tries each task at most once, and no task is placed over *)
(* itself: the loop of task_scheduler.rs:298-321 ends without its limit of *)
(* iterations.                                                             *)
THEOREM PlannerTriesOnce == Spec => []TriedOnce
<1>1. ASSUME IInv
      PROVE  TriedOnce
    <2> SUFFICES ASSUME phase = "repair"
                 PROVE  /\ Image(lobby) \cap (Placed(working) \cup protected) = {}
                        /\ Cardinality(Image(lobby)) = Len(lobby)
                        /\ iter + Len(lobby) <= Cardinality(Tasks)
        BY DEF TriedOnce
    <2>1. lobby \in Seq(Tasks) /\ Distinct(lobby) /\ Len(lobby) \in Nat
        BY <1>1 DEF IInv, CycleInv
    <2>2. Cardinality(Placed(working) \ protected) \in Nat
        BY <1>1, ScheduleFacts, PlannerTasks, FS_Subset, FS_CardinalityType, FS_Difference
           DEF IInv, SoundInv, SoundFor
    <2>3. Cardinality(Tasks) \in Nat
        BY PlannerTasks, FS_CardinalityType
    <2>4. iter + Len(lobby) <= Cardinality(Tasks)
        BY <1>1, <2>1, <2>2, <2>3 DEF IInv, CycleInv
    <2> QED
        BY <1>1, <2>1, <2>4, DistinctLength DEF IInv, CycleInv
<1> QED
    BY <1>1, PlannerInvariant, PTL

(* What a repair cycle has placed stays where it is for the rest of the    *)
(* cycle, whatever is evicted for the tasks that follow                    *)
(* (task_scheduler.rs:208, 319-321).                                       *)
THEOREM PlannerPlacesOnce == Spec => PlacedOnceStays
<1>1. ASSUME IInv, Repair
      PROVE  \A t \in protected : t \in Placed(working') /\ working'[t] = working[t]
    <2> DEFINE t == lobby[Len(lobby)]
    <2> DEFINE rest == SubSeq(lobby, 1, Len(lobby) - 1)
    <2>1. phase = "repair" /\ lobby # <<>>
        BY <1>1, RepairFacts
    <2>2. /\ lobby \in Seq(Tasks) /\ Distinct(lobby)
          /\ Image(lobby) \cap Placed(working) = {}
          /\ protected \subseteq Placed(working)
        BY <1>1, <2>1 DEF IInv, CycleInv
    <2>3. /\ rest \in Seq(Tasks) /\ Distinct(rest) /\ t \in Tasks
          /\ Image(lobby) = Image(rest) \cup {t}
        BY <2>1, <2>2, LastAndRest
    <2>4. \/ lobby' = rest /\ UNCHANGED <<working, protected>>
          \/ \E x : PlacesTask(t, rest, x)
        BY <1>1, ScheduleTaskCases DEF Repair
    <2> HIDE DEF t, rest
    <2>5. CASE UNCHANGED working
        BY <2>2, <2>5
    <2>6. CASE \E x : PlacesTask(t, rest, x)
        <3>1. t \notin Placed(working) /\ Image(rest) \cap Placed(working) = {}
            BY <2>2, <2>3
        <3>2. PICK x : PlacesTask(t, rest, x)
            BY <2>6
        <3>3. PICK D \in SUBSET (Placed(working) \ protected) :
                /\ IsFiniteSet(D)
                /\ Placed(working') = (Placed(working) \ D) \cup {t}
                /\ \A u \in Placed(working) \ D : working'[u] = working[u]
                /\ SoundFor(problem, working')
                /\ lobby' \in Seq(Tasks) /\ Distinct(lobby')
                /\ Len(lobby') = Len(rest) + Cardinality(D)
                /\ Image(lobby') = Image(rest) \cup D
            BY <1>1, <2>3, <3>1, <3>2, PlacingMoves DEF IInv
        <3> QED
            BY <2>2, <3>3
    <2> QED
        BY <2>4, <2>5, <2>6
<1>2. IInv /\ [Next]_vars =>
        [Repair => \A t \in protected : t \in Placed(working') /\ working'[t] = working[t]]_vars
    BY <1>1
<1> QED
    BY <1>2, PlannerInvariant, PTL DEF Spec, PlacedOnceStays

(* The cheapest schedule of a cycle is the one it began with, or one that  *)
(* holds the task of the cycle: a cycle never leaves the schedule with     *)
(* tasks moved about for nothing (task_scheduler.rs:292, 331-337).         *)
THEOREM PlannerAddsOrUndoes == Spec => CycleAddsOrUndoes
<1>1. ASSUME IInv, EndCycle
      PROVE  working' = before \/ Head(todo) \in Placed(working')
    BY <1>1 DEF IInv, CycleInv, EndCycle
<1>2. IInv /\ [Next]_vars =>
        [EndCycle => working' = before \/ Head(todo) \in Placed(working')]_vars
    BY <1>1
<1> QED
    BY <1>2, PlannerInvariant, PTL DEF Spec, CycleAddsOrUndoes

(* A repair cycle drains its lobby, moves no task twice, and adds a task   *)
(* or leaves no trace (task_scheduler.rs:208-337).                         *)
THEOREM PlannerRepairIsFair == Spec => RepairIsFair
    BY PlannerTriesOnce, PlannerPlacesOnce, PlannerAddsOrUndoes, PTL DEF RepairIsFair

-----------------------------------------------------------------------------
(* The numbers that schedules are compared by *)

LEMMA BlockSizes ==
    ASSUME NEW b
    PROVE  /\ IsFiniteSet(Members(b)) /\ Cardinality(Members(b)) \in Nat
           /\ Members(b) # {} => Cardinality(Members(b)) \in Nat \ {0}
           /\ \A s : Cardinality(Members(b) \cap Placed(s)) \in Nat
<1>1. IsFiniteSet(Members(b))
    BY PlannerTasks, FS_Subset DEF Members
<1>2. \A s : IsFiniteSet(Members(b) \cap Placed(s))
    BY <1>1, FS_Subset
<1> QED
    BY <1>1, <1>2, FS_CardinalityType, FS_EmptySet

LEMMA FitnessIsNumber ==
    ASSUME problem \in Problems, NEW s
    PROVE  Fitness(s) \in Int
<1> DEFINE share(b) == IF Members(b) = {} THEN 0
                       ELSE Cardinality(Members(b) \cap Placed(s))
                            * (Unit \div Cardinality(Members(b))) * problem.priority[b]
<1> DEFINE f == [b \in Blocks |-> share(b)]
<1> DEFINE total == CHOOSE it : it = [S \in SUBSET Blocks |->
                       IF S = {} THEN 0 ELSE share(Pick(S)) + it[S \ {Pick(S)}]]
<1>1. Fitness(s) = total[Blocks]
    BY DEF Fitness, MapThenSumSet, MapThenFoldSet, Pick
<1>2. f \in [Blocks -> Int]
    <2> SUFFICES ASSUME NEW b \in Blocks, Members(b) # {}
                 PROVE  Cardinality(Members(b) \cap Placed(s))
                            * (Unit \div Cardinality(Members(b))) * problem.priority[b] \in Int
        OBVIOUS
    <2>1. Cardinality(Members(b) \cap Placed(s)) \in Nat /\ Cardinality(Members(b)) \in Nat \ {0}
        BY BlockSizes
    <2>2. problem.priority[b] \in Int /\ Unit \in Nat
        BY PlannerProblems, PlannerNumbers DEF ProblemRecord
    <2>3. Unit \div Cardinality(Members(b)) \in Int
        BY <2>1, <2>2
    <2> QED
        BY <2>1, <2>2, <2>3
<1>3. \A S \in SUBSET Blocks : S # {} => share(Pick(S)) = f[Pick(S)]
    BY DEF Pick
<1> HIDE DEF f, share
<1>4. \A g : Sums(Blocks, f, g) <=> g = [S \in SUBSET Blocks |->
                       IF S = {} THEN 0 ELSE share(Pick(S)) + g[S \ {Pick(S)}]]
    BY <1>3 DEF Sums
<1>5. IsFiniteSet(Blocks)
    BY PlannerBlocks
<1>6. \E g : Sums(Blocks, f, g)
    BY <1>2, <1>5, SumsExist
<1>7. Sums(Blocks, f, total)
    BY <1>4, <1>6
<1> HIDE DEF total
<1> QED
    BY <1>1, <1>2, <1>5, <1>7, SumsAreNumbers

LEMMA PrioritySumIsNumber ==
    ASSUME problem \in Problems, NEW s
    PROVE  PrioritySum(s) \in Int
<1> DEFINE done == {b \in Blocks : Complete(b, s)}
<1> DEFINE f == [b \in done |-> problem.priority[b]]
<1> DEFINE total == CHOOSE it : it = [S \in SUBSET done |->
                       IF S = {} THEN 0 ELSE problem.priority[Pick(S)] + it[S \ {Pick(S)}]]
<1>1. PrioritySum(s) = total[done]
    BY DEF PrioritySum, MapThenSumSet, MapThenFoldSet, Pick
<1>2. IsFiniteSet(done)
    BY PlannerBlocks, FS_Subset
<1>3. f \in [done -> Int]
    BY PlannerProblems DEF ProblemRecord
<1>4. \A S \in SUBSET done : S # {} => problem.priority[Pick(S)] = f[Pick(S)]
    BY DEF Pick
<1> HIDE DEF f, done
<1>5. \A g : Sums(done, f, g) <=> g = [S \in SUBSET done |->
                       IF S = {} THEN 0 ELSE problem.priority[Pick(S)] + g[S \ {Pick(S)}]]
    BY <1>4 DEF Sums
<1>6. \E g : Sums(done, f, g)
    BY <1>2, <1>3, SumsExist
<1>7. Sums(done, f, total)
    BY <1>5, <1>6
<1> HIDE DEF total
<1> QED
    BY <1>1, <1>2, <1>3, <1>7, SumsAreNumbers

LEMMA PlacedNumbers ==
    ASSUME NEW s \in Schedules
    PROVE  IsFiniteSet(Placed(s)) /\ Cardinality(Placed(s)) \in Nat
BY ScheduleFacts, PlannerTasks, FS_Subset, FS_CardinalityType

(* Domination is a strict order, so a finite set of schedules has one that *)
(* none dominates: the one with the fewest that dominate it.               *)
LEMMA DominationIsStrict ==
    ASSUME problem \in Problems
    PROVE  /\ \A s \in Schedules : ~ Dominates(s, s)
           /\ \A q, r, s \in Schedules : Dominates(q, r) /\ Dominates(r, s) => Dominates(q, s)
<1>1. \A s \in Schedules : Cardinality(Placed(s)) \in Int /\ PrioritySum(s) \in Int
    BY PlacedNumbers, PrioritySumIsNumber
<1> QED
    BY <1>1 DEF Dominates

LEMMA FrontNonempty ==
    ASSUME problem \in Problems, NEW C, IsFiniteSet(C), C # {}, C \subseteq Schedules
    PROVE  ParetoFront(C) # {}
<1> DEFINE above(s) == {r \in C : Dominates(r, s)}
<1> DEFINE sizes == {n \in Nat : \E s \in C : Cardinality(above(s)) = n}
<1>1. ASSUME NEW s \in C
      PROVE  IsFiniteSet(above(s)) /\ Cardinality(above(s)) \in Nat
    BY FS_Subset, FS_CardinalityType
<1>2. sizes # {}
    BY <1>1
<1>3. PICK m \in sizes : \A n \in sizes : <<n, m>> \notin OpToRel(<, Nat)
    BY <1>2, NatLessThanWellFounded, WFMin
<1>4. PICK s \in C : Cardinality(above(s)) = m
    BY <1>3
<1>5. ASSUME NEW r \in C, Dominates(r, s)
      PROVE  FALSE
    <2>1. above(r) \subseteq above(s) /\ r \in above(s) /\ r \notin above(r)
        BY <1>5, DominationIsStrict
    <2> HIDE DEF above
    <2>2. /\ IsFiniteSet(above(s)) /\ above(r) # above(s)
          /\ Cardinality(above(r)) \in Nat /\ Cardinality(above(s)) \in Nat
        BY <1>1, <2>1
    <2>3. Cardinality(above(r)) <= Cardinality(above(s)) /\ Cardinality(above(r)) # Cardinality(above(s))
        BY <2>1, <2>2, FS_Subset
    <2>4. Cardinality(above(r)) < m /\ m \in Nat
        BY <1>4, <2>2, <2>3
    <2>5. Cardinality(above(r)) \in sizes
        BY <2>2
    <2>6. <<Cardinality(above(r)), m>> \in OpToRel(<, Nat)
        BY <2>2, <2>4 DEF OpToRel
    <2> QED
        BY <1>3, <2>5, <2>6
<1> QED
    BY <1>4, <1>5 DEF ParetoFront

(* What the selection returns is a list of survivors, not too long.        *)
LEMMA SelectionsFill ==
    ASSUME problem \in Problems, config \in Configs,
           NEW C, IsFiniteSet(C), C # {}, C \subseteq Schedules, NEW q \in Selections(C)
    PROVE  q # <<>> /\ Len(q) <= config.keep
<1>1. ASSUME NEW F \in SUBSET C, F # {}, q \in Arrangements(F, Earlier(config.keep, Cardinality(F)))
      PROVE  q # <<>> /\ Len(q) <= config.keep
    <2> DEFINE n == Earlier(config.keep, Cardinality(F))
    <2>1. Cardinality(F) \in Nat /\ Cardinality(F) # 0
        BY <1>1, FS_Subset, FS_CardinalityType, FS_EmptySet
    <2>2. n \in Nat \ {0} /\ n <= config.keep
        BY <2>1, ConfigTypes DEF Earlier
    <2> HIDE DEF n
    <2>3. q \in [1 .. n -> F]
        BY <1>1 DEF Arrangements, n
    <2> QED
        BY <2>2, <2>3
<1>2. ParetoFront(C) \subseteq C /\ ParetoFront(C) # {}
    BY FrontNonempty DEF ParetoFront
<1>3. \E F \in SUBSET C : F # {} /\ q \in Arrangements(F, Earlier(config.keep, Cardinality(F)))
    BY <1>2 DEF Selections
<1> QED
    BY <1>1, <1>3

(* The first of the elitist survivors is not beaten by any candidate.      *)
LEMMA BestComesFirst ==
    ASSUME problem \in Problems, config \in Configs, config.survivor = "elitist",
           NEW C, IsFiniteSet(C), C # {}, C \subseteq Schedules, NEW q \in Selections(C)
    PROVE  q[1] \in Image(q) /\ \A s \in C : Fitness(q[1]) >= Fitness(s)
<1>1. q # <<>> /\ q \in Seq(C)
    BY SelectionsFill, SelectionsChoose
<1>2. 1 \in DOMAIN q /\ \A j \in DOMAIN q : j = 1 \/ 1 < j
    BY <1>1
<1>3. ASSUME NEW s \in C
      PROVE  s = q[1] \/ ~ Better(s, q[1])
    <2>1. CASE s \in Image(q)
        BY <1>2, <2>1 DEF Selections, Image
    <2>2. CASE s \notin Image(q)
        BY <1>2, <2>2 DEF Selections
    <2> QED
        BY <2>1, <2>2
<1>4. \A s \in C : Fitness(s) \in Int
    BY FitnessIsNumber
<1>5. q[1] \in C /\ q[1] \in Image(q)
    BY <1>1, <1>2 DEF Image
<1> QED
    BY <1>3, <1>4, <1>5 DEF Better

-----------------------------------------------------------------------------
(* What the lobby costs *)

LEMMA CheapestCostIsNumber ==
    ASSUME NEW s \in Schedules, NEW t, NEW spared
    PROVE  CheapestCost(t, s, spared) \in Nat
<1>1. \A x : InsertionCost(t, s, x) \in Nat
    <2> TAKE x
    <2>1. Displaced(t, s, x) \subseteq Placed(s)
        BY DEF Displaced, Overlapping
    <2> QED
        BY <2>1, PlacedNumbers, FS_Subset, FS_CardinalityType DEF InsertionCost
<1> QED
    BY <1>1, PlannerNumbers DEF CheapestCost

LEMMA LobbyCostIsNumber ==
    ASSUME NEW s \in Schedules, NEW l \in Seq(Tasks), NEW spared
    PROVE  LobbyCost(l, s, spared) \in 0 .. MaxCost
<1> DEFINE S == DOMAIN l
<1> DEFINE f == [i \in S |-> CheapestCost(l[i], s, spared)]
<1> DEFINE total == CHOOSE it : it = [T \in SUBSET S |->
                       IF T = {} THEN 0
                       ELSE CheapestCost(l[Pick(T)], s, spared) + it[T \ {Pick(T)}]]
<1>1. LobbyCost(l, s, spared) = Earlier(MaxCost, total[S])
    BY DEF LobbyCost, MapThenSumSet, MapThenFoldSet, Pick
<1>2. IsFiniteSet(S)
    BY FS_Interval
<1>3. f \in [S -> Nat]
    BY CheapestCostIsNumber
<1>4. \A T \in SUBSET S : T # {} => CheapestCost(l[Pick(T)], s, spared) = f[Pick(T)]
    BY DEF Pick
<1> HIDE DEF f, S
<1>5. \A g : Sums(S, f, g) <=> g = [T \in SUBSET S |->
                       IF T = {} THEN 0
                       ELSE CheapestCost(l[Pick(T)], s, spared) + g[T \ {Pick(T)}]]
    BY <1>4 DEF Sums
<1>6. \E g : Sums(S, f, g)
    BY <1>2, <1>3, SumsExist
<1>7. Sums(S, f, total)
    BY <1>5, <1>6
<1> HIDE DEF total
<1>8. total[S] \in Nat
    BY <1>2, <1>3, <1>7, SumsAreNumbers
<1> QED
    BY <1>1, <1>8, PlannerNumbers DEF Earlier

-----------------------------------------------------------------------------
(* The planner implements the promise of module Accumulation, for any      *)
(* problems, configurations and numbers of tasks and blocks.               *)

(* The block in hand and its completion, as functions of the problem.      *)
BlockFor(p, r) == CHOOSE b \in Blocks : TurnFor(p, b) = r - 1

CompleteFor(p, b, s) ==
    \E i \in DOMAIN p.branches[b] : Image(p.branches[b][i]) \subseteq Placed(s)

(* A candidate has survived the last round, or completes the block in      *)
(* hand; a schedule is returned once, at the end.                          *)
Promising ==
    /\ survivors # <<>>
    /\ \A s \in candidates :
          s \in Image(survivors) \/ CompleteFor(problem, BlockFor(problem, round), s)
    /\ phase # "done" => result = {}

RInv == IInv /\ Promising

LEMMA BlockIsFor == Block = BlockFor(problem, round)
BY DEF Block, BlockFor, Turn, TurnFor

LEMMA CompleteIsFor ==
    ASSUME NEW b, NEW s
    PROVE  Complete(b, s) <=> CompleteFor(problem, b, s)
BY DEF Complete, CompleteFor

-----------------------------------------------------------------------------
(* The promise's operators, of the plan of a schedule *)

LEMMA PlanFacts ==
    ASSUME NEW s
    PROVE  /\ \A t \in Placed(s) :
                 [task |-> t, start |-> s[t], end |-> s[t] + problem.dur[t]] \in PlanOf(s)
           /\ \A p \in PlanOf(s) : \E t \in Placed(s) :
                 p = [task |-> t, start |-> s[t], end |-> s[t] + problem.dur[t]]
BY DEF PlanOf, Interval

LEMMA PlanValid ==
    ASSUME problem \in Problems, NEW s, SoundFor(problem, s)
    PROVE  Promise!Valid(PlanOf(s))
<1>1. s \in Schedules /\ \A t \in Placed(s) : t \in Tasks /\ s[t] \in Int
    BY ScheduleFacts DEF SoundFor
<1>2. ASSUME NEW p \in PlanOf(s)
      PROVE  /\ Promise!Span(p) = problem.dur[p.task]
             /\ \E w \in problem.windows[p.task] : Promise!Inside(p, w)
    <2>1. PICK t \in Placed(s) : p = [task |-> t, start |-> s[t], end |-> s[t] + problem.dur[t]]
        BY PlanFacts
    <2>2. p.task = t /\ p.start = s[t] /\ p.end = s[t] + problem.dur[t]
        BY <2>1
    <2>3. problem.dur[t] \in Nat
        BY <1>1, ProblemTypes
    <2> QED
        BY <1>1, <2>2, <2>3 DEF SoundFor, Placed, Promise!Span, Promise!Inside
<1>3. ASSUME NEW p \in PlanOf(s), NEW q \in PlanOf(s), p # q
      PROVE  p.task # q.task /\ ~ Promise!Overlaps(p, q)
    <2>1. PICK t \in Placed(s) : p = [task |-> t, start |-> s[t], end |-> s[t] + problem.dur[t]]
        BY PlanFacts
    <2>2. PICK u \in Placed(s) : q = [task |-> u, start |-> s[u], end |-> s[u] + problem.dur[u]]
        BY PlanFacts
    <2>3. t # u
        BY <1>3, <2>1, <2>2
    <2>4. /\ p.task = t /\ p.start = s[t] /\ p.end = s[t] + problem.dur[t]
          /\ q.task = u /\ q.start = s[u] /\ q.end = s[u] + problem.dur[u]
        BY <2>1, <2>2
    <2> QED
        BY <2>3, <2>4 DEF SoundFor, Placed, Promise!Overlaps
<1> QED
    BY <1>2, <1>3 DEF Promise!Valid

LEMMA PlanComplete ==
    ASSUME NEW b, NEW s, CompleteFor(problem, b, s)
    PROVE  Promise!Complete(b, PlanOf(s))
<1>1. PICK i \in DOMAIN problem.branches[b] : Image(problem.branches[b][i]) \subseteq Placed(s)
    BY DEF CompleteFor
<1>2. ASSUME NEW j \in DOMAIN problem.branches[b][i]
      PROVE  \E p \in PlanOf(s) : p.task = problem.branches[b][i][j]
    <2> DEFINE t == problem.branches[b][i][j]
    <2> DEFINE p == [task |-> t, start |-> s[t], end |-> s[t] + problem.dur[t]]
    <2>1. t \in Placed(s)
        BY <1>1 DEF Image
    <2>2. p \in PlanOf(s)
        BY <2>1, PlanFacts
    <2>3. p.task = t
        OBVIOUS
    <2> HIDE DEF p, t
    <2>4. \E q \in PlanOf(s) : q.task = t
        BY <2>2, <2>3
    <2> QED
        BY <2>4 DEF t
<1> QED
    BY <1>1, <1>2 DEF Promise!Complete

-----------------------------------------------------------------------------
(* The steps *)

LEMMA InitPromising == Init => RInv
<1> SUFFICES ASSUME Init
             PROVE  Promising
    BY InitIInv DEF RInv
<1> QED
    BY DEF Init, Promising

LEMMA NextPromising ==
    ASSUME RInv, [Next]_vars
    PROVE  RInv'
<1>1. IInv' /\ IInv /\ Promising
    BY NextIInv DEF RInv
<1>2. CASE BeginSource
    <2>1. base' \in Image(survivors)
        BY <1>1, <1>2, SourceSurvived DEF IInv, SoundInv, BeginSource
    <2>2. /\ UNCHANGED <<problem, round, survivors, result>> /\ phase = "source"
          /\ candidates' = candidates \/ candidates' = candidates \cup {base'}
        BY <1>2 DEF BeginSource, Rejection, rounds
    <2> QED
        BY <1>1, <2>1, <2>2 DEF Promising, RInv
<1>3. CASE EndBranch
    <2>1. /\ UNCHANGED <<problem, round, survivors, result>> /\ phase = "task"
          /\ \/ candidates' = candidates
             \/ candidates' = candidates \cup {working} /\ Complete(Block, working)
        BY <1>3 DEF EndBranch, Accepted, rounds
    <2>2. Complete(Block, working) => CompleteFor(problem, BlockFor(problem, round), working)
        BY BlockIsFor, CompleteIsFor
    <2> QED
        BY <1>1, <2>1, <2>2 DEF Promising, RInv
<1>4. CASE EndBlock
    <2>1. /\ UNCHANGED <<phase, result>> /\ candidates' = {}
          /\ \/ survivors' = survivors
             \/ candidates # {} /\ survivors' \in Selections(candidates)
        BY <1>4 DEF EndBlock
    <2>2. /\ IsFiniteSet(candidates) /\ candidates \subseteq Schedules
          /\ problem \in Problems /\ config \in Configs
        BY <1>1 DEF IInv, SoundInv, SoundFor
    <2>3. survivors' # <<>>
        BY <1>1, <2>1, <2>2, SelectionsFill DEF Promising
    <2> QED
        BY <1>1, <2>1, <2>3 DEF Promising, RInv
<1>5. CASE Return
    <2>1. UNCHANGED <<problem, round, survivors, candidates>> /\ phase' = "done"
        BY <1>5 DEF Return, rounds, sources
    <2> QED
        BY <1>1, <2>1 DEF Promising, RInv
<1>6. CASE BeginBranch \/ BeginCycle \/ Repair \/ EndCycle \/ EndSource \/ Finished \/ UNCHANGED vars
    <2>1. /\ UNCHANGED <<problem, round, survivors, candidates, result>>
          /\ phase' # "done" => phase # "done"
        BY <1>6 DEF BeginBranch, BeginCycle, Repair, EndCycle, EndSource, Finished,
                    vars, rounds, sources
    <2> QED
        BY <1>1, <2>1 DEF Promising, RInv
<1> QED
    BY <1>2, <1>3, <1>4, <1>5, <1>6 DEF Next

-----------------------------------------------------------------------------
(* The steps of the promise *)

PlanFor(p, s) == {[task |-> t, start |-> s[t], end |-> s[t] + p.dur[t]] : t \in Placed(s)}
Plans(p, S) == {PlanFor(p, s) : s \in S}
Left(p, r) == {b \in Blocks : TurnFor(p, b) >= r - 1}

LEMMA LeftShrinks ==
    ASSUME problem \in Problems, round \in 1 .. Cardinality(Blocks)
    PROVE  /\ Block \in Left(problem, round)
           /\ Left(problem, round + 1) = Left(problem, round) \ {Block}
<1>1. Block \in Blocks /\ Turn(Block) = round - 1
    BY BlockInHand
<1>2. \A b \in Blocks : Turn(b) = Turn(Block) => b = Block
    BY <1>1, Turns
<1>3. \A b : TurnFor(problem, b) = Turn(b) /\ Turn(b) \in Nat
    <2>1. \A b : TurnFor(problem, b) = Turn(b)
        BY DEF Turn, TurnFor
    <2> QED
        BY <2>1, TurnNumbers
<1> QED
    BY <1>1, <1>2, <1>3 DEF Left

LEMMA LeftEnds ==
    ASSUME problem \in Problems, round \in 1 .. Cardinality(Blocks) + 1
    PROVE  /\ round = 1 => Left(problem, round) = Blocks
           /\ ~ BlocksLeft => Left(problem, round) = {}
<1>1. Cardinality(Blocks) \in Nat
    BY PlannerBlocks, FS_CardinalityType
<1>2. \A b \in Blocks : TurnFor(problem, b) \in 0 .. Cardinality(Blocks) - 1
    <2>1. \A b : TurnFor(problem, b) = Turn(b)
        BY DEF Turn, TurnFor
    <2> QED
        BY <2>1, Turns
<1> QED
    BY <1>1, <1>2 DEF Left, BlocksLeft

(* The promise's state, as functions of the planner's.                     *)
LEMMA PromiseState ==
    /\ {b \in Blocks : Turn(b) >= round - 1} = Left(problem, round)
    /\ {PlanOf(s) : s \in Image(survivors)} = Plans(problem, Image(survivors))
    /\ {PlanOf(s) : s \in result} = Plans(problem, result)
<1>1. \A b : TurnFor(problem, b) = Turn(b)
    BY DEF Turn, TurnFor
<1>2. \A s : PlanOf(s) = PlanFor(problem, s)
    BY DEF PlanOf, PlanFor, Interval
<1> QED
    BY <1>1, <1>2 DEF Left, Plans

LEMMA PromiseStateNext ==
    /\ {b \in Blocks : Turn(b) >= round - 1}' = Left(problem', round')
    /\ {PlanOf(s) : s \in Image(survivors)}' = Plans(problem', Image(survivors'))
    /\ {PlanOf(s) : s \in result}' = Plans(problem', result')
<1>1. \A b : TurnFor(problem', b) = Turn(b)'
    BY DEF Turn, TurnFor
<1>2. \A s : PlanOf(s)' = PlanFor(problem', s)
    BY DEF PlanOf, PlanFor, Interval, Placed
<1> QED
    BY <1>1, <1>2 DEF Left, Plans, Image

LEMMA NonemptyImage ==
    ASSUME NEW q \in Seq(Schedules), q # <<>>
    PROVE  Image(q) # {}
<1>1. 1 \in DOMAIN q
    OBVIOUS
<1> QED
    BY <1>1 DEF Image

LEMMA RoundStep ==
    ASSUME RInv, RInv', EndBlock
    PROVE  Promise!Round(Block)
<1> DEFINE pool == Plans(problem, Image(survivors))
<1> DEFINE poolNext == Plans(problem', Image(survivors'))
<1>1. /\ UNCHANGED <<problem, result>> /\ round' = round + 1
      /\ round <= Cardinality(Blocks)
      /\ survivors' = survivors \/ survivors' \in Selections(candidates)
    BY DEF EndBlock, BlocksLeft
<1>2. problem \in Problems /\ round \in 1 .. Cardinality(Blocks)
    BY <1>1 DEF RInv, IInv, SoundInv
<1>3. Block \in Left(problem, round) /\ Left(problem', round') = Left(problem, round) \ {Block}
    BY <1>1, <1>2, LeftShrinks
<1>4. poolNext # {}
    <2>1. survivors' # <<>> /\ survivors' \in Seq(Schedules)
        BY DEF RInv, Promising, IInv, SoundInv
    <2>2. Image(survivors') # {}
        BY <2>1, NonemptyImage
    <2> QED
        BY <2>2 DEF Plans
<1>5. ASSUME NEW s \in Image(survivors')
      PROVE  \/ s \in Image(survivors)
             \/ SoundFor(problem, s) /\ CompleteFor(problem, Block, s)
    <2>1. CASE survivors' = survivors
        BY <1>5, <2>1 DEF Image
    <2>2. CASE survivors' \in Selections(candidates)
        <3>1. IsFiniteSet(candidates) /\ candidates \subseteq Schedules /\ config \in Configs
            BY DEF RInv, IInv, SoundInv, SoundFor
        <3>2. s \in candidates
            BY <1>5, <2>2, <3>1, SelectionsChoose
        <3> QED
            BY <3>2, BlockIsFor DEF RInv, IInv, SoundInv, Promising
    <2> QED
        BY <1>1, <2>1, <2>2
<1>6. ASSUME NEW plan \in poolNext
      PROVE  plan \in pool \/ (Promise!Valid(plan) /\ Promise!Complete(Block, plan))
    <2>1. PICK s \in Image(survivors') : plan = PlanFor(problem, s)
        BY <1>1 DEF Plans
    <2>2. PlanFor(problem, s) = PlanOf(s)
        BY DEF PlanFor, PlanOf, Interval
    <2> QED
        BY <1>2, <1>5, <2>1, <2>2, PlanValid, PlanComplete DEF Plans
<1> HIDE DEF pool, poolNext
<1> QED
    BY <1>1, <1>3, <1>4, <1>6, PromiseState, PromiseStateNext DEF Promise!Round, pool, poolNext

LEMMA AnswerStep ==
    ASSUME RInv, Return
    PROVE  Promise!Answer
<1>1. PICK s \in Image(survivors) : result' = {s}
    BY DEF Return
<1>2. UNCHANGED <<problem, round, survivors>> /\ result = {}
    BY DEF Return, rounds, RInv, Promising
<1>3. Left(problem, round) = {}
    BY LeftEnds DEF Return, RInv, IInv, SoundInv
<1>4. /\ Plans(problem, result) = {}
      /\ Plans(problem', result') = {PlanFor(problem, s)}
      /\ PlanFor(problem, s) \in Plans(problem, Image(survivors))
    BY <1>1, <1>2 DEF Plans
<1>5. Plans(problem', Image(survivors')) = Plans(problem, Image(survivors))
      /\ Left(problem', round') = Left(problem, round)
    BY <1>2
<1> QED
    BY <1>2, <1>3, <1>4, <1>5, PromiseState, PromiseStateNext DEF Promise!Answer

LEMMA OtherSteps ==
    ASSUME UNCHANGED <<problem, round, survivors, result>>
    PROVE  UNCHANGED Promise!vars
<1>1. /\ Left(problem', round') = Left(problem, round)
      /\ Plans(problem', Image(survivors')) = Plans(problem, Image(survivors))
      /\ Plans(problem', result') = Plans(problem, result)
    OBVIOUS
<1> QED
    BY <1>1, PromiseState, PromiseStateNext DEF Promise!vars

-----------------------------------------------------------------------------
(* Every step of the planner is a round of the promise, its answer, or     *)
(* nothing that the promise can see: each block has its turn once, and a   *)
(* schedule survives it only if it was there before or is valid with the   *)
(* block complete (accumulative.rs:59-95, cru/mod.rs:62-83).  For Pareto   *)
(* selection this rests on a front that is never empty.                    *)
THEOREM PlannerAccumulates == Spec => AccumulatesBlocks
<1>1. Init => Promise!Init
    <2> SUFFICES ASSUME Init
                 PROVE  Promise!Init
        OBVIOUS
    <2>1. problem \in Problems /\ round = 1 /\ survivors = <<Empty>> /\ result = {}
        BY DEF Init
    <2>2. Left(problem, round) = Blocks
        <3>1. Cardinality(Blocks) \in Nat
            BY PlannerBlocks, FS_CardinalityType
        <3> QED
            BY <2>1, <3>1, LeftEnds
    <2>3. PlanFor(problem, Empty) = {} /\ Image(survivors) = {Empty}
        BY <2>1, EmptyIsSound DEF PlanFor, Image
    <2>4. Plans(problem, Image(survivors)) = {{}} /\ Plans(problem, result) = {}
        BY <2>1, <2>3 DEF Plans
    <2> QED
        BY <2>1, <2>2, <2>4, PromiseState DEF Promise!Init
<1>2. RInv /\ [Next]_vars => RInv'
    BY NextPromising
<1>3. RInv /\ RInv' /\ [Next]_vars => [Promise!Next]_(Promise!vars)
    <2> SUFFICES ASSUME RInv, RInv', [Next]_vars
                 PROVE  Promise!Next \/ UNCHANGED Promise!vars
        OBVIOUS
    <2>1. CASE EndBlock
        <3>1. Block \in Blocks
            BY <2>1, BlockInHand DEF RInv, IInv, SoundInv, EndBlock, BlocksLeft
        <3> QED
            BY <2>1, <3>1, RoundStep DEF Promise!Next
    <2>2. CASE Return
        BY <2>2, AnswerStep DEF Promise!Next
    <2>3. CASE ~ EndBlock /\ ~ Return
        <3>1. UNCHANGED <<problem, round, survivors, result>>
            BY <2>3 DEF Next, BeginSource, BeginBranch, BeginCycle, Repair, EndCycle,
                        EndBranch, EndSource, Finished, vars, rounds
        <3> QED
            BY <3>1, OtherSteps
    <2> QED
        BY <2>1, <2>2, <2>3
<1> QED
    BY <1>1, <1>2, <1>3, InitPromising, PTL DEF Spec, AccumulatesBlocks, Promise!Spec

-----------------------------------------------------------------------------
(* The types of what the loops count *)

(* There is a survivor, and there are not too many; a source in hand is    *)
(* not the last but one too many.                                          *)
CountInv ==
    /\ Len(survivors) <= config.keep
    /\ source <= config.population
    /\ phase \in {"branch", "task", "repair"} => source < config.population
    /\ branches \in Seq(Seq(Tasks)) /\ todo \in Seq(Tasks) /\ lobby \in Seq(Tasks)
    /\ protected \subseteq Tasks
    /\ iter \in 0 .. config.maxIter
    /\ minCost \in 0 .. MaxCost

TInv == RInv /\ CountInv

LEMMA InitCounts == Init => CountInv
<1> SUFFICES ASSUME Init
             PROVE  CountInv
    OBVIOUS
<1>1. config \in Configs /\ survivors = <<Empty>> /\ Len(survivors) = 1
    BY DEF Init
<1> QED
    BY <1>1, ConfigTypes, PlannerNumbers DEF Init, CountInv

LEMMA RepairCounts ==
    ASSUME TInv, RInv', Repair
    PROVE  CountInv'
<1>1. /\ UNCHANGED <<problem, config, phase, survivors, source, branches, todo>>
      /\ phase = "repair" /\ iter < config.maxIter /\ iter' = iter + 1
      /\ Snapshot
    BY DEF Repair, Repairing, rounds, sources
<1>2. lobby' \in Seq(Tasks) /\ protected' \subseteq Placed(working') /\ working' \in Schedules
    BY <1>1 DEF RInv, IInv, CycleInv, SoundInv, SoundFor
<1>3. Placed(working') \subseteq Tasks
    BY <1>2, ScheduleFacts
<1>4. LobbyCost(lobby', working', protected') \in 0 .. MaxCost
    BY <1>2, LobbyCostIsNumber
<1>5. minCost' \in 0 .. MaxCost
    BY <1>1, <1>4 DEF Snapshot, TInv, CountInv
<1>6. config.maxIter \in Nat
    BY ConfigTypes DEF TInv, RInv, IInv, SoundInv
<1>7. iter' \in 0 .. config.maxIter
    BY <1>1, <1>6 DEF TInv, CountInv
<1> QED
    BY <1>1, <1>2, <1>3, <1>5, <1>7 DEF TInv, CountInv

LEMMA NextCounts ==
    ASSUME TInv, RInv', [Next]_vars
    PROVE  CountInv'
<1>1. /\ problem \in Problems /\ config \in Configs /\ source \in Nat
      /\ config.population \in Nat \ {0} /\ config.maxIter \in Nat
      /\ MaxCost \in Nat
    BY ConfigTypes, PlannerNumbers DEF TInv, RInv, IInv, SoundInv
<1>2. CASE BeginSource
    <2>1. round \in 1 .. Cardinality(Blocks)
        BY <1>2 DEF TInv, RInv, IInv, SoundInv, BeginSource, BlocksLeft
    <2>2. branches' \in Seq(Seq(Tasks))
        BY <1>1, <1>2, <2>1, BlockInHand, ProblemTypes DEF BeginSource
    <2> QED
        BY <1>2, <2>2 DEF BeginSource, TInv, CountInv, rounds, cycle
<1>3. CASE BeginBranch
    <2>1. todo' \in Seq(Tasks)
        BY <1>3 DEF BeginBranch, TInv, CountInv
    <2> QED
        BY <1>3, <2>1 DEF BeginBranch, TInv, CountInv, rounds, sources, cycle
<1>4. CASE BeginCycle
    <2>1. todo # <<>> /\ todo \in Seq(Tasks)
        BY <1>4 DEF BeginCycle, TInv, CountInv
    <2>2. <<Head(todo)>> \in Seq(Tasks)
        BY <2>1
    <2> QED
        BY <1>1, <1>4, <2>2 DEF BeginCycle, TInv, CountInv, rounds, sources
<1>5. CASE Repair
    BY <1>5, RepairCounts
<1>6. CASE EndCycle
    <2>1. todo \in Seq(Tasks) /\ todo # <<>>
        BY <1>6 DEF EndCycle, TInv, RInv, IInv, BranchInv, CountInv
    <2>2. Tail(todo) \in Seq(Tasks)
        BY <2>1
    <2> QED
        BY <1>6, <2>2 DEF EndCycle, TInv, CountInv, rounds, sources, cycle
<1>7. CASE EndBranch
    <2>1. branches \in Seq(Seq(Tasks)) /\ branches # <<>>
        BY <1>7 DEF EndBranch, TInv, RInv, IInv, BranchInv, CountInv
    <2> DEFINE Q == Seq(Tasks)
    <2>2. branches \in Seq(Q)
        BY <2>1
    <2> HIDE DEF Q
    <2>3. Tail(branches) \in Seq(Q)
        BY <2>1, <2>2
    <2>4. Tail(branches) \in Seq(Seq(Tasks))
        BY <2>3 DEF Q
    <2> QED
        BY <1>7, <2>4 DEF EndBranch, TInv, CountInv, rounds, cycle
<1>8. CASE EndSource
    BY <1>1, <1>8 DEF EndSource, TInv, CountInv, rounds, cycle
<1>9. CASE EndBlock
    <2>1. /\ IsFiniteSet(candidates) /\ candidates \subseteq Schedules
          /\ survivors' = survivors \/ (candidates # {} /\ survivors' \in Selections(candidates))
        BY <1>9 DEF EndBlock, TInv, RInv, IInv, SoundInv, SoundFor
    <2>2. Len(survivors') <= config.keep
        BY <1>1, <2>1, SelectionsFill DEF TInv, CountInv
    <2> QED
        BY <1>1, <1>9, <2>2 DEF EndBlock, TInv, CountInv, cycle
<1>10. CASE Return
    BY <1>10 DEF Return, TInv, CountInv, rounds, sources, cycle
<1>11. CASE UNCHANGED vars
    BY <1>11 DEF vars, TInv, CountInv, rounds, sources, cycle
<1> QED
    BY <1>2, <1>3, <1>4, <1>5, <1>6, <1>7, <1>8, <1>9, <1>10, <1>11 DEF Next, Finished

LEMMA PlannerCounts == Spec => []TInv
<1>1. Init => TInv
    BY InitPromising, InitCounts DEF TInv
<1>2. TInv /\ [Next]_vars => TInv'
    BY NextPromising, NextCounts DEF TInv
<1> QED
    BY <1>1, <1>2, PTL DEF Spec

(* The state keeps its types, and there is always a schedule to go on with *)
(* (accumulative.rs:71 divides by the number of survivors).                *)
THEOREM PlannerTypes == Spec => []TypeOK
<1>1. ASSUME TInv
      PROVE  TypeOK
    <2>1. RInv /\ CountInv /\ IInv /\ SoundInv /\ Promising
        BY <1>1 DEF TInv, RInv, IInv
    <2>2. \A s : SoundFor(problem, s) => ScheduleType(s)
        <3> SUFFICES ASSUME NEW s, SoundFor(problem, s)
                     PROVE  ScheduleType(s)
            OBVIOUS
        <3>1. s \in Schedules
            BY DEF SoundFor
        <3> QED
            BY <3>1, ScheduleFacts DEF ScheduleType
    <2>3. config.population \in Nat
        BY <2>1, ConfigTypes DEF SoundInv
    <2>4. source \in 0 .. config.population
        BY <2>1, <2>3 DEF SoundInv, CountInv
    <2>5. \A s \in Image(survivors) \cup candidates \cup {base, working, best, before} \cup result :
             ScheduleType(s)
        BY <2>1, <2>2 DEF SoundInv
    <2> QED
        BY <2>1, <2>4, <2>5 DEF TypeOK, SoundInv, CountInv, Promising
<1> QED
    BY <1>1, PlannerCounts, PTL

-----------------------------------------------------------------------------
(* The best schedule *)

(* Fitness, of a problem p.                                                *)
FitnessFor(p, s) ==
    MapThenSumSet(LAMBDA b : IF {t \in Tasks : p.owner[t] = b} = {} THEN 0
                             ELSE Cardinality({t \in Tasks : p.owner[t] = b} \cap Placed(s))
                                  * (Unit \div Cardinality({t \in Tasks : p.owner[t] = b}))
                                  * p.priority[b],
                  Blocks)

LEMMA FitnessIsFor == \A s : Fitness(s) = FitnessFor(problem, s)
BY DEF Fitness, FitnessFor, Members, MapThenSumSet, MapThenFoldSet

(* The first of the elitist survivors is the fittest of them.  It is the   *)
(* first source of a round, so with rejection candidates it is a candidate *)
(* of every round that has begun.                                          *)
BestInv ==
    config.survivor = "elitist" =>
       /\ \A r \in Image(survivors) : FitnessFor(problem, survivors[1]) >= FitnessFor(problem, r)
       /\ config.rejection /\ (source > 0 \/ phase \in {"branch", "task", "repair"}) =>
             survivors[1] \in candidates

BInv == TInv /\ BestInv

LEMMA InitBest == Init => BestInv
<1> SUFFICES ASSUME Init
             PROVE  BestInv
    OBVIOUS
<1>1. problem \in Problems /\ survivors = <<Empty>> /\ source = 0 /\ phase = "source"
    BY DEF Init
<1>2. Fitness(Empty) \in Int
    BY <1>1, FitnessIsNumber
<1>3. \A r \in Image(survivors) : r = Empty
    BY <1>1 DEF Image
<1> QED
    BY <1>1, <1>2, <1>3, FitnessIsFor DEF BestInv

(* At the end of a block that has candidates the first survivor is not     *)
(* beaten by any of them.                                                  *)
LEMMA BlockKeepsBest ==
    ASSUME BInv, EndBlock, config.survivor = "elitist"
    PROVE  /\ \A r \in Image(survivors') :
                 FitnessFor(problem, survivors'[1]) >= FitnessFor(problem, r)
           /\ survivors'[1] \in Image(survivors')
           /\ config.rejection =>
                 \A r \in Image(survivors) :
                    FitnessFor(problem, survivors'[1]) >= FitnessFor(problem, r)
<1>1. /\ problem \in Problems /\ config \in Configs
      /\ IsFiniteSet(candidates) /\ candidates \subseteq Schedules
      /\ survivors # <<>> /\ survivors \in Seq(Schedules)
    BY DEF BInv, TInv, RInv, IInv, SoundInv, SoundFor, Promising
<1>2. \A r \in Image(survivors) : FitnessFor(problem, survivors[1]) >= FitnessFor(problem, r)
    BY DEF BInv, BestInv
<1>3. CASE survivors' = survivors
    <2>1. Image(survivors') = Image(survivors)
        BY <1>3 DEF Image
    <2>2. survivors[1] \in Image(survivors)
        BY <1>1 DEF Image
    <2> QED
        BY <1>2, <1>3, <2>1, <2>2
<1>4. CASE candidates # {} /\ survivors' \in Selections(candidates)
    <2>1. /\ survivors'[1] \in Image(survivors')
          /\ \A s \in candidates : Fitness(survivors'[1]) >= Fitness(s)
        BY <1>1, <1>4, BestComesFirst
    <2>2. Image(survivors') \subseteq candidates
        BY <1>1, <1>4, SelectionsChoose
    <2>3. \A s \in candidates : FitnessFor(problem, survivors'[1]) >= FitnessFor(problem, s)
        BY <2>1, FitnessIsFor
    <2>4. ASSUME config.rejection, NEW r \in Image(survivors)
          PROVE  FitnessFor(problem, survivors'[1]) >= FitnessFor(problem, r)
        <3>1. source > 0
            BY <1>1, ConfigTypes DEF EndBlock
        <3>2. survivors[1] \in candidates
            BY <2>4, <3>1 DEF BInv, BestInv
        <3>3. FitnessFor(problem, survivors'[1]) >= FitnessFor(problem, survivors[1])
            BY <2>3, <3>2
        <3>4. /\ FitnessFor(problem, survivors'[1]) \in Int
              /\ FitnessFor(problem, survivors[1]) \in Int
              /\ FitnessFor(problem, r) \in Int
            BY <1>1, FitnessIsNumber, FitnessIsFor
        <3> QED
            BY <1>2, <2>4, <3>3, <3>4
    <2> QED
        BY <2>1, <2>2, <2>3, <2>4
<1>5. survivors' = survivors \/ (candidates # {} /\ survivors' \in Selections(candidates))
    BY DEF EndBlock
<1> QED
    BY <1>3, <1>4, <1>5

LEMMA NextBest ==
    ASSUME BInv, [Next]_vars
    PROVE  BestInv'
<1> SUFFICES ASSUME config'.survivor = "elitist"
             PROVE  BestInv'
    BY DEF BestInv
<1>1. /\ survivors # <<>> /\ survivors \in Seq(Schedules) /\ source \in Nat
      /\ config.population \in Nat \ {0} /\ config.keep \in Nat \ {0}
    BY ConfigTypes DEF BInv, TInv, RInv, IInv, SoundInv, Promising
<1>2. /\ UNCHANGED <<problem, config>>
      /\ config.survivor = "elitist"
    BY DEF Next, BeginSource, BeginBranch, BeginCycle, Repair, EndCycle, EndBranch, EndSource,
           EndBlock, Return, Finished, vars
<1>3. CASE BeginSource
    <2>1. /\ UNCHANGED <<survivors, source>> /\ phase = "source"
          /\ candidates' = candidates \cup Rejection(base')
          /\ base' = survivors[(source % Len(survivors)) + 1]
        BY <1>3 DEF BeginSource, rounds
    <2>2. ASSUME config.rejection
          PROVE  survivors[1] \in candidates'
        <3>1. CASE source > 0
            BY <2>1, <2>2, <3>1, <1>2 DEF BInv, BestInv
        <3>2. CASE source = 0
            <4>1. Len(survivors) \in Nat \ {0}
                BY <1>1
            <4>2. 0 % Len(survivors) = 0
                BY <4>1
            <4>3. base' = survivors[1]
                BY <2>1, <3>2, <4>2
            <4> QED
                BY <2>1, <2>2, <4>3 DEF Rejection
        <3> QED
            BY <1>1, <3>1, <3>2
    <2> QED
        BY <1>2, <2>1, <2>2 DEF BInv, BestInv, Image
<1>4. CASE EndBlock
    <2>1. source' = 0 /\ phase' = "source"
        BY <1>4 DEF EndBlock
    <2>2. \A r \in Image(survivors') : FitnessFor(problem, survivors'[1]) >= FitnessFor(problem, r)
        BY <1>2, <1>4, BlockKeepsBest
    <2> QED
        BY <1>2, <2>1, <2>2 DEF BestInv, Image
<1>5. CASE EndSource
    <2>1. UNCHANGED <<survivors, candidates>> /\ phase = "branch"
        BY <1>5 DEF EndSource, rounds
    <2> QED
        BY <1>2, <2>1 DEF BInv, BestInv, Image
<1>6. CASE ~ BeginSource /\ ~ EndBlock /\ ~ EndSource
    <2>1. /\ UNCHANGED <<survivors, source>> /\ candidates \subseteq candidates'
          /\ phase' \in {"branch", "task", "repair"} => phase \in {"branch", "task", "repair"}
        BY <1>6 DEF Next, BeginBranch, BeginCycle, Repair, EndCycle, EndBranch,
                    Return, Finished, vars, rounds, sources
    <2> QED
        BY <1>2, <2>1 DEF BInv, BestInv, Image
<1> QED
    BY <1>3, <1>4, <1>5, <1>6

(* Under elitist selection with rejection candidates, the best fitness     *)
(* never drops from block to block, however much a block has evicted       *)
(* (accumulative.rs:82-94, selection.rs:43-92).                            *)
THEOREM PlannerNeverWorse == Spec => BestNeverWorse
<1>1. Init => BInv
    BY InitPromising, InitCounts, InitBest DEF BInv, TInv
<1>2. BInv /\ [Next]_vars => BInv'
    BY NextPromising, NextCounts, NextBest DEF BInv, TInv
<1>3. ASSUME BInv, EndBlock, config.survivor = "elitist", config.rejection
      PROVE  \E s \in Image(survivors') : \A r \in Image(survivors) : Fitness(s) >= Fitness(r)
    <2>1. /\ survivors'[1] \in Image(survivors')
          /\ \A r \in Image(survivors) :
                FitnessFor(problem, survivors'[1]) >= FitnessFor(problem, r)
        BY <1>3, BlockKeepsBest
    <2>2. \A r \in Image(survivors) : Fitness(survivors'[1]) >= Fitness(r)
        BY <2>1, FitnessIsFor
    <2> QED
        BY <2>1, <2>2
<1>4. BInv /\ [Next]_vars =>
        [/\ EndBlock /\ config.survivor = "elitist" /\ config.rejection
         => \E s \in Image(survivors') : \A r \in Image(survivors) : Fitness(s) >= Fitness(r)]_vars
    BY <1>3
<1> QED
    BY <1>1, <1>2, <1>4, PTL DEF Spec, BestNeverWorse
=============================================================================
