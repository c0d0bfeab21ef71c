------------------------- MODULE PlannerProperties -------------------------
(***************************************************************************)
(* What makes the accumulative planner correct.                            *)
(***************************************************************************)
EXTENDS AccumulativePlanner

ScheduleType(s) == Placed(s) \subseteq Tasks /\ \A t \in Placed(s) : s[t] \in Int

(* The state has its types, and there is always a schedule to go on with   *)
(* (accumulative.rs:71 divides by the number of survivors).                *)
TypeOK ==
    /\ problem \in Problems /\ config \in Configs
    /\ phase \in {"source", "branch", "task", "repair", "done"}
    /\ round \in 1 .. Cardinality(Blocks) + 1
    /\ survivors # <<>> /\ Len(survivors) <= config.keep
    /\ \A s \in Image(survivors) \cup candidates \cup {base, working, best, before} \cup result :
          ScheduleType(s)
    /\ source \in 0 .. config.population
    /\ branches \in Seq(Seq(Tasks)) /\ todo \in Seq(Tasks) /\ lobby \in Seq(Tasks)
    /\ protected \subseteq Tasks
    /\ iter \in 0 .. config.maxIter
    /\ minCost \in 0 .. MaxCost

(* Every placement lies in one window of its task, and none overlap.       *)
Valid(s) ==
    /\ \A t \in Placed(s) : \E w \in problem.windows[t] : Inside(Interval(s, t), w)
    /\ \A t, u \in Placed(s) : t # u => ~ Overlaps(Interval(s, t), Interval(s, u))

(* Every schedule the planner holds is valid, also in the middle of a      *)
(* repair (task_scheduler.rs:78-134, 218-227).                             *)
SchedulesValid ==
    \A s \in Image(survivors) \cup candidates \cup {base, working, best} \cup result : Valid(s)

(* A task that waits is not placed and waits once, so that no task is ever *)
(* placed over itself, and a repair cycle tries each task at most once:    *)
(* the lobby drains by itself, whatever is evicted on the way              *)
(* (task_scheduler.rs:298-321).                                            *)
TriedOnce ==
    phase = "repair" =>
       /\ Image(lobby) \cap (Placed(working) \cup protected) = {}
       /\ Cardinality(Image(lobby)) = Len(lobby)
       /\ iter + Len(lobby) <= Cardinality(Tasks)

(* A task placed in a repair cycle is not moved again in the same cycle    *)
(* (cru/README.md:45-48; task_scheduler.rs:208, 319-321).                  *)
PlacedOnceStays ==
    [][Repair => \A t \in protected : t \in Placed(working') /\ working'[t] = working[t]]_vars

(* A repair cycle leaves the schedule as it was, or with its task placed   *)
(* (task_scheduler.rs:292, 331-337).                                       *)
CycleAddsOrUndoes ==
    [][EndCycle => working' = before \/ Head(todo) \in Placed(working')]_vars

(* A repair cycle drains its lobby, moves no task twice, and adds a task   *)
(* or leaves no trace (task_scheduler.rs:208-337).                         *)
RepairIsFair ==
    /\ []TriedOnce
    /\ PlacedOnceStays
    /\ CycleAddsOrUndoes

(* Under elitist selection with rejection candidates, the best fitness     *)
(* never drops from block to block, however much a block has evicted       *)
(* (accumulative.rs:82-94, selection.rs:43-92).                            *)
BestNeverWorse ==
    [][/\ EndBlock /\ config.survivor = "elitist" /\ config.rejection
       => \E s \in Image(survivors') : \A r \in Image(survivors) : Fitness(s) >= Fitness(r)]_vars

(* The planner implements its promise (accumulative.rs:59-95,              *)
(* cru/mod.rs:62-83).                                                      *)
PlanOf(s) == {[task |-> t, start |-> s[t], end |-> Interval(s, t).end] : t \in Placed(s)}

Promise == INSTANCE Accumulation WITH
    left <- {b \in Blocks : Turn(b) >= round - 1},
    pool <- {PlanOf(s) : s \in Image(survivors)},
    answer <- {PlanOf(s) : s \in result}

AccumulatesBlocks == Promise!Spec

(* Every run returns a schedule. *)
Termination == <>(phase = "done")

(* A task follows its predecessors, as tests/hap_integration.rs:79 has it. *)
DependenciesRespected ==
    \A s \in result : \A d \in problem.deps :
       {d[1], d[2]} \subseteq Placed(s) => Interval(s, d[1]).end <= s[d[2]]

(* A cycle that ends with an empty lobby, and with all tasks of the        *)
(* schedule placed, removes none (cru/README.md:35-37).                    *)
MovedNotLost ==
    [][EndCycle /\ lobby = <<>> /\ Placed(before) \subseteq Placed(working)
       => Placed(before) \subseteq Placed(working')]_vars
=============================================================================
