------------------------- MODULE LibraryProperties -------------------------
(***************************************************************************)
(* What the algorithms that every scheduler relies on must compute.  Each  *)
(* property compares an algorithm with a plain reading of its task, for    *)
(* the inputs of a sample:                                                 *)
(*   raw:        periods, in any order;                                    *)
(*   sets:       two sets of ticks;                                        *)
(*   completion: an expression of a block with its tasks;                  *)
(*   hard:       a static and a dynamic constraint, and a timeline;        *)
(*   future:     a state of the search;                                    *)
(*   result:     a schedule with its problem.                              *)
(***************************************************************************)
EXTENDS ConstraintExpr, CompletionExpr, FutureFlexibility, ScheduleMetrics

VARIABLE sample

About(kind) == sample.about = kind

(* from_periods keeps the time that the periods cover, and leaves them     *)
(* sorted and apart, however they overlap, nest or touch                   *)
(* (interval.rs:43-63).                                                    *)
NormaliseKeepsTime ==
    About("raw") =>
        LET set == Normalise(sample.periods) IN
        IsNormal(set) /\ Points(set) = Points(sample.periods)

(* Union and intersection of two sets are those of the time they cover,    *)
(* and are in normal form again, which every later query relies on         *)
(* (interval.rs:65-126).                                                   *)
AlgebraIsSetAlgebra ==
    About("sets") =>
        LET left  == PeriodsOfTicks(sample.left)
            right == PeriodsOfTicks(sample.right)
            both  == IntersectionOf(left, right)
            any   == UnionOf(left, right)
        IN  /\ IsNormal(both) /\ Points(both) = sample.left \cap sample.right
            /\ IsNormal(any) /\ Points(any) = sample.left \cup sample.right

(* The two queries that look at one period only find what any period of    *)
(* the set would answer (period_set.rs:43-59).                             *)
QueriesFindThePeriod ==
    About("sets") =>
        LET set == PeriodsOfTicks(sample.left) IN
        /\ \A t \in sample.right : ContainsPoint(set, t) <=> t \in sample.left
        /\ \A from, to \in sample.right :
              from < to =>
                (OverlapsAny(set, [start |-> from, end |-> to])
                    <=> (from .. to - 1) \cap sample.left # {})

(* Lists of periods behave as the sets of ticks they stand for             *)
(* (interval.rs:43-126; period_set.rs:43-59).                              *)
PeriodSetsAreSets ==
    /\ NormaliseKeepsTime
    /\ AlgebraIsSetAlgebra
    /\ QueriesFindThePeriod

(* The branches say what the expression says: placed tasks satisfy it iff  *)
(* they include a branch.  The outer cycle of the planner tries branches   *)
(* and judges the block by the expression (completion.rs:52-156).          *)
DnfMeansTheSame ==
    About("completion") =>
        LET branches == CompletionBranches(sample.expression, sample.tasks) IN
        branches # TooLarge =>
            \A placed \in SUBSET ToSet(sample.tasks) :
                IsComplete(sample.expression, sample.tasks, placed)
                    <=> \E branch \in branches : branch \subseteq placed

(* An And or Or without the children after the first k. *)
FirstChildren(e, k) == [kind |-> e.kind, parts |-> [i \in 1 .. k |-> e.parts[i]]]

(* The expansion never holds more than MaxDnfBranches branches.  It is     *)
(* given up only when some part of the expression has more, or the first   *)
(* children of one have: a last child without branches makes And have none *)
(* at all, but comes too late (completion.rs:86-96).                       *)
ExpansionIsBounded ==
    (About("completion") /\ sample.expression # NoExpression) =>
        LET branches == DnfCollect(sample.expression) IN
        IF branches = TooLarge
          THEN \E part \in Subexpressions(sample.expression) :
                  /\ part.kind # "leaf"
                  /\ \E k \in 0 .. Len(part.parts) :
                        Expansion(FirstChildren(part, k)) > MaxDnfBranches
          ELSE Len(branches) <= MaxDnfBranches

(* A block is counted as schedulable only when placing its tasks that have *)
(* windows would complete it, unless nothing can complete it; and such a   *)
(* block is missed only when its expansion was given up                    *)
(* (preschedule_cache.rs:119-130).                                         *)
CountedBlocksCanComplete ==
    About("completion") =>
        \A withWindow \in SUBSET ToSet(sample.tasks) :
            LET completes(placed) == IsComplete(sample.expression, sample.tasks, placed)
                counted == CountsAsSchedulable(sample.expression, sample.tasks, withWindow)
            IN  /\ counted => completes(withWindow) \/ ~ completes(ToSet(sample.tasks))
                /\ completes(withWindow) =>
                      counted \/ CompletionBranches(sample.expression, sample.tasks) = TooLarge

(* Whoever works with the branches of a completion expression gets what    *)
(* the expression says, or is told that there are too many                 *)
(* (completion.rs:52-156).                                                 *)
BranchesMeanTheExpression ==
    /\ DnfMeansTheSame
    /\ ExpansionIsBounded
    /\ CountedBlocksCanComplete

(* What an expression of tick-wise atoms allows at tick t.                 *)
AllowedBy(e, allowed, t) ==
    CASE e.kind = "atom" -> t \in e.allowed
      [] e.kind = "union" -> \E i \in DOMAIN allowed : allowed[i]
      [] e.kind = "intersection" -> \A i \in DOMAIN allowed : allowed[i]
      [] OTHER -> FALSE   \* a failing atom

Allows(e, t) ==
    LET allows[x \in HardExprs] == AllowedBy(x, [i \in DOMAIN x.parts |-> allows[x.parts[i]]], t)
    IN  allows[e]

(* Some leaf of an expression is of this kind. *)
HasLeaf(e, kind) ==
    LET has[x \in HardExprs] ==
            IF x.kind \in {"union", "intersection"} THEN \E i \in DOMAIN x.parts : has[x.parts[i]]
            ELSE x.kind = kind
    IN  has[e]

CanFail(e) == HasLeaf(e, "failing")
TickWise(e) == ~ HasLeaf(e, "midpoint")

BothTickWise == TickWise(sample.static) /\ TickWise(sample.dynamic)

(* Evaluating the static part first, and the dynamic one only inside what  *)
(* it leaves, changes nothing: where the check succeeds it finds the ticks *)
(* that both allow, in normal form; it fails only on a failing atom, and   *)
(* an atom it never got to excludes nothing (constraints/mod.rs).  With a  *)
(* judgement of a midpoint it still stays inside the timeline.             *)
CheckIsPointwise ==
    About("hard") =>
        LET found == CheckHard(sample.static, sample.dynamic, sample.timeline) IN
        IF found = Failed THEN CanFail(sample.static) \/ CanFail(sample.dynamic)
        ELSE /\ IsNormal(found)
             /\ Points(found) \subseteq Ticks(sample.timeline)
             /\ BothTickWise =>
                  Points(found) = {t \in Ticks(sample.timeline) :
                                      Allows(sample.static, t) /\ Allows(sample.dynamic, t)}

(* Asking again about a part of the timeline gives the same answer: an     *)
(* observation that lies in a window of the prescheduler is one that       *)
(* can_place would accept (prescheduler/mod.rs, schedule/problem.rs:       *)
(* 135-154).  It does not hold of a judgement of the midpoint, which is    *)
(* another one for the candidate than for the timeline.                    *)
WindowsHoldForCandidates ==
    About("hard") /\ BothTickWise =>
        LET found == CheckHard(sample.static, sample.dynamic, sample.timeline) IN
        found # Failed =>
            \A candidate \in PeriodsOver(Ticks(sample.timeline)) :
                Covered(found, candidate) =>
                    LET again == CheckHard(sample.static, sample.dynamic, candidate)
                    IN  again # Failed /\ Covered(again, candidate)

(* Checking constraints in stages, and again for a candidate, decides as   *)
(* checking all of them at every tick (constraints/types.rs:34-80).        *)
StagedChecksAgree ==
    /\ CheckIsPointwise
    /\ WindowsHoldForCandidates
-----------------------------------------------------------------------------
(* A task counts as recoverable exactly when one of the regions has room   *)
(* for it: inside one of its windows and after its predecessors, all of    *)
(* which are placed (future_flexibility.rs:56-69).                         *)
RecoverableFits ==
    About("future") =>
        Recoverable(sample) =
            {t \in Remaining(sample) :
                /\ sample.preds[t] \cap Remaining(sample) = {}
                /\ \E i \in DOMAIN sample.regions, w \in Range(sample.windows[t]) :
                   \E at \in sample.regions[i].start .. sample.regions[i].end - sample.dur[t] :
                      /\ Inside([start |-> at, end |-> at + sample.dur[t]], w)
                      /\ \A u \in sample.preds[t] : sample.placed[u].end <= at}

(* The load at tick x of all recoverable tasks. *)
LoadAt(x) ==
    MapThenSumSet(LAMBDA t : IF \E p \in LoadedPeriods(sample, t) : x \in Ticks(p)
                               THEN Density(sample, t) ELSE 0,
                  Recoverable(sample))

(* The sweep over the starts and ends of windows measures the overload of  *)
(* every tick, however windows nest, touch or begin together               *)
(* (future_flexibility.rs:246-323).                                        *)
SweepIsTickwise ==
    About("future") =>
        OverloadArea(sample) =
            MapThenSumSet(LAMBDA x : Later(LoadAt(x) - Unit, 0),
                          UNION {Ticks(p) : p \in UNION {LoadedPeriods(sample, t) :
                                                            t \in Recoverable(sample)}})

(* The terms added to the count are fractions of one, so that a state that *)
(* can place one more task always outranks one that cannot; and the        *)
(* density is 1 exactly when no tick is overloaded                         *)
(* (future_flexibility.rs:46-62).                                          *)
TermsAreFractions ==
    About("future") =>
        LET density == DensityTerm(sample)
            reserve == ReserveTerm(sample)
            soft    == SoftTerm(sample)
        IN  /\ 0 < density[1] /\ density[1] <= density[2]
            /\ 0 <= reserve[1] /\ reserve[1] < reserve[2]
            /\ 0 <= soft[1] /\ soft[1] <= soft[2]
            /\ RemainingHorizon(sample) > 0 =>
                  (density[1] = density[2] <=> OverloadArea(sample) = 0)

(* The stairs decode to the priorities that were encoded, one step for     *)
(* each, and their counts add up to what the validation of a manifest      *)
(* expects (metrics.rs:197-231, manifest.rs:304-314).                      *)
StairsTellThePriorities ==
    About("result") =>
        LET stairs == Stairs(sample)
            values == Reverse(Ascending(sample.priority, Scheduled(sample)))
        IN  /\ \A i \in DOMAIN values : \E k \in DOMAIN stairs :
                  /\ stairs[k].start < i /\ i <= stairs[k].end + 1
                  /\ stairs[k].priority = values[i]
            /\ \A k, l \in DOMAIN stairs : k < l => stairs[k].priority > stairs[l].priority
            /\ SumOf([k \in DOMAIN stairs |-> stairs[k].end - stairs[k].start + 1], DOMAIN stairs)
                  = Len(values)

(* Observing and idle time together fill the time from the first start to  *)
(* the last end: no gap is counted twice or missed, whatever the order in  *)
(* which the tasks were placed (metrics.rs:452-506).                       *)
GapsFillTheEnvelope ==
    (About("result") /\ Scheduled(sample) # {}) =>
        LET gaps == Fragmentation(sample)
            placed == {sample.placed[t] : t \in Scheduled(sample)}
        IN  /\ ScheduledTime(sample) + gaps.total
                  = Max({p.end : p \in placed}) - Min({p.start : p \in placed})
            /\ gaps.count > 0 =>
                  /\ 100 * gaps.min <= gaps.median /\ gaps.median <= gaps.p90
                  /\ gaps.p90 <= 100 * gaps.largest
                  /\ gaps.count * gaps.min <= gaps.total

(* The composite score lies between 0 and 1, and only a schedule with      *)
(* every task, without gaps, that uses all the time there was and tasks of *)
(* one priority reaches 1 (metrics.rs:546-583).                            *)
OnlyThePerfectScoreIsOne ==
    About("result") =>
        LET score == CompositeScore(sample) IN
        /\ 0 <= score[1] /\ score[1] <= score[2]
        /\ score[1] = score[2] =>
              /\ Scheduled(sample) = sample.tasks
              /\ Gaps(sample) = <<>>
              /\ ScheduledTime(sample) >= TimeOf(sample)
              /\ Len(Stairs(sample)) = 1

(* The priority density exceeds 1 exactly when the scheduled tasks have a  *)
(* higher mean priority than all tasks (metrics.rs:262-267).               *)
DensityComparesMeans ==
    (About("result") /\ \A t \in sample.tasks : sample.priority[t] >= 0) =>
        LET density == PriorityDensity(sample)
            mean(S) == SumOf(sample.priority, S)
        IN  density[1] > density[2] <=>
              /\ Scheduled(sample) # {}
              /\ mean(Scheduled(sample)) * Cardinality(sample.tasks)
                    > mean(sample.tasks) * Cardinality(Scheduled(sample))

(* The terms of the figure of merit and the metrics of a schedule measure  *)
(* what their names say (future_flexibility.rs:46-323;                     *)
(* metrics.rs:197-583).                                                    *)
MeasuresMeanWhatTheySay ==
    /\ RecoverableFits
    /\ SweepIsTickwise
    /\ TermsAreFractions
    /\ StairsTellThePriorities
    /\ GapsFillTheEnvelope
    /\ OnlyThePerfectScoreIsOne
    /\ DensityComparesMeans
=============================================================================
