-------------------------- MODULE ScheduleMetrics --------------------------
(***************************************************************************)
(* The metrics by which schedules are compared (schedulers/src/metrics.rs).*)
(*                                                                         *)
(* A result r is [tasks, dur, priority, placed, horizon, available,        *)
(* weights]: per task its duration, its priority and its placement; the    *)
(* horizon in ticks, the time that was available, and the weights of the   *)
(* ranking.  Ratios are fractions <<a, b>>, percentiles are in hundredths. *)
(***************************************************************************)
EXTENDS Periods, SortedSets

CONSTANTS NoPlacement, Default

Scheduled(r) == {t \in r.tasks : r.placed[t] # NoPlacement}

Ratio(a, b) == IF b <= 0 THEN <<0, 1>> ELSE <<a, b>>

SumOf(f, S) == MapThenSumSet(LAMBDA t : f[t], S)

Values(f, order) == [i \in DOMAIN order |-> f[order[i]]]

(* The members of S by what key tells of them. Which of two goes first     *)
(* where it ties does not matter to the values that are read.              *)
InOrderOf(key, S) ==
    SortedBy(LAMBDA t, u : key[t] < key[u] \/ (key[t] = key[u] /\ t < u), S)

(* The values of f over S, in ascending order. *)
Ascending(f, S) == Values(f, InOrderOf(f, S))

(* The percentile q, between the two values next to its rank. *)
Percentile(sorted, q) ==
    IF sorted = <<>> THEN 0
    ELSE LET rank == q * (Len(sorted) - 1)
             low  == 1 + (rank \div 100)
             part == rank % 100
         IN  IF part = 0 THEN 100 * sorted[low]
             ELSE sorted[low] * (100 - part) + sorted[low + 1] * part

First(sorted, none) == IF sorted = <<>> THEN none ELSE Head(sorted)
Final(sorted, none) == IF sorted = <<>> THEN none ELSE Last(sorted)

StatsOf(sorted, sum) ==
    [count |-> Len(sorted), sum |-> sum, min |-> First(sorted, 0), max |-> Final(sorted, 0),
     percentile |-> [q \in {25, 50, 75, 90} |-> Percentile(sorted, q)]]

PriorityStats(r) ==
    StatsOf(Ascending(r.priority, Scheduled(r)), SumOf(r.priority, Scheduled(r)))

(* The positions at which a new value begins. *)
StepStarts(sorted) ==
    SortedBy(LAMBDA i, j : i < j, {i \in DOMAIN sorted : i = 1 \/ sorted[i] # sorted[i - 1]})

StepsOf(sorted, starts) ==
    [k \in DOMAIN starts |->
        [priority |-> sorted[starts[k]], start |-> starts[k] - 1,
         end |-> IF k = Len(starts) THEN Len(sorted) - 1 ELSE starts[k + 1] - 2]]

EncodePriorities(sorted) == StepsOf(sorted, StepStarts(sorted))

(* The runs of equal priorities, from the highest, with 0-based bounds. *)
Stairs(r) == EncodePriorities(Reverse(Ascending(r.priority, Scheduled(r))))

ByStart(r) == InOrderOf([t \in Scheduled(r) |-> r.placed[t].start], Scheduled(r))

Between(order, r) ==
    [i \in 1 .. Len(order) - 1 |-> r.placed[order[i + 1]].start - r.placed[order[i]].end]

Positive(gap) == Ascending(gap, {i \in DOMAIN gap : gap[i] > 0})

(* The idle gaps between placements, in ascending order. *)
Gaps(r) == Positive(Between(ByStart(r), r))

TimeOf(r) == IF r.available = Default THEN Span(r.horizon) ELSE r.available

FragmentationOf(gaps, total, time) ==
    [count |-> Len(gaps), total |-> total, largest |-> Final(gaps, 0),
     index |-> Ratio(total, time),
     min |-> First(gaps, NoPlacement), mean |-> Ratio(total, Len(gaps)),
     median |-> Percentile(gaps, 50), p90 |-> Percentile(gaps, 90)]

TotalOf(gaps) == SumOf(gaps, DOMAIN gaps)

Fragmentation(r) == FragmentationOf(Gaps(r), TotalOf(Gaps(r)), TimeOf(r))

ScheduledTime(r) == SumOf([t \in Scheduled(r) |-> Span(r.placed[t])], Scheduled(r))
Utilization(r) == Ratio(ScheduledTime(r), TimeOf(r))
TaskRatio(r) == Ratio(Cardinality(Scheduled(r)), Cardinality(r.tasks))

PriorityRatio(r) == Ratio(SumOf(r.priority, Scheduled(r)), SumOf(r.priority, r.tasks))

(* PriorityRatio over TaskRatio *)
PriorityDensity(r) ==
    IF Scheduled(r) = {} THEN <<0, 1>>
    ELSE <<PriorityRatio(r)[1] * TaskRatio(r)[2], PriorityRatio(r)[2] * TaskRatio(r)[1]>>

Clamped(f) == IF f[1] < 0 THEN <<0, 1>> ELSE IF f[1] > f[2] THEN <<1, 1>> ELSE f

Complement(f) == <<f[2] - f[1], f[2]>>

(* The mean priority of the scheduled tasks, over the highest. *)
RelativePriority(stats) ==
    IF stats.max <= 0 THEN <<0, 1>> ELSE Clamped(<<stats.sum, stats.count * stats.max>>)

(* The terms of the ranking score, as fractions. *)
Terms(r) ==
    [scheduled_task     |-> Clamped(TaskRatio(r)),
     scheduled_priority |-> RelativePriority(PriorityStats(r)),
     utilization        |-> Clamped(Utilization(r)),
     fragmentation      |-> Complement(Clamped(Fragmentation(r).index))]

WeightedSum(weights, term, den) ==
    SumOf([n \in DOMAIN term |-> weights[n] * term[n][1] * (den \div term[n][2])], DOMAIN term)

Denominator(term) == FoldFunction(LAMBDA f, n : f[2] * n, 1, term)

(* The weighted mean of the terms. *)
ScoreOf(weights, term, den, total) ==
    IF total <= 0 THEN <<0, 1>> ELSE <<WeightedSum(weights, term, den), total * den>>

CompositeScore(r) ==
    ScoreOf(r.weights, Terms(r), Denominator(Terms(r)), SumOf(r.weights, DOMAIN r.weights))
=============================================================================
