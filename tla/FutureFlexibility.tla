------------------------- MODULE FutureFlexibility -------------------------
(***************************************************************************)
(* The figure of merit that scores a beam by what it can still place       *)
(* (schedulers/src/scheduler/fom/future_flexibility.rs).                   *)
(*                                                                         *)
(* A state s of the search is [tasks, windows, dur, preds, placed, soft,   *)
(* regions]: per task its windows in normal form, its duration, all of its *)
(* predecessors, its placement and its soft score; and the regions that    *)
(* are left to the cursors.  Loads are counted in parts of Unit, a common  *)
(* multiple of the flexibilities that occur.                               *)
(***************************************************************************)
EXTENDS Periods, SortedSets

CONSTANTS
    Unit,       \* the load of one busy telescope
    NotPlaced,  \* the task has no placement
    Blocked     \* a predecessor has no placement

ASSUME UnitIsPositive == Unit \in Nat \ {0}
ASSUME BlockedIsNoInstant == Blocked \notin Int

Remaining(s) == {t \in s.tasks : s.placed[t] = NotPlaced}

(* The earliest start of t in a region that opens at from. *)
EffectiveStart(s, t, from) ==
    IF s.preds[t] \cap Remaining(s) # {} THEN Blocked
    ELSE Max({from} \cup {s.placed[u].end : u \in s.preds[t]})

(* The ticks of the windows of t in a period, where they take the task. *)
UsableTicks(s, t, from, to) ==
    LET part(w) == Span(Common(w, [start |-> from, end |-> to])) IN
    FoldLeft(LAMBDA n, w : IF part(w) >= s.dur[t] THEN n + part(w) ELSE n,
             0, s.windows[t])

(* The first of the regions that leave t the most ticks, as [from, to,     *)
(* ticks].                                                                 *)
BestRegion(s, t) ==
    FoldLeft(LAMBDA best, region :
                 LET from == EffectiveStart(s, t, region.start) IN
                 IF from = Blocked THEN best
                 ELSE LET ticks == UsableTicks(s, t, from, region.end) IN
                      IF ticks > best.ticks
                        THEN [from |-> from, to |-> region.end, ticks |-> ticks]
                        ELSE best,
             [from |-> s.regions[1].start, to |-> s.regions[1].end, ticks |-> 0],
             s.regions)

Recoverable(s) == {t \in Remaining(s) : BestRegion(s, t).ticks >= s.dur[t]}

RecoverableCount(s) == Cardinality(s.tasks \ Remaining(s)) + Cardinality(Recoverable(s))

(* 1 / flexibility *)
Density(s, t) == (Unit * s.dur[t]) \div BestRegion(s, t).ticks

(* The parts of the windows that reach into a region. *)
PartsIn(windows, region) ==
    {Common(w, [start |-> region.from, end |-> region.to]) :
        w \in {w \in Range(windows) : w.start < region.to /\ region.from < w.end}}

(* A recoverable task loads every window that reaches into its region, the *)
(* windows too short for it included.                                      *)
LoadedPeriods(s, t) == PartsIn(s.windows[t], BestRegion(s, t))

Event(at, delta, t) == [at |-> at, delta |-> delta, task |-> t]

(* By time, ends first. Which task goes first makes no difference. *)
EventBefore(e, f) ==
    \/ e.at < f.at
    \/ e.at = f.at /\ (e.delta < f.delta \/ (e.delta = f.delta /\ e.task < f.task))

EventsOf(t, periods, load) ==
    {Event(p.start, load, t) : p \in periods} \cup {Event(p.end, - load, t) : p \in periods}

Events(s) ==
    SortedBy(EventBefore, UNION {EventsOf(t, LoadedPeriods(s, t), Density(s, t)) :
                                    t \in Recoverable(s)})

FirstActive(s) == Min({s.regions[i].start : i \in DOMAIN s.regions})

(* Faulty: the load changes before the time up to the event is counted. *)
SweepStep_LoadFirst(s, sweep, event) ==
    LET at   == Later(event.at, FirstActive(s))
        load == sweep.load + event.delta
    IN  [load |-> load, upto |-> at,
         area |-> sweep.area + (at - sweep.upto) * Later(load - Unit, 0)]

(* The overload up to the next event, and the load after it. *)
SweepStep(s, sweep, event) ==
    LET at == Later(event.at, FirstActive(s)) IN
    [load |-> sweep.load + event.delta, upto |-> at,
     area |-> sweep.area + (at - sweep.upto) * Later(sweep.load - Unit, 0)]

Sweep(s, events) ==
    FoldLeft(LAMBDA sweep, event : SweepStep(s, sweep, event),
             [load |-> 0, upto |-> Later(Head(events).at, FirstActive(s)), area |-> 0], events)

OverloadArea(s) == IF Recoverable(s) = {} THEN 0 ELSE Sweep(s, Events(s)).area

RemainingHorizon(s) ==
    FoldLeft(LAMBDA n, region : n + Later(Span(region), 0), 0, s.regions)

(* The terms of the score, as fractions <<a, b>>. *)
DensityTerm(s) ==
    LET room == Unit * RemainingHorizon(s) IN
    IF room = 0 \/ Recoverable(s) = {} THEN <<1, 1>> ELSE <<room, room + OverloadArea(s)>>

ReserveTerm(s) ==
    IF Recoverable(s) = {} THEN <<0, 1>>
    ELSE <<MapThenSumSet(LAMBDA t : Unit - Density(s, t), Recoverable(s)),
           Unit * Cardinality(Recoverable(s))>>

SoftTerm(s) ==
    LET sum == MapThenSumSet(LAMBDA t : s.soft[t], s.tasks \ Remaining(s))
        all == Cardinality(s.tasks)
    IN  IF all = 0 THEN <<0, 1>> ELSE <<Later(0, Earlier(sum, all)), all>>
=============================================================================
