-------------------------- MODULE CursorProperties --------------------------
(***************************************************************************)
(* What the beam search of CursorEngine must never get wrong.              *)
(***************************************************************************)
EXTENDS CursorEngine

AllBeams == Range(live) \cup Range(next) \cup terminal

Filtered == {t \in Tasks : problem.windows[t] # {}}

(* Every variable has its type, and a round never holds more beams than    *)
(* KBeams and Branching allow: children of the expanded beams included.    *)
TypeOK ==
    /\ layout \in Layouts
    /\ problem \in Problems
    /\ live \in Seq(Beams) /\ Len(live) <= KBeams
    /\ next \in Seq(Beams)
    /\ Len(next) + Branching * Len(live) <= Branching * KBeams
    /\ terminal \subseteq Beams
    /\ result \subseteq SUBSET Placements

(* No beam places a task twice, by one cursor or by two, and no two of its *)
(* placements overlap (docs/algorithms/multi-cursor.md, "Invariants").     *)
NoDoubleBooking ==
    \A b \in AllBeams : \A p, q \in b.placed :
        p # q => p.task # q.task /\ ~ Overlaps(p, q)

(* Whoever placed them, a task is placed only together with its            *)
(* predecessors, and starts after they have ended                          *)
(* (docs/algorithms/multi-cursor.md: enforced across cursors).             *)
DependenciesRespected ==
    \A b \in AllBeams : \A d \in problem.deps : \A p \in b.placed :
        p.task = d[2] => \E r \in b.placed : r.task = d[1] /\ r.end <= p.start

(* Every placement lasts as long as its task and lies within one feasible  *)
(* window of it and within the extent of its cursor.  No validation checks *)
(* the window: it follows from the frame arithmetic and the queue refresh. *)
PlacedInWindow ==
    \A b \in AllBeams : \A p \in b.placed :
        /\ Span(p) = problem.dur[p.task]
        /\ \E w \in problem.windows[p.task] : Inside(p, w)
        /\ Inside(p, Extent(p.cursor))

(* A cursor never turns back: what it placed lies behind its position, and *)
(* its position does not leave its extent.                                 *)
BehindFrontier ==
    \A b \in AllBeams :
        /\ \A c \in Cursors :
              Extent(c).start <= b.front[c] /\ b.front[c] <= Extent(c).end
        /\ \A p \in b.placed :
              IF layout[p.cursor].dir = Forward
              THEN p.end <= Position(b, p.cursor)
              ELSE Position(b, p.cursor) <= p.start

(* A Backward cursor never places a task together with a predecessor of    *)
(* it: it would have to place the predecessor first, hence later.  So LST, *)
(* a single Backward cursor, leaves every task with predecessors out.      *)
BackwardPlacesNoSuccessors ==
    \A b \in AllBeams : \A p, q \in b.placed :
        (q.cursor = p.cursor /\ layout[p.cursor].dir = Backward)
            => q.task \notin AllPredecessors(p.task)

(* A task leaves the queues exactly when it is placed: all queues of a     *)
(* beam hold the same tasks, and no task is lost or left behind in the     *)
(* queue of another cursor.                                                *)
UnplacedStayQueued ==
    \A b \in AllBeams : \A c \in Cursors :
        b.queue[c] = Filtered \ TasksOf(b.placed)

(* The assertion of into_task_placement: a candidate that is placed ends   *)
(* within the extent of its cursor, so the search never panics.            *)
PlacementFitsExtent ==
    \A b \in Range(live) : \A a \in Actions(Refreshed(b)) :
        a.est + problem.dur[a.task] <= Extent(a.cursor).end

(* Every beam is a plan, and its next step stays one: each task at most    *)
(* once, without overlaps, after its predecessors, in its windows and      *)
(* within the extent of its cursor (engine.rs:414-499;                     *)
(* docs/algorithms/multi-cursor.md, "Invariants").                         *)
PlansAreValid ==
    /\ NoDoubleBooking
    /\ DependenciesRespected
    /\ PlacedInWindow
    /\ PlacementFitsExtent

(* What a cursor has placed lies behind it and what it may still place is  *)
(* in its queue, whichever cursors placed what (engine.rs:249-266,         *)
(* 414-448).                                                               *)
NothingLeftBehind ==
    /\ BehindFrontier
    /\ BackwardPlacesNoSuccessors
    /\ UnplacedStayQueued

(* A Forward cursor whose end follows a cursor ahead of it never passes    *)
(* that cursor, neither by its own steps nor by those of the other, and    *)
(* once one of them has moved they keep their gap (dynamic_est_lst_meet,   *)
(* dynamic_start_mid_forward; docs/algorithms/multi-cursor.md).            *)
FrontiersNeverCross ==
    \A b \in AllBeams : \A c, d \in Cursors :
        LET mutual == layout[d].dir = Backward /\ layout[d].lo.follows = c
            gap    == IF mutual THEN Earlier(layout[c].gap, layout[d].gap)
                      ELSE layout[c].gap
            moved  == \E p \in b.placed :
                          p.cursor = c \/ (mutual /\ p.cursor = d)
        IN  (/\ layout[c].dir = Forward /\ layout[c].hi.follows = d
             /\ layout[d].dir = Forward \/ mutual)
            => Position(b, c) + (IF moved THEN gap ELSE 0) <= Position(b, d)

(* The usable overlaps of a task with the active region, from all of its   *)
(* windows: what the queue would find with no memory of earlier rounds.    *)
FreshUsable(b, c, t) ==
    {o \in {Common(FramePeriod(c, w), FrameActive(b, c)) :
               w \in problem.windows[t]} : Span(o) >= problem.dur[t]}

(* est is the first usable overlap of the task with the region that is     *)
(* active now (scheduler/est/README.md, "Candidate refresh"): discarding   *)
(* windows in earlier rounds never hides one that could be used again.     *)
EstIsFirstValidOverlap ==
    \A b \in Range(live) : \A c \in Cursors : \A t \in b.queue[c] :
        HasActive(b, c) =>
            Usable(Refreshed(b), c, t) = FreshUsable(b, c, t)

(* The side a cursor starts from is fixed, or follows a cursor that moves  *)
(* the same way: no region opens behind its cursor.                        *)
NearSidesAdvance ==
    \A c \in Cursors :
        LET near == IF layout[c].dir = Forward THEN layout[c].lo ELSE layout[c].hi IN
        near.follows # NoCursor => layout[near.follows].dir = layout[c].dir

(* In such a layout the incremental queue is exact (est/candidate.rs:80).  *)
QueueIsExact == NearSidesAdvance => EstIsFirstValidOverlap

(* Pruning a dominated candidate loses no option: after the first          *)
(* candidate of the cursor has been placed, the dominated one is still in  *)
(* the queue with the same earliest start.                                 *)
DominancePruningIsSafe ==
    NearSidesAdvance =>
    \A i \in DOMAIN live :
        LET b       == Refreshed(live[i])
            actions == Actions(b)
        IN
        \A f \in {a \in actions : a.rank = 0} :
            LET after == Actions(Refreshed(Child(b, f))) IN
            \A a \in actions :
                (a.cursor = f.cursor /\ Dominated(b, actions, a)) =>
                    \E k \in after :
                        k.cursor = a.cursor /\ k.task = a.task /\ k.est = a.est

(* The search stops too early on no beam: in a terminal beam no cursor can *)
(* place a further task at its earliest start in the region it has left.   *)
TerminalIsStuck ==
    NearSidesAdvance =>
    \A b \in terminal : \A c \in Cursors : \A t \in Filtered :
        LET usable == FreshUsable(b, c, t) IN
        (HasActive(b, c) /\ usable # {}) =>
            ~ Allowed(b, [cursor |-> c, task |-> t,
                          est |-> Min({o.start : o \in usable})])

(* Looking at less never loses an option: neither the windows that the     *)
(* queue discards, nor the candidates that dominance prunes, nor the beams *)
(* that are given up (est/candidate.rs:80-110; engine.rs:249-290).         *)
NoOptionIsLost ==
    /\ QueueIsExact
    /\ DominancePruningIsSafe
    /\ TerminalIsStuck

(* A placement as the rest of the program sees it. *)
Strip(placed) ==
    {[task |-> p.task, start |-> p.start, end |-> p.end] : p \in placed}

Plan == INSTANCE PlanSearch WITH
    plans  <- {Strip(b.placed) : b \in AllBeams},
    answer <- {Strip(s) : s \in result}

(* The beam search implements the search for plans: every child adds one   *)
(* legal placement to a plan in hand, and the answer is a plan in hand.    *)
SearchesPlans == Plan!Spec

(* Every round places one task more: the beams of a round, and no others,  *)
(* have as many placements as rounds are over, so the loop ends after at   *)
(* most one round per task; and then some beam is terminal, so there is an *)
(* answer (engine.rs:195, and the expect of engine.rs:223).                *)
RoundsPlaceOneTask ==
    /\ \E rounds \in 0 .. Cardinality(Filtered) :
          /\ \A b \in Range(live) : Cardinality(b.placed) = rounds
          /\ \A b \in Range(next) : Cardinality(b.placed) = rounds + 1
          /\ \A b \in terminal : Cardinality(b.placed) <= rounds
          /\ next # <<>> => rounds < Cardinality(Filtered)
    /\ live = <<>> /\ next = <<>> => terminal # {}
-----------------------------------------------------------------------------
(* LST is EST on reflected time (lst/tests.rs,                             *)
(* lst_equals_unmirror_est_mirror).  The run of one Backward cursor over   *)
(* the whole horizon, reflected about the middle of the horizon, is a run  *)
(* of one Forward cursor on the reflected problem.                         *)

Reflect(p) == [p EXCEPT !.start = Horizon.start + Horizon.end - p.end,
                        !.end   = Horizon.start + Horizon.end - p.start]

ReflectAll(S) == {Reflect(p) : p \in S}

ReflectProblem(pr) ==
    [pr EXCEPT !.windows = [t \in Tasks |-> ReflectAll(@[t])]]

(* Positions, swept times and queues are in frame time: they stay. *)
ReflectBeam(b) == [b EXCEPT !.placed = ReflectAll(@)]
ReflectBeams(s) == [i \in DOMAIN s |-> ReflectBeam(s[i])]

Turned(l) == [c \in Cursors |-> [l[c] EXCEPT !.dir = Forward]]

EST == INSTANCE CursorEngine WITH
    Layouts  <- {Turned(l) : l \in Layouts},
    Problems <- {ReflectProblem(pr) : pr \in Problems},
    layout   <- Turned(layout),
    problem  <- ReflectProblem(problem),
    live     <- ReflectBeams(live),
    next     <- ReflectBeams(next),
    terminal <- {ReflectBeam(b) : b \in terminal},
    result   <- {ReflectAll(s) : s \in result}

(* Without dependencies, which LST and EST treat differently, every step   *)
(* of LST is the reflected step of EST.                                    *)
LstIsReflectedEst == EST!Init /\ [][EST!Next]_EST!vars
=============================================================================
