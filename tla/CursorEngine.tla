---------------------------- MODULE CursorEngine ----------------------------
(***************************************************************************)
(* The beam search behind EST, LST and every multi-cursor layout           *)
(* (schedulers/src/scheduler/cursor, with the candidate queue of           *)
(* schedulers/src/scheduler/est).                                          *)
(*                                                                         *)
(* A beam is one partial schedule together with, for every cursor, the     *)
(* position of the cursor and the queue of tasks it may still place.  The  *)
(* cursors of a beam share its schedule.  Every round expands each live    *)
(* beam into children that place one task more, and keeps KBeams of them.  *)
(*                                                                         *)
(* A cursor works in its own frame time, in which it always moves forward: *)
(* the frame of a Backward cursor is schedule time reflected about the     *)
(* middle of the cursor's extent.                                          *)
(*                                                                         *)
(* The figure of merit is a parameter of the program (dyn ScheduleFom) and *)
(* may order beams in any way, so the beams that survive a round, and the  *)
(* beam that is returned, are chosen arbitrarily.                          *)
(*                                                                         *)
(* An operator with an underscore in its name is a faulty variant of the   *)
(* one that follows it, for the mutants of PROJECT.json: it shows that a   *)
(* property fails when the code goes wrong.                                *)
(***************************************************************************)
EXTENDS Periods, FiniteSets, Sequences, FiniteSetsExt

CONSTANTS
    Tasks,                \* task ids: numbers, the last key of every ordering
    Cursors,              \* cursor ids: numbers
    Horizon,              \* the period to be scheduled
    Layouts,              \* the cursor configurations to run
    Problems,             \* the scheduling problems to run
    SoftScore(_, _),      \* soft-constraint score of a task at an instant
    KBeams,               \* beams kept per round
    Branching,            \* children kept per beam
    EndangeredThreshold,  \* 0 switches the endangered rule off
    NoCursor              \* the side of a territory follows no cursor

Forward == "forward"
Backward == "backward"

(* A side of a territory is a fixed instant (follows = NoCursor), or the    *)
(* position of another cursor; then `at' is the horizon edge on that side. *)
Sides == [follows : Cursors \cup {NoCursor}, at : Int]

CursorConfig == [dir : {Forward, Backward}, lo : Sides, hi : Sides, gap : Nat]

(* The widest region a cursor can ever use: its territory, with a side     *)
(* that follows a cursor moved to the edge of the horizon, clamped to the  *)
(* horizon.                                                                *)
ExtentIn(cfg) == [start |-> Later(cfg.lo.at, Horizon.start),
                  end   |-> Earlier(cfg.hi.at, Horizon.end)]

(* What MultiCursorConfig::normalised and the extent of a territory accept. *)
Normalised(l) ==
    \A c \in Cursors :
        /\ l[c].lo.follows # c /\ l[c].hi.follows # c
        /\ ExtentIn(l[c]).start < ExtentIn(l[c]).end
        /\ IF l[c].lo.follows # NoCursor \/ l[c].hi.follows # NoCursor
           THEN l[c].lo.at = Horizon.start /\ l[c].hi.at = Horizon.end
           ELSE l[c].gap = 0

(* windows: the feasible periods of each task, disjoint and not touching   *)
(* (a PeriodSet).  deps: pairs <<p, t>>, p must end before t starts.       *)
ProblemRecord == [windows : [Tasks -> SUBSET PeriodsOver(Int)],
                  dur     : [Tasks -> Nat \ {0}],
                  deps    : SUBSET (Tasks \X Tasks)]

ASSUME TasksAreNumbers == Tasks \subseteq Nat /\ IsFiniteSet(Tasks)
ASSUME CursorsAreNumbers ==
    Cursors \subseteq Nat /\ Cursors # {} /\ IsFiniteSet(Cursors)
ASSUME HorizonIsPeriod == Horizon \in PeriodsOver(Int)
ASSUME LayoutsAreNormalised ==
    /\ Layouts \subseteq [Cursors -> CursorConfig]
    /\ \A l \in Layouts : Normalised(l)
ASSUME ProblemsAreWellFormed ==
    /\ Problems \subseteq ProblemRecord
    /\ \A p \in Problems : \A t \in Tasks : IsFiniteSet(p.windows[t])
ASSUME SoftScoresAreNumbers ==
    \A t \in Tasks : \A at \in Horizon.start .. Horizon.end : SoftScore(t, at) \in Int
ASSUME BeamParameters ==
    /\ KBeams \in Nat \ {0}
    /\ Branching \in Nat \ {0}
    /\ EndangeredThreshold \in Nat

Placements == [task : Tasks, cursor : Cursors, start : Int, end : Int]

ASSUME NoCursorIsNoCursor == NoCursor \notin Cursors

VARIABLES
    layout,    \* the cursor configuration of this run
    problem,   \* the problem of this run
    live,      \* the beams still to be expanded in this round
    next,      \* the children produced so far in this round
    terminal,  \* the beams that could place nothing more
    result     \* the schedule returned: none yet, or one

vars == <<layout, problem, live, next, terminal, result>>
inputs == <<layout, problem>>

(* A beam: its schedule, and for each cursor its frame-time position, the  *)
(* frame time before which its queue has discarded windows for good, and   *)
(* the tasks in its queue.  A placement also names the cursor that made    *)
(* it, which the program does not store.                                   *)
Beams == [placed : SUBSET Placements,
          front  : [Cursors -> Int],
          swept  : [Cursors -> Int],
          queue  : [Cursors -> SUBSET Tasks]]
-----------------------------------------------------------------------------
(* Frames *)

Extent(c) == ExtentIn(layout[c])

(* The reflection is its own inverse: one operator maps both ways. *)
Mirror(c, t) == Extent(c).start + Extent(c).end - t
FrameTime(c, t) == IF layout[c].dir = Forward THEN t ELSE Mirror(c, t)
FramePeriod(c, p) ==
    IF layout[c].dir = Forward THEN p
    ELSE [p EXCEPT !.start = Mirror(c, p.end), !.end = Mirror(c, p.start)]
-----------------------------------------------------------------------------
(* Territories *)

Position(b, c) == FrameTime(c, b.front[c])

LowSide_GapLost(b, c) ==
    LET side == layout[c].lo IN
    IF side.follows = NoCursor THEN Extent(c).start
    ELSE Position(b, side.follows) - layout[c].gap

LowSide(b, c) ==
    LET side == layout[c].lo IN
    IF side.follows = NoCursor THEN Extent(c).start
    ELSE Position(b, side.follows) + layout[c].gap

HighSide(b, c) ==
    LET side == layout[c].hi IN
    IF side.follows = NoCursor THEN Extent(c).end
    ELSE Position(b, side.follows) - layout[c].gap

(* The schedule-time region cursor c may place into; empty (start >= end)  *)
(* when c is exhausted or squeezed out.                                    *)
Active(b, c) ==
    LET own == Position(b, c) IN
    IF layout[c].dir = Forward
    THEN [start |-> Later(LowSide(b, c), own), end |-> HighSide(b, c)]
    ELSE [start |-> LowSide(b, c), end |-> Earlier(HighSide(b, c), own)]

HasActive(b, c) == Active(b, c).start < Active(b, c).end
FrameActive(b, c) == FramePeriod(c, Active(b, c))
-----------------------------------------------------------------------------
(* Candidates *)

(* The queues of a beam after the refresh that opens its expansion: every  *)
(* cursor with an active region forgets the windows behind that region.    *)
Refreshed(b) ==
    [b EXCEPT !.swept =
        [c \in Cursors |->
            IF HasActive(b, c) THEN Later(b.swept[c], FrameActive(b, c).start)
            ELSE b.swept[c]]]

(* The usable overlaps of task t with the active region of c, in frame     *)
(* time: those of the windows still remembered that hold the whole task.   *)
Usable(b, c, t) ==
    LET remembered == {w \in {FramePeriod(c, v) : v \in problem.windows[t]} :
                          w.end > b.swept[c]}
    IN  {o \in {Common(w, FrameActive(b, c)) : w \in remembered} :
            Span(o) >= problem.dur[t]}

Schedulable(b, c) ==
    {t \in b.queue[c] : HasActive(b, c) /\ Usable(b, c, t) # {}}

Est(b, c, t) == Min({o.start : o \in Usable(b, c, t)})

(* The candidates of cursor c that can be placed in its active region.     *)
Candidates(b, c) ==
    {[task  |-> t,
      est   |-> Est(b, c, t),
      slack |-> MapThenSumSet(Span, Usable(b, c, t))] : t \in Schedulable(b, c)}

(* flexibility < threshold, where flexibility is slack / duration. *)
Endangered(k) == k.slack < EndangeredThreshold * problem.dur[k.task]

(* A safe candidate that would run into the start of endangered ones is    *)
(* put behind the last of them.                                            *)
EffectiveEst(candidates, k) ==
    IF Endangered(k) THEN k.est
    ELSE LET obstructed ==
               {e \in candidates :
                   /\ Endangered(e)
                   /\ k.est <= e.est /\ e.est < k.est + problem.dur[k.task]}
         IN  Max({e.est : e \in obstructed \cup {k}})

LexLess(p, q) ==
    \E i \in DOMAIN p : p[i] < q[i] /\ \A j \in 1 .. i - 1 : p[j] = q[j]

(* The candidate order; flexibilities are compared as fractions, and soft  *)
(* scores taken at the frame time `at'.                                    *)
Before(candidates, at, k, l) ==
    LET Key(x, y) == <<EffectiveEst(candidates, x),
                       IF Endangered(x) THEN 0 ELSE 1,
                       x.est,
                       x.slack * problem.dur[y.task],
                       -SoftScore(x.task, at),
                       x.task>>
    IN  LexLess(Key(k, l), Key(l, k))

(* The position of candidate k in the sorted queue. *)
Rank(candidates, at, k) ==
    Cardinality({l \in candidates : Before(candidates, at, l, k)})

ActionsOf_ScheduleTimeScores(b, c) ==
    {[cursor |-> c, task |-> k.task, est |-> k.est,
      rank   |-> Rank(Candidates(b, c), Active(b, c).start, k)] :
         k \in Candidates(b, c)}

(* What cursor c of beam b may do next: place one of its candidates. *)
ActionsOf(b, c) ==
    {[cursor |-> c, task |-> k.task, est |-> k.est,
      rank   |-> Rank(Candidates(b, c), FrameActive(b, c).start, k)] :
         k \in Candidates(b, c)}

Actions(b) == UNION {ActionsOf(b, c) : c \in Cursors}
-----------------------------------------------------------------------------
(* Placements *)

Placement_NotReflected(a) ==
    [task |-> a.task, cursor |-> a.cursor,
     start |-> a.est, end |-> a.est + problem.dur[a.task]]

(* The placement an action makes: at its earliest start in frame time. *)
Placement(a) ==
    LET p == FramePeriod(a.cursor,
                         [start |-> a.est, end |-> a.est + problem.dur[a.task]])
    IN  [task |-> a.task, cursor |-> a.cursor, start |-> p.start, end |-> p.end]

TasksOf(placed) == {p.task : p \in placed}

Predecessors(t) == {p \in Tasks : <<p, t>> \in problem.deps}
AllPredecessors(t) ==
    {p \in Tasks : \A S \in SUBSET Tasks :
        (/\ Predecessors(t) \subseteq S
         /\ \A s \in S : Predecessors(s) \subseteq S) => p \in S}

DependenciesMet(placed, p) ==
    \A q \in AllPredecessors(p.task) :
        \E r \in placed : r.task = q /\ r.end <= p.start

Valid_NoOverlapCheck(b, p) ==
    /\ p.task \notin TasksOf(b.placed)
    /\ DependenciesMet(b.placed, p)
    /\ Inside(p, Active(b, p.cursor))

Valid(b, p) ==
    /\ p.task \notin TasksOf(b.placed)
    /\ DependenciesMet(b.placed, p)
    /\ Inside(p, Active(b, p.cursor))
    /\ \A r \in b.placed : ~ Overlaps(r, p)
-----------------------------------------------------------------------------
(* Expansion *)

ActionBefore(a1, a2) ==
    LexLess(<<a1.rank, a1.cursor, a1.task>>, <<a2.rank, a2.cursor, a2.task>>)

Allowed(b, a) == Valid(b, Placement(a))

Dominated_ByLaterStart(b, actions, a) ==
    \E f \in actions :
        /\ f.cursor = a.cursor /\ f.task # a.task
        /\ f.rank = 0 /\ Allowed(b, f)
        /\ a.est >= f.est

(* Once the first candidate of a cursor has been placed in a child, the    *)
(* candidates that could only start after it are not tried.                *)
Dominated(b, actions, a) ==
    \E f \in actions :
        /\ f.cursor = a.cursor /\ f.task # a.task
        /\ f.rank = 0 /\ Allowed(b, f)
        /\ a.est >= f.est + problem.dur[f.task]

Viable(b, actions) ==
    {a \in actions : Allowed(b, a) /\ ~ Dominated(b, actions, a)}

(* The first Branching of a set of actions. *)
Chosen(viable) ==
    {a \in viable : Cardinality({v \in viable : ActionBefore(v, a)}) < Branching}

Child_OwnQueueOnly(b, a) ==
    [b EXCEPT !.placed          = @ \cup {Placement(a)},
              !.front[a.cursor] = a.est + problem.dur[a.task],
              !.queue[a.cursor] = @ \ {a.task}]

(* The cursor advances to the end of its placement, and the task leaves    *)
(* every queue.                                                            *)
Child(b, a) ==
    [b EXCEPT !.placed          = @ \cup {Placement(a)},
              !.front[a.cursor] = a.est + problem.dur[a.task],
              !.queue           = [c \in Cursors |-> @[c] \ {a.task}]]

Seed == [placed |-> {},
         front  |-> [c \in Cursors |-> Extent(c).start],
         swept  |-> [c \in Cursors |-> Extent(c).start],
         queue  |-> [c \in Cursors |-> {t \in Tasks : problem.windows[t] # {}}]]

Init ==
    /\ layout \in Layouts
    /\ problem \in Problems
    /\ live = <<Seed>>
    /\ next = <<>>
    /\ terminal = {}
    /\ result = {}

Retire_StaysLive(b) ==
    /\ terminal' = terminal \cup {b}
    /\ next' = Append(next, b)

Retire(b) ==
    /\ terminal' = terminal \cup {b}
    /\ next' = next

(* The children of b join the round, best action first. *)
Branch(b, chosen) ==
    /\ \E order \in [1 .. Cardinality(chosen) -> chosen] :
          /\ \A i, j \in DOMAIN order :
                i < j => ActionBefore(order[i], order[j])
          /\ next' = next \o [i \in DOMAIN order |-> Child(b, order[i])]
    /\ terminal' = terminal

(* One live beam becomes terminal, or leaves its children. *)
Expand ==
    /\ live # <<>>
    /\ \E b \in {Refreshed(Head(live))} :
       \E viable \in {Viable(b, Actions(b))} :
       \E chosen \in {Chosen(viable)} :
          \/ chosen = {} /\ Retire(b)
          \/ chosen # {} /\ Branch(b, chosen)
    /\ live' = Tail(live)
    /\ UNCHANGED <<inputs, result>>

Kept_OneTooMany == Earlier(KBeams + 1, Len(next))

Kept == Earlier(KBeams, Len(next))

(* The end of a round: the best KBeams children, in the order of an        *)
(* arbitrary score, are the live beams of the next one.                    *)
Truncate ==
    /\ live = <<>>
    /\ next # <<>>
    /\ \E best \in [1 .. Kept -> 1 .. Len(next)] :
          /\ \A i, j \in 1 .. Kept : i # j => best[i] # best[j]
          /\ live' = [i \in 1 .. Kept |-> next[best[i]]]
    /\ next' = <<>>
    /\ UNCHANGED <<inputs, terminal, result>>

(* No beam is live: the best terminal beam is the answer. *)
Return ==
    /\ live = <<>> /\ next = <<>>
    /\ result = {}
    /\ \E b \in terminal : result' = {b.placed}
    /\ UNCHANGED <<inputs, live, next, terminal>>

Finished == result # {} /\ UNCHANGED vars

Next == Expand \/ Truncate \/ Return \/ Finished

(* The search is one loop of one thread: it keeps taking steps. *)
Spec == Init /\ [][Next]_vars /\ WF_vars(Next)
=============================================================================
