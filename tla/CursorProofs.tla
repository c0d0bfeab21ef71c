---------------------------- MODULE CursorProofs ----------------------------
(***************************************************************************)
(* Proofs about the beam search of CursorEngine, for any number of tasks   *)
(* and cursors, any layout that MultiCursorConfig::normalised accepts, any *)
(* problem and any beam parameters: first that its plans are valid, then   *)
(* what the search amounts to: it implements the search for plans of       *)
(* PlanSearch, its rounds end, the frontiers of cursors that follow each   *)
(* other stay apart, it gives no beam up that could still place something, *)
(* and with all its cursors running backward it is a forward search on     *)
(* reflected time.                                                         *)
(***************************************************************************)
EXTENDS CursorProperties, FiniteLemmas, SequenceTheorems

Inputs == layout \in Layouts /\ problem \in Problems

(* A set of integers with a lower bound has a minimum. *)
LEMMA MinExists ==
    ASSUME NEW S \in SUBSET Int, S # {}, NEW low \in Int, \A x \in S : low <= x
    PROVE  Min(S) \in S /\ \A x \in S : Min(S) <= x
<1> DEFINE T == {x - low : x \in S}
<1>1. T \subseteq Nat /\ T # {}
    <2>1. ASSUME NEW x \in S PROVE x - low \in Nat
        <3>1. x \in Int /\ low <= x
            OBVIOUS
        <3> QED
            BY <3>1
    <2>2. PICK x \in S : TRUE
        OBVIOUS
    <2>3. x - low \in T
        OBVIOUS
    <2> QED
        BY <2>1, <2>3
<1>2. PICK m \in T : \A y \in T : m <= y
    <2> HIDE DEF T
    <2> QED
        BY <1>1, LeastNumber
<1>3. PICK x \in S : m = x - low
    BY <1>2
<1>4. \A y \in S : x <= y
    <2> SUFFICES ASSUME NEW y \in S PROVE x <= y
        OBVIOUS
    <2>1. x - low <= y - low /\ x \in Int /\ y \in Int
        BY <1>2, <1>3
    <2> HIDE DEF T
    <2> QED
        BY <2>1
<1> QED
    BY <1>4 DEF Min

-----------------------------------------------------------------------------
(* Frames and territories *)

(* The configuration of a cursor is well typed. *)
LEMMA ConfigFacts ==
    ASSUME Inputs, NEW c \in Cursors
    PROVE  /\ layout[c].dir \in {Forward, Backward}
           /\ layout[c].gap \in Nat
           /\ layout[c].lo.follows \in Cursors \cup {NoCursor}
           /\ layout[c].hi.follows \in Cursors \cup {NoCursor}
           /\ layout[c].lo.at \in Int
           /\ layout[c].hi.at \in Int
<1>1. layout \in [Cursors -> CursorConfig]
    BY LayoutsAreNormalised DEF Inputs
<1>2. layout[c] \in CursorConfig
    BY <1>1
<1> QED
    BY <1>2 DEF CursorConfig, Sides

(* The extent of a cursor is a non-empty part of the horizon. *)
LEMMA ExtentFacts ==
    ASSUME Inputs, NEW c \in Cursors
    PROVE  /\ Extent(c).start \in Int
           /\ Extent(c).end \in Int
           /\ Extent(c).start < Extent(c).end
           /\ Horizon.start <= Extent(c).start
           /\ Extent(c).end <= Horizon.end
<1>1. Horizon.start \in Int /\ Horizon.end \in Int
    BY HorizonIsPeriod DEF PeriodsOver
<1>2. ExtentIn(layout[c]).start < ExtentIn(layout[c]).end
    BY LayoutsAreNormalised DEF Inputs, Normalised
<1> QED
    BY <1>1, <1>2, ConfigFacts DEF Extent, ExtentIn, Later, Earlier

(* A cursor that follows another one has the horizon as its extent. *)
LEMMA FollowerExtent ==
    ASSUME Inputs, NEW c \in Cursors,
           layout[c].lo.follows # NoCursor \/ layout[c].hi.follows # NoCursor
    PROVE  Extent(c).start = Horizon.start /\ Extent(c).end = Horizon.end
<1>1. Horizon.start \in Int /\ Horizon.end \in Int
    BY HorizonIsPeriod DEF PeriodsOver
<1>2. layout[c].lo.at = Horizon.start /\ layout[c].hi.at = Horizon.end
    BY LayoutsAreNormalised DEF Inputs, Normalised
<1> QED
    BY <1>1, <1>2 DEF Extent, ExtentIn, Later, Earlier

(* The reflection of a frame is its own inverse (CursorFrame::mirror). *)
LEMMA MirrorFacts ==
    ASSUME Inputs, NEW c \in Cursors, NEW t \in Int
    PROVE  /\ Mirror(c, t) \in Int
           /\ FrameTime(c, t) \in Int
           /\ Mirror(c, Mirror(c, t)) = t
           /\ Mirror(c, t) = Extent(c).start + Extent(c).end - t
    BY ExtentFacts DEF Mirror, FrameTime

(* The positions of a beam do not leave the extents of its cursors. *)
FrontsInExtent(b) ==
    /\ b \in Beams
    /\ \A c \in Cursors :
          Extent(c).start <= b.front[c] /\ b.front[c] <= Extent(c).end

(* The schedule-time position of a cursor lies in its extent. *)
LEMMA PositionFacts ==
    ASSUME Inputs, NEW b, FrontsInExtent(b), NEW c \in Cursors
    PROVE  /\ b.front[c] \in Int
           /\ Position(b, c) \in Int
           /\ Extent(c).start <= Position(b, c)
           /\ Position(b, c) <= Extent(c).end
           /\ layout[c].dir = Forward => Position(b, c) = b.front[c]
           /\ layout[c].dir = Backward =>
                 Position(b, c) = Extent(c).start + Extent(c).end - b.front[c]
<1>1. b.front[c] \in Int
    BY DEF FrontsInExtent, Beams
<1>2. Extent(c).start <= b.front[c] /\ b.front[c] <= Extent(c).end
    BY DEF FrontsInExtent
<1>3. Forward # Backward
    BY DEF Forward, Backward
<1> QED
    BY <1>1, <1>2, <1>3, ConfigFacts, ExtentFacts
    DEF Position, FrameTime, Mirror

(* Neither side of a live territory leaves the extent. *)
LEMMA SideFacts ==
    ASSUME Inputs, NEW b, FrontsInExtent(b), NEW c \in Cursors
    PROVE  /\ LowSide(b, c) \in Int /\ Extent(c).start <= LowSide(b, c)
           /\ HighSide(b, c) \in Int /\ HighSide(b, c) <= Extent(c).end
<1>1. layout[c].gap \in Nat /\ Extent(c).start \in Int /\ Extent(c).end \in Int
    BY ConfigFacts, ExtentFacts
<1>2. LowSide(b, c) \in Int /\ Extent(c).start <= LowSide(b, c)
    <2>1. CASE layout[c].lo.follows = NoCursor
        BY <2>1, <1>1 DEF LowSide
    <2>2. CASE layout[c].lo.follows # NoCursor
        <3> DEFINE d == layout[c].lo.follows
        <3>1. d \in Cursors
            BY <2>2, ConfigFacts
        <3>2. Position(b, d) \in Int /\ Extent(d).start <= Position(b, d)
            BY <3>1, PositionFacts
        <3>3. Extent(c).start = Horizon.start
            BY <2>2, FollowerExtent
        <3>4. Horizon.start <= Extent(d).start /\ Extent(d).start \in Int
            BY <3>1, ExtentFacts
        <3>5. LowSide(b, c) = Position(b, d) + layout[c].gap
            BY <2>2 DEF LowSide
        <3> HIDE DEF d
        <3> QED
            BY <1>1, <3>2, <3>3, <3>4, <3>5
    <2> QED
        BY <2>1, <2>2
<1>3. HighSide(b, c) \in Int /\ HighSide(b, c) <= Extent(c).end
    <2>1. CASE layout[c].hi.follows = NoCursor
        BY <2>1, <1>1 DEF HighSide
    <2>2. CASE layout[c].hi.follows # NoCursor
        <3> DEFINE d == layout[c].hi.follows
        <3>1. d \in Cursors
            BY <2>2, ConfigFacts
        <3>2. Position(b, d) \in Int /\ Position(b, d) <= Extent(d).end
            BY <3>1, PositionFacts
        <3>3. Extent(c).end = Horizon.end
            BY <2>2, FollowerExtent
        <3>4. Extent(d).end <= Horizon.end /\ Extent(d).end \in Int
            BY <3>1, ExtentFacts
        <3>5. HighSide(b, c) = Position(b, d) - layout[c].gap
            BY <2>2 DEF HighSide
        <3> HIDE DEF d
        <3> QED
            BY <1>1, <3>2, <3>3, <3>4, <3>5
    <2> QED
        BY <2>1, <2>2
<1> QED
    BY <1>2, <1>3

(* The active region lies in the extent, ahead of the cursor. *)
LEMMA ActiveFacts ==
    ASSUME Inputs, NEW b, FrontsInExtent(b), NEW c \in Cursors
    PROVE  /\ Active(b, c).start \in Int /\ Active(b, c).end \in Int
           /\ Active(b, c) = [start |-> Active(b, c).start, end |-> Active(b, c).end]
           /\ Extent(c).start <= Active(b, c).start
           /\ Active(b, c).end <= Extent(c).end
           /\ layout[c].dir = Forward => Position(b, c) <= Active(b, c).start
           /\ layout[c].dir = Backward => Active(b, c).end <= Position(b, c)
<1>1. Forward # Backward
    BY DEF Forward, Backward
<1>2. CASE layout[c].dir = Forward
    <2>1. Active(b, c) = [start |-> Later(LowSide(b, c), Position(b, c)),
                          end   |-> HighSide(b, c)]
        BY <1>2 DEF Active
    <2> QED
        BY <1>1, <1>2, <2>1, SideFacts, PositionFacts, ExtentFacts DEF Later
<1>3. CASE layout[c].dir = Backward
    <2>1. Active(b, c) = [start |-> LowSide(b, c),
                          end   |-> Earlier(HighSide(b, c), Position(b, c))]
        BY <1>1, <1>3 DEF Active
    <2> QED
        BY <1>1, <1>3, <2>1, SideFacts, PositionFacts, ExtentFacts DEF Earlier
<1> QED
    BY <1>2, <1>3, ConfigFacts

(* A period and its image in a frame have the same span. *)
LEMMA FramePeriodFacts ==
    ASSUME Inputs, NEW c \in Cursors, NEW p \in [start : Int, end : Int]
    PROVE  /\ FramePeriod(c, p) \in [start : Int, end : Int]
           /\ layout[c].dir = Forward => FramePeriod(c, p) = p
           /\ layout[c].dir = Backward =>
                 /\ FramePeriod(c, p).start =
                       Extent(c).start + Extent(c).end - p.end
                 /\ FramePeriod(c, p).end =
                       Extent(c).start + Extent(c).end - p.start
<1>1. Forward # Backward
    BY DEF Forward, Backward
<1>2. CASE layout[c].dir = Forward
    BY <1>1, <1>2 DEF FramePeriod
<1>3. CASE layout[c].dir = Backward
    <2>1. FramePeriod(c, p) =
              [p EXCEPT !.start = Mirror(c, p.end), !.end = Mirror(c, p.start)]
        BY <1>1, <1>3 DEF FramePeriod
    <2>2. p.start \in Int /\ p.end \in Int
        OBVIOUS
    <2>3. /\ Mirror(c, p.end) = Extent(c).start + Extent(c).end - p.end
          /\ Mirror(c, p.start) = Extent(c).start + Extent(c).end - p.start
          /\ Mirror(c, p.end) \in Int /\ Mirror(c, p.start) \in Int
        BY <2>2, MirrorFacts
    <2> QED
        BY <1>1, <1>3, <2>1, <2>3
<1> QED
    BY <1>2, <1>3, ConfigFacts

(* In frame time a cursor is never behind its active region's start. *)
LEMMA FrameActiveFacts ==
    ASSUME Inputs, NEW b, FrontsInExtent(b), NEW c \in Cursors
    PROVE  /\ FrameActive(b, c).start \in Int /\ FrameActive(b, c).end \in Int
           /\ b.front[c] <= FrameActive(b, c).start
           /\ FrameActive(b, c).end <= Extent(c).end
<1>1. Active(b, c) \in [start : Int, end : Int]
    BY ActiveFacts
<1>2. FrameActive(b, c) = FramePeriod(c, Active(b, c))
    BY DEF FrameActive
<1> QED
    BY <1>1, <1>2, FramePeriodFacts, ActiveFacts, PositionFacts, ExtentFacts,
       ConfigFacts

-----------------------------------------------------------------------------
(* Candidates and placements *)

(* Tasks have durations of at least one tick, and integer windows. *)
LEMMA WindowFacts ==
    ASSUME Inputs, NEW t \in Tasks
    PROVE  /\ problem.dur[t] \in Nat \ {0}
           /\ problem.windows[t] \subseteq PeriodsOver(Int)
           /\ problem.deps \subseteq Tasks \X Tasks
    BY ProblemsAreWellFormed DEF Inputs, ProblemRecord

(* Where the earliest start of a schedulable task lies, in frame time. *)
LEMMA EstFacts ==
    ASSUME Inputs, NEW b, FrontsInExtent(b), NEW c \in Cursors,
           NEW t \in Tasks, t \in Schedulable(b, c)
    PROVE  /\ Est(b, c, t) \in Int
           /\ FrameActive(b, c).start <= Est(b, c, t)
           /\ Est(b, c, t) + problem.dur[t] <= FrameActive(b, c).end
           /\ \E v \in problem.windows[t] :
                 /\ FramePeriod(c, v).start <= Est(b, c, t)
                 /\ Est(b, c, t) + problem.dur[t] <= FramePeriod(c, v).end
<1> DEFINE U  == Usable(b, c, t)
           FA == FrameActive(b, c)
           d  == problem.dur[t]
<1>1. U # {}
    BY DEF Schedulable
<1>2. FA.start \in Int /\ FA.end \in Int /\ d \in Nat
    BY FrameActiveFacts, WindowFacts
<1>3. ASSUME NEW o \in U
      PROVE  \E v \in problem.windows[t] :
                 o = Common(FramePeriod(c, v), FA) /\ Span(o) >= d
    BY DEF Usable
<1>4. ASSUME NEW v \in problem.windows[t]
      PROVE  FramePeriod(c, v).start \in Int /\ FramePeriod(c, v).end \in Int
    <2>1. v \in [start : Int, end : Int]
        BY WindowFacts DEF PeriodsOver
    <2> QED
        BY <2>1, FramePeriodFacts
<1>5. ASSUME NEW o \in U
      PROVE  /\ o.start \in Int /\ FA.start <= o.start /\ o.start + d <= FA.end
             /\ \E v \in problem.windows[t] :
                   /\ FramePeriod(c, v).start <= o.start
                   /\ o.start + d <= FramePeriod(c, v).end
    <2>1. PICK v \in problem.windows[t] :
                 o = Common(FramePeriod(c, v), FA) /\ Span(o) >= d
        BY <1>3
    <2> DEFINE ws == FramePeriod(c, v).start
               we == FramePeriod(c, v).end
    <2>2. ws \in Int /\ we \in Int
        BY <1>4
    <2>3. /\ o.start = (IF ws >= FA.start THEN ws ELSE FA.start)
          /\ o.end = (IF we <= FA.end THEN we ELSE FA.end)
          /\ o.end - o.start >= d
        BY <2>1 DEF Common, Later, Earlier, Span
    <2> HIDE DEF ws, we, FA, d
    <2>4. /\ o.start \in Int /\ FA.start <= o.start /\ o.start + d <= FA.end
          /\ ws <= o.start /\ o.start + d <= we
        BY <1>2, <2>2, <2>3
    <2> QED
        BY <2>4 DEF ws, we
<1> DEFINE S == {o.start : o \in U}
<1>6. S \subseteq Int /\ S # {} /\ \A x \in S : FA.start <= x
    BY <1>1, <1>5
<1> HIDE DEF U, FA, S
<1>7. Min(S) \in S
    BY <1>2, <1>6, MinExists
<1>8. PICK o \in U : Min(S) = o.start
    BY <1>7 DEF S
<1>9. Est(b, c, t) = o.start
    BY <1>8 DEF Est, S, U
<1> QED
    BY <1>5, <1>9 DEF FA

(* An action is a schedulable task of a cursor, at its earliest start. *)
LEMMA ActionFacts ==
    ASSUME Inputs, NEW b, FrontsInExtent(b), NEW a \in Actions(b)
    PROVE  /\ a.cursor \in Cursors
           /\ a.task \in Tasks
           /\ a.task \in b.queue[a.cursor]
           /\ a.task \in Schedulable(b, a.cursor)
           /\ a.est = Est(b, a.cursor, a.task)
           /\ a.est \in Int
<1>1. PICK c \in Cursors : \E k \in Candidates(b, c) :
          a.cursor = c /\ a.task = k.task /\ a.est = k.est
    BY DEF Actions, ActionsOf
<1>2. PICK t \in Schedulable(b, c) :
          a.cursor = c /\ a.task = t /\ a.est = Est(b, c, t)
    BY <1>1 DEF Candidates
<1>3. t \in b.queue[c] /\ t \in Tasks
    BY DEF Schedulable, FrontsInExtent, Beams
<1> QED
    BY <1>1, <1>2, <1>3, EstFacts

(* Where action a leaves its cursor, in frame time. *)
EndOf(a) == a.est + problem.dur[a.task]

(* What the action places: the duration and one window of the task, in the *)
(* active region, from the position of the cursor to its new position.     *)
LEMMA PlacementFacts ==
    ASSUME Inputs, NEW b, FrontsInExtent(b), NEW a \in Actions(b)
    PROVE  /\ Placement(a) \in Placements
           /\ Placement(a).task = a.task /\ Placement(a).cursor = a.cursor
           /\ Span(Placement(a)) = problem.dur[a.task]
           /\ \E w \in problem.windows[a.task] : Inside(Placement(a), w)
           /\ Inside(Placement(a), Extent(a.cursor))
           /\ EndOf(a) \in Int
           /\ b.front[a.cursor] < EndOf(a)
           /\ EndOf(a) <= Extent(a.cursor).end
           /\ layout[a.cursor].dir = Forward =>
                 /\ Position(b, a.cursor) <= Placement(a).start
                 /\ Placement(a).end = EndOf(a)
           /\ layout[a.cursor].dir = Backward =>
                 /\ Placement(a).end <= Position(b, a.cursor)
                 /\ Placement(a).start =
                        Extent(a.cursor).start + Extent(a.cursor).end - EndOf(a)
<1> DEFINE p == Placement(a)
           c == a.cursor
           t == a.task
           d == problem.dur[a.task]
           f == a.est + d
<1>0. EndOf(a) = f
    BY DEF EndOf
<1>1. c \in Cursors /\ t \in Tasks /\ t \in Schedulable(b, c)
      /\ a.est = Est(b, c, t) /\ a.est \in Int
    BY ActionFacts
<1>2. d \in Nat \ {0}
    BY <1>1, WindowFacts
<1>3. /\ FrameActive(b, c).start <= a.est /\ f <= FrameActive(b, c).end
      /\ \E v \in problem.windows[t] :
            FramePeriod(c, v).start <= a.est /\ f <= FramePeriod(c, v).end
    BY <1>1, EstFacts
<1>4. f \in Int /\ b.front[c] <= a.est /\ f <= Extent(c).end
    BY <1>1, <1>2, <1>3, FrameActiveFacts, ExtentFacts, PositionFacts
<1> DEFINE fp == [start |-> a.est, end |-> f]
           ax == Extent(c).start + Extent(c).end
<1>5. /\ p = [task |-> t, cursor |-> c, start |-> FramePeriod(c, fp).start,
               end |-> FramePeriod(c, fp).end]
      /\ fp \in [start : Int, end : Int]
    BY <1>1, <1>4 DEF Placement
<1>6. PICK v \in problem.windows[t] :
          FramePeriod(c, v).start <= a.est /\ f <= FramePeriod(c, v).end
    BY <1>3
<1>7. v \in [start : Int, end : Int]
    BY <1>1, WindowFacts DEF PeriodsOver
<1>8. Extent(c).start \in Int /\ Extent(c).end \in Int
      /\ b.front[c] \in Int /\ Extent(c).start <= b.front[c]
    BY <1>1, ExtentFacts, PositionFacts DEF FrontsInExtent
<1>9. Forward # Backward
    BY DEF Forward, Backward
<1>10. CASE layout[c].dir = Forward
    <2>1. FramePeriod(c, fp) = fp /\ FramePeriod(c, v) = v
        BY <1>1, <1>5, <1>7, <1>10, FramePeriodFacts
    <2>2. p.start = a.est /\ p.end = f /\ p.task = t /\ p.cursor = c
        BY <1>5, <2>1
    <2>3. Inside(p, v)
        BY <1>6, <2>1, <2>2 DEF Inside
    <2>4. p \in Placements
        BY <1>1, <1>4, <1>5, <2>1 DEF Placements
    <2>5. Inside(p, Extent(c)) /\ Span(p) = d
        BY <1>1, <1>2, <1>4, <1>8, <2>2 DEF Inside, Span
    <2>6. Position(b, c) = b.front[c]
        BY <1>1, <1>10, PositionFacts
    <2>7. b.front[c] < f
        BY <1>1, <1>2, <1>4, <1>8
    <2>8. layout[c].dir # Backward /\ Position(b, c) <= p.start
        BY <1>1, <1>4, <1>9, <1>10, <2>2, <2>6
    <2> HIDE DEF p, c, t, d, f
    <2> QED
        BY <1>0, <1>4, <2>2, <2>3, <2>4, <2>5, <2>7, <2>8 DEF p, c, t, d, f
<1>11. CASE layout[c].dir = Backward
    <2>1. /\ FramePeriod(c, fp).start = ax - f /\ FramePeriod(c, fp).end = ax - a.est
          /\ FramePeriod(c, v).start = ax - v.end
          /\ FramePeriod(c, v).end = ax - v.start
        BY <1>1, <1>4, <1>5, <1>7, <1>8, <1>11, FramePeriodFacts
    <2>2. p.start = ax - f /\ p.end = ax - a.est /\ p.task = t /\ p.cursor = c
        BY <1>5, <2>1
    <2>3. Inside(p, v)
        BY <1>1, <1>4, <1>6, <1>7, <1>8, <2>1, <2>2 DEF Inside
    <2>4. p \in Placements
        BY <1>1, <1>4, <1>5, <1>8, <2>1 DEF Placements
    <2>5. Inside(p, Extent(c)) /\ Span(p) = d
        BY <1>1, <1>2, <1>4, <1>8, <2>2 DEF Inside, Span
    <2>6. Position(b, c) = ax - b.front[c]
        BY <1>1, <1>8, <1>11, PositionFacts
    <2>7. b.front[c] < f /\ p.end <= Position(b, c)
        <3>1. b.front[c] < f
            BY <1>1, <1>2, <1>4, <1>8
        <3>2. ax \in Int
            BY <1>8
        <3> HIDE DEF ax
        <3>3. ax - a.est <= ax - b.front[c]
            BY <1>1, <1>4, <1>8, <3>2
        <3> QED
            BY <2>2, <2>6, <3>1, <3>3
    <2>8. layout[c].dir # Forward
        BY <1>9, <1>11
    <2>9. p.start = Extent(c).start + Extent(c).end - f
        BY <1>4, <1>8, <2>2
    <2> HIDE DEF p, c, t, d, f
    <2> QED
        BY <1>0, <1>4, <2>2, <2>3, <2>4, <2>5, <2>7, <2>8, <2>9 DEF p, c, t, d, f
<1>12. \/ layout[c].dir = Forward
       \/ layout[c].dir = Backward
    BY <1>1, ConfigFacts
<1> QED
    BY <1>10, <1>11, <1>12

-----------------------------------------------------------------------------
(* What holds of every beam, seen by itself *)

Behind(b, p) ==
    IF layout[p.cursor].dir = Forward THEN p.end <= Position(b, p.cursor)
    ELSE Position(b, p.cursor) <= p.start

BeamOK(b) ==
    /\ FrontsInExtent(b)
    /\ \A p, q \in b.placed : p # q => p.task # q.task /\ ~ Overlaps(p, q)
    /\ \A p \in b.placed : DependenciesMet(b.placed, p)
    /\ \A p \in b.placed :
          /\ Span(p) = problem.dur[p.task]
          /\ \E w \in problem.windows[p.task] : Inside(p, w)
          /\ Inside(p, Extent(p.cursor))
    /\ \A p \in b.placed : Behind(b, p)
    /\ \A p, q \in b.placed :
          (q.cursor = p.cursor /\ layout[p.cursor].dir = Backward)
              => q.task \notin AllPredecessors(p.task)
    /\ \A c \in Cursors : b.queue[c] = Filtered \ TasksOf(b.placed)

(* The beam the search starts from is sound. *)
LEMMA SeedOK ==
    ASSUME Inputs
    PROVE  BeamOK(Seed)
<1>1. /\ Seed.placed = {}
      /\ Seed.front = [c \in Cursors |-> Extent(c).start]
      /\ Seed.queue = [c \in Cursors |-> Filtered]
    BY DEF Seed, Filtered
<1>2. Seed \in Beams
    BY ExtentFacts DEF Seed, Beams
<1>3. FrontsInExtent(Seed)
    BY <1>1, <1>2, ExtentFacts DEF FrontsInExtent
<1> QED
    BY <1>1, <1>3 DEF BeamOK, TasksOf

(* A refresh moves swept times only. *)
LEMMA RefreshedFields ==
    ASSUME Inputs, NEW b, FrontsInExtent(b)
    PROVE  /\ Refreshed(b) \in Beams
           /\ Refreshed(b).placed = b.placed
           /\ Refreshed(b).front = b.front
           /\ Refreshed(b).queue = b.queue
<1> DEFINE sw == [c \in Cursors |->
                     IF HasActive(b, c) THEN Later(b.swept[c], FrameActive(b, c).start)
                     ELSE b.swept[c]]
<1>1. b \in Beams
    BY DEF FrontsInExtent
<1>2. ASSUME NEW c \in Cursors
      PROVE  sw[c] \in Int
    <2>1. b.swept[c] \in Int
        BY <1>1 DEF Beams
    <2> QED
        BY <2>1, FrameActiveFacts DEF Later
<1>3. sw \in [Cursors -> Int]
    BY <1>2
<1>4. Refreshed(b) = [b EXCEPT !.swept = sw]
    BY DEF Refreshed
<1> HIDE DEF sw
<1> QED
    BY <1>1, <1>3, <1>4 DEF Beams

(* A refresh keeps a beam sound. *)
LEMMA RefreshedOK ==
    ASSUME Inputs, NEW b, BeamOK(b)
    PROVE  BeamOK(Refreshed(b))
<1>1. /\ Refreshed(b) \in Beams
      /\ Refreshed(b).placed = b.placed
      /\ Refreshed(b).front = b.front
      /\ Refreshed(b).queue = b.queue
    BY RefreshedFields DEF BeamOK
<1>2. \A c : Position(Refreshed(b), c) = Position(b, c)
    BY <1>1 DEF Position
<1>3. \A p : Behind(Refreshed(b), p) <=> Behind(b, p)
    BY <1>2 DEF Behind
<1>4. FrontsInExtent(Refreshed(b))
    BY <1>1 DEF BeamOK, FrontsInExtent
<1> QED
    BY <1>1, <1>3, <1>4 DEF BeamOK

(* The fields of a child of b. *)
LEMMA ChildFields ==
    ASSUME Inputs, NEW b, FrontsInExtent(b), NEW a \in Actions(b)
    PROVE  /\ Child(b, a) \in Beams
           /\ Child(b, a).placed = b.placed \cup {Placement(a)}
           /\ Child(b, a).front[a.cursor] = EndOf(a)
           /\ \A c \in Cursors \ {a.cursor} :
                 Child(b, a).front[c] = b.front[c]
           /\ \A c \in Cursors : Child(b, a).queue[c] = b.queue[c] \ {a.task}
<1>1. b \in Beams /\ a.cursor \in Cursors
    BY ActionFacts DEF FrontsInExtent
<1>2. Placement(a) \in Placements /\ EndOf(a) \in Int
    BY PlacementFacts
<1> DEFINE f == [b.front EXCEPT ![a.cursor] = EndOf(a)]
           q == [c \in Cursors |-> b.queue[c] \ {a.task}]
<1>3. f \in [Cursors -> Int] /\ q \in [Cursors -> SUBSET Tasks]
    BY <1>1, <1>2 DEF Beams
<1>4. /\ f[a.cursor] = EndOf(a)
      /\ \A c \in Cursors \ {a.cursor} : f[c] = b.front[c]
    BY <1>1 DEF Beams
<1>5. Child(b, a) = [b EXCEPT !.placed = b.placed \cup {Placement(a)},
                              !.front  = f,
                              !.queue  = q]
    BY <1>1 DEF Child, EndOf, Beams
<1>6. \A c \in Cursors : q[c] = b.queue[c] \ {a.task}
    OBVIOUS
<1> HIDE DEF f, q
<1>7. Child(b, a) \in Beams
    BY <1>1, <1>2, <1>3, <1>5 DEF Beams
<1>8. /\ Child(b, a).placed = b.placed \cup {Placement(a)}
      /\ Child(b, a).front = f
      /\ Child(b, a).queue = q
    BY <1>1, <1>5 DEF Beams
<1> QED
    BY <1>4, <1>6, <1>7, <1>8

(* The child of a sound beam is sound, if its placement was validated. *)
LEMMA ChildOK ==
    ASSUME Inputs, NEW b, BeamOK(b), NEW a \in Actions(b), Allowed(b, a)
    PROVE  BeamOK(Child(b, a))
<1> DEFINE n  == Placement(a)
           k  == a.cursor
           b2 == Child(b, a)
<1>1. FrontsInExtent(b)
    BY DEF BeamOK
<1>2. k \in Cursors /\ a.task \in Tasks
    BY <1>1, ActionFacts
<1>3. /\ b2 \in Beams
      /\ b2.placed = b.placed \cup {n}
      /\ b2.front[k] = EndOf(a)
      /\ \A c \in Cursors \ {k} : b2.front[c] = b.front[c]
      /\ \A c \in Cursors : b2.queue[c] = b.queue[c] \ {a.task}
    BY <1>1, ChildFields
<1>4. /\ n \in Placements /\ n.task = a.task /\ n.cursor = k
      /\ Span(n) = problem.dur[n.task]
      /\ \E w \in problem.windows[n.task] : Inside(n, w)
      /\ Inside(n, Extent(n.cursor))
      /\ EndOf(a) \in Int /\ b.front[k] < EndOf(a) /\ EndOf(a) <= Extent(k).end
    BY <1>1, PlacementFacts
<1>5. /\ n.task \notin TasksOf(b.placed)
      /\ DependenciesMet(b.placed, n)
      /\ \A r \in b.placed : ~ Overlaps(r, n)
    BY DEF Allowed, Valid
<1>6. b.placed \subseteq Placements
    BY <1>1 DEF FrontsInExtent, Beams
<1>7. Forward # Backward
    BY DEF Forward, Backward
<1>8. ASSUME NEW c \in Cursors
      PROVE  Extent(c).start <= b2.front[c] /\ b2.front[c] <= Extent(c).end
    <2>1. /\ Extent(c).start <= b.front[c] /\ b.front[c] <= Extent(c).end
          /\ b.front[c] \in Int /\ Extent(c).start \in Int
        BY <1>1, PositionFacts, ExtentFacts DEF FrontsInExtent
    <2>2. CASE c = k
        BY <1>3, <1>4, <2>1, <2>2
    <2>3. CASE c # k
        BY <1>3, <2>1, <2>3
    <2> QED
        BY <2>2, <2>3
<1>9. FrontsInExtent(b2)
    BY <1>3, <1>8 DEF FrontsInExtent
<1>10. \A p, q \in b2.placed : p # q => p.task # q.task /\ ~ Overlaps(p, q)
    <2>1. \A r \in b.placed : r.task # n.task /\ ~ Overlaps(r, n) /\ ~ Overlaps(n, r)
        BY <1>5 DEF TasksOf, Overlaps
    <2> QED
        BY <1>3, <2>1 DEF BeamOK
<1>11. \A p \in b2.placed : DependenciesMet(b2.placed, p)
    <2>1. \A p : DependenciesMet(b.placed, p) => DependenciesMet(b2.placed, p)
        BY <1>3 DEF DependenciesMet
    <2> QED
        BY <1>3, <1>5, <2>1 DEF BeamOK
<1>12. \A p \in b2.placed :
          /\ Span(p) = problem.dur[p.task]
          /\ \E w \in problem.windows[p.task] : Inside(p, w)
          /\ Inside(p, Extent(p.cursor))
    BY <1>3, <1>4 DEF BeamOK
<1>13. ASSUME NEW c \in Cursors
       PROVE  /\ layout[c].dir = Forward => Position(b, c) <= Position(b2, c)
              /\ layout[c].dir = Backward => Position(b2, c) <= Position(b, c)
    <2>1. b.front[c] <= b2.front[c] /\ b.front[c] \in Int /\ b2.front[c] \in Int
        BY <1>1, <1>3, <1>4, <1>9, PositionFacts
    <2> HIDE DEF b2
    <2> QED
        BY <1>1, <1>9, <2>1, PositionFacts, ExtentFacts
<1>14. \A p \in b2.placed : Behind(b2, p)
    <2>1. ASSUME NEW p \in b.placed
          PROVE  Behind(b2, p)
        <3>1. Behind(b, p) /\ p.cursor \in Cursors /\ p.start \in Int /\ p.end \in Int
            BY <1>6 DEF BeamOK, Placements
        <3>2. Position(b, p.cursor) \in Int /\ Position(b2, p.cursor) \in Int
            BY <1>1, <1>9, <3>1, PositionFacts
        <3> HIDE DEF b2
        <3> QED
            BY <1>7, <1>13, <3>1, <3>2, ConfigFacts DEF Behind
    <2>2. Behind(b2, n)
        <3>1. /\ layout[k].dir = Forward => n.end = EndOf(a)
              /\ layout[k].dir = Backward =>
                     n.start = Extent(k).start + Extent(k).end - EndOf(a)
            BY <1>1, PlacementFacts
        <3>2. /\ layout[k].dir = Forward => Position(b2, k) = EndOf(a)
              /\ layout[k].dir = Backward =>
                    Position(b2, k) = Extent(k).start + Extent(k).end - EndOf(a)
            BY <1>2, <1>3, <1>9, PositionFacts
        <3>3. Extent(k).start \in Int /\ Extent(k).end \in Int
            BY <1>2, ExtentFacts
        <3> HIDE DEF b2, n, k
        <3> QED
            BY <1>2, <1>4, <1>7, <3>1, <3>2, <3>3, ConfigFacts DEF Behind
    <2> QED
        BY <1>3, <2>1, <2>2
<1>15. \A p, q \in b2.placed :
          (q.cursor = p.cursor /\ layout[p.cursor].dir = Backward)
              => q.task \notin AllPredecessors(p.task)
    <2>1. \A p, q \in b.placed :
             (q.cursor = p.cursor /\ layout[p.cursor].dir = Backward)
                 => q.task \notin AllPredecessors(p.task)
        BY DEF BeamOK
    <2>2. ASSUME NEW p \in b.placed
          PROVE  n.task \notin AllPredecessors(p.task)
        BY <1>5 DEF BeamOK, DependenciesMet, TasksOf
    <2>3. ASSUME NEW q \in b.placed, q.cursor = k, layout[k].dir = Backward,
                 q.task \in AllPredecessors(n.task)
          PROVE  FALSE
        <3>1. PICK r \in b.placed : r.task = q.task /\ r.end <= n.start
            BY <1>5, <2>3 DEF DependenciesMet
        <3>2. r = q
            BY <3>1 DEF BeamOK
        <3>3. Position(b, k) <= q.start
            BY <1>7, <2>3 DEF BeamOK, Behind
        <3>4. n.end <= Position(b, k)
            BY <1>1, <2>3, PlacementFacts
        <3>5. Span(q) = problem.dur[q.task] /\ Span(n) = problem.dur[n.task]
            BY <1>4 DEF BeamOK
        <3>6. /\ q.task \in Tasks /\ n.task \in Tasks
              /\ q.start \in Int /\ q.end \in Int
              /\ n.start \in Int /\ n.end \in Int
            BY <1>4, <1>6 DEF Placements
        <3>7. problem.dur[q.task] \in Nat \ {0} /\ problem.dur[n.task] \in Nat \ {0}
            BY <3>6, WindowFacts
        <3>8. Position(b, k) \in Int
            BY <1>1, <1>2, PositionFacts
        <3> HIDE DEF n, k
        <3>9. q.start < q.end /\ n.start < n.end
            BY <3>5, <3>6, <3>7 DEF Span
        <3> QED
            BY <3>1, <3>2, <3>3, <3>4, <3>6, <3>8, <3>9
    <2>4. n.task \notin AllPredecessors(n.task)
        BY <1>5 DEF DependenciesMet, TasksOf
    <2> HIDE DEF n, k, b2
    <2> QED
        BY <1>3, <1>4, <2>1, <2>2, <2>3, <2>4
<1>16. \A c \in Cursors : b2.queue[c] = Filtered \ TasksOf(b2.placed)
    <2>1. TasksOf(b2.placed) = TasksOf(b.placed) \cup {a.task}
        BY <1>3, <1>4 DEF TasksOf
    <2> QED
        BY <1>3, <2>1 DEF BeamOK
<1> HIDE DEF b2
<1> QED
    BY <1>9, <1>10, <1>11, <1>12, <1>14, <1>15, <1>16 DEF BeamOK, b2

-----------------------------------------------------------------------------
(* The branching bound *)

(* The candidate and the action of task t and cursor c. *)
CandidateAt(b, c, t) ==
    [task |-> t, est |-> Est(b, c, t),
     slack |-> MapThenSumSet(Span, Usable(b, c, t))]

ActionAt(b, c, t) ==
    [cursor |-> c, task |-> t, est |-> Est(b, c, t),
     rank |-> Rank(Candidates(b, c), FrameActive(b, c).start,
                   CandidateAt(b, c, t))]

(* A cursor has finitely many candidates: one for each task at most. *)
LEMMA CandidatesFinite ==
    ASSUME Inputs, NEW b, FrontsInExtent(b), NEW c \in Cursors
    PROVE  IsFiniteSet(Candidates(b, c))
<1>1. \A k \in Candidates(b, c) : k = CandidateAt(b, c, k.task) /\ k.task \in Tasks
    BY DEF Candidates, CandidateAt, Schedulable, FrontsInExtent, Beams
<1> DEFINE f == [k \in Candidates(b, c) |-> k.task]
<1>2. f \in Injection(Candidates(b, c), Tasks)
    BY <1>1 DEF Injection, IsInjective
<1> QED
    BY <1>2, FS_Injection, TasksAreNumbers

(* An action is determined by its cursor and its task. *)
LEMMA ActionIsDetermined ==
    ASSUME Inputs, NEW b, FrontsInExtent(b), NEW a \in Actions(b)
    PROVE  a = ActionAt(b, a.cursor, a.task) /\ a.rank \in Nat
<1>1. PICK c \in Cursors : a \in ActionsOf(b, c)
    BY DEF Actions
<1>2. PICK k \in Candidates(b, c) :
          a = [cursor |-> c, task |-> k.task, est |-> k.est,
               rank |-> Rank(Candidates(b, c), FrameActive(b, c).start, k)]
    BY <1>1 DEF ActionsOf
<1>3. k = CandidateAt(b, c, k.task) /\ k.est = Est(b, c, k.task)
    BY DEF Candidates, CandidateAt
<1>4. a.rank \in Nat
    <2> DEFINE before == {l \in Candidates(b, c) :
                             Before(Candidates(b, c), FrameActive(b, c).start, l, k)}
    <2>1. before \in SUBSET Candidates(b, c)
        OBVIOUS
    <2>2. a.rank = Cardinality(before)
        BY <1>2 DEF Rank
    <2> HIDE DEF before
    <2> QED
        BY <2>1, <2>2, CandidatesFinite, FS_Subset, FS_CardinalityType
<1> QED
    BY <1>2, <1>3, <1>4 DEF ActionAt

(* A beam has finitely many actions. *)
LEMMA ActionsFinite ==
    ASSUME Inputs, NEW b, FrontsInExtent(b)
    PROVE  IsFiniteSet(Actions(b))
<1> DEFINE f == [a \in Actions(b) |-> <<a.cursor, a.task>>]
<1>1. f \in [Actions(b) -> Cursors \X Tasks]
    BY ActionFacts
<1>2. ASSUME NEW a1 \in Actions(b), NEW a2 \in Actions(b), f[a1] = f[a2]
      PROVE  a1 = a2
    <2>1. a1.cursor = a2.cursor /\ a1.task = a2.task
        BY <1>2
    <2> QED
        BY <2>1, ActionIsDetermined
<1>3. f \in Injection(Actions(b), Cursors \X Tasks)
    BY <1>1, <1>2 DEF Injection, IsInjective
<1>4. IsFiniteSet(Cursors \X Tasks)
    BY FS_Product, TasksAreNumbers, CursorsAreNumbers
<1> QED
    BY <1>3, <1>4, FS_Injection

(* No action comes before itself. *)
LEMMA ActionBeforeIrreflexive ==
    ASSUME Inputs, NEW b, FrontsInExtent(b), NEW a \in Actions(b)
    PROVE  ~ ActionBefore(a, a)
<1>1. a.rank \in Int /\ a.cursor \in Int /\ a.task \in Int
    <2>1. a.rank \in Nat
        BY ActionIsDetermined
    <2>2. a.cursor \in Cursors /\ a.task \in Tasks
        BY ActionFacts
    <2>3. a.cursor \in Nat /\ a.task \in Nat
        BY <2>2, TasksAreNumbers, CursorsAreNumbers
    <2> QED
        BY <2>1, <2>3
<1> DEFINE key == <<a.rank, a.cursor, a.task>>
<1>2. \A i \in DOMAIN key : key[i] \in Int
    BY <1>1
<1>3. \A i \in DOMAIN key : ~ key[i] < key[i]
    BY <1>2
<1> HIDE DEF key
<1>4. ~ LexLess(key, key)
    BY <1>3 DEF LexLess
<1> QED
    BY <1>4 DEF ActionBefore, key

(* However many actions are viable, at most Branching of them are chosen:  *)
(* all chosen ones come before, or are, the last one, which has fewer than *)
(* Branching before it.                                                    *)
LEMMA ChosenBound ==
    ASSUME Inputs, NEW b, FrontsInExtent(b), NEW viable \in SUBSET Actions(b),
           NEW order \in [1 .. Cardinality(Chosen(viable)) -> Chosen(viable)],
           \A i, j \in DOMAIN order : i < j => ActionBefore(order[i], order[j])
    PROVE  /\ Cardinality(Chosen(viable)) \in Nat
           /\ Cardinality(Chosen(viable)) <= Branching
<1> DEFINE chosen == Chosen(viable)
           n == Cardinality(chosen)
<1>1. chosen \subseteq viable /\ IsFiniteSet(viable)
    BY ActionsFinite, FS_Subset DEF Chosen
<1>2. n \in Nat
    BY <1>1, FS_Subset, FS_CardinalityType
<1>3. CASE n = 0
    BY <1>2, <1>3, BeamParameters
<1>4. CASE n # 0
    <2>1. n \in 1 .. n /\ DOMAIN order = 1 .. n
        BY <1>2, <1>4
    <2> DEFINE last == order[n]
               before == {v \in viable : ActionBefore(v, last)}
               g == [i \in 1 .. n - 1 |-> order[i]]
    <2>2. last \in chosen
        BY <2>1
    <2>3. Cardinality(before) < Branching
        BY <2>2 DEF Chosen
    <2>4. IsFiniteSet(before) /\ Cardinality(before) \in Nat
        BY <1>1, FS_Subset, FS_CardinalityType
    <2>5. \A i \in 1 .. n - 1 : i \in 1 .. n /\ i < n
        BY <1>2
    <2>6. \A i \in 1 .. n - 1 : order[i] \in before
        BY <1>1, <2>1, <2>5
    <2>7. \A i, j \in 1 .. n : order[i] = order[j] => i = j
        <3> SUFFICES ASSUME NEW i \in 1 .. n, NEW j \in 1 .. n,
                            order[i] = order[j], i # j
                     PROVE  FALSE
            OBVIOUS
        <3>1. order[i] \in Actions(b)
            BY <1>1, <2>1
        <3>2. i < j \/ j < i
            BY <1>2
        <3>3. ActionBefore(order[i], order[i])
            BY <2>1, <3>2
        <3> QED
            BY <3>1, <3>3, ActionBeforeIrreflexive
    <2>8. g \in Injection(1 .. n - 1, before)
        BY <2>5, <2>6, <2>7 DEF Injection, IsInjective
    <2> HIDE DEF before, g
    <2>9. Cardinality(1 .. n - 1) <= Cardinality(before)
        BY <2>4, <2>8, FS_Injection
    <2> HIDE DEF n
    <2>10. Cardinality(1 .. n - 1) = n - 1
        <3>1. 1 \in Int /\ n - 1 \in Int
            BY <1>2
        <3>2. Cardinality(1 .. n - 1) = IF 1 > n - 1 THEN 0 ELSE (n - 1) - 1 + 1
            BY <3>1, FS_Interval
        <3> QED
            BY <1>2, <1>4, <3>2
    <2> QED
        BY <1>2, <2>3, <2>4, <2>9, <2>10, BeamParameters DEF n
<1> QED
    BY <1>2, <1>3, <1>4

-----------------------------------------------------------------------------
(* The invariant *)

(* No step changes the inputs, so a beam keeps what holds of it. *)
LEMMA BeamOKStable ==
    ASSUME UNCHANGED inputs, NEW b, BeamOK(b)
    PROVE  BeamOK(b)'
<1>1. layout' = layout /\ problem' = problem
    BY DEF inputs
<1>2. \A c : Extent(c)' = Extent(c)
    BY <1>1 DEF Extent, ExtentIn
<1>3. \A c : Position(b, c)' = Position(b, c)
    BY <1>1, <1>2 DEF Position, FrameTime, Mirror
<1>4. FrontsInExtent(b)' <=> FrontsInExtent(b)
    BY <1>1, <1>2 DEF FrontsInExtent
<1>5. \A p : Behind(b, p)' <=> Behind(b, p)
    BY <1>1, <1>3 DEF Behind
<1>6. \A t : AllPredecessors(t)' = AllPredecessors(t)
    BY <1>1 DEF AllPredecessors, Predecessors
<1>7. \A p : DependenciesMet(b.placed, p)' <=> DependenciesMet(b.placed, p)
    BY <1>6 DEF DependenciesMet
<1>8. Filtered' = Filtered
    BY <1>1 DEF Filtered
<1> QED
    BY <1>1, <1>2, <1>4, <1>5, <1>6, <1>7, <1>8 DEF BeamOK

(* The inductive invariant: every beam in play is sound by itself, the     *)
(* schedule returned is that of a terminal beam, and it is returned only   *)
(* when no beam is live.                                                   *)
Safe ==
    /\ TypeOK
    /\ \A b \in AllBeams : BeamOK(b)
    /\ \A s \in result : \E b \in terminal : s = b.placed
    /\ result # {} => live = <<>> /\ next = <<>>

(* The elements of a sequence. *)
LEMMA RangeFacts ==
    ASSUME NEW S, NEW s \in Seq(S)
    PROVE  /\ Range(s) = {s[i] : i \in 1 .. Len(s)}
           /\ Len(s) \in Nat
           /\ Range(s) \subseteq S
    BY DEF Range

(* What is left of a sequence after its head is taken. *)
LEMMA TailFacts ==
    ASSUME NEW S, NEW s \in Seq(S), s # <<>>
    PROVE  /\ Head(s) \in Range(s)
           /\ Tail(s) \in Seq(S)
           /\ Len(Tail(s)) = Len(s) - 1
           /\ Range(Tail(s)) \subseteq Range(s)
<1>1. Len(s) \in Nat /\ Len(s) # 0 /\ Head(s) = s[1]
    OBVIOUS
<1>2. Tail(s) \in Seq(S) /\ Len(Tail(s)) = Len(s) - 1
    OBVIOUS
<1>3. \A i \in 1 .. Len(s) - 1 : Tail(s)[i] = s[i + 1]
    OBVIOUS
<1>4. \A i \in 1 .. Len(s) - 1 : i + 1 \in 1 .. Len(s)
    BY <1>1
<1>5. /\ Range(s) = {s[i] : i \in 1 .. Len(s)}
      /\ Range(Tail(s)) = {Tail(s)[i] : i \in 1 .. Len(Tail(s))}
    BY <1>2, RangeFacts
<1> QED
    BY <1>1, <1>2, <1>3, <1>4, <1>5

(* A sequence extended by n elements. *)
LEMMA ConcatFacts ==
    ASSUME NEW S, NEW s \in Seq(S), NEW n \in Nat, NEW f \in [1 .. n -> S]
    PROVE  /\ s \o f \in Seq(S)
           /\ Len(s \o f) = Len(s) + n
           /\ Range(s \o f) \subseteq Range(s) \cup {f[i] : i \in 1 .. n}
<1>1. f \in Seq(S) /\ Len(f) = n
    OBVIOUS
<1>2. s \o f \in Seq(S) /\ Len(s \o f) = Len(s) + Len(f)
    BY <1>1
<1>3. ASSUME NEW i \in 1 .. Len(s \o f)
      PROVE  (s \o f)[i] \in Range(s) \cup {f[j] : j \in 1 .. n}
    <2>1. CASE i <= Len(s)
        <3>1. i \in 1 .. Len(s) /\ (s \o f)[i] = s[i]
            BY <1>1, <2>1
        <3> QED
            BY <3>1, RangeFacts
    <2>2. CASE i > Len(s)
        <3>1. i - Len(s) \in 1 .. n /\ (s \o f)[i] = f[i - Len(s)]
            BY <1>1, <1>2, <2>2
        <3> QED
            BY <3>1
    <2> QED
        BY <1>2, <2>1, <2>2
<1>4. Range(s \o f) = {(s \o f)[i] : i \in 1 .. Len(s \o f)}
    BY <1>2, RangeFacts
<1> QED
    BY <1>1, <1>2, <1>3, <1>4

(* The search starts in the invariant. *)
LEMMA SafeInit ==
    ASSUME Init
    PROVE  Safe
<1>1. Inputs
    BY DEF Init, Inputs
<1>2. BeamOK(Seed) /\ Seed \in Beams
    BY <1>1, SeedOK DEF BeamOK, FrontsInExtent
<1>3. live \in Seq(Beams) /\ Len(live) = 1 /\ live[1] = Seed
    BY <1>2 DEF Init
<1>4. next \in Seq(Beams) /\ Len(next) = 0
    BY DEF Init
<1>5. Range(live) = {live[i] : i \in 1 .. 1} /\ Range(next) = {}
    <2>1. Range(live) = {live[i] : i \in 1 .. Len(live)}
        BY <1>3, RangeFacts
    <2>2. Range(next) = {next[i] : i \in 1 .. Len(next)}
        BY <1>4, RangeFacts
    <2> QED
        BY <1>3, <1>4, <2>1, <2>2
<1>6. TypeOK
    <2>1. KBeams \in Nat \ {0} /\ Branching \in Nat
        BY BeamParameters
    <2>2. Len(next) + Branching * Len(live) <= Branching * KBeams
        BY <1>3, <1>4, <2>1
    <2> QED
        BY <1>1, <1>3, <1>4, <2>1, <2>2 DEF TypeOK, Init, Inputs
<1>7. \A b \in AllBeams : b = Seed
    BY <1>3, <1>5 DEF AllBeams, Init
<1> QED
    BY <1>2, <1>6, <1>7 DEF Safe, Init

(* An expanded beam, and every child of it, is sound. *)
LEMMA SafeExpand ==
    ASSUME Safe, Expand
    PROVE  Safe'
<1> USE DEF Expand
<1> DEFINE b == Refreshed(Head(live))
           chosen == Chosen(Viable(b, Actions(b)))
<1>1. /\ Inputs /\ live \in Seq(Beams) /\ live # <<>>
      /\ next \in Seq(Beams) /\ terminal \subseteq Beams
      /\ Len(next) + Branching * Len(live) <= Branching * KBeams
      /\ Len(live) <= KBeams
      /\ result \subseteq SUBSET Placements
    BY DEF Safe, TypeOK, Inputs
<1>2. /\ live' = Tail(live) /\ UNCHANGED inputs /\ result' = result
      /\ layout' = layout /\ problem' = problem
    BY DEF inputs
<1>3. BeamOK(b)
    <2>1. Head(live) \in AllBeams
        BY <1>1, TailFacts DEF AllBeams
    <2> QED
        BY <1>1, <2>1, RefreshedOK DEF Safe
<1>4. b \in Beams /\ FrontsInExtent(b)
    BY <1>3 DEF BeamOK, FrontsInExtent
<1>5. \/ chosen = {} /\ Retire(b)
      \/ chosen # {} /\ Branch(b, chosen)
    OBVIOUS
<1>6. \A a \in chosen : a \in Actions(b) /\ Allowed(b, a)
    BY DEF Chosen, Viable
<1>7. \A a \in chosen : BeamOK(Child(b, a)) /\ Child(b, a) \in Beams
    <2>1. \A a \in chosen : BeamOK(Child(b, a))
        BY <1>1, <1>3, <1>6, ChildOK
    <2> QED
        BY <2>1 DEF BeamOK, FrontsInExtent
<1>8. chosen \subseteq Viable(b, Actions(b)) /\ Viable(b, Actions(b)) \in SUBSET Actions(b)
    BY DEF Chosen, Viable
<1> HIDE DEF b, Expand
<1>9. /\ next' \in Seq(Beams)
      /\ Len(next') <= Len(next) + Branching
      /\ Range(next') \subseteq Range(next) \cup {Child(b, a) : a \in chosen}
      /\ terminal' \subseteq terminal \cup {b}
      /\ terminal \subseteq terminal'
    <2>1. CASE Retire(b)
        <3>1. Branching \in Nat /\ Len(next) \in Nat
            BY <1>1, BeamParameters
        <3> QED
            BY <1>1, <2>1, <3>1 DEF Retire
    <2>2. CASE Branch(b, chosen)
        <3> DEFINE n == Cardinality(chosen)
        <3>1. PICK order \in [1 .. n -> chosen] :
                  /\ \A i, j \in DOMAIN order :
                        i < j => ActionBefore(order[i], order[j])
                  /\ next' = next \o [i \in DOMAIN order |-> Child(b, order[i])]
            BY <2>2 DEF Branch
        <3>2. n \in Nat /\ n <= Branching
            BY <1>1, <1>4, <1>8, <3>1, ChosenBound
        <3> HIDE DEF n, chosen
        <3> DEFINE kids == [i \in 1 .. n |-> Child(b, order[i])]
        <3>3. kids \in [1 .. n -> Beams]
            BY <1>7
        <3>4. \A i \in 1 .. n : kids[i] \in {Child(b, a) : a \in chosen}
            OBVIOUS
        <3>5. next' = next \o kids
            BY <3>1
        <3> HIDE DEF kids
        <3>6. /\ next' \in Seq(Beams)
              /\ Len(next') = Len(next) + n
              /\ Range(next') \subseteq Range(next) \cup {kids[i] : i \in 1 .. n}
            BY <1>1, <3>2, <3>3, <3>5, ConcatFacts
        <3>7. Branching \in Nat /\ Len(next) \in Nat
            BY <1>1, BeamParameters
        <3>8. terminal' = terminal
            BY <2>2 DEF Branch
        <3> QED
            BY <3>2, <3>4, <3>6, <3>7, <3>8
    <2> QED
        BY <1>5, <2>1, <2>2
<1>10. /\ Tail(live) \in Seq(Beams) /\ Len(Tail(live)) = Len(live) - 1
       /\ Range(Tail(live)) \subseteq Range(live)
    BY <1>1, TailFacts
<1> HIDE DEF chosen
<1>11. TypeOK'
    <2>1. /\ Branching \in Nat \ {0} /\ KBeams \in Nat \ {0}
          /\ Len(live) \in Nat /\ Len(next) \in Nat /\ Len(next') \in Nat
        BY <1>1, <1>9, BeamParameters
    <2>2. Len(live') <= KBeams
        BY <1>1, <1>2, <1>10, <2>1
    <2>3. Branching * (Len(live) - 1) = Branching * Len(live) - Branching
        BY <2>1
    <2>4. Branching * Len(live) \in Int /\ Branching * KBeams \in Int
        BY <2>1
    <2>5. Len(next') + Branching * Len(live') <= Branching * KBeams
        BY <1>1, <1>2, <1>9, <1>10, <2>1, <2>3, <2>4
    <2>6. terminal' \subseteq Beams
        BY <1>1, <1>4, <1>9
    <2> QED
        BY <1>1, <1>2, <1>9, <1>10, <2>2, <2>5, <2>6 DEF TypeOK, Inputs
<1>12. \A x \in AllBeams' : BeamOK(x)
    <2>1. \A x \in AllBeams' :
              x \in AllBeams \/ x = b \/ x \in {Child(b, a) : a \in chosen}
        BY <1>2, <1>9, <1>10 DEF AllBeams
    <2> QED
        BY <1>3, <1>7, <2>1 DEF Safe
<1>13. \A x \in AllBeams' : BeamOK(x)'
    BY <1>2, <1>12, BeamOKStable
<1>14. \A s \in result' : \E x \in terminal' : s = x.placed
    BY <1>2, <1>9 DEF Safe
<1>15. result' = {}
    BY <1>1, <1>2 DEF Safe
<1> QED
    BY <1>11, <1>13, <1>14, <1>15 DEF Safe

(* Truncation brings no beam in. *)
LEMMA TruncateKeeps ==
    ASSUME Safe, Truncate
    PROVE  /\ AllBeams' \subseteq AllBeams
           /\ live' \in Seq(Beams) /\ Len(live') = Kept
           /\ next' = <<>>
           /\ Kept \in Nat /\ Kept <= KBeams
<1>1. next \in Seq(Beams) /\ next # <<>> /\ terminal' = terminal /\ next' = <<>>
    BY DEF Safe, TypeOK, Truncate
<1>2. Kept \in Nat /\ Kept <= KBeams
    BY <1>1, BeamParameters DEF Kept, Earlier
<1>3. PICK best \in [1 .. Kept -> 1 .. Len(next)] :
          live' = [i \in 1 .. Kept |-> next[best[i]]]
    BY DEF Truncate
<1>4. \A i \in 1 .. Kept : next[best[i]] \in Range(next) /\ next[best[i]] \in Beams
    BY <1>1, <1>3, RangeFacts
<1>5. live' \in Seq(Beams) /\ Len(live') = Kept
    BY <1>2, <1>3, <1>4
<1>6. Range(live') \subseteq Range(next)
    <2>1. Range(live') = {live'[i] : i \in 1 .. Kept}
        BY <1>5, RangeFacts
    <2> QED
        BY <1>3, <1>4, <2>1
<1>7. Range(next') = {}
    <2>1. DOMAIN next' = {}
        BY <1>1
    <2> QED
        BY <2>1 DEF Range
<1> QED
    BY <1>1, <1>2, <1>5, <1>6, <1>7 DEF AllBeams

(* Dropping and reordering children keeps the invariant. *)
LEMMA SafeTruncate ==
    ASSUME Safe, Truncate
    PROVE  Safe'
<1>1. UNCHANGED <<inputs, terminal, result>> /\ layout' = layout /\ problem' = problem
    BY DEF Truncate, inputs
<1>2. /\ AllBeams' \subseteq AllBeams
      /\ live' \in Seq(Beams) /\ Len(live') = Kept
      /\ next' = <<>>
      /\ Kept \in Nat /\ Kept <= KBeams
    BY TruncateKeeps
<1>3. TypeOK'
    <2>1. KBeams \in Nat /\ Branching \in Nat
        BY BeamParameters
    <2>2. Branching * Kept <= Branching * KBeams /\ Branching * Kept \in Int
        BY <1>2, <2>1
    <2>3. next' \in Seq(Beams) /\ Len(next') = 0
        BY <1>2
    <2>4. Len(next') + Branching * Len(live') <= Branching * KBeams
        BY <1>2, <2>2, <2>3
    <2> QED
        BY <1>1, <1>2, <2>3, <2>4 DEF Safe, TypeOK
<1>4. \A x \in AllBeams' : BeamOK(x)'
    BY <1>1, <1>2, BeamOKStable DEF Safe
<1>5. result' = {}
    BY <1>1 DEF Safe, Truncate
<1> QED
    BY <1>1, <1>3, <1>4, <1>5 DEF Safe

(* Returning a terminal beam keeps the invariant. *)
LEMMA SafeReturn ==
    ASSUME Safe, Return
    PROVE  Safe'
<1>1. UNCHANGED <<inputs, live, next, terminal>> /\ layout' = layout /\ problem' = problem
    BY DEF Return, inputs
<1>2. PICK b \in terminal : result' = {b.placed}
    BY DEF Return
<1>3. b.placed \subseteq Placements
    <2>1. b \in Beams
        BY <1>2 DEF Safe, TypeOK
    <2> QED
        BY <2>1 DEF Beams
<1>4. TypeOK'
    BY <1>1, <1>2, <1>3 DEF Safe, TypeOK
<1>5. AllBeams' = AllBeams
    BY <1>1 DEF AllBeams
<1>6. \A x \in AllBeams' : BeamOK(x)'
    BY <1>1, <1>5, BeamOKStable DEF Safe
<1>7. live = <<>> /\ next = <<>>
    BY DEF Return
<1> QED
    BY <1>1, <1>2, <1>4, <1>6, <1>7 DEF Safe

(* Stuttering keeps the invariant. *)
LEMMA SafeUnchanged ==
    ASSUME Safe, UNCHANGED vars
    PROVE  Safe'
<1>1. /\ UNCHANGED <<inputs, live, next, terminal, result>>
      /\ layout' = layout /\ problem' = problem
    BY DEF vars, inputs
<1>2. TypeOK'
    BY <1>1 DEF Safe, TypeOK
<1>3. AllBeams' = AllBeams
    BY <1>1 DEF AllBeams
<1>4. \A x \in AllBeams' : BeamOK(x)'
    BY <1>1, <1>3, BeamOKStable DEF Safe
<1> QED
    BY <1>1, <1>2, <1>4 DEF Safe

(* The search keeps the inductive invariant, whatever its parameters.      *)
THEOREM SearchIsSafe == Spec => []Safe
<1>1. Init => Safe
    BY SafeInit
<1>2. Safe /\ [Next]_vars => Safe'
    BY SafeExpand, SafeTruncate, SafeReturn, SafeUnchanged DEF Next, Finished
<1> QED
    BY <1>1, <1>2, PTL DEF Spec

(* Every variable keeps its type, and a round never holds more beams than  *)
(* the beam width and the branching factor allow.                          *)
THEOREM TypeCorrect == Spec => []TypeOK
<1>1. Safe => TypeOK
    BY DEF Safe
<1> QED
    BY <1>1, SearchIsSafe, PTL

(* No run of the search books a task twice or overlaps two placements.     *)
THEOREM NeverDoubleBooks == Spec => []NoDoubleBooking
<1>1. Safe => NoDoubleBooking
    BY DEF Safe, BeamOK, NoDoubleBooking
<1> QED
    BY <1>1, SearchIsSafe, PTL

(* A direct predecessor is one of all predecessors. *)
LEMMA PredecessorsAreAll ==
    ASSUME NEW t, NEW p \in Tasks, <<p, t>> \in problem.deps
    PROVE  p \in AllPredecessors(t)
    BY DEF AllPredecessors, Predecessors

(* A task is placed only after its predecessors, whichever cursors place   *)
(* them.                                                                   *)
THEOREM RespectsDependencies == Spec => []DependenciesRespected
<1>1. Safe => DependenciesRespected
    <2> SUFFICES ASSUME Safe, NEW b \in AllBeams, NEW d \in problem.deps,
                        NEW p \in b.placed, p.task = d[2]
                 PROVE  \E r \in b.placed : r.task = d[1] /\ r.end <= p.start
        BY DEF DependenciesRespected
    <2>1. problem \in ProblemRecord
        BY ProblemsAreWellFormed DEF Safe, TypeOK
    <2>2. d[1] \in Tasks /\ <<d[1], p.task>> \in problem.deps
        BY <2>1 DEF ProblemRecord
    <2>3. d[1] \in AllPredecessors(p.task)
        BY <2>2, PredecessorsAreAll
    <2>4. DependenciesMet(b.placed, p)
        BY DEF Safe, BeamOK
    <2> QED
        BY <2>3, <2>4 DEF DependenciesMet
<1> QED
    BY <1>1, SearchIsSafe, PTL

(* The frame arithmetic and the queue refresh keep every placement within  *)
(* one feasible window of its task and the extent of its cursor.           *)
THEOREM PlacesInWindows == Spec => []PlacedInWindow
<1>1. Safe => PlacedInWindow
    BY DEF Safe, BeamOK, PlacedInWindow
<1> QED
    BY <1>1, SearchIsSafe, PTL

(* A cursor never leaves its extent and never turns back on a placement.   *)
THEOREM StaysBehindFrontier == Spec => []BehindFrontier
<1>1. Safe => BehindFrontier
    BY DEF Safe, BeamOK, BehindFrontier, Behind, FrontsInExtent
<1> QED
    BY <1>1, SearchIsSafe, PTL

(* A Backward cursor never places a task with one of its predecessors.     *)
THEOREM BackwardLeavesSuccessors == Spec => []BackwardPlacesNoSuccessors
<1>1. Safe => BackwardPlacesNoSuccessors
    BY DEF Safe, BeamOK, BackwardPlacesNoSuccessors
<1> QED
    BY <1>1, SearchIsSafe, PTL

(* A task leaves the queues of a beam exactly when the beam places it.     *)
THEOREM QueuesHoldUnplaced == Spec => []UnplacedStayQueued
<1>1. Safe => UnplacedStayQueued
    BY DEF Safe, BeamOK, UnplacedStayQueued
<1> QED
    BY <1>1, SearchIsSafe, PTL

(* The assertion of into_task_placement cannot fail.                       *)
THEOREM NeverPanics == Spec => []PlacementFitsExtent
<1>1. Safe => PlacementFitsExtent
    <2> SUFFICES ASSUME Safe, NEW x \in Range(live),
                        NEW a \in Actions(Refreshed(x))
                 PROVE  a.est + problem.dur[a.task] <= Extent(a.cursor).end
        BY DEF PlacementFitsExtent
    <2>1. Inputs
        BY DEF Safe, TypeOK, Inputs
    <2>2. BeamOK(Refreshed(x))
        BY <2>1, RefreshedOK DEF Safe, AllBeams
    <2>3. FrontsInExtent(Refreshed(x))
        BY <2>2 DEF BeamOK
    <2>4. EndOf(a) <= Extent(a.cursor).end
        BY <2>1, <2>3, PlacementFacts
    <2> QED
        BY <2>4 DEF EndOf
<1> QED
    BY <1>1, SearchIsSafe, PTL

(* Every beam is a plan, whatever the layout and the order of the scores,  *)
(* and its next step stays one (engine.rs:414-499).                        *)
THEOREM SearchPlansAreValid == Spec => []PlansAreValid
<1>1. /\ NoDoubleBooking
      /\ DependenciesRespected
      /\ PlacedInWindow
      /\ PlacementFitsExtent
      => PlansAreValid
    BY DEF PlansAreValid
<1> QED
    BY <1>1, NeverDoubleBooks, RespectsDependencies, PlacesInWindows, NeverPanics, PTL

(* What a cursor has placed lies behind it, and the queues hold exactly    *)
(* what is left (engine.rs:249-266, 414-448).                              *)
THEOREM SearchLeavesNothingBehind == Spec => []NothingLeftBehind
<1>1. /\ BehindFrontier
      /\ BackwardPlacesNoSuccessors
      /\ UnplacedStayQueued
      => NothingLeftBehind
    BY DEF NothingLeftBehind
<1> QED
    BY <1>1, StaysBehindFrontier, BackwardLeavesSuccessors, QueuesHoldUnplaced, PTL

-----------------------------------------------------------------------------
(* What the search amounts to *)

(* The plans a set of beams stands for. *)
PlansOf(beams) == {Strip(b.placed) : b \in beams}

StripOf(p) == [task |-> p.task, start |-> p.start, end |-> p.end]

(* The plan of a child adds one legal placement to the plan of its parent. *)
LEMMA ChildIsReached ==
    ASSUME Inputs, NEW b, BeamOK(b), NEW a \in Actions(b), Allowed(b, a)
    PROVE  LET plan == Strip(Child(b, a).placed)
               p    == StripOf(Placement(a))
           IN  /\ p \in plan
               /\ plan \ {p} = Strip(b.placed)
               /\ Plan!Legal(plan \ {p}, p)
<1> DEFINE n == Placement(a)
           p == StripOf(n)
           old == Strip(b.placed)
<1>1. FrontsInExtent(b)
    BY DEF BeamOK
<1>2. Child(b, a).placed = b.placed \cup {n}
    BY <1>1, ChildFields
<1>3. /\ n \in Placements /\ n.task \in Tasks /\ n.cursor \in Cursors
      /\ Span(n) = problem.dur[n.task]
      /\ \E w \in problem.windows[n.task] : Inside(n, w)
      /\ Inside(n, Extent(n.cursor))
    BY <1>1, PlacementFacts DEF Placements
<1>4. /\ n.task \notin TasksOf(b.placed)
      /\ DependenciesMet(b.placed, n)
      /\ \A r \in b.placed : ~ Overlaps(r, n)
    BY DEF Allowed, Valid
<1> HIDE DEF n
<1>5. Strip(Child(b, a).placed) = old \cup {p}
    BY <1>2 DEF Strip, StripOf
<1>6. \A r \in old : r.task # p.task /\ ~ Overlaps(r, p)
    BY <1>4 DEF Strip, StripOf, TasksOf, Overlaps
<1>7. p \notin old
    BY <1>6
<1>8. Inside(p, Horizon)
    <2>1. Inside(p, Extent(n.cursor)) /\ p.start \in Int /\ p.end \in Int
        BY <1>3 DEF Inside, StripOf, Placements
    <2>2. Horizon.start \in Int /\ Horizon.end \in Int
        BY HorizonIsPeriod DEF PeriodsOver
    <2> QED
        BY <1>3, <2>1, <2>2, ExtentFacts DEF Inside
<1>9. Span(p) = problem.dur[p.task] /\ \E w \in problem.windows[p.task] : Inside(p, w)
    BY <1>3 DEF StripOf, Span, Inside
<1>10. ASSUME NEW d \in problem.deps, d[2] = p.task
       PROVE  \E r \in old : r.task = d[1] /\ r.end <= p.start
    <2>1. d[1] \in Tasks /\ <<d[1], n.task>> \in problem.deps
        BY <1>3, <1>10, WindowFacts DEF StripOf
    <2>2. PICK r \in b.placed : r.task = d[1] /\ r.end <= n.start
        BY <1>4, <2>1, PredecessorsAreAll DEF DependenciesMet
    <2>3. StripOf(r) \in old
        BY DEF Strip, StripOf
    <2> QED
        BY <2>2, <2>3 DEF StripOf
<1> HIDE DEF old, p
<1>11. Plan!Legal(old, p)
    BY <1>6, <1>8, <1>9, <1>10
    DEF Plan!Legal, Plan!Overlaps, Plan!Inside, Plan!Span, Overlaps, Inside, Span
<1>12. (old \cup {p}) \ {p} = old
    BY <1>7
<1> QED
    BY <1>5, <1>11, <1>12 DEF p, old, n

(* A beam of the next state is in play already, is one that is after its   *)
(* refresh, or is a child of such a beam.                                  *)
LEMMA ExpandReaches ==
    ASSUME Safe, Expand, NEW x \in AllBeams'
    PROVE  \/ x \in AllBeams
           \/ \E y \in AllBeams : x = Refreshed(y)
           \/ \E y \in AllBeams : \E a \in Actions(Refreshed(y)) :
                 Allowed(Refreshed(y), a) /\ x = Child(Refreshed(y), a)
<1> USE DEF Expand
<1> DEFINE y == Head(live)
           b == Refreshed(y)
           chosen == Chosen(Viable(b, Actions(b)))
<1>1. Inputs /\ live \in Seq(Beams) /\ live # <<>> /\ next \in Seq(Beams)
    BY DEF Safe, TypeOK, Inputs
<1>2. y \in AllBeams
    BY <1>1, TailFacts DEF AllBeams
<1>3. b.placed = y.placed /\ BeamOK(b) /\ FrontsInExtent(b) /\ b \in Beams
    <2>1. BeamOK(y)
        BY <1>2 DEF Safe
    <2> QED
        BY <1>1, <2>1, RefreshedOK, RefreshedFields DEF BeamOK, FrontsInExtent
<1>4. Range(live') \subseteq Range(live)
    BY <1>1, TailFacts
<1>5. CASE Retire(b)
    <2>1. x \in AllBeams \/ x = b
        BY <1>4, <1>5 DEF AllBeams, Retire
    <2> QED
        BY <1>2, <1>3, <2>1
<1>6. CASE Branch(b, chosen)
    <2> DEFINE n == Cardinality(chosen)
    <2>1. PICK order \in [1 .. n -> chosen] :
              /\ \A i, j \in DOMAIN order :
                    i < j => ActionBefore(order[i], order[j])
              /\ next' = next \o [i \in DOMAIN order |-> Child(b, order[i])]
        BY <1>6 DEF Branch
    <2>2. chosen \subseteq Viable(b, Actions(b)) /\ Viable(b, Actions(b)) \in SUBSET Actions(b)
        BY DEF Chosen, Viable
    <2>3. n \in Nat
        BY <1>1, <1>3, <2>1, <2>2, ChosenBound
    <2>4. \A a \in chosen : a \in Actions(b) /\ Allowed(b, a)
        BY DEF Chosen, Viable
    <2>5. \A a \in chosen : Child(b, a) \in Beams
        BY <1>1, <1>3, <2>4, ChildFields
    <2> HIDE DEF n, chosen
    <2> DEFINE kids == [i \in 1 .. n |-> Child(b, order[i])]
    <2>6. kids \in [1 .. n -> Beams] /\ next' = next \o kids
        BY <2>1, <2>5
    <2>7. \A i \in 1 .. n : \E a \in chosen : kids[i] = Child(b, a)
        OBVIOUS
    <2> HIDE DEF kids
    <2>8. Range(next') \subseteq Range(next) \cup {kids[i] : i \in 1 .. n}
        <3>1. /\ next \o kids \in Seq(Beams)
              /\ Len(next \o kids) = Len(next) + n
              /\ Range(next \o kids) \subseteq Range(next) \cup {kids[i] : i \in 1 .. n}
            BY <1>1, <2>3, <2>6, ConcatFacts
        <3> QED
            BY <2>6, <3>1
    <2>9. terminal' = terminal
        BY <1>6 DEF Branch
    <2>10. x \in AllBeams \/ \E a \in chosen : x = Child(b, a)
        BY <1>4, <2>7, <2>8, <2>9 DEF AllBeams
    <2> HIDE DEF b, y
    <2> QED
        BY <1>2, <2>4, <2>10 DEF b
<1> QED
    BY <1>5, <1>6

(* The beam search implements the search for plans: whatever the figure of *)
(* merit, a schedule is only ever extended by a legal placement, and the   *)
(* answer is one of the schedules built.                                   *)
THEOREM ImplementsPlanSearch == Spec => SearchesPlans
<1> DEFINE plans == {Strip(b.placed) : b \in AllBeams}
           answer == {Strip(s) : s \in result}
<1>1. Init => Plan!Init
    <2> SUFFICES ASSUME Init PROVE Plan!Init
        OBVIOUS
    <2>1. AllBeams = {Seed}
        <3>1. Range(live) = {Seed} /\ Range(next) = {}
            BY DEF Init, Range
        <3> QED
            BY <3>1 DEF AllBeams, Init
    <2>2. Strip(Seed.placed) = {}
        BY DEF Strip, Seed
    <2> QED
        BY <2>1, <2>2 DEF Plan!Init, Init
<1>2. ASSUME Safe, [Next]_vars
      PROVE  Plan!Next \/ UNCHANGED Plan!vars
    <2>1. ASSUME Expand
          PROVE  Plan!Search
        <3>1. answer = {}
            BY <1>2, <2>1 DEF Safe, Expand
        <3>2. UNCHANGED <<problem, result>>
            BY <2>1 DEF Expand, inputs
        <3>3. ASSUME NEW x \in AllBeams'
              PROVE  Plan!Reached(Strip(x.placed))
            <4>1. CASE x \in AllBeams
                BY <4>1 DEF Plan!Reached
            <4>3. ASSUME NEW y \in AllBeams, x = Refreshed(y)
                  PROVE  Plan!Reached(Strip(x.placed))
                <5>1. Inputs /\ FrontsInExtent(y)
                    BY <1>2 DEF Safe, TypeOK, Inputs, BeamOK
                <5>2. x.placed = y.placed
                    BY <4>3, <5>1, RefreshedFields
                <5> QED
                    BY <5>2 DEF Plan!Reached
            <4>2. ASSUME NEW y \in AllBeams, NEW a \in Actions(Refreshed(y)),
                         Allowed(Refreshed(y), a), x = Child(Refreshed(y), a)
                  PROVE  Plan!Reached(Strip(x.placed))
                <5>1. Inputs
                    BY <1>2 DEF Safe, TypeOK, Inputs
                <5>2. BeamOK(Refreshed(y)) /\ Refreshed(y).placed = y.placed
                    BY <1>2, <5>1, RefreshedOK, RefreshedFields DEF Safe, BeamOK
                <5> DEFINE p == StripOf(Placement(a))
                <5>3. /\ p \in Strip(x.placed)
                      /\ Strip(x.placed) \ {p} = Strip(y.placed)
                      /\ Plan!Legal(Strip(x.placed) \ {p}, p)
                    BY <4>2, <5>1, <5>2, ChildIsReached
                <5> HIDE DEF p
                <5> QED
                    BY <5>3 DEF Plan!Reached
            <4> QED
                BY <1>2, <2>1, <4>1, <4>2, <4>3, ExpandReaches
        <3> QED
            BY <3>1, <3>2, <3>3 DEF Plan!Search
    <2>2. ASSUME Truncate
          PROVE  Plan!Search
        <3>1. answer = {}
            BY <1>2, <2>2 DEF Safe, Truncate
        <3>2. UNCHANGED <<problem, result>>
            BY <2>2 DEF Truncate, inputs
        <3>3. AllBeams' \subseteq AllBeams
            BY <1>2, <2>2, TruncateKeeps
        <3> QED
            BY <3>1, <3>2, <3>3 DEF Plan!Search, Plan!Reached
    <2>3. ASSUME Return
          PROVE  Plan!Answer
        <3>1. UNCHANGED <<problem, live, next, terminal>> /\ result = {}
            BY <2>3 DEF Return, inputs
        <3>2. PICK b \in terminal : result' = {b.placed}
            BY <2>3 DEF Return
        <3>3. AllBeams' = AllBeams /\ b \in AllBeams
            BY <3>1 DEF AllBeams
        <3>4. answer' = {Strip(b.placed)}
            BY <3>2
        <3> QED
            BY <3>1, <3>3, <3>4 DEF Plan!Answer
    <2>4. ASSUME UNCHANGED vars
          PROVE  UNCHANGED Plan!vars
        <3>1. UNCHANGED <<problem, result>> /\ AllBeams' = AllBeams
            BY <2>4 DEF vars, AllBeams
        <3> QED
            BY <3>1 DEF Plan!vars
    <2> QED
        BY <1>2, <2>1, <2>2, <2>3, <2>4 DEF Next, Finished, Plan!Next
<1>3. Plan!Init /\ [][Plan!Next]_Plan!vars => SearchesPlans
    BY DEF SearchesPlans, Plan!Spec
<1> QED
    BY <1>1, <1>2, <1>3, SearchIsSafe, PTL DEF Spec

-----------------------------------------------------------------------------
(* Rounds of the beam search place one task each, so that there are at most *)
(* as many as tasks with a window, and the search has a schedule to return *)
(* when they are over.                                                     *)

(* A sound beam has a placement for some of the tasks with a window, one   *)
(* for each.                                                               *)
LEMMA PlacedBound ==
    ASSUME Inputs, NEW b, BeamOK(b)
    PROVE  /\ IsFiniteSet(b.placed)
           /\ Cardinality(b.placed) \in Nat
           /\ Cardinality(Filtered) \in Nat
           /\ Cardinality(b.placed) <= Cardinality(Filtered)
<1> DEFINE f == [p \in b.placed |-> p.task]
<1>1. b.placed \subseteq Placements
    BY DEF BeamOK, FrontsInExtent, Beams
<1>2. \A p \in b.placed : p.task \in Filtered
    <2> SUFFICES ASSUME NEW p \in b.placed PROVE p.task \in Filtered
        OBVIOUS
    <2>1. p.task \in Tasks
        BY <1>1 DEF Placements
    <2>2. problem.windows[p.task] # {}
        BY DEF BeamOK
    <2> QED
        BY <2>1, <2>2 DEF Filtered
<1>3. f \in [b.placed -> Filtered] /\ IsInjective(f)
    <2>1. \A p, q \in b.placed : p # q => p.task # q.task
        BY DEF BeamOK
    <2> QED
        BY <1>2, <2>1 DEF IsInjective
<1>4. f \in Injection(b.placed, Filtered)
    BY <1>3 DEF Injection
<1>5. IsFiniteSet(Filtered)
    BY TasksAreNumbers, FS_Subset DEF Filtered
<1> HIDE DEF f
<1>6. IsFiniteSet(b.placed) /\ Cardinality(b.placed) <= Cardinality(Filtered)
    BY <1>4, <1>5, FS_Injection
<1> QED
    BY <1>5, <1>6, FS_CardinalityType

(* A child has one placement more than its parent. *)
LEMMA ChildPlacesOne ==
    ASSUME Inputs, NEW b, BeamOK(b), NEW a \in Actions(b), Allowed(b, a)
    PROVE  Cardinality(Child(b, a).placed) = Cardinality(b.placed) + 1
<1>1. FrontsInExtent(b)
    BY DEF BeamOK
<1>2. Child(b, a).placed = b.placed \cup {Placement(a)}
    BY <1>1, ChildFields
<1>3. Placement(a) \notin b.placed
    BY DEF Allowed, Valid, TasksOf
<1>4. IsFiniteSet(b.placed)
    BY PlacedBound
<1> QED
    BY <1>2, <1>3, <1>4, FS_AddElement

(* How an expansion changes the round: the beam is terminal, or its        *)
(* children, one at least, join the next round.                            *)
LEMMA ExpandRound ==
    ASSUME Safe, Expand
    PROVE  \E y \in Range(live) :
              /\ BeamOK(y)
              /\ Range(live') \subseteq Range(live)
              /\ \/ /\ next' = next
                    /\ \E b : terminal' = terminal \cup {b} /\ b.placed = y.placed
                 \/ /\ terminal' = terminal /\ next' # <<>>
                    /\ \A x \in Range(next') : x \in Range(next) \/
                          /\ BeamOK(x)
                          /\ Cardinality(x.placed) = Cardinality(y.placed) + 1
<1> USE DEF Expand
<1> DEFINE y == Head(live)
           b == Refreshed(y)
           chosen == Chosen(Viable(b, Actions(b)))
<1>1. Inputs /\ live \in Seq(Beams) /\ live # <<>> /\ next \in Seq(Beams)
    BY DEF Safe, TypeOK, Inputs
<1>2. y \in Range(live) /\ y \in AllBeams /\ Range(live') \subseteq Range(live)
    BY <1>1, TailFacts DEF AllBeams
<1>3. BeamOK(y) /\ b.placed = y.placed /\ BeamOK(b) /\ FrontsInExtent(b)
    <2>1. BeamOK(y)
        BY <1>2 DEF Safe
    <2> QED
        BY <1>1, <2>1, RefreshedOK, RefreshedFields DEF BeamOK
<1>4. CASE chosen = {} /\ Retire(b)
    <2>1. next' = next /\ terminal' = terminal \cup {b}
        BY <1>4 DEF Retire
    <2> HIDE DEF b, chosen, y
    <2> QED
        BY <1>2, <1>3, <2>1
<1>5. CASE chosen # {} /\ Branch(b, chosen)
    <2> DEFINE n == Cardinality(chosen)
    <2>1. PICK order \in [1 .. n -> chosen] :
              /\ \A i, j \in DOMAIN order :
                    i < j => ActionBefore(order[i], order[j])
              /\ next' = next \o [i \in DOMAIN order |-> Child(b, order[i])]
        BY <1>5 DEF Branch
    <2>2. chosen \subseteq Viable(b, Actions(b)) /\ Viable(b, Actions(b)) \in SUBSET Actions(b)
        BY DEF Chosen, Viable
    <2>3. n \in Nat /\ n # 0
        <3>1. n \in Nat
            BY <1>1, <1>3, <2>1, <2>2, ChosenBound
        <3>2. IsFiniteSet(chosen)
            <4>1. IsFiniteSet(Actions(b))
                BY <1>1, <1>3, ActionsFinite
            <4>2. chosen \in SUBSET Actions(b)
                BY <2>2
            <4> HIDE DEF chosen
            <4> QED
                BY <4>1, <4>2, FS_Subset
        <3> HIDE DEF chosen
        <3> QED
            BY <1>5, <3>1, <3>2, FS_EmptySet
    <2>4. \A a \in chosen : a \in Actions(b) /\ Allowed(b, a)
        BY DEF Chosen, Viable
    <2>5. \A a \in chosen :
              /\ BeamOK(Child(b, a)) /\ Child(b, a) \in Beams
              /\ Cardinality(Child(b, a).placed) = Cardinality(y.placed) + 1
        BY <1>1, <1>3, <2>4, ChildOK, ChildFields, ChildPlacesOne
    <2>6. terminal' = terminal
        BY <1>5 DEF Branch
    <2> HIDE DEF n, chosen, b, y, Expand
    <2> DEFINE kids == [i \in 1 .. n |-> Child(b, order[i])]
    <2>7. kids \in [1 .. n -> Beams] /\ next' = next \o kids
        BY <2>1, <2>5
    <2>8. \A i \in 1 .. n : \E a \in chosen : kids[i] = Child(b, a)
        OBVIOUS
    <2> HIDE DEF kids
    <2>9. /\ next \o kids \in Seq(Beams)
          /\ Len(next \o kids) = Len(next) + n
          /\ Range(next \o kids) \subseteq Range(next) \cup {kids[i] : i \in 1 .. n}
        BY <1>1, <2>3, <2>7, ConcatFacts
    <2>10. next' # <<>>
        <3>1. Len(next') # 0
            BY <1>1, <2>3, <2>7, <2>9
        <3> QED
            BY <3>1
    <2>11. ASSUME NEW x \in Range(next'), x \notin Range(next)
           PROVE  /\ BeamOK(x)
                  /\ Cardinality(x.placed) = Cardinality(y.placed) + 1
        <3>1. PICK i \in 1 .. n : x = kids[i]
            BY <2>7, <2>9, <2>11
        <3> QED
            BY <2>5, <2>8, <3>1
    <2> QED
        BY <1>2, <1>3, <2>6, <2>10, <2>11
<1> QED
    BY <1>4, <1>5

(* What holds of the round after some number of rounds. *)
Round(rounds) ==
    /\ \A b \in Range(live) : Cardinality(b.placed) = rounds
    /\ \A b \in Range(next) : Cardinality(b.placed) = rounds + 1
    /\ \A b \in terminal : Cardinality(b.placed) <= rounds
    /\ next # <<>> => rounds < Cardinality(Filtered)

(* Nothing is placed in the first round. *)
LEMMA RoundInit ==
    ASSUME Init
    PROVE  RoundsPlaceOneTask
<1>1. Safe
    BY SafeInit
<1>2. /\ live = <<Seed>> /\ next = <<>> /\ terminal = {}
      /\ Inputs
    BY DEF Init, Inputs
<1>3. Range(live) = {Seed} /\ Range(next) = {}
    BY <1>2 DEF Range
<1>4. Seed.placed = {} /\ BeamOK(Seed)
    BY <1>2, SeedOK DEF Seed
<1>5. Cardinality(Seed.placed) = 0
    BY <1>4, FS_EmptySet
<1>6. 0 \in 0 .. Cardinality(Filtered)
    BY <1>2, <1>4, PlacedBound
<1>7. live # <<>>
    BY <1>2
<1> QED
    BY <1>2, <1>3, <1>5, <1>6, <1>7 DEF RoundsPlaceOneTask

(* An expansion keeps the count of the round. *)
LEMMA RoundExpand ==
    ASSUME Safe, RoundsPlaceOneTask, Expand
    PROVE  RoundsPlaceOneTask'
<1>1. PICK rounds \in 0 .. Cardinality(Filtered) : Round(rounds)
    BY DEF RoundsPlaceOneTask, Round
<1>2. Filtered' = Filtered /\ live # <<>>
    BY DEF Filtered, Expand, inputs
<1>3. PICK y \in Range(live) :
              /\ BeamOK(y)
              /\ Range(live') \subseteq Range(live)
              /\ \/ /\ next' = next
                    /\ \E b : terminal' = terminal \cup {b} /\ b.placed = y.placed
                 \/ /\ terminal' = terminal /\ next' # <<>>
                    /\ \A x \in Range(next') : x \in Range(next) \/
                          /\ BeamOK(x)
                          /\ Cardinality(x.placed) = Cardinality(y.placed) + 1
    BY ExpandRound
<1>4. Inputs
    BY DEF Safe, TypeOK, Inputs
<1>5. Cardinality(Filtered) \in Nat /\ Cardinality(y.placed) = rounds
    BY <1>1, <1>3, <1>4, PlacedBound DEF Round
<1>6. ASSUME next' = next, NEW b, terminal' = terminal \cup {b}, b.placed = y.placed
      PROVE  RoundsPlaceOneTask'
    <2>1. Round(rounds)'
        BY <1>1, <1>2, <1>3, <1>5, <1>6 DEF Round
    <2> QED
        BY <1>1, <1>2, <1>6, <2>1 DEF RoundsPlaceOneTask, Round
<1>7. ASSUME terminal' = terminal, next' # <<>>,
             \A x \in Range(next') : x \in Range(next) \/
                 /\ BeamOK(x)
                 /\ Cardinality(x.placed) = Cardinality(y.placed) + 1
      PROVE  RoundsPlaceOneTask'
    <2>1. rounds < Cardinality(Filtered)
        <3>1. CASE next # <<>>
            BY <1>1, <3>1 DEF Round
        <3>2. CASE next = <<>>
            <4>1. Range(next) = {}
                BY <3>2 DEF Range
            <4>2. PICK x : x \in Range(next')
                <5>1. next' \in Seq(Beams)
                    BY SafeExpand DEF Safe, TypeOK
                <5>2. Len(next') \in Nat /\ Len(next') # 0 /\ 1 \in DOMAIN next'
                    BY <1>7, <5>1
                <5> QED
                    BY <5>2 DEF Range
            <4>3. BeamOK(x) /\ Cardinality(x.placed) = rounds + 1
                BY <1>5, <1>7, <4>1, <4>2
            <4> QED
                BY <1>1, <1>4, <1>5, <4>3, PlacedBound
        <3> QED
            BY <3>1, <3>2
    <2>2. Round(rounds)'
        BY <1>1, <1>2, <1>3, <1>5, <1>7, <2>1 DEF Round
    <2> QED
        BY <1>1, <1>2, <1>7, <2>2 DEF RoundsPlaceOneTask, Round
<1>8. CASE /\ next' = next
           /\ \E b : terminal' = terminal \cup {b} /\ b.placed = y.placed
    <2>1. PICK b : terminal' = terminal \cup {b} /\ b.placed = y.placed
        BY <1>8
    <2> QED
        BY <1>6, <1>8, <2>1
<1>9. CASE /\ terminal' = terminal /\ next' # <<>>
           /\ \A x \in Range(next') : x \in Range(next) \/
                 /\ BeamOK(x)
                 /\ Cardinality(x.placed) = Cardinality(y.placed) + 1
    BY <1>7, <1>9
<1> QED
    BY <1>3, <1>8, <1>9

(* Truncation begins the next round. *)
LEMMA RoundTruncate ==
    ASSUME Safe, RoundsPlaceOneTask, Truncate
    PROVE  RoundsPlaceOneTask'
<1>1. PICK rounds \in 0 .. Cardinality(Filtered) : Round(rounds)
    BY DEF RoundsPlaceOneTask, Round
<1>2. /\ next # <<>> /\ next' = <<>> /\ terminal' = terminal
      /\ Filtered' = Filtered
      /\ next \in Seq(Beams)
    BY DEF Filtered, Truncate, inputs, Safe, TypeOK
<1>3. PICK best \in [1 .. Kept -> 1 .. Len(next)] :
          live' = [i \in 1 .. Kept |-> next[best[i]]]
    BY DEF Truncate
<1>4. Kept \in Nat /\ Kept # 0
    BY <1>2, BeamParameters DEF Kept, Earlier
<1>5. Range(live') \subseteq Range(next) /\ Range(next') = {}
    BY <1>2, <1>3 DEF Range
<1>6. live' # <<>>
    <2>1. 1 \in DOMAIN live'
        BY <1>3, <1>4
    <2> QED
        BY <2>1
<1>7. rounds + 1 \in 0 .. Cardinality(Filtered)
    <2>1. Cardinality(Filtered) \in Nat
        BY TasksAreNumbers, FS_Subset, FS_CardinalityType DEF Filtered
    <2> QED
        BY <1>1, <1>2, <2>1 DEF Round
<1>8. \A b \in terminal : Cardinality(b.placed) \in Nat
    BY PlacedBound DEF Safe, AllBeams, TypeOK, Inputs
<1>9. Round(rounds + 1)'
    BY <1>1, <1>2, <1>5, <1>8 DEF Round
<1> QED
    BY <1>2, <1>6, <1>7, <1>9 DEF RoundsPlaceOneTask, Round

(* However the figure of merit ranks beams, a round places one task in     *)
(* every beam it keeps, so there are at most as many rounds as tasks with  *)
(* a window; and when no beam is left, one is terminal: the expect of      *)
(* engine.rs:223 never fails.                                              *)
THEOREM RoundsEnd == Spec => []RoundsPlaceOneTask
<1>1. Init => RoundsPlaceOneTask
    BY RoundInit
<1>2. ASSUME UNCHANGED <<problem, live, next, terminal>>, RoundsPlaceOneTask
      PROVE  RoundsPlaceOneTask'
    <2>1. Filtered' = Filtered
        BY <1>2 DEF Filtered
    <2> QED
        BY <1>2, <2>1 DEF RoundsPlaceOneTask
<1>3. Safe /\ RoundsPlaceOneTask /\ [Next]_vars => RoundsPlaceOneTask'
    <2> SUFFICES ASSUME Safe, RoundsPlaceOneTask, [Next]_vars PROVE RoundsPlaceOneTask'
        OBVIOUS
    <2>1. CASE Expand
        BY <2>1, RoundExpand
    <2>2. CASE Truncate
        BY <2>2, RoundTruncate
    <2>3. CASE Return
        BY <1>2, <2>3 DEF Return, inputs
    <2>4. CASE UNCHANGED vars
        BY <1>2, <2>4 DEF vars
    <2> QED
        BY <2>1, <2>2, <2>3, <2>4 DEF Next, Finished
<1> QED
    BY <1>1, <1>3, SearchIsSafe, PTL DEF Spec

-----------------------------------------------------------------------------
(* Cursors that share a frontier *)

(* Cursor d is the other end of the region of the Forward cursor c. *)
Mutual(c, d) == layout[d].dir = Backward /\ layout[d].lo.follows = c

Ahead(c, d) ==
    /\ layout[c].dir = Forward /\ layout[c].hi.follows = d
    /\ layout[d].dir = Forward \/ Mutual(c, d)

GapOf(c, d) ==
    IF Mutual(c, d) THEN Earlier(layout[c].gap, layout[d].gap) ELSE layout[c].gap

Moved(b, c, d) == \E p \in b.placed : p.cursor = c \/ (Mutual(c, d) /\ p.cursor = d)

(* The claim of FrontiersNeverCross about one beam. *)
Apart(b) ==
    \A c, d \in Cursors :
        Ahead(c, d) =>
            Position(b, c) + (IF Moved(b, c, d) THEN GapOf(c, d) ELSE 0) <= Position(b, d)

LEMMA ApartIsTheClaim == FrontiersNeverCross <=> \A b \in AllBeams : Apart(b)
<1> QED
    BY DEF FrontiersNeverCross, Apart, Ahead, Moved, GapOf, Mutual

(* Before anything is placed, every cursor stands at an edge of its extent. *)
LEMMA SeedApart ==
    ASSUME Inputs
    PROVE  Apart(Seed)
<1> SUFFICES ASSUME NEW c \in Cursors, NEW d \in Cursors, Ahead(c, d)
             PROVE  Position(Seed, c) + (IF Moved(Seed, c, d) THEN GapOf(c, d) ELSE 0)
                        <= Position(Seed, d)
    BY DEF Apart
<1>1. FrontsInExtent(Seed)
    BY SeedOK DEF BeamOK
<1>2. ~ Moved(Seed, c, d)
    BY DEF Moved, Seed
<1>3. layout[c].hi.follows # NoCursor /\ layout[c].dir = Forward
    BY NoCursorIsNoCursor DEF Ahead
<1>4. Extent(c).start = Horizon.start
    BY <1>3, FollowerExtent
<1>5. Position(Seed, c) = Extent(c).start
    BY <1>1, <1>3, PositionFacts DEF Seed
<1>6. /\ Extent(d).start <= Position(Seed, d) /\ Horizon.start <= Extent(d).start
      /\ Position(Seed, d) \in Int /\ Extent(d).start \in Int /\ Extent(c).start \in Int
    BY <1>1, PositionFacts, ExtentFacts
<1> QED
    BY <1>2, <1>4, <1>5, <1>6

(* A refresh moves no cursor. *)
LEMMA RefreshedApart ==
    ASSUME Inputs, NEW b, FrontsInExtent(b), Apart(b)
    PROVE  Apart(Refreshed(b))
<1>1. Refreshed(b).placed = b.placed /\ Refreshed(b).front = b.front
    BY RefreshedFields
<1>2. /\ \A c : Position(Refreshed(b), c) = Position(b, c)
      /\ \A c, d : Moved(Refreshed(b), c, d) = Moved(b, c, d)
    BY <1>1 DEF Position, Moved
<1> QED
    BY <1>2 DEF Apart

(* Where the cursors of a child stand. *)
LEMMA ChildPositions ==
    ASSUME Inputs, NEW b, BeamOK(b), NEW a \in Actions(b), Allowed(b, a)
    PROVE  /\ FrontsInExtent(Child(b, a))
           /\ a.cursor \in Cursors
           /\ \A c \in Cursors \ {a.cursor} : Position(Child(b, a), c) = Position(b, c)
           /\ layout[a.cursor].dir = Forward =>
                 /\ Position(Child(b, a), a.cursor) = Placement(a).end
                 /\ Position(b, a.cursor) <= Position(Child(b, a), a.cursor)
           /\ layout[a.cursor].dir = Backward =>
                 /\ Position(Child(b, a), a.cursor) = Placement(a).start
                 /\ Position(Child(b, a), a.cursor) <= Position(b, a.cursor)
<1> DEFINE k == a.cursor
           b2 == Child(b, a)
<1>1. FrontsInExtent(b)
    BY DEF BeamOK
<1>2. FrontsInExtent(b2)
    BY ChildOK DEF BeamOK
<1>3. /\ k \in Cursors /\ b2.front[k] = EndOf(a)
      /\ \A c \in Cursors \ {k} : b2.front[c] = b.front[c]
    BY <1>1, ChildFields, ActionFacts
<1>4. \A c \in Cursors \ {k} : Position(b2, c) = Position(b, c)
    BY <1>3 DEF Position
<1>5. /\ EndOf(a) \in Int /\ b.front[k] < EndOf(a) /\ b.front[k] \in Int
      /\ layout[k].dir = Forward => Placement(a).end = EndOf(a)
      /\ layout[k].dir = Backward =>
            Placement(a).start = Extent(k).start + Extent(k).end - EndOf(a)
      /\ Extent(k).start \in Int /\ Extent(k).end \in Int
    BY <1>1, <1>3, PlacementFacts, ExtentFacts, PositionFacts
<1>6. /\ layout[k].dir = Forward =>
            Position(b2, k) = b2.front[k] /\ Position(b, k) = b.front[k]
      /\ layout[k].dir = Backward =>
            /\ Position(b2, k) = Extent(k).start + Extent(k).end - b2.front[k]
            /\ Position(b, k) = Extent(k).start + Extent(k).end - b.front[k]
    BY <1>1, <1>2, <1>3, PositionFacts
<1> HIDE DEF b2, k
<1> QED
    BY <1>2, <1>3, <1>4, <1>5, <1>6 DEF b2, k

(* A placement is made in the region that the other cursors leave. *)
LEMMA ChildApart ==
    ASSUME Inputs, NEW b, BeamOK(b), Apart(b), NEW a \in Actions(b), Allowed(b, a)
    PROVE  Apart(Child(b, a))
<1> DEFINE k == a.cursor
           b2 == Child(b, a)
           n == Placement(a)
<1> SUFFICES ASSUME NEW c \in Cursors, NEW d \in Cursors, Ahead(c, d)
             PROVE  Position(b2, c) + (IF Moved(b2, c, d) THEN GapOf(c, d) ELSE 0)
                        <= Position(b2, d)
    BY DEF Apart
<1>1. FrontsInExtent(b) /\ FrontsInExtent(b2) /\ k \in Cursors
    BY ChildPositions DEF BeamOK
<1>2. /\ Position(b, c) \in Int /\ Position(b, d) \in Int
      /\ Position(b2, c) \in Int /\ Position(b2, d) \in Int
    BY <1>1, PositionFacts
<1>3. /\ layout[c].gap \in Nat /\ layout[d].gap \in Nat
      /\ GapOf(c, d) \in Nat /\ GapOf(c, d) <= layout[c].gap
      /\ Mutual(c, d) => GapOf(c, d) <= layout[d].gap
    BY ConfigFacts DEF GapOf, Earlier
<1>4. /\ layout[c].dir = Forward /\ layout[c].hi.follows = d /\ d # NoCursor /\ c # NoCursor
      /\ layout[d].dir = Forward \/ Mutual(c, d)
    BY NoCursorIsNoCursor DEF Ahead
<1>5. c # d
    BY <1>4, LayoutsAreNormalised DEF Inputs, Normalised
<1>6. b2.placed = b.placed \cup {n} /\ n.cursor = k /\ n.start \in Int /\ n.end \in Int
    BY <1>1, ChildFields, PlacementFacts DEF Placements
<1>7. Inside(n, Active(b, k))
    BY <1>6 DEF Allowed, Valid
<1>8. Position(b, c) + (IF Moved(b, c, d) THEN GapOf(c, d) ELSE 0) <= Position(b, d)
    BY DEF Apart
<1>9. Forward # Backward
    BY DEF Forward, Backward
<1>10. CASE k = c
    <2>1. Active(b, c).end = Position(b, d) - layout[c].gap
        BY <1>4 DEF Active, HighSide
    <2>2. n.end <= Position(b, d) - layout[c].gap
        BY <1>7, <1>10, <2>1 DEF Inside
    <2>3. Position(b2, c) = n.end /\ Position(b2, d) = Position(b, d)
        BY <1>4, <1>5, <1>10, ChildPositions
    <2> HIDE DEF b2, n, k
    <2> QED
        BY <1>2, <1>3, <2>2, <2>3
<1>11. CASE k = d /\ Mutual(c, d)
    <2>1. layout[d].dir = Backward /\ layout[d].lo.follows = c
        BY <1>11 DEF Mutual
    <2>2. Active(b, d).start = Position(b, c) + layout[d].gap
        BY <1>4, <1>9, <2>1 DEF Active, LowSide
    <2>3. Position(b, c) + layout[d].gap <= n.start
        BY <1>7, <1>11, <2>2 DEF Inside
    <2>4. Position(b2, d) = n.start /\ Position(b2, c) = Position(b, c)
        BY <1>5, <1>11, <2>1, ChildPositions
    <2> HIDE DEF b2, n, k
    <2> QED
        BY <1>2, <1>3, <1>11, <2>3, <2>4
<1>12. CASE k = d /\ ~ Mutual(c, d)
    <2>1. Moved(b2, c, d) <=> Moved(b, c, d)
        BY <1>5, <1>6, <1>12 DEF Moved
    <2>2. Position(b2, c) = Position(b, c) /\ Position(b, d) <= Position(b2, d)
        BY <1>4, <1>5, <1>12, ChildPositions
    <2> HIDE DEF b2, n, k
    <2> QED
        BY <1>2, <1>3, <1>8, <2>1, <2>2
<1>13. CASE k # c /\ k # d
    <2>1. Moved(b2, c, d) <=> Moved(b, c, d)
        BY <1>6, <1>13 DEF Moved
    <2>2. Position(b2, c) = Position(b, c) /\ Position(b2, d) = Position(b, d)
        BY <1>13, ChildPositions
    <2> QED
        BY <1>8, <2>1, <2>2
<1> QED
    BY <1>10, <1>11, <1>12, <1>13

(* No step changes the layout, so beams stay apart. *)
LEMMA ApartStable ==
    ASSUME UNCHANGED inputs, NEW b, Apart(b)
    PROVE  Apart(b)'
<1>1. layout' = layout
    BY DEF inputs
<1>2. \A c : Position(b, c)' = Position(b, c)
    BY <1>1 DEF Position, FrameTime, Mirror, Extent, ExtentIn
<1>3. \A c, d : /\ Ahead(c, d)' <=> Ahead(c, d)
                /\ Moved(b, c, d)' <=> Moved(b, c, d)
                /\ GapOf(c, d)' = GapOf(c, d)
    BY <1>1 DEF Ahead, Moved, GapOf, Mutual
<1> QED
    BY <1>2, <1>3 DEF Apart

(* A Forward cursor never passes the cursor that its region ends at, and   *)
(* keeps its gap once one of them has moved, for any number of cursors     *)
(* (dynamic_est_lst_meet, dynamic_start_mid_forward).                      *)
THEOREM FrontiersStayApart == Spec => []FrontiersNeverCross
<1> DEFINE AllApart == \A b \in AllBeams : Apart(b)
<1>1. Init => AllApart
    <2> SUFFICES ASSUME Init PROVE \A b \in AllBeams : b = Seed
        <3>1. Init => Inputs
            BY DEF Init, Inputs
        <3> QED
            BY <3>1, SeedApart
    <2>1. Range(live) = {Seed} /\ Range(next) = {} /\ terminal = {}
        BY DEF Init, Range
    <2> QED
        BY <2>1 DEF AllBeams
<1>2. Safe /\ AllApart /\ [Next]_vars => AllApart'
    <2> SUFFICES ASSUME Safe, AllApart, [Next]_vars, NEW x \in AllBeams'
                 PROVE  Apart(x)'
        OBVIOUS
    <2>1. Inputs /\ \A y \in AllBeams : BeamOK(y)
        BY DEF Safe, TypeOK, Inputs
    <2>2. UNCHANGED inputs
        BY DEF Next, Expand, Truncate, Return, Finished, vars, inputs
    <2>3. x \in AllBeams => Apart(x)'
        BY <2>2, ApartStable
    <2>4. CASE Expand
        <3>1. ASSUME NEW y \in AllBeams
              PROVE  BeamOK(Refreshed(y)) /\ Apart(Refreshed(y))
            BY <2>1, RefreshedOK, RefreshedApart DEF BeamOK
        <3>2. ASSUME NEW y \in AllBeams, NEW a \in Actions(Refreshed(y)),
                     Allowed(Refreshed(y), a)
              PROVE  Apart(Child(Refreshed(y), a))
            BY <2>1, <3>1, <3>2, ChildApart
        <3>3. Apart(x)
            BY <2>4, <3>1, <3>2, ExpandReaches
        <3> QED
            BY <2>2, <3>3, ApartStable
    <2>5. CASE Truncate
        BY <2>3, <2>5, TruncateKeeps
    <2>6. CASE Return \/ UNCHANGED vars
        <3>1. AllBeams' = AllBeams
            BY <2>6 DEF AllBeams, Return, vars
        <3> QED
            BY <2>3, <3>1
    <2> QED
        BY <2>4, <2>5, <2>6 DEF Next, Finished
<1>3. AllApart => FrontiersNeverCross
    BY ApartIsTheClaim
<1> QED
    BY <1>1, <1>2, <1>3, SearchIsSafe, PTL DEF Spec

-----------------------------------------------------------------------------
(* The region of a cursor, in its frame *)

(* Where the region of cursor c begins, were the cursor not in it yet, and *)
(* where it ends: both depend on the other cursors only.                   *)
NearEdge(b, c) ==
    IF layout[c].dir = Forward THEN LowSide(b, c) ELSE Mirror(c, HighSide(b, c))
FarEdge(b, c) ==
    IF layout[c].dir = Forward THEN HighSide(b, c) ELSE Mirror(c, LowSide(b, c))

LEMMA EdgeFacts ==
    ASSUME Inputs, NEW b, FrontsInExtent(b), NEW c \in Cursors
    PROVE  /\ NearEdge(b, c) \in Int /\ FarEdge(b, c) \in Int
           /\ FrameActive(b, c).start = Later(NearEdge(b, c), b.front[c])
           /\ FrameActive(b, c).end = FarEdge(b, c)
           /\ HasActive(b, c) <=> FrameActive(b, c).start < FrameActive(b, c).end
<1>1. /\ LowSide(b, c) \in Int /\ HighSide(b, c) \in Int
      /\ Position(b, c) \in Int /\ b.front[c] \in Int
      /\ Extent(c).start \in Int /\ Extent(c).end \in Int
    BY SideFacts, PositionFacts, ExtentFacts
<1>2. Active(b, c) \in [start : Int, end : Int]
    BY ActiveFacts
<1>3. FrameActive(b, c) = FramePeriod(c, Active(b, c))
    BY DEF FrameActive
<1>4. Forward # Backward
    BY DEF Forward, Backward
<1>5. CASE layout[c].dir = Forward
    <2>1. FrameActive(b, c) = Active(b, c) /\ Position(b, c) = b.front[c]
        BY <1>2, <1>3, <1>5, FramePeriodFacts, PositionFacts
    <2>2. NearEdge(b, c) = LowSide(b, c) /\ FarEdge(b, c) = HighSide(b, c)
        BY <1>5 DEF NearEdge, FarEdge
    <2> QED
        BY <1>1, <1>5, <2>1, <2>2 DEF Active, HasActive
<1>6. CASE layout[c].dir = Backward
    <2> DEFINE ax == Extent(c).start + Extent(c).end
    <2>1. /\ FrameActive(b, c).start = ax - Active(b, c).end
          /\ FrameActive(b, c).end = ax - Active(b, c).start
        BY <1>1, <1>2, <1>3, <1>6, FramePeriodFacts
    <2>2. /\ NearEdge(b, c) = ax - HighSide(b, c)
          /\ FarEdge(b, c) = ax - LowSide(b, c)
          /\ Position(b, c) = ax - b.front[c]
        <3>1. NearEdge(b, c) = Mirror(c, HighSide(b, c)) /\ FarEdge(b, c) = Mirror(c, LowSide(b, c))
            BY <1>4, <1>6 DEF NearEdge, FarEdge
        <3>2. Position(b, c) = ax - b.front[c]
            BY <1>1, <1>6, PositionFacts
        <3> QED
            BY <1>1, <3>1, <3>2 DEF Mirror
    <2>3. /\ Active(b, c).start = LowSide(b, c)
          /\ Active(b, c).end = Earlier(HighSide(b, c), Position(b, c))
        BY <1>4, <1>6 DEF Active
    <2>4. ax \in Int
        BY <1>1
    <2> HIDE DEF ax
    <2>5. /\ NearEdge(b, c) \in Int /\ FarEdge(b, c) \in Int
          /\ FrameActive(b, c).start = Later(NearEdge(b, c), b.front[c])
          /\ FrameActive(b, c).end = FarEdge(b, c)
        <3> DEFINE h == HighSide(b, c)
                   l == LowSide(b, c)
                   f == b.front[c]
        <3>1. /\ FrameActive(b, c).start = ax - (IF h <= ax - f THEN h ELSE ax - f)
              /\ FrameActive(b, c).end = ax - l
              /\ NearEdge(b, c) = ax - h /\ FarEdge(b, c) = ax - l
              /\ h \in Int /\ l \in Int /\ f \in Int
            BY <1>1, <2>1, <2>2, <2>3 DEF Earlier
        <3>2. Later(NearEdge(b, c), b.front[c]) = IF ax - h >= f THEN ax - h ELSE f
            BY <3>1 DEF Later
        <3> HIDE DEF h, l, f
        <3> QED
            BY <2>4, <3>1, <3>2 DEF f
    <2>6. HasActive(b, c) <=> FrameActive(b, c).start < FrameActive(b, c).end
        BY <1>2, <2>1, <2>4 DEF HasActive
    <2> QED
        BY <2>5, <2>6
<1> QED
    BY <1>5, <1>6, ConfigFacts

(* A cursor's own steps leave the edges of its region where they are. *)
LEMMA EdgesAreOthers ==
    ASSUME Inputs, NEW b, NEW b2, NEW c \in Cursors,
           \A d \in Cursors \ {c} : b2.front[d] = b.front[d]
    PROVE  NearEdge(b2, c) = NearEdge(b, c) /\ FarEdge(b2, c) = FarEdge(b, c)
<1>1. \A d \in Cursors \ {c} : Position(b2, d) = Position(b, d)
    BY DEF Position
<1>2. layout[c].lo.follows # c /\ layout[c].hi.follows # c
    BY LayoutsAreNormalised DEF Inputs, Normalised
<1>3. LowSide(b2, c) = LowSide(b, c) /\ HighSide(b2, c) = HighSide(b, c)
    BY <1>1, <1>2, ConfigFacts DEF LowSide, HighSide
<1> QED
    BY <1>3 DEF NearEdge, FarEdge

(* When near sides advance, no region opens behind its cursor. *)
LEMMA RegionAdvances ==
    ASSUME Inputs, NearSidesAdvance, NEW b, FrontsInExtent(b),
           NEW b2, FrontsInExtent(b2), \A d \in Cursors : b.front[d] <= b2.front[d],
           NEW c \in Cursors
    PROVE  FrameActive(b, c).start <= FrameActive(b2, c).start
<1>1. /\ b.front[c] \in Int /\ b2.front[c] \in Int /\ b.front[c] <= b2.front[c]
      /\ NearEdge(b, c) \in Int /\ NearEdge(b2, c) \in Int
      /\ FrameActive(b, c).start = Later(NearEdge(b, c), b.front[c])
      /\ FrameActive(b2, c).start = Later(NearEdge(b2, c), b2.front[c])
    BY EdgeFacts, PositionFacts
<1>2. Forward # Backward
    BY DEF Forward, Backward
<1>3. NearEdge(b, c) <= NearEdge(b2, c)
    <2>1. CASE layout[c].dir = Forward
        <3>1. NearEdge(b, c) = LowSide(b, c) /\ NearEdge(b2, c) = LowSide(b2, c)
            BY <2>1 DEF NearEdge
        <3>2. CASE layout[c].lo.follows = NoCursor
            <4>1. LowSide(b, c) = LowSide(b2, c)
                BY <3>2 DEF LowSide
            <4> QED
                BY <1>1, <3>1, <4>1
        <3>3. CASE layout[c].lo.follows # NoCursor
            <4> DEFINE d == layout[c].lo.follows
            <4>1. d \in Cursors /\ layout[d].dir = Forward /\ layout[c].gap \in Nat
                BY <2>1, <3>3, ConfigFacts DEF NearSidesAdvance
            <4>2. /\ LowSide(b, c) = Position(b, d) + layout[c].gap
                  /\ LowSide(b2, c) = Position(b2, d) + layout[c].gap
                BY <3>3 DEF LowSide
            <4> HIDE DEF d
            <4>3. /\ Position(b, d) = b.front[d] /\ Position(b2, d) = b2.front[d]
                  /\ b.front[d] <= b2.front[d] /\ b.front[d] \in Int /\ b2.front[d] \in Int
                BY <4>1, PositionFacts
            <4> QED
                BY <3>1, <4>1, <4>2, <4>3
        <3> QED
            BY <3>2, <3>3
    <2>2. CASE layout[c].dir = Backward
        <3> DEFINE ax == Extent(c).start + Extent(c).end
        <3>0. /\ Extent(c).start \in Int /\ Extent(c).end \in Int /\ ax \in Int
              /\ HighSide(b, c) \in Int /\ HighSide(b2, c) \in Int
            BY ExtentFacts, SideFacts
        <3>1. NearEdge(b, c) = ax - HighSide(b, c) /\ NearEdge(b2, c) = ax - HighSide(b2, c)
            BY <1>2, <2>2, <3>0 DEF NearEdge, Mirror
        <3> HIDE DEF ax
        <3>2. CASE layout[c].hi.follows = NoCursor
            <4>1. HighSide(b, c) = HighSide(b2, c)
                BY <3>2 DEF HighSide
            <4> QED
                BY <1>1, <3>1, <4>1
        <3>3. CASE layout[c].hi.follows # NoCursor
            <4> DEFINE d == layout[c].hi.follows
            <4>1. d \in Cursors /\ layout[d].dir = Backward /\ layout[c].gap \in Nat
                BY <1>2, <2>2, <3>3, ConfigFacts DEF NearSidesAdvance
            <4>2. /\ HighSide(b, c) = Position(b, d) - layout[c].gap
                  /\ HighSide(b2, c) = Position(b2, d) - layout[c].gap
                BY <3>3 DEF HighSide
            <4> HIDE DEF d
            <4> DEFINE axd == Extent(d).start + Extent(d).end
            <4>3. /\ Position(b, d) = axd - b.front[d] /\ Position(b2, d) = axd - b2.front[d]
                  /\ b.front[d] <= b2.front[d] /\ b.front[d] \in Int /\ b2.front[d] \in Int
                  /\ axd \in Int
                <5>1. Extent(d).start \in Int /\ Extent(d).end \in Int
                    BY <4>1, ExtentFacts
                <5>2. b.front[d] \in Int /\ b2.front[d] \in Int
                    BY <4>1, PositionFacts
                <5>3. layout[d].dir = Backward =>
                          /\ Position(b, d) = axd - b.front[d]
                          /\ Position(b2, d) = axd - b2.front[d]
                    BY <4>1, <5>1, <5>2, PositionFacts
                <5> QED
                    BY <4>1, <5>1, <5>2, <5>3
            <4> HIDE DEF axd
            <4>4. HighSide(b2, c) <= HighSide(b, c)
                BY <4>1, <4>2, <4>3
            <4> QED
                BY <3>0, <3>1, <4>4
        <3> QED
            BY <3>2, <3>3
    <2> QED
        BY <2>1, <2>2, ConfigFacts
<1> QED
    BY <1>1, <1>3 DEF Later

-----------------------------------------------------------------------------
(* The queue of a cursor *)

(* The queues have discarded nothing that lies in a region or ahead of it. *)
SweptBehind(b) ==
    /\ FrontsInExtent(b)
    /\ \A c \in Cursors : b.swept[c] <= FrameActive(b, c).start

LEMMA SeedSwept ==
    ASSUME Inputs
    PROVE  SweptBehind(Seed)
<1>1. FrontsInExtent(Seed)
    BY SeedOK DEF BeamOK
<1>2. \A c \in Cursors : Seed.swept[c] = Seed.front[c]
    BY DEF Seed
<1> QED
    BY <1>1, <1>2, FrameActiveFacts DEF SweptBehind

(* Regions do not move when queues are refreshed. *)
LEMMA RefreshedRegion ==
    ASSUME Inputs, NEW b, FrontsInExtent(b)
    PROVE  /\ FrontsInExtent(Refreshed(b))
           /\ \A c : Active(Refreshed(b), c) = Active(b, c)
           /\ \A c : FrameActive(Refreshed(b), c) = FrameActive(b, c)
           /\ \A c : HasActive(Refreshed(b), c) <=> HasActive(b, c)
<1>1. Refreshed(b) \in Beams /\ Refreshed(b).front = b.front
    BY RefreshedFields
<1>2. \A c : Position(Refreshed(b), c) = Position(b, c)
    BY <1>1 DEF Position
<1>3. \A c : Active(Refreshed(b), c) = Active(b, c)
    BY <1>2 DEF Active, LowSide, HighSide
<1> QED
    BY <1>1, <1>3 DEF FrontsInExtent, FrameActive, HasActive

LEMMA RefreshedSwept ==
    ASSUME Inputs, NEW b, SweptBehind(b)
    PROVE  SweptBehind(Refreshed(b))
<1>1. FrontsInExtent(b) /\ b \in Beams
    BY DEF SweptBehind, FrontsInExtent
<1>2. ASSUME NEW c \in Cursors
      PROVE  Refreshed(b).swept[c] <= FrameActive(Refreshed(b), c).start
    <2>1. Refreshed(b).swept[c] =
              IF HasActive(b, c) THEN Later(b.swept[c], FrameActive(b, c).start)
              ELSE b.swept[c]
        BY <1>1 DEF Refreshed, Beams
    <2>2. b.swept[c] \in Int /\ FrameActive(b, c).start \in Int
        BY <1>1, FrameActiveFacts DEF Beams
    <2> QED
        BY <1>1, <2>1, <2>2, RefreshedRegion DEF SweptBehind, Later
<1> QED
    BY <1>1, <1>2, RefreshedRegion DEF SweptBehind

LEMMA ChildSwept ==
    ASSUME Inputs, NearSidesAdvance, NEW b, BeamOK(b), SweptBehind(b),
           NEW a \in Actions(b), Allowed(b, a)
    PROVE  SweptBehind(Child(b, a))
<1> DEFINE b2 == Child(b, a)
<1>1. FrontsInExtent(b) /\ FrontsInExtent(b2)
    BY ChildPositions DEF BeamOK
<1>2. b2.swept = b.swept
    BY <1>1 DEF Child, FrontsInExtent, Beams
<1>3. \A d \in Cursors : b.front[d] <= b2.front[d]
    <2>1. /\ b2.front[a.cursor] = EndOf(a)
          /\ \A c \in Cursors \ {a.cursor} : b2.front[c] = b.front[c]
        BY <1>1, ChildFields
    <2>2. b.front[a.cursor] < EndOf(a) /\ EndOf(a) \in Int /\ a.cursor \in Cursors
        BY <1>1, PlacementFacts, ActionFacts
    <2>3. \A c \in Cursors : b.front[c] \in Int
        BY <1>1, PositionFacts
    <2> HIDE DEF b2
    <2> QED
        BY <2>1, <2>2, <2>3
<1> HIDE DEF b2
<1>4. ASSUME NEW c \in Cursors
      PROVE  b2.swept[c] <= FrameActive(b2, c).start
    <2>1. b.swept[c] \in Int
        BY <1>1 DEF FrontsInExtent, Beams
    <2>2. /\ FrameActive(b, c).start \in Int /\ FrameActive(b2, c).start \in Int
          /\ FrameActive(b, c).start <= FrameActive(b2, c).start
        BY <1>1, <1>3, FrameActiveFacts, RegionAdvances
    <2>3. b.swept[c] <= FrameActive(b, c).start
        BY DEF SweptBehind
    <2> QED
        BY <1>2, <2>1, <2>2, <2>3
<1> QED
    BY <1>1, <1>4 DEF SweptBehind, b2

(* A window discarded lies behind the region: it could not be used.        *)
LEMMA UsableIsFresh ==
    ASSUME Inputs, NEW b, SweptBehind(b), NEW c \in Cursors, NEW t \in Tasks
    PROVE  Usable(b, c, t) = FreshUsable(b, c, t)
<1> DEFINE FA == FrameActive(b, c)
<1>1. /\ FA.start \in Int /\ FA.end \in Int /\ b.swept[c] <= FA.start
      /\ b.swept[c] \in Int
    BY FrameActiveFacts DEF SweptBehind, FrontsInExtent, Beams
<1>2. problem.dur[t] \in Nat \ {0}
    BY WindowFacts
<1>3. ASSUME NEW w \in problem.windows[t],
             Span(Common(FramePeriod(c, w), FA)) >= problem.dur[t]
      PROVE  FramePeriod(c, w).end > b.swept[c]
    <2> DEFINE ws == FramePeriod(c, w).start
               we == FramePeriod(c, w).end
    <2>1. ws \in Int /\ we \in Int
        <3>1. w \in [start : Int, end : Int]
            BY WindowFacts DEF PeriodsOver
        <3>2. FramePeriod(c, w) \in [start : Int, end : Int]
            BY <3>1, FramePeriodFacts
        <3> QED
            BY <3>2
    <2>2. Span(Common(FramePeriod(c, w), FA)) =
              (IF we <= FA.end THEN we ELSE FA.end)
              - (IF ws >= FA.start THEN ws ELSE FA.start)
        BY DEF Span, Common, Later, Earlier
    <2> HIDE DEF ws, we, FA
    <2>3. we > b.swept[c]
        BY <1>1, <1>2, <1>3, <2>1, <2>2
    <2> QED
        BY <2>3 DEF we
<1>4. Usable(b, c, t) =
          {Common(FramePeriod(c, w), FA) : w \in
              {v \in problem.windows[t] :
                 /\ FramePeriod(c, v).end > b.swept[c]
                 /\ Span(Common(FramePeriod(c, v), FA)) >= problem.dur[t]}}
    BY DEF Usable
<1>5. FreshUsable(b, c, t) =
          {Common(FramePeriod(c, w), FA) : w \in
              {v \in problem.windows[t] :
                 Span(Common(FramePeriod(c, v), FA)) >= problem.dur[t]}}
    BY DEF FreshUsable
<1> QED
    BY <1>3, <1>4, <1>5

(* The refreshed queue finds what a queue without memory would find. *)
LEMMA RefreshedIsFresh ==
    ASSUME Inputs, NEW b, SweptBehind(b), NEW c \in Cursors, NEW t \in Tasks
    PROVE  Usable(Refreshed(b), c, t) = FreshUsable(b, c, t)
<1>1. SweptBehind(Refreshed(b)) /\ FrontsInExtent(b)
    BY RefreshedSwept DEF SweptBehind
<1>2. FreshUsable(Refreshed(b), c, t) = FreshUsable(b, c, t)
    BY <1>1, RefreshedRegion DEF FreshUsable
<1> QED
    BY <1>1, <1>2, UsableIsFresh

-----------------------------------------------------------------------------
(* Sums of spans *)

(* The slack of a candidate is a number. *)
LEMMA SumsAreIntegers ==
    ASSUME NEW S, IsFiniteSet(S), \A x \in S : Span(x) \in Int
    PROVE  MapThenSumSet(Span, S) \in Int
<1> DEFINE f == [x \in S |-> Span(x)]
           total == CHOOSE g : Sums(S, f, g)
<1>1. f \in [S -> Int]
    OBVIOUS
<1>2. \A g : Sums(S, f, g) <=>
          g = [s \in SUBSET S |-> IF s = {} THEN 0 ELSE Span(Pick(s)) + g[s \ {Pick(s)}]]
    BY DEF Sums, Pick
<1>3. MapThenSumSet(Span, S) = total[S]
    BY <1>2, ZenonT(30) DEF MapThenSumSet, MapThenFoldSet, Pick
<1> HIDE DEF f
<1>4. \E g : Sums(S, f, g)
    BY <1>1, SumsExist
<1>5. Sums(S, f, total)
    BY <1>4
<1> HIDE DEF total
<1> QED
    BY <1>1, <1>3, <1>5, SumsAreNumbers

(* A set of integers with an upper bound has a maximum. *)
LEMMA MaxExists ==
    ASSUME NEW S \in SUBSET Int, S # {}, NEW high \in Int, \A x \in S : x <= high
    PROVE  Max(S) \in S /\ \A x \in S : x <= Max(S)
<1>1. PICK m \in S : \A x \in S : x <= m
    BY LargestNumber
<1>2. \A x \in S : m >= x
    BY <1>1
<1> QED
    BY <1>2 DEF Max

-----------------------------------------------------------------------------
(* The first candidate of a cursor *)

LEMMA UsableFacts ==
    ASSUME Inputs, NEW b, FrontsInExtent(b), NEW c \in Cursors, NEW t \in Tasks
    PROVE  /\ IsFiniteSet(Usable(b, c, t))
           /\ \A o \in Usable(b, c, t) :
                 /\ o.start \in Int /\ o.end \in Int /\ Span(o) \in Int
                 /\ FrameActive(b, c).start <= o.start
                 /\ o.end <= FrameActive(b, c).end
                 /\ Span(o) >= problem.dur[t]
<1> DEFINE FA == FrameActive(b, c)
           clip == [w \in problem.windows[t] |-> Common(FramePeriod(c, w), FA)]
<1>1. FA.start \in Int /\ FA.end \in Int
    BY FrameActiveFacts
<1>2. ASSUME NEW w \in problem.windows[t]
      PROVE  FramePeriod(c, w).start \in Int /\ FramePeriod(c, w).end \in Int
    <2>1. w \in [start : Int, end : Int]
        BY WindowFacts DEF PeriodsOver
    <2> QED
        BY <2>1, FramePeriodFacts
<1>3. IsFiniteSet(problem.windows[t])
    BY ProblemsAreWellFormed DEF Inputs
<1>4. clip \in Surjection(problem.windows[t], {clip[w] : w \in problem.windows[t]})
    BY Fun_IsSurj
<1>5. IsFiniteSet({clip[w] : w \in problem.windows[t]})
    BY <1>3, <1>4, FS_Surjection
<1>6. Usable(b, c, t) \in SUBSET {clip[w] : w \in problem.windows[t]}
    BY DEF Usable
<1>7. IsFiniteSet(Usable(b, c, t))
    BY <1>5, <1>6, FS_Subset
<1>8. ASSUME NEW o \in Usable(b, c, t)
      PROVE  /\ o.start \in Int /\ o.end \in Int /\ Span(o) \in Int
             /\ FA.start <= o.start /\ o.end <= FA.end
             /\ Span(o) >= problem.dur[t]
    <2>1. PICK w \in problem.windows[t] :
              o = Common(FramePeriod(c, w), FA) /\ Span(o) >= problem.dur[t]
        BY DEF Usable
    <2>2. FramePeriod(c, w).start \in Int /\ FramePeriod(c, w).end \in Int
        BY <1>2
    <2> HIDE DEF FA
    <2> QED
        BY <1>1, <2>1, <2>2 DEF Common, Later, Earlier, Span
<1> QED
    BY <1>7, <1>8

(* The keys that candidates are ordered by are numbers. *)
LEMMA CandidateFacts ==
    ASSUME Inputs, NEW b, FrontsInExtent(b), NEW c \in Cursors,
           NEW k \in Candidates(b, c)
    PROVE  /\ k.task \in Tasks /\ k.task \in Schedulable(b, c)
           /\ k = CandidateAt(b, c, k.task)
           /\ k.est \in Int /\ k.slack \in Int
           /\ k.est <= FrameActive(b, c).end
           /\ EffectiveEst(Candidates(b, c), k) \in Int
<1>1. ASSUME NEW l \in Candidates(b, c)
      PROVE  /\ l.task \in Tasks /\ l.task \in Schedulable(b, c)
             /\ l = CandidateAt(b, c, l.task)
             /\ l.est \in Int /\ l.slack \in Int
             /\ l.est <= FrameActive(b, c).end
    <2>1. PICK t \in Schedulable(b, c) : l = CandidateAt(b, c, t)
        BY DEF Candidates, CandidateAt
    <2>2. t \in Tasks
        BY DEF Schedulable, FrontsInExtent, Beams
    <2>3. /\ l.task = t /\ l.est = Est(b, c, t)
          /\ l.slack = MapThenSumSet(Span, Usable(b, c, t))
        BY <2>1 DEF CandidateAt
    <2>4. l.slack \in Int
        BY <2>2, <2>3, UsableFacts, SumsAreIntegers
    <2>5. l.est \in Int /\ l.est + problem.dur[t] <= FrameActive(b, c).end
        BY <2>2, <2>3, EstFacts
    <2>6. problem.dur[t] \in Nat /\ FrameActive(b, c).end \in Int
        BY <2>2, WindowFacts, FrameActiveFacts
    <2>7. l.est <= FrameActive(b, c).end
        BY <2>5, <2>6
    <2> QED
        BY <2>1, <2>2, <2>3, <2>4, <2>5, <2>7
<1>2. EffectiveEst(Candidates(b, c), k) \in Int
    <2> DEFINE obstructed ==
                   {e \in Candidates(b, c) :
                      /\ Endangered(e)
                      /\ k.est <= e.est /\ e.est < k.est + problem.dur[k.task]}
               E == {e.est : e \in obstructed \cup {k}}
    <2>1. E \in SUBSET Int /\ E # {} /\ \A x \in E : x <= FrameActive(b, c).end
        BY <1>1
    <2>2. FrameActive(b, c).end \in Int
        BY FrameActiveFacts
    <2>3. EffectiveEst(Candidates(b, c), k) = IF Endangered(k) THEN k.est ELSE Max(E)
        BY DEF EffectiveEst
    <2> HIDE DEF E
    <2> QED
        BY <1>1, <2>1, <2>2, <2>3, MaxExists
<1> QED
    BY <1>1, <1>2

(* Keys of six numbers are comparable, and equal only as a whole. *)
LEMMA LexTotal ==
    ASSUME NEW p1 \in Int, NEW p2 \in Int, NEW p3 \in Int,
           NEW p4 \in Int, NEW p5 \in Int, NEW p6 \in Int,
           NEW q1 \in Int, NEW q2 \in Int, NEW q3 \in Int,
           NEW q4 \in Int, NEW q5 \in Int, NEW q6 \in Int,
           p6 # q6
    PROVE  \/ LexLess(<<p1, p2, p3, p4, p5, p6>>, <<q1, q2, q3, q4, q5, q6>>)
           \/ LexLess(<<q1, q2, q3, q4, q5, q6>>, <<p1, p2, p3, p4, p5, p6>>)
<1> DEFINE p == <<p1, p2, p3, p4, p5, p6>>
           q == <<q1, q2, q3, q4, q5, q6>>
<1>1. /\ DOMAIN p = 1 .. 6 /\ DOMAIN q = 1 .. 6 /\ p[6] # q[6]
      /\ \A i \in 1 .. 6 : p[i] \in Int /\ q[i] \in Int
    <2>1. \A i \in 1 .. 6 : i = 1 \/ i = 2 \/ i = 3 \/ i = 4 \/ i = 5 \/ i = 6
        OBVIOUS
    <2>2. /\ p[1] = p1 /\ p[2] = p2 /\ p[3] = p3 /\ p[4] = p4 /\ p[5] = p5 /\ p[6] = p6
          /\ q[1] = q1 /\ q[2] = q2 /\ q[3] = q3 /\ q[4] = q4 /\ q[5] = q5 /\ q[6] = q6
        OBVIOUS
    <2>3. DOMAIN p = 1 .. 6 /\ DOMAIN q = 1 .. 6
        OBVIOUS
    <2> HIDE DEF p, q
    <2> QED
        BY <2>1, <2>2, <2>3
<1> HIDE DEF p, q
<1> DEFINE differs == {i \in 1 .. 6 : p[i] # q[i]}
<1>2. differs \in SUBSET Int /\ differs # {} /\ \A i \in differs : 1 <= i
    BY <1>1
<1> HIDE DEF differs
<1>3. Min(differs) \in differs /\ \A i \in differs : Min(differs) <= i
    BY <1>2, MinExists
<1> USE DEF differs
<1>4. PICK m \in differs : \A i \in differs : m <= i
    BY <1>3
<1>5. m \in 1 .. 6 /\ p[m] # q[m] /\ p[m] \in Int /\ q[m] \in Int
    BY <1>1
<1>6. \A j \in 1 .. m - 1 : j \in 1 .. 6 /\ p[j] = q[j]
    BY <1>4, <1>5
<1>7. p[m] < q[m] \/ q[m] < p[m]
    BY <1>5
<1> QED
    BY <1>1, <1>5, <1>6, <1>7 DEF LexLess, p, q

(* Of two candidates of a cursor one comes before the other. *)
LEMMA BeforeIsTotal ==
    ASSUME Inputs, NEW b, FrontsInExtent(b), NEW c \in Cursors,
           NEW k \in Candidates(b, c), NEW l \in Candidates(b, c), k.task # l.task
    PROVE  \/ Before(Candidates(b, c), FrameActive(b, c).start, k, l)
           \/ Before(Candidates(b, c), FrameActive(b, c).start, l, k)
<1> DEFINE C == Candidates(b, c)
           at == FrameActive(b, c).start
<1>1. at \in Horizon.start .. Horizon.end
    <2>1. HasActive(b, c)
        BY DEF Candidates, Schedulable
    <2>2. /\ at \in Int /\ at < FrameActive(b, c).end /\ FrameActive(b, c).end \in Int
          /\ FrameActive(b, c).end <= Extent(c).end /\ b.front[c] <= at
        BY <2>1, EdgeFacts, FrameActiveFacts
    <2>3. /\ Extent(c).start <= b.front[c] /\ b.front[c] \in Int
          /\ Extent(c).start \in Int /\ Extent(c).end \in Int
          /\ Horizon.start <= Extent(c).start /\ Extent(c).end <= Horizon.end
        BY ExtentFacts, PositionFacts DEF FrontsInExtent
    <2>4. Horizon.start \in Int /\ Horizon.end \in Int
        BY HorizonIsPeriod DEF PeriodsOver
    <2> HIDE DEF at
    <2> QED
        BY <2>2, <2>3, <2>4
<1>2. /\ k.task \in Tasks /\ k.est \in Int /\ k.slack \in Int
      /\ l.task \in Tasks /\ l.est \in Int /\ l.slack \in Int
      /\ EffectiveEst(C, k) \in Int /\ EffectiveEst(C, l) \in Int
    BY CandidateFacts
<1>3. /\ problem.dur[k.task] \in Nat /\ problem.dur[l.task] \in Nat
      /\ k.task \in Int /\ l.task \in Int
    BY <1>2, WindowFacts, TasksAreNumbers
<1>4. SoftScore(k.task, at) \in Int /\ SoftScore(l.task, at) \in Int
    BY <1>1, <1>2, SoftScoresAreNumbers
<1> HIDE DEF C, at
<1>5. k.slack * problem.dur[l.task] \in Int /\ l.slack * problem.dur[k.task] \in Int
    BY <1>2, <1>3
<1>6. -SoftScore(k.task, at) \in Int /\ -SoftScore(l.task, at) \in Int
    BY <1>4
<1> DEFINE e(x) == IF Endangered(x) THEN 0 ELSE 1
<1>7. e(k) \in Int /\ e(l) \in Int
    OBVIOUS
<1> HIDE DEF e
<1>8. \/ LexLess(<<EffectiveEst(C, k), e(k), k.est, k.slack * problem.dur[l.task],
                   -SoftScore(k.task, at), k.task>>,
                 <<EffectiveEst(C, l), e(l), l.est, l.slack * problem.dur[k.task],
                   -SoftScore(l.task, at), l.task>>)
      \/ LexLess(<<EffectiveEst(C, l), e(l), l.est, l.slack * problem.dur[k.task],
                   -SoftScore(l.task, at), l.task>>,
                 <<EffectiveEst(C, k), e(k), k.est, k.slack * problem.dur[l.task],
                   -SoftScore(k.task, at), k.task>>)
    BY <1>2, <1>3, <1>5, <1>6, <1>7, LexTotal
<1> QED
    BY <1>8 DEF Before, e, C, at

(* A cursor has one first candidate at most. *)
LEMMA OneFirst ==
    ASSUME Inputs, NEW b, FrontsInExtent(b), NEW f \in Actions(b), NEW g \in Actions(b),
           f.cursor = g.cursor, f.rank = 0, g.rank = 0
    PROVE  f = g
<1> DEFINE c == f.cursor
           C == Candidates(b, c)
           at == FrameActive(b, c).start
<1>1. c \in Cursors
    BY ActionFacts
<1>2. ASSUME NEW a \in Actions(b), a.cursor = c, a.rank = 0
      PROVE  \E k \in C : k.task = a.task /\ \A l \in C : ~ Before(C, at, l, k)
    <2>1. PICK d \in Cursors : a \in ActionsOf(b, d)
        BY DEF Actions
    <2>2. PICK k \in Candidates(b, d) :
              a = [cursor |-> d, task |-> k.task, est |-> k.est,
                   rank |-> Rank(Candidates(b, d), FrameActive(b, d).start, k)]
        BY <2>1 DEF ActionsOf
    <2>3. d = c /\ k \in C /\ k.task = a.task /\ Rank(C, at, k) = 0
        BY <1>2, <2>2
    <2> DEFINE before == {l \in C : Before(C, at, l, k)}
    <2>4. IsFiniteSet(before)
        BY <1>1, CandidatesFinite, FS_Subset
    <2>5. Cardinality(before) = 0
        BY <2>3 DEF Rank
    <2>6. before = {}
        BY <2>4, <2>5, FS_EmptySet
    <2> QED
        BY <2>3, <2>6
<1>3. PICK k \in C : k.task = f.task /\ \A l \in C : ~ Before(C, at, l, k)
    BY <1>2
<1>4. PICK l \in C : l.task = g.task /\ \A m \in C : ~ Before(C, at, m, l)
    BY <1>2
<1>5. f.task = g.task
    BY <1>1, <1>3, <1>4, BeforeIsTotal
<1> QED
    BY <1>5, ActionIsDetermined

-----------------------------------------------------------------------------
(* What a search gives up *)

(* Every schedulable task of a cursor has an action, at its earliest start. *)
LEMMA SchedulableActs ==
    ASSUME NEW b, NEW c \in Cursors, NEW t \in Schedulable(b, c)
    PROVE  \E k \in Actions(b) : k.cursor = c /\ k.task = t /\ k.est = Est(b, c, t)
<1> DEFINE k == CandidateAt(b, c, t)
           a == [cursor |-> c, task |-> k.task, est |-> k.est,
                 rank |-> Rank(Candidates(b, c), FrameActive(b, c).start, k)]
<1>1. k \in Candidates(b, c) /\ k.task = t /\ k.est = Est(b, c, t)
    BY DEF Candidates, CandidateAt
<1> HIDE DEF k
<1>2. a \in Actions(b)
    BY <1>1 DEF Actions, ActionsOf
<1>3. a.cursor = c /\ a.task = t /\ a.est = Est(b, c, t)
    BY <1>1
<1> QED
    BY <1>2, <1>3

(* The earliest start is one of the usable starts, and the first.          *)
LEMMA EstIsFirst ==
    ASSUME Inputs, NEW b, FrontsInExtent(b), NEW c \in Cursors, NEW t \in Tasks,
           Usable(b, c, t) # {}
    PROVE  /\ \E o \in Usable(b, c, t) : Est(b, c, t) = o.start
           /\ \A o \in Usable(b, c, t) : Est(b, c, t) <= o.start
           /\ Est(b, c, t) \in Int
<1> DEFINE S == {o.start : o \in Usable(b, c, t)}
<1>1. S \in SUBSET Int /\ S # {} /\ \A x \in S : FrameActive(b, c).start <= x
    BY UsableFacts
<1>2. FrameActive(b, c).start \in Int
    BY FrameActiveFacts
<1>3. Est(b, c, t) = Min(S)
    BY DEF Est
<1> HIDE DEF S
<1>4. Min(S) \in S /\ \A x \in S : Min(S) <= x
    BY <1>1, <1>2, MinExists
<1> QED
    BY <1>1, <1>3, <1>4 DEF S

(* A candidate that can start only after another one of its cursor keeps   *)
(* its earliest start when that one is placed.                             *)
LEMMA LaterKeepsItsStart ==
    ASSUME Inputs, NearSidesAdvance, NEW b, BeamOK(b), SweptBehind(b),
           NEW f \in Actions(b), Allowed(b, f),
           NEW a \in Actions(b), a.cursor = f.cursor, a.task # f.task,
           a.est >= f.est + problem.dur[f.task]
    PROVE  \E k \in Actions(Refreshed(Child(b, f))) :
              k.cursor = a.cursor /\ k.task = a.task /\ k.est = a.est
<1> DEFINE c  == f.cursor
           t  == a.task
           b2 == Child(b, f)
           d  == problem.dur[t]
           s  == FrameActive(b, c).start
           s2 == FrameActive(b2, c).start
           e  == FrameActive(b, c).end
<1>1. FrontsInExtent(b) /\ FrontsInExtent(b2) /\ SweptBehind(b2)
    BY ChildPositions, ChildSwept DEF BeamOK
<1>2. /\ c \in Cursors /\ t \in Tasks /\ t \in Schedulable(b, c) /\ t \in b.queue[c]
      /\ a.est = Est(b, c, t) /\ a.est \in Int
    BY <1>1, ActionFacts
<1>3. /\ EndOf(f) \in Int /\ b.front[c] < EndOf(f) /\ EndOf(f) <= a.est
      /\ b2.front[c] = EndOf(f)
      /\ \A x \in Cursors \ {c} : b2.front[x] = b.front[x]
      /\ b2.queue[c] = b.queue[c] \ {f.task}
    BY <1>1, <1>2, PlacementFacts, ChildFields DEF EndOf
<1>4. /\ s \in Int /\ e \in Int /\ s2 \in Int
      /\ FrameActive(b2, c).end = e
      /\ s2 = Later(s, EndOf(f))
    <2>1. NearEdge(b2, c) = NearEdge(b, c) /\ FarEdge(b2, c) = FarEdge(b, c)
        BY <1>2, <1>3, EdgesAreOthers
    <2>2. /\ s = Later(NearEdge(b, c), b.front[c]) /\ e = FarEdge(b, c)
          /\ s2 = Later(NearEdge(b2, c), b2.front[c])
          /\ FrameActive(b2, c).end = FarEdge(b2, c)
          /\ NearEdge(b, c) \in Int /\ FarEdge(b, c) \in Int
        BY <1>1, <1>2, EdgeFacts
    <2>3. b.front[c] \in Int
        BY <1>1, <1>2, PositionFacts
    <2> HIDE DEF s, s2, e, c, b2
    <2> QED
        BY <1>3, <2>1, <2>2, <2>3 DEF Later
<1>5. d \in Nat \ {0} /\ problem.dur[f.task] \in Nat \ {0} /\ f.est \in Int
      /\ EndOf(f) = f.est + problem.dur[f.task]
    <2>1. f.task \in Tasks /\ f.est \in Int
        BY <1>1, ActionFacts
    <2> QED
        BY <1>2, <2>1, WindowFacts DEF EndOf
<1>6. s <= f.est
    <2>1. f.task \in Schedulable(b, c) /\ f.est = Est(b, c, f.task) /\ f.task \in Tasks
        BY <1>1, ActionFacts
    <2> QED
        BY <1>1, <1>2, <2>1, EstFacts
<1>7. s < a.est /\ s2 <= a.est /\ s <= s2
    <2> HIDE DEF s, s2, e, d
    <2> QED
        BY <1>2, <1>3, <1>4, <1>5, <1>6 DEF Later
<1>8. Usable(b, c, t) = FreshUsable(b, c, t) /\ Usable(b, c, t) # {}
    BY <1>2, UsableIsFresh DEF Schedulable
<1>9. ASSUME NEW w \in problem.windows[t]
      PROVE  FramePeriod(c, w).start \in Int /\ FramePeriod(c, w).end \in Int
    <2>1. w \in [start : Int, end : Int]
        BY <1>2, WindowFacts DEF PeriodsOver
    <2> QED
        BY <1>2, <2>1, FramePeriodFacts
<1>10. PICK o \in Usable(b, c, t) : a.est = o.start
    BY <1>1, <1>2, <1>8, EstIsFirst
<1>11. PICK w0 \in problem.windows[t] :
           o = Common(FramePeriod(c, w0), FrameActive(b, c)) /\ Span(o) >= d
    BY <1>8 DEF FreshUsable
<1> DEFINE fresh2 == FreshUsable(b2, c, t)
           o2 == Common(FramePeriod(c, w0), FrameActive(b2, c))
<1>12. o2 \in fresh2 /\ o2.start = a.est
    <2> DEFINE ws == FramePeriod(c, w0).start
               we == FramePeriod(c, w0).end
    <2>1. ws \in Int /\ we \in Int
        BY <1>9
    <2>2. /\ o.start = Later(ws, s) /\ o.end = Earlier(we, e)
          /\ o2.start = Later(ws, s2) /\ o2.end = Earlier(we, e)
        BY <1>4, <1>11 DEF Common
    <2>3. o2.start = a.est /\ o2.end = o.end /\ o.start = a.est
        <3> HIDE DEF ws, we, s, s2, e, o2
        <3> QED
            BY <1>2, <1>4, <1>7, <1>10, <2>1, <2>2 DEF Later
    <2>4. Span(o2) >= d
        BY <1>11, <2>3 DEF Span
    <2> QED
        BY <2>3, <2>4 DEF FreshUsable
<1>13. ASSUME NEW x \in fresh2
       PROVE  a.est <= x.start
    <2>1. PICK w \in problem.windows[t] :
              x = Common(FramePeriod(c, w), FrameActive(b2, c)) /\ Span(x) >= d
        BY DEF FreshUsable
    <2> DEFINE ws == FramePeriod(c, w).start
               we == FramePeriod(c, w).end
               y  == Common(FramePeriod(c, w), FrameActive(b, c))
    <2>2. ws \in Int /\ we \in Int
        BY <1>9
    <2>3. /\ y.start = Later(ws, s) /\ y.end = Earlier(we, e)
          /\ x.start = Later(ws, s2) /\ x.end = Earlier(we, e)
        BY <1>4, <2>1 DEF Common
    <2>4. /\ y.start <= x.start /\ x.end - x.start >= d
          /\ y.start \in Int /\ x.start \in Int /\ y.end = x.end /\ x.end \in Int
        <3>1. x.end - x.start >= d
            BY <2>1 DEF Span
        <3> HIDE DEF ws, we, s, s2, e, y
        <3> QED
            BY <1>4, <1>7, <2>2, <2>3, <3>1 DEF Later, Earlier
    <2>5. Span(y) >= d
        <3> HIDE DEF y, d
        <3> QED
            BY <1>5, <2>4 DEF Span
    <2>6. y \in Usable(b, c, t)
        BY <1>8, <2>5 DEF FreshUsable
    <2>7. a.est <= y.start
        BY <1>1, <1>2, <1>8, <2>6, EstIsFirst
    <2> HIDE DEF y
    <2> QED
        BY <1>2, <2>4, <2>7
<1>14. /\ FrontsInExtent(Refreshed(b2))
       /\ Usable(Refreshed(b2), c, t) = fresh2
       /\ HasActive(Refreshed(b2), c) <=> HasActive(b2, c)
       /\ Refreshed(b2).queue = b2.queue
    BY <1>1, <1>2, RefreshedIsFresh, RefreshedRegion, RefreshedFields
<1>15. HasActive(b2, c)
    <2>1. a.est + d <= e
        BY <1>1, <1>2, EstFacts
    <2>2. s2 < e
        <3> HIDE DEF s, s2, e, d
        <3> QED
            BY <1>2, <1>4, <1>5, <1>7, <2>1
    <2> QED
        BY <1>1, <1>2, <1>4, <2>2, EdgeFacts
<1>16. t \in Schedulable(Refreshed(b2), c)
    BY <1>2, <1>3, <1>12, <1>14, <1>15 DEF Schedulable
<1>17. Est(Refreshed(b2), c, t) = a.est
    <2>1. Est(Refreshed(b2), c, t) <= a.est /\ Est(Refreshed(b2), c, t) \in Int
        BY <1>2, <1>12, <1>14, EstIsFirst
    <2>2. a.est <= Est(Refreshed(b2), c, t)
        BY <1>2, <1>12, <1>13, <1>14, EstIsFirst
    <2> QED
        BY <1>2, <2>1, <2>2
<1> HIDE DEF b2, c, t
<1>18. PICK k \in Actions(Refreshed(b2)) : k.cursor = c /\ k.task = t
                                           /\ k.est = Est(Refreshed(b2), c, t)
    BY <1>2, <1>16, SchedulableActs
<1> QED
    BY <1>17, <1>18 DEF b2, c, t

(* Some action of a non-empty set comes before all others of the set.      *)
LEMMA FirstAction ==
    ASSUME Inputs, NEW b, FrontsInExtent(b), NEW V \in SUBSET Actions(b), V # {}
    PROVE  \E a \in V : \A v \in V : ~ ActionBefore(v, a)
<1>1. \A v \in V : v.rank \in Nat /\ v.cursor \in Nat /\ v.task \in Nat
    BY ActionFacts, ActionIsDetermined, TasksAreNumbers, CursorsAreNumbers
<1>2. PICK a1 \in V : \A v \in V : a1.rank <= v.rank
    <2> DEFINE S == {v.rank : v \in V}
    <2>1. S \in SUBSET Int /\ S # {} /\ \A x \in S : 0 <= x
        BY <1>1
    <2> HIDE DEF S
    <2>2. Min(S) \in S /\ \A x \in S : Min(S) <= x
        BY ONLY <2>1, 0 \in Int, MinExists
    <2> QED
        BY <2>2 DEF S
<1> DEFINE V2 == {v \in V : v.rank = a1.rank}
<1>3. PICK a2 \in V2 : \A v \in V2 : a2.cursor <= v.cursor
    <2> DEFINE S == {v.cursor : v \in V2}
    <2>1. S \in SUBSET Int /\ S # {} /\ \A x \in S : 0 <= x
        BY <1>1
    <2> HIDE DEF S
    <2>2. Min(S) \in S /\ \A x \in S : Min(S) <= x
        BY ONLY <2>1, 0 \in Int, MinExists
    <2> QED
        BY <2>2 DEF S
<1> DEFINE V3 == {v \in V2 : v.cursor = a2.cursor}
<1>4. PICK a3 \in V3 : \A v \in V3 : a3.task <= v.task
    <2> DEFINE S == {v.task : v \in V3}
    <2>1. S \in SUBSET Int /\ S # {} /\ \A x \in S : 0 <= x
        BY <1>1
    <2> HIDE DEF S
    <2>2. Min(S) \in S /\ \A x \in S : Min(S) <= x
        BY ONLY <2>1, 0 \in Int, MinExists
    <2> QED
        BY <2>2 DEF S
<1>5. ASSUME NEW v \in V, ActionBefore(v, a3)
      PROVE  FALSE
    <2> DEFINE p == <<v.rank, v.cursor, v.task>>
               q == <<a3.rank, a3.cursor, a3.task>>
    <2>1. PICK i \in DOMAIN p : p[i] < q[i] /\ \A j \in 1 .. i - 1 : p[j] = q[j]
        BY <1>5 DEF ActionBefore, LexLess
    <2>2. i = 1 \/ i = 2 \/ i = 3
        OBVIOUS
    <2>3. a3.rank = a1.rank /\ a3.cursor = a2.cursor /\ a3 \in V
        OBVIOUS
    <2>4. CASE i = 1
        <3>1. v.rank < a3.rank
            BY <2>1, <2>4
        <3> QED
            BY <1>1, <1>2, <2>3, <3>1
    <2>5. CASE i = 2
        <3>1. v.cursor < a3.cursor /\ v.rank = a3.rank
            BY <2>1, <2>5
        <3>2. v \in V2
            BY <2>3, <3>1
        <3> QED
            BY <1>1, <1>3, <2>3, <3>1, <3>2
    <2>6. CASE i = 3
        <3>1. v.task < a3.task /\ v.cursor = a3.cursor /\ v.rank = a3.rank
            BY <2>1, <2>6
        <3>2. v \in V3
            BY <2>3, <3>1
        <3> QED
            BY <1>1, <1>4, <2>3, <3>1, <3>2
    <2> QED
        BY <2>2, <2>4, <2>5, <2>6
<1> QED
    BY <1>5

(* A beam is given up only when none of its actions is allowed: neither    *)
(* dominance nor the branching factor takes all of them away.              *)
LEMMA NothingChosenNothingAllowed ==
    ASSUME Inputs, NEW b, FrontsInExtent(b), Chosen(Viable(b, Actions(b))) = {}
    PROVE  \A a \in Actions(b) : ~ Allowed(b, a)
<1>1. Viable(b, Actions(b)) = {}
    <2> SUFFICES ASSUME Viable(b, Actions(b)) # {} PROVE FALSE
        OBVIOUS
    <2> DEFINE V == Viable(b, Actions(b))
    <2>1. V \in SUBSET Actions(b)
        BY DEF Viable
    <2>2. PICK a \in V : \A v \in V : ~ ActionBefore(v, a)
        BY <2>1, FirstAction
    <2>3. {v \in V : ActionBefore(v, a)} = {}
        BY <2>2
    <2> HIDE DEF V
    <2>4. Cardinality({v \in V : ActionBefore(v, a)}) < Branching
        BY <2>3, FS_EmptySet, BeamParameters
    <2> QED
        BY <2>4 DEF Chosen, V
<1>2. SUFFICES ASSUME NEW a \in Actions(b), Allowed(b, a) PROVE FALSE
    OBVIOUS
<1>3. Dominated(b, Actions(b), a)
    BY <1>1, <1>2 DEF Viable
<1> DEFINE c == a.cursor
           leaders == {f \in Actions(b) : f.cursor = c /\ f.rank = 0 /\ Allowed(b, f)}
<1>4. leaders # {}
    BY <1>3 DEF Dominated
<1>5. PICK f \in leaders : TRUE
    BY <1>4
<1>6. \A g \in leaders : g = f
    BY <1>5, OneFirst
<1>7. Dominated(b, Actions(b), f)
    BY <1>1, <1>5 DEF Viable
<1> QED
    BY <1>6, <1>7 DEF Dominated

-----------------------------------------------------------------------------
(* No option is lost *)

(* The claim of TerminalIsStuck about one beam. *)
Stuck(b) ==
    \A c \in Cursors : \A t \in Filtered :
        (HasActive(b, c) /\ FreshUsable(b, c, t) # {}) =>
            ~ Allowed(b, [cursor |-> c, task |-> t,
                          est |-> Min({o.start : o \in FreshUsable(b, c, t)})])

LEMMA GivenUpIsStuck ==
    ASSUME Inputs, NEW b, BeamOK(b), SweptBehind(b),
           Chosen(Viable(b, Actions(b))) = {}
    PROVE  Stuck(b)
<1> SUFFICES ASSUME NEW c \in Cursors, NEW t \in Filtered, HasActive(b, c),
                    FreshUsable(b, c, t) # {}
             PROVE  ~ Allowed(b, [cursor |-> c, task |-> t,
                              est |-> Min({o.start : o \in FreshUsable(b, c, t)})])
    BY DEF Stuck
<1>1. t \in Tasks /\ FrontsInExtent(b)
    BY DEF Filtered, BeamOK
<1>2. Usable(b, c, t) = FreshUsable(b, c, t)
    BY <1>1, UsableIsFresh
<1> DEFINE a == [cursor |-> c, task |-> t, est |-> Est(b, c, t)]
<1>3. a = [cursor |-> c, task |-> t, est |-> Min({o.start : o \in FreshUsable(b, c, t)})]
    BY <1>2 DEF Est
<1>4. CASE t \in b.queue[c]
    <2>1. t \in Schedulable(b, c)
        BY <1>2, <1>4 DEF Schedulable
    <2>2. PICK k \in Actions(b) : k.cursor = c /\ k.task = t /\ k.est = Est(b, c, t)
        BY <2>1, SchedulableActs
    <2>3. ~ Allowed(b, k)
        BY <1>1, NothingChosenNothingAllowed
    <2>4. Placement(k) = Placement(a)
        BY <2>2 DEF Placement
    <2> QED
        BY <1>3, <2>3, <2>4 DEF Allowed
<1>5. CASE t \notin b.queue[c]
    <2>1. t \in TasksOf(b.placed)
        BY <1>5 DEF BeamOK
    <2>2. Placement(a).task = t
        BY DEF Placement
    <2> QED
        BY <1>3, <2>1, <2>2 DEF Allowed, Valid
<1> QED
    BY <1>4, <1>5

(* The inductive invariant: queues discard only what lies behind, and the  *)
(* terminal beams have nothing left to do.                                 *)
NothingGivenUp ==
    NearSidesAdvance =>
        /\ \A b \in AllBeams : SweptBehind(b)
        /\ \A b \in terminal : Stuck(b)

LEMMA GivenUpStable ==
    ASSUME UNCHANGED inputs
    PROVE  /\ \A b : SweptBehind(b) => SweptBehind(b)'
           /\ \A b : Stuck(b) => Stuck(b)'
           /\ NearSidesAdvance' <=> NearSidesAdvance
<1>1. layout' = layout /\ problem' = problem
    BY DEF inputs
<1>2. /\ \A c : Extent(c)' = Extent(c)
      /\ \A b, c : Position(b, c)' = Position(b, c)
    BY <1>1 DEF Extent, ExtentIn, Position, FrameTime, Mirror
<1>3. \A b, c : Active(b, c)' = Active(b, c)
    BY <1>1, <1>2 DEF Active, LowSide, HighSide
<1>4. \A c, p : FramePeriod(c, p)' = FramePeriod(c, p)
    BY <1>1, <1>2 DEF FramePeriod, Mirror
<1>5. /\ \A b, c : FrameActive(b, c)' = FrameActive(b, c)
      /\ \A b, c : HasActive(b, c)' <=> HasActive(b, c)
    BY <1>3, <1>4 DEF FrameActive, HasActive
<1>6. \A b : FrontsInExtent(b)' <=> FrontsInExtent(b)
    BY <1>1, <1>2 DEF FrontsInExtent
<1>7. \A b, c, t : FreshUsable(b, c, t)' = FreshUsable(b, c, t)
    BY <1>1, <1>4, <1>5 DEF FreshUsable
<1>8. \A a : Placement(a)' = Placement(a)
    BY <1>1, <1>4 DEF Placement
<1>9. \A placed, p : DependenciesMet(placed, p)' <=> DependenciesMet(placed, p)
    <2>1. \A t : AllPredecessors(t)' = AllPredecessors(t)
        BY <1>1 DEF AllPredecessors, Predecessors
    <2> QED
        BY <2>1 DEF DependenciesMet
<1>10. \A b, a : Allowed(b, a)' <=> Allowed(b, a)
    BY <1>3, <1>8, <1>9 DEF Allowed, Valid
<1>11. Filtered' = Filtered
    BY <1>1 DEF Filtered
<1>12. NearSidesAdvance' <=> NearSidesAdvance
    BY <1>1 DEF NearSidesAdvance
<1>13. \A b : SweptBehind(b) => SweptBehind(b)'
    BY <1>5, <1>6 DEF SweptBehind
<1>14. \A b : Stuck(b) => Stuck(b)'
    BY <1>5, <1>7, <1>10, <1>11 DEF Stuck
<1> QED
    BY <1>12, <1>13, <1>14

(* A beam becomes terminal when nothing is chosen to expand it with. *)
LEMMA ExpandRetires ==
    ASSUME Safe, Expand, NEW x \in terminal', x \notin terminal
    PROVE  \E y \in AllBeams :
              x = Refreshed(y) /\ Chosen(Viable(x, Actions(x))) = {}
<1> DEFINE b == Refreshed(Head(live))
           chosen == Chosen(Viable(b, Actions(b)))
<1>1. Head(live) \in AllBeams
    <2>1. live \in Seq(Beams) /\ live # <<>>
        BY DEF Safe, TypeOK, Expand
    <2> QED
        BY <2>1, TailFacts DEF AllBeams
<1>2. \/ chosen = {} /\ Retire(b)
      \/ chosen # {} /\ Branch(b, chosen)
    BY DEF Expand
<1>3. chosen = {} /\ x = b
    <2> HIDE DEF chosen, b
    <2> QED
        BY <1>2 DEF Retire, Branch
<1> QED
    BY <1>1, <1>3

LEMMA GivenUpExpand ==
    ASSUME Safe, NothingGivenUp, NearSidesAdvance, Expand
    PROVE  /\ \A b \in AllBeams' : SweptBehind(b)
           /\ \A b \in terminal' : Stuck(b)
<1>1. Inputs /\ \A y \in AllBeams : BeamOK(y) /\ SweptBehind(y)
    BY DEF Safe, TypeOK, Inputs, NothingGivenUp
<1>2. ASSUME NEW y \in AllBeams
      PROVE  BeamOK(Refreshed(y)) /\ SweptBehind(Refreshed(y))
    BY <1>1, RefreshedOK, RefreshedSwept
<1>3. ASSUME NEW y \in AllBeams, NEW a \in Actions(Refreshed(y)), Allowed(Refreshed(y), a)
      PROVE  SweptBehind(Child(Refreshed(y), a))
    BY <1>1, <1>2, <1>3, ChildSwept
<1>4. ASSUME NEW x \in AllBeams'
      PROVE  SweptBehind(x)
    BY <1>1, <1>2, <1>3, ExpandReaches
<1>5. ASSUME NEW x \in terminal'
      PROVE  Stuck(x)
    <2>1. CASE x \in terminal
        BY <2>1 DEF NothingGivenUp
    <2>2. CASE x \notin terminal
        <3>1. PICK y \in AllBeams : x = Refreshed(y) /\ Chosen(Viable(x, Actions(x))) = {}
            BY <2>2, ExpandRetires
        <3> QED
            BY <1>1, <1>2, <3>1, GivenUpIsStuck
    <2> QED
        BY <2>1, <2>2
<1> QED
    BY <1>4, <1>5

(* The search keeps this invariant. *)
LEMMA SearchGivesNothingUp == Spec => []NothingGivenUp
<1>1. Init => NothingGivenUp
    <2> SUFFICES ASSUME Init PROVE NothingGivenUp
        OBVIOUS
    <2>1. Range(live) = {Seed} /\ Range(next) = {} /\ terminal = {} /\ Inputs
        BY DEF Init, Inputs, Range
    <2>2. AllBeams = {Seed}
        BY <2>1 DEF AllBeams
    <2> QED
        BY <2>1, <2>2, SeedSwept DEF NothingGivenUp
<1>2. Safe /\ NothingGivenUp /\ [Next]_vars => NothingGivenUp'
    <2> SUFFICES ASSUME Safe, NothingGivenUp, [Next]_vars, NearSidesAdvance'
                 PROVE  (\A b \in AllBeams : SweptBehind(b))' /\ (\A b \in terminal : Stuck(b))'
        BY DEF NothingGivenUp
    <2>1. UNCHANGED inputs
        BY DEF Next, Expand, Truncate, Return, Finished, vars, inputs
    <2>2. /\ \A b : SweptBehind(b) => SweptBehind(b)'
          /\ \A b : Stuck(b) => Stuck(b)'
          /\ NearSidesAdvance
        BY <2>1, GivenUpStable
    <2>3. CASE Expand
        BY <2>2, <2>3, GivenUpExpand
    <2>4. CASE Truncate
        <3>1. AllBeams' \subseteq AllBeams /\ terminal' = terminal
            BY <2>4, TruncateKeeps DEF Truncate
        <3> QED
            BY <2>2, <3>1 DEF NothingGivenUp
    <2>5. CASE Return \/ UNCHANGED vars
        <3>1. AllBeams' = AllBeams /\ terminal' = terminal
            BY <2>5 DEF AllBeams, Return, vars
        <3> QED
            BY <2>2, <3>1 DEF NothingGivenUp
    <2> QED
        BY <2>3, <2>4, <2>5 DEF Next, Finished
<1> QED
    BY <1>1, <1>2, SearchIsSafe, PTL DEF Spec

(* When no region opens behind its cursor, nothing is lost by looking at   *)
(* less: a discarded window could never be used again, a dominated         *)
(* candidate keeps its earliest start, and a beam is given up only when    *)
(* none of its cursors can place anything (est/candidate.rs:80-110;        *)
(* engine.rs:249-290).                                                     *)
THEOREM LosesNoOption == Spec => []NoOptionIsLost
<1>1. Safe /\ NothingGivenUp => NoOptionIsLost
    <2> SUFFICES ASSUME Safe, NothingGivenUp PROVE NoOptionIsLost
        OBVIOUS
    <2>1. Inputs /\ live \in Seq(Beams)
        BY DEF Safe, TypeOK, Inputs
    <2>2. ASSUME NearSidesAdvance, NEW b \in AllBeams
          PROVE  BeamOK(b) /\ SweptBehind(b)
        BY <2>2 DEF Safe, NothingGivenUp
    <2>3. ASSUME NearSidesAdvance, NEW b \in Range(live), NEW c \in Cursors,
                 NEW t \in b.queue[c]
          PROVE  Usable(Refreshed(b), c, t) = FreshUsable(b, c, t)
        <3>1. b \in AllBeams
            BY DEF AllBeams
        <3>2. SweptBehind(b)
            BY <2>2, <2>3, <3>1
        <3>3. t \in Tasks
            BY <3>2 DEF SweptBehind, FrontsInExtent, Beams
        <3> QED
            BY <2>1, <3>2, <3>3, RefreshedIsFresh
    <2>4. QueueIsExact
        BY <2>3 DEF QueueIsExact, EstIsFirstValidOverlap
    <2>5. ASSUME NearSidesAdvance, NEW i \in DOMAIN live,
                 NEW f \in Actions(Refreshed(live[i])), f.rank = 0,
                 NEW a \in Actions(Refreshed(live[i])), a.cursor = f.cursor,
                 Dominated(Refreshed(live[i]), Actions(Refreshed(live[i])), a)
          PROVE  \E k \in Actions(Refreshed(Child(Refreshed(live[i]), f))) :
                    k.cursor = a.cursor /\ k.task = a.task /\ k.est = a.est
        <3> DEFINE b == Refreshed(live[i])
        <3>1. live[i] \in AllBeams
            BY DEF AllBeams, Range
        <3>2. BeamOK(b) /\ SweptBehind(b) /\ FrontsInExtent(b)
            BY <2>1, <2>2, <2>5, <3>1, RefreshedOK, RefreshedSwept DEF SweptBehind
        <3> HIDE DEF b
        <3>3. PICK g \in Actions(b) : /\ g.cursor = a.cursor /\ g.task # a.task
                                      /\ g.rank = 0 /\ Allowed(b, g)
                                      /\ a.est >= g.est + problem.dur[g.task]
            BY <2>5 DEF Dominated, b
        <3>4. g = f
            BY <2>1, <2>5, <3>2, <3>3, OneFirst DEF b
        <3> QED
            BY <2>1, <2>5, <3>2, <3>3, <3>4, LaterKeepsItsStart DEF b
    <2>6. DominancePruningIsSafe
        BY <2>5 DEF DominancePruningIsSafe
    <2>7. TerminalIsStuck
        BY DEF TerminalIsStuck, NothingGivenUp, Stuck
    <2> QED
        BY <2>4, <2>6, <2>7 DEF NoOptionIsLost
<1> QED
    BY <1>1, SearchIsSafe, SearchGivesNothingUp, PTL

-----------------------------------------------------------------------------
(* LST is EST on reflected time *)

(* What the reflection is about: every cursor runs backward over the whole *)
(* horizon and minds no other, and no task waits for another.              *)
AllBackward ==
    \A l \in Layouts, c \in Cursors :
        /\ l[c].dir = Backward
        /\ l[c].lo.follows = NoCursor /\ l[c].hi.follows = NoCursor
        /\ ExtentIn(l[c]) = Horizon

NoDependencies == \A pr \in Problems : pr.deps = {}

Mirrored == AllBackward /\ NoDependencies /\ Inputs

LEMMA MirroredStable ==
    ASSUME Mirrored, UNCHANGED inputs
    PROVE  Mirrored'
BY DEF Mirrored, AllBackward, NoDependencies, Inputs, inputs, ExtentIn

(* The operators that the two searches have in common. *)
LEMMA SameOperators ==
    /\ \A x, y : EST!Later(x, y) = Later(x, y) /\ EST!Earlier(x, y) = Earlier(x, y)
    /\ \A S : EST!Min(S) = Min(S) /\ EST!Max(S) = Max(S) /\ EST!Cardinality(S) = Cardinality(S)
    /\ \A p : EST!Span(p) = Span(p)
    /\ \A p, q : EST!Common(p, q) = Common(p, q)
    /\ \A p, q : /\ EST!LexLess(p, q) <=> LexLess(p, q)
                 /\ EST!Overlaps(p, q) <=> Overlaps(p, q)
                 /\ EST!Inside(p, q) <=> Inside(p, q)
    /\ \A S : EST!MapThenSumSet(EST!Span, S) = MapThenSumSet(Span, S)
    /\ \A S : EST!TasksOf(S) = TasksOf(S)
<1>1. \A x, y : EST!Later(x, y) = Later(x, y) /\ EST!Earlier(x, y) = Earlier(x, y)
    BY DEF EST!Later, EST!Earlier, Later, Earlier
<1>2. \A S : EST!Min(S) = Min(S) /\ EST!Max(S) = Max(S)
    BY DEF EST!Min, EST!Max, Min, Max
<1>3. \A S : EST!Cardinality(S) = Cardinality(S)
    BY DEF EST!Cardinality, Cardinality
<1>4. \A p : EST!Span(p) = Span(p)
    BY DEF EST!Span, Span
<1>5. \A p, q : EST!Common(p, q) = Common(p, q)
    BY <1>1 DEF EST!Common, Common
<1>6. \A p, q : /\ EST!LexLess(p, q) <=> LexLess(p, q)
                /\ EST!Overlaps(p, q) <=> Overlaps(p, q)
                /\ EST!Inside(p, q) <=> Inside(p, q)
    BY DEF EST!LexLess, LexLess, EST!Overlaps, Overlaps, EST!Inside, Inside
<1>7. \A S : EST!MapThenSumSet(EST!Span, S) = MapThenSumSet(Span, S)
    BY DEF EST!MapThenSumSet, EST!MapThenFoldSet, MapThenSumSet, MapThenFoldSet, EST!Span, Span
<1>8. \A S : EST!TasksOf(S) = TasksOf(S)
    BY DEF EST!TasksOf, TasksOf
<1> QED
    BY <1>1, <1>2, <1>3, <1>4, <1>5, <1>6, <1>7, <1>8

(* The reflected problem has the same tasks, and reflected windows.        *)
LEMMA ReflectedProblem ==
    ASSUME Mirrored
    PROVE  /\ ReflectProblem(problem).dur = problem.dur
           /\ ReflectProblem(problem).deps = {} /\ problem.deps = {}
           /\ \A t \in Tasks :
                ReflectProblem(problem).windows[t] = ReflectAll(problem.windows[t])
<1>1. problem \in ProblemRecord /\ problem.deps = {}
    BY ProblemsAreWellFormed DEF Mirrored, Inputs, NoDependencies
<1> QED
    BY <1>1 DEF ReflectProblem, ProblemRecord

(* Both searches see the horizon as the extent of every cursor.            *)
LEMMA Frames ==
    ASSUME Mirrored, NEW c \in Cursors
    PROVE  /\ layout[c].dir = Backward /\ Turned(layout)[c].dir = Forward
           /\ layout[c].lo.follows = NoCursor /\ Turned(layout)[c].lo.follows = NoCursor
           /\ layout[c].hi.follows = NoCursor /\ Turned(layout)[c].hi.follows = NoCursor
           /\ Extent(c) = Horizon /\ EST!Extent(c) = Horizon
           /\ \A p : FramePeriod(c, p) = Reflect(p) /\ EST!FramePeriod(c, p) = p
           /\ \A t : EST!FrameTime(c, t) = t
           /\ \A t : FrameTime(c, t) = Horizon.start + Horizon.end - t
<1>1. layout \in Layouts /\ layout[c] \in CursorConfig
    BY LayoutsAreNormalised DEF Mirrored, Inputs
<1>2. /\ layout[c].dir = Backward
      /\ layout[c].lo.follows = NoCursor /\ layout[c].hi.follows = NoCursor
      /\ ExtentIn(layout[c]) = Horizon
    BY <1>1 DEF Mirrored, AllBackward
<1>3. /\ Turned(layout)[c].dir = Forward
      /\ Turned(layout)[c].lo = layout[c].lo /\ Turned(layout)[c].hi = layout[c].hi
    BY <1>1 DEF Turned, CursorConfig
<1>4. Extent(c) = Horizon
    BY <1>2 DEF Extent
<1>5. EST!Extent(c) = Horizon
    <2>1. EST!Extent(c) = EST!ExtentIn(Turned(layout)[c])
        BY DEF EST!Extent
    <2>2. EST!ExtentIn(Turned(layout)[c]) = ExtentIn(layout[c])
        BY <1>3, SameOperators DEF EST!ExtentIn, ExtentIn
    <2> QED
        BY <1>2, <2>1, <2>2
<1>6. Forward # Backward /\ EST!Forward = Forward
    BY DEF Forward, Backward, EST!Forward
<1>7. \A p : FramePeriod(c, p) = Reflect(p) /\ EST!FramePeriod(c, p) = p
    BY <1>2, <1>3, <1>4, <1>6 DEF FramePeriod, EST!FramePeriod, Mirror, Reflect
<1>8. \A t : EST!FrameTime(c, t) = t /\ FrameTime(c, t) = Horizon.start + Horizon.end - t
    BY <1>2, <1>3, <1>4, <1>6 DEF FrameTime, EST!FrameTime, Mirror
<1> QED
    BY <1>2, <1>3, <1>4, <1>5, <1>7, <1>8

LEMMA ReflectedBeam ==
    ASSUME NEW b \in Beams
    PROVE  /\ ReflectBeam(b).front = b.front /\ ReflectBeam(b).swept = b.swept
           /\ ReflectBeam(b).queue = b.queue
           /\ ReflectBeam(b).placed = ReflectAll(b.placed)
BY DEF ReflectBeam, Beams

(* The reflection of a period, and of a placement. *)
LEMMA ReflectPeriod ==
    ASSUME NEW p \in [start : Int, end : Int]
    PROVE  Reflect(p) = [start |-> Horizon.start + Horizon.end - p.end,
                         end   |-> Horizon.start + Horizon.end - p.start]
<1>1. Horizon.start + Horizon.end - p.end \in Int /\ Horizon.start + Horizon.end - p.start \in Int
    BY HorizonIsPeriod DEF PeriodsOver
<1>2. PICK x \in Int, y \in Int : /\ x = Horizon.start + Horizon.end - p.end
                                  /\ y = Horizon.start + Horizon.end - p.start
    BY <1>1
<1>3. PICK r : r = Reflect(p)
    OBVIOUS
<1>4. r = [p EXCEPT !.start = x, !.end = y]
    BY <1>2, <1>3 DEF Reflect
<1>5. r \in [start : Int, end : Int] /\ r.start = x /\ r.end = y
    BY <1>4
<1> QED
    BY <1>2, <1>3, <1>5

LEMMA ReflectFacts ==
    ASSUME NEW p \in Placements
    PROVE  /\ Reflect(p) \in Placements
           /\ Reflect(p) = [task |-> p.task, cursor |-> p.cursor,
                            start |-> Horizon.start + Horizon.end - p.end,
                            end   |-> Horizon.start + Horizon.end - p.start]
<1>1. Horizon.start + Horizon.end - p.end \in Int /\ Horizon.start + Horizon.end - p.start \in Int
    BY HorizonIsPeriod DEF PeriodsOver, Placements
<1>2. PICK x \in Int, y \in Int : /\ x = Horizon.start + Horizon.end - p.end
                                  /\ y = Horizon.start + Horizon.end - p.start
    BY <1>1
<1>3. PICK r : r = Reflect(p)
    OBVIOUS
<1>4. r = [p EXCEPT !.start = x, !.end = y]
    BY <1>2, <1>3 DEF Reflect
<1>5. r \in Placements /\ r.start = x /\ r.end = y /\ r.task = p.task /\ r.cursor = p.cursor
    BY <1>4 DEF Placements
<1>6. r = [task |-> r.task, cursor |-> r.cursor, start |-> r.start, end |-> r.end]
    BY <1>5 DEF Placements
<1> QED
    BY <1>2, <1>3, <1>5, <1>6

(* In frame time the two active regions are one.                           *)
LEMMA ReflectedRegion ==
    ASSUME Mirrored, NEW b, FrontsInExtent(b), NEW c \in Cursors
    PROVE  /\ EST!Active(ReflectBeam(b), c) = Reflect(Active(b, c))
           /\ EST!FrameActive(ReflectBeam(b), c) = FrameActive(b, c)
           /\ EST!HasActive(ReflectBeam(b), c) <=> HasActive(b, c)
<1>1. Horizon.start \in Int /\ Horizon.end \in Int
    BY HorizonIsPeriod DEF PeriodsOver
<1>2. PICK f \in Int : f = b.front[c]
    BY DEF FrontsInExtent, Beams
<1>3. EST!Position(ReflectBeam(b), c) = f /\ Position(b, c) = Horizon.start + Horizon.end - f
    BY <1>2, Frames, ReflectedBeam DEF EST!Position, Position, FrontsInExtent
<1>4. /\ EST!LowSide(ReflectBeam(b), c) = Horizon.start /\ LowSide(b, c) = Horizon.start
      /\ EST!HighSide(ReflectBeam(b), c) = Horizon.end /\ HighSide(b, c) = Horizon.end
    BY Frames DEF EST!LowSide, LowSide, EST!HighSide, HighSide
<1>5. Forward # Backward /\ EST!Forward = Forward
    BY DEF Forward, Backward, EST!Forward
<1>6. EST!Active(ReflectBeam(b), c) = [start |-> Later(Horizon.start, f), end |-> Horizon.end]
    BY <1>3, <1>4, <1>5, Frames, SameOperators DEF EST!Active
<1>7. Active(b, c) = [start |-> Horizon.start,
                      end |-> Earlier(Horizon.end, Horizon.start + Horizon.end - f)]
    BY <1>3, <1>4, <1>5, Frames DEF Active
<1>8. Reflect(Active(b, c)) = [start |-> Later(Horizon.start, f), end |-> Horizon.end]
    <2>1. PICK e : e = Earlier(Horizon.end, Horizon.start + Horizon.end - f)
        OBVIOUS
    <2>2. /\ Horizon.start + Horizon.end - e = Later(Horizon.start, f)
          /\ Horizon.start + Horizon.end - Horizon.start = Horizon.end
        BY <1>1, <2>1 DEF Later, Earlier
    <2>3. Active(b, c) = [start |-> Horizon.start, end |-> e]
        BY <1>7, <2>1
    <2>4. Reflect(Active(b, c)) = [start |-> Horizon.start + Horizon.end - e,
                                   end |-> Horizon.start + Horizon.end - Horizon.start]
        <3>1. Active(b, c) \in [start : Int, end : Int]
            BY <1>1, <2>1, <2>3 DEF Earlier
        <3> QED
            BY <2>3, <3>1, ReflectPeriod
    <2> QED
        BY <2>2, <2>4
<1>9. FrameActive(b, c) = Reflect(Active(b, c))
    BY Frames DEF FrameActive
<1>10. EST!FrameActive(ReflectBeam(b), c) = EST!Active(ReflectBeam(b), c)
    BY Frames DEF EST!FrameActive
<1>11. EST!HasActive(ReflectBeam(b), c) <=> HasActive(b, c)
    BY <1>1, <1>6, <1>7 DEF EST!HasActive, HasActive, Later, Earlier
<1> QED
    BY <1>6, <1>8, <1>9, <1>10, <1>11

LEMMA ReflectedRefresh ==
    ASSUME Mirrored, NEW b, FrontsInExtent(b)
    PROVE  EST!Refreshed(ReflectBeam(b)) = ReflectBeam(Refreshed(b))
<1>1. PICK sw : sw = [c \in Cursors |->
            IF HasActive(b, c) THEN Later(b.swept[c], FrameActive(b, c).start)
            ELSE b.swept[c]]
    OBVIOUS
<1>2. b \in Beams
    BY DEF FrontsInExtent
<1>3. Refreshed(b) = [b EXCEPT !.swept = sw]
    BY <1>1 DEF Refreshed
<1>4. EST!Refreshed(ReflectBeam(b)) = [ReflectBeam(b) EXCEPT !.swept = sw]
    <2>1. [c \in Cursors |->
            IF EST!HasActive(ReflectBeam(b), c)
            THEN EST!Later(ReflectBeam(b).swept[c], EST!FrameActive(ReflectBeam(b), c).start)
            ELSE ReflectBeam(b).swept[c]] = sw
        BY <1>1, <1>2, ReflectedBeam, ReflectedRegion, SameOperators
    <2> QED
        BY <2>1 DEF EST!Refreshed
<1> QED
    BY <1>2, <1>3, <1>4 DEF ReflectBeam, Beams

-----------------------------------------------------------------------------
(* The candidates of the two searches *)

LEMMA ReflectedUsable ==
    ASSUME Mirrored, NEW b, FrontsInExtent(b), NEW c \in Cursors, NEW t \in Tasks
    PROVE  EST!Usable(ReflectBeam(b), c, t) = Usable(b, c, t)
<1>1. /\ EST!FrameActive(ReflectBeam(b), c) = FrameActive(b, c)
      /\ ReflectBeam(b).swept = b.swept
    BY ReflectedRegion, ReflectedBeam DEF FrontsInExtent
<1>2. {EST!FramePeriod(c, v) : v \in ReflectProblem(problem).windows[t]}
        = {FramePeriod(c, v) : v \in problem.windows[t]}
    BY Frames, ReflectedProblem DEF ReflectAll
<1>3. ReflectProblem(problem).dur = problem.dur
    BY ReflectedProblem
<1> QED
    BY <1>1, <1>2, <1>3, SameOperators DEF EST!Usable, Usable

LEMMA ReflectedCandidates ==
    ASSUME Mirrored, NEW b, FrontsInExtent(b), NEW c \in Cursors
    PROVE  EST!Candidates(ReflectBeam(b), c) = Candidates(b, c)
<1>1. /\ ReflectBeam(b).queue = b.queue /\ b.queue[c] \subseteq Tasks
      /\ EST!HasActive(ReflectBeam(b), c) <=> HasActive(b, c)
    BY ReflectedRegion, ReflectedBeam DEF FrontsInExtent, Beams
<1>2. \A t \in Tasks : EST!Usable(ReflectBeam(b), c, t) = Usable(b, c, t)
    BY ReflectedUsable
<1>3. EST!Schedulable(ReflectBeam(b), c) = Schedulable(b, c) /\ Schedulable(b, c) \subseteq Tasks
    BY <1>1, <1>2 DEF EST!Schedulable, Schedulable
<1>4. \A t \in Tasks : EST!Est(ReflectBeam(b), c, t) = Est(b, c, t)
    BY <1>2, SameOperators DEF EST!Est, Est
<1>5. \A t \in Tasks : EST!MapThenSumSet(EST!Span, EST!Usable(ReflectBeam(b), c, t))
                        = MapThenSumSet(Span, Usable(b, c, t))
    BY <1>2, SameOperators
<1> QED
    BY <1>3, <1>4, <1>5 DEF EST!Candidates, Candidates

LEMMA SameRanks ==
    ASSUME Mirrored
    PROVE  \A cs, at, k : EST!Rank(cs, at, k) = Rank(cs, at, k)
<1>1. ReflectProblem(problem).dur = problem.dur
    BY ReflectedProblem
<1>2. \A k : EST!Endangered(k) <=> Endangered(k)
    BY <1>1 DEF EST!Endangered, Endangered
<1>3. \A cs, k : EST!EffectiveEst(cs, k) = EffectiveEst(cs, k)
    BY <1>1 DEF EST!EffectiveEst, EffectiveEst, EST!Max, Max, EST!Endangered, Endangered
<1>4. \A p, q : EST!LexLess(p, q) <=> LexLess(p, q)
    BY SameOperators
<1>5. \A cs, at, k, l : EST!Before(cs, at, k, l) <=> Before(cs, at, k, l)
    BY <1>1, <1>2, <1>3, <1>4 DEF EST!Before, Before
<1> QED
    BY <1>5 DEF EST!Rank, Rank, EST!Cardinality, Cardinality

LEMMA ReflectedActions ==
    ASSUME Mirrored, NEW b, FrontsInExtent(b)
    PROVE  EST!Actions(ReflectBeam(b)) = Actions(b)
<1>1. ASSUME NEW c \in Cursors
      PROVE  EST!ActionsOf(ReflectBeam(b), c) = ActionsOf(b, c)
    <2>1. /\ EST!Candidates(ReflectBeam(b), c) = Candidates(b, c)
          /\ EST!FrameActive(ReflectBeam(b), c) = FrameActive(b, c)
        BY ReflectedCandidates, ReflectedRegion
    <2> QED
        BY <2>1, SameRanks DEF EST!ActionsOf, ActionsOf
<1> QED
    BY <1>1 DEF EST!Actions, Actions

-----------------------------------------------------------------------------
(* The placements of the two searches *)

LEMMA ReflectedPlacement ==
    ASSUME Mirrored, NEW b, FrontsInExtent(b), NEW a \in Actions(b)
    PROVE  EST!Placement(a) = Reflect(Placement(a))
<1>1. a.cursor \in Cursors /\ a.est \in Int /\ problem.dur[a.task] \in Int
    BY ActionFacts, WindowFacts DEF Mirrored
<1>2. PICK hs \in Int, he \in Int : hs = Horizon.start /\ he = Horizon.end
    BY HorizonIsPeriod DEF PeriodsOver
<1>3. PICK s \in Int, e \in Int : s = a.est /\ e = a.est + problem.dur[a.task]
    BY <1>1
<1>4. ReflectProblem(problem).dur = problem.dur
    BY ReflectedProblem
<1>5. EST!Placement(a) = [task |-> a.task, cursor |-> a.cursor, start |-> s, end |-> e]
    BY <1>1, <1>3, <1>4, Frames DEF EST!Placement
<1>6. Placement(a) = [task |-> a.task, cursor |-> a.cursor,
                      start |-> hs + he - e, end |-> hs + he - s]
    <2>1. FramePeriod(a.cursor, [start |-> s, end |-> e]) = [start |-> hs + he - e, end |-> hs + he - s]
        <3>1. PICK p \in [start : Int, end : Int] : p = [start |-> s, end |-> e]
            OBVIOUS
        <3>2. FramePeriod(a.cursor, p) = Reflect(p)
            BY <1>1, Frames
        <3> QED
            BY <1>2, <3>1, <3>2, ReflectPeriod
    <2> QED
        BY <1>3, <2>1 DEF Placement
<1>7. hs + he - (hs + he - s) = s /\ hs + he - (hs + he - e) = e
    OBVIOUS
<1>8. PICK p \in Placements : p = Placement(a)
    BY PlacementFacts DEF Mirrored
<1>9. Reflect(p) = [task |-> p.task, cursor |-> p.cursor,
                    start |-> hs + he - p.end, end |-> hs + he - p.start]
    BY <1>2, ReflectFacts
<1>10. p.task = a.task /\ p.cursor = a.cursor /\ p.start = hs + he - e /\ p.end = hs + he - s
    BY <1>6, <1>8
<1> QED
    BY <1>5, <1>7, <1>8, <1>9, <1>10

LEMMA ReflectedAllowed ==
    ASSUME Mirrored, NEW b, FrontsInExtent(b), NEW a \in Actions(b)
    PROVE  EST!Allowed(ReflectBeam(b), a) <=> Allowed(b, a)
<1>1. PICK p \in Placements : p = Placement(a)
    BY PlacementFacts DEF Mirrored
<1>2. EST!Placement(a) = Reflect(p)
    BY <1>1, ReflectedPlacement
<1>3. p.cursor \in Cursors /\ b \in Beams
    BY DEF Placements, FrontsInExtent
<1>4. PICK hs \in Int, he \in Int : hs = Horizon.start /\ he = Horizon.end
    BY HorizonIsPeriod DEF PeriodsOver
<1>5. /\ Reflect(p).task = p.task /\ Reflect(p).cursor = p.cursor
      /\ Reflect(p).start = hs + he - p.end /\ Reflect(p).end = hs + he - p.start
      /\ p.start \in Int /\ p.end \in Int
    BY <1>4, ReflectFacts DEF Placements
<1>6. ReflectBeam(b).placed = ReflectAll(b.placed) /\ b.placed \subseteq Placements
    BY <1>3, ReflectedBeam DEF Beams
<1>7. EST!TasksOf(ReflectBeam(b).placed) = TasksOf(b.placed)
    <2>1. \A r \in b.placed : Reflect(r).task = r.task
        BY <1>6, ReflectFacts
    <2> QED
        BY <1>6, <2>1, SameOperators DEF TasksOf, ReflectAll
<1>8. EST!DependenciesMet(ReflectBeam(b).placed, Reflect(p)) /\ DependenciesMet(b.placed, p)
    <2>1. AllPredecessors(p.task) = {}
        BY ReflectedProblem DEF AllPredecessors, Predecessors
    <2>2. EST!AllPredecessors(Reflect(p).task) = {}
        BY ReflectedProblem DEF EST!AllPredecessors, EST!Predecessors
    <2> QED
        BY <2>1, <2>2 DEF EST!DependenciesMet, DependenciesMet
<1>9. EST!Inside(Reflect(p), EST!Active(ReflectBeam(b), p.cursor)) <=> Inside(p, Active(b, p.cursor))
    <2>1. PICK s \in Int, e \in Int : Active(b, p.cursor) = [start |-> s, end |-> e]
        BY <1>3, ActiveFacts DEF Mirrored
    <2>2. EST!Active(ReflectBeam(b), p.cursor) = [start |-> hs + he - e, end |-> hs + he - s]
        <3>1. PICK A \in [start : Int, end : Int] : A = Active(b, p.cursor)
            BY <2>1
        <3>2. Reflect(A) = [start |-> hs + he - A.end, end |-> hs + he - A.start]
            BY <1>4, ReflectPeriod
        <3> QED
            BY <1>3, <2>1, <3>1, <3>2, ReflectedRegion
    <2> QED
        BY <1>5, <2>1, <2>2, SameOperators DEF Inside
<1>10. (\A r \in ReflectBeam(b).placed : ~ EST!Overlaps(r, Reflect(p)))
         <=> \A r \in b.placed : ~ Overlaps(r, p)
    <2>1. ASSUME NEW r \in b.placed
          PROVE  EST!Overlaps(Reflect(r), Reflect(p)) <=> Overlaps(r, p)
        <3>1. /\ Reflect(r).start = hs + he - r.end /\ Reflect(r).end = hs + he - r.start
              /\ r.start \in Int /\ r.end \in Int
            BY <1>4, <1>6, ReflectFacts DEF Placements
        <3> QED
            BY <1>5, <3>1, SameOperators DEF Overlaps
    <2> QED
        BY <1>6, <2>1 DEF ReflectAll
<1> QED
    BY <1>1, <1>2, <1>5, <1>7, <1>8, <1>9, <1>10 DEF EST!Allowed, EST!Valid, Allowed, Valid

LEMMA ReflectedChosen ==
    ASSUME Mirrored, NEW b, FrontsInExtent(b)
    PROVE  /\ EST!Viable(ReflectBeam(b), EST!Actions(ReflectBeam(b))) = Viable(b, Actions(b))
           /\ \A V : EST!Chosen(V) = Chosen(V)
           /\ \A a, d : EST!ActionBefore(a, d) <=> ActionBefore(a, d)
<1>1. EST!Actions(ReflectBeam(b)) = Actions(b)
    BY ReflectedActions
<1>2. \A a \in Actions(b) : EST!Allowed(ReflectBeam(b), a) <=> Allowed(b, a)
    BY ReflectedAllowed
<1>3. ReflectProblem(problem).dur = problem.dur
    BY ReflectedProblem
<1>4. \A a \in Actions(b) :
        EST!Dominated(ReflectBeam(b), Actions(b), a) <=> Dominated(b, Actions(b), a)
    BY <1>2, <1>3 DEF EST!Dominated, Dominated
<1>5. EST!Viable(ReflectBeam(b), Actions(b)) = Viable(b, Actions(b))
    BY <1>2, <1>4 DEF EST!Viable, Viable
<1>6. \A a, d : EST!ActionBefore(a, d) <=> ActionBefore(a, d)
    BY SameOperators DEF EST!ActionBefore, ActionBefore
<1>7. \A V : EST!Chosen(V) = Chosen(V)
    BY <1>6 DEF EST!Chosen, Chosen, EST!Cardinality, Cardinality
<1> QED
    BY <1>1, <1>5, <1>6, <1>7

LEMMA ReflectedChild ==
    ASSUME Mirrored, NEW b, FrontsInExtent(b), NEW a \in Actions(b)
    PROVE  EST!Child(ReflectBeam(b), a) = ReflectBeam(Child(b, a))
<1>1. b \in Beams /\ a.cursor \in Cursors
    BY ActionFacts DEF FrontsInExtent, Mirrored
<1>2. EST!Placement(a) = Reflect(Placement(a)) /\ ReflectProblem(problem).dur = problem.dur
    BY ReflectedPlacement, ReflectedProblem
<1>3. PICK f : f = [b.front EXCEPT ![a.cursor] = a.est + problem.dur[a.task]]
    OBVIOUS
<1>4. PICK q : q = [c \in Cursors |-> b.queue[c] \ {a.task}]
    OBVIOUS
<1>5. Child(b, a) = [b EXCEPT !.placed = b.placed \cup {Placement(a)}, !.front = f, !.queue = q]
    BY <1>1, <1>3, <1>4 DEF Child, Beams
<1>6. ReflectBeam(Child(b, a)) =
        [b EXCEPT !.placed = ReflectAll(b.placed \cup {Placement(a)}), !.front = f, !.queue = q]
    BY <1>1, <1>5 DEF ReflectBeam, Beams
<1>7. ReflectAll(b.placed \cup {Placement(a)}) = ReflectAll(b.placed) \cup {Reflect(Placement(a))}
    BY DEF ReflectAll
<1>8. ReflectBeam(b) = [b EXCEPT !.placed = ReflectAll(b.placed)]
    BY DEF ReflectBeam
<1>9. EST!Child(ReflectBeam(b), a) =
        [b EXCEPT !.placed = ReflectAll(b.placed) \cup {EST!Placement(a)}, !.front = f, !.queue = q]
    BY <1>1, <1>2, <1>3, <1>4, <1>8 DEF EST!Child, Beams
<1> QED
    BY <1>2, <1>6, <1>7, <1>9

LEMMA ReflectedSeed ==
    ASSUME Mirrored
    PROVE  EST!Seed = ReflectBeam(Seed)
<1>1. \A c \in Cursors : EST!Extent(c) = Extent(c)
    BY Frames
<1>2. \A t \in Tasks : ReflectProblem(problem).windows[t] # {} <=> problem.windows[t] # {}
    BY ReflectedProblem DEF ReflectAll
<1>3. ReflectAll({}) = {}
    BY DEF ReflectAll
<1> QED
    <2>1. EST!Seed = Seed
        BY <1>1, <1>2 DEF EST!Seed, Seed
    <2>2. Seed \in Beams
        BY SeedOK DEF Mirrored, BeamOK, FrontsInExtent
    <2>3. Seed.placed = {}
        BY DEF Seed
    <2>4. PICK r : r = ReflectBeam(Seed)
        OBVIOUS
    <2>5. r = [Seed EXCEPT !.placed = {}]
        BY <1>3, <2>3, <2>4 DEF ReflectBeam
    <2>6. PICK s \in Beams : s = Seed /\ s.placed = {}
        BY <2>2, <2>3
    <2>7. /\ r \in Beams /\ r.placed = s.placed /\ r.front = s.front /\ r.swept = s.swept
          /\ r.queue = s.queue
        BY <2>5, <2>6 DEF Beams
    <2>8. /\ r = [placed |-> r.placed, front |-> r.front, swept |-> r.swept, queue |-> r.queue]
          /\ s = [placed |-> s.placed, front |-> s.front, swept |-> s.swept, queue |-> s.queue]
        BY <2>7 DEF Beams
    <2> QED
        BY <2>1, <2>4, <2>6, <2>7, <2>8

-----------------------------------------------------------------------------
(* The steps of the two searches *)

LEMMA ReflectedIsBeam ==
    ASSUME NEW b \in Beams
    PROVE  ReflectBeam(b) \in Beams
<1>1. ReflectAll(b.placed) \in SUBSET Placements
    <2>1. \A p \in b.placed : p \in Placements
        BY DEF Beams
    <2> QED
        BY <2>1, ReflectFacts DEF ReflectAll
<1> QED
    BY <1>1 DEF ReflectBeam, Beams

LEMMA ReflectedSequence ==
    ASSUME NEW s \in Seq(Beams)
    PROVE  /\ ReflectBeams(s) \in Seq(Beams) /\ Len(ReflectBeams(s)) = Len(s)
           /\ \A i \in 1 .. Len(s) : ReflectBeams(s)[i] = ReflectBeam(s[i])
           /\ ReflectBeams(s) = <<>> <=> s = <<>>
<1>1. DOMAIN s = 1 .. Len(s) /\ Len(s) \in Nat /\ \A i \in 1 .. Len(s) : s[i] \in Beams
    OBVIOUS
<1>2. ReflectBeams(s) \in [1 .. Len(s) -> Beams]
    BY <1>1, ReflectedIsBeam DEF ReflectBeams
<1>3. ReflectBeams(s) \in Seq(Beams) /\ Len(ReflectBeams(s)) = Len(s)
    BY <1>1, <1>2
<1>4. \A i \in 1 .. Len(s) : ReflectBeams(s)[i] = ReflectBeam(s[i])
    BY <1>1 DEF ReflectBeams
<1>5. ReflectBeams(s) = <<>> <=> s = <<>>
    BY <1>1, <1>3
<1> QED
    BY <1>3, <1>4, <1>5

LEMMA ReflectedTail ==
    ASSUME NEW s \in Seq(Beams), s # <<>>
    PROVE  /\ Head(ReflectBeams(s)) = ReflectBeam(Head(s))
           /\ Tail(ReflectBeams(s)) = ReflectBeams(Tail(s))
<1>1. PICK n \in Nat : Len(s) = n + 1
    OBVIOUS
<1>2. Tail(s) \in Seq(Beams) /\ Len(Tail(s)) = n /\ \A i \in 1 .. n : Tail(s)[i] = s[i + 1]
    BY <1>1
<1>3. PICK r \in Seq(Beams) : r = ReflectBeams(s)
    BY ReflectedSequence
<1>4. r # <<>> /\ Len(r) = n + 1 /\ \A i \in 1 .. n + 1 : r[i] = ReflectBeam(s[i])
    BY <1>1, <1>3, ReflectedSequence
<1>5. /\ Head(r) = r[1] /\ Head(s) = s[1] /\ 1 \in 1 .. n + 1
      /\ Tail(r) \in Seq(Beams) /\ Len(Tail(r)) = n /\ \A i \in 1 .. n : Tail(r)[i] = r[i + 1]
    BY <1>4
<1>6. PICK t \in Seq(Beams) : t = ReflectBeams(Tail(s))
    BY <1>2, ReflectedSequence
<1>7. Len(t) = n /\ \A i \in 1 .. n : t[i] = ReflectBeam(Tail(s)[i])
    BY <1>2, <1>6, ReflectedSequence
<1>8. \A i \in 1 .. n : Tail(r)[i] = t[i]
    <2> TAKE i \in 1 .. n
    <2>1. i + 1 \in 1 .. n + 1
        OBVIOUS
    <2> QED
        BY <1>2, <1>4, <1>5, <1>7, <2>1
<1>9. Tail(r) = t
    BY <1>5, <1>7, <1>8, SeqEqual
<1> QED
    BY <1>3, <1>4, <1>5, <1>6, <1>9

LEMMA Joined ==
    ASSUME NEW S, NEW a \in Seq(S), NEW n \in Nat, NEW f \in [1 .. n -> S]
    PROVE  /\ a \o f \in Seq(S) /\ Len(a \o f) = Len(a) + n
           /\ \A i \in 1 .. Len(a) : (a \o f)[i] = a[i]
           /\ \A i \in 1 .. n : (a \o f)[Len(a) + i] = f[i]
<1>1. f \in Seq(S) /\ Len(f) = n
    OBVIOUS
<1>2. PICK m \in Nat : m = Len(a)
    OBVIOUS
<1>3. PICK r : r = a \o f
    OBVIOUS
<1>4. r \in Seq(S) /\ Len(r) = m + n
    BY <1>1, <1>2, <1>3, ConcatProperties
<1>5. \A i \in 1 .. m + n : r[i] = IF i <= m THEN a[i] ELSE f[i - m]
    BY <1>1, <1>2, <1>3, ConcatProperties
<1>6. \A i \in 1 .. m : r[i] = a[i]
    BY <1>5
<1>7. \A i \in 1 .. n : r[m + i] = f[i]
    <2> TAKE i \in 1 .. n
    <2>1. m + i \in 1 .. m + n /\ ~ (m + i <= m) /\ m + i - m = i
        OBVIOUS
    <2> QED
        BY <1>5, <2>1
<1> QED
    BY <1>2, <1>3, <1>4, <1>6, <1>7

LEMMA ReflectedConcat ==
    ASSUME NEW s \in Seq(Beams), NEW n \in Nat, NEW f \in [1 .. n -> Beams]
    PROVE  ReflectBeams(s \o f) = ReflectBeams(s) \o [i \in 1 .. n |-> ReflectBeam(f[i])]
<1>1. PICK m \in Nat : m = Len(s)
    OBVIOUS
<1>2. PICK r : r = s \o f
    OBVIOUS
<1>5. /\ r \in Seq(Beams) /\ Len(r) = m + n
      /\ \A i \in 1 .. m : r[i] = s[i]
      /\ \A j \in 1 .. n : r[m + j] = f[j]
    BY <1>1, <1>2, Joined
<1>6. PICK g \in [1 .. n -> Beams] : g = [i \in 1 .. n |-> ReflectBeam(f[i])]
    BY ReflectedIsBeam
<1>7. PICK u \in Seq(Beams) : u = ReflectBeams(s)
    BY ReflectedSequence
<1>8. Len(u) = m /\ \A i \in 1 .. m : u[i] = ReflectBeam(s[i])
    BY <1>1, <1>7, ReflectedSequence
<1>9. PICK v : v = u \o g
    OBVIOUS
<1>10. /\ v \in Seq(Beams) /\ Len(v) = m + n
       /\ \A i \in 1 .. m : v[i] = u[i]
       /\ \A j \in 1 .. n : v[m + j] = g[j]
    <2>1. m = Len(u)
        BY <1>8
    <2> QED
        BY ONLY <1>9, <2>1, m \in Nat, n \in Nat, u \in Seq(Beams), g \in [1 .. n -> Beams], Joined
<1>11. PICK w \in Seq(Beams) : w = ReflectBeams(r)
    BY <1>5, ReflectedSequence
<1>12. Len(w) = m + n /\ \A i \in 1 .. m + n : w[i] = ReflectBeam(r[i])
    BY <1>5, <1>11, ReflectedSequence
<1>13. \A i \in 1 .. m + n : v[i] = w[i]
    <2> TAKE i \in 1 .. m + n
    <2>1. CASE i \in 1 .. m
        BY <1>5, <1>8, <1>10, <1>12, <2>1
    <2>2. CASE i \notin 1 .. m
        <3>1. PICK j \in 1 .. n : i = m + j
            BY <2>2
        <3> QED
            BY <1>5, <1>6, <1>10, <1>12, <3>1
    <2> QED
        BY <2>1, <2>2
<1>14. v = w
    BY <1>10, <1>12, <1>13, SeqEqual
<1> QED
    BY <1>2, <1>6, <1>7, <1>9, <1>11, <1>14

(* The reflected variables that stay with theirs. *)
LEMMA ReflectedInputs ==
    ASSUME UNCHANGED inputs
    PROVE  UNCHANGED EST!inputs
BY DEF inputs, EST!inputs

LEMMA ReflectedExpand ==
    ASSUME Mirrored, Safe, Expand
    PROVE  EST!Expand
<1>1. PICK h \in Beams : h = Head(live) /\ FrontsInExtent(h) /\ BeamOK(h)
    <2>1. live \in Seq(Beams) /\ live # <<>>
        BY DEF Safe, TypeOK, Expand
    <2>2. Head(live) \in AllBeams /\ Head(live) \in Beams
        BY <2>1, TailFacts DEF AllBeams
    <2> QED
        BY <2>2 DEF Safe, BeamOK
<1>2. PICK b \in Beams : b = Refreshed(h) /\ FrontsInExtent(b)
    <2>1. BeamOK(Refreshed(h))
        BY <1>1, RefreshedOK DEF Mirrored
    <2> QED
        BY <2>1 DEF BeamOK, FrontsInExtent
<1>3. PICK chosen : chosen = Chosen(Viable(b, Actions(b)))
    OBVIOUS
<1>4. \/ chosen = {} /\ Retire(b)
      \/ chosen # {} /\ Branch(b, chosen)
    BY <1>1, <1>2, <1>3 DEF Expand
<1>5. /\ live \in Seq(Beams) /\ live # <<>> /\ next \in Seq(Beams)
      /\ live' = Tail(live) /\ UNCHANGED inputs /\ result' = result
    BY DEF Expand, Safe, TypeOK
<1>6. /\ ReflectBeams(live) # <<>>
      /\ Head(ReflectBeams(live)) = ReflectBeam(h)
      /\ ReflectBeams(live') = Tail(ReflectBeams(live))
    BY <1>1, <1>5, ReflectedSequence, ReflectedTail
<1>7. EST!Refreshed(ReflectBeam(h)) = ReflectBeam(b)
    BY <1>1, <1>2, ReflectedRefresh
<1>8. EST!Chosen(EST!Viable(ReflectBeam(b), EST!Actions(ReflectBeam(b)))) = chosen
    BY <1>2, <1>3, ReflectedChosen
<1>9. \A a \in chosen : a \in Actions(b)
    BY <1>3 DEF Chosen, Viable
<1>10. {ReflectBeam(x) : x \in terminal \cup {b}} = {ReflectBeam(x) : x \in terminal} \cup {ReflectBeam(b)}
    OBVIOUS
<1>11. \/ chosen = {} /\ EST!Retire(ReflectBeam(b))
       \/ chosen # {} /\ EST!Branch(ReflectBeam(b), chosen)
    <2>1. ASSUME chosen = {}, Retire(b)
          PROVE  EST!Retire(ReflectBeam(b))
        BY <1>10, <2>1 DEF Retire, EST!Retire
    <2>2. ASSUME chosen # {}, Branch(b, chosen)
          PROVE  EST!Branch(ReflectBeam(b), chosen)
        <3>1. PICK order \in [1 .. Cardinality(chosen) -> chosen] :
                  /\ \A i, j \in DOMAIN order : i < j => ActionBefore(order[i], order[j])
                  /\ next' = next \o [i \in DOMAIN order |-> Child(b, order[i])]
            BY <2>2 DEF Branch
        <3>2. PICK n \in Nat : n = Cardinality(chosen)
            <4>1. chosen \in SUBSET Actions(b)
                BY <1>9
            <4> QED
                BY <1>2, <4>1, ActionsFinite, FS_Subset, FS_CardinalityType DEF Mirrored
        <3>3. DOMAIN order = 1 .. n /\ \A i \in 1 .. n : order[i] \in Actions(b)
            BY <1>9, <3>1, <3>2
        <3>4. PICK f \in [1 .. n -> Beams] : f = [i \in 1 .. n |-> Child(b, order[i])]
            BY <1>2, <3>3, ChildFields DEF Mirrored
        <3>5. [i \in 1 .. n |-> ReflectBeam(f[i])]
                = [i \in 1 .. n |-> EST!Child(ReflectBeam(b), order[i])]
            <4>1. \A i \in 1 .. n : ReflectBeam(f[i]) = EST!Child(ReflectBeam(b), order[i])
                BY <1>2, <3>3, <3>4, ReflectedChild
            <4> QED
                BY <4>1
        <3>6. next' = next \o f
            BY <3>1, <3>3, <3>4
        <3>7. ReflectBeams(next') = ReflectBeams(next)
                 \o [i \in DOMAIN order |-> EST!Child(ReflectBeam(b), order[i])]
            <4>1. PICK s \in Seq(Beams) : s = next
                BY <1>5
            <4>2. ReflectBeams(s \o f) = ReflectBeams(s) \o [i \in 1 .. n |-> ReflectBeam(f[i])]
                BY ReflectedConcat
            <4>3. PICK r : r = s \o f
                OBVIOUS
            <4>4. next' = r
                BY <3>6, <4>1, <4>3
            <4>5. ReflectBeams(next') = ReflectBeams(r)
                BY <4>4
            <4> QED
                BY <3>3, <3>5, <4>1, <4>2, <4>3, <4>5
        <3>8. order \in [1 .. EST!Cardinality(chosen) -> chosen]
            BY <3>1, SameOperators
        <3>9. \A i, j \in DOMAIN order : i < j => EST!ActionBefore(order[i], order[j])
            BY <1>2, <3>1, ReflectedChosen
        <3>10. terminal' = terminal
            BY <2>2 DEF Branch
        <3> QED
            BY <3>7, <3>8, <3>9, <3>10 DEF EST!Branch
    <2> QED
        BY <1>4, <2>1, <2>2
<1>12. UNCHANGED <<EST!inputs, {ReflectAll(s) : s \in result}>>
    BY <1>5, ReflectedInputs
<1> QED
    BY <1>6, <1>7, <1>8, <1>11, <1>12 DEF EST!Expand

LEMMA ReflectedTruncate ==
    ASSUME Mirrored, Safe, Truncate
    PROVE  EST!Truncate
<1>1. /\ live = <<>> /\ live \in Seq(Beams) /\ next \in Seq(Beams) /\ next # <<>> /\ next' = <<>>
      /\ UNCHANGED <<inputs, terminal, result>>
    BY DEF Truncate, Safe, TypeOK
<1>2. PICK best \in [1 .. Kept -> 1 .. Len(next)] :
         /\ \A i, j \in 1 .. Kept : i # j => best[i] # best[j]
         /\ live' = [i \in 1 .. Kept |-> next[best[i]]]
    BY DEF Truncate
<1>3. PICK k \in Nat : k = Kept
    BY TruncateKeeps
<1>4. EST!Kept = k
    BY <1>1, <1>3, ReflectedSequence, SameOperators DEF EST!Kept, Kept
<1>5. \A i \in 1 .. k : best[i] \in 1 .. Len(next)
    BY <1>2, <1>3
<1>6. DOMAIN live' = 1 .. k /\ \A i \in 1 .. k : live'[i] = next[best[i]]
    BY <1>2, <1>3
<1>7. ReflectBeams(live') = [i \in 1 .. k |-> ReflectBeams(next)[best[i]]]
    BY <1>1, <1>5, <1>6, ReflectedSequence DEF ReflectBeams
<1>8. /\ ReflectBeams(live) = <<>> /\ ReflectBeams(next) # <<>>
      /\ Len(ReflectBeams(next)) = Len(next)
    BY <1>1, ReflectedSequence
<1>9. ReflectBeams(next') = <<>>
    <2>1. <<>> \in Seq(Beams)
        OBVIOUS
    <2>2. ReflectBeams(<<>>) = <<>>
        BY <2>1, ReflectedSequence
    <2> QED
        BY <1>1, <2>2
<1>10. best \in [1 .. k -> 1 .. Len(next)] /\ \A i, j \in 1 .. k : i # j => best[i] # best[j]
    BY <1>2, <1>3
<1>11. UNCHANGED <<EST!inputs, {ReflectBeam(b) : b \in terminal}, {ReflectAll(s) : s \in result}>>
    BY <1>1, ReflectedInputs
<1> QED
    BY <1>4, <1>7, <1>8, <1>9, <1>10, <1>11 DEF EST!Truncate

LEMMA ReflectedReturn ==
    ASSUME Safe, Return
    PROVE  EST!Return
<1>1. /\ live = <<>> /\ live \in Seq(Beams) /\ next = <<>> /\ next \in Seq(Beams)
      /\ result = {} /\ UNCHANGED <<inputs, live, next, terminal>> /\ terminal \subseteq Beams
    BY DEF Return, Safe, TypeOK
<1>2. PICK b \in terminal : result' = {b.placed}
    BY DEF Return
<1>3. ReflectBeams(live) = <<>> /\ ReflectBeams(next) = <<>>
    BY <1>1, ReflectedSequence
<1>4. ReflectBeam(b).placed = ReflectAll(b.placed)
    BY <1>1, ReflectedBeam
<1>5. {ReflectAll(s) : s \in result'} = {ReflectBeam(b).placed} /\ {ReflectAll(s) : s \in result} = {}
    BY <1>1, <1>2, <1>4
<1>6. ReflectBeam(b) \in {ReflectBeam(x) : x \in terminal}
    OBVIOUS
<1>7. UNCHANGED <<EST!inputs, ReflectBeams(live), ReflectBeams(next), {ReflectBeam(x) : x \in terminal}>>
    BY <1>1, ReflectedInputs
<1> QED
    BY <1>3, <1>5, <1>6, <1>7 DEF EST!Return

LEMMA ReflectedInit ==
    ASSUME AllBackward, NoDependencies, Init
    PROVE  EST!Init
<1>1. Mirrored
    BY DEF Mirrored, Inputs, Init
<1>2. /\ layout \in Layouts /\ problem \in Problems
      /\ live = <<Seed>> /\ next = <<>> /\ terminal = {} /\ result = {}
    BY DEF Init
<1>3. EST!Seed = ReflectBeam(Seed) /\ Seed \in Beams
    BY <1>1, ReflectedSeed, SeedOK DEF Mirrored, BeamOK, FrontsInExtent
<1>4. ReflectBeams(live) = <<EST!Seed>>
    BY <1>2, <1>3 DEF ReflectBeams
<1>5. ReflectBeams(next) = <<>>
    <2>1. next \in Seq(Beams)
        BY <1>2
    <2> QED
        BY <1>2, <2>1, ReflectedSequence
<1> QED
    BY <1>2, <1>4, <1>5 DEF EST!Init

(* A search whose cursors all run backward over the whole horizon,         *)
(* reflected about the middle of the horizon, is step for step a search    *)
(* with forward cursors on the reflected problem, for any number of        *)
(* cursors, any windows, durations and widths, as long as no task waits    *)
(* for another (lst/tests.rs, lst_equals_unmirror_est_mirror).             *)
THEOREM LstReflectsEst ==
    ASSUME AllBackward, NoDependencies
    PROVE  Spec => LstIsReflectedEst
<1>1. Init => EST!Init
    BY ReflectedInit
<1>2. Safe /\ [Next]_vars => [EST!Next]_EST!vars
    <2> SUFFICES ASSUME Safe, [Next]_vars
                 PROVE  [EST!Next]_EST!vars
        OBVIOUS
    <2>1. Mirrored
        BY DEF Mirrored, Inputs, Safe, TypeOK
    <2>2. ASSUME UNCHANGED vars
          PROVE  UNCHANGED EST!vars
        BY <2>2 DEF vars, EST!vars
    <2> QED
        BY <2>1, <2>2, ReflectedExpand, ReflectedTruncate, ReflectedReturn
        DEF Next, Finished, EST!Next
<1> QED
    BY <1>1, <1>2, SearchIsSafe, PTL DEF Spec, LstIsReflectedEst
===========================================================================
