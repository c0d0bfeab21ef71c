------------------------------ MODULE MCCursor ------------------------------
(***************************************************************************)
(* Small instances of the beam search: three tasks, two cursors, a horizon *)
(* of six ticks, and every problem and layout below as an initial state.   *)
(***************************************************************************)
EXTENDS CursorProperties, TLC

MCHorizon == [start |-> 0, end |-> 6]

At(t) == [follows |-> NoCursor, at |-> t]
FollowsBelow(c) == [follows |-> c, at |-> MCHorizon.start]
FollowsAbove(c) == [follows |-> c, at |-> MCHorizon.end]

Config(dir, lo, hi, gap) == [dir |-> dir, lo |-> lo, hi |-> hi, gap |-> gap]

(* dynamic_est_lst_meet, with a gap for each cursor *)
Meet(gap0, gap1) == 0 :> Config(Forward, At(0), FollowsAbove(1), gap0)
                    @@ 1 :> Config(Backward, FollowsBelow(0), At(6), gap1)

(* dynamic_start_mid_forward *)
StartMid == 0 :> Config(Forward, At(0), FollowsAbove(1), 0)
            @@ 1 :> Config(Forward, At(3), At(6), 0)

(* est_lst_split: the fixed halves of the horizon, from both ends *)
Split == 0 :> Config(Forward, At(0), At(3), 0)
         @@ 1 :> Config(Backward, At(3), At(6), 0)

(* fixed territories that overlap, the second reaching past the horizon *)
Overlapping == 0 :> Config(Forward, At(0), At(4), 0)
               @@ 1 :> Config(Forward, At(2), At(8), 0)

(* a region that opens towards the past as the cursor it follows retreats *)
Trailing == 0 :> Config(Forward, FollowsBelow(1), At(6), 0)
            @@ 1 :> Config(Backward, At(0), At(6), 0)

TrailingLayout == {Trailing}
AdvancingLayouts == {Meet(0, 0), Meet(2, 1), StartMid, Split, Overlapping}
AllLayouts == AdvancingLayouts \cup TrailingLayout

(* single_backward: LST *)
BackwardLayout == {0 :> Config(Backward, At(0), At(6), 0)}

P(s, e) == [start |-> s, end |-> e]
WindowSets == {{P(0, 3)}, {P(0, 2), P(4, 6)}, {P(2, 6)}, {}}

(* The last task may have no window, and differs in length from the first. *)
MCProblems ==
    [windows : {w \in [Tasks -> WindowSets] :
                   w[3] # {P(0, 3)} /\ \A t \in Tasks \ {3} : w[t] # {}},
     dur     : {d \in [Tasks -> {1, 2}] : d[3] # d[1]},
     deps    : {{}, {<<1, 2>>, <<2, 3>>}}]

FreeProblems == [windows : [Tasks -> WindowSets],
                 dur     : [Tasks -> {1, 2}],
                 deps    : {{}}]

MCSoftScore(t, at) == IF t = 3 /\ at >= 2 THEN 1 ELSE 0
=============================================================================
