--------------------------- MODULE PeriodAlgebra ---------------------------
(***************************************************************************)
(* Sets of periods in normal form (schedulers/src/time/interval.rs,        *)
(* period_set.rs).                                                         *)
(*                                                                         *)
(* Instants are whole ticks; a period [start, end) stands for the ticks in *)
(* it, so that two sets of periods mean the same when their Points agree.  *)
(***************************************************************************)
EXTENDS Periods, SortedSets

Ticks(p) == p.start .. p.end - 1
Points(ps) == UNION {Ticks(ps[i]) : i \in DOMAIN ps}

(* Sorted, and separated by gaps: no two periods overlap or touch. *)
IsNormal(ps) == \A i, j \in DOMAIN ps : i < j => ps[i].end < ps[j].start

Touches(p, q) == p.end = q.start \/ q.end = p.start

Hull(p, q) == [start |-> Earlier(p.start, q.start), end |-> Later(p.end, q.end)]

PushMerged(out, p) ==
    IF out # <<>> /\ (Overlaps(Last(out), p) \/ Touches(Last(out), p))
      THEN Append(Front(out), Hull(Last(out), p))
      ELSE Append(out, p)

EarlierPeriod(p, q) == p.start < q.start \/ (p.start = q.start /\ p.end < q.end)

Normalise(ps) == FoldLeft(PushMerged, <<>>, StablySorted(EarlierPeriod, ps))

(* How far two lists have been read: what is next in each.                 *)
Places(left, right) == (1 .. Len(left) + 1) \X (1 .. Len(right) + 1)

(* The periods of two normal forms in the order of their starts: what is   *)
(* left of them from a place on.                                           *)
InOrder(left, right) ==
    LET rest[at \in Places(left, right)] ==
            LET i == at[1]
                j == at[2]
            IN  IF i > Len(left) THEN SubSeq(right, j, Len(right))
                ELSE IF j > Len(right) THEN SubSeq(left, i, Len(left))
                ELSE IF left[i].start <= right[j].start
                       THEN <<left[i]>> \o rest[<<i + 1, j>>]
                       ELSE <<right[j]>> \o rest[<<i, j + 1>>]
    IN  rest[<<1, 1>>]

UnionOf(left, right) == FoldLeft(PushMerged, <<>>, InOrder(left, right))

(* The first periods of two lists meet in this list of at most one.        *)
Meeting(p, q) == IF Overlaps(p, q) THEN <<Common(p, q)>> ELSE <<>>

(* Faulty: the period that ends later is the one given up. *)
IntersectionOf_DropsLonger(left, right) ==
    LET rest[at \in Places(left, right)] ==
            LET i == at[1]
                j == at[2]
            IN  IF i > Len(left) \/ j > Len(right) THEN <<>>
                ELSE Meeting(left[i], right[j])
                     \o rest[IF left[i].end >= right[j].end THEN <<i + 1, j>> ELSE <<i, j + 1>>]
    IN  rest[<<1, 1>>]

IntersectionOf(left, right) ==
    LET rest[at \in Places(left, right)] ==
            LET i == at[1]
                j == at[2]
            IN  IF i > Len(left) \/ j > Len(right) THEN <<>>
                ELSE Meeting(left[i], right[j])
                     \o rest[IF left[i].end <= right[j].end THEN <<i + 1, j>> ELSE <<i, j + 1>>]
    IN  rest[<<1, 1>>]

(* Only the last period that starts in time can hold the instant, or meet  *)
(* the period, that is asked for.                                          *)
ContainsPoint(ps, t) ==
    LET i == Cardinality({j \in DOMAIN ps : ps[j].start <= t})
    IN  i # 0 /\ ps[i].start <= t /\ t < ps[i].end

OverlapsAny(ps, q) ==
    LET i == Cardinality({j \in DOMAIN ps : ps[j].start < q.end})
    IN  i # 0 /\ Overlaps(ps[i], q)
=============================================================================
