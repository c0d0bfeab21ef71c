------------------------------ MODULE Periods ------------------------------
(***************************************************************************)
(* Half-open periods [start, end) of integer time, the vocabulary shared   *)
(* by every scheduler (schedulers/src/time).  The program measures time in *)
(* f64 days; the models count whole ticks.                                 *)
(***************************************************************************)
EXTENDS Integers

(* The later, and the earlier, of two instants. *)
Later(a, b) == IF a >= b THEN a ELSE b
Earlier(a, b) == IF a <= b THEN a ELSE b

PeriodsOver(T) == {p \in [start : T, end : T] : p.start < p.end}

(* Two periods overlap when they share an instant; touching is not enough. *)
Overlaps(p, q) == p.start < q.end /\ q.start < p.end

(* The part of p inside q: a period only when p and q overlap. *)
Common(p, q) == [start |-> Later(p.start, q.start),
                 end   |-> Earlier(p.end, q.end)]

Inside(p, q) == q.start <= p.start /\ p.end <= q.end

Span(p) == p.end - p.start
=============================================================================
