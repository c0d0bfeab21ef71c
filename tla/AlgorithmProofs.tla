-------------------------- MODULE AlgorithmProofs --------------------------
(***************************************************************************)
(* Proofs about the algorithms below the schedulers, for every input: the  *)
(* algebra of periods, the expansion of completion expressions and the     *)
(* evaluation of constraint expressions.                                   *)
(***************************************************************************)
EXTENDS LibraryProperties, FiniteLemmas, SequenceTheorems

(* A fold over a list takes the largest position out first.                *)
LEMMA MaxPicks ==
    ASSUME NEW n \in Nat
    PROVE  /\ \A s \in SUBSET (1 .. n) : s # {} => Max(s) \in s
           /\ \A k \in 1 .. n : Max(1 .. k) = k /\ (1 .. k) \ {k} = 1 .. k - 1
<1>1. ASSUME NEW s \in SUBSET (1 .. n), s # {}
      PROVE  Max(s) \in s
    <2>1. \A x \in s : x <= n
        OBVIOUS
    <2>2. \E m \in s : \A x \in s : m >= x
        <3>1. s \in SUBSET Int /\ n \in Int
            OBVIOUS
        <3>2. PICK m \in s : \A x \in s : x <= m
            BY <1>1, <2>1, <3>1, LargestNumber
        <3>3. \A x \in s : m >= x
            BY <3>1, <3>2
        <3> QED
            BY <3>3
    <2> QED
        BY <2>2 DEF Max
<1>2. ASSUME NEW k \in 1 .. n
      PROVE  Max(1 .. k) = k /\ (1 .. k) \ {k} = 1 .. k - 1
    <2>1. \E m \in 1 .. k : \A x \in 1 .. k : m >= x
        BY <1>2
    <2>2. Max(1 .. k) \in 1 .. k /\ \A x \in 1 .. k : Max(1 .. k) >= x
        BY <2>1 DEF Max
    <2> QED
        BY <2>2
<1> QED
    BY <1>1, <1>2

(* iter is the fold of step over the positions of a list of length n.      *)
FoldsTo(n, base, step, iter) ==
    iter = [s \in SUBSET (1 .. n) |->
               IF s = {} THEN base ELSE step[<<Max(s), iter[s \ {Max(s)}]>>]]

LEMMA ListFoldExists ==
    ASSUME NEW n \in Nat, NEW G, NEW base \in G, NEW step \in [(1 .. n) \X G -> G]
    PROVE  \E g \in [SUBSET (1 .. n) -> G] : FoldsTo(n, base, step, g)
<1> DEFINE S == 1 .. n
           pick == [s \in SUBSET S |-> Max(s)]
<1>1. IsFiniteSet(S)
    BY FS_Interval
<1>2. Picks(S, pick)
    BY MaxPicks DEF Picks
<1>3. PICK g \in [SUBSET S -> G] : \A s \in SUBSET S :
          g[s] = IF s = {} THEN base ELSE step[pick[s], g[s \ {pick[s]}]]
    <2> HIDE DEF pick, S
    <2>1. S = 1 .. n
        BY DEF S
    <2>2. Folded(S, pick, G, base, step)
        BY <1>1, <1>2, <2>1, FoldExists
    <2> QED
        BY <2>2, Zenon DEF Folded
<1>4. FoldsTo(n, base, step, g)
    BY <1>3 DEF FoldsTo
<1> QED
    BY <1>4
(* The values of a fold after each element of its list.                    *)
Steps(n, G, step, it) ==
    \A k \in 1 .. n : it[1 .. k - 1] \in G => it[1 .. k] = step[<<k, it[1 .. k - 1]>>]
ValuesOf(n, base, step, it, h) ==
    h[0] = base /\ h[n] = it[1 .. n] /\ \A k \in 1 .. n : h[k] = step[<<k, h[k - 1]>>]

LEMMA FoldSteps ==
    ASSUME NEW n \in Nat, NEW G, NEW base \in G, NEW step \in [(1 .. n) \X G -> G],
           NEW it, it[{}] = base, Steps(n, G, step, it)
    PROVE  \E h \in [0 .. n -> G] : ValuesOf(n, base, step, it, h)
<1> DEFINE h == [k \in 0 .. n |-> it[1 .. k]]
           P == {k \in Nat : k <= n => it[1 .. k] \in G}
<1>1. 0 \in P
    <2>1. 1 .. 0 = {}
        OBVIOUS
    <2> QED
        BY <2>1
<1>2. ASSUME NEW k \in Nat, k \in P PROVE k + 1 \in P
    <2> SUFFICES ASSUME k + 1 <= n PROVE it[1 .. k + 1] \in G
        BY <1>2
    <2>1. k + 1 \in 1 .. n /\ (k + 1) - 1 = k /\ it[1 .. k] \in G
        BY <1>2
    <2>2. it[1 .. k + 1] = step[<<k + 1, it[1 .. k]>>]
        BY <2>1 DEF Steps
    <2> QED
        BY <2>1, <2>2
<1>3. Nat \subseteq P
    <2> HIDE DEF P
    <2> QED
        BY <1>1, <1>2, CountingUp
<1>4. \A k \in 0 .. n : it[1 .. k] \in G
    BY <1>3
<1>5. h \in [0 .. n -> G] /\ h[n] = it[1 .. n]
    BY <1>4
<1>6. h[0] = base
    <2>1. 1 .. 0 = {} /\ 0 \in 0 .. n
        OBVIOUS
    <2> QED
        BY <2>1
<1>7. ASSUME NEW k \in 1 .. n
      PROVE  h[k] = step[<<k, h[k - 1]>>]
    <2>1. k \in 0 .. n /\ k - 1 \in 0 .. n
        OBVIOUS
    <2> QED
        BY <1>4, <2>1 DEF Steps
<1> HIDE DEF h
<1>8. ValuesOf(n, base, step, it, h)
    BY <1>5, <1>6, <1>7 DEF ValuesOf
<1> QED
    BY <1>5, <1>8
-----------------------------------------------------------------------------
(* Periods *)

Period == PeriodsOver(Int)
Covers(ps, t) == \E i \in DOMAIN ps : ps[i].start <= t /\ t < ps[i].end

LEMMA PeriodFacts ==
    ASSUME NEW p \in Period
    PROVE  p.start \in Int /\ p.end \in Int /\ p.start < p.end
    BY DEF Period, PeriodsOver

LEMMA PeriodIs ==
    ASSUME NEW a \in Int, NEW b \in Int, a < b
    PROVE  [start |-> a, end |-> b] \in Period
    BY DEF Period, PeriodsOver

LEMMA PointsAreCovered ==
    ASSUME NEW ps \in Seq(Period)
    PROVE  \A t : t \in Points(ps) <=> t \in Int /\ Covers(ps, t)
<1>1. \A i \in DOMAIN ps : ps[i].start \in Int /\ ps[i].end \in Int
    BY PeriodFacts
<1> QED
    BY <1>1 DEF Points, Ticks, Covers

LEMMA HullFacts ==
    ASSUME NEW p \in Period, NEW q \in Period
    PROVE  /\ Hull(p, q) \in Period
           /\ Hull(p, q).start = Earlier(p.start, q.start)
           /\ Hull(p, q).end = Later(p.end, q.end)
<1>1. /\ p.start \in Int /\ p.end \in Int /\ p.start < p.end
      /\ q.start \in Int /\ q.end \in Int /\ q.start < q.end
    BY PeriodFacts
<1>2. /\ Earlier(p.start, q.start) \in Int /\ Later(p.end, q.end) \in Int
      /\ Earlier(p.start, q.start) < Later(p.end, q.end)
    BY <1>1 DEF Earlier, Later
<1> QED
    BY <1>2, PeriodIs DEF Hull

(* The parts of what push_merged looks at.                                 *)
LEMMA MergeTypes ==
    ASSUME NEW out \in Seq(Period), NEW p \in Period
    PROVE  /\ PushMerged(out, p) \in Seq(Period)
           /\ out # <<>> => /\ Last(out) = out[Len(out)] /\ Last(out) \in Period
                            /\ Front(out) \in Seq(Period) /\ Len(Front(out)) = Len(out) - 1
                            /\ \A i \in 1 .. Len(out) - 1 : Front(out)[i] = out[i]
                            /\ Hull(Last(out), p) \in Period
<1>1. ASSUME out # <<>>
      PROVE  /\ Last(out) = out[Len(out)] /\ Last(out) \in Period
             /\ Front(out) \in Seq(Period) /\ Len(Front(out)) = Len(out) - 1
             /\ \A i \in 1 .. Len(out) - 1 : Front(out)[i] = out[i]
             /\ Hull(Last(out), p) \in Period
    <2>1. Len(out) \in Nat /\ Len(out) # 0
        BY <1>1
    <2>2. Last(out) = out[Len(out)] /\ Last(out) \in Period
        BY <2>1 DEF Last
    <2>3. /\ Front(out) \in Seq(Period) /\ Len(Front(out)) = Len(out) - 1
          /\ \A i \in 1 .. Len(out) - 1 : Front(out)[i] = out[i]
        <3> DEFINE m == Len(out) - 1
        <3>1. m \in Nat /\ \A i \in 1 .. m : out[i] \in Period
            BY <2>1
        <3>2. Front(out) = SubSeq(out, 1, m)
            BY DEF Front
        <3> HIDE DEF m
        <3>3. /\ Front(out) \in Seq(Period) /\ Len(Front(out)) = IF 1 <= m THEN m - 1 + 1 ELSE 0
              /\ \A i \in 1 .. m - 1 + 1 : Front(out)[i] = out[1 + i - 1]
            BY <3>1, <3>2, SubSeqProperties
        <3>4. m - 1 + 1 = m /\ (~ (1 <= m) => m = 0) /\ \A i \in 1 .. m : 1 + i - 1 = i
            BY <3>1
        <3>5. Len(Front(out)) = m /\ \A i \in 1 .. m : Front(out)[i] = out[i]
            BY <3>3, <3>4
        <3> QED
            BY <3>3, <3>5 DEF m
    <2>4. Hull(Last(out), p) \in Period
        BY <2>2, HullFacts
    <2> QED
        BY <2>2, <2>3, <2>4
<1> QED
    BY <1>1 DEF PushMerged

(* What a list of periods covers, period by period.                        *)
LEMMA CoversUpTo ==
    ASSUME NEW n \in Nat, NEW ps, DOMAIN ps = 1 .. n + 1, NEW t
    PROVE  Covers(ps, t) <=> \/ \E i \in 1 .. n : ps[i].start <= t /\ t < ps[i].end
                             \/ ps[n + 1].start <= t /\ t < ps[n + 1].end
<1>1. 1 .. n + 1 = (1 .. n) \cup {n + 1}
    OBVIOUS
<1> QED
    BY <1>1, Zenon DEF Covers

(* A list that keeps its last gap is in normal form when the list before   *)
(* its last period is.                                                     *)
LEMMA NormalUpTo ==
    ASSUME NEW n \in Nat, NEW ps, DOMAIN ps = 1 .. n + 1,
           \A i, j \in 1 .. n : i < j => ps[i].end < ps[j].start,
           \A i \in 1 .. n : ps[i].end < ps[n + 1].start
    PROVE  IsNormal(ps)
<1> SUFFICES ASSUME NEW i \in 1 .. n + 1, NEW j \in 1 .. n + 1, i < j
             PROVE  ps[i].end < ps[j].start
    BY DEF IsNormal
<1>1. i \in 1 .. n
    OBVIOUS
<1>2. CASE j = n + 1
    BY <1>1, <1>2
<1>3. CASE j # n + 1
    <2>1. j \in 1 .. n
        BY <1>3
    <2> QED
        BY <1>1, <2>1
<1> QED
    BY <1>2, <1>3

(* Pushing a period replaces the last one by its hull with the new one, or *)
(* adds the new one behind it.                                             *)
LEMMA PushCases ==
    ASSUME NEW out \in Seq(Period), NEW p \in Period, NEW n \in Nat, Len(out) = n,
           n # 0 => out[n].start <= p.start
    PROVE  LET more == PushMerged(out, p) IN
           \/ /\ n # 0 /\ p.start <= out[n].end
              /\ more \in Seq(Period) /\ Len(more) = n
              /\ \A i \in 1 .. n - 1 : more[i] = out[i]
              /\ more[n].start = out[n].start /\ more[n].end = Later(out[n].end, p.end)
           \/ /\ n # 0 => out[n].end < p.start
              /\ more \in Seq(Period) /\ Len(more) = n + 1
              /\ \A i \in 1 .. n : more[i] = out[i]
              /\ more[n + 1] = p
<1> DEFINE more == PushMerged(out, p)
           hull == Hull(Last(out), p)
<1>1. /\ out # <<>> <=> n # 0
      /\ n # 0 => /\ Last(out) = out[n] /\ out[n] \in Period
                  /\ out[n].start \in Int /\ out[n].end \in Int /\ out[n].start < out[n].end
      /\ p.start \in Int /\ p.end \in Int /\ p.start < p.end
    <2>1. out # <<>> <=> n # 0
        OBVIOUS
    <2>2. n # 0 => out[n] \in Period
        OBVIOUS
    <2>3. Last(out) = out[n]
        BY DEF Last
    <2> QED
        BY <2>1, <2>2, <2>3, PeriodFacts
<1>2. CASE n # 0 /\ (Overlaps(Last(out), p) \/ Touches(Last(out), p))
    <2>1. p.start <= out[n].end
        BY <1>1, <1>2 DEF Overlaps, Touches
    <2>2. /\ Front(out) \in Seq(Period) /\ Len(Front(out)) = n - 1
          /\ \A i \in 1 .. n - 1 : Front(out)[i] = out[i]
        BY <1>1, <1>2, MergeTypes
    <2>3. hull \in Period /\ hull.start = out[n].start /\ hull.end = Later(out[n].end, p.end)
        <3>1. hull = Hull(out[n], p) /\ out[n] \in Period
            BY <1>1, <1>2
        <3>2. Earlier(out[n].start, p.start) = out[n].start
            BY <1>2 DEF Earlier
        <3> HIDE DEF hull
        <3> QED
            BY <3>1, <3>2, HullFacts
    <2>4. more = Append(Front(out), hull)
        BY <1>1, <1>2 DEF PushMerged
    <2> HIDE DEF hull, more
    <2>5. /\ more \in Seq(Period) /\ Len(more) = n /\ more[n] = hull
          /\ \A i \in 1 .. n - 1 : more[i] = out[i]
        <3>1. /\ Append(Front(out), hull) \in Seq(Period)
              /\ Len(Append(Front(out), hull)) = Len(Front(out)) + 1
              /\ \A i \in 1 .. Len(Front(out)) : Append(Front(out), hull)[i] = Front(out)[i]
              /\ Append(Front(out), hull)[Len(Front(out)) + 1] = hull
            BY <2>2, <2>3, AppendProperties
        <3>2. Len(Front(out)) + 1 = n
            BY <2>2
        <3> QED
            BY <2>2, <2>4, <3>1, <3>2
    <2> QED
        BY <1>2, <2>1, <2>3, <2>5 DEF more
<1>3. CASE ~ (n # 0 /\ (Overlaps(Last(out), p) \/ Touches(Last(out), p)))
    <2>1. more = Append(out, p)
        BY <1>1, <1>3 DEF PushMerged
    <2> HIDE DEF more
    <2>2. /\ more \in Seq(Period) /\ Len(more) = n + 1
          /\ more[n + 1] = p /\ \A i \in 1 .. n : more[i] = out[i]
        BY <2>1, AppendProperties
    <2>3. n # 0 => out[n].end < p.start
        BY <1>1, <1>3 DEF Overlaps, Touches
    <2> QED
        BY <2>2, <2>3 DEF more
<1> QED
    BY <1>2, <1>3

(* A list in normal form whose last period starts no later than p stays in *)
(* normal form when p is pushed, and covers the time of p as well.         *)
LEMMA PushFacts ==
    ASSUME NEW out \in Seq(Period), NEW p \in Period, IsNormal(out),
           out # <<>> => Last(out).start <= p.start
    PROVE  LET more == PushMerged(out, p) IN
           /\ more \in Seq(Period) /\ more # <<>> /\ IsNormal(more)
           /\ Last(more).start <= p.start
           /\ \A t \in Int : Covers(more, t) <=> Covers(out, t) \/ (p.start <= t /\ t < p.end)
<1> DEFINE more == PushMerged(out, p)
<1>1. PICK n \in Nat : n = Len(out)
    OBVIOUS
<1>2. /\ DOMAIN out = 1 .. n
      /\ \A i \in 1 .. n : out[i] \in Period /\ out[i].start \in Int /\ out[i].end \in Int
                                            /\ out[i].start < out[i].end
    BY <1>1, PeriodFacts
<1>3. \A i, j \in 1 .. n : i < j => out[i].end < out[j].start
    BY <1>2 DEF IsNormal
<1>4. p.start \in Int /\ p.end \in Int /\ p.start < p.end
    BY PeriodFacts
<1>5. n # 0 => out[n].start <= p.start /\ out # <<>>
    BY <1>1 DEF Last
<1>6. \/ /\ n # 0 /\ p.start <= out[n].end
         /\ more \in Seq(Period) /\ Len(more) = n
         /\ \A i \in 1 .. n - 1 : more[i] = out[i]
         /\ more[n].start = out[n].start /\ more[n].end = Later(out[n].end, p.end)
      \/ /\ n # 0 => out[n].end < p.start
         /\ more \in Seq(Period) /\ Len(more) = n + 1
         /\ \A i \in 1 .. n : more[i] = out[i]
         /\ more[n + 1] = p
    BY <1>1, <1>5, PushCases
<1> HIDE DEF more
<1>7. CASE /\ n # 0 /\ p.start <= out[n].end
           /\ more \in Seq(Period) /\ Len(more) = n
           /\ \A i \in 1 .. n - 1 : more[i] = out[i]
           /\ more[n].start = out[n].start /\ more[n].end = Later(out[n].end, p.end)
    <2>1. PICK m \in Nat : m + 1 = n
        <3>1. n - 1 \in Nat /\ (n - 1) + 1 = n
            BY <1>7
        <3> QED
            BY <3>1
    <2>2. DOMAIN more = 1 .. m + 1 /\ DOMAIN out = 1 .. m + 1 /\ 1 .. n - 1 = 1 .. m
        BY <1>2, <1>7, <2>1
    <2>3. n \in 1 .. n /\ \A i \in 1 .. m : i \in 1 .. n /\ i < n
        BY <1>7, <2>1
    <2>4. IsNormal(more)
        <3>1. \A i, j \in 1 .. m : i < j => more[i].end < more[j].start
            BY <1>3, <1>7, <2>2, <2>3
        <3>2. \A i \in 1 .. m : more[i].end < more[m + 1].start
            BY <1>3, <1>7, <2>1, <2>2, <2>3
        <3> QED
            BY <2>2, <3>1, <3>2, NormalUpTo
    <2>5. more # <<>> /\ Last(more).start <= p.start
        BY <1>5, <1>7 DEF Last
    <2>6. ASSUME NEW t \in Int
          PROVE  Covers(more, t) <=> Covers(out, t) \/ (p.start <= t /\ t < p.end)
        <3>1. Covers(more, t) <=> \/ \E i \in 1 .. m : more[i].start <= t /\ t < more[i].end
                                  \/ more[n].start <= t /\ t < more[n].end
            BY <2>1, <2>2, CoversUpTo
        <3>2. Covers(out, t) <=> \/ \E i \in 1 .. m : out[i].start <= t /\ t < out[i].end
                                 \/ out[n].start <= t /\ t < out[n].end
            BY <2>1, <2>2, CoversUpTo
        <3>3. (more[n].start <= t /\ t < more[n].end)
                <=> (out[n].start <= t /\ t < out[n].end) \/ (p.start <= t /\ t < p.end)
            <4>1. /\ out[n].start \in Int /\ out[n].end \in Int /\ out[n].start < out[n].end
                  /\ out[n].start <= p.start /\ p.start <= out[n].end
                BY <1>2, <1>5, <1>7, <2>3
            <4> QED
                BY <1>4, <1>7, <4>1 DEF Later
        <3>4. \A i \in 1 .. m : more[i] = out[i]
            BY <1>7, <2>2
        <3> QED
            BY <3>1, <3>2, <3>3, <3>4
    <2> QED
        BY <1>7, <2>4, <2>5, <2>6 DEF more
<1>8. CASE /\ n # 0 => out[n].end < p.start
           /\ more \in Seq(Period) /\ Len(more) = n + 1
           /\ \A i \in 1 .. n : more[i] = out[i]
           /\ more[n + 1] = p
    <2>1. DOMAIN more = 1 .. n + 1
        BY <1>8
    <2>2. \A i \in 1 .. n : out[i].end < p.start
        <3> SUFFICES ASSUME NEW i \in 1 .. n PROVE out[i].end < p.start
            OBVIOUS
        <3>1. n # 0 /\ n \in 1 .. n
            OBVIOUS
        <3>2. i = n \/ out[i].end < out[n].start
            BY <1>3, <3>1
        <3> QED
            BY <1>2, <1>4, <1>8, <3>1, <3>2
    <2>3. IsNormal(more)
        <3>1. \A i, j \in 1 .. n : i < j => more[i].end < more[j].start
            BY <1>3, <1>8
        <3>2. \A i \in 1 .. n : more[i].end < more[n + 1].start
            BY <1>8, <2>2
        <3> QED
            BY <2>1, <3>1, <3>2, NormalUpTo
    <2>4. more # <<>> /\ Last(more).start <= p.start
        <3>1. more # <<>> /\ Last(more) = p
            BY <1>8 DEF Last
        <3> QED
            BY <1>4, <3>1
    <2>5. ASSUME NEW t \in Int
          PROVE  Covers(more, t) <=> Covers(out, t) \/ (p.start <= t /\ t < p.end)
        <3>1. Covers(more, t) <=> \/ \E i \in 1 .. n : more[i].start <= t /\ t < more[i].end
                                  \/ more[n + 1].start <= t /\ t < more[n + 1].end
            BY <2>1, CoversUpTo
        <3>2. Covers(out, t) <=> \E i \in 1 .. n : out[i].start <= t /\ t < out[i].end
            BY <1>2 DEF Covers
        <3> QED
            BY <1>8, <3>1, <3>2
    <2> QED
        BY <1>8, <2>3, <2>4, <2>5 DEF more
<1> QED
    BY <1>6, <1>7, <1>8


(* Pushing the periods of a list one by one.                               *)
LEMMA MergeFold ==
    ASSUME NEW list \in Seq(Period)
    PROVE  \E h \in [0 .. Len(list) -> Seq(Period)] :
              /\ h[0] = <<>>
              /\ \A k \in 1 .. Len(list) : h[k] = PushMerged(h[k - 1], list[k])
              /\ FoldLeft(PushMerged, <<>>, list) = h[Len(list)]
<1> DEFINE n == Len(list)
           G == Seq(Period)
           step == [ky \in (1 .. n) \X G |-> PushMerged(ky[2], list[ky[1]])]
           IsFold(it) == it = [s \in SUBSET (1 .. n) |->
                                  IF s = {} THEN <<>> ELSE PushMerged(it[s \ {Max(s)}], list[Max(s)])]
           iter == CHOOSE it : IsFold(it)
<1>1. n \in Nat /\ DOMAIN list = 1 .. n /\ \A k \in 1 .. n : list[k] \in Period
    OBVIOUS
<1>2. <<>> \in G
    OBVIOUS
<1>3. \A k \in 1 .. n : \A y \in G : PushMerged(y, list[k]) \in G
    BY <1>1, MergeTypes
<1>4. step \in [(1 .. n) \X G -> G]
    <2> HIDE DEF n, G
    <2> SUFFICES ASSUME NEW ky \in (1 .. n) \X G PROVE step[ky] \in G
        OBVIOUS
    <2>1. step[ky] = PushMerged(ky[2], list[ky[1]]) /\ ky[1] \in 1 .. n /\ ky[2] \in G
        OBVIOUS
    <2> QED
        BY <1>3, <2>1
<1>5. \E it : IsFold(it)
    <2> HIDE DEF G, n
    <2>1. PICK g \in [SUBSET (1 .. n) -> G] : FoldsTo(n, <<>>, step, g)
        <3> HIDE DEF step
        <3> QED
            BY <1>1, <1>2, <1>4, ListFoldExists
    <2>2. ASSUME NEW s \in SUBSET (1 .. n), s # {}
          PROVE  step[<<Max(s), g[s \ {Max(s)}]>>] = PushMerged(g[s \ {Max(s)}], list[Max(s)])
        <3>1. Max(s) \in 1 .. n /\ g[s \ {Max(s)}] \in G
            BY <1>1, <2>2, MaxPicks
        <3> QED
            BY <3>1
    <2>3. IsFold(g)
        <3>1. \A s \in SUBSET (1 .. n) :
                 g[s] = IF s = {} THEN <<>> ELSE step[<<Max(s), g[s \ {Max(s)}]>>]
            BY <2>1 DEF FoldsTo
        <3> HIDE DEF step
        <3>2. \A s \in SUBSET (1 .. n) : g[s] = IF s = {} THEN <<>> ELSE PushMerged(g[s \ {Max(s)}], list[Max(s)])
            BY <2>2, <3>1
        <3> QED
            BY <3>2
    <2> HIDE DEF IsFold
    <2> QED
        BY <2>3
<1>6. IsFold(iter)
    <2> HIDE DEF IsFold
    <2> QED
        BY <1>5
<1>7. FoldLeft(PushMerged, <<>>, list) = iter[1 .. n]
    BY <1>1 DEF FoldLeft, MapThenFoldSet
<1> HIDE DEF iter
<1>8. iter[{}] = <<>>
    <2>1. {} \in SUBSET (1 .. n)
        OBVIOUS
    <2> QED
        BY <1>6, <2>1, Zenon
<1>9. \A k \in 1 .. n : iter[1 .. k] = PushMerged(iter[1 .. k - 1], list[k])
    <2> SUFFICES ASSUME NEW k \in 1 .. n PROVE iter[1 .. k] = PushMerged(iter[1 .. k - 1], list[k])
        OBVIOUS
    <2>1. 1 .. k \in SUBSET (1 .. n) /\ 1 .. k # {} /\ Max(1 .. k) = k /\ (1 .. k) \ {k} = 1 .. k - 1
        BY <1>1, MaxPicks
    <2>2. iter[1 .. k] = PushMerged(iter[(1 .. k) \ {Max(1 .. k)}], list[Max(1 .. k)])
        BY <1>6, <2>1, Zenon
    <2> QED
        BY <2>1, <2>2
<1> HIDE DEF IsFold, G, n
<1>10. \A k \in 1 .. n : \A y \in G : step[<<k, y>>] = PushMerged(y, list[k])
    BY DEF step
<1> HIDE DEF step
<1>11. PICK h \in [0 .. n -> G] : ValuesOf(n, <<>>, step, iter, h)
    <2>1. Steps(n, G, step, iter)
        BY <1>9, <1>10 DEF Steps
    <2> QED
        BY <1>1, <1>2, <1>4, <1>8, <2>1, FoldSteps
<1>12. \A k \in 1 .. n : h[k] = PushMerged(h[k - 1], list[k])
    <2> SUFFICES ASSUME NEW k \in 1 .. n PROVE h[k] = PushMerged(h[k - 1], list[k])
        OBVIOUS
    <2>1. k - 1 \in 0 .. n
        BY <1>1
    <2> QED
        BY <1>10, <1>11, <2>1 DEF ValuesOf
<1>13. FoldLeft(PushMerged, <<>>, list) = h[n]
    BY <1>7, <1>11, Zenon DEF ValuesOf
<1>14. h[0] = <<>>
    BY <1>11, Zenon DEF ValuesOf
<1> QED
    BY <1>11, <1>12, <1>13, <1>14, Zenon DEF G, n
(* Merging periods that come in the order of their starts keeps their time *)
(* and leaves a list in normal form.                                       *)
StartsInOrder(list) == \A i, j \in DOMAIN list : i < j => list[i].start <= list[j].start
CoversBy(list, k, t) == \E i \in 1 .. k : list[i].start <= t /\ t < list[i].end

LEMMA MergedFacts ==
    ASSUME NEW list \in Seq(Period), StartsInOrder(list)
    PROVE  LET out == FoldLeft(PushMerged, <<>>, list) IN
           /\ out \in Seq(Period) /\ IsNormal(out)
           /\ \A t \in Int : Covers(out, t) <=> Covers(list, t)
<1>1. PICK n \in Nat : n = Len(list)
    OBVIOUS
<1>2. PICK h \in [0 .. n -> Seq(Period)] :
          /\ h[0] = <<>>
          /\ \A k \in 1 .. n : h[k] = PushMerged(h[k - 1], list[k])
          /\ FoldLeft(PushMerged, <<>>, list) = h[n]
    BY <1>1, MergeFold
<1>3. DOMAIN list = 1 .. n /\ \A k \in 1 .. n : list[k] \in Period
    BY <1>1
<1> DEFINE Good(k) == /\ IsNormal(h[k])
                      /\ h[k] # <<>> => k # 0 /\ Last(h[k]).start <= list[k].start
                      /\ \A t \in Int : Covers(h[k], t) <=> CoversBy(list, k, t)
           P == {k \in Nat : k <= n => Good(k)}
<1>4. 0 \in P
    <2>1. h[0] = <<>>
        BY <1>2
    <2>2. \A t : ~ CoversBy(list, 0, t)
        BY DEF CoversBy
    <2>3. IsNormal(<<>>) /\ \A t : ~ Covers(<<>>, t)
        BY DEF IsNormal, Covers
    <2> QED
        BY <2>1, <2>2, <2>3
<1>5. ASSUME NEW k \in Nat, k \in P
      PROVE  k + 1 \in P
    <2> SUFFICES ASSUME k + 1 <= n PROVE Good(k + 1)
        BY <1>5
    <2>1. k \in 0 .. n /\ k + 1 \in 1 .. n /\ (k + 1) - 1 = k /\ Good(k)
        BY <1>1, <1>5
    <2>2. h[k + 1] = PushMerged(h[k], list[k + 1]) /\ list[k + 1] \in Period /\ h[k] \in Seq(Period)
        BY <1>2, <1>3, <2>1
    <2>3. h[k] # <<>> => Last(h[k]).start <= list[k + 1].start
        <3> SUFFICES ASSUME h[k] # <<>> PROVE Last(h[k]).start <= list[k + 1].start
            OBVIOUS
        <3>0. k # 0 /\ Last(h[k]).start <= list[k].start
            BY <2>1, Zenon
        <3>1. k \in 1 .. n /\ Last(h[k]).start <= list[k].start
            <4> HIDE DEF Good
            <4> QED
                BY <2>1, <3>0
        <3>2. list[k].start <= list[k + 1].start
            <4>1. k \in DOMAIN list /\ k + 1 \in DOMAIN list /\ k < k + 1
                <5> HIDE DEF Good
                <5> QED
                    BY <1>3, <2>1, <3>1
            <4> QED
                BY <4>1, Zenon DEF StartsInOrder
        <3>3. list[k].start \in Int /\ list[k + 1].start \in Int /\ Last(h[k]).start \in Int
            <4>1. Last(h[k]) \in Period
                BY <2>2, MergeTypes
            <4> QED
                BY <1>3, <2>2, <3>1, <4>1, PeriodFacts
        <3> QED
            BY <3>1, <3>2, <3>3
    <2>4. /\ IsNormal(h[k + 1]) /\ Last(h[k + 1]).start <= list[k + 1].start
          /\ \A t \in Int : Covers(h[k + 1], t)
                <=> Covers(h[k], t) \/ (list[k + 1].start <= t /\ t < list[k + 1].end)
        <3> DEFINE out == h[k]
                   p == list[k + 1]
        <3>1. /\ out \in Seq(Period) /\ p \in Period /\ IsNormal(out)
              /\ out # <<>> => Last(out).start <= p.start
            BY <2>1, <2>2, <2>3, Zenon
        <3>2. h[k + 1] = PushMerged(out, p)
            BY <2>2
        <3> HIDE DEF out, p, Good
        <3>3. /\ IsNormal(PushMerged(out, p)) /\ Last(PushMerged(out, p)).start <= p.start
              /\ \A t \in Int : Covers(PushMerged(out, p), t)
                    <=> Covers(out, t) \/ (p.start <= t /\ t < p.end)
            BY <3>1, PushFacts
        <3> QED
            BY <3>2, <3>3, Zenon DEF out, p
    <2>5. \A t : CoversBy(list, k + 1, t)
             <=> CoversBy(list, k, t) \/ (list[k + 1].start <= t /\ t < list[k + 1].end)
        <3>1. 1 .. k + 1 = (1 .. k) \cup {k + 1}
            OBVIOUS
        <3> QED
            BY <3>1, Zenon DEF CoversBy
    <2>6. k + 1 # 0
        OBVIOUS
    <2> QED
        BY <2>1, <2>4, <2>5, <2>6
<1>6. Nat \subseteq P
    <2> HIDE DEF P
    <2> QED
        BY <1>4, <1>5, CountingUp
<1>7. Good(n)
    BY <1>6
<1>8. \A t : Covers(list, t) <=> CoversBy(list, n, t)
    BY <1>3 DEF Covers, CoversBy
<1>9. h[n] \in Seq(Period)
    BY <1>2
<1> QED
    BY <1>2, <1>7, <1>8, <1>9, Zenon

(* The order of the positions of a list of periods in which from_periods   *)
(* sorts it: by start, by end, and as it was.                              *)
PlaceBefore(ps, i, j) == \/ EarlierPeriod(ps[i], ps[j])
                         \/ ~ EarlierPeriod(ps[j], ps[i]) /\ i < j
PlaceOrder(ps) == {ij \in (DOMAIN ps) \X (DOMAIN ps) : PlaceBefore(ps, ij[1], ij[2])}

LEMMA PlacesAreOrdered ==
    ASSUME NEW ps \in Seq(Period)
    PROVE  IsFiniteSet(DOMAIN ps) /\ StrictTotalOrder(DOMAIN ps, PlaceOrder(ps))
<1>1. PICK n \in Nat : n = Len(ps) /\ DOMAIN ps = 1 .. n
    OBVIOUS
<1>2. \A i \in 1 .. n : ps[i].start \in Int /\ ps[i].end \in Int
    BY <1>1, PeriodFacts
<1>3. \A i, j \in 1 .. n : <<i, j>> \in PlaceOrder(ps) <=>
          \/ ps[i].start < ps[j].start
          \/ ps[i].start = ps[j].start /\ ps[i].end < ps[j].end
          \/ ps[i].start = ps[j].start /\ ps[i].end = ps[j].end /\ i < j
    <2> SUFFICES ASSUME NEW i \in 1 .. n, NEW j \in 1 .. n
                 PROVE  PlaceBefore(ps, i, j) <=>
                            \/ ps[i].start < ps[j].start
                            \/ ps[i].start = ps[j].start /\ ps[i].end < ps[j].end
                            \/ ps[i].start = ps[j].start /\ ps[i].end = ps[j].end /\ i < j
        BY <1>1 DEF PlaceOrder
    <2>1. /\ ps[i].start \in Int /\ ps[i].end \in Int
          /\ ps[j].start \in Int /\ ps[j].end \in Int
        BY <1>2
    <2> QED
        BY <2>1 DEF PlaceBefore, EarlierPeriod
<1>4. \A i \in 1 .. n : <<i, i>> \notin PlaceOrder(ps)
    BY <1>2, <1>3
<1>5. \A i, j, k \in 1 .. n :
          <<i, j>> \in PlaceOrder(ps) /\ <<j, k>> \in PlaceOrder(ps) => <<i, k>> \in PlaceOrder(ps)
    <2> SUFFICES ASSUME NEW i \in 1 .. n, NEW j \in 1 .. n, NEW k \in 1 .. n,
                        <<i, j>> \in PlaceOrder(ps), <<j, k>> \in PlaceOrder(ps)
                 PROVE  <<i, k>> \in PlaceOrder(ps)
        OBVIOUS
    <2>1. /\ ps[i].start \in Int /\ ps[i].end \in Int
          /\ ps[j].start \in Int /\ ps[j].end \in Int
          /\ ps[k].start \in Int /\ ps[k].end \in Int
        BY <1>2
    <2>2. \/ ps[i].start < ps[j].start
          \/ ps[i].start = ps[j].start /\ ps[i].end < ps[j].end
          \/ ps[i].start = ps[j].start /\ ps[i].end = ps[j].end /\ i < j
        BY <1>3
    <2>3. \/ ps[j].start < ps[k].start
          \/ ps[j].start = ps[k].start /\ ps[j].end < ps[k].end
          \/ ps[j].start = ps[k].start /\ ps[j].end = ps[k].end /\ j < k
        BY <1>3
    <2>4. \/ ps[i].start < ps[k].start
          \/ ps[i].start = ps[k].start /\ ps[i].end < ps[k].end
          \/ ps[i].start = ps[k].start /\ ps[i].end = ps[k].end /\ i < k
        BY <2>1, <2>2, <2>3
    <2> QED
        BY <1>3, <2>4
<1>6. \A i, j \in 1 .. n : i # j => <<i, j>> \in PlaceOrder(ps) \/ <<j, i>> \in PlaceOrder(ps)
    <2> SUFFICES ASSUME NEW i \in 1 .. n, NEW j \in 1 .. n, i # j
                 PROVE  <<i, j>> \in PlaceOrder(ps) \/ <<j, i>> \in PlaceOrder(ps)
        OBVIOUS
    <2>1. /\ ps[i].start \in Int /\ ps[i].end \in Int
          /\ ps[j].start \in Int /\ ps[j].end \in Int
        BY <1>2
    <2> QED
        BY <1>3, <2>1
<1>7. IsFiniteSet(DOMAIN ps)
    BY <1>1, FS_Interval
<1> QED
    BY <1>1, <1>4, <1>5, <1>6, <1>7 DEF StrictTotalOrder
LEMMA SortedPeriods ==
    ASSUME NEW ps \in Seq(Period)
    PROVE  LET sorted == StablySorted(EarlierPeriod, ps) IN
           /\ sorted \in Seq(Period) /\ StartsInOrder(sorted)
           /\ \A t : Covers(sorted, t) <=> Covers(ps, t)
<1> DEFINE S == DOMAIN ps
           R == PlaceOrder(ps)
           IsNth(n, j) == Cardinality({i \in S : PlaceBefore(ps, i, j)}) = n - 1
           L == [n \in 1 .. Cardinality(S) |-> CHOOSE j \in S : IsNth(n, j)]
           sorted == StablySorted(EarlierPeriod, ps)
<1>1. PICK size \in Nat : size = Len(ps) /\ S = 1 .. size /\ Cardinality(S) = size
    <2>1. Len(ps) \in Nat /\ S = 1 .. Len(ps)
        OBVIOUS
    <2>2. PICK size \in Nat : size = Len(ps)
        BY <2>1
    <2>3. Cardinality(1 .. size) = size
        BY FS_Interval
    <2> QED
        BY <2>1, <2>2, <2>3, Zenon
<1>2. sorted = [n \in S |-> ps[L[n]]]
    BY DEF StablySorted, SortedBy, PlaceBefore
<1>3. \A j \in S : {i \in S : PlaceBefore(ps, i, j)} = Preceding(S, R, j)
    BY DEF Preceding, PlaceOrder
<1>4. IsFiniteSet(S) /\ StrictTotalOrder(S, R)
    BY PlacesAreOrdered
<1>5. ASSUME NEW n \in 1 .. size
      PROVE  L[n] \in S /\ IsNth(n, L[n])
    <2>1. n - 1 \in 0 .. Cardinality(S) - 1 /\ n \in 1 .. Cardinality(S)
        BY <1>1
    <2>2. \E j \in S : IsNth(n, j)
        <3>1. \E j \in S : Cardinality(Preceding(S, R, j)) = n - 1
            <4> HIDE DEF S, R
            <4> QED
                BY <1>4, <2>1, RankIsTaken
        <3> QED
            BY <1>3, <3>1
    <2>3. L[n] = CHOOSE j \in S : IsNth(n, j)
        BY <2>1
    <2> HIDE DEF IsNth, L, S
    <2> QED
        BY <2>2, <2>3
<1> HIDE DEF L
<1>6. InLine(S, R, L)
    <2>1. L = [n \in 1 .. Cardinality(S) |-> L[n]]
        <3> HIDE DEF IsNth, S
        <3> QED
            BY DEF L
    <2> QED
        BY <1>1, <1>3, <1>5, <2>1 DEF InLine
<1>7. /\ DOMAIN L = 1 .. size
      /\ \A i, j \in 1 .. size : i < j => <<L[i], L[j]>> \in R
      /\ \A j \in S : \E n \in 1 .. size : L[n] = j
    <2> HIDE DEF S, R
    <2> QED
        <3>1. /\ DOMAIN L = 1 .. Cardinality(S)
              /\ \A i, j \in DOMAIN L : i < j <=> <<L[i], L[j]>> \in R
              /\ \A u \in S : \E n \in DOMAIN L : L[n] = u
            BY <1>4, <1>6, InLineFacts
        <3> QED
            BY <1>1, <3>1
<1> HIDE DEF sorted
<1>8. sorted \in Seq(Period) /\ DOMAIN sorted = 1 .. size
    <2>1. \A n \in 1 .. size : ps[L[n]] \in Period
        <3>1. \A j \in S : ps[j] \in Period
            OBVIOUS
        <3> HIDE DEF IsNth, S
        <3> QED
            BY <1>5, <3>1, Zenon
    <2>2. sorted = [n \in 1 .. size |-> ps[L[n]]]
        BY <1>1, <1>2
    <2> QED
        BY <2>1, <2>2
<1>9. StartsInOrder(sorted)
    <2> SUFFICES ASSUME NEW i \in 1 .. size, NEW j \in 1 .. size, i < j
                 PROVE  sorted[i].start <= sorted[j].start
        BY <1>8 DEF StartsInOrder
    <2>1. sorted[i] = ps[L[i]] /\ sorted[j] = ps[L[j]] /\ L[i] \in S /\ L[j] \in S
        BY <1>1, <1>2, <1>5
    <2>2. PlaceBefore(ps, L[i], L[j])
        <3>1. <<L[i], L[j]>> \in R
            BY <1>7
        <3> QED
            BY <3>1 DEF PlaceOrder
    <2>3. ps[L[i]].start \in Int /\ ps[L[j]].start \in Int
        BY <2>1, PeriodFacts
    <2> QED
        BY <2>1, <2>2, <2>3 DEF PlaceBefore, EarlierPeriod
<1>10. ASSUME NEW t
       PROVE  Covers(sorted, t) <=> Covers(ps, t)
    <2>1. ASSUME Covers(sorted, t) PROVE Covers(ps, t)
        <3>1. PICK n \in 1 .. size : sorted[n].start <= t /\ t < sorted[n].end
            BY <1>8, <2>1 DEF Covers
        <3>2. sorted[n] = ps[L[n]] /\ L[n] \in S
            BY <1>1, <1>2, <1>5
        <3> QED
            BY <3>1, <3>2 DEF Covers
    <2>2. ASSUME Covers(ps, t) PROVE Covers(sorted, t)
        <3>1. PICK j \in S : ps[j].start <= t /\ t < ps[j].end
            BY <2>2 DEF Covers
        <3>2. PICK n \in 1 .. size : L[n] = j
            BY <1>7
        <3>3. sorted[n] = ps[j]
            BY <1>1, <1>2, <3>2
        <3> QED
            BY <1>8, <3>1, <3>3 DEF Covers
    <2> QED
        BY <2>1, <2>2
<1> QED
    BY <1>8, <1>9, <1>10 DEF sorted

(* from_periods: the same time, in normal form.                            *)
LEMMA NormaliseFacts ==
    ASSUME NEW ps \in Seq(Period)
    PROVE  LET set == Normalise(ps) IN
           /\ set \in Seq(Period) /\ IsNormal(set)
           /\ \A t \in Int : Covers(set, t) <=> Covers(ps, t)
<1> DEFINE sorted == StablySorted(EarlierPeriod, ps)
<1>1. /\ sorted \in Seq(Period) /\ StartsInOrder(sorted)
      /\ \A t : Covers(sorted, t) <=> Covers(ps, t)
    BY SortedPeriods, Zenon
<1>2. Normalise(ps) = FoldLeft(PushMerged, <<>>, sorted)
    BY DEF Normalise
<1> HIDE DEF sorted
<1> DEFINE out == FoldLeft(PushMerged, <<>>, sorted)
<1>3. /\ out \in Seq(Period) /\ IsNormal(out)
      /\ \A t \in Int : Covers(out, t) <=> Covers(sorted, t)
    BY <1>1, MergedFacts, Zenon
<1>4. Normalise(ps) = out
    BY <1>2, Zenon
<1> HIDE DEF out
<1> QED
    BY <1>1, <1>3, <1>4
-----------------------------------------------------------------------------
(* Two lists that are read together *)

(* The places still to come get fewer with every step.                     *)
Ahead(left, right) ==
    [at \in Places(left, right) |-> (Len(left) + 1 - at[1]) + (Len(right) + 1 - at[2])]

LEMMA PlaceFacts ==
    ASSUME NEW left \in Seq(Period), NEW right \in Seq(Period), NEW at \in Places(left, right)
    PROVE  /\ at[1] \in 1 .. Len(left) + 1 /\ at[2] \in 1 .. Len(right) + 1 /\ at = <<at[1], at[2]>>
           /\ Ahead(left, right)[at] \in Nat
           /\ at[1] <= Len(left) =>
                 /\ at[1] \in DOMAIN left /\ left[at[1]] \in Period
                 /\ <<at[1] + 1, at[2]>> \in Places(left, right)
                 /\ Ahead(left, right)[<<at[1] + 1, at[2]>>] + 1 = Ahead(left, right)[at]
           /\ at[2] <= Len(right) =>
                 /\ at[2] \in DOMAIN right /\ right[at[2]] \in Period
                 /\ <<at[1], at[2] + 1>> \in Places(left, right)
                 /\ Ahead(left, right)[<<at[1], at[2] + 1>>] + 1 = Ahead(left, right)[at]
<1>1. PICK m \in Nat, n \in Nat : m = Len(left) /\ n = Len(right)
    OBVIOUS
<1>2. DOMAIN left = 1 .. m /\ DOMAIN right = 1 .. n
    BY <1>1
<1>3. Places(left, right) = (1 .. m + 1) \X (1 .. n + 1)
    BY <1>1 DEF Places
<1>4. PICK i \in 1 .. m + 1, j \in 1 .. n + 1 : at = <<i, j>>
    BY <1>3
<1>5. ASSUME NEW a \in 1 .. m + 1, NEW b \in 1 .. n + 1
      PROVE  /\ <<a, b>> \in Places(left, right)
             /\ Ahead(left, right)[<<a, b>>] = (m + 1 - a) + (n + 1 - b)
    BY <1>1, <1>3 DEF Ahead
<1>6. Ahead(left, right)[at] \in Nat
    BY <1>4, <1>5
<1>7. ASSUME i <= m
      PROVE  /\ i \in DOMAIN left /\ left[i] \in Period
             /\ <<i + 1, j>> \in Places(left, right)
             /\ Ahead(left, right)[<<i + 1, j>>] + 1 = Ahead(left, right)[<<i, j>>]
    <2>1. i \in 1 .. m /\ i + 1 \in 1 .. m + 1
        BY <1>7
    <2>2. left[i] \in Period
        BY <1>2, <2>1
    <2> QED
        BY <1>2, <1>5, <2>1, <2>2
<1>8. ASSUME j <= n
      PROVE  /\ j \in DOMAIN right /\ right[j] \in Period
             /\ <<i, j + 1>> \in Places(left, right)
             /\ Ahead(left, right)[<<i, j + 1>>] + 1 = Ahead(left, right)[<<i, j>>]
    <2>1. j \in 1 .. n /\ j + 1 \in 1 .. n + 1
        BY <1>8
    <2>2. right[j] \in Period
        BY <1>2, <2>1
    <2> QED
        BY <1>2, <1>5, <2>1, <2>2
<1>9. at[1] = i /\ at[2] = j
    BY <1>4
<1> QED
    BY <1>1, <1>4, <1>6, <1>7, <1>8, <1>9

(* What holds of a place when it holds of every place after it, holds of   *)
(* all of them.                                                            *)
LEMMA ReadingOn ==
    ASSUME NEW left \in Seq(Period), NEW right \in Seq(Period), NEW P,
           \A at \in Places(left, right) :
              (\A b \in Places(left, right) :
                  Ahead(left, right)[b] < Ahead(left, right)[at] => b \in P) => at \in P
    PROVE  Places(left, right) \subseteq P
<1> DEFINE m(at) == Ahead(left, right)[at]
           Q == {k \in Nat : \A at \in Places(left, right) : m(at) < k => at \in P}
<1>0. \A at \in Places(left, right) : m(at) \in Nat
    BY PlaceFacts
<1> HIDE DEF m
<1>1. 0 \in Q
    BY <1>0
<1>2. ASSUME NEW k \in Nat, k \in Q PROVE k + 1 \in Q
    <2> SUFFICES ASSUME NEW at \in Places(left, right), m(at) < k + 1 PROVE at \in P
        OBVIOUS
    <2>1. ASSUME NEW b \in Places(left, right), m(b) < m(at) PROVE b \in P
        <3>1. m(b) < k
            BY <1>0, <2>1
        <3> QED
            BY <1>2, <3>1
    <2> QED
        BY <2>1 DEF m
<1>3. Nat \subseteq Q
    <2> HIDE DEF Q
    <2> QED
        BY <1>1, <1>2, CountingUp
<1>4. ASSUME NEW at \in Places(left, right) PROVE at \in P
    <2>1. m(at) + 1 \in Q /\ m(at) < m(at) + 1
        BY <1>0, <1>3
    <2> QED
        BY <2>1
<1> QED
    BY <1>4
(* What InOrder has still to give at a place, when rest tells what it has  *)
(* to give at the places after it.                                         *)
MergeAt(left, right, at, rest) ==
    LET i == at[1]
        j == at[2]
    IN  IF i > Len(left) THEN SubSeq(right, j, Len(right))
        ELSE IF j > Len(right) THEN SubSeq(left, i, Len(left))
        ELSE IF left[i].start <= right[j].start
               THEN <<left[i]>> \o rest[<<i + 1, j>>]
               ELSE <<right[j]>> \o rest[<<i, j + 1>>]

LEMMA TailOfPeriods ==
    ASSUME NEW ps \in Seq(Period), NEW i \in 1 .. Len(ps) + 1
    PROVE  /\ SubSeq(ps, i, Len(ps)) \in Seq(Period)
           /\ Len(SubSeq(ps, i, Len(ps))) = Len(ps) - i + 1
           /\ \A k \in 1 .. Len(ps) - i + 1 : SubSeq(ps, i, Len(ps))[k] = ps[i + k - 1]
<1>1. PICK n \in Nat : n = Len(ps)
    OBVIOUS
<1>2. \A k \in i .. n : ps[k] \in Period
    BY <1>1
<1>3. i \in 1 .. n + 1
    BY <1>1
<1>4. /\ SubSeq(ps, i, n) \in Seq(Period)
      /\ Len(SubSeq(ps, i, n)) = IF i <= n THEN n - i + 1 ELSE 0
      /\ \A k \in 1 .. n - i + 1 : SubSeq(ps, i, n)[k] = ps[i + k - 1]
    BY <1>2, <1>3, SubSeqProperties
<1>5. ~ (i <= n) => n - i + 1 = 0
    BY <1>3
<1> QED
    BY <1>1, <1>4, <1>5

LEMMA MergeAtIsList ==
    ASSUME NEW left \in Seq(Period), NEW right \in Seq(Period), NEW at \in Places(left, right),
           NEW rest, \A b \in Places(left, right) :
               Ahead(left, right)[b] < Ahead(left, right)[at] => rest[b] \in Seq(Period)
    PROVE  MergeAt(left, right, at, rest) \in Seq(Period)
<1> DEFINE i == at[1]
           j == at[2]
<1>1. i \in 1 .. Len(left) + 1 /\ j \in 1 .. Len(right) + 1 /\ Ahead(left, right)[at] \in Nat
    BY PlaceFacts
<1>2. CASE i > Len(left)
    BY <1>1, <1>2, TailOfPeriods DEF MergeAt
<1>3. CASE ~ (i > Len(left)) /\ j > Len(right)
    BY <1>1, <1>3, TailOfPeriods DEF MergeAt
<1>4. CASE ~ (i > Len(left)) /\ ~ (j > Len(right))
    <2>1. i <= Len(left) /\ j <= Len(right)
        BY <1>1, <1>4
    <2>2. /\ left[i] \in Period /\ <<i + 1, j>> \in Places(left, right)
          /\ Ahead(left, right)[<<i + 1, j>>] + 1 = Ahead(left, right)[at]
          /\ right[j] \in Period /\ <<i, j + 1>> \in Places(left, right)
          /\ Ahead(left, right)[<<i, j + 1>>] + 1 = Ahead(left, right)[at]
        BY <2>1, PlaceFacts
    <2>3. /\ Ahead(left, right)[<<i + 1, j>>] \in Nat
          /\ Ahead(left, right)[<<i, j + 1>>] \in Nat
        BY <2>2, PlaceFacts
    <2> HIDE DEF i, j
    <2>4. rest[<<i + 1, j>>] \in Seq(Period) /\ rest[<<i, j + 1>>] \in Seq(Period)
        BY <1>1, <2>2, <2>3
    <2>5. <<left[i]>> \in Seq(Period) /\ <<right[j]>> \in Seq(Period)
        BY <2>2
    <2>6. <<left[i]>> \o rest[<<i + 1, j>>] \in Seq(Period) /\ <<right[j]>> \o rest[<<i, j + 1>>] \in Seq(Period)
        BY <2>4, <2>5, ConcatProperties
    <2> QED
        BY <1>4, <2>6 DEF MergeAt, i, j
<1> QED
    BY <1>2, <1>3, <1>4

Merging(left, right, rest) ==
    /\ rest \in [Places(left, right) -> Seq(Period)]
    /\ \A at \in Places(left, right) : rest[at] = MergeAt(left, right, at, rest)

LEMMA InOrderIs ==
    ASSUME NEW left \in Seq(Period), NEW right \in Seq(Period)
    PROVE  \E rest : Merging(left, right, rest) /\ InOrder(left, right) = rest[<<1, 1>>]
<1> DEFINE D == Places(left, right)
           G == Seq(Period)
           F == [af \in D \X [D -> G] |-> MergeAt(left, right, af[1], af[2])]
           IsRest(r) == r = [at \in D |-> MergeAt(left, right, at, r)]
           rest == CHOOSE r : IsRest(r)
<1>1. Ahead(left, right) \in [D -> Nat]
    BY PlaceFacts DEF Ahead
<1>2. <<>> \in G
    OBVIOUS
<1> HIDE DEF D, G
<1>3. F \in [D \X [D -> G] -> G]
    <2> SUFFICES ASSUME NEW at \in D, NEW f \in [D -> G]
                 PROVE  MergeAt(left, right, at, f) \in G
        OBVIOUS
    <2> QED
        BY MergeAtIsList DEF D, G
<1>4. ASSUME NEW at \in D, NEW f \in [D -> G], NEW g \in [D -> G],
             \A b \in D : Ahead(left, right)[b] < Ahead(left, right)[at] => f[b] = g[b]
      PROVE  MergeAt(left, right, at, f) = MergeAt(left, right, at, g)
    <2> DEFINE i == at[1]
               j == at[2]
    <2>1. i \in 1 .. Len(left) + 1 /\ j \in 1 .. Len(right) + 1 /\ Ahead(left, right)[at] \in Nat
        BY PlaceFacts DEF D
    <2>2. ASSUME i <= Len(left), j <= Len(right)
          PROVE  f[<<i + 1, j>>] = g[<<i + 1, j>>] /\ f[<<i, j + 1>>] = g[<<i, j + 1>>]
        <3>1. /\ <<i + 1, j>> \in D /\ Ahead(left, right)[<<i + 1, j>>] + 1 = Ahead(left, right)[at]
              /\ <<i, j + 1>> \in D /\ Ahead(left, right)[<<i, j + 1>>] + 1 = Ahead(left, right)[at]
            BY <2>2, PlaceFacts DEF D
        <3>2. /\ Ahead(left, right)[<<i + 1, j>>] \in Nat
              /\ Ahead(left, right)[<<i, j + 1>>] \in Nat
            BY <3>1, PlaceFacts DEF D
        <3> HIDE DEF i, j
        <3> QED
            BY <1>4, <2>1, <3>1, <3>2
    <2>3. ~ (i > Len(left)) /\ ~ (j > Len(right)) => i <= Len(left) /\ j <= Len(right)
        BY <2>1
    <2> QED
        BY <2>2, <2>3 DEF MergeAt
<1>5. LooksDown(D, G, Ahead(left, right), F)
    BY <1>4 DEF LooksDown
<1>6. \E f \in [D -> G] : Solves(D, F, f)
    <2> HIDE DEF F
    <2> QED
        BY <1>1, <1>2, <1>3, <1>5, RecursionExists
<1>7. \E r : IsRest(r)
    <2>1. PICK f \in [D -> G] : Solves(D, F, f)
        BY <1>6
    <2>2. \A at \in D : f[at] = MergeAt(left, right, at, f)
        BY <2>1 DEF Solves
    <2>3. IsRest(f)
        BY <2>2
    <2> HIDE DEF IsRest
    <2> QED
        BY <2>3
<1>8. IsRest(rest)
    <2> HIDE DEF IsRest
    <2> QED
        BY <1>7
<1>9. InOrder(left, right) = rest[<<1, 1>>]
    BY DEF InOrder, MergeAt, D
<1> HIDE DEF rest
<1>10. \A at \in D : rest[at] = MergeAt(left, right, at, rest)
    BY <1>8, Zenon
<1>11. \A at \in D : rest[at] \in G
    <2> DEFINE P == {at \in D : rest[at] \in G}
    <2>1. ASSUME NEW at \in D,
                 \A b \in D : Ahead(left, right)[b] < Ahead(left, right)[at] => b \in P
          PROVE  at \in P
        <3>1. MergeAt(left, right, at, rest) \in G
            BY <2>1, MergeAtIsList DEF D, G
        <3> QED
            BY <1>10, <3>1
    <2>2. D \subseteq P
        <3> HIDE DEF P
        <3> QED
            BY <2>1, ReadingOn DEF D
    <2> QED
        BY <2>2
<1>12. rest \in [D -> G]
    BY <1>8, <1>11
<1>13. Merging(left, right, rest)
    BY <1>10, <1>12 DEF Merging, D, G
<1> QED
    BY <1>9, <1>13
LEMMA ConsFacts ==
    ASSUME NEW x \in Period, NEW list \in Seq(Period)
    PROVE  /\ <<x>> \o list \in Seq(Period)
           /\ Range(<<x>> \o list) = {x} \cup Range(list)
           /\ StartsInOrder(list) /\ (\A p \in Range(list) : x.start <= p.start)
                => StartsInOrder(<<x>> \o list)
           /\ IsNormal(list) /\ (\A p \in Range(list) : x.end < p.start)
                => IsNormal(<<x>> \o list)
<1> DEFINE more == <<x>> \o list
<1>1. PICK n \in Nat : n = Len(list) /\ DOMAIN list = 1 .. n
    OBVIOUS
<1>2. <<x>> \in Seq(Period) /\ Len(<<x>>) = 1 /\ <<x>>[1] = x
    OBVIOUS
<1>3. /\ more \in Seq(Period) /\ Len(more) = 1 + n
      /\ \A k \in 1 .. 1 + n : more[k] = IF k <= 1 THEN <<x>>[k] ELSE list[k - 1]
    BY <1>1, <1>2, ConcatProperties
<1>4. DOMAIN more = 1 .. n + 1 /\ more[1] = x /\ \A k \in 1 .. n : more[k + 1] = list[k]
    <2>1. DOMAIN more = 1 .. n + 1
        BY <1>3
    <2>2. more[1] = x
        BY <1>2, <1>3
    <2>3. ASSUME NEW k \in 1 .. n PROVE more[k + 1] = list[k]
        <3>1. k + 1 \in 1 .. 1 + n /\ ~ (k + 1 <= 1) /\ (k + 1) - 1 = k
            OBVIOUS
        <3> QED
            BY <1>3, <3>1
    <2> QED
        BY <2>1, <2>2, <2>3
<1> HIDE DEF more
<1>5. \A k \in 1 .. n + 1 : k = 1 \/ \E l \in 1 .. n : k = l + 1
    <2> SUFFICES ASSUME NEW k \in 1 .. n + 1, k # 1 PROVE \E l \in 1 .. n : k = l + 1
        OBVIOUS
    <2>1. k - 1 \in 1 .. n /\ k = (k - 1) + 1
        OBVIOUS
    <2> QED
        BY <2>1
<1>6. Range(more) = {x} \cup Range(list)
    <2>1. ASSUME NEW p \in Range(more) PROVE p \in {x} \cup Range(list)
        <3>1. PICK k \in 1 .. n + 1 : more[k] = p
            BY <1>4 DEF Range
        <3> QED
            BY <1>1, <1>4, <1>5, <3>1 DEF Range
    <2>2. ASSUME NEW p \in Range(list) PROVE p \in Range(more)
        <3>1. PICK k \in 1 .. n : list[k] = p
            BY <1>1 DEF Range
        <3>2. k + 1 \in DOMAIN more /\ more[k + 1] = p
            BY <1>4, <3>1
        <3> QED
            BY <3>2 DEF Range
    <2>3. x \in Range(more)
        <3>1. 1 \in DOMAIN more
            BY <1>4
        <3> QED
            BY <1>4, <3>1 DEF Range
    <2> QED
        BY <2>1, <2>2, <2>3
<1>7. ASSUME StartsInOrder(list), \A p \in Range(list) : x.start <= p.start
      PROVE  StartsInOrder(more)
    <2> SUFFICES ASSUME NEW i \in 1 .. n + 1, NEW j \in 1 .. n + 1, i < j
                 PROVE  more[i].start <= more[j].start
        BY <1>4 DEF StartsInOrder
    <2>1. PICK l \in 1 .. n : j = l + 1
        BY <1>5
    <2>2. more[j] = list[l]
        BY <1>4, <2>1
    <2>3. CASE i = 1
        <3>1. list[l] \in Range(list)
            BY <1>1 DEF Range
        <3> QED
            BY <1>4, <1>7, <2>2, <2>3, <3>1
    <2>4. CASE i # 1
        <3>1. PICK k \in 1 .. n : i = k + 1
            BY <1>5, <2>4
        <3>2. more[i] = list[k] /\ k < l
            BY <1>4, <2>1, <3>1
        <3> QED
            BY <1>1, <1>7, <2>2, <3>2 DEF StartsInOrder
    <2> QED
        BY <2>3, <2>4
<1>8. ASSUME IsNormal(list), \A p \in Range(list) : x.end < p.start
      PROVE  IsNormal(more)
    <2> SUFFICES ASSUME NEW i \in 1 .. n + 1, NEW j \in 1 .. n + 1, i < j
                 PROVE  more[i].end < more[j].start
        BY <1>4 DEF IsNormal
    <2>1. PICK l \in 1 .. n : j = l + 1
        BY <1>5
    <2>2. more[j] = list[l]
        BY <1>4, <2>1
    <2>3. CASE i = 1
        <3>1. list[l] \in Range(list)
            BY <1>1 DEF Range
        <3> QED
            BY <1>4, <1>8, <2>2, <2>3, <3>1
    <2>4. CASE i # 1
        <3>1. PICK k \in 1 .. n : i = k + 1
            BY <1>5, <2>4
        <3>2. more[i] = list[k] /\ k < l
            BY <1>4, <2>1, <3>1
        <3> QED
            BY <1>1, <1>8, <2>2, <3>2 DEF IsNormal
    <2> QED
        BY <2>3, <2>4
<1> QED
    BY <1>3, <1>6, <1>7, <1>8 DEF more

(* The periods from a place on. *)
FromOn(ps, i) == {ps[k] : k \in i .. Len(ps)}

LEMMA FromOnFacts ==
    ASSUME NEW ps \in Seq(Period), NEW i \in 1 .. Len(ps) + 1
    PROVE  /\ FromOn(ps, i) \in SUBSET Period
           /\ Range(SubSeq(ps, i, Len(ps))) = FromOn(ps, i)
           /\ StartsInOrder(ps) => StartsInOrder(SubSeq(ps, i, Len(ps)))
           /\ i > Len(ps) => FromOn(ps, i) = {}
           /\ i <= Len(ps) => FromOn(ps, i) = {ps[i]} \cup FromOn(ps, i + 1)
           /\ StartsInOrder(ps) => \A p \in FromOn(ps, i) : ps[i].start <= p.start
<1> DEFINE tail == SubSeq(ps, i, Len(ps))
<1>1. PICK n \in Nat : n = Len(ps) /\ DOMAIN ps = 1 .. n
    OBVIOUS
<1>2. i \in 1 .. n + 1 /\ \A k \in i .. n : k \in 1 .. n /\ ps[k] \in Period
    BY <1>1
<1>3. /\ tail \in Seq(Period) /\ Len(tail) = n - i + 1 /\ DOMAIN tail = 1 .. n - i + 1
      /\ \A k \in 1 .. n - i + 1 : tail[k] = ps[i + k - 1]
    <2>1. /\ tail \in Seq(Period) /\ Len(tail) = n - i + 1
          /\ \A k \in 1 .. n - i + 1 : tail[k] = ps[i + k - 1]
        BY <1>1, TailOfPeriods
    <2> HIDE DEF tail
    <2> QED
        BY <2>1
<1> HIDE DEF tail
<1>4. FromOn(ps, i) = {ps[k] : k \in i .. n}
    BY <1>1 DEF FromOn
<1>5. Range(tail) = FromOn(ps, i)
    <2>1. ASSUME NEW p \in Range(tail) PROVE p \in FromOn(ps, i)
        <3>1. PICK k \in 1 .. n - i + 1 : tail[k] = p
            BY <1>3 DEF Range
        <3>2. i + k - 1 \in i .. n
            BY <1>2, <3>1
        <3> QED
            BY <1>3, <1>4, <3>1, <3>2
    <2>2. ASSUME NEW p \in FromOn(ps, i) PROVE p \in Range(tail)
        <3>1. PICK k \in i .. n : ps[k] = p
            BY <1>4
        <3>2. k - i + 1 \in 1 .. n - i + 1 /\ i + (k - i + 1) - 1 = k
            BY <1>2, <3>1
        <3> QED
            BY <1>3, <3>1, <3>2 DEF Range
    <2> QED
        BY <2>1, <2>2
<1>6. ASSUME StartsInOrder(ps)
      PROVE  /\ StartsInOrder(tail)
             /\ \A p \in FromOn(ps, i) : ps[i].start <= p.start
    <2>1. ASSUME NEW k \in 1 .. n - i + 1, NEW l \in 1 .. n - i + 1, k < l
          PROVE  tail[k].start <= tail[l].start
        <3>1. i + k - 1 \in 1 .. n /\ i + l - 1 \in 1 .. n /\ i + k - 1 < i + l - 1
            BY <1>2, <2>1
        <3>2. ps[i + k - 1].start <= ps[i + l - 1].start
            BY <1>1, <1>6, <3>1, Zenon DEF StartsInOrder
        <3> QED
            BY <1>3, <3>2
    <2>2. ASSUME NEW k \in i .. n PROVE ps[i].start <= ps[k].start
        <3>1. i \in 1 .. n /\ k \in 1 .. n /\ (i < k \/ i = k) /\ ps[i].start \in Int
            BY <1>2, PeriodFacts
        <3> QED
            BY <1>1, <1>6, <3>1 DEF StartsInOrder
    <2> QED
        BY <1>3, <1>4, <2>1, <2>2 DEF StartsInOrder
<1>7. ASSUME i > n PROVE FromOn(ps, i) = {}
    BY <1>2, <1>4, <1>7
<1>8. ASSUME i <= n PROVE FromOn(ps, i) = {ps[i]} \cup FromOn(ps, i + 1)
    <2>1. i .. n = {i} \cup (i + 1 .. n)
        BY <1>2, <1>8
    <2> QED
        BY <1>1, <2>1 DEF FromOn
<1>9. FromOn(ps, i) \in SUBSET Period
    BY <1>2, <1>4
<1> QED
    BY <1>1, <1>5, <1>6, <1>7, <1>8, <1>9 DEF tail
LEMMA MergeElements ==
    ASSUME NEW left \in Seq(Period), NEW right \in Seq(Period),
           StartsInOrder(left), StartsInOrder(right), NEW rest, Merging(left, right, rest)
    PROVE  \A at \in Places(left, right) :
              /\ Range(rest[at]) = FromOn(left, at[1]) \cup FromOn(right, at[2])
              /\ StartsInOrder(rest[at])
<1> DEFINE Good(at) == /\ Range(rest[at]) = FromOn(left, at[1]) \cup FromOn(right, at[2])
                       /\ StartsInOrder(rest[at])
           P == {at \in Places(left, right) : Good(at)}
<1>1. ASSUME NEW at \in Places(left, right),
             \A b \in Places(left, right) : Ahead(left, right)[b] < Ahead(left, right)[at] => b \in P
      PROVE  at \in P
    <2>1. PICK i \in 1 .. Len(left) + 1, j \in 1 .. Len(right) + 1 : i = at[1] /\ j = at[2]
        BY PlaceFacts
    <2>2. rest[at] = MergeAt(left, right, at, rest)
        BY DEF Merging
    <2>3. CASE i > Len(left)
        <3>1. rest[at] = SubSeq(right, j, Len(right))
            BY <2>1, <2>2, <2>3 DEF MergeAt
        <3>2. FromOn(left, i) = {} /\ Range(rest[at]) = FromOn(right, j) /\ StartsInOrder(rest[at])
            BY <2>1, <2>3, <3>1, FromOnFacts
        <3> QED
            BY <2>1, <3>2
    <2>4. CASE ~ (i > Len(left)) /\ j > Len(right)
        <3>1. rest[at] = SubSeq(left, i, Len(left))
            BY <2>1, <2>2, <2>4 DEF MergeAt
        <3>2. FromOn(right, j) = {} /\ Range(rest[at]) = FromOn(left, i) /\ StartsInOrder(rest[at])
            BY <2>1, <2>4, <3>1, FromOnFacts
        <3> QED
            BY <2>1, <3>2
    <2>5. CASE ~ (i > Len(left)) /\ ~ (j > Len(right))
        <3>1. /\ i <= Len(left) /\ j <= Len(right)
              /\ i + 1 \in 1 .. Len(left) + 1 /\ j + 1 \in 1 .. Len(right) + 1
            BY <2>5
        <3>2. /\ left[i] \in Period /\ <<i + 1, j>> \in Places(left, right)
              /\ Ahead(left, right)[<<i + 1, j>>] + 1 = Ahead(left, right)[at]
              /\ right[j] \in Period /\ <<i, j + 1>> \in Places(left, right)
              /\ Ahead(left, right)[<<i, j + 1>>] + 1 = Ahead(left, right)[at]
            BY <2>1, <3>1, PlaceFacts
        <3>3. /\ Ahead(left, right)[<<i + 1, j>>] < Ahead(left, right)[at]
              /\ Ahead(left, right)[<<i, j + 1>>] < Ahead(left, right)[at]
            <4> HIDE DEF P, Good
            <4>1. PICK a \in Nat, b \in Nat : /\ a = Ahead(left, right)[<<i + 1, j>>]
                                              /\ b = Ahead(left, right)[<<i, j + 1>>]
                BY <3>2, PlaceFacts
            <4>2. a + 1 = Ahead(left, right)[at] /\ b + 1 = Ahead(left, right)[at]
                BY <3>2, <4>1
            <4>3. a < a + 1 /\ b < b + 1
                OBVIOUS
            <4> QED
                BY <4>1, <4>2, <4>3
        <3>4. Good(<<i + 1, j>>) /\ Good(<<i, j + 1>>)
            <4> HIDE DEF Good
            <4> QED
                BY <1>1, <3>2, <3>3
        <3>5. rest[<<i + 1, j>>] \in Seq(Period) /\ rest[<<i, j + 1>>] \in Seq(Period)
            BY <3>2 DEF Merging
        <3>6. /\ FromOn(left, i) = {left[i]} \cup FromOn(left, i + 1)
              /\ FromOn(right, j) = {right[j]} \cup FromOn(right, j + 1)
              /\ \A p \in FromOn(left, i) : left[i].start <= p.start
              /\ \A p \in FromOn(right, j) : right[j].start <= p.start
              /\ FromOn(left, i) \in SUBSET Period /\ FromOn(right, j) \in SUBSET Period
            BY <3>1, FromOnFacts
        <3>7. left[i].start \in Int /\ right[j].start \in Int
            BY <3>2, PeriodFacts
        <3>8. CASE left[i].start <= right[j].start
            <4>1. rest[at] = <<left[i]>> \o rest[<<i + 1, j>>]
                BY <2>1, <2>2, <2>5, <3>8 DEF MergeAt
            <4>2. /\ Range(rest[<<i + 1, j>>]) = FromOn(left, i + 1) \cup FromOn(right, j)
                  /\ StartsInOrder(rest[<<i + 1, j>>])
                BY <3>4
            <4>3. \A p \in Range(rest[<<i + 1, j>>]) : left[i].start <= p.start
                <5> SUFFICES ASSUME NEW p \in FromOn(left, i) \cup FromOn(right, j)
                             PROVE  left[i].start <= p.start
                    BY <3>6, <4>2
                <5>1. CASE p \in FromOn(left, i)
                    BY <3>6, <5>1
                <5>2. CASE p \in FromOn(right, j)
                    <6>1. p.start \in Int /\ right[j].start <= p.start
                        BY <3>6, <5>2, PeriodFacts
                    <6> QED
                        BY <3>7, <3>8, <6>1
                <5> QED
                    BY <5>1, <5>2
            <4>4. /\ Range(rest[at]) = {left[i]} \cup Range(rest[<<i + 1, j>>])
                  /\ StartsInOrder(rest[at])
                BY <3>2, <3>5, <4>1, <4>2, <4>3, ConsFacts
            <4> QED
                BY <2>1, <3>6, <4>2, <4>4
        <3>9. CASE ~ (left[i].start <= right[j].start)
            <4>1. rest[at] = <<right[j]>> \o rest[<<i, j + 1>>]
                BY <2>1, <2>2, <2>5, <3>9 DEF MergeAt
            <4>2. /\ Range(rest[<<i, j + 1>>]) = FromOn(left, i) \cup FromOn(right, j + 1)
                  /\ StartsInOrder(rest[<<i, j + 1>>])
                BY <3>4
            <4>3. \A p \in Range(rest[<<i, j + 1>>]) : right[j].start <= p.start
                <5> SUFFICES ASSUME NEW p \in FromOn(left, i) \cup FromOn(right, j)
                             PROVE  right[j].start <= p.start
                    BY <3>6, <4>2
                <5>1. CASE p \in FromOn(right, j)
                    BY <3>6, <5>1
                <5>2. CASE p \in FromOn(left, i)
                    <6>1. p.start \in Int /\ left[i].start <= p.start
                        BY <3>6, <5>2, PeriodFacts
                    <6> QED
                        BY <3>7, <3>9, <6>1
                <5> QED
                    BY <5>1, <5>2
            <4>4. /\ Range(rest[at]) = {right[j]} \cup Range(rest[<<i, j + 1>>])
                  /\ StartsInOrder(rest[at])
                BY <3>2, <3>5, <4>1, <4>2, <4>3, ConsFacts
            <4> QED
                BY <2>1, <3>6, <4>2, <4>4
        <3> QED
            BY <3>8, <3>9
    <2> QED
        BY <2>3, <2>4, <2>5
<1>2. Places(left, right) \subseteq P
    <2> HIDE DEF P
    <2> QED
        BY <1>1, ReadingOn
<1> QED
    BY <1>2

LEMMA NormalStartsInOrder ==
    ASSUME NEW ps \in Seq(Period), IsNormal(ps)
    PROVE  StartsInOrder(ps)
<1> SUFFICES ASSUME NEW i \in DOMAIN ps, NEW j \in DOMAIN ps, i < j
             PROVE  ps[i].start <= ps[j].start
    BY DEF StartsInOrder
<1>1. /\ ps[i].start \in Int /\ ps[i].end \in Int /\ ps[i].start < ps[i].end
      /\ ps[j].start \in Int
    BY PeriodFacts
<1>2. ps[i].end < ps[j].start
    BY DEF IsNormal
<1> QED
    BY <1>1, <1>2

LEMMA CoversByRange ==
    ASSUME NEW ps \in Seq(Period)
    PROVE  /\ FromOn(ps, 1) = Range(ps)
           /\ \A t : Covers(ps, t) <=> \E p \in Range(ps) : p.start <= t /\ t < p.end
<1>1. DOMAIN ps = 1 .. Len(ps)
    OBVIOUS
<1> QED
    BY <1>1 DEF FromOn, Range, Covers

LEMMA UnionFacts ==
    ASSUME NEW left \in Seq(Period), NEW right \in Seq(Period), IsNormal(left), IsNormal(right)
    PROVE  LET set == UnionOf(left, right) IN
           /\ set \in Seq(Period) /\ IsNormal(set)
           /\ \A t \in Int : Covers(set, t) <=> Covers(left, t) \/ Covers(right, t)
<1> DEFINE list == InOrder(left, right)
           set == UnionOf(left, right)
<1>1. PICK rest : Merging(left, right, rest) /\ list = rest[<<1, 1>>]
    BY InOrderIs
<1>2. <<1, 1>> \in Places(left, right) /\ <<1, 1>>[1] = 1 /\ <<1, 1>>[2] = 1
    BY DEF Places
<1>3. list \in Seq(Period)
    BY <1>1, <1>2 DEF Merging
<1>4. Range(list) = FromOn(left, 1) \cup FromOn(right, 1) /\ StartsInOrder(list)
    BY <1>1, <1>2, NormalStartsInOrder, MergeElements
<1>5. /\ FromOn(left, 1) = Range(left) /\ FromOn(right, 1) = Range(right)
      /\ \A t : Covers(left, t) <=> \E p \in Range(left) : p.start <= t /\ t < p.end
      /\ \A t : Covers(right, t) <=> \E p \in Range(right) : p.start <= t /\ t < p.end
      /\ \A t : Covers(list, t) <=> \E p \in Range(list) : p.start <= t /\ t < p.end
    <2> HIDE DEF list
    <2> QED
        BY <1>3, CoversByRange
<1> HIDE DEF list
<1>6. \A t : Covers(list, t) <=> Covers(left, t) \/ Covers(right, t)
    BY <1>4, <1>5
<1> DEFINE out == FoldLeft(PushMerged, <<>>, list)
<1>7. /\ out \in Seq(Period) /\ IsNormal(out)
      /\ \A t \in Int : Covers(out, t) <=> Covers(list, t)
    BY <1>3, <1>4, MergedFacts, Zenon
<1>8. set = out
    BY DEF UnionOf, list
<1> HIDE DEF out, set
<1> QED
    BY <1>6, <1>7, <1>8 DEF set
(* The same for the intersection.                                          *)
MeetAt(left, right, at, rest) ==
    LET i == at[1]
        j == at[2]
    IN  IF i > Len(left) \/ j > Len(right) THEN <<>>
        ELSE Meeting(left[i], right[j])
             \o rest[IF left[i].end <= right[j].end THEN <<i + 1, j>> ELSE <<i, j + 1>>]

LEMMA MeetingFacts ==
    ASSUME NEW p \in Period, NEW q \in Period
    PROVE  /\ Meeting(p, q) \in Seq(Period)
           /\ Overlaps(p, q) => /\ Meeting(p, q) = <<Common(p, q)>> /\ Common(p, q) \in Period
                                /\ p.start <= Common(p, q).start /\ q.start <= Common(p, q).start
                                /\ p.end <= q.end => Common(p, q).end = p.end
                                /\ q.end <= p.end => Common(p, q).end = q.end
           /\ ~ Overlaps(p, q) => Meeting(p, q) = <<>>
           /\ \A t \in Int : (p.start <= t /\ t < p.end) /\ (q.start <= t /\ t < q.end)
                 <=> Overlaps(p, q) /\ Common(p, q).start <= t /\ t < Common(p, q).end
<1>1. /\ p.start \in Int /\ p.end \in Int /\ p.start < p.end
      /\ q.start \in Int /\ q.end \in Int /\ q.start < q.end
    BY PeriodFacts
<1> DEFINE a == Later(p.start, q.start)
           b == Earlier(p.end, q.end)
<1>2. /\ a \in Int /\ b \in Int /\ (Overlaps(p, q) <=> a < b)
      /\ p.start <= a /\ q.start <= a
      /\ p.end <= q.end => b = p.end
      /\ q.end <= p.end => b = q.end
      /\ \A t \in Int : (p.start <= t /\ t < p.end) /\ (q.start <= t /\ t < q.end) <=> a <= t /\ t < b
    BY <1>1 DEF Later, Earlier, Overlaps
<1>3. Common(p, q) = [start |-> a, end |-> b]
    BY DEF Common
<1> HIDE DEF a, b
<1>4. Common(p, q).start = a /\ Common(p, q).end = b
    BY <1>3
<1>5. Overlaps(p, q) => Common(p, q) \in Period
    BY <1>2, <1>3, PeriodIs
<1>6. \A t \in Int : a <= t /\ t < b => a < b
    BY <1>2
<1>7. Meeting(p, q) \in Seq(Period)
    BY <1>5 DEF Meeting
<1>8. \A t \in Int : (p.start <= t /\ t < p.end) /\ (q.start <= t /\ t < q.end)
                 <=> Overlaps(p, q) /\ Common(p, q).start <= t /\ t < Common(p, q).end
    BY <1>2, <1>4, <1>6
<1> QED
    BY <1>2, <1>4, <1>5, <1>7, <1>8 DEF Meeting

LEMMA MeetAtIsList ==
    ASSUME NEW left \in Seq(Period), NEW right \in Seq(Period), NEW at \in Places(left, right),
           NEW rest, \A b \in Places(left, right) :
               Ahead(left, right)[b] < Ahead(left, right)[at] => rest[b] \in Seq(Period)
    PROVE  MeetAt(left, right, at, rest) \in Seq(Period)
<1> DEFINE i == at[1]
           j == at[2]
<1>1. i \in 1 .. Len(left) + 1 /\ j \in 1 .. Len(right) + 1 /\ Ahead(left, right)[at] \in Nat
    BY PlaceFacts
<1>2. CASE i > Len(left) \/ j > Len(right)
    BY <1>2 DEF MeetAt
<1>3. CASE ~ (i > Len(left) \/ j > Len(right))
    <2>1. i <= Len(left) /\ j <= Len(right)
        BY <1>1, <1>3
    <2>2. /\ left[i] \in Period /\ <<i + 1, j>> \in Places(left, right)
          /\ Ahead(left, right)[<<i + 1, j>>] + 1 = Ahead(left, right)[at]
          /\ right[j] \in Period /\ <<i, j + 1>> \in Places(left, right)
          /\ Ahead(left, right)[<<i, j + 1>>] + 1 = Ahead(left, right)[at]
        BY <2>1, PlaceFacts
    <2>3. /\ Ahead(left, right)[<<i + 1, j>>] \in Nat
          /\ Ahead(left, right)[<<i, j + 1>>] \in Nat
        BY <2>2, PlaceFacts
    <2> HIDE DEF i, j
    <2>4. rest[<<i + 1, j>>] \in Seq(Period) /\ rest[<<i, j + 1>>] \in Seq(Period)
        BY <1>1, <2>2, <2>3
    <2> DEFINE next == rest[IF left[i].end <= right[j].end THEN <<i + 1, j>> ELSE <<i, j + 1>>]
    <2>5. next \in Seq(Period)
        BY <2>4
    <2>6. Meeting(left[i], right[j]) \in Seq(Period)
        BY <2>2, MeetingFacts
    <2>7. MeetAt(left, right, at, rest) = Meeting(left[i], right[j]) \o next
        BY <1>3 DEF MeetAt, i, j
    <2> HIDE DEF next
    <2> QED
        BY <2>5, <2>6, <2>7, ConcatProperties
<1> QED
    BY <1>2, <1>3

Meets(left, right, rest) ==
    /\ rest \in [Places(left, right) -> Seq(Period)]
    /\ \A at \in Places(left, right) : rest[at] = MeetAt(left, right, at, rest)

LEMMA IntersectionIs ==
    ASSUME NEW left \in Seq(Period), NEW right \in Seq(Period)
    PROVE  \E rest : Meets(left, right, rest) /\ IntersectionOf(left, right) = rest[<<1, 1>>]
<1> DEFINE D == Places(left, right)
           G == Seq(Period)
           F == [af \in D \X [D -> G] |-> MeetAt(left, right, af[1], af[2])]
           IsRest(r) == r = [at \in D |-> MeetAt(left, right, at, r)]
           rest == CHOOSE r : IsRest(r)
<1>1. Ahead(left, right) \in [D -> Nat]
    BY PlaceFacts DEF Ahead
<1>2. <<>> \in G
    OBVIOUS
<1> HIDE DEF D, G
<1>3. F \in [D \X [D -> G] -> G]
    <2> SUFFICES ASSUME NEW at \in D, NEW f \in [D -> G]
                 PROVE  MeetAt(left, right, at, f) \in G
        OBVIOUS
    <2> QED
        BY MeetAtIsList DEF D, G
<1>4. ASSUME NEW at \in D, NEW f \in [D -> G], NEW g \in [D -> G],
             \A b \in D : Ahead(left, right)[b] < Ahead(left, right)[at] => f[b] = g[b]
      PROVE  MeetAt(left, right, at, f) = MeetAt(left, right, at, g)
    <2> DEFINE i == at[1]
               j == at[2]
    <2>1. i \in 1 .. Len(left) + 1 /\ j \in 1 .. Len(right) + 1 /\ Ahead(left, right)[at] \in Nat
        BY PlaceFacts DEF D
    <2>2. ASSUME i <= Len(left), j <= Len(right)
          PROVE  f[<<i + 1, j>>] = g[<<i + 1, j>>] /\ f[<<i, j + 1>>] = g[<<i, j + 1>>]
        <3>1. /\ <<i + 1, j>> \in D /\ Ahead(left, right)[<<i + 1, j>>] + 1 = Ahead(left, right)[at]
              /\ <<i, j + 1>> \in D /\ Ahead(left, right)[<<i, j + 1>>] + 1 = Ahead(left, right)[at]
            BY <2>2, PlaceFacts DEF D
        <3>2. /\ Ahead(left, right)[<<i + 1, j>>] \in Nat
              /\ Ahead(left, right)[<<i, j + 1>>] \in Nat
            BY <3>1, PlaceFacts DEF D
        <3> HIDE DEF i, j
        <3> QED
            BY <1>4, <2>1, <3>1, <3>2
    <2>3. ~ (i > Len(left) \/ j > Len(right)) => i <= Len(left) /\ j <= Len(right)
        BY <2>1
    <2> QED
        BY <2>2, <2>3 DEF MeetAt
<1>5. LooksDown(D, G, Ahead(left, right), F)
    BY <1>4 DEF LooksDown
<1>6. \E f \in [D -> G] : Solves(D, F, f)
    <2> HIDE DEF F
    <2> QED
        BY <1>1, <1>2, <1>3, <1>5, RecursionExists
<1>7. \E r : IsRest(r)
    <2>1. PICK f \in [D -> G] : Solves(D, F, f)
        BY <1>6
    <2>2. \A at \in D : f[at] = MeetAt(left, right, at, f)
        BY <2>1 DEF Solves
    <2>3. IsRest(f)
        BY <2>2
    <2> HIDE DEF IsRest
    <2> QED
        BY <2>3
<1>8. IsRest(rest)
    <2> HIDE DEF IsRest
    <2> QED
        BY <1>7
<1>9. IntersectionOf(left, right) = rest[<<1, 1>>]
    BY DEF IntersectionOf, MeetAt, D
<1> HIDE DEF rest
<1>10. \A at \in D : rest[at] = MeetAt(left, right, at, rest)
    BY <1>8, Zenon
<1>11. \A at \in D : rest[at] \in G
    <2> DEFINE P == {at \in D : rest[at] \in G}
    <2>1. ASSUME NEW at \in D,
                 \A b \in D : Ahead(left, right)[b] < Ahead(left, right)[at] => b \in P
          PROVE  at \in P
        <3>1. MeetAt(left, right, at, rest) \in G
            BY <2>1, MeetAtIsList DEF D, G
        <3> QED
            BY <1>10, <3>1
    <2>2. D \subseteq P
        <3> HIDE DEF P
        <3> QED
            BY <2>1, ReadingOn DEF D
    <2> QED
        BY <2>2
<1>12. rest \in [D -> G]
    BY <1>8, <1>11
<1>13. Meets(left, right, rest)
    BY <1>10, <1>12 DEF Meets, D, G
<1> QED
    BY <1>9, <1>13
CoversFrom(ps, i, t) == \E p \in FromOn(ps, i) : p.start <= t /\ t < p.end

(* In a normal form the periods after one start after it has ended.        *)
LEMMA NormalFromOn ==
    ASSUME NEW ps \in Seq(Period), IsNormal(ps), NEW i \in 1 .. Len(ps)
    PROVE  /\ FromOn(ps, i) = {ps[i]} \cup FromOn(ps, i + 1)
           /\ FromOn(ps, i + 1) \in SUBSET Period
           /\ \A p \in FromOn(ps, i + 1) : ps[i].end < p.start
           /\ \A t : CoversFrom(ps, i, t)
                 <=> (ps[i].start <= t /\ t < ps[i].end) \/ CoversFrom(ps, i + 1, t)
           /\ i + 1 <= Len(ps) => ps[i].end < ps[i + 1].start
<1>1. PICK n \in Nat : n = Len(ps) /\ DOMAIN ps = 1 .. n
    OBVIOUS
<1>2. i \in 1 .. n + 1 /\ i + 1 \in 1 .. n + 1 /\ i <= n
    BY <1>1
<1>3. FromOn(ps, i) = {ps[i]} \cup FromOn(ps, i + 1) /\ FromOn(ps, i + 1) \in SUBSET Period
    BY <1>1, <1>2, FromOnFacts
<1>4. ASSUME NEW k \in i + 1 .. n PROVE ps[i].end < ps[k].start
    <2>1. i \in 1 .. n /\ k \in 1 .. n /\ i < k
        BY <1>2
    <2> QED
        BY <1>1, <2>1 DEF IsNormal
<1>5. \A p \in FromOn(ps, i + 1) : ps[i].end < p.start
    BY <1>1, <1>4 DEF FromOn
<1>6. \A t : CoversFrom(ps, i, t)
          <=> (ps[i].start <= t /\ t < ps[i].end) \/ CoversFrom(ps, i + 1, t)
    BY <1>3, Zenon DEF CoversFrom
<1>7. i + 1 <= n => ps[i].end < ps[i + 1].start
    BY <1>2, <1>4
<1> QED
    BY <1>1, <1>3, <1>5, <1>6, <1>7

(* What two normal forms have in common from a place on, when the period   *)
(* that ends first, p of ps, is given up: nothing that starts after it has *)
(* ended meets the rest of the other.                                      *)
LEMMA GiveUpFirst ==
    ASSUME NEW ps \in Seq(Period), IsNormal(ps), NEW i \in 1 .. Len(ps),
           NEW qs \in Seq(Period), IsNormal(qs), NEW j \in 1 .. Len(qs),
           ps[i].end <= qs[j].end, NEW t \in Int
    PROVE  CoversFrom(ps, i, t) /\ CoversFrom(qs, j, t)
              <=> \/ /\ ps[i].start <= t /\ t < ps[i].end
                     /\ qs[j].start <= t /\ t < qs[j].end
                  \/ CoversFrom(ps, i + 1, t) /\ CoversFrom(qs, j, t)
<1>1. ps[i] \in Period /\ qs[j] \in Period
    OBVIOUS
<1>2. ps[i].end \in Int /\ qs[j].end \in Int
    BY <1>1, PeriodFacts
<1>3. CoversFrom(ps, i, t) <=> (ps[i].start <= t /\ t < ps[i].end) \/ CoversFrom(ps, i + 1, t)
    BY NormalFromOn
<1>4. CoversFrom(qs, j, t) <=> (qs[j].start <= t /\ t < qs[j].end) \/ CoversFrom(qs, j + 1, t)
    BY NormalFromOn
<1>5. ASSUME t < ps[i].end, CoversFrom(qs, j + 1, t) PROVE FALSE
    <2>1. PICK q \in FromOn(qs, j + 1) : q.start <= t
        BY <1>5, Zenon DEF CoversFrom
    <2>2. q \in Period /\ qs[j].end < q.start
        BY NormalFromOn
    <2>3. q.start \in Int
        BY <2>2, PeriodFacts
    <2> QED
        BY <1>2, <1>5, <2>1, <2>2, <2>3
<1> QED
    BY <1>3, <1>4, <1>5

LEMMA MeetElements ==
    ASSUME NEW left \in Seq(Period), NEW right \in Seq(Period),
           IsNormal(left), IsNormal(right), NEW rest, Meets(left, right, rest)
    PROVE  \A at \in Places(left, right) :
              /\ IsNormal(rest[at])
              /\ \A t \in Int : Covers(rest[at], t)
                    <=> CoversFrom(left, at[1], t) /\ CoversFrom(right, at[2], t)
<1> DEFINE Good(at) ==
              /\ IsNormal(rest[at])
              /\ \A t \in Int : Covers(rest[at], t)
                    <=> CoversFrom(left, at[1], t) /\ CoversFrom(right, at[2], t)
              /\ \A p \in Range(rest[at]) : /\ at[1] <= Len(left) /\ left[at[1]].start <= p.start
                                            /\ at[2] <= Len(right) /\ right[at[2]].start <= p.start
           P == {at \in Places(left, right) : Good(at)}
<1>1. ASSUME NEW at \in Places(left, right),
             \A b \in Places(left, right) : Ahead(left, right)[b] < Ahead(left, right)[at] => b \in P
      PROVE  at \in P
    <2>1. PICK i \in 1 .. Len(left) + 1, j \in 1 .. Len(right) + 1 : i = at[1] /\ j = at[2]
        BY PlaceFacts
    <2>2. rest[at] = MeetAt(left, right, at, rest)
        BY DEF Meets
    <2>3. CASE i > Len(left) \/ j > Len(right)
        <3>1. rest[at] = <<>>
            BY <2>1, <2>2, <2>3 DEF MeetAt
        <3>2. IsNormal(<<>>) /\ Range(<<>>) = {} /\ \A t : ~ Covers(<<>>, t)
            BY DEF IsNormal, Range, Covers
        <3>3. \A t : ~ (CoversFrom(left, i, t) /\ CoversFrom(right, j, t))
            BY <2>3, FromOnFacts DEF CoversFrom
        <3> QED
            BY <2>1, <3>1, <3>2, <3>3
    <2>4. CASE ~ (i > Len(left) \/ j > Len(right))
        <3>1. i \in 1 .. Len(left) /\ j \in 1 .. Len(right) /\ i <= Len(left) /\ j <= Len(right)
            BY <2>4
        <3>2. /\ left[i] \in Period /\ <<i + 1, j>> \in Places(left, right)
              /\ Ahead(left, right)[<<i + 1, j>>] + 1 = Ahead(left, right)[at]
              /\ right[j] \in Period /\ <<i, j + 1>> \in Places(left, right)
              /\ Ahead(left, right)[<<i, j + 1>>] + 1 = Ahead(left, right)[at]
            BY <2>1, <3>1, PlaceFacts
        <3>3. /\ Ahead(left, right)[<<i + 1, j>>] < Ahead(left, right)[at]
              /\ Ahead(left, right)[<<i, j + 1>>] < Ahead(left, right)[at]
            <4> HIDE DEF P, Good
            <4>1. PICK a \in Nat, b \in Nat : /\ a = Ahead(left, right)[<<i + 1, j>>]
                                              /\ b = Ahead(left, right)[<<i, j + 1>>]
                BY <3>2, PlaceFacts
            <4>2. a + 1 = Ahead(left, right)[at] /\ b + 1 = Ahead(left, right)[at]
                BY <3>2, <4>1
            <4>3. a < a + 1 /\ b < b + 1
                OBVIOUS
            <4> QED
                BY <4>1, <4>2, <4>3
        <3>4. Good(<<i + 1, j>>) /\ Good(<<i, j + 1>>)
            <4> HIDE DEF Good
            <4> QED
                BY <1>1, <3>2, <3>3
        <3>5. rest[<<i + 1, j>>] \in Seq(Period) /\ rest[<<i, j + 1>>] \in Seq(Period)
            BY <3>2 DEF Meets
        <3> DEFINE p == left[i]
                   q == right[j]
                   common == Common(p, q)
                   next == IF p.end <= q.end THEN rest[<<i + 1, j>>] ELSE rest[<<i, j + 1>>]
        <3>6. rest[at] = Meeting(p, q) \o next
            BY <2>1, <2>2, <2>4 DEF MeetAt
        <3>7. /\ p \in Period /\ q \in Period /\ p.start \in Int /\ p.end \in Int /\ p.start < p.end
              /\ q.start \in Int /\ q.end \in Int /\ q.start < q.end
            BY <3>2, PeriodFacts
        <3>8. ASSUME NEW r \in Range(next)
              PROVE  /\ p.start <= r.start /\ q.start <= r.start
                     /\ Overlaps(p, q) => common.end < r.start
            <4>0. r \in Period /\ r.start \in Int
                <5> HIDE DEF P, Good, common
                <5>1. next \in Seq(Period)
                    BY <3>5
                <5>2. r \in Period
                    <6> HIDE DEF next
                    <6> QED
                        BY <5>1, RangeOfSeq
                <5> QED
                    BY <5>2, PeriodFacts
            <4>1. CASE p.end <= q.end
                <5>1. i + 1 <= Len(left) /\ left[i + 1].start <= r.start /\ q.start <= r.start
                    <6>1. r \in Range(rest[<<i + 1, j>>])
                        BY <4>1
                    <6> QED
                        BY <3>4, <6>1
                <5>2. p.end < left[i + 1].start
                    BY <3>1, <5>1, NormalFromOn
                <5>3. left[i + 1].start \in Int
                    <6>1. i + 1 \in DOMAIN left
                        BY <3>1, <5>1
                    <6> QED
                        BY <6>1, PeriodFacts
                <5>4. Overlaps(p, q) => common.end = p.end
                    BY <3>7, <4>1, MeetingFacts
                <5> HIDE DEF p, q, common, next, P, Good
                <5> QED
                    BY <3>7, <4>0, <5>1, <5>2, <5>3, <5>4
            <4>2. CASE ~ (p.end <= q.end)
                <5>1. j + 1 <= Len(right) /\ right[j + 1].start <= r.start /\ p.start <= r.start
                    <6>1. r \in Range(rest[<<i, j + 1>>])
                        BY <4>2
                    <6> QED
                        BY <3>4, <6>1
                <5>2. q.end < right[j + 1].start
                    BY <3>1, <5>1, NormalFromOn
                <5>3. right[j + 1].start \in Int
                    <6>1. j + 1 \in DOMAIN right
                        BY <3>1, <5>1
                    <6> QED
                        BY <6>1, PeriodFacts
                <5>4. Overlaps(p, q) => common.end = q.end
                    <6>1. q.end <= p.end
                        BY <3>7, <4>2
                    <6> QED
                        BY <3>7, <6>1, MeetingFacts
                <5> HIDE DEF p, q, common, next, P, Good
                <5> QED
                    BY <3>7, <4>0, <5>1, <5>2, <5>3, <5>4
            <4> QED
                BY <4>1, <4>2
        <3>9. ASSUME NEW t \in Int
              PROVE  CoversFrom(left, i, t) /\ CoversFrom(right, j, t)
                        <=> \/ (p.start <= t /\ t < p.end) /\ (q.start <= t /\ t < q.end)
                            \/ Covers(next, t)
            <4>1. CASE p.end <= q.end
                <5>1. Covers(next, t) <=> CoversFrom(left, i + 1, t) /\ CoversFrom(right, j, t)
                    BY <3>4, <4>1
                <5> QED
                    BY <3>1, <4>1, <5>1, GiveUpFirst
            <4>2. CASE ~ (p.end <= q.end)
                <5>1. Covers(next, t) <=> CoversFrom(left, i, t) /\ CoversFrom(right, j + 1, t)
                    BY <3>4, <4>2
                <5>2. q.end <= p.end
                    BY <3>7, <4>2
                <5>3. CoversFrom(right, j, t) /\ CoversFrom(left, i, t)
                        <=> \/ (q.start <= t /\ t < q.end) /\ (p.start <= t /\ t < p.end)
                            \/ CoversFrom(right, j + 1, t) /\ CoversFrom(left, i, t)
                    BY <3>1, <5>2, GiveUpFirst
                <5> QED
                    BY <5>1, <5>3
            <4> QED
                BY <4>1, <4>2
        <3>10. next \in Seq(Period) /\ IsNormal(next)
            BY <3>4, <3>5
        <3> HIDE DEF next
        <3>11. CASE Overlaps(p, q)
            <4>1. Meeting(p, q) = <<common>> /\ common \in Period
                  /\ p.start <= common.start /\ q.start <= common.start
                BY <3>7, <3>11, MeetingFacts
            <4>2. \A t \in Int : (p.start <= t /\ t < p.end) /\ (q.start <= t /\ t < q.end)
                                    <=> common.start <= t /\ t < common.end
                BY <3>7, <3>11, MeetingFacts
            <4> HIDE DEF common
            <4>3. /\ rest[at] \in Seq(Period) /\ Range(rest[at]) = {common} \cup Range(next)
                  /\ IsNormal(rest[at])
                BY <3>6, <3>8, <3>10, <3>11, <4>1, ConsFacts
            <4>4. \A t : /\ Covers(rest[at], t) <=> \E r \in Range(rest[at]) : r.start <= t /\ t < r.end
                         /\ Covers(next, t) <=> \E r \in Range(next) : r.start <= t /\ t < r.end
                BY <3>10, <4>3, CoversByRange
            <4>5. \A t : Covers(rest[at], t) <=> (common.start <= t /\ t < common.end) \/ Covers(next, t)
                BY <4>3, <4>4
            <4>6. \A r \in Range(rest[at]) : p.start <= r.start /\ q.start <= r.start
                BY <3>8, <4>1, <4>3
            <4>7. \A t \in Int : Covers(rest[at], t)
                     <=> CoversFrom(left, i, t) /\ CoversFrom(right, j, t)
                BY <3>9, <4>2, <4>5
            <4> QED
                BY <2>1, <3>1, <4>3, <4>6, <4>7
        <3>12. CASE ~ Overlaps(p, q)
            <4>1. /\ Meeting(p, q) = <<>>
                  /\ \A t \in Int : ~ ((p.start <= t /\ t < p.end) /\ (q.start <= t /\ t < q.end))
                BY <3>7, <3>12, MeetingFacts
            <4>2. rest[at] = next
                BY <3>6, <3>10, <4>1, ConcatEmptySeq
            <4>3. \A t \in Int : Covers(rest[at], t)
                     <=> CoversFrom(left, i, t) /\ CoversFrom(right, j, t)
                BY <3>9, <4>1, <4>2
            <4>4. \A r \in Range(rest[at]) : p.start <= r.start /\ q.start <= r.start
                BY <3>8, <4>2
            <4> QED
                BY <2>1, <3>1, <3>10, <4>2, <4>3, <4>4
        <3> QED
            BY <3>11, <3>12
    <2> QED
        BY <2>3, <2>4
<1>2. Places(left, right) \subseteq P
    <2> HIDE DEF P
    <2> QED
        BY <1>1, ReadingOn
<1> QED
    BY <1>2

LEMMA IntersectionFacts ==
    ASSUME NEW left \in Seq(Period), NEW right \in Seq(Period), IsNormal(left), IsNormal(right)
    PROVE  LET set == IntersectionOf(left, right) IN
           /\ set \in Seq(Period) /\ IsNormal(set)
           /\ \A t \in Int : Covers(set, t) <=> Covers(left, t) /\ Covers(right, t)
<1>1. PICK rest : Meets(left, right, rest) /\ IntersectionOf(left, right) = rest[<<1, 1>>]
    BY IntersectionIs
<1>2. <<1, 1>> \in Places(left, right) /\ <<1, 1>>[1] = 1 /\ <<1, 1>>[2] = 1
    BY DEF Places
<1>3. rest[<<1, 1>>] \in Seq(Period)
    BY <1>1, <1>2 DEF Meets
<1>4. /\ IsNormal(rest[<<1, 1>>])
      /\ \A t \in Int : Covers(rest[<<1, 1>>], t) <=> CoversFrom(left, 1, t) /\ CoversFrom(right, 1, t)
    BY <1>1, <1>2, MeetElements
<1>5. \A t : (CoversFrom(left, 1, t) <=> Covers(left, t)) /\ (CoversFrom(right, 1, t) <=> Covers(right, t))
    BY CoversByRange DEF CoversFrom
<1> QED
    BY <1>1, <1>3, <1>4, <1>5
-----------------------------------------------------------------------------
(* Sets of ticks, and the queries *)

TickOrder(T) == {uv \in T \X T : uv[1] < uv[2]}

(* The periods of a set of ticks cover its ticks.                          *)
LEMMA PeriodsOfTicksFacts ==
    ASSUME NEW T \in SUBSET Int, IsFiniteSet(T)
    PROVE  LET set == PeriodsOfTicks(T) IN
           /\ set \in Seq(Period) /\ IsNormal(set)
           /\ \A t \in Int : Covers(set, t) <=> t \in T
<1> DEFINE IsNth(n, u) == Cardinality({t \in T : t < u}) = n - 1
           ticks == [n \in 1 .. Cardinality(T) |-> CHOOSE u \in T : IsNth(n, u)]
           list == [n \in DOMAIN ticks |-> [start |-> ticks[n], end |-> ticks[n] + 1]]
           R == TickOrder(T)
<1>1. PeriodsOfTicks(T) = Normalise(list)
    BY DEF PeriodsOfTicks, SortedBy
<1>2. StrictTotalOrder(T, R)
    <2>1. \A u, v \in T : <<u, v>> \in R <=> u < v
        BY DEF TickOrder
    <2> HIDE DEF R
    <2> QED
        BY <2>1 DEF StrictTotalOrder
<1>3. \A u \in T : {t \in T : t < u} = Preceding(T, R, u)
    BY DEF Preceding, TickOrder
<1>4. PICK size \in Nat : size = Cardinality(T)
    BY FS_CardinalityType
<1>5. ASSUME NEW n \in 1 .. size
      PROVE  ticks[n] \in T /\ IsNth(n, ticks[n])
    <2>1. n - 1 \in 0 .. Cardinality(T) - 1 /\ n \in 1 .. Cardinality(T)
        BY <1>4
    <2>2. \E u \in T : IsNth(n, u)
        <3>1. \E u \in T : Cardinality(Preceding(T, R, u)) = n - 1
            <4> HIDE DEF R
            <4> QED
                BY <1>2, <2>1, RankIsTaken
        <3> QED
            BY <1>3, <3>1
    <2>3. ticks[n] = CHOOSE u \in T : IsNth(n, u)
        BY <2>1
    <2> HIDE DEF IsNth, ticks
    <2> QED
        BY <2>2, <2>3
<1>6. InLine(T, R, ticks)
    <2>1. ticks = [n \in 1 .. Cardinality(T) |-> ticks[n]]
        <3> HIDE DEF IsNth
        <3> QED
            OBVIOUS
    <2> HIDE DEF ticks
    <2> QED
        BY <1>3, <1>4, <1>5, <2>1 DEF InLine
<1> HIDE DEF ticks
<1>7. DOMAIN ticks = 1 .. size /\ \A u \in T : \E n \in 1 .. size : ticks[n] = u
    <2>1. /\ DOMAIN ticks = 1 .. Cardinality(T)
          /\ \A u \in T : \E n \in DOMAIN ticks : ticks[n] = u
        <3> HIDE DEF R
        <3> QED
            BY <1>2, <1>6, InLineFacts
    <2> QED
        BY <1>4, <2>1
<1>8. /\ DOMAIN list = 1 .. size
      /\ \A n \in 1 .. size : list[n].start = ticks[n] /\ list[n].end = ticks[n] + 1
    BY <1>7
<1>9. list \in Seq(Period)
    <2>1. \A n \in 1 .. size : [start |-> ticks[n], end |-> ticks[n] + 1] \in Period
        <3> SUFFICES ASSUME NEW n \in 1 .. size
                     PROVE  [start |-> ticks[n], end |-> ticks[n] + 1] \in Period
            OBVIOUS
        <3>1. ticks[n] \in Int
            BY <1>5
        <3> QED
            BY <3>1, PeriodIs
    <2>2. list = [n \in 1 .. size |-> [start |-> ticks[n], end |-> ticks[n] + 1]]
        BY <1>7
    <2> HIDE DEF list
    <2> QED
        BY <2>1, <2>2
<1> HIDE DEF list
<1>10. ASSUME NEW t \in Int
       PROVE  Covers(list, t) <=> t \in T
    <2>1. ASSUME Covers(list, t) PROVE t \in T
        <3>1. PICK n \in 1 .. size : ticks[n] <= t /\ t < ticks[n] + 1
            BY <1>8, <2>1 DEF Covers
        <3>2. ticks[n] \in T /\ ticks[n] \in Int
            BY <1>5
        <3>3. t = ticks[n]
            BY <3>1, <3>2
        <3> QED
            BY <3>2, <3>3
    <2>2. ASSUME t \in T PROVE Covers(list, t)
        <3>1. PICK n \in 1 .. size : ticks[n] = t
            BY <1>7, <2>2
        <3>2. list[n].start <= t /\ t < list[n].end
            BY <1>8, <3>1
        <3> QED
            BY <1>8, <3>2 DEF Covers
    <2> QED
        BY <2>1, <2>2
<1> QED
    BY <1>1, <1>9, <1>10, NormaliseFacts

(* The periods of a list in order that pass a test that only the first     *)
(* ones can pass are counted by the place of the last of them.             *)
LEMMA FirstOnes ==
    ASSUME NEW n \in Nat, NEW A \in SUBSET (1 .. n),
           \A i \in A : \A j \in 1 .. n : j < i => j \in A
    PROVE  Cardinality(A) \in 0 .. n /\ A = 1 .. Cardinality(A)
<1>1. CASE A = {}
    BY <1>1, FS_EmptySet
<1>2. CASE A # {}
    <2>1. A \in SUBSET Int /\ \A x \in A : x <= n
        OBVIOUS
    <2>2. PICK m \in A : \A x \in A : x <= m
        BY <1>2, <2>1, LargestNumber
    <2>4. m \in Nat /\ m <= n /\ m \in 1 .. n
        OBVIOUS
    <2>6. \A x \in A : x \in 1 .. m
        BY <2>2
    <2>7. ASSUME NEW x \in 1 .. m PROVE x \in A
        <3>1. x \in 1 .. n /\ (x < m \/ x = m)
            BY <2>4
        <3> QED
            BY <3>1
    <2>3. A = 1 .. m
        BY <2>6, <2>7
    <2>5. Cardinality(1 .. m) = m
        BY <2>4, FS_Interval
    <2> QED
        BY <2>3, <2>4, <2>5
<1> QED
    BY <1>1, <1>2

LEMMA ContainsPointFacts ==
    ASSUME NEW ps \in Seq(Period), IsNormal(ps), NEW t \in Int
    PROVE  ContainsPoint(ps, t) <=> Covers(ps, t)
<1>1. PICK n \in Nat : n = Len(ps) /\ DOMAIN ps = 1 .. n
    OBVIOUS
<1> DEFINE A == {j \in 1 .. n : ps[j].start <= t}
           i == Cardinality(A)
<1>2. \A k, l \in 1 .. n : k < l => ps[k].end < ps[l].start
    BY <1>1 DEF IsNormal
<1>3. \A k \in 1 .. n : ps[k].start \in Int /\ ps[k].end \in Int /\ ps[k].start < ps[k].end
    BY <1>1, PeriodFacts
<1>4. i \in 0 .. n /\ A = 1 .. i
    <2>1. ASSUME NEW k \in A, NEW j \in 1 .. n, j < k PROVE j \in A
        BY <1>2, <1>3, <2>1
    <2> HIDE DEF A
    <2>2. A \in SUBSET (1 .. n)
        BY DEF A
    <2> QED
        BY <2>1, <2>2, FirstOnes
<1>5. ContainsPoint(ps, t) <=> i # 0 /\ ps[i].start <= t /\ t < ps[i].end
    BY <1>1 DEF ContainsPoint
<1>6. \A j \in 1 .. n : ps[j].start <= t <=> j <= i
    <2>1. \A j \in 1 .. n : ps[j].start <= t <=> j \in A
        OBVIOUS
    <2> HIDE DEF A
    <2> QED
        BY <1>4, <2>1
<1> HIDE DEF i, A
<1>7. ASSUME Covers(ps, t)
      PROVE  i # 0 /\ ps[i].start <= t /\ t < ps[i].end
    <2>1. PICK j \in 1 .. n : ps[j].start <= t /\ t < ps[j].end
        BY <1>1, <1>7 DEF Covers
    <2>2. j <= i /\ i \in 1 .. n /\ ps[i].start <= t
        BY <1>4, <1>6, <2>1
    <2>3. ~ (j < i)
        BY <1>2, <1>3, <2>1, <2>2
    <2>4. j = i
        BY <1>4, <2>2, <2>3
    <2> QED
        BY <2>1, <2>2, <2>4
<1>8. ASSUME i # 0, ps[i].start <= t, t < ps[i].end
      PROVE  Covers(ps, t)
    <2>1. i \in DOMAIN ps
        BY <1>1, <1>4, <1>8
    <2> QED
        BY <1>8, <2>1 DEF Covers
<1> QED
    BY <1>5, <1>7, <1>8

LEMMA OverlapsAnyFacts ==
    ASSUME NEW ps \in Seq(Period), IsNormal(ps), NEW q \in Period
    PROVE  OverlapsAny(ps, q) <=> \E t \in Int : q.start <= t /\ t < q.end /\ Covers(ps, t)
<1>1. PICK n \in Nat : n = Len(ps) /\ DOMAIN ps = 1 .. n
    OBVIOUS
<1> DEFINE A == {j \in 1 .. n : ps[j].start < q.end}
           i == Cardinality(A)
<1>2. \A k, l \in 1 .. n : k < l => ps[k].end < ps[l].start
    BY <1>1 DEF IsNormal
<1>3. \A k \in 1 .. n : ps[k].start \in Int /\ ps[k].end \in Int /\ ps[k].start < ps[k].end
    BY <1>1, PeriodFacts
<1>a. q.start \in Int /\ q.end \in Int /\ q.start < q.end
    BY PeriodFacts
<1>4. i \in 0 .. n /\ A = 1 .. i
    <2>1. ASSUME NEW k \in A, NEW j \in 1 .. n, j < k PROVE j \in A
        BY <1>2, <1>3, <1>a, <2>1
    <2> HIDE DEF A
    <2>2. A \in SUBSET (1 .. n)
        BY DEF A
    <2> QED
        BY <2>1, <2>2, FirstOnes
<1>5. OverlapsAny(ps, q) <=> i # 0 /\ ps[i].start < q.end /\ q.start < ps[i].end
    BY <1>1 DEF OverlapsAny, Overlaps
<1>6. \A j \in 1 .. n : ps[j].start < q.end <=> j <= i
    <2>1. \A j \in 1 .. n : ps[j].start < q.end <=> j \in A
        OBVIOUS
    <2> HIDE DEF A
    <2> QED
        BY <1>4, <2>1
<1> HIDE DEF i, A
<1>7. ASSUME NEW t \in Int, q.start <= t, t < q.end, Covers(ps, t)
      PROVE  i # 0 /\ ps[i].start < q.end /\ q.start < ps[i].end
    <2>1. PICK j \in 1 .. n : ps[j].start <= t /\ t < ps[j].end
        BY <1>1, <1>7 DEF Covers
    <2>2. ps[j].start < q.end /\ q.start < ps[j].end
        BY <1>3, <1>7, <1>a, <2>1
    <2>3. j <= i /\ i \in 1 .. n /\ ps[i].start < q.end
        BY <1>4, <1>6, <2>2
    <2>4. j < i => q.start < ps[i].end
        BY <1>2, <1>3, <1>a, <2>2, <2>3
    <2>5. j = i \/ j < i
        BY <1>4, <2>3
    <2> QED
        BY <2>2, <2>3, <2>4, <2>5
<1>8. ASSUME i # 0, ps[i].start < q.end, q.start < ps[i].end
      PROVE  \E t \in Int : q.start <= t /\ t < q.end /\ Covers(ps, t)
    <2>1. i \in 1 .. n
        BY <1>4, <1>8
    <2> DEFINE t == Later(ps[i].start, q.start)
    <2>2. t \in Int /\ q.start <= t /\ t < q.end /\ ps[i].start <= t /\ t < ps[i].end
        BY <1>3, <1>8, <1>a, <2>1 DEF Later
    <2> HIDE DEF t
    <2>3. Covers(ps, t)
        BY <1>1, <2>1, <2>2 DEF Covers
    <2> QED
        BY <2>2, <2>3
<1> QED
    BY <1>5, <1>7, <1>8

(* Normalisation keeps the time of any list of periods and leaves it       *)
(* sorted and apart; union and intersection of two sets of ticks are those *)
(* of the sets, in normal form; and the two queries that look at one       *)
(* period only answer for the whole set (interval.rs:43-126;               *)
(* period_set.rs:43-59): for lists and sets of any size.                   *)
THEOREM PeriodSetsAlwaysSets ==
    ASSUME About("raw") => sample.periods \in Seq(PeriodsOver(Int)),
           About("sets") => /\ sample.left \in SUBSET Int /\ IsFiniteSet(sample.left)
                            /\ sample.right \in SUBSET Int /\ IsFiniteSet(sample.right)
    PROVE  PeriodSetsAreSets
<1>1. NormaliseKeepsTime
    <2> SUFFICES ASSUME sample.periods \in Seq(Period)
                 PROVE  LET set == Normalise(sample.periods) IN
                        IsNormal(set) /\ Points(set) = Points(sample.periods)
        BY DEF NormaliseKeepsTime, Period
    <2> DEFINE ps == sample.periods
               set == Normalise(ps)
    <2>1. set \in Seq(Period) /\ IsNormal(set) /\ \A t \in Int : Covers(set, t) <=> Covers(ps, t)
        BY NormaliseFacts
    <2> HIDE DEF set
    <2>2. /\ \A t : t \in Points(set) <=> t \in Int /\ Covers(set, t)
          /\ \A t : t \in Points(ps) <=> t \in Int /\ Covers(ps, t)
        BY <2>1, PointsAreCovered
    <2>3. Points(set) = Points(ps)
        BY <2>1, <2>2
    <2> QED
        BY <2>1, <2>3 DEF set
<1>2. ASSUME About("sets")
      PROVE  AlgebraIsSetAlgebra /\ QueriesFindThePeriod
    <2> DEFINE left == PeriodsOfTicks(sample.left)
               right == PeriodsOfTicks(sample.right)
               both == IntersectionOf(left, right)
               any == UnionOf(left, right)
    <2>0. /\ sample.left \in SUBSET Int /\ IsFiniteSet(sample.left)
          /\ sample.right \in SUBSET Int /\ IsFiniteSet(sample.right)
        BY <1>2
    <2>1. /\ left \in Seq(Period) /\ IsNormal(left)
          /\ \A t \in Int : Covers(left, t) <=> t \in sample.left
        BY <2>0, PeriodsOfTicksFacts
    <2>2. /\ right \in Seq(Period) /\ IsNormal(right)
          /\ \A t \in Int : Covers(right, t) <=> t \in sample.right
        BY <2>0, PeriodsOfTicksFacts
    <2> HIDE DEF left, right
    <2>3. /\ both \in Seq(Period) /\ IsNormal(both)
          /\ \A t \in Int : Covers(both, t) <=> Covers(left, t) /\ Covers(right, t)
        BY <2>1, <2>2, IntersectionFacts
    <2>4. /\ any \in Seq(Period) /\ IsNormal(any)
          /\ \A t \in Int : Covers(any, t) <=> Covers(left, t) \/ Covers(right, t)
        BY <2>1, <2>2, UnionFacts
    <2> HIDE DEF both, any
    <2>5. Points(both) = sample.left \cap sample.right
        <3>1. \A t : t \in Points(both) <=> t \in Int /\ Covers(both, t)
            BY <2>3, PointsAreCovered
        <3> QED
            BY <2>0, <2>1, <2>2, <2>3, <3>1
    <2>6. Points(any) = sample.left \cup sample.right
        <3>1. \A t : t \in Points(any) <=> t \in Int /\ Covers(any, t)
            BY <2>4, PointsAreCovered
        <3> QED
            BY <2>0, <2>1, <2>2, <2>4, <3>1
    <2>7. AlgebraIsSetAlgebra
        BY <2>3, <2>4, <2>5, <2>6 DEF AlgebraIsSetAlgebra, both, any, left, right
    <2>8. \A t \in sample.right : ContainsPoint(left, t) <=> t \in sample.left
        BY <2>0, <2>1, ContainsPointFacts
    <2>9. ASSUME NEW from \in sample.right, NEW to \in sample.right, from < to
          PROVE  OverlapsAny(left, [start |-> from, end |-> to])
                    <=> (from .. to - 1) \cap sample.left # {}
        <3>1. from \in Int /\ to \in Int
            BY <2>0
        <3> DEFINE q == [start |-> from, end |-> to]
        <3>2. q \in Period /\ q.start = from /\ q.end = to
            BY <2>9, <3>1, PeriodIs
        <3> HIDE DEF q
        <3>3. OverlapsAny(left, q) <=> \E t \in Int : from <= t /\ t < to /\ Covers(left, t)
            BY <2>1, <3>2, OverlapsAnyFacts
        <3>4. (from .. to - 1) \cap sample.left # {} <=> \E t \in Int : from <= t /\ t < to /\ t \in sample.left
            BY <2>0, <3>1
        <3> QED
            BY <2>1, <3>3, <3>4 DEF q
    <2>10. QueriesFindThePeriod
        BY <2>8, <2>9 DEF QueriesFindThePeriod, left
    <2> QED
        BY <2>7, <2>10
<1>3. ~ About("sets") => AlgebraIsSetAlgebra /\ QueriesFindThePeriod
    BY DEF AlgebraIsSetAlgebra, QueriesFindThePeriod
<1> QED
    BY <1>1, <1>2, <1>3 DEF PeriodSetsAreSets
-----------------------------------------------------------------------------
(* Expressions *)

NodesOver(kinds, S) == [kind : kinds, parts : Seq(S)]
LevelsUpTo(leaves, kinds, n, f) ==
    f[0] = leaves /\ \A h \in 1 .. n : f[h] = f[h - 1] \cup NodesOver(kinds, f[h - 1])

LEMMA OneLevelsUpTo ==
    ASSUME NEW leaves, NEW kinds, NEW m \in Nat, NEW n \in Nat, NEW f, NEW g,
           LevelsUpTo(leaves, kinds, m, f), LevelsUpTo(leaves, kinds, n, g), m <= n
    PROVE  f[m] = g[m]
<1> DEFINE P == {h \in Nat : h <= m => f[h] = g[h]}
<1>1. 0 \in P
    BY DEF LevelsUpTo
<1>2. ASSUME NEW h \in Nat, h \in P PROVE h + 1 \in P
    <2> SUFFICES ASSUME h + 1 <= m PROVE f[h + 1] = g[h + 1]
        OBVIOUS
    <2>1. h + 1 \in 1 .. m /\ h + 1 \in 1 .. n /\ (h + 1) - 1 = h /\ f[h] = g[h]
        BY <1>2
    <2>2. /\ f[h + 1] = f[h] \cup NodesOver(kinds, f[h])
          /\ g[h + 1] = g[h] \cup NodesOver(kinds, g[h])
        BY <2>1 DEF LevelsUpTo
    <2> QED
        BY <2>1, <2>2
<1>3. Nat \subseteq P
    <2> HIDE DEF P
    <2> QED
        BY <1>1, <1>2, CountingUp
<1> QED
    BY <1>3

(* The expressions of every depth, of which Trees takes those of the       *)
(* greatest depth there is.                                                *)
IsLevels(leaves, kinds, f) ==
    f = [h \in Nat |-> IF h = 0 THEN leaves ELSE f[h - 1] \cup NodesOver(kinds, f[h - 1])]

LEMMA LevelsExist ==
    ASSUME NEW leaves, NEW kinds
    PROVE  \E f : IsLevels(leaves, kinds, f)
<1> DEFINE P == {n \in Nat : \E f : LevelsUpTo(leaves, kinds, n, f)}
           top(n) == CHOOSE f : LevelsUpTo(leaves, kinds, n, f)
           f == [n \in Nat |-> top(n)[n]]
<1>1. 0 \in P
    <2>1. LevelsUpTo(leaves, kinds, 0, [h \in {0} |-> leaves])
        BY DEF LevelsUpTo
    <2> QED
        BY <2>1
<1>2. ASSUME NEW n \in Nat, n \in P PROVE n + 1 \in P
    <2>1. PICK g : LevelsUpTo(leaves, kinds, n, g)
        BY <1>2
    <2> DEFINE next == [h \in 0 .. n + 1 |->
                           IF h = n + 1 THEN g[n] \cup NodesOver(kinds, g[n]) ELSE g[h]]
    <2>2. next[0] = leaves
        <3>1. 0 \in 0 .. n + 1 /\ 0 # n + 1
            OBVIOUS
        <3> QED
            BY <2>1, <3>1 DEF LevelsUpTo
    <2>3. ASSUME NEW h \in 1 .. n + 1
          PROVE  next[h] = next[h - 1] \cup NodesOver(kinds, next[h - 1])
        <3>1. h - 1 \in 0 .. n + 1 /\ h - 1 # n + 1 /\ h \in 0 .. n + 1
            OBVIOUS
        <3>2. next[h - 1] = g[h - 1]
            BY <3>1
        <3>3. CASE h = n + 1
            <4>1. h - 1 = n
                BY <3>3
            <4>2. next[h] = g[n] \cup NodesOver(kinds, g[n])
                BY <3>1, <3>3
            <4> QED
                BY <3>2, <4>1, <4>2
        <3>4. CASE h # n + 1
            <4>1. h \in 1 .. n /\ next[h] = g[h]
                BY <3>1, <3>4
            <4>2. g[h] = g[h - 1] \cup NodesOver(kinds, g[h - 1])
                BY <2>1, <4>1 DEF LevelsUpTo
            <4> QED
                BY <3>2, <4>1, <4>2
        <3> QED
            BY <3>3, <3>4
    <2> HIDE DEF next
    <2>4. LevelsUpTo(leaves, kinds, n + 1, next)
        BY <2>2, <2>3 DEF LevelsUpTo
    <2> QED
        BY <2>4
<1>3. Nat \subseteq P
    <2> HIDE DEF P
    <2> QED
        BY <1>1, <1>2, CountingUp
<1>4. \A n \in Nat : LevelsUpTo(leaves, kinds, n, top(n))
    <2> SUFFICES ASSUME NEW n \in Nat PROVE LevelsUpTo(leaves, kinds, n, top(n))
        OBVIOUS
    <2>1. \E g : LevelsUpTo(leaves, kinds, n, g)
        BY <1>3
    <2> QED
        BY <2>1, Zenon
<1> HIDE DEF top, P
<1>5. f[0] = leaves
    BY <1>4 DEF LevelsUpTo
<1>6. ASSUME NEW h \in Nat, h # 0
      PROVE  f[h] = f[h - 1] \cup NodesOver(kinds, f[h - 1])
    <2>1. h - 1 \in Nat /\ h \in 1 .. h /\ h - 1 <= h
        BY <1>6
    <2>2. top(h)[h] = top(h)[h - 1] \cup NodesOver(kinds, top(h)[h - 1])
        BY <1>4, <2>1 DEF LevelsUpTo
    <2>3. top(h)[h - 1] = top(h - 1)[h - 1]
        BY <1>4, <2>1, OneLevelsUpTo
    <2> QED
        BY <2>1, <2>2, <2>3
<1>7. IsLevels(leaves, kinds, f)
    <2>1. \A h \in Nat : f[h] = IF h = 0 THEN leaves ELSE f[h - 1] \cup NodesOver(kinds, f[h - 1])
        BY <1>5, <1>6
    <2>2. f = [h \in Nat |-> f[h]]
        OBVIOUS
    <2> HIDE DEF f
    <2> QED
        BY <2>1, <2>2 DEF IsLevels
<1> HIDE DEF f
<1> QED
    BY <1>7

(* depth tells the parts of the expressions in D from the whole.           *)
DepthOf(leaves, kinds, D, depth) ==
    /\ depth \in [D -> Nat]
    /\ leaves \subseteq D
    /\ \A x \in D : \/ x \in leaves
                    \/ /\ x \in NodesOver(kinds, D)
                       /\ \A i \in DOMAIN x.parts : depth[x.parts[i]] < depth[x]
                       /\ \A k \in 0 .. Len(x.parts) : FirstChildren(x, k) \in D

LEMMA TreesHaveDepth ==
    ASSUME NEW leaves, NEW kinds
    PROVE  \E depth : DepthOf(leaves, kinds, Trees(leaves, kinds), depth)
<1> DEFINE D == Trees(leaves, kinds)
           f == CHOOSE g : IsLevels(leaves, kinds, g)
<1>1. IsLevels(leaves, kinds, f)
    BY LevelsExist
<1>2. D = f[MaxNesting]
    BY DEF Trees, IsLevels, NodesOver
<1> HIDE DEF f, D
<1>3. f[0] = leaves /\ \A h \in Nat : h # 0 => f[h] = f[h - 1] \cup NodesOver(kinds, f[h - 1])
    BY <1>1 DEF IsLevels
<1>4. ASSUME NEW g \in Nat
      PROVE  \A h \in Nat : g <= h => f[g] \subseteq f[h]
    <2> DEFINE P == {h \in Nat : g <= h => f[g] \subseteq f[h]}
    <2>1. 0 \in P
        BY <1>3
    <2>2. ASSUME NEW h \in Nat, h \in P PROVE h + 1 \in P
        <3>1. f[h] \subseteq f[h + 1]
            <4>1. h + 1 \in Nat /\ h + 1 # 0 /\ (h + 1) - 1 = h
                OBVIOUS
            <4> QED
                BY <1>3, <4>1
        <3>2. g <= h + 1 => g <= h \/ g = h + 1
            OBVIOUS
        <3> QED
            BY <2>2, <3>1, <3>2
    <2>3. Nat \subseteq P
        <3> HIDE DEF P
        <3> QED
            BY <2>1, <2>2, CountingUp
    <2> QED
        BY <2>3
<1>5. MaxNesting \in Nat
    BY NestingIsNumber
<1> DEFINE depth == [x \in D |-> CHOOSE h \in Nat : x \in f[h] /\ \A g \in Nat : x \in f[g] => h <= g]
<1>6. ASSUME NEW x \in D
      PROVE  /\ depth[x] \in Nat /\ x \in f[depth[x]] /\ depth[x] <= MaxNesting
             /\ \A g \in Nat : x \in f[g] => depth[x] <= g
    <2> DEFINE H == {h \in Nat : x \in f[h]}
    <2>1. H \in SUBSET Nat /\ MaxNesting \in H
        BY <1>2, <1>5
    <2>2. PICK h \in H : \A g \in H : h <= g
        BY <2>1, LeastNumber
    <2>3. \E h2 \in Nat : x \in f[h2] /\ \A g \in Nat : x \in f[g] => h2 <= g
        BY <2>2
    <2>4. depth[x] \in Nat /\ x \in f[depth[x]] /\ \A g \in Nat : x \in f[g] => depth[x] <= g
        BY <2>3, Zenon
    <2> HIDE DEF depth
    <2> QED
        BY <2>1, <2>4
<1>7. depth \in [D -> Nat]
    BY <1>6
<1> HIDE DEF depth
<1>8. ASSUME NEW x \in D, x \notin leaves
      PROVE  /\ x \in NodesOver(kinds, D)
             /\ \A i \in DOMAIN x.parts : depth[x.parts[i]] < depth[x]
             /\ \A k \in 0 .. Len(x.parts) : FirstChildren(x, k) \in D
    <2>1. depth[x] # 0
        BY <1>3, <1>6, <1>8
    <2>2. PICK h \in Nat : h + 1 = depth[x]
        <3>1. depth[x] - 1 \in Nat /\ (depth[x] - 1) + 1 = depth[x]
            BY <1>6, <2>1
        <3> QED
            BY <3>1
    <2>3. x \in f[h] \cup NodesOver(kinds, f[h])
        <3>1. (h + 1) - 1 = h /\ h + 1 \in Nat /\ h + 1 # 0
            OBVIOUS
        <3> QED
            BY <1>3, <1>6, <2>2, <3>1
    <2>4. x \notin f[h]
        BY <1>6, <2>2
    <2>5. x \in NodesOver(kinds, f[h])
        BY <2>3, <2>4
    <2>6. f[h] \subseteq D
        <3>1. h <= MaxNesting
            BY <1>5, <1>6, <2>2
        <3> QED
            BY <1>2, <1>4, <1>5, <3>1
    <2>7. x \in NodesOver(kinds, D)
        BY <2>5, <2>6, SeqMonotonic DEF NodesOver
    <2>8. ASSUME NEW i \in DOMAIN x.parts PROVE depth[x.parts[i]] < depth[x]
        <3>1. x.parts[i] \in f[h]
            BY <2>5 DEF NodesOver
        <3>2. depth[x.parts[i]] <= h /\ depth[x.parts[i]] \in Nat
            BY <1>6, <2>6, <3>1
        <3> QED
            BY <2>2, <3>2
    <2>9. ASSUME NEW k \in 0 .. Len(x.parts) PROVE FirstChildren(x, k) \in D
        <3>1. x.kind \in kinds /\ x.parts \in Seq(f[h])
            BY <2>5 DEF NodesOver
        <3>2. [i \in 1 .. k |-> x.parts[i]] \in Seq(f[h])
            BY <3>1
        <3>3. FirstChildren(x, k) \in NodesOver(kinds, f[h])
            BY <3>1, <3>2 DEF NodesOver, FirstChildren
        <3>4. f[h + 1] \subseteq D
            <4>1. h + 1 \in Nat /\ h + 1 <= MaxNesting
                BY <1>6, <2>2
            <4> QED
                BY <1>2, <1>4, <1>5, <4>1
        <3>5. NodesOver(kinds, f[h]) \subseteq f[h + 1]
            <4>1. (h + 1) - 1 = h /\ h + 1 \in Nat /\ h + 1 # 0
                OBVIOUS
            <4> QED
                BY <1>3, <4>1
        <3> QED
            BY <3>3, <3>4, <3>5
    <2> QED
        BY <2>7, <2>8, <2>9
<1>9. leaves \subseteq D
    BY <1>2, <1>3, <1>4, <1>5
<1>10. DepthOf(leaves, kinds, D, depth)
    BY <1>7, <1>8, <1>9 DEF DepthOf
<1> QED
    BY <1>10 DEF D

(* What holds of the leaves, and of an expression when it holds of its     *)
(* parts, holds of every expression.                                       *)
Inherited(kinds, D, P) ==
    \A x \in D : x \in NodesOver(kinds, D) /\ (\A i \in DOMAIN x.parts : x.parts[i] \in P)
                    => x \in P

LEMMA TreeInduction ==
    ASSUME NEW leaves, NEW kinds, NEW D, NEW depth, DepthOf(leaves, kinds, D, depth),
           NEW P, leaves \subseteq P, Inherited(kinds, D, P)
    PROVE  D \subseteq P
<1> DEFINE Q == {k \in Nat : \A x \in D : depth[x] < k => x \in P}
<1>0. \A x \in D : depth[x] \in Nat
    BY DEF DepthOf
<1>1. 0 \in Q
    BY <1>0
<1>2. ASSUME NEW k \in Nat, k \in Q PROVE k + 1 \in Q
    <2> SUFFICES ASSUME NEW x \in D, depth[x] < k + 1, x \notin leaves PROVE x \in P
        OBVIOUS
    <2>1. x \in NodesOver(kinds, D) /\ \A i \in DOMAIN x.parts : depth[x.parts[i]] < depth[x]
        BY DEF DepthOf
    <2>2. ASSUME NEW i \in DOMAIN x.parts PROVE x.parts[i] \in P
        <3>1. x.parts[i] \in D
            BY <2>1 DEF NodesOver
        <3>2. depth[x.parts[i]] < k
            BY <1>0, <2>1, <3>1
        <3> QED
            BY <1>2, <3>1, <3>2
    <2> QED
        BY <2>1, <2>2 DEF Inherited
<1>3. Nat \subseteq Q
    <2> HIDE DEF Q
    <2> QED
        BY <1>1, <1>2, CountingUp
<1>4. ASSUME NEW x \in D PROVE x \in P
    <2>1. depth[x] + 1 \in Q /\ depth[x] < depth[x] + 1
        BY <1>0, <1>3
    <2> QED
        BY <2>1
<1> QED
    BY <1>4
(* A function that looks at an expression and at its own values for the    *)
(* parts of it, as every meaning of an expression does, exists.            *)
LooksAtParts(leaves, D, G, F) ==
    \A x \in D : \A f, g \in [D -> G] :
        (x \notin leaves => \A i \in DOMAIN x.parts : f[x.parts[i]] = g[x.parts[i]])
            => F[<<x, f>>] = F[<<x, g>>]

LEMMA TreeFunctionExists ==
    ASSUME NEW leaves, NEW kinds, NEW D, NEW depth, DepthOf(leaves, kinds, D, depth),
           NEW G, NEW base \in G, NEW F \in [D \X [D -> G] -> G],
           LooksAtParts(leaves, D, G, F)
    PROVE  \E f \in [D -> G] : Solves(D, F, f)
<1>1. depth \in [D -> Nat]
    BY DEF DepthOf
<1>2. LooksDown(D, G, depth, F)
    <2> SUFFICES ASSUME NEW x \in D, NEW f \in [D -> G], NEW g \in [D -> G],
                        \A y \in D : depth[y] < depth[x] => f[y] = g[y]
                 PROVE  F[<<x, f>>] = F[<<x, g>>]
        BY DEF LooksDown
    <2>1. ASSUME x \notin leaves, NEW i \in DOMAIN x.parts
          PROVE  f[x.parts[i]] = g[x.parts[i]]
        <3>1. x \in NodesOver(kinds, D) /\ depth[x.parts[i]] < depth[x]
            BY <2>1 DEF DepthOf
        <3>2. x.parts[i] \in D
            BY <2>1, <3>1 DEF NodesOver
        <3> QED
            BY <3>1, <3>2
    <2> QED
        BY <2>1 DEF LooksAtParts
<1> QED
    BY <1>1, <1>2, RecursionExists
-----------------------------------------------------------------------------
(* Completion expressions *)

CompletionLeaves == [kind : {"leaf"}, task : Nat]
CompletionKinds == {"and", "or"}

LEMMA CompletionShapes ==
    \E depth : DepthOf(CompletionLeaves, CompletionKinds, CompletionExprs, depth)
BY TreesHaveDepth DEF CompletionExprs, CompletionLeaves, CompletionKinds

LEMMA CompletionCases ==
    ASSUME NEW x \in CompletionExprs
    PROVE  \/ x \in CompletionLeaves /\ x.kind = "leaf" /\ x.task \in Nat
           \/ /\ x \notin CompletionLeaves /\ x \in NodesOver(CompletionKinds, CompletionExprs)
              /\ x.kind \in {"and", "or"} /\ x.parts \in Seq(CompletionExprs)
              /\ \A k \in 0 .. Len(x.parts) : FirstChildren(x, k) \in CompletionExprs
<1>1. PICK depth : DepthOf(CompletionLeaves, CompletionKinds, CompletionExprs, depth)
    BY CompletionShapes
<1>2. CASE x \in CompletionLeaves
    BY <1>2 DEF CompletionLeaves
<1>3. CASE x \notin CompletionLeaves
    <2>1. /\ x \in NodesOver(CompletionKinds, CompletionExprs)
          /\ \A k \in 0 .. Len(x.parts) : FirstChildren(x, k) \in CompletionExprs
        BY <1>1, <1>3 DEF DepthOf
    <2>2. x.kind \in {"and", "or"} /\ x.parts \in Seq(CompletionExprs)
        BY <2>1 DEF NodesOver, CompletionKinds
    <2> QED
        BY <1>3, <2>1, <2>2
<1> QED
    BY <1>2, <1>3

LEMMA CompletionInduction ==
    ASSUME NEW P, CompletionLeaves \subseteq P,
           \A x \in CompletionExprs :
              x.kind \in {"and", "or"} /\ x.parts \in Seq(CompletionExprs)
                 /\ (\A i \in DOMAIN x.parts : x.parts[i] \in P) => x \in P
    PROVE  CompletionExprs \subseteq P
<1>1. PICK depth : DepthOf(CompletionLeaves, CompletionKinds, CompletionExprs, depth)
    BY CompletionShapes
<1>2. Inherited(CompletionKinds, CompletionExprs, P)
    <2> SUFFICES ASSUME NEW x \in CompletionExprs,
                        x \in NodesOver(CompletionKinds, CompletionExprs),
                        \A i \in DOMAIN x.parts : x.parts[i] \in P
                 PROVE  x \in P
        BY DEF Inherited
    <2>1. x.kind \in {"and", "or"} /\ x.parts \in Seq(CompletionExprs)
        BY DEF NodesOver, CompletionKinds
    <2> QED
        BY <2>1
<1> QED
    BY <1>1, <1>2, TreeInduction

(* The value of a function of one part and the whole: every meaning of a   *)
(* completion expression is one of these.                                  *)
LEMMA CompletionFunction ==
    ASSUME NEW G, NEW base \in G, NEW F \in [CompletionExprs \X [CompletionExprs -> G] -> G],
           LooksAtParts(CompletionLeaves, CompletionExprs, G, F)
    PROVE  \E f \in [CompletionExprs -> G] : Solves(CompletionExprs, F, f)
<1>1. PICK depth : DepthOf(CompletionLeaves, CompletionKinds, CompletionExprs, depth)
    BY CompletionShapes
<1> QED
    BY <1>1, TreeFunctionExists

(* What it takes for an expression to be satisfied.                        *)
HoldsOf(placed, h) ==
    h = [x \in CompletionExprs |->
            CASE x.kind = "leaf" -> x.task \in placed
              [] x.kind = "and"  -> \A i \in DOMAIN x.parts : h[x.parts[i]]
              [] OTHER           -> \E i \in DOMAIN x.parts : h[x.parts[i]]]

LEMMA SatisfiedExists ==
    ASSUME NEW placed
    PROVE    \E h : h \in [CompletionExprs -> BOOLEAN] /\ HoldsOf(placed, h)
<1> DEFINE D == CompletionExprs
           value(x, f) == CASE x.kind = "leaf" -> x.task \in placed
                            [] x.kind = "and"  -> \A i \in DOMAIN x.parts : f[x.parts[i]]
                            [] OTHER           -> \E i \in DOMAIN x.parts : f[x.parts[i]]
           F == [a \in D \X [D -> BOOLEAN] |-> value(a[1], a[2])]
<1>1. ASSUME NEW x \in D, NEW f \in [D -> BOOLEAN]
      PROVE  value(x, f) \in BOOLEAN
    <2>1. CASE x.kind = "leaf"
        BY <2>1
    <2>2. CASE x.kind = "and"
        BY <2>2
    <2>3. CASE x.kind = "or"
        BY <2>3
    <2> QED
        BY <2>1, <2>2, <2>3, CompletionCases
<1>2. F \in [D \X [D -> BOOLEAN] -> BOOLEAN]
    <2> HIDE DEF value
    <2> QED
        BY <1>1
<1>3. \A x \in D : \A f \in [D -> BOOLEAN] : F[<<x, f>>] = value(x, f)
    OBVIOUS
<1> HIDE DEF F
<1>4. LooksAtParts(CompletionLeaves, D, BOOLEAN, F)
    <2> SUFFICES ASSUME NEW x \in D, NEW f \in [D -> BOOLEAN], NEW g \in [D -> BOOLEAN],
                        x \notin CompletionLeaves =>
                            \A i \in DOMAIN x.parts : f[x.parts[i]] = g[x.parts[i]]
                 PROVE  value(x, f) = value(x, g)
        <3> HIDE DEF value
        <3> QED
            BY <1>3 DEF LooksAtParts
    <2>1. CASE x.kind = "leaf"
        BY <2>1
    <2>2. CASE x.kind = "and"
        BY <2>2, CompletionCases
    <2>3. CASE x.kind = "or"
        BY <2>3, CompletionCases
    <2> QED
        BY <2>1, <2>2, <2>3, CompletionCases
<1>5. PICK h \in [D -> BOOLEAN] : Solves(D, F, h)
    <2> HIDE DEF D
    <2> QED
        BY <1>2, <1>4, CompletionFunction DEF D
<1>6. \A x \in D : h[x] = value(x, h)
    <2> HIDE DEF value
    <2> QED
        BY <1>3, <1>5 DEF Solves
<1>7. HoldsOf(placed, h)
    BY <1>6 DEF HoldsOf
<1> QED
    BY <1>7
LEMMA DivFacts ==
    ASSUME NEW m \in Nat, NEW d \in Nat, d # 0
    PROVE  /\ m \div d \in Nat /\ m % d \in 0 .. d - 1
           /\ m = d * (m \div d) + (m % d)
BY SMTT(30)

LEMMA ProductBelow ==
    ASSUME NEW q \in Nat, NEW c \in Nat, NEW d \in Nat, NEW r \in Nat, d * q + r < c * d
    PROVE  q < c
<1> SUFFICES ASSUME c <= q PROVE FALSE
    OBVIOUS
<1>1. d * c <= d * q
    <2>1. PICK e \in Nat : q = c + e
        <3>1. q - c \in Nat /\ q = c + (q - c)
            OBVIOUS
        <3> QED
            BY <3>1
    <2>2. d * e \in Nat
        OBVIOUS
    <2>3. d * q = d * c + d * e
        BY <2>1
    <2> QED
        BY <2>2, <2>3
<1> QED
    BY <1>1

(* The quotient and the rest tell the pair that an index stands for.       *)
PairAt(d, n, i, j) == 1 + ((n - 1) \div d) = i /\ 1 + ((n - 1) % d) = j

LEMMA PairIndex ==
    ASSUME NEW c \in Nat, NEW d \in Nat, NEW i \in 1 .. c, NEW j \in 1 .. d
    PROVE  \E n \in 1 .. c * d : PairAt(d, n, i, j)
<1> DEFINE n == d * (i - 1) + j
<1>1. i - 1 \in Nat /\ j - 1 \in Nat /\ j - 1 < d /\ d # 0
    OBVIOUS
<1>2. d * (i - 1) \in Nat
    BY <1>1
<1>3. n - 1 \in Nat /\ n - 1 = d * (i - 1) + (j - 1)
    BY <1>2
<1>4. n <= c * d
    <2>1. PICK e \in Nat : c = i + e
        <3>1. c - i \in Nat /\ c = i + (c - i)
            OBVIOUS
        <3> QED
            BY <3>1
    <2>2. d * e \in Nat
        OBVIOUS
    <2>3. c * d = d * (i - 1) + d + d * e
        BY <2>1
    <2> QED
        BY <1>2, <2>2, <2>3
<1>5. (n - 1) \div d = i - 1 /\ (n - 1) % d = j - 1
    <2> HIDE DEF n
    <2> DEFINE q == (n - 1) \div d
               r == (n - 1) % d
    <2>1. q \in Nat /\ r \in 0 .. d - 1 /\ n - 1 = d * q + r
        BY <1>1, <1>3, DivFacts
    <2> HIDE DEF q, r
    <2>2. q < (i - 1) + 1
        <3>1. d * q + r < (i - 1 + 1) * d
            BY <1>1, <1>3, <2>1
        <3> QED
            BY <1>1, <2>1, <3>1, ProductBelow
    <2>3. i - 1 < q + 1
        <3>1. d * (i - 1) + (j - 1) < (q + 1) * d
            BY <1>1, <1>3, <2>1
        <3> QED
            BY <1>1, <2>1, <3>1, ProductBelow
    <2>4. q = i - 1
        BY <1>1, <2>1, <2>2, <2>3
    <2>5. r = j - 1
        BY <1>3, <2>1, <2>4
    <2> QED
        BY <2>4, <2>5 DEF q, r
<1>6. n \in 1 .. c * d
    BY <1>2, <1>4
<1>7. PairAt(d, n, i, j)
    BY <1>5 DEF PairAt
<1> HIDE DEF n
<1> QED
    BY <1>6, <1>7

ListBranches == Seq(SUBSET Nat)
SomeWithin(list, S) == \E i \in 1 .. Len(list) : list[i] \subseteq S

LEMMA ProductsFacts ==
    ASSUME NEW a \in ListBranches, NEW b \in ListBranches
    PROVE  /\ Products(a, b) \in ListBranches
           /\ Len(Products(a, b)) = Len(a) * Len(b)
           /\ \A S : SomeWithin(Products(a, b), S) <=> SomeWithin(a, S) /\ SomeWithin(b, S)
<1> DEFINE c == Len(a)
           d == Len(b)
           row(n) == 1 + ((n - 1) \div d)
           column(n) == 1 + ((n - 1) % d)
<1>1. c \in Nat /\ d \in Nat /\ c * d \in Nat
    BY DEF ListBranches
<1>2. ASSUME NEW n \in 1 .. c * d
      PROVE  row(n) \in 1 .. c /\ column(n) \in 1 .. d
    <2>1. d # 0
        BY <1>1
    <2>2. n - 1 \in Nat /\ n - 1 < c * d
        BY <1>1
    <2> DEFINE q == (n - 1) \div d
               r == (n - 1) % d
    <2>3. q \in Nat /\ r \in 0 .. d - 1 /\ n - 1 = d * q + r
        BY <1>1, <2>1, <2>2, DivFacts
    <2> HIDE DEF q, r, c, d
    <2>4. q < c
        BY <1>1, <2>1, <2>2, <2>3, ProductBelow
    <2> QED
        BY <1>1, <2>3, <2>4 DEF q, r
<1> HIDE DEF row, column
<1>3. Products(a, b) = [n \in 1 .. c * d |-> a[row(n)] \cup b[column(n)]]
    BY DEF Products, row, column
<1>4. ASSUME NEW n \in 1 .. c * d
      PROVE  a[row(n)] \cup b[column(n)] \in SUBSET Nat
    BY <1>2 DEF ListBranches
<1>5. Products(a, b) \in ListBranches
    <2> HIDE DEF c, d
    <2> QED
        BY <1>1, <1>3, <1>4 DEF ListBranches
<1>6. Len(Products(a, b)) = c * d
    <2> HIDE DEF c, d
    <2> QED
        BY <1>1, <1>3
<1>7. ASSUME NEW S
      PROVE  SomeWithin(Products(a, b), S) <=> SomeWithin(a, S) /\ SomeWithin(b, S)
    <2>1. ASSUME SomeWithin(Products(a, b), S)
          PROVE  SomeWithin(a, S) /\ SomeWithin(b, S)
        <3>1. PICK n \in 1 .. c * d : a[row(n)] \cup b[column(n)] \subseteq S
            <4> HIDE DEF c, d
            <4> QED
                BY <1>3, <1>6, <2>1 DEF SomeWithin
        <3> QED
            BY <1>2, <3>1 DEF SomeWithin
    <2>2. ASSUME SomeWithin(a, S), SomeWithin(b, S)
          PROVE  SomeWithin(Products(a, b), S)
        <3>1. PICK i \in 1 .. c : a[i] \subseteq S
            BY <2>2 DEF SomeWithin
        <3>2. PICK j \in 1 .. d : b[j] \subseteq S
            BY <2>2 DEF SomeWithin
        <3>3. PICK n \in 1 .. c * d : row(n) = i /\ column(n) = j
            <4> HIDE DEF c, d
            <4>1. PICK n \in 1 .. c * d : PairAt(d, n, i, j)
                BY <1>1, PairIndex
            <4> QED
                BY <4>1, Zenon DEF row, column, PairAt
        <3>4. a[row(n)] \cup b[column(n)] \subseteq S
            BY <3>1, <3>2, <3>3
        <3> HIDE DEF c, d
        <3> QED
            BY <1>3, <1>6, <3>4 DEF SomeWithin
    <2> QED
        BY <2>1, <2>2
<1> QED
    BY <1>5, <1>6, <1>7
(* The folds that expressions are made of. *)
AnyBranches == ListBranches \cup {TooLarge}
OrOf(list) == FoldLeft(OrStep, <<>>, list)
AndOf(list) == FoldLeft(AndStep, <<{}>>, list)
SumUp(list) == FoldLeft(LAMBDA n, m : n + m, 0, list)
Multiplied(list) == FoldLeft(LAMBDA n, m : n * m, 1, list)

LEMMA StepTypes ==
    ASSUME NEW acc \in AnyBranches, NEW set \in AnyBranches
    PROVE  OrStep(acc, set) \in AnyBranches /\ AndStep(acc, set) \in AnyBranches
<1>1. acc # TooLarge /\ set # TooLarge => acc \o set \in AnyBranches
    BY DEF AnyBranches, ListBranches
<1>2. acc # TooLarge /\ set # TooLarge => Products(acc, set) \in AnyBranches
    BY ProductsFacts DEF AnyBranches
<1>3. TooLarge \in AnyBranches
    BY DEF AnyBranches
<1>4. OrStep(acc, set) \in AnyBranches
    BY <1>1, <1>3, Zenon DEF OrStep
<1>5. AndStep(acc, set) \in AnyBranches
    BY <1>2, <1>3, Zenon DEF AndStep
<1> QED
    BY <1>4, <1>5

(* The alternatives of an Or one by one.                                   *)
LEMMA OrFold ==
    ASSUME NEW list \in Seq(AnyBranches)
    PROVE  \E h \in [0 .. Len(list) -> AnyBranches] :
              /\ h[0] = <<>>
              /\ \A k \in 1 .. Len(list) : h[k] = OrStep(h[k - 1], list[k])
              /\ OrOf(list) = h[Len(list)]
<1> DEFINE n == Len(list)
           G == AnyBranches
           step == [ky \in (1 .. n) \X G |-> OrStep(ky[2], list[ky[1]])]
           IsFold(it) == it = [s \in SUBSET (1 .. n) |->
                                  IF s = {} THEN <<>> ELSE OrStep(it[s \ {Max(s)}], list[Max(s)])]
           iter == CHOOSE it : IsFold(it)
<1>1. n \in Nat /\ DOMAIN list = 1 .. n /\ \A k \in 1 .. n : list[k] \in AnyBranches
    OBVIOUS
<1>2. <<>> \in G
    BY DEF AnyBranches, ListBranches
<1>3. \A k \in 1 .. n : \A y \in G : OrStep(y, list[k]) \in G
    BY <1>1, StepTypes
<1>4. step \in [(1 .. n) \X G -> G]
    <2> HIDE DEF n, G
    <2> SUFFICES ASSUME NEW ky \in (1 .. n) \X G PROVE step[ky] \in G
        OBVIOUS
    <2>1. step[ky] = OrStep(ky[2], list[ky[1]]) /\ ky[1] \in 1 .. n /\ ky[2] \in G
        OBVIOUS
    <2> QED
        BY <1>3, <2>1
<1>5. \E it : IsFold(it)
    <2> HIDE DEF G, n
    <2>1. PICK g \in [SUBSET (1 .. n) -> G] : FoldsTo(n, <<>>, step, g)
        <3> HIDE DEF step
        <3> QED
            BY <1>1, <1>2, <1>4, ListFoldExists
    <2>2. ASSUME NEW s \in SUBSET (1 .. n), s # {}
          PROVE  step[<<Max(s), g[s \ {Max(s)}]>>] = OrStep(g[s \ {Max(s)}], list[Max(s)])
        <3>1. Max(s) \in 1 .. n /\ g[s \ {Max(s)}] \in G
            BY <1>1, <2>2, MaxPicks
        <3> QED
            BY <3>1
    <2>3. IsFold(g)
        <3>1. \A s \in SUBSET (1 .. n) :
                 g[s] = IF s = {} THEN <<>> ELSE step[<<Max(s), g[s \ {Max(s)}]>>]
            BY <2>1 DEF FoldsTo
        <3> HIDE DEF step
        <3>2. \A s \in SUBSET (1 .. n) : g[s] = IF s = {} THEN <<>> ELSE OrStep(g[s \ {Max(s)}], list[Max(s)])
            BY <2>2, <3>1
        <3> QED
            BY <3>2
    <2> HIDE DEF IsFold
    <2> QED
        BY <2>3
<1>6. IsFold(iter)
    <2> HIDE DEF IsFold
    <2> QED
        BY <1>5
<1>7. OrOf(list) = iter[1 .. n]
    BY <1>1 DEF OrOf, FoldLeft, MapThenFoldSet
<1> HIDE DEF iter
<1>8. iter[{}] = <<>>
    <2>1. {} \in SUBSET (1 .. n)
        OBVIOUS
    <2> QED
        BY <1>6, <2>1, Zenon
<1>9. \A k \in 1 .. n : iter[1 .. k] = OrStep(iter[1 .. k - 1], list[k])
    <2> SUFFICES ASSUME NEW k \in 1 .. n PROVE iter[1 .. k] = OrStep(iter[1 .. k - 1], list[k])
        OBVIOUS
    <2>1. 1 .. k \in SUBSET (1 .. n) /\ 1 .. k # {} /\ Max(1 .. k) = k /\ (1 .. k) \ {k} = 1 .. k - 1
        BY <1>1, MaxPicks
    <2>2. iter[1 .. k] = OrStep(iter[(1 .. k) \ {Max(1 .. k)}], list[Max(1 .. k)])
        BY <1>6, <2>1, Zenon
    <2> QED
        BY <2>1, <2>2
<1> HIDE DEF IsFold, G, n
<1>10. \A k \in 1 .. n : \A y \in G : step[<<k, y>>] = OrStep(y, list[k])
    BY DEF step
<1> HIDE DEF step
<1>11. PICK h \in [0 .. n -> G] : ValuesOf(n, <<>>, step, iter, h)
    <2>1. Steps(n, G, step, iter)
        BY <1>9, <1>10 DEF Steps
    <2> QED
        BY <1>1, <1>2, <1>4, <1>8, <2>1, FoldSteps
<1>12. \A k \in 1 .. n : h[k] = OrStep(h[k - 1], list[k])
    <2> SUFFICES ASSUME NEW k \in 1 .. n PROVE h[k] = OrStep(h[k - 1], list[k])
        OBVIOUS
    <2>1. k - 1 \in 0 .. n
        BY <1>1
    <2> QED
        BY <1>10, <1>11, <2>1 DEF ValuesOf
<1>13. OrOf(list) = h[n]
    BY <1>7, <1>11, Zenon DEF ValuesOf
<1>14. h[0] = <<>>
    BY <1>11, Zenon DEF ValuesOf
<1> QED
    BY <1>11, <1>12, <1>13, <1>14, Zenon DEF G, n

(* The children of an And one by one.                                      *)
LEMMA AndFold ==
    ASSUME NEW list \in Seq(AnyBranches)
    PROVE  \E h \in [0 .. Len(list) -> AnyBranches] :
              /\ h[0] = <<{}>>
              /\ \A k \in 1 .. Len(list) : h[k] = AndStep(h[k - 1], list[k])
              /\ AndOf(list) = h[Len(list)]
<1> DEFINE n == Len(list)
           G == AnyBranches
           step == [ky \in (1 .. n) \X G |-> AndStep(ky[2], list[ky[1]])]
           IsFold(it) == it = [s \in SUBSET (1 .. n) |->
                                  IF s = {} THEN <<{}>> ELSE AndStep(it[s \ {Max(s)}], list[Max(s)])]
           iter == CHOOSE it : IsFold(it)
<1>1. n \in Nat /\ DOMAIN list = 1 .. n /\ \A k \in 1 .. n : list[k] \in AnyBranches
    OBVIOUS
<1>2. <<{}>> \in G
    BY DEF AnyBranches, ListBranches
<1>3. \A k \in 1 .. n : \A y \in G : AndStep(y, list[k]) \in G
    BY <1>1, StepTypes
<1>4. step \in [(1 .. n) \X G -> G]
    <2> HIDE DEF n, G
    <2> SUFFICES ASSUME NEW ky \in (1 .. n) \X G PROVE step[ky] \in G
        OBVIOUS
    <2>1. step[ky] = AndStep(ky[2], list[ky[1]]) /\ ky[1] \in 1 .. n /\ ky[2] \in G
        OBVIOUS
    <2> QED
        BY <1>3, <2>1
<1>5. \E it : IsFold(it)
    <2> HIDE DEF G, n
    <2>1. PICK g \in [SUBSET (1 .. n) -> G] : FoldsTo(n, <<{}>>, step, g)
        <3> HIDE DEF step
        <3> QED
            BY <1>1, <1>2, <1>4, ListFoldExists
    <2>2. ASSUME NEW s \in SUBSET (1 .. n), s # {}
          PROVE  step[<<Max(s), g[s \ {Max(s)}]>>] = AndStep(g[s \ {Max(s)}], list[Max(s)])
        <3>1. Max(s) \in 1 .. n /\ g[s \ {Max(s)}] \in G
            BY <1>1, <2>2, MaxPicks
        <3> QED
            BY <3>1
    <2>3. IsFold(g)
        <3>1. \A s \in SUBSET (1 .. n) :
                 g[s] = IF s = {} THEN <<{}>> ELSE step[<<Max(s), g[s \ {Max(s)}]>>]
            BY <2>1 DEF FoldsTo
        <3> HIDE DEF step
        <3>2. \A s \in SUBSET (1 .. n) : g[s] = IF s = {} THEN <<{}>> ELSE AndStep(g[s \ {Max(s)}], list[Max(s)])
            BY <2>2, <3>1
        <3> QED
            BY <3>2
    <2> HIDE DEF IsFold
    <2> QED
        BY <2>3
<1>6. IsFold(iter)
    <2> HIDE DEF IsFold
    <2> QED
        BY <1>5
<1>7. AndOf(list) = iter[1 .. n]
    BY <1>1 DEF AndOf, FoldLeft, MapThenFoldSet
<1> HIDE DEF iter
<1>8. iter[{}] = <<{}>>
    <2>1. {} \in SUBSET (1 .. n)
        OBVIOUS
    <2> QED
        BY <1>6, <2>1, Zenon
<1>9. \A k \in 1 .. n : iter[1 .. k] = AndStep(iter[1 .. k - 1], list[k])
    <2> SUFFICES ASSUME NEW k \in 1 .. n PROVE iter[1 .. k] = AndStep(iter[1 .. k - 1], list[k])
        OBVIOUS
    <2>1. 1 .. k \in SUBSET (1 .. n) /\ 1 .. k # {} /\ Max(1 .. k) = k /\ (1 .. k) \ {k} = 1 .. k - 1
        BY <1>1, MaxPicks
    <2>2. iter[1 .. k] = AndStep(iter[(1 .. k) \ {Max(1 .. k)}], list[Max(1 .. k)])
        BY <1>6, <2>1, Zenon
    <2> QED
        BY <2>1, <2>2
<1> HIDE DEF IsFold, G, n
<1>10. \A k \in 1 .. n : \A y \in G : step[<<k, y>>] = AndStep(y, list[k])
    BY DEF step
<1> HIDE DEF step
<1>11. PICK h \in [0 .. n -> G] : ValuesOf(n, <<{}>>, step, iter, h)
    <2>1. Steps(n, G, step, iter)
        BY <1>9, <1>10 DEF Steps
    <2> QED
        BY <1>1, <1>2, <1>4, <1>8, <2>1, FoldSteps
<1>12. \A k \in 1 .. n : h[k] = AndStep(h[k - 1], list[k])
    <2> SUFFICES ASSUME NEW k \in 1 .. n PROVE h[k] = AndStep(h[k - 1], list[k])
        OBVIOUS
    <2>1. k - 1 \in 0 .. n
        BY <1>1
    <2> QED
        BY <1>10, <1>11, <2>1 DEF ValuesOf
<1>13. AndOf(list) = h[n]
    BY <1>7, <1>11, Zenon DEF ValuesOf
<1>14. h[0] = <<{}>>
    BY <1>11, Zenon DEF ValuesOf
<1> QED
    BY <1>11, <1>12, <1>13, <1>14, Zenon DEF G, n

(* Adding numbers one by one.                                              *)
LEMMA SumFold ==
    ASSUME NEW list \in Seq(Nat)
    PROVE  \E h \in [0 .. Len(list) -> Nat] :
              /\ h[0] = 0
              /\ \A k \in 1 .. Len(list) : h[k] = h[k - 1] + list[k]
              /\ SumUp(list) = h[Len(list)]
<1> DEFINE n == Len(list)
           G == Nat
           step == [ky \in (1 .. n) \X G |-> ky[2] + list[ky[1]]]
           IsFold(it) == it = [s \in SUBSET (1 .. n) |->
                                  IF s = {} THEN 0 ELSE it[s \ {Max(s)}] + list[Max(s)]]
           iter == CHOOSE it : IsFold(it)
<1>1. n \in Nat /\ DOMAIN list = 1 .. n /\ \A k \in 1 .. n : list[k] \in Nat
    OBVIOUS
<1>2. 0 \in G
    OBVIOUS
<1>3. \A k \in 1 .. n : \A y \in G : y + list[k] \in G
    BY <1>1
<1>4. step \in [(1 .. n) \X G -> G]
    <2> HIDE DEF n, G
    <2> SUFFICES ASSUME NEW ky \in (1 .. n) \X G PROVE step[ky] \in G
        OBVIOUS
    <2>1. step[ky] = ky[2] + list[ky[1]] /\ ky[1] \in 1 .. n /\ ky[2] \in G
        OBVIOUS
    <2> QED
        BY <1>3, <2>1
<1>5. \E it : IsFold(it)
    <2> HIDE DEF G, n
    <2>1. PICK g \in [SUBSET (1 .. n) -> G] : FoldsTo(n, 0, step, g)
        <3> HIDE DEF step
        <3> QED
            BY <1>1, <1>2, <1>4, ListFoldExists
    <2>2. ASSUME NEW s \in SUBSET (1 .. n), s # {}
          PROVE  step[<<Max(s), g[s \ {Max(s)}]>>] = g[s \ {Max(s)}] + list[Max(s)]
        <3>1. Max(s) \in 1 .. n /\ g[s \ {Max(s)}] \in G
            BY <1>1, <2>2, MaxPicks
        <3> QED
            BY <3>1
    <2>3. IsFold(g)
        <3>1. \A s \in SUBSET (1 .. n) :
                 g[s] = IF s = {} THEN 0 ELSE step[<<Max(s), g[s \ {Max(s)}]>>]
            BY <2>1 DEF FoldsTo
        <3> HIDE DEF step
        <3>2. \A s \in SUBSET (1 .. n) : g[s] = IF s = {} THEN 0 ELSE g[s \ {Max(s)}] + list[Max(s)]
            BY <2>2, <3>1
        <3> QED
            BY <3>2
    <2> HIDE DEF IsFold
    <2> QED
        BY <2>3
<1>6. IsFold(iter)
    <2> HIDE DEF IsFold
    <2> QED
        BY <1>5
<1>7. SumUp(list) = iter[1 .. n]
    BY <1>1 DEF SumUp, FoldLeft, MapThenFoldSet
<1> HIDE DEF iter
<1>8. iter[{}] = 0
    <2>1. {} \in SUBSET (1 .. n)
        OBVIOUS
    <2> QED
        BY <1>6, <2>1, Zenon
<1>9. \A k \in 1 .. n : iter[1 .. k] = iter[1 .. k - 1] + list[k]
    <2> SUFFICES ASSUME NEW k \in 1 .. n PROVE iter[1 .. k] = iter[1 .. k - 1] + list[k]
        OBVIOUS
    <2>1. 1 .. k \in SUBSET (1 .. n) /\ 1 .. k # {} /\ Max(1 .. k) = k /\ (1 .. k) \ {k} = 1 .. k - 1
        BY <1>1, MaxPicks
    <2>2. iter[1 .. k] = iter[(1 .. k) \ {Max(1 .. k)}] + list[Max(1 .. k)]
        BY <1>6, <2>1, Zenon
    <2> QED
        BY <2>1, <2>2
<1> HIDE DEF IsFold, G, n
<1>10. \A k \in 1 .. n : \A y \in G : step[<<k, y>>] = y + list[k]
    BY DEF step
<1> HIDE DEF step
<1>11. PICK h \in [0 .. n -> G] : ValuesOf(n, 0, step, iter, h)
    <2>1. Steps(n, G, step, iter)
        BY <1>9, <1>10 DEF Steps
    <2> QED
        BY <1>1, <1>2, <1>4, <1>8, <2>1, FoldSteps
<1>12. \A k \in 1 .. n : h[k] = h[k - 1] + list[k]
    <2> SUFFICES ASSUME NEW k \in 1 .. n PROVE h[k] = h[k - 1] + list[k]
        OBVIOUS
    <2>1. k - 1 \in 0 .. n
        BY <1>1
    <2> QED
        BY <1>10, <1>11, <2>1 DEF ValuesOf
<1>13. SumUp(list) = h[n]
    BY <1>7, <1>11, Zenon DEF ValuesOf
<1>14. h[0] = 0
    BY <1>11, Zenon DEF ValuesOf
<1> QED
    BY <1>11, <1>12, <1>13, <1>14, Zenon DEF G, n

(* Multiplying numbers one by one.                                         *)
LEMMA ProductFold ==
    ASSUME NEW list \in Seq(Nat)
    PROVE  \E h \in [0 .. Len(list) -> Nat] :
              /\ h[0] = 1
              /\ \A k \in 1 .. Len(list) : h[k] = h[k - 1] * list[k]
              /\ Multiplied(list) = h[Len(list)]
<1> DEFINE n == Len(list)
           G == Nat
           step == [ky \in (1 .. n) \X G |-> ky[2] * list[ky[1]]]
           IsFold(it) == it = [s \in SUBSET (1 .. n) |->
                                  IF s = {} THEN 1 ELSE it[s \ {Max(s)}] * list[Max(s)]]
           iter == CHOOSE it : IsFold(it)
<1>1. n \in Nat /\ DOMAIN list = 1 .. n /\ \A k \in 1 .. n : list[k] \in Nat
    OBVIOUS
<1>2. 1 \in G
    OBVIOUS
<1>3. \A k \in 1 .. n : \A y \in G : y * list[k] \in G
    BY <1>1
<1>4. step \in [(1 .. n) \X G -> G]
    <2> HIDE DEF n, G
    <2> SUFFICES ASSUME NEW ky \in (1 .. n) \X G PROVE step[ky] \in G
        OBVIOUS
    <2>1. step[ky] = ky[2] * list[ky[1]] /\ ky[1] \in 1 .. n /\ ky[2] \in G
        OBVIOUS
    <2> QED
        BY <1>3, <2>1
<1>5. \E it : IsFold(it)
    <2> HIDE DEF G, n
    <2>1. PICK g \in [SUBSET (1 .. n) -> G] : FoldsTo(n, 1, step, g)
        <3> HIDE DEF step
        <3> QED
            BY <1>1, <1>2, <1>4, ListFoldExists
    <2>2. ASSUME NEW s \in SUBSET (1 .. n), s # {}
          PROVE  step[<<Max(s), g[s \ {Max(s)}]>>] = g[s \ {Max(s)}] * list[Max(s)]
        <3>1. Max(s) \in 1 .. n /\ g[s \ {Max(s)}] \in G
            BY <1>1, <2>2, MaxPicks
        <3> QED
            BY <3>1
    <2>3. IsFold(g)
        <3>1. \A s \in SUBSET (1 .. n) :
                 g[s] = IF s = {} THEN 1 ELSE step[<<Max(s), g[s \ {Max(s)}]>>]
            BY <2>1 DEF FoldsTo
        <3> HIDE DEF step
        <3>2. \A s \in SUBSET (1 .. n) : g[s] = IF s = {} THEN 1 ELSE g[s \ {Max(s)}] * list[Max(s)]
            BY <2>2, <3>1
        <3> QED
            BY <3>2
    <2> HIDE DEF IsFold
    <2> QED
        BY <2>3
<1>6. IsFold(iter)
    <2> HIDE DEF IsFold
    <2> QED
        BY <1>5
<1>7. Multiplied(list) = iter[1 .. n]
    BY <1>1 DEF Multiplied, FoldLeft, MapThenFoldSet
<1> HIDE DEF iter
<1>8. iter[{}] = 1
    <2>1. {} \in SUBSET (1 .. n)
        OBVIOUS
    <2> QED
        BY <1>6, <2>1, Zenon
<1>9. \A k \in 1 .. n : iter[1 .. k] = iter[1 .. k - 1] * list[k]
    <2> SUFFICES ASSUME NEW k \in 1 .. n PROVE iter[1 .. k] = iter[1 .. k - 1] * list[k]
        OBVIOUS
    <2>1. 1 .. k \in SUBSET (1 .. n) /\ 1 .. k # {} /\ Max(1 .. k) = k /\ (1 .. k) \ {k} = 1 .. k - 1
        BY <1>1, MaxPicks
    <2>2. iter[1 .. k] = iter[(1 .. k) \ {Max(1 .. k)}] * list[Max(1 .. k)]
        BY <1>6, <2>1, Zenon
    <2> QED
        BY <2>1, <2>2
<1> HIDE DEF IsFold, G, n
<1>10. \A k \in 1 .. n : \A y \in G : step[<<k, y>>] = y * list[k]
    BY DEF step
<1> HIDE DEF step
<1>11. PICK h \in [0 .. n -> G] : ValuesOf(n, 1, step, iter, h)
    <2>1. Steps(n, G, step, iter)
        BY <1>9, <1>10 DEF Steps
    <2> QED
        BY <1>1, <1>2, <1>4, <1>8, <2>1, FoldSteps
<1>12. \A k \in 1 .. n : h[k] = h[k - 1] * list[k]
    <2> SUFFICES ASSUME NEW k \in 1 .. n PROVE h[k] = h[k - 1] * list[k]
        OBVIOUS
    <2>1. k - 1 \in 0 .. n
        BY <1>1
    <2> QED
        BY <1>10, <1>11, <2>1 DEF ValuesOf
<1>13. Multiplied(list) = h[n]
    BY <1>7, <1>11, Zenon DEF ValuesOf
<1>14. h[0] = 1
    BY <1>11, Zenon DEF ValuesOf
<1> QED
    BY <1>11, <1>12, <1>13, <1>14, Zenon DEF G, n
LEMMA MultipliedIsNumber ==
    ASSUME NEW list \in Seq(Nat)
    PROVE  Multiplied(list) \in Nat
<1>1. PICK h \in [0 .. Len(list) -> Nat] : Multiplied(list) = h[Len(list)]
    BY ProductFold, Zenon
<1>2. Len(list) \in 0 .. Len(list)
    OBVIOUS
<1> QED
    BY <1>1, <1>2

(* The expansion of an expression.                                         *)
CollectOf(h) ==
    h = [x \in CompletionExprs |->
            CASE x.kind = "leaf" -> <<{x.task}>>
              [] x.kind = "and"  -> AndOf([i \in DOMAIN x.parts |-> h[x.parts[i]]])
              [] OTHER           -> OrOf([i \in DOMAIN x.parts |-> h[x.parts[i]]])]

LEMMA CollectExists ==
    \E h : h \in [CompletionExprs -> AnyBranches] /\ CollectOf(h)
<1> DEFINE D == CompletionExprs
           G == AnyBranches
           value(x, f) ==
            CASE x.kind = "leaf" -> <<{x.task}>>
              [] x.kind = "and"  -> AndOf([i \in DOMAIN x.parts |-> f[x.parts[i]]])
              [] OTHER           -> OrOf([i \in DOMAIN x.parts |-> f[x.parts[i]]])
           F == [a \in D \X [D -> G] |-> value(a[1], a[2])]
<1>1. ASSUME NEW x \in D, NEW f \in [D -> G]
      PROVE  value(x, f) \in G
    <2> DEFINE found == [i \in DOMAIN x.parts |-> f[x.parts[i]]]
    <2>1. CASE x.kind = "leaf"
        BY <2>1, CompletionCases DEF AnyBranches, ListBranches
    <2>2. ASSUME x.kind # "leaf" PROVE found \in Seq(G)
        <3>1. x.parts \in Seq(D)
            BY <2>2, CompletionCases
        <3> HIDE DEF D, G
        <3> QED
            BY <3>1
    <2> HIDE DEF found
    <2>3. CASE x.kind = "or"
        <3>1. OrOf(found) \in G
            BY <2>2, <2>3, OrFold
        <3> QED
            BY <2>3, <3>1 DEF found
    <2>4. CASE x.kind = "and"
        <3>1. AndOf(found) \in G
            BY <2>2, <2>4, AndFold
        <3> QED
            BY <2>4, <3>1 DEF found
    <2> QED
        BY <2>1, <2>3, <2>4, CompletionCases
<1>2. F \in [D \X [D -> G] -> G]
    <2> HIDE DEF value
    <2> QED
        BY <1>1
<1>3. \A x \in D : \A f \in [D -> G] : F[<<x, f>>] = value(x, f)
    <2> HIDE DEF value
    <2> QED
        OBVIOUS
<1> HIDE DEF F
<1>4. LooksAtParts(CompletionLeaves, D, G, F)
    <2> SUFFICES ASSUME NEW x \in D, NEW f \in [D -> G], NEW g \in [D -> G],
                        x \notin CompletionLeaves =>
                            \A i \in DOMAIN x.parts : f[x.parts[i]] = g[x.parts[i]]
                 PROVE  value(x, f) = value(x, g)
        <3> HIDE DEF value
        <3> QED
            BY <1>3 DEF LooksAtParts
    <2>1. CASE x.kind = "leaf"
        BY <2>1
    <2>2. CASE x.kind \in {"and", "or"}
        <3>1. [i \in DOMAIN x.parts |-> f[x.parts[i]]] = [i \in DOMAIN x.parts |-> g[x.parts[i]]]
            BY <2>2, CompletionCases
        <3> QED
            BY <2>2, <3>1
    <2> QED
        BY <2>1, <2>2, CompletionCases
<1>5. PICK h \in [D -> G] : Solves(D, F, h)
    <2> HIDE DEF D, G
    <2>1. <<>> \in G
        BY DEF G, AnyBranches, ListBranches
    <2> QED
        BY <1>2, <1>4, <2>1, CompletionFunction DEF D
<1>6. \A x \in D : h[x] = value(x, h)
    <2> HIDE DEF value
    <2> QED
        BY <1>3, <1>5 DEF Solves
<1>7. CollectOf(h)
    BY <1>6 DEF CollectOf
<1> QED
    BY <1>7

(* The number of branches of the full expansion.                           *)
SizeOf(h) ==
    h = [x \in CompletionExprs |->
            CASE x.kind = "leaf" -> 1
              [] x.kind = "and"  -> Multiplied([i \in DOMAIN x.parts |-> h[x.parts[i]]])
              [] OTHER           -> SumUp([i \in DOMAIN x.parts |-> h[x.parts[i]]])]

LEMMA SizeExists ==
    \E h : h \in [CompletionExprs -> Nat] /\ SizeOf(h)
<1> DEFINE D == CompletionExprs
           G == Nat
           value(x, f) ==
            CASE x.kind = "leaf" -> 1
              [] x.kind = "and"  -> Multiplied([i \in DOMAIN x.parts |-> f[x.parts[i]]])
              [] OTHER           -> SumUp([i \in DOMAIN x.parts |-> f[x.parts[i]]])
           F == [a \in D \X [D -> G] |-> value(a[1], a[2])]
<1>1. ASSUME NEW x \in D, NEW f \in [D -> G]
      PROVE  value(x, f) \in G
    <2> DEFINE found == [i \in DOMAIN x.parts |-> f[x.parts[i]]]
    <2>1. CASE x.kind = "leaf"
        BY <2>1, CompletionCases
    <2>2. ASSUME x.kind # "leaf" PROVE found \in Seq(G)
        <3>1. x.parts \in Seq(D)
            BY <2>2, CompletionCases
        <3> HIDE DEF D, G
        <3> QED
            BY <3>1
    <2> HIDE DEF found
    <2>3. CASE x.kind = "or"
        <3>1. SumUp(found) \in G
            BY <2>2, <2>3, SumFold
        <3> QED
            BY <2>3, <3>1 DEF found
    <2>4. CASE x.kind = "and"
        <3>1. Multiplied(found) \in G
            BY <2>2, <2>4, MultipliedIsNumber
        <3> QED
            BY <2>4, <3>1 DEF found
    <2> QED
        BY <2>1, <2>3, <2>4, CompletionCases
<1>2. F \in [D \X [D -> G] -> G]
    <2> HIDE DEF value
    <2> QED
        BY <1>1
<1>3. \A x \in D : \A f \in [D -> G] : F[<<x, f>>] = value(x, f)
    <2> HIDE DEF value
    <2> QED
        OBVIOUS
<1> HIDE DEF F
<1>4. LooksAtParts(CompletionLeaves, D, G, F)
    <2> SUFFICES ASSUME NEW x \in D, NEW f \in [D -> G], NEW g \in [D -> G],
                        x \notin CompletionLeaves =>
                            \A i \in DOMAIN x.parts : f[x.parts[i]] = g[x.parts[i]]
                 PROVE  value(x, f) = value(x, g)
        <3> HIDE DEF value
        <3> QED
            BY <1>3 DEF LooksAtParts
    <2>1. CASE x.kind = "leaf"
        BY <2>1
    <2>2. CASE x.kind \in {"and", "or"}
        <3>1. [i \in DOMAIN x.parts |-> f[x.parts[i]]] = [i \in DOMAIN x.parts |-> g[x.parts[i]]]
            BY <2>2, CompletionCases
        <3> QED
            BY <2>2, <3>1
    <2> QED
        BY <2>1, <2>2, CompletionCases
<1>5. PICK h \in [D -> G] : Solves(D, F, h)
    <2> HIDE DEF D, G
    <2>1. 0 \in G
        BY DEF G, AnyBranches, ListBranches
    <2> QED
        BY <1>2, <1>4, <2>1, CompletionFunction DEF D
<1>6. \A x \in D : h[x] = value(x, h)
    <2> HIDE DEF value
    <2> QED
        BY <1>3, <1>5 DEF Solves
<1>7. SizeOf(h)
    BY <1>6 DEF SizeOf
<1> QED
    BY <1>7

(* An expression with its parts.                                           *)
PartsOf(h) ==
    h = [x \in CompletionExprs |->
            {x} \cup IF x.kind = "leaf" THEN {}
                     ELSE UNION {h[x.parts[i]] : i \in DOMAIN x.parts}]

LEMMA PartsExist ==
    \E h : h \in [CompletionExprs -> SUBSET CompletionExprs] /\ PartsOf(h)
<1> DEFINE D == CompletionExprs
           G == SUBSET D
           value(x, f) ==
            {x} \cup IF x.kind = "leaf" THEN {}
                     ELSE UNION {f[x.parts[i]] : i \in DOMAIN x.parts}
           F == [a \in D \X [D -> G] |-> value(a[1], a[2])]
<1>1. ASSUME NEW x \in D, NEW f \in [D -> G]
      PROVE  value(x, f) \in G
    <2>1. CASE x.kind = "leaf"
        BY <2>1
    <2>2. CASE x.kind # "leaf"
        <3>1. \A i \in DOMAIN x.parts : x.parts[i] \in D
            BY <2>2, CompletionCases
        <3> HIDE DEF D
        <3>2. \A i \in DOMAIN x.parts : f[x.parts[i]] \in SUBSET D
            BY <3>1 DEF G
        <3> QED
            BY <2>2, <3>2
    <2> QED
        BY <2>1, <2>2
<1>2. F \in [D \X [D -> G] -> G]
    <2> HIDE DEF value
    <2> QED
        BY <1>1
<1>3. \A x \in D : \A f \in [D -> G] : F[<<x, f>>] = value(x, f)
    <2> HIDE DEF value
    <2> QED
        OBVIOUS
<1> HIDE DEF F
<1>4. LooksAtParts(CompletionLeaves, D, G, F)
    <2> SUFFICES ASSUME NEW x \in D, NEW f \in [D -> G], NEW g \in [D -> G],
                        x \notin CompletionLeaves =>
                            \A i \in DOMAIN x.parts : f[x.parts[i]] = g[x.parts[i]]
                 PROVE  value(x, f) = value(x, g)
        <3> HIDE DEF value
        <3> QED
            BY <1>3 DEF LooksAtParts
    <2>1. CASE x.kind = "leaf"
        BY <2>1
    <2>2. CASE x.kind # "leaf"
        <3>1. \A i \in DOMAIN x.parts : f[x.parts[i]] = g[x.parts[i]]
            BY <2>2, CompletionCases
        <3>2. {f[x.parts[i]] : i \in DOMAIN x.parts} = {g[x.parts[i]] : i \in DOMAIN x.parts}
            BY <3>1
        <3> QED
            BY <2>2, <3>2
    <2> QED
        BY <2>1, <2>2
<1>5. PICK h \in [D -> G] : Solves(D, F, h)
    <2> HIDE DEF D, G
    <2>1. {} \in G
        BY DEF G, AnyBranches, ListBranches
    <2> QED
        BY <1>2, <1>4, <2>1, CompletionFunction DEF D
<1>6. \A x \in D : h[x] = value(x, h)
    <2> HIDE DEF value
    <2> QED
        BY <1>3, <1>5 DEF Solves
<1>7. PartsOf(h)
    BY <1>6 DEF PartsOf
<1> QED
    BY <1>7
(* What the meanings of an expression are, given those of its parts.       *)

LEMMA SatisfiedIs ==
    ASSUME NEW placed, NEW x \in CompletionExprs
    PROVE  /\ x.kind = "leaf" => (IsSatisfiedBy(x, placed) <=> x.task \in placed)
           /\ x.kind = "and" =>
                (IsSatisfiedBy(x, placed) <=> \A i \in DOMAIN x.parts : IsSatisfiedBy(x.parts[i], placed))
           /\ x.kind = "or" =>
                (IsSatisfiedBy(x, placed) <=> \E i \in DOMAIN x.parts : IsSatisfiedBy(x.parts[i], placed))
<1> DEFINE h == CHOOSE f : HoldsOf(placed, f)
<1>1. \E f : HoldsOf(placed, f)
    BY SatisfiedExists, Zenon
<1>2. HoldsOf(placed, h)
    BY <1>1, Zenon
<1>3. \A y \in CompletionExprs : IsSatisfiedBy(y, placed) = h[y]
    BY DEF IsSatisfiedBy, HoldsOf
<1> HIDE DEF h
<1>4. CASE x.kind = "leaf"
    <2>1. h[x] = (x.task \in placed)
        BY <1>2, <1>4 DEF HoldsOf
    <2> QED
        BY <1>3, <1>4, <2>1
<1>5. CASE x.kind = "and"
    <2>1. h[x] = \A i \in DOMAIN x.parts : h[x.parts[i]]
        BY <1>2, <1>5 DEF HoldsOf
    <2>2. \A i \in DOMAIN x.parts : IsSatisfiedBy(x.parts[i], placed) = h[x.parts[i]]
        BY <1>3, <1>5, CompletionCases
    <2> QED
        BY <1>3, <1>5, <2>1, <2>2
<1>6. CASE x.kind = "or"
    <2>1. h[x] = \E i \in DOMAIN x.parts : h[x.parts[i]]
        BY <1>2, <1>6 DEF HoldsOf
    <2>2. \A i \in DOMAIN x.parts : IsSatisfiedBy(x.parts[i], placed) = h[x.parts[i]]
        BY <1>3, <1>6, CompletionCases
    <2> QED
        BY <1>3, <1>6, <2>1, <2>2
<1> QED
    BY <1>4, <1>5, <1>6, CompletionCases


LEMMA BranchFoldTypes ==
    ASSUME NEW list \in Seq(AnyBranches)
    PROVE  OrOf(list) \in AnyBranches /\ AndOf(list) \in AnyBranches
<1>1. Len(list) \in 0 .. Len(list)
    OBVIOUS
<1>2. OrOf(list) \in AnyBranches
    <2>1. PICK h \in [0 .. Len(list) -> AnyBranches] : OrOf(list) = h[Len(list)]
        BY OrFold, Zenon
    <2> QED
        BY <1>1, <2>1
<1>3. AndOf(list) \in AnyBranches
    <2>1. PICK h \in [0 .. Len(list) -> AnyBranches] : AndOf(list) = h[Len(list)]
        BY AndFold, Zenon
    <2> QED
        BY <1>1, <2>1
<1> QED
    BY <1>2, <1>3

LEMMA SumIsNumber ==
    ASSUME NEW list \in Seq(Nat)
    PROVE  SumUp(list) \in Nat
<1>1. PICK h \in [0 .. Len(list) -> Nat] : SumUp(list) = h[Len(list)]
    BY SumFold, Zenon
<1>2. Len(list) \in 0 .. Len(list)
    OBVIOUS
<1> QED
    BY <1>1, <1>2

Collected(list) == [i \in DOMAIN list |-> DnfCollect(list[i])]

LEMMA DnfCollectIs ==
    ASSUME NEW x \in CompletionExprs
    PROVE  /\ DnfCollect(x) \in AnyBranches
           /\ x.kind = "leaf" => DnfCollect(x) = <<{x.task}>>
           /\ x.kind = "or" => DnfCollect(x) = OrOf(Collected(x.parts))
           /\ x.kind = "and" => DnfCollect(x) = AndOf(Collected(x.parts))
           /\ x.kind # "leaf" => Collected(x.parts) \in Seq(AnyBranches)
<1> DEFINE D == CompletionExprs
           g == CHOOSE f : CollectOf(f)
           found(y) == [i \in DOMAIN y.parts |-> g[y.parts[i]]]
<1>1. CollectOf(g)
    <2>1. \E f : CollectOf(f)
        BY CollectExists, Zenon
    <2> QED
        BY <2>1, Zenon
<1>2. \A y \in D : DnfCollect(y) = g[y]
    BY DEF DnfCollect, CollectOf, OrOf, AndOf
<1> HIDE DEF g
<1>3. \A y \in D : /\ y.kind = "leaf" => g[y] = <<{y.task}>>
                   /\ y.kind = "or" => g[y] = OrOf(found(y))
                   /\ y.kind = "and" => g[y] = AndOf(found(y))
    BY <1>1 DEF CollectOf
<1> DEFINE P == {y \in D : g[y] \in AnyBranches}
<1>4. ASSUME NEW y \in D, y.parts \in Seq(D), \A i \in DOMAIN y.parts : y.parts[i] \in P
      PROVE  found(y) \in Seq(AnyBranches)
    BY <1>4
<1> HIDE DEF found
<1>5. D \subseteq P
    <2>1. CompletionLeaves \subseteq P
        <3>1. CompletionLeaves \subseteq D
            BY CompletionShapes DEF DepthOf
        <3>2. ASSUME NEW y \in CompletionLeaves PROVE g[y] \in AnyBranches
            <4>1. y.kind = "leaf" /\ y.task \in Nat
                BY DEF CompletionLeaves
            <4>2. g[y] = <<{y.task}>>
                BY <1>3, <3>1, <4>1
            <4> QED
                BY <4>1, <4>2 DEF AnyBranches, ListBranches
        <3> QED
            BY <3>1, <3>2
    <2>2. ASSUME NEW y \in D, y.kind \in {"and", "or"}, y.parts \in Seq(D),
                 \A i \in DOMAIN y.parts : y.parts[i] \in P
          PROVE  y \in P
        <3>1. found(y) \in Seq(AnyBranches)
            BY <1>4, <2>2
        <3>2. OrOf(found(y)) \in AnyBranches
            BY <3>1, BranchFoldTypes
        <3>3. AndOf(found(y)) \in AnyBranches
            BY <3>1, BranchFoldTypes
        <3> HIDE DEF D
        <3> QED
            BY <1>3, <2>2, <3>2, <3>3
    <2>3. \A y \in D : y.kind \in {"and", "or"} /\ y.parts \in Seq(D)
                       /\ (\A i \in DOMAIN y.parts : y.parts[i] \in P) => y \in P
        <3> HIDE DEF D, P
        <3> QED
            BY <2>2, Zenon
    <2> HIDE DEF P
    <2> QED
        BY <2>1, <2>3, CompletionInduction
<1>6. ASSUME x.kind # "leaf"
      PROVE  Collected(x.parts) = found(x) /\ Collected(x.parts) \in Seq(AnyBranches)
    <2>1. x.parts \in Seq(D)
        BY <1>6, CompletionCases
    <2>2. \A i \in DOMAIN x.parts : x.parts[i] \in D
        BY <2>1
    <2>3. Collected(x.parts) = found(x)
        BY <1>2, <2>2 DEF Collected, found
    <2>4. found(x) \in Seq(AnyBranches)
        BY <1>4, <1>5, <2>1, <2>2
    <2> QED
        BY <2>3, <2>4
<1>7. DnfCollect(x) \in AnyBranches
    BY <1>2, <1>5
<1>8. x.kind = "leaf" => DnfCollect(x) = <<{x.task}>>
    BY <1>2, <1>3
<1>9. x.kind = "or" => DnfCollect(x) = OrOf(Collected(x.parts))
    BY <1>2, <1>3, <1>6
<1>10. x.kind = "and" => DnfCollect(x) = AndOf(Collected(x.parts))
    BY <1>2, <1>3, <1>6
<1> QED
    BY <1>6, <1>7, <1>8, <1>9, <1>10

Sizes(list) == [i \in DOMAIN list |-> Expansion(list[i])]

LEMMA ExpansionIs ==
    ASSUME NEW x \in CompletionExprs
    PROVE  /\ Expansion(x) \in Nat
           /\ x.kind = "leaf" => Expansion(x) = 1
           /\ x.kind = "or" => Expansion(x) = SumUp(Sizes(x.parts))
           /\ x.kind = "and" => Expansion(x) = Multiplied(Sizes(x.parts))
           /\ x.kind # "leaf" => Sizes(x.parts) \in Seq(Nat)
<1> DEFINE D == CompletionExprs
           g == CHOOSE f : SizeOf(f)
           found(y) == [i \in DOMAIN y.parts |-> g[y.parts[i]]]
<1>1. SizeOf(g)
    <2>1. \E f : SizeOf(f)
        BY SizeExists, Zenon
    <2> QED
        BY <2>1, Zenon
<1>2. \A y \in D : Expansion(y) = g[y]
    BY DEF Expansion, SizeOf, SumUp, Multiplied
<1> HIDE DEF g
<1>3. \A y \in D : /\ y.kind = "leaf" => g[y] = 1
                   /\ y.kind = "or" => g[y] = SumUp(found(y))
                   /\ y.kind = "and" => g[y] = Multiplied(found(y))
    BY <1>1 DEF SizeOf
<1> DEFINE P == {y \in D : g[y] \in Nat}
<1>4. ASSUME NEW y \in D, y.parts \in Seq(D), \A i \in DOMAIN y.parts : y.parts[i] \in P
      PROVE  found(y) \in Seq(Nat)
    BY <1>4
<1> HIDE DEF found
<1>5. D \subseteq P
    <2>1. CompletionLeaves \subseteq P
        <3>1. CompletionLeaves \subseteq D
            BY CompletionShapes DEF DepthOf
        <3>2. ASSUME NEW y \in CompletionLeaves PROVE g[y] \in Nat
            <4>1. y.kind = "leaf" /\ y.task \in Nat
                BY DEF CompletionLeaves
            <4>2. g[y] = 1
                BY <1>3, <3>1, <4>1
            <4> QED
                BY <4>1, <4>2
        <3> QED
            BY <3>1, <3>2
    <2>2. ASSUME NEW y \in D, y.kind \in {"and", "or"}, y.parts \in Seq(D),
                 \A i \in DOMAIN y.parts : y.parts[i] \in P
          PROVE  y \in P
        <3>1. found(y) \in Seq(Nat)
            BY <1>4, <2>2
        <3>2. SumUp(found(y)) \in Nat
            BY <3>1, SumIsNumber
        <3>3. Multiplied(found(y)) \in Nat
            BY <3>1, MultipliedIsNumber
        <3> HIDE DEF D
        <3> QED
            BY <1>3, <2>2, <3>2, <3>3
    <2>3. \A y \in D : y.kind \in {"and", "or"} /\ y.parts \in Seq(D)
                       /\ (\A i \in DOMAIN y.parts : y.parts[i] \in P) => y \in P
        <3> HIDE DEF D, P
        <3> QED
            BY <2>2, Zenon
    <2> HIDE DEF P
    <2> QED
        BY <2>1, <2>3, CompletionInduction
<1>6. ASSUME x.kind # "leaf"
      PROVE  Sizes(x.parts) = found(x) /\ Sizes(x.parts) \in Seq(Nat)
    <2>1. x.parts \in Seq(D)
        BY <1>6, CompletionCases
    <2>2. \A i \in DOMAIN x.parts : x.parts[i] \in D
        BY <2>1
    <2>3. Sizes(x.parts) = found(x)
        BY <1>2, <2>2 DEF Sizes, found
    <2>4. found(x) \in Seq(Nat)
        BY <1>4, <1>5, <2>1, <2>2
    <2> QED
        BY <2>3, <2>4
<1>7. Expansion(x) \in Nat
    BY <1>2, <1>5
<1>8. x.kind = "leaf" => Expansion(x) = 1
    BY <1>2, <1>3
<1>9. x.kind = "or" => Expansion(x) = SumUp(Sizes(x.parts))
    BY <1>2, <1>3, <1>6
<1>10. x.kind = "and" => Expansion(x) = Multiplied(Sizes(x.parts))
    BY <1>2, <1>3, <1>6
<1> QED
    BY <1>6, <1>7, <1>8, <1>9, <1>10

LEMMA SubexpressionsAre ==
    ASSUME NEW x \in CompletionExprs
    PROVE  /\ x \in Subexpressions(x)
           /\ x.kind # "leaf" =>
                \A i \in DOMAIN x.parts : Subexpressions(x.parts[i]) \subseteq Subexpressions(x)
<1> DEFINE g == CHOOSE f : PartsOf(f)
<1>1. PartsOf(g)
    <2>1. \E f : PartsOf(f)
        BY PartsExist, Zenon
    <2> QED
        BY <2>1, Zenon
<1>2. \A y \in CompletionExprs : Subexpressions(y) = g[y]
    BY DEF Subexpressions, PartsOf
<1> HIDE DEF g
<1>3. g[x] = {x} \cup IF x.kind = "leaf" THEN {}
                      ELSE UNION {g[x.parts[i]] : i \in DOMAIN x.parts}
    BY <1>1 DEF PartsOf
<1>4. x \in Subexpressions(x)
    BY <1>2, <1>3
<1>5. ASSUME x.kind # "leaf", NEW i \in DOMAIN x.parts
      PROVE  Subexpressions(x.parts[i]) \subseteq Subexpressions(x)
    <2>1. x.parts[i] \in CompletionExprs
        BY <1>5, CompletionCases
    <2>2. g[x.parts[i]] \subseteq g[x]
        BY <1>3, <1>5
    <2> QED
        BY <1>2, <2>1, <2>2
<1> QED
    BY <1>4, <1>5
(* The first elements of a list.                                           *)
Upto(list, k) == [i \in 1 .. k |-> list[i]]

(* The folds one element at a time.                                        *)
LEMMA OrSteps ==
    ASSUME NEW list \in Seq(AnyBranches)
    PROVE  /\ OrOf(Upto(list, 0)) = <<>>
           /\ \A k \in 1 .. Len(list) :
                 OrOf(Upto(list, k)) = OrStep(OrOf(Upto(list, k - 1)), list[k])
           /\ OrOf(Upto(list, Len(list))) = OrOf(list)
<1> DEFINE n == Len(list)
           G == AnyBranches
<1>1. PICK h \in [0 .. n -> G] :
              /\ h[0] = <<>>
              /\ \A k \in 1 .. n : h[k] = OrStep(h[k - 1], list[k])
              /\ OrOf(list) = h[n]
    BY OrFold
<1>2. n \in Nat /\ DOMAIN list = 1 .. n
    OBVIOUS
<1>3. ASSUME NEW k \in 0 .. n PROVE OrOf(Upto(list, k)) = h[k]
    <2> DEFINE cut == Upto(list, k)
    <2>1. cut \in Seq(G) /\ Len(cut) = k /\ \A j \in 1 .. k : cut[j] = list[j]
        BY <1>2, <1>3 DEF Upto
    <2> HIDE DEF cut
    <2>2. PICK g \in [0 .. k -> G] :
              /\ g[0] = <<>>
              /\ \A j \in 1 .. k : g[j] = OrStep(g[j - 1], cut[j])
              /\ OrOf(cut) = g[k]
        BY <2>1, OrFold
    <2> DEFINE P == {j \in Nat : j <= k => g[j] = h[j]}
    <2>3. 0 \in P
        BY <1>1, <2>2
    <2>4. ASSUME NEW j \in Nat, j \in P PROVE j + 1 \in P
        <3> SUFFICES ASSUME j + 1 <= k PROVE g[j + 1] = h[j + 1]
            OBVIOUS
        <3>1. j + 1 \in 1 .. k /\ j + 1 \in 1 .. n /\ (j + 1) - 1 = j
            BY <1>2, <1>3
        <3>2. g[j + 1] = OrStep(g[j], cut[j + 1])
            BY <2>2, <3>1
        <3>3. h[j + 1] = OrStep(h[j], list[j + 1])
            BY <1>1, <3>1
        <3> QED
            BY <2>1, <2>4, <3>1, <3>2, <3>3
    <2>5. Nat \subseteq P
        <3> HIDE DEF P
        <3> QED
            BY <2>3, <2>4, CountingUp
    <2> QED
        BY <2>2, <2>5 DEF cut
<1> HIDE DEF n, G
<1>4. \A k \in 1 .. n : OrOf(Upto(list, k)) = OrStep(OrOf(Upto(list, k - 1)), list[k])
    <2> SUFFICES ASSUME NEW k \in 1 .. n
                 PROVE  OrOf(Upto(list, k)) = OrStep(OrOf(Upto(list, k - 1)), list[k])
        OBVIOUS
    <2>1. k \in 0 .. n /\ k - 1 \in 0 .. n
        BY <1>2
    <2>2. OrOf(Upto(list, k)) = h[k] /\ OrOf(Upto(list, k - 1)) = h[k - 1]
        BY <1>3, <2>1
    <2> QED
        BY <1>1, <2>2
<1>5. OrOf(Upto(list, 0)) = <<>> /\ OrOf(Upto(list, n)) = OrOf(list)
    <2>1. 0 \in 0 .. n /\ n \in 0 .. n
        BY <1>2
    <2> QED
        BY <1>1, <1>3, <2>1
<1> QED
    BY <1>4, <1>5 DEF n

LEMMA AndSteps ==
    ASSUME NEW list \in Seq(AnyBranches)
    PROVE  /\ AndOf(Upto(list, 0)) = <<{}>>
           /\ \A k \in 1 .. Len(list) :
                 AndOf(Upto(list, k)) = AndStep(AndOf(Upto(list, k - 1)), list[k])
           /\ AndOf(Upto(list, Len(list))) = AndOf(list)
<1> DEFINE n == Len(list)
           G == AnyBranches
<1>1. PICK h \in [0 .. n -> G] :
              /\ h[0] = <<{}>>
              /\ \A k \in 1 .. n : h[k] = AndStep(h[k - 1], list[k])
              /\ AndOf(list) = h[n]
    BY AndFold
<1>2. n \in Nat /\ DOMAIN list = 1 .. n
    OBVIOUS
<1>3. ASSUME NEW k \in 0 .. n PROVE AndOf(Upto(list, k)) = h[k]
    <2> DEFINE cut == Upto(list, k)
    <2>1. cut \in Seq(G) /\ Len(cut) = k /\ \A j \in 1 .. k : cut[j] = list[j]
        BY <1>2, <1>3 DEF Upto
    <2> HIDE DEF cut
    <2>2. PICK g \in [0 .. k -> G] :
              /\ g[0] = <<{}>>
              /\ \A j \in 1 .. k : g[j] = AndStep(g[j - 1], cut[j])
              /\ AndOf(cut) = g[k]
        BY <2>1, AndFold
    <2> DEFINE P == {j \in Nat : j <= k => g[j] = h[j]}
    <2>3. 0 \in P
        BY <1>1, <2>2
    <2>4. ASSUME NEW j \in Nat, j \in P PROVE j + 1 \in P
        <3> SUFFICES ASSUME j + 1 <= k PROVE g[j + 1] = h[j + 1]
            OBVIOUS
        <3>1. j + 1 \in 1 .. k /\ j + 1 \in 1 .. n /\ (j + 1) - 1 = j
            BY <1>2, <1>3
        <3>2. g[j + 1] = AndStep(g[j], cut[j + 1])
            BY <2>2, <3>1
        <3>3. h[j + 1] = AndStep(h[j], list[j + 1])
            BY <1>1, <3>1
        <3> QED
            BY <2>1, <2>4, <3>1, <3>2, <3>3
    <2>5. Nat \subseteq P
        <3> HIDE DEF P
        <3> QED
            BY <2>3, <2>4, CountingUp
    <2> QED
        BY <2>2, <2>5 DEF cut
<1> HIDE DEF n, G
<1>4. \A k \in 1 .. n : AndOf(Upto(list, k)) = AndStep(AndOf(Upto(list, k - 1)), list[k])
    <2> SUFFICES ASSUME NEW k \in 1 .. n
                 PROVE  AndOf(Upto(list, k)) = AndStep(AndOf(Upto(list, k - 1)), list[k])
        OBVIOUS
    <2>1. k \in 0 .. n /\ k - 1 \in 0 .. n
        BY <1>2
    <2>2. AndOf(Upto(list, k)) = h[k] /\ AndOf(Upto(list, k - 1)) = h[k - 1]
        BY <1>3, <2>1
    <2> QED
        BY <1>1, <2>2
<1>5. AndOf(Upto(list, 0)) = <<{}>> /\ AndOf(Upto(list, n)) = AndOf(list)
    <2>1. 0 \in 0 .. n /\ n \in 0 .. n
        BY <1>2
    <2> QED
        BY <1>1, <1>3, <2>1
<1> QED
    BY <1>4, <1>5 DEF n

LEMMA SumSteps ==
    ASSUME NEW list \in Seq(Nat)
    PROVE  /\ SumUp(Upto(list, 0)) = 0
           /\ \A k \in 1 .. Len(list) :
                 SumUp(Upto(list, k)) = SumUp(Upto(list, k - 1)) + list[k]
           /\ SumUp(Upto(list, Len(list))) = SumUp(list)
<1> DEFINE n == Len(list)
           G == Nat
<1>1. PICK h \in [0 .. n -> G] :
              /\ h[0] = 0
              /\ \A k \in 1 .. n : h[k] = h[k - 1] + list[k]
              /\ SumUp(list) = h[n]
    BY SumFold
<1>2. n \in Nat /\ DOMAIN list = 1 .. n
    OBVIOUS
<1>3. ASSUME NEW k \in 0 .. n PROVE SumUp(Upto(list, k)) = h[k]
    <2> DEFINE cut == Upto(list, k)
    <2>1. cut \in Seq(G) /\ Len(cut) = k /\ \A j \in 1 .. k : cut[j] = list[j]
        BY <1>2, <1>3 DEF Upto
    <2> HIDE DEF cut
    <2>2. PICK g \in [0 .. k -> G] :
              /\ g[0] = 0
              /\ \A j \in 1 .. k : g[j] = g[j - 1] + cut[j]
              /\ SumUp(cut) = g[k]
        BY <2>1, SumFold
    <2> DEFINE P == {j \in Nat : j <= k => g[j] = h[j]}
    <2>3. 0 \in P
        BY <1>1, <2>2
    <2>4. ASSUME NEW j \in Nat, j \in P PROVE j + 1 \in P
        <3> SUFFICES ASSUME j + 1 <= k PROVE g[j + 1] = h[j + 1]
            OBVIOUS
        <3>1. j + 1 \in 1 .. k /\ j + 1 \in 1 .. n /\ (j + 1) - 1 = j
            BY <1>2, <1>3
        <3>2. g[j + 1] = g[j] + cut[j + 1]
            BY <2>2, <3>1
        <3>3. h[j + 1] = h[j] + list[j + 1]
            BY <1>1, <3>1
        <3> QED
            BY <2>1, <2>4, <3>1, <3>2, <3>3
    <2>5. Nat \subseteq P
        <3> HIDE DEF P
        <3> QED
            BY <2>3, <2>4, CountingUp
    <2> QED
        BY <2>2, <2>5 DEF cut
<1> HIDE DEF n, G
<1>4. \A k \in 1 .. n : SumUp(Upto(list, k)) = SumUp(Upto(list, k - 1)) + list[k]
    <2> SUFFICES ASSUME NEW k \in 1 .. n
                 PROVE  SumUp(Upto(list, k)) = SumUp(Upto(list, k - 1)) + list[k]
        OBVIOUS
    <2>1. k \in 0 .. n /\ k - 1 \in 0 .. n
        BY <1>2
    <2>2. SumUp(Upto(list, k)) = h[k] /\ SumUp(Upto(list, k - 1)) = h[k - 1]
        BY <1>3, <2>1
    <2> QED
        BY <1>1, <2>2
<1>5. SumUp(Upto(list, 0)) = 0 /\ SumUp(Upto(list, n)) = SumUp(list)
    <2>1. 0 \in 0 .. n /\ n \in 0 .. n
        BY <1>2
    <2> QED
        BY <1>1, <1>3, <2>1
<1> QED
    BY <1>4, <1>5 DEF n

LEMMA ProductSteps ==
    ASSUME NEW list \in Seq(Nat)
    PROVE  /\ Multiplied(Upto(list, 0)) = 1
           /\ \A k \in 1 .. Len(list) :
                 Multiplied(Upto(list, k)) = Multiplied(Upto(list, k - 1)) * list[k]
           /\ Multiplied(Upto(list, Len(list))) = Multiplied(list)
<1> DEFINE n == Len(list)
           G == Nat
<1>1. PICK h \in [0 .. n -> G] :
              /\ h[0] = 1
              /\ \A k \in 1 .. n : h[k] = h[k - 1] * list[k]
              /\ Multiplied(list) = h[n]
    BY ProductFold
<1>2. n \in Nat /\ DOMAIN list = 1 .. n
    OBVIOUS
<1>3. ASSUME NEW k \in 0 .. n PROVE Multiplied(Upto(list, k)) = h[k]
    <2> DEFINE cut == Upto(list, k)
    <2>1. cut \in Seq(G) /\ Len(cut) = k /\ \A j \in 1 .. k : cut[j] = list[j]
        BY <1>2, <1>3 DEF Upto
    <2> HIDE DEF cut
    <2>2. PICK g \in [0 .. k -> G] :
              /\ g[0] = 1
              /\ \A j \in 1 .. k : g[j] = g[j - 1] * cut[j]
              /\ Multiplied(cut) = g[k]
        BY <2>1, ProductFold
    <2> DEFINE P == {j \in Nat : j <= k => g[j] = h[j]}
    <2>3. 0 \in P
        BY <1>1, <2>2
    <2>4. ASSUME NEW j \in Nat, j \in P PROVE j + 1 \in P
        <3> SUFFICES ASSUME j + 1 <= k PROVE g[j + 1] = h[j + 1]
            OBVIOUS
        <3>1. j + 1 \in 1 .. k /\ j + 1 \in 1 .. n /\ (j + 1) - 1 = j
            BY <1>2, <1>3
        <3>2. g[j + 1] = g[j] * cut[j + 1]
            BY <2>2, <3>1
        <3>3. h[j + 1] = h[j] * list[j + 1]
            BY <1>1, <3>1
        <3> QED
            BY <2>1, <2>4, <3>1, <3>2, <3>3
    <2>5. Nat \subseteq P
        <3> HIDE DEF P
        <3> QED
            BY <2>3, <2>4, CountingUp
    <2> QED
        BY <2>2, <2>5 DEF cut
<1> HIDE DEF n, G
<1>4. \A k \in 1 .. n : Multiplied(Upto(list, k)) = Multiplied(Upto(list, k - 1)) * list[k]
    <2> SUFFICES ASSUME NEW k \in 1 .. n
                 PROVE  Multiplied(Upto(list, k)) = Multiplied(Upto(list, k - 1)) * list[k]
        OBVIOUS
    <2>1. k \in 0 .. n /\ k - 1 \in 0 .. n
        BY <1>2
    <2>2. Multiplied(Upto(list, k)) = h[k] /\ Multiplied(Upto(list, k - 1)) = h[k - 1]
        BY <1>3, <2>1
    <2> QED
        BY <1>1, <2>2
<1>5. Multiplied(Upto(list, 0)) = 1 /\ Multiplied(Upto(list, n)) = Multiplied(list)
    <2>1. 0 \in 0 .. n /\ n \in 0 .. n
        BY <1>2
    <2> QED
        BY <1>1, <1>3, <2>1
<1> QED
    BY <1>4, <1>5 DEF n
(* What the expansion of an Or or And has for its alternatives or children *)
(* up to one of them.                                                      *)
Fits(branches, size) == Len(branches) = size /\ size <= MaxDnfBranches

OrUpTo(list, sizes, k) ==
    LET out == OrOf(Upto(list, k)) IN
    IF out = TooLarge
      THEN \/ \E i \in 1 .. k : list[i] = TooLarge
           \/ \E j \in 1 .. k : SumUp(Upto(sizes, j)) > MaxDnfBranches
      ELSE /\ Fits(out, SumUp(Upto(sizes, k)))
           /\ \A i \in 1 .. k : list[i] # TooLarge
           /\ \A S : SomeWithin(out, S) <=> \E i \in 1 .. k : SomeWithin(list[i], S)

AndUpTo(list, sizes, k) ==
    LET out == AndOf(Upto(list, k)) IN
    IF out = TooLarge
      THEN \/ \E i \in 1 .. k : list[i] = TooLarge
           \/ \E j \in 1 .. k : Multiplied(Upto(sizes, j)) > MaxDnfBranches
      ELSE /\ Fits(out, Multiplied(Upto(sizes, k)))
           /\ out = <<>> => \E i \in 1 .. k : list[i] = <<>>
           /\ out # <<>> =>
                 /\ \A i \in 1 .. k : list[i] # TooLarge
                 /\ \A S : SomeWithin(out, S) <=> \A i \in 1 .. k : SomeWithin(list[i], S)

(* The sizes of the lists of branches, but for those that were given up.   *)
SizesOf(list, sizes) ==
    /\ sizes \in Seq(Nat) /\ Len(sizes) = Len(list)
    /\ \A i \in DOMAIN list : list[i] # TooLarge => Len(list[i]) = sizes[i]

LEMMA NoListIsTooLarge ==
    TooLarge \notin ListBranches
BY TooLargeIsNoList DEF ListBranches

LEMMA ConcatWithin ==
    ASSUME NEW a \in ListBranches, NEW b \in ListBranches, NEW S
    PROVE  /\ a \o b \in ListBranches /\ Len(a \o b) = Len(a) + Len(b)
           /\ SomeWithin(a \o b, S) <=> SomeWithin(a, S) \/ SomeWithin(b, S)
<1>1. a \o b \in ListBranches /\ Len(a \o b) = Len(a) + Len(b)
    BY DEF ListBranches
<1>2. Len(a) \in Nat /\ Len(b) \in Nat
    BY DEF ListBranches
<1>3. /\ \A i \in 1 .. Len(a) : (a \o b)[i] = a[i]
      /\ \A i \in 1 .. Len(b) : (a \o b)[Len(a) + i] = b[i]
    BY DEF ListBranches
<1>4. ASSUME SomeWithin(a \o b, S) PROVE SomeWithin(a, S) \/ SomeWithin(b, S)
    <2>1. PICK i \in 1 .. Len(a) + Len(b) : (a \o b)[i] \subseteq S
        BY <1>1, <1>4 DEF SomeWithin
    <2>2. CASE i <= Len(a)
        BY <1>2, <1>3, <2>1, <2>2 DEF SomeWithin
    <2>3. CASE i > Len(a)
        <3>1. i - Len(a) \in 1 .. Len(b) /\ Len(a) + (i - Len(a)) = i
            BY <1>2, <2>3
        <3>2. b[i - Len(a)] \subseteq S
            BY <1>3, <2>1, <3>1
        <3> QED
            BY <3>1, <3>2 DEF SomeWithin
    <2> QED
        BY <1>2, <2>2, <2>3
<1>5. ASSUME SomeWithin(a, S) PROVE SomeWithin(a \o b, S)
    <2>1. PICK i \in 1 .. Len(a) : a[i] \subseteq S
        BY <1>5 DEF SomeWithin
    <2>2. i \in 1 .. Len(a \o b) /\ (a \o b)[i] \subseteq S
        BY <1>1, <1>2, <1>3, <2>1
    <2> QED
        BY <2>2 DEF SomeWithin
<1>6. ASSUME SomeWithin(b, S) PROVE SomeWithin(a \o b, S)
    <2>1. PICK i \in 1 .. Len(b) : b[i] \subseteq S
        BY <1>6 DEF SomeWithin
    <2>2. Len(a) + i \in 1 .. Len(a \o b) /\ (a \o b)[Len(a) + i] \subseteq S
        BY <1>1, <1>2, <1>3, <2>1
    <2> QED
        BY <2>2 DEF SomeWithin
<1> QED
    BY <1>1, <1>4, <1>5, <1>6

LEMMA OrMeans ==
    ASSUME NEW list \in Seq(AnyBranches), NEW sizes, SizesOf(list, sizes)
    PROVE  \A k \in 0 .. Len(list) : OrUpTo(list, sizes, k)
<1> DEFINE n == Len(list)
           out(k) == OrOf(Upto(list, k))
           sum(k) == SumUp(Upto(sizes, k))
           P == {k \in Nat : k <= n => OrUpTo(list, sizes, k)}
<1>1. n \in Nat /\ DOMAIN list = 1 .. n /\ Len(sizes) = n /\ sizes \in Seq(Nat)
    BY DEF SizesOf
<1>2. out(0) = <<>> /\ sum(0) = 0
    BY <1>1, OrSteps, SumSteps
<1>3. \A k \in 1 .. n : out(k) = OrStep(out(k - 1), list[k]) /\ sum(k) = sum(k - 1) + sizes[k]
    BY <1>1, OrSteps, SumSteps
<1>4. \A k \in 0 .. n : out(k) \in AnyBranches
    <2> SUFFICES ASSUME NEW k \in 0 .. n PROVE out(k) \in AnyBranches
        OBVIOUS
    <2>1. Upto(list, k) \in Seq(AnyBranches)
        BY <1>1 DEF Upto
    <2> QED
        BY <2>1, BranchFoldTypes
<1>5. OrUpTo(list, sizes, 0)
    <2>1. <<>> \in ListBranches
        BY DEF ListBranches
    <2>2. out(0) # TooLarge
        BY <1>2, <2>1, NoListIsTooLarge
    <2>3. Fits(out(0), sum(0))
        BY <1>2, DnfConstants DEF Fits
    <2>4. \A S : ~ SomeWithin(out(0), S)
        BY <1>2 DEF SomeWithin
    <2> HIDE DEF out, sum
    <2>5. \A i \in 1 .. 0 : FALSE
        OBVIOUS
    <2> QED
        BY <2>2, <2>3, <2>4, <2>5 DEF OrUpTo, out, sum
<1>6. ASSUME NEW k \in 1 .. n, OrUpTo(list, sizes, k - 1) PROVE OrUpTo(list, sizes, k)
    <2> DEFINE acc == out(k - 1)
               set == list[k]
    <2>1. k - 1 \in 0 .. n /\ \A i : i \in 1 .. k <=> i \in 1 .. k - 1 \/ i = k
        BY <1>1
    <2>2. acc \in AnyBranches /\ set \in AnyBranches
        BY <1>1, <1>4, <2>1
    <2>3. out(k) = OrStep(acc, set) /\ sum(k) = sum(k - 1) + sizes[k]
        BY <1>3
    <2> HIDE DEF out, sum, acc, set
    <2>4. IF acc = TooLarge
            THEN \/ \E i \in 1 .. k - 1 : list[i] = TooLarge
                 \/ \E j \in 1 .. k - 1 : sum(j) > MaxDnfBranches
            ELSE /\ Fits(acc, sum(k - 1))
                 /\ \A i \in 1 .. k - 1 : list[i] # TooLarge
                 /\ \A S : SomeWithin(acc, S) <=> \E i \in 1 .. k - 1 : SomeWithin(list[i], S)
        BY <1>6 DEF OrUpTo, out, sum, acc
    <2>5. CASE acc = TooLarge
        <3>1. out(k) = TooLarge
            BY <2>3, <2>5 DEF OrStep
        <3>2. \/ \E i \in 1 .. k : list[i] = TooLarge
              \/ \E j \in 1 .. k : sum(j) > MaxDnfBranches
            BY <2>1, <2>4, <2>5
        <3> QED
            BY <3>1, <3>2 DEF OrUpTo, out, sum
    <2>6. CASE acc # TooLarge /\ set = TooLarge
        <3>1. out(k) = TooLarge
            BY <2>3, <2>6 DEF OrStep
        <3>2. \E i \in 1 .. k : list[i] = TooLarge
            BY <2>1, <2>6 DEF set
        <3> QED
            BY <3>1, <3>2 DEF OrUpTo, out
    <2>7. CASE acc # TooLarge /\ set # TooLarge
        <3>1. acc \in ListBranches /\ set \in ListBranches
            BY <2>2, <2>7 DEF AnyBranches
        <3>2. Len(acc) = sum(k - 1) /\ Len(set) = sizes[k] /\ Len(acc) \in Nat /\ Len(set) \in Nat
            BY <1>1, <2>4, <2>7, <3>1 DEF Fits, SizesOf, set, ListBranches
        <3>3. CASE Len(acc) + Len(set) > MaxDnfBranches
            <4>1. out(k) = TooLarge
                BY <2>3, <2>7, <3>3 DEF OrStep
            <4>2. sum(k) > MaxDnfBranches /\ k \in 1 .. k
                BY <2>3, <3>2, <3>3
            <4> QED
                BY <4>1, <4>2 DEF OrUpTo, out, sum
        <3>4. CASE ~ Len(acc) + Len(set) > MaxDnfBranches
            <4>1. out(k) = acc \o set
                BY <2>3, <2>7, <3>4 DEF OrStep
            <4>2. out(k) \in ListBranches /\ Len(out(k)) = Len(acc) + Len(set)
                BY <3>1, <4>1, ConcatWithin
            <4>3. out(k) # TooLarge
                BY <4>2, NoListIsTooLarge
            <4>4. Fits(out(k), sum(k))
                BY <2>3, <3>2, <3>4, <4>2, DnfConstants DEF Fits
            <4>5. \A i \in 1 .. k : list[i] # TooLarge
                BY <2>1, <2>4, <2>7 DEF set
            <4>6. ASSUME NEW S
                  PROVE  SomeWithin(out(k), S) <=> \E i \in 1 .. k : SomeWithin(list[i], S)
                <5>1. SomeWithin(out(k), S) <=> SomeWithin(acc, S) \/ SomeWithin(list[k], S)
                    BY <3>1, <4>1, ConcatWithin DEF set
                <5> QED
                    BY <2>1, <2>4, <2>7, <5>1
            <4> QED
                BY <4>3, <4>4, <4>5, <4>6, Zenon DEF OrUpTo, out, sum
        <3> QED
            BY <3>3, <3>4
    <2> QED
        BY <2>5, <2>6, <2>7
<1>7. Nat \subseteq P
    <2>1. 0 \in P
        BY <1>5
    <2>2. ASSUME NEW k \in Nat, k \in P PROVE k + 1 \in P
        <3> SUFFICES ASSUME k + 1 <= n PROVE OrUpTo(list, sizes, k + 1)
            OBVIOUS
        <3>1. k + 1 \in 1 .. n /\ (k + 1) - 1 = k /\ OrUpTo(list, sizes, k)
            BY <1>1, <2>2
        <3> QED
            BY <1>6, <3>1
    <2> HIDE DEF P
    <2> QED
        BY <2>1, <2>2, CountingUp
<1> QED
    BY <1>1, <1>7
LEMMA AndMeans ==
    ASSUME NEW list \in Seq(AnyBranches), NEW sizes, SizesOf(list, sizes)
    PROVE  \A k \in 0 .. Len(list) : AndUpTo(list, sizes, k)
<1> DEFINE n == Len(list)
           out(k) == AndOf(Upto(list, k))
           size(k) == Multiplied(Upto(sizes, k))
           P == {k \in Nat : k <= n => AndUpTo(list, sizes, k)}
<1>1. n \in Nat /\ DOMAIN list = 1 .. n /\ Len(sizes) = n /\ sizes \in Seq(Nat)
    BY DEF SizesOf
<1>2. out(0) = <<{}>> /\ size(0) = 1
    BY <1>1, AndSteps, ProductSteps
<1>3. \A k \in 1 .. n : out(k) = AndStep(out(k - 1), list[k]) /\ size(k) = size(k - 1) * sizes[k]
    BY <1>1, AndSteps, ProductSteps
<1>4. \A k \in 0 .. n : out(k) \in AnyBranches
    <2> SUFFICES ASSUME NEW k \in 0 .. n PROVE out(k) \in AnyBranches
        OBVIOUS
    <2>1. Upto(list, k) \in Seq(AnyBranches)
        BY <1>1 DEF Upto
    <2> QED
        BY <2>1, BranchFoldTypes
<1>5. AndUpTo(list, sizes, 0)
    <2>1. <<{}>> \in ListBranches /\ <<{}>> # <<>>
        BY DEF ListBranches
    <2>2. out(0) # TooLarge /\ out(0) # <<>>
        BY <1>2, <2>1, NoListIsTooLarge
    <2> DEFINE one == <<{}>>
    <2>6. Len(one) = 1 /\ one[1] = {}
        OBVIOUS
    <2> HIDE DEF one
    <2>7. out(0) = one
        BY <1>2 DEF one
    <2> HIDE DEF out, size
    <2>3. Fits(out(0), size(0))
        <3>1. 1 <= MaxDnfBranches
            BY DnfConstants
        <3> QED
            BY <1>2, <2>6, <2>7, <3>1 DEF Fits
    <2>4. \A S : SomeWithin(out(0), S)
        <3> SUFFICES ASSUME NEW S PROVE SomeWithin(one, S)
            BY <2>7
        <3>1. 1 \in 1 .. Len(one) /\ one[1] \subseteq S
            BY <2>6
        <3> QED
            BY <3>1 DEF SomeWithin
    <2> HIDE DEF out, size
    <2>5. \A i \in 1 .. 0 : FALSE
        OBVIOUS
    <2> QED
        BY <2>2, <2>3, <2>4, <2>5 DEF AndUpTo, out, size
<1>6. ASSUME NEW k \in 1 .. n, AndUpTo(list, sizes, k - 1) PROVE AndUpTo(list, sizes, k)
    <2> DEFINE acc == out(k - 1)
               set == list[k]
    <2>1. k - 1 \in 0 .. n /\ \A i : i \in 1 .. k <=> i \in 1 .. k - 1 \/ i = k
        BY <1>1
    <2>2. acc \in AnyBranches /\ set \in AnyBranches
        BY <1>1, <1>4, <2>1
    <2>3. out(k) = AndStep(acc, set) /\ size(k) = size(k - 1) * sizes[k]
        BY <1>3
    <2>4. sizes[k] \in Nat
        BY <1>1
    <2> HIDE DEF out, size, acc, set
    <2>5. CASE acc = TooLarge
        <3>1. out(k) = TooLarge
            BY <2>3, <2>5 DEF AndStep
        <3>2. \/ \E i \in 1 .. k - 1 : list[i] = TooLarge
              \/ \E j \in 1 .. k - 1 : size(j) > MaxDnfBranches
            BY <1>6, <2>5 DEF AndUpTo, out, size, acc
        <3>3. \/ \E i \in 1 .. k : list[i] = TooLarge
              \/ \E j \in 1 .. k : size(j) > MaxDnfBranches
            BY <2>1, <3>2
        <3> QED
            BY <3>1, <3>3 DEF AndUpTo, out, size
    <2>6. CASE acc = <<>> /\ acc # TooLarge
        <3>1. out(k) = <<>> /\ out(k) # TooLarge
            BY <2>3, <2>6 DEF AndStep
        <3>2. Fits(acc, size(k - 1)) /\ \E i \in 1 .. k - 1 : list[i] = <<>>
            BY <1>6, <2>6 DEF AndUpTo, out, size, acc
        <3>3. size(k - 1) = 0
            BY <2>6, <3>2 DEF Fits
        <3>4. size(k) = 0
            BY <2>3, <2>4, <3>3
        <3>5. Fits(out(k), size(k))
            BY <3>1, <3>4, DnfConstants DEF Fits
        <3>6. \E i \in 1 .. k : list[i] = <<>>
            BY <2>1, <3>2
        <3> QED
            BY <3>1, <3>5, <3>6 DEF AndUpTo, out, size
    <2>7. CASE acc # <<>> /\ acc # TooLarge
        <3>1. /\ Fits(acc, size(k - 1))
              /\ \A i \in 1 .. k - 1 : list[i] # TooLarge
              /\ \A S : SomeWithin(acc, S) <=> \A i \in 1 .. k - 1 : SomeWithin(list[i], S)
            BY <1>6, <2>7 DEF AndUpTo, out, size, acc
        <3>2. acc \in ListBranches
            BY <2>2, <2>7 DEF AnyBranches
        <3>3. CASE set = TooLarge
            <4>1. out(k) = TooLarge
                BY <2>3, <2>7, <3>3 DEF AndStep
            <4>2. \E i \in 1 .. k : list[i] = TooLarge
                BY <2>1, <3>3 DEF set
            <4> QED
                BY <4>1, <4>2 DEF AndUpTo, out
        <3>4. CASE set # TooLarge
            <4>1. set \in ListBranches
                BY <2>2, <3>4 DEF AnyBranches
            <4>2. Len(set) = sizes[k]
                BY <1>1, <3>4 DEF SizesOf, set
            <4>3. size(k) = Len(acc) * Len(set)
                BY <2>3, <3>1, <4>2 DEF Fits
            <4>4. Len(acc) \in Nat /\ Len(set) \in Nat /\ Len(acc) * Len(set) \in Nat
                BY <3>2, <4>1 DEF ListBranches
            <4>5. CASE Len(acc) * Len(set) > MaxDnfBranches
                <5>1. out(k) = TooLarge
                    BY <2>3, <2>7, <3>4, <4>5 DEF AndStep
                <5>2. size(k) > MaxDnfBranches /\ k \in 1 .. k
                    BY <4>3, <4>5
                <5> QED
                    BY <5>1, <5>2 DEF AndUpTo, out, size
            <4>6. CASE ~ Len(acc) * Len(set) > MaxDnfBranches
                <5>1. out(k) = Products(acc, set)
                    BY <2>3, <2>7, <3>4, <4>6 DEF AndStep
                <5>2. /\ out(k) \in ListBranches /\ Len(out(k)) = Len(acc) * Len(set)
                      /\ \A S : SomeWithin(out(k), S) <=> SomeWithin(acc, S) /\ SomeWithin(set, S)
                    BY <3>2, <4>1, <5>1, ProductsFacts
                <5>3. out(k) # TooLarge
                    BY <5>2, NoListIsTooLarge
                <5>4. Fits(out(k), size(k))
                    BY <4>3, <4>4, <4>6, <5>2, DnfConstants DEF Fits
                <5>5. CASE out(k) = <<>>
                    <6>1. Len(acc) # 0
                        BY <2>7, <3>2 DEF ListBranches
                    <6>2. Len(acc) * Len(set) = 0
                        BY <5>2, <5>5
                    <6>3. Len(set) = 0
                        BY <4>4, <6>1, <6>2
                    <6>4. set = <<>>
                        BY <4>1, <6>3 DEF ListBranches
                    <6>5. \E i \in 1 .. k : list[i] = <<>>
                        BY <2>1, <6>4 DEF set
                    <6> QED
                        BY <5>3, <5>4, <5>5, <6>5 DEF AndUpTo, out, size
                <5>6. CASE out(k) # <<>>
                    <6>1. \A i \in 1 .. k : list[i] # TooLarge
                        BY <2>1, <3>1, <3>4 DEF set
                    <6>2. \A S : SomeWithin(out(k), S) <=> \A i \in 1 .. k : SomeWithin(list[i], S)
                        <7> SUFFICES ASSUME NEW S
                                     PROVE  SomeWithin(out(k), S)
                                               <=> \A i \in 1 .. k : SomeWithin(list[i], S)
                            OBVIOUS
                        <7>1. SomeWithin(out(k), S) <=> SomeWithin(acc, S) /\ SomeWithin(list[k], S)
                            BY <5>2 DEF set
                        <7> QED
                            BY <2>1, <3>1, <7>1
                    <6> QED
                        BY <5>3, <5>4, <5>6, <6>1, <6>2, Zenon DEF AndUpTo, out, size
                <5> QED
                    BY <5>5, <5>6
            <4> QED
                BY <4>5, <4>6
        <3> QED
            BY <3>3, <3>4
    <2> QED
        BY <2>5, <2>6, <2>7
<1>7. Nat \subseteq P
    <2>1. 0 \in P
        BY <1>5
    <2>2. ASSUME NEW k \in Nat, k \in P PROVE k + 1 \in P
        <3> SUFFICES ASSUME k + 1 <= n PROVE AndUpTo(list, sizes, k + 1)
            OBVIOUS
        <3>1. k + 1 \in 1 .. n /\ (k + 1) - 1 = k /\ AndUpTo(list, sizes, k)
            BY <1>1, <2>2
        <3> QED
            BY <1>6, <3>1
    <2> HIDE DEF P
    <2> QED
        BY <2>1, <2>2, CountingUp
<1> QED
    BY <1>1, <1>7
(* Every expression is expanded into branches that say the same, or given  *)
(* up at some part of it.                                                  *)
GivenUp(e) ==
    \E part \in Subexpressions(e) :
        /\ part.kind # "leaf"
        /\ \E k \in 0 .. Len(part.parts) : Expansion(FirstChildren(part, k)) > MaxDnfBranches

ExpandsWell(e) ==
    IF DnfCollect(e) = TooLarge THEN GivenUp(e)
    ELSE /\ Fits(DnfCollect(e), Expansion(e))
         /\ \A S : SomeWithin(DnfCollect(e), S) <=> IsSatisfiedBy(e, S)

LEMMA PartsExpand ==
    ASSUME NEW x \in CompletionExprs, x.kind # "leaf",
           \A i \in DOMAIN x.parts : ExpandsWell(x.parts[i])
    PROVE  /\ Collected(x.parts) \in Seq(AnyBranches)
           /\ Len(Collected(x.parts)) = Len(x.parts)
           /\ SizesOf(Collected(x.parts), Sizes(x.parts))
           /\ Upto(Collected(x.parts), Len(x.parts)) = Collected(x.parts)
           /\ Upto(Sizes(x.parts), Len(x.parts)) = Sizes(x.parts)
           /\ \A k \in 1 .. Len(x.parts) :
                 /\ FirstChildren(x, k) \in CompletionExprs
                 /\ Sizes(FirstChildren(x, k).parts) = Upto(Sizes(x.parts), k)
           /\ (\E i \in 1 .. Len(x.parts) : Collected(x.parts)[i] = TooLarge) => GivenUp(x)
<1> DEFINE list == Collected(x.parts)
           sizes == Sizes(x.parts)
           n == Len(x.parts)
<1>1. list \in Seq(AnyBranches) /\ sizes \in Seq(Nat)
    BY DnfCollectIs, ExpansionIs
<1>2. x.parts \in Seq(CompletionExprs) /\ n \in Nat /\ DOMAIN x.parts = 1 .. n
    BY CompletionCases
<1>3. /\ Len(list) = n /\ Len(sizes) = n
      /\ \A i \in 1 .. n : list[i] = DnfCollect(x.parts[i]) /\ sizes[i] = Expansion(x.parts[i])
    BY <1>2 DEF Collected, Sizes
<1>4. SizesOf(list, sizes)
    <2> HIDE DEF list, sizes, n
    <2>1. ASSUME NEW i \in DOMAIN list, list[i] # TooLarge PROVE Len(list[i]) = sizes[i]
        <3>1. i \in 1 .. n /\ i \in DOMAIN x.parts
            BY <1>1, <1>2, <1>3
        <3>2. Fits(DnfCollect(x.parts[i]), Expansion(x.parts[i]))
            BY <1>3, <2>1, <3>1 DEF ExpandsWell
        <3> QED
            BY <1>3, <3>1, <3>2 DEF Fits
    <2> QED
        BY <1>1, <1>3, <2>1 DEF SizesOf
<1>5. Upto(list, n) = list /\ Upto(sizes, n) = sizes
    BY <1>1, <1>3 DEF Upto
<1>6. ASSUME NEW k \in 1 .. n
      PROVE  /\ FirstChildren(x, k) \in CompletionExprs
             /\ Sizes(FirstChildren(x, k).parts) = Upto(sizes, k)
    <2>1. FirstChildren(x, k) \in CompletionExprs
        BY <1>2, CompletionCases
    <2>2. FirstChildren(x, k).parts = [i \in 1 .. k |-> x.parts[i]]
        BY DEF FirstChildren
    <2>3. DOMAIN FirstChildren(x, k).parts = 1 .. k
          /\ \A i \in 1 .. k : FirstChildren(x, k).parts[i] = x.parts[i]
        BY <2>2
    <2>4. Sizes(FirstChildren(x, k).parts) = [i \in 1 .. k |-> Expansion(FirstChildren(x, k).parts[i])]
        BY <2>3 DEF Sizes
    <2>5. \A i \in 1 .. k : i \in 1 .. n /\ Expansion(FirstChildren(x, k).parts[i]) = sizes[i]
        BY <1>2, <1>3, <2>3
    <2> HIDE DEF sizes
    <2> QED
        BY <2>1, <2>4, <2>5 DEF Upto
<1>7. ASSUME NEW i \in 1 .. n, list[i] = TooLarge
      PROVE  GivenUp(x)
    <2>1. GivenUp(x.parts[i])
        BY <1>2, <1>3, <1>7 DEF ExpandsWell
    <2>2. Subexpressions(x.parts[i]) \subseteq Subexpressions(x)
        BY <1>2, SubexpressionsAre
    <2> QED
        BY <2>1, <2>2 DEF GivenUp
<1> QED
    BY <1>1, <1>3, <1>4, <1>5, <1>6, <1>7

LEMMA ExpressionsExpand ==
    \A x \in CompletionExprs : ExpandsWell(x)
<1> DEFINE P == {x \in CompletionExprs : ExpandsWell(x)}
<1>1. CompletionLeaves \subseteq P
    <2>1. CompletionLeaves \subseteq CompletionExprs
        BY CompletionShapes DEF DepthOf
    <2>2. ASSUME NEW x \in CompletionLeaves PROVE ExpandsWell(x)
        <3>1. x \in CompletionExprs /\ x.kind = "leaf" /\ x.task \in Nat
            BY <2>1 DEF CompletionLeaves
        <3>2. DnfCollect(x) = <<{x.task}>> /\ Expansion(x) = 1
            BY <3>1, DnfCollectIs, ExpansionIs
        <3>3. DnfCollect(x) \in ListBranches
            BY <3>1, <3>2 DEF ListBranches
        <3>4. DnfCollect(x) # TooLarge
            BY <3>3, NoListIsTooLarge
        <3>5. Fits(DnfCollect(x), Expansion(x))
            <4>1. 1 <= MaxDnfBranches
                BY DnfConstants
            <4> QED
                BY <3>2, <4>1 DEF Fits
        <3>6. ASSUME NEW S PROVE SomeWithin(DnfCollect(x), S) <=> IsSatisfiedBy(x, S)
            <4>1. IsSatisfiedBy(x, S) <=> x.task \in S
                BY <3>1, SatisfiedIs
            <4>2. SomeWithin(DnfCollect(x), S) <=> {x.task} \subseteq S
                BY <3>2 DEF SomeWithin
            <4> QED
                BY <4>1, <4>2
        <3> QED
            BY <3>4, <3>5, <3>6, Zenon DEF ExpandsWell
    <2> QED
        BY <2>1, <2>2
<1>2. ASSUME NEW x \in CompletionExprs, x.kind \in {"and", "or"},
             \A i \in DOMAIN x.parts : ExpandsWell(x.parts[i])
      PROVE  ExpandsWell(x)
    <2> DEFINE list == Collected(x.parts)
               sizes == Sizes(x.parts)
               n == Len(x.parts)
    <2>0. x.kind # "leaf"
        BY <1>2
    <2>1. /\ list \in Seq(AnyBranches) /\ Len(list) = n /\ SizesOf(list, sizes)
          /\ Upto(list, n) = list /\ Upto(sizes, n) = sizes
        BY <1>2, <2>0, PartsExpand
    <2>2. \A k \in 1 .. n : /\ FirstChildren(x, k) \in CompletionExprs
                            /\ Sizes(FirstChildren(x, k).parts) = Upto(sizes, k)
        BY <1>2, <2>0, PartsExpand
    <2>3. (\E i \in 1 .. n : list[i] = TooLarge) => GivenUp(x)
        BY <1>2, <2>0, PartsExpand
    <2>4. n \in Nat /\ n \in 0 .. n /\ DOMAIN x.parts = 1 .. n
        BY <2>0, CompletionCases
    <2>5. \A i \in 1 .. n : list[i] = DnfCollect(x.parts[i])
        BY <2>4 DEF Collected
    <2> HIDE DEF list, sizes, n
    <2>6. x \in Subexpressions(x) /\ 1 .. n \subseteq 0 .. n
        BY <2>4, SubexpressionsAre
    <2>7. ASSUME NEW k \in 1 .. n, Expansion(FirstChildren(x, k)) > MaxDnfBranches
          PROVE  GivenUp(x)
        BY <2>0, <2>6, <2>7 DEF GivenUp, n
    <2>8. ASSUME NEW S, NEW i \in 1 .. n, list[i] # TooLarge
          PROVE  SomeWithin(list[i], S) <=> IsSatisfiedBy(x.parts[i], S)
        BY <1>2, <2>4, <2>5, <2>8 DEF ExpandsWell
    <2>9. CASE x.kind = "or"
        <3>1. DnfCollect(x) = OrOf(list) /\ Expansion(x) = SumUp(sizes)
            BY <2>9, DnfCollectIs, ExpansionIs DEF list, sizes
        <3>2. OrUpTo(list, sizes, n)
            BY <2>1, <2>4, OrMeans
        <3>3. CASE OrOf(list) = TooLarge
            <4>1. ASSUME NEW k \in 1 .. n, SumUp(Upto(sizes, k)) > MaxDnfBranches
                  PROVE  GivenUp(x)
                <5>1. FirstChildren(x, k).kind = "or"
                    BY <2>9 DEF FirstChildren
                <5>2. Expansion(FirstChildren(x, k)) = SumUp(Upto(sizes, k))
                    BY <2>2, <5>1, ExpansionIs
                <5> QED
                    BY <2>7, <4>1, <5>2
            <4>2. \/ \E i \in 1 .. n : list[i] = TooLarge
                  \/ \E k \in 1 .. n : SumUp(Upto(sizes, k)) > MaxDnfBranches
                BY <2>1, <3>2, <3>3 DEF OrUpTo
            <4> QED
                BY <2>3, <3>1, <3>3, <4>1, <4>2 DEF ExpandsWell
        <3>4. CASE OrOf(list) # TooLarge
            <4>1. /\ Fits(OrOf(list), SumUp(sizes))
                  /\ \A i \in 1 .. n : list[i] # TooLarge
                  /\ \A S : SomeWithin(OrOf(list), S) <=> \E i \in 1 .. n : SomeWithin(list[i], S)
                BY <2>1, <3>2, <3>4 DEF OrUpTo
            <4>2. ASSUME NEW S PROVE SomeWithin(OrOf(list), S) <=> IsSatisfiedBy(x, S)
                <5>1. IsSatisfiedBy(x, S) <=> \E i \in 1 .. n : IsSatisfiedBy(x.parts[i], S)
                    BY <2>4, <2>9, SatisfiedIs
                <5> QED
                    BY <2>8, <4>1, <5>1
            <4> QED
                BY <3>1, <3>4, <4>1, <4>2, Zenon DEF ExpandsWell
        <3> QED
            BY <3>3, <3>4
    <2>10. CASE x.kind = "and"
        <3>1. DnfCollect(x) = AndOf(list) /\ Expansion(x) = Multiplied(sizes)
            BY <2>10, DnfCollectIs, ExpansionIs DEF list, sizes
        <3>2. AndUpTo(list, sizes, n)
            BY <2>1, <2>4, AndMeans
        <3>3. CASE AndOf(list) = TooLarge
            <4>1. ASSUME NEW k \in 1 .. n, Multiplied(Upto(sizes, k)) > MaxDnfBranches
                  PROVE  GivenUp(x)
                <5>1. FirstChildren(x, k).kind = "and"
                    BY <2>10 DEF FirstChildren
                <5>2. Expansion(FirstChildren(x, k)) = Multiplied(Upto(sizes, k))
                    BY <2>2, <5>1, ExpansionIs
                <5> QED
                    BY <2>7, <4>1, <5>2
            <4>2. \/ \E i \in 1 .. n : list[i] = TooLarge
                  \/ \E k \in 1 .. n : Multiplied(Upto(sizes, k)) > MaxDnfBranches
                BY <2>1, <3>2, <3>3 DEF AndUpTo
            <4> QED
                BY <2>3, <3>1, <3>3, <4>1, <4>2 DEF ExpandsWell
        <3>4. CASE AndOf(list) # TooLarge
            <4>1. /\ Fits(AndOf(list), Multiplied(sizes))
                  /\ AndOf(list) = <<>> => \E i \in 1 .. n : list[i] = <<>>
                  /\ AndOf(list) # <<>> =>
                        /\ \A i \in 1 .. n : list[i] # TooLarge
                        /\ \A S : SomeWithin(AndOf(list), S) <=> \A i \in 1 .. n : SomeWithin(list[i], S)
                BY <2>1, <3>2, <3>4 DEF AndUpTo
            <4>2. ASSUME NEW S PROVE SomeWithin(AndOf(list), S) <=> IsSatisfiedBy(x, S)
                <5>1. IsSatisfiedBy(x, S) <=> \A i \in 1 .. n : IsSatisfiedBy(x.parts[i], S)
                    BY <2>4, <2>10, SatisfiedIs
                <5>2. CASE AndOf(list) = <<>>
                    <6>1. PICK i \in 1 .. n : list[i] = <<>>
                        BY <4>1, <5>2
                    <6>2. list[i] # TooLarge
                        BY <3>4, <5>2, <6>1
                    <6>3. ~ SomeWithin(<<>>, S)
                        BY DEF SomeWithin
                    <6> QED
                        BY <2>8, <5>1, <5>2, <6>1, <6>2, <6>3
                <5>3. CASE AndOf(list) # <<>>
                    BY <2>8, <4>1, <5>1, <5>3
                <5> QED
                    BY <5>2, <5>3
            <4> QED
                BY <3>1, <3>4, <4>1, <4>2, Zenon DEF ExpandsWell
        <3> QED
            BY <3>3, <3>4
    <2> QED
        BY <1>2, <2>9, <2>10
<1>3. \A x \in CompletionExprs :
         x.kind \in {"and", "or"} /\ x.parts \in Seq(CompletionExprs)
            /\ (\A i \in DOMAIN x.parts : x.parts[i] \in P) => x \in P
    BY <1>2
<1> HIDE DEF P
<1>4. CompletionExprs \subseteq P
    BY <1>1, <1>3, CompletionInduction
<1> QED
    BY <1>4 DEF P

(* Whoever works with the branches of a completion expression gets what    *)
(* the expression says, or is told that there are too many, for every      *)
(* expression of any depth and any limit of the branches.                  *)
THEOREM BranchesAlwaysMeanTheExpression ==
    ASSUME About("completion") => sample.expression \in CompletionExprs \cup {NoExpression}
    PROVE  BranchesMeanTheExpression
<1> DEFINE e == sample.expression
           tasks == sample.tasks
           branches == CompletionBranches(e, tasks)
<1>1. ASSUME About("completion"), branches # TooLarge, NEW S
      PROVE  IsComplete(e, tasks, S) <=> \E branch \in branches : branch \subseteq S
    <2>1. CASE e = NoExpression
        BY <2>1 DEF IsComplete, CompletionBranches
    <2>2. CASE e # NoExpression
        <3>1. e \in CompletionExprs /\ branches = DnfBranches(e)
            BY <1>1, <2>2 DEF CompletionBranches
        <3>2. DnfCollect(e) # TooLarge /\ branches = ToSet(DnfCollect(e))
            BY <1>1, <3>1 DEF DnfBranches
        <3>3. DnfCollect(e) \in ListBranches
            BY <3>1, <3>2, DnfCollectIs DEF AnyBranches
        <3>4. SomeWithin(DnfCollect(e), S) <=> IsSatisfiedBy(e, S)
            BY <3>1, <3>2, ExpressionsExpand DEF ExpandsWell
        <3>5. SomeWithin(DnfCollect(e), S) <=> \E branch \in branches : branch \subseteq S
            <4> DEFINE list == DnfCollect(e)
            <4>1. DOMAIN list = 1 .. Len(list)
                BY <3>3 DEF ListBranches
            <4>2. branches = {list[i] : i \in DOMAIN list}
                BY <3>2 DEF ToSet
            <4> HIDE DEF list, branches
            <4>3. SomeWithin(list, S) <=> \E branch \in branches : branch \subseteq S
                BY <4>1, <4>2 DEF SomeWithin
            <4> QED
                BY <4>3 DEF list
        <3> QED
            BY <2>2, <3>4, <3>5 DEF IsComplete
    <2> QED
        BY <2>1, <2>2
<1>2. DnfMeansTheSame
    BY <1>1 DEF DnfMeansTheSame
<1>3. ExpansionIsBounded
    <2> SUFFICES ASSUME About("completion"), e # NoExpression
                 PROVE  IF DnfCollect(e) = TooLarge THEN GivenUp(e)
                        ELSE Len(DnfCollect(e)) <= MaxDnfBranches
        BY DEF ExpansionIsBounded, GivenUp
    <2>1. ExpandsWell(e)
        BY ExpressionsExpand
    <2> QED
        BY <2>1 DEF ExpandsWell, Fits
<1>4. CountedBlocksCanComplete
    <2> SUFFICES ASSUME About("completion"), NEW withWindow \in SUBSET ToSet(tasks)
                 PROVE  /\ CountsAsSchedulable(e, tasks, withWindow) =>
                             \/ IsComplete(e, tasks, withWindow)
                             \/ ~ IsComplete(e, tasks, ToSet(tasks))
                        /\ IsComplete(e, tasks, withWindow) =>
                             \/ CountsAsSchedulable(e, tasks, withWindow)
                             \/ branches = TooLarge
        BY DEF CountedBlocksCanComplete
    <2> HIDE DEF e, tasks
    <2>1. CASE branches = TooLarge
        BY <2>1 DEF CountsAsSchedulable
    <2>2. CASE branches # TooLarge
        <3>1. IsComplete(e, tasks, withWindow) <=> \E branch \in branches : branch \subseteq withWindow
            BY <1>1, <2>2
        <3>2. CASE branches = {}
            <4>1. ~ IsComplete(e, tasks, withWindow)
                BY <3>1, <3>2
            <4>2. CountsAsSchedulable(e, tasks, withWindow) => withWindow = ToSet(tasks)
                BY <3>2 DEF CountsAsSchedulable
            <4> QED
                BY <4>1, <4>2
        <3>3. CASE branches # {}
            BY <2>2, <3>1, <3>3 DEF CountsAsSchedulable
        <3> QED
            BY <3>2, <3>3
    <2> QED
        BY <2>1, <2>2
<1> QED
    BY <1>2, <1>3, <1>4 DEF BranchesMeanTheExpression
-----------------------------------------------------------------------------
(* Hard constraints *)

HardLeaves == [kind : {"atom", "midpoint"}, allowed : SUBSET Int] \cup {Failing}
HardKinds == {"union", "intersection"}

LEMMA HardShapes ==
    \E depth : DepthOf(HardLeaves, HardKinds, HardExprs, depth)
BY TreesHaveDepth DEF HardExprs, HardLeaves, HardKinds

LEMMA HardCases ==
    ASSUME NEW x \in HardExprs
    PROVE  \/ x \in HardLeaves /\ x.kind \in {"atom", "midpoint"} /\ x.allowed \in SUBSET Int
           \/ x \in HardLeaves /\ x.kind = "failing"
           \/ /\ x \notin HardLeaves /\ x.kind \in {"union", "intersection"}
              /\ x.parts \in Seq(HardExprs)
<1>1. PICK depth : DepthOf(HardLeaves, HardKinds, HardExprs, depth)
    BY HardShapes
<1>2. CASE x \in HardLeaves
    <2>1. CASE x = Failing
        BY <1>2, <2>1 DEF Failing
    <2>2. CASE x \in [kind : {"atom", "midpoint"}, allowed : SUBSET Int]
        BY <1>2, <2>2
    <2> QED
        BY <1>2, <2>1, <2>2 DEF HardLeaves
<1>3. CASE x \notin HardLeaves
    <2>1. x \in NodesOver(HardKinds, HardExprs)
        BY <1>1, <1>3 DEF DepthOf
    <2> QED
        BY <1>3, <2>1 DEF NodesOver, HardKinds
<1> QED
    BY <1>2, <1>3

LEMMA HardInduction ==
    ASSUME NEW P, HardLeaves \subseteq P,
           \A x \in HardExprs :
              x.kind \in {"union", "intersection"} /\ x.parts \in Seq(HardExprs)
                 /\ (\A i \in DOMAIN x.parts : x.parts[i] \in P) => x \in P
    PROVE  HardExprs \subseteq P
<1>1. PICK depth : DepthOf(HardLeaves, HardKinds, HardExprs, depth)
    BY HardShapes
<1>2. Inherited(HardKinds, HardExprs, P)
    <2> SUFFICES ASSUME NEW x \in HardExprs, x \in NodesOver(HardKinds, HardExprs),
                        \A i \in DOMAIN x.parts : x.parts[i] \in P
                 PROVE  x \in P
        BY DEF Inherited
    <2>1. x.kind \in {"union", "intersection"} /\ x.parts \in Seq(HardExprs)
        BY DEF NodesOver, HardKinds
    <2> QED
        BY <2>1
<1> QED
    BY <1>1, <1>2, TreeInduction

LEMMA HardFunction ==
    ASSUME NEW G, NEW base \in G, NEW F \in [HardExprs \X [HardExprs -> G] -> G],
           LooksAtParts(HardLeaves, HardExprs, G, F)
    PROVE  \E f \in [HardExprs -> G] : Solves(HardExprs, F, f)
<1>1. PICK depth : DepthOf(HardLeaves, HardKinds, HardExprs, depth)
    BY HardShapes
<1> QED
    BY <1>1, TreeFunctionExists

NormalSets == {set \in Seq(Period) : IsNormal(set)}
AnySet == NormalSets \cup {Failed}

LEMMA NoSetIsFailed ==
    /\ Failed \notin NormalSets /\ Failed # <<>>
    /\ <<>> \in NormalSets
    /\ \A t : ~ Covers(<<>>, t)
    /\ \A set \in NormalSets : set # <<>> => \E t \in Int : Covers(set, t)
<1>1. Failed \notin NormalSets
    BY FailedIsNoSet DEF NormalSets, Period
<1>2. <<>> \in NormalSets
    BY DEF NormalSets, IsNormal
<1>3. \A t : ~ Covers(<<>>, t)
    BY DEF Covers
<1>4. ASSUME NEW set \in NormalSets, set # <<>> PROVE \E t \in Int : Covers(set, t)
    <2>1. 1 \in DOMAIN set /\ set[1] \in Period
        BY <1>4 DEF NormalSets
    <2>2. set[1].start \in Int /\ set[1].start < set[1].end
        BY <2>1, PeriodFacts
    <2> QED
        BY <2>1, <2>2 DEF Covers
<1> QED
    BY <1>1, <1>2, <1>3, <1>4

LEMMA OnePeriod ==
    ASSUME NEW p \in Period
    PROVE  <<p>> \in NormalSets /\ \A t \in Int : Covers(<<p>>, t) <=> t \in Ticks(p)
<1>1. p.start \in Int /\ p.end \in Int
    BY PeriodFacts
<1>2. <<p>> \in Seq(Period) /\ DOMAIN <<p>> = {1} /\ <<p>>[1] = p
    OBVIOUS
<1>3. IsNormal(<<p>>)
    BY <1>2 DEF IsNormal
<1>4. ASSUME NEW t \in Int PROVE Covers(<<p>>, t) <=> t \in Ticks(p)
    <2>1. Covers(<<p>>, t) <=> p.start <= t /\ t < p.end
        BY <1>2 DEF Covers
    <2> QED
        BY <1>1, <2>1 DEF Ticks
<1> QED
    BY <1>2, <1>3, <1>4 DEF NormalSets

UnionAll(list) == FoldLeft(UnionStep, <<>>, list)
MeetAll(first, list) == FoldLeft(IntersectionStep, FirstChild(first), list)
MeetStates == {s \in [set : AnySet, over : BOOLEAN] : s.set = Failed => s.over}

LEMMA SetStepTypes ==
    ASSUME NEW set \in AnySet
    PROVE  /\ \A acc \in AnySet : UnionStep(acc, set) \in AnySet
           /\ \A acc \in MeetStates : IntersectionStep(acc, set) \in MeetStates
           /\ FirstChild(set) \in MeetStates
<1>1. \A left, right \in NormalSets :
         UnionOf(left, right) \in NormalSets /\ IntersectionOf(left, right) \in NormalSets
    BY UnionFacts, IntersectionFacts DEF NormalSets
<1>2. ASSUME NEW acc \in AnySet PROVE UnionStep(acc, set) \in AnySet
    <2>1. acc # Failed /\ set # Failed => UnionOf(acc, set) \in AnySet
        BY <1>1 DEF AnySet
    <2> QED
        BY <2>1, Zenon DEF UnionStep, AnySet
<1>3. ASSUME NEW acc \in MeetStates PROVE IntersectionStep(acc, set) \in MeetStates
    <2>1. acc.set \in AnySet /\ acc.over \in BOOLEAN /\ (acc.set = Failed => acc.over)
        BY DEF MeetStates
    <2>2. CASE acc.over
        BY <2>2 DEF IntersectionStep
    <2>3. CASE ~ acc.over /\ set = Failed
        <3>1. IntersectionStep(acc, set) = [set |-> Failed, over |-> TRUE]
            BY <2>3 DEF IntersectionStep
        <3> QED
            BY <3>1 DEF MeetStates, AnySet
    <2>4. CASE ~ acc.over /\ set # Failed
        <3> DEFINE met == IntersectionOf(acc.set, set)
        <3>1. met \in NormalSets
            BY <1>1, <2>1, <2>4 DEF AnySet
        <3>2. IntersectionStep(acc, set) = [set |-> met, over |-> met = <<>>]
            BY <2>4 DEF IntersectionStep
        <3> HIDE DEF met
        <3>3. met \in AnySet /\ met # Failed /\ (met = <<>>) \in BOOLEAN
            BY <3>1, NoSetIsFailed DEF AnySet
        <3> QED
            BY <3>2, <3>3 DEF MeetStates
    <2> QED
        BY <2>1, <2>2, <2>3, <2>4
<1>4. FirstChild(set) \in MeetStates
    BY DEF FirstChild, MeetStates
<1> QED
    BY <1>2, <1>3, <1>4

(* Uniting the sets of a list one by one.                                  *)
LEMMA UnionFold ==
    ASSUME NEW list \in Seq(AnySet)
    PROVE  \E h \in [0 .. Len(list) -> AnySet] :
              /\ h[0] = <<>>
              /\ \A k \in 1 .. Len(list) : h[k] = UnionStep(h[k - 1], list[k])
              /\ UnionAll(list) = h[Len(list)]
<1> DEFINE n == Len(list)
           G == AnySet
           step == [ky \in (1 .. n) \X G |-> UnionStep(ky[2], list[ky[1]])]
           IsFold(it) == it = [s \in SUBSET (1 .. n) |->
                                  IF s = {} THEN <<>> ELSE UnionStep(it[s \ {Max(s)}], list[Max(s)])]
           iter == CHOOSE it : IsFold(it)
<1>1. n \in Nat /\ DOMAIN list = 1 .. n /\ \A k \in 1 .. n : list[k] \in AnySet
    OBVIOUS
<1>2. <<>> \in G
    BY NoSetIsFailed DEF AnySet
<1>3. \A k \in 1 .. n : \A y \in G : UnionStep(y, list[k]) \in G
    BY <1>1, SetStepTypes
<1>4. step \in [(1 .. n) \X G -> G]
    <2> HIDE DEF n, G
    <2> SUFFICES ASSUME NEW ky \in (1 .. n) \X G PROVE step[ky] \in G
        OBVIOUS
    <2>1. step[ky] = UnionStep(ky[2], list[ky[1]]) /\ ky[1] \in 1 .. n /\ ky[2] \in G
        OBVIOUS
    <2> QED
        BY <1>3, <2>1
<1>5. \E it : IsFold(it)
    <2> HIDE DEF G, n
    <2>1. PICK g \in [SUBSET (1 .. n) -> G] : FoldsTo(n, <<>>, step, g)
        <3> HIDE DEF step
        <3> QED
            BY <1>1, <1>2, <1>4, ListFoldExists
    <2>2. ASSUME NEW s \in SUBSET (1 .. n), s # {}
          PROVE  step[<<Max(s), g[s \ {Max(s)}]>>] = UnionStep(g[s \ {Max(s)}], list[Max(s)])
        <3>1. Max(s) \in 1 .. n /\ g[s \ {Max(s)}] \in G
            BY <1>1, <2>2, MaxPicks
        <3> QED
            BY <3>1
    <2>3. IsFold(g)
        <3>1. \A s \in SUBSET (1 .. n) :
                 g[s] = IF s = {} THEN <<>> ELSE step[<<Max(s), g[s \ {Max(s)}]>>]
            BY <2>1 DEF FoldsTo
        <3> HIDE DEF step
        <3>2. \A s \in SUBSET (1 .. n) : g[s] = IF s = {} THEN <<>> ELSE UnionStep(g[s \ {Max(s)}], list[Max(s)])
            BY <2>2, <3>1
        <3> QED
            BY <3>2
    <2> HIDE DEF IsFold
    <2> QED
        BY <2>3
<1>6. IsFold(iter)
    <2> HIDE DEF IsFold
    <2> QED
        BY <1>5
<1>7. UnionAll(list) = iter[1 .. n]
    BY <1>1 DEF UnionAll, FoldLeft, MapThenFoldSet
<1> HIDE DEF iter
<1>8. iter[{}] = <<>>
    <2>1. {} \in SUBSET (1 .. n)
        OBVIOUS
    <2> QED
        BY <1>6, <2>1, Zenon
<1>9. \A k \in 1 .. n : iter[1 .. k] = UnionStep(iter[1 .. k - 1], list[k])
    <2> SUFFICES ASSUME NEW k \in 1 .. n PROVE iter[1 .. k] = UnionStep(iter[1 .. k - 1], list[k])
        OBVIOUS
    <2>1. 1 .. k \in SUBSET (1 .. n) /\ 1 .. k # {} /\ Max(1 .. k) = k /\ (1 .. k) \ {k} = 1 .. k - 1
        BY <1>1, MaxPicks
    <2>2. iter[1 .. k] = UnionStep(iter[(1 .. k) \ {Max(1 .. k)}], list[Max(1 .. k)])
        BY <1>6, <2>1, Zenon
    <2> QED
        BY <2>1, <2>2
<1> HIDE DEF IsFold, G, n
<1>10. \A k \in 1 .. n : \A y \in G : step[<<k, y>>] = UnionStep(y, list[k])
    BY DEF step
<1> HIDE DEF step
<1>11. PICK h \in [0 .. n -> G] : ValuesOf(n, <<>>, step, iter, h)
    <2>1. Steps(n, G, step, iter)
        BY <1>9, <1>10 DEF Steps
    <2> QED
        BY <1>1, <1>2, <1>4, <1>8, <2>1, FoldSteps
<1>12. \A k \in 1 .. n : h[k] = UnionStep(h[k - 1], list[k])
    <2> SUFFICES ASSUME NEW k \in 1 .. n PROVE h[k] = UnionStep(h[k - 1], list[k])
        OBVIOUS
    <2>1. k - 1 \in 0 .. n
        BY <1>1
    <2> QED
        BY <1>10, <1>11, <2>1 DEF ValuesOf
<1>13. UnionAll(list) = h[n]
    BY <1>7, <1>11, Zenon DEF ValuesOf
<1>14. h[0] = <<>>
    BY <1>11, Zenon DEF ValuesOf
<1> QED
    BY <1>11, <1>12, <1>13, <1>14, Zenon DEF G, n

(* Meeting a set with those of a list one by one.                          *)
LEMMA MeetFold ==
    ASSUME NEW first \in AnySet, NEW list \in Seq(AnySet)
    PROVE  \E h \in [0 .. Len(list) -> MeetStates] :
              /\ h[0] = FirstChild(first)
              /\ \A k \in 1 .. Len(list) : h[k] = IntersectionStep(h[k - 1], list[k])
              /\ MeetAll(first, list) = h[Len(list)]
<1> DEFINE n == Len(list)
           G == MeetStates
           step == [ky \in (1 .. n) \X G |-> IntersectionStep(ky[2], list[ky[1]])]
           IsFold(it) == it = [s \in SUBSET (1 .. n) |->
                                  IF s = {} THEN FirstChild(first) ELSE IntersectionStep(it[s \ {Max(s)}], list[Max(s)])]
           iter == CHOOSE it : IsFold(it)
<1>1. n \in Nat /\ DOMAIN list = 1 .. n /\ \A k \in 1 .. n : list[k] \in AnySet
    OBVIOUS
<1>2. FirstChild(first) \in G
    BY SetStepTypes
<1>3. \A k \in 1 .. n : \A y \in G : IntersectionStep(y, list[k]) \in G
    BY <1>1, SetStepTypes
<1>4. step \in [(1 .. n) \X G -> G]
    <2> HIDE DEF n, G
    <2> SUFFICES ASSUME NEW ky \in (1 .. n) \X G PROVE step[ky] \in G
        OBVIOUS
    <2>1. step[ky] = IntersectionStep(ky[2], list[ky[1]]) /\ ky[1] \in 1 .. n /\ ky[2] \in G
        OBVIOUS
    <2> QED
        BY <1>3, <2>1
<1>5. \E it : IsFold(it)
    <2> HIDE DEF G, n
    <2>1. PICK g \in [SUBSET (1 .. n) -> G] : FoldsTo(n, FirstChild(first), step, g)
        <3> HIDE DEF step
        <3> QED
            BY <1>1, <1>2, <1>4, ListFoldExists
    <2>2. ASSUME NEW s \in SUBSET (1 .. n), s # {}
          PROVE  step[<<Max(s), g[s \ {Max(s)}]>>] = IntersectionStep(g[s \ {Max(s)}], list[Max(s)])
        <3>1. Max(s) \in 1 .. n /\ g[s \ {Max(s)}] \in G
            BY <1>1, <2>2, MaxPicks
        <3> QED
            BY <3>1
    <2>3. IsFold(g)
        <3>1. \A s \in SUBSET (1 .. n) :
                 g[s] = IF s = {} THEN FirstChild(first) ELSE step[<<Max(s), g[s \ {Max(s)}]>>]
            BY <2>1 DEF FoldsTo
        <3> HIDE DEF step
        <3>2. \A s \in SUBSET (1 .. n) : g[s] = IF s = {} THEN FirstChild(first) ELSE IntersectionStep(g[s \ {Max(s)}], list[Max(s)])
            BY <2>2, <3>1
        <3> QED
            BY <3>2
    <2> HIDE DEF IsFold
    <2> QED
        BY <2>3
<1>6. IsFold(iter)
    <2> HIDE DEF IsFold
    <2> QED
        BY <1>5
<1>7. MeetAll(first, list) = iter[1 .. n]
    BY <1>1 DEF MeetAll, FoldLeft, MapThenFoldSet
<1> HIDE DEF iter
<1>8. iter[{}] = FirstChild(first)
    <2>1. {} \in SUBSET (1 .. n)
        OBVIOUS
    <2> QED
        BY <1>6, <2>1, Zenon
<1>9. \A k \in 1 .. n : iter[1 .. k] = IntersectionStep(iter[1 .. k - 1], list[k])
    <2> SUFFICES ASSUME NEW k \in 1 .. n PROVE iter[1 .. k] = IntersectionStep(iter[1 .. k - 1], list[k])
        OBVIOUS
    <2>1. 1 .. k \in SUBSET (1 .. n) /\ 1 .. k # {} /\ Max(1 .. k) = k /\ (1 .. k) \ {k} = 1 .. k - 1
        BY <1>1, MaxPicks
    <2>2. iter[1 .. k] = IntersectionStep(iter[(1 .. k) \ {Max(1 .. k)}], list[Max(1 .. k)])
        BY <1>6, <2>1, Zenon
    <2> QED
        BY <2>1, <2>2
<1> HIDE DEF IsFold, G, n
<1>10. \A k \in 1 .. n : \A y \in G : step[<<k, y>>] = IntersectionStep(y, list[k])
    BY DEF step
<1> HIDE DEF step
<1>11. PICK h \in [0 .. n -> G] : ValuesOf(n, FirstChild(first), step, iter, h)
    <2>1. Steps(n, G, step, iter)
        BY <1>9, <1>10 DEF Steps
    <2> QED
        BY <1>1, <1>2, <1>4, <1>8, <2>1, FoldSteps
<1>12. \A k \in 1 .. n : h[k] = IntersectionStep(h[k - 1], list[k])
    <2> SUFFICES ASSUME NEW k \in 1 .. n PROVE h[k] = IntersectionStep(h[k - 1], list[k])
        OBVIOUS
    <2>1. k - 1 \in 0 .. n
        BY <1>1
    <2> QED
        BY <1>10, <1>11, <2>1 DEF ValuesOf
<1>13. MeetAll(first, list) = h[n]
    BY <1>7, <1>11, Zenon DEF ValuesOf
<1>14. h[0] = FirstChild(first)
    BY <1>11, Zenon DEF ValuesOf
<1> QED
    BY <1>11, <1>12, <1>13, <1>14, Zenon DEF G, n
UnitedUpTo(list, out, k) ==
    IF out = Failed THEN \E i \in 1 .. k : list[i] = Failed
    ELSE /\ out \in NormalSets
         /\ \A i \in 1 .. k : list[i] # Failed
         /\ \A t \in Int : Covers(out, t) <=> \E i \in 1 .. k : Covers(list[i], t)

LEMMA UnionMeans ==
    ASSUME NEW list \in Seq(AnySet)
    PROVE  UnionAll(list) \in AnySet /\ UnitedUpTo(list, UnionAll(list), Len(list))
<1> DEFINE n == Len(list)
<1>1. n \in Nat /\ \A k \in 1 .. n : list[k] \in AnySet
    OBVIOUS
<1>2. PICK h \in [0 .. n -> AnySet] : /\ h[0] = <<>>
                                      /\ \A k \in 1 .. n : h[k] = UnionStep(h[k - 1], list[k])
                                      /\ UnionAll(list) = h[n]
    BY UnionFold
<1> HIDE DEF n
<1>3. UnitedUpTo(list, h[0], 0)
    <2>1. h[0] \in NormalSets /\ h[0] # Failed /\ \A t : ~ Covers(h[0], t)
        BY <1>2, NoSetIsFailed
    <2> QED
        BY <2>1 DEF UnitedUpTo
<1>4. ASSUME NEW k \in 1 .. n, UnitedUpTo(list, h[k - 1], k - 1) PROVE UnitedUpTo(list, h[k], k)
    <2> DEFINE acc == h[k - 1]
               set == list[k]
    <2>1. \A i : i \in 1 .. k <=> i \in 1 .. k - 1 \/ i = k
        BY <1>1
    <2>2. acc \in AnySet /\ set \in AnySet /\ h[k] = UnionStep(acc, set)
        BY <1>1, <1>2
    <2>3. UnitedUpTo(list, acc, k - 1)
        BY <1>4
    <2> HIDE DEF acc
    <2>4. CASE acc = Failed
        <3>1. h[k] = Failed
            BY <2>2, <2>4 DEF UnionStep
        <3> QED
            BY <2>1, <2>3, <2>4, <3>1 DEF UnitedUpTo
    <2>5. CASE set = Failed
        <3>1. h[k] = Failed
            BY <2>2, <2>5 DEF UnionStep
        <3> QED
            BY <2>1, <2>5, <3>1 DEF UnitedUpTo
    <2>6. CASE acc # Failed /\ set # Failed
        <3>1. h[k] = UnionOf(acc, set) /\ acc \in NormalSets /\ set \in NormalSets
            BY <2>2, <2>6 DEF UnionStep, AnySet
        <3>2. /\ h[k] \in NormalSets
              /\ \A t \in Int : Covers(h[k], t) <=> Covers(acc, t) \/ Covers(set, t)
            BY <3>1, UnionFacts DEF NormalSets
        <3>3. h[k] # Failed
            BY <3>2, NoSetIsFailed
        <3>4. /\ \A i \in 1 .. k - 1 : list[i] # Failed
              /\ \A t \in Int : Covers(acc, t) <=> \E i \in 1 .. k - 1 : Covers(list[i], t)
            BY <2>3, <2>6 DEF UnitedUpTo
        <3>5. \A i \in 1 .. k : list[i] # Failed
            BY <2>1, <2>6, <3>4
        <3>6. ASSUME NEW t \in Int PROVE Covers(h[k], t) <=> \E i \in 1 .. k : Covers(list[i], t)
            BY <2>1, <3>2, <3>4
        <3> QED
            BY <3>2, <3>3, <3>5, <3>6, Zenon DEF UnitedUpTo
    <2> QED
        BY <2>4, <2>5, <2>6
<1> DEFINE P == {k \in Nat : k <= n => UnitedUpTo(list, h[k], k)}
<1>5. Nat \subseteq P
    <2>1. 0 \in P
        BY <1>3
    <2>2. ASSUME NEW k \in Nat, k \in P PROVE k + 1 \in P
        <3> SUFFICES ASSUME k + 1 <= n PROVE UnitedUpTo(list, h[k + 1], k + 1)
            OBVIOUS
        <3>1. k + 1 \in 1 .. n /\ (k + 1) - 1 = k /\ UnitedUpTo(list, h[k], k)
            BY <1>1, <2>2
        <3> QED
            BY <1>4, <3>1
    <2> HIDE DEF P
    <2> QED
        BY <2>1, <2>2, CountingUp
<1>6. UnitedUpTo(list, h[n], n)
    BY <1>1, <1>5
<1>7. h[n] \in AnySet
    BY <1>1, <1>2
<1> QED
    BY <1>2, <1>6, <1>7 DEF n

(* The first j sets of a list all cover t; and one of the first k sets is  *)
(* a failure that is looked at, because it is among the first two or those *)
(* before it leave something.                                              *)
AllCover(found, j, t) == \A i \in 1 .. j : found[i] # Failed /\ Covers(found[i], t)
FailsBy(found, k) ==
    \E j \in 1 .. k : found[j] = Failed /\ (j <= 2 \/ \E t \in Int : AllCover(found, j - 1, t))

MetUpTo(found, out, k) ==
    IF FailsBy(found, k) THEN out.set = Failed /\ out.over
    ELSE /\ out.set \in NormalSets
         /\ \A t \in Int : Covers(out.set, t) <=> AllCover(found, k, t)
         /\ out.over <=> k > 1 /\ out.set = <<>>

LEMMA MetStep ==
    ASSUME NEW found, NEW k \in Nat, k # 0, NEW acc \in MeetStates, MetUpTo(found, acc, k),
           NEW set \in AnySet, set = found[k + 1]
    PROVE  MetUpTo(found, IntersectionStep(acc, set), k + 1)
<1> DEFINE out == IntersectionStep(acc, set)
<1>1. \A i : i \in 1 .. k + 1 <=> i \in 1 .. k \/ i = k + 1
    OBVIOUS
<1>2. (k + 1) - 1 = k /\ (k + 1 <= 2 <=> k <= 1) /\ k + 1 > 1 /\ (k > 1 <=> ~ k <= 1)
    OBVIOUS
<1>3. \A t : AllCover(found, k + 1, t) <=> AllCover(found, k, t) /\ set # Failed /\ Covers(set, t)
    BY <1>1 DEF AllCover
<1>4. FailsBy(found, k + 1) <=>
        \/ FailsBy(found, k)
        \/ set = Failed /\ (k <= 1 \/ \E t \in Int : AllCover(found, k, t))
    BY <1>1, <1>2 DEF FailsBy
<1>5. CASE FailsBy(found, k)
    <2>1. acc.set = Failed /\ acc.over
        BY <1>5 DEF MetUpTo
    <2>2. out = acc
        BY <2>1 DEF IntersectionStep
    <2> HIDE DEF out
    <2> QED
        BY <1>4, <1>5, <2>1, <2>2 DEF MetUpTo, out
<1>6. CASE ~ FailsBy(found, k)
    <2>1. /\ acc.set \in NormalSets
          /\ \A t \in Int : Covers(acc.set, t) <=> AllCover(found, k, t)
          /\ acc.over <=> k > 1 /\ acc.set = <<>>
        BY <1>6 DEF MetUpTo
    <2>2. CASE acc.over
        <3>1. out = acc
            BY <2>2 DEF IntersectionStep
        <3> HIDE DEF out
        <3>2. k > 1 /\ acc.set = <<>>
            BY <2>1, <2>2
        <3>3. \A t \in Int : ~ AllCover(found, k, t)
            BY <2>1, <3>2, NoSetIsFailed
        <3>4. ~ FailsBy(found, k + 1)
            BY <1>2, <1>4, <1>6, <3>2, <3>3
        <3>5. \A t \in Int : Covers(acc.set, t) <=> AllCover(found, k + 1, t)
            BY <1>3, <2>1, <3>3
        <3> QED
            BY <1>2, <2>1, <2>2, <3>1, <3>2, <3>4, <3>5 DEF MetUpTo, out
    <2>3. CASE ~ acc.over /\ set = Failed
        <3>1. out = [set |-> Failed, over |-> TRUE]
            BY <2>3 DEF IntersectionStep
        <3> HIDE DEF out
        <3>2. CASE k <= 1
            BY <1>4, <2>3, <3>1, <3>2 DEF MetUpTo, out
        <3>3. CASE k > 1
            <4>1. acc.set # <<>>
                BY <2>1, <2>3, <3>3
            <4>2. \E t \in Int : AllCover(found, k, t)
                BY <2>1, <4>1, NoSetIsFailed
            <4> QED
                BY <1>4, <2>3, <3>1, <4>2 DEF MetUpTo, out
        <3> QED
            BY <3>2, <3>3
    <2>4. CASE ~ acc.over /\ set # Failed
        <3> DEFINE met == IntersectionOf(acc.set, set)
        <3>1. out = [set |-> met, over |-> met = <<>>]
            BY <2>4 DEF IntersectionStep
        <3>2. set \in NormalSets
            BY <2>4 DEF AnySet
        <3>3. /\ met \in NormalSets
              /\ \A t \in Int : Covers(met, t) <=> Covers(acc.set, t) /\ Covers(set, t)
            BY <2>1, <3>2, IntersectionFacts DEF NormalSets
        <3> HIDE DEF out, met
        <3>4. ~ FailsBy(found, k + 1)
            BY <1>4, <1>6, <2>4
        <3>5. \A t \in Int : Covers(met, t) <=> AllCover(found, k + 1, t)
            BY <1>3, <2>1, <2>4, <3>3
        <3>6. out.set = met /\ (out.over <=> k + 1 > 1 /\ out.set = <<>>)
            BY <1>2, <3>1
        <3> QED
            BY <3>3, <3>4, <3>5, <3>6 DEF MetUpTo, out
    <2> QED
        BY <2>2, <2>3, <2>4
<1> QED
    BY <1>5, <1>6

LEMMA MeetMeans ==
    ASSUME NEW found \in Seq(AnySet), found # <<>>
    PROVE  LET set == MeetAll(Head(found), Tail(found)).set IN
           /\ set \in AnySet
           /\ IF FailsBy(found, Len(found)) THEN set = Failed
              ELSE /\ set \in NormalSets
                   /\ \A t \in Int : Covers(set, t) <=> AllCover(found, Len(found), t)
<1> DEFINE first == Head(found)
           list == Tail(found)
           n == Len(list)
<1>1. /\ first \in AnySet /\ first = found[1] /\ list \in Seq(AnySet)
      /\ Len(found) \in Nat /\ n = Len(found) - 1 /\ n \in Nat
      /\ \A i \in 1 .. n : list[i] = found[i + 1] /\ list[i] \in AnySet
    <2>1. /\ list \in Seq(AnySet) /\ Len(list) = Len(found) - 1
          /\ \A i \in 1 .. Len(list) : list[i] = found[i + 1]
        BY HeadTailProperties
    <2>2. first \in AnySet /\ first = found[1]
        OBVIOUS
    <2> QED
        BY <2>1, <2>2
<1> HIDE DEF first, list, n
<1>2. PICK h \in [0 .. n -> MeetStates] :
            /\ h[0] = FirstChild(first)
            /\ \A k \in 1 .. n : h[k] = IntersectionStep(h[k - 1], list[k])
            /\ MeetAll(first, list) = h[n]
    BY <1>1, MeetFold DEF n
<1>3. MetUpTo(found, h[0], 1)
    <2>1. FailsBy(found, 1) <=> first = Failed
        <3>1. 1 .. 1 = {1}
            OBVIOUS
        <3> QED
            BY <1>1, <3>1 DEF FailsBy
    <2>2. h[0].set = first /\ (h[0].over <=> first = Failed)
        <3>1. h[0] = [set |-> first, over |-> first = Failed]
            BY <1>2, Zenon DEF FirstChild
        <3>2. h[0].set = first
            BY <3>1
        <3>3. h[0].over = (first = Failed)
            BY <3>1
        <3> QED
            BY <3>2, <3>3, Zenon
    <2>3. \A t : AllCover(found, 1, t) <=> first # Failed /\ Covers(first, t)
        <3>1. 1 .. 1 = {1}
            OBVIOUS
        <3> QED
            BY <1>1, <3>1 DEF AllCover
    <2>4. first # Failed => first \in NormalSets
        BY <1>1 DEF AnySet
    <2> QED
        BY <2>1, <2>2, <2>3, <2>4 DEF MetUpTo
<1>4. ASSUME NEW k \in 1 .. n, MetUpTo(found, h[k - 1], k) PROVE MetUpTo(found, h[k], k + 1)
    <2>1. /\ k \in Nat /\ k # 0 /\ h[k - 1] \in MeetStates
          /\ list[k] \in AnySet /\ list[k] = found[k + 1]
        <3>1. k \in Nat /\ k # 0 /\ k - 1 \in 0 .. n
            BY <1>1
        <3>2. h[k - 1] \in MeetStates
            BY <3>1
        <3> QED
            BY <1>1, <3>1, <3>2
    <2>2. MetUpTo(found, IntersectionStep(h[k - 1], list[k]), k + 1)
        BY <1>4, <2>1, MetStep
    <2> QED
        BY <1>2, <2>2
<1> DEFINE P == {k \in Nat : k <= n => MetUpTo(found, h[k], k + 1)}
<1>5. Nat \subseteq P
    <2>1. 0 \in P
        BY <1>3
    <2>2. ASSUME NEW k \in Nat, k \in P PROVE k + 1 \in P
        <3> SUFFICES ASSUME k + 1 <= n PROVE MetUpTo(found, h[k + 1], (k + 1) + 1)
            OBVIOUS
        <3>1. k + 1 \in 1 .. n /\ (k + 1) - 1 = k /\ MetUpTo(found, h[k], k + 1)
            BY <1>1, <2>2
        <3> QED
            BY <1>4, <3>1
    <2> HIDE DEF P
    <2> QED
        BY <2>1, <2>2, CountingUp
<1>6. MetUpTo(found, h[n], n + 1) /\ n + 1 = Len(found)
    BY <1>1, <1>5
<1>7. h[n] \in MeetStates
    BY <1>1, <1>2
<1>8. h[n].set \in AnySet
    BY <1>7 DEF MeetStates
<1>9. MetUpTo(found, MeetAll(first, list), Len(found)) /\ MeetAll(first, list).set \in AnySet
    BY <1>2, <1>6, <1>8
<1> QED
    BY <1>9 DEF MetUpTo, first, list
LEMMA AtomSets ==
    ASSUME NEW allowed \in SUBSET Int, NEW p \in Period
    PROVE  /\ PeriodsOfTicks(allowed \cap Ticks(p)) \in NormalSets
           /\ \A t \in Int : Covers(PeriodsOfTicks(allowed \cap Ticks(p)), t)
                                 <=> t \in allowed /\ t \in Ticks(p)
<1>1. p.start \in Int /\ p.end - 1 \in Int
    BY PeriodFacts
<1>2. IsFiniteSet(Ticks(p))
    BY <1>1, FS_Interval DEF Ticks
<1>3. IsFiniteSet(allowed \cap Ticks(p)) /\ allowed \cap Ticks(p) \in SUBSET Int
    BY <1>2, FS_Subset
<1> QED
    BY <1>3, PeriodsOfTicksFacts DEF NormalSets

(* What the check of an expression finds.                                  *)
CheckOf(timeline, h) ==
    h = [x \in HardExprs |->
            FoundBy(x, [i \in DOMAIN x.parts |-> h[x.parts[i]]], timeline)]

LEMMA CheckExists ==
    ASSUME NEW timeline \in Period
    PROVE  \E h : h \in [HardExprs -> AnySet] /\ CheckOf(timeline, h)
<1> DEFINE D == HardExprs
           G == AnySet
           value(x, f) ==
            FoundBy(x, [i \in DOMAIN x.parts |-> f[x.parts[i]]], timeline)
           F == [a \in D \X [D -> G] |-> value(a[1], a[2])]
<1>1. ASSUME NEW x \in D, NEW f \in [D -> G]
      PROVE  value(x, f) \in G
    <2> DEFINE found == [i \in DOMAIN x.parts |-> f[x.parts[i]]]
    <2>1. ASSUME x.parts \in Seq(D) PROVE found \in Seq(G)
        <3> HIDE DEF D, G
        <3> QED
            BY <2>1
    <2> HIDE DEF found
    <2>2. CASE x.kind = "atom"
        <3>1. x.allowed \in SUBSET Int
            BY <2>2, HardCases
        <3>2. PeriodsOfTicks(x.allowed \cap Ticks(timeline)) \in AnySet
            BY <3>1, AtomSets DEF AnySet
        <3> QED
            BY <2>2, <3>2 DEF FoundBy
    <2>3. CASE x.kind = "midpoint"
        <3>1. <<timeline>> \in AnySet /\ <<>> \in AnySet
            BY OnePeriod, NoSetIsFailed DEF AnySet
        <3> QED
            BY <2>3, <3>1 DEF FoundBy
    <2>4. CASE x.kind = "failing"
        BY <2>4 DEF AnySet, FoundBy
    <2>5. CASE x.kind = "union"
        <3>1. UnionAll(found) \in G
            BY <2>1, <2>5, HardCases, UnionMeans
        <3> QED
            BY <2>5, <3>1 DEF found, FoundBy, UnionAll
    <2>6. CASE x.kind = "intersection"
        <3>1. found \in Seq(AnySet)
            BY <2>1, <2>6, HardCases
        <3>2. found # <<>> => MeetAll(Head(found), Tail(found)).set \in G
            BY <3>1, MeetMeans
        <3>3. <<timeline>> \in G
            BY OnePeriod DEF AnySet
        <3> QED
            BY <2>6, <3>2, <3>3 DEF found, FoundBy, MeetAll
    <2> QED
        BY <2>2, <2>3, <2>4, <2>5, <2>6, HardCases
<1>2. F \in [D \X [D -> G] -> G]
    <2> HIDE DEF value
    <2> QED
        BY <1>1
<1>3. \A x \in D : \A f \in [D -> G] : F[<<x, f>>] = value(x, f)
    <2> HIDE DEF value
    <2> QED
        OBVIOUS
<1> HIDE DEF F
<1>4. LooksAtParts(HardLeaves, D, G, F)
    <2> SUFFICES ASSUME NEW x \in D, NEW f \in [D -> G], NEW g \in [D -> G],
                        x \notin HardLeaves =>
                            \A i \in DOMAIN x.parts : f[x.parts[i]] = g[x.parts[i]]
                 PROVE  value(x, f) = value(x, g)
        <3> HIDE DEF value
        <3> QED
            BY <1>3 DEF LooksAtParts
    <2>1. CASE x.kind \in {"atom", "midpoint", "failing"}
        BY <2>1 DEF FoundBy
    <2>2. CASE x.kind \in {"union", "intersection"}
        <3>1. [i \in DOMAIN x.parts |-> f[x.parts[i]]] = [i \in DOMAIN x.parts |-> g[x.parts[i]]]
            BY <2>2, HardCases
        <3> QED
            BY <2>2, <3>1
    <2> QED
        BY <2>1, <2>2, HardCases
<1>5. PICK h \in [D -> G] : Solves(D, F, h)
    <2> HIDE DEF D, G
    <2>1. Failed \in G
        BY DEF G, AnySet
    <2> QED
        BY <1>2, <1>4, <2>1, HardFunction DEF D
<1>6. \A x \in D : h[x] = value(x, h)
    <2> HIDE DEF value
    <2> QED
        BY <1>3, <1>5 DEF Solves
<1>7. CheckOf(timeline, h)
    BY <1>6 DEF CheckOf
<1> QED
    BY <1>7

(* What an expression allows at a tick.                                    *)
AllowsOf(t, h) ==
    h = [x \in HardExprs |->
            AllowedBy(x, [i \in DOMAIN x.parts |-> h[x.parts[i]]], t)]

LEMMA AllowsExists ==
    ASSUME NEW t
    PROVE  \E h : h \in [HardExprs -> BOOLEAN] /\ AllowsOf(t, h)
<1> DEFINE D == HardExprs
           G == BOOLEAN
           value(x, f) ==
            AllowedBy(x, [i \in DOMAIN x.parts |-> f[x.parts[i]]], t)
           F == [a \in D \X [D -> G] |-> value(a[1], a[2])]
<1>1. ASSUME NEW x \in D, NEW f \in [D -> G]
      PROVE  value(x, f) \in G
    <2>1. CASE x.kind = "atom"
        BY <2>1 DEF AllowedBy
    <2>2. CASE x.kind = "union"
        BY <2>2 DEF AllowedBy
    <2>3. CASE x.kind = "intersection"
        BY <2>3 DEF AllowedBy
    <2>4. CASE x.kind \in {"midpoint", "failing"}
        BY <2>4 DEF AllowedBy
    <2> QED
        BY <2>1, <2>2, <2>3, <2>4, HardCases
<1>2. F \in [D \X [D -> G] -> G]
    <2> HIDE DEF value
    <2> QED
        BY <1>1
<1>3. \A x \in D : \A f \in [D -> G] : F[<<x, f>>] = value(x, f)
    <2> HIDE DEF value
    <2> QED
        OBVIOUS
<1> HIDE DEF F
<1>4. LooksAtParts(HardLeaves, D, G, F)
    <2> SUFFICES ASSUME NEW x \in D, NEW f \in [D -> G], NEW g \in [D -> G],
                        x \notin HardLeaves =>
                            \A i \in DOMAIN x.parts : f[x.parts[i]] = g[x.parts[i]]
                 PROVE  value(x, f) = value(x, g)
        <3> HIDE DEF value
        <3> QED
            BY <1>3 DEF LooksAtParts
    <2>1. CASE x.kind \in {"atom", "midpoint", "failing"}
        BY <2>1 DEF AllowedBy
    <2>2. CASE x.kind \in {"union", "intersection"}
        <3>1. [i \in DOMAIN x.parts |-> f[x.parts[i]]] = [i \in DOMAIN x.parts |-> g[x.parts[i]]]
            BY <2>2, HardCases
        <3> QED
            BY <3>1
    <2> QED
        BY <2>1, <2>2, HardCases
<1>5. PICK h \in [D -> G] : Solves(D, F, h)
    <2> HIDE DEF D, G
    <2>1. TRUE \in G
        BY DEF G, AnyBranches, ListBranches
    <2> QED
        BY <1>2, <1>4, <2>1, HardFunction DEF D
<1>6. \A x \in D : h[x] = value(x, h)
    <2> HIDE DEF value
    <2> QED
        BY <1>3, <1>5 DEF Solves
<1>7. AllowsOf(t, h)
    BY <1>6 DEF AllowsOf
<1> QED
    BY <1>7

(* Whether an expression has a leaf of a kind.                             *)
LeafOf(kind, h) ==
    h = [x \in HardExprs |->
            IF x.kind \in {"union", "intersection"} THEN \E i \in DOMAIN x.parts : h[x.parts[i]]
            ELSE x.kind = kind]

LEMMA LeafExists ==
    ASSUME NEW kind
    PROVE  \E h : h \in [HardExprs -> BOOLEAN] /\ LeafOf(kind, h)
<1> DEFINE D == HardExprs
           G == BOOLEAN
           value(x, f) ==
            IF x.kind \in {"union", "intersection"} THEN \E i \in DOMAIN x.parts : f[x.parts[i]]
            ELSE x.kind = kind
           F == [a \in D \X [D -> G] |-> value(a[1], a[2])]
<1>1. ASSUME NEW x \in D, NEW f \in [D -> G]
      PROVE  value(x, f) \in G
    <2>1. CASE x.kind \in {"atom", "midpoint", "failing"}
        BY <2>1
    <2>2. CASE x.kind = "union"
        BY <2>2
    <2>3. CASE x.kind = "intersection"
        BY <2>3
    <2> QED
        BY <2>1, <2>2, <2>3, HardCases
<1>2. F \in [D \X [D -> G] -> G]
    <2> HIDE DEF value
    <2> QED
        BY <1>1
<1>3. \A x \in D : \A f \in [D -> G] : F[<<x, f>>] = value(x, f)
    <2> HIDE DEF value
    <2> QED
        OBVIOUS
<1> HIDE DEF F
<1>4. LooksAtParts(HardLeaves, D, G, F)
    <2> SUFFICES ASSUME NEW x \in D, NEW f \in [D -> G], NEW g \in [D -> G],
                        x \notin HardLeaves =>
                            \A i \in DOMAIN x.parts : f[x.parts[i]] = g[x.parts[i]]
                 PROVE  value(x, f) = value(x, g)
        <3> HIDE DEF value
        <3> QED
            BY <1>3 DEF LooksAtParts
    <2>1. CASE x.kind \in {"atom", "midpoint", "failing"}
        BY <2>1
    <2>2. CASE x.kind = "union"
        BY <2>2, HardCases
    <2>3. CASE x.kind = "intersection"
        BY <2>3, HardCases
    <2> QED
        BY <2>1, <2>2, <2>3, HardCases
<1>5. PICK h \in [D -> G] : Solves(D, F, h)
    <2> HIDE DEF D, G
    <2>1. TRUE \in G
        BY DEF G, AnyBranches, ListBranches
    <2> QED
        BY <1>2, <1>4, <2>1, HardFunction DEF D
<1>6. \A x \in D : h[x] = value(x, h)
    <2> HIDE DEF value
    <2> QED
        BY <1>3, <1>5 DEF Solves
<1>7. LeafOf(kind, h)
    BY <1>6 DEF LeafOf
<1> QED
    BY <1>7

(* What these are, given those of the parts.                               *)
LEMMA AllowsIs ==
    ASSUME NEW t, NEW x \in HardExprs
    PROVE  /\ x.kind = "atom" => (Allows(x, t) <=> t \in x.allowed)
           /\ x.kind = "failing" => ~ Allows(x, t)
           /\ x.kind = "union" => (Allows(x, t) <=> \E i \in DOMAIN x.parts : Allows(x.parts[i], t))
           /\ x.kind = "intersection" =>
                 (Allows(x, t) <=> \A i \in DOMAIN x.parts : Allows(x.parts[i], t))
<1> DEFINE h == CHOOSE f : AllowsOf(t, f)
<1>1. \E f : AllowsOf(t, f)
    BY AllowsExists, Zenon
<1>2. AllowsOf(t, h)
    BY <1>1, Zenon
<1>3. \A y \in HardExprs : Allows(y, t) = h[y]
    BY DEF Allows, AllowsOf
<1> HIDE DEF h
<1>4. CASE x.kind = "atom"
    <2>1. h[x] = (t \in x.allowed)
        BY <1>2, <1>4 DEF AllowsOf, AllowedBy
    <2> QED
        BY <1>3, <1>4, <2>1
<1>5. CASE x.kind = "failing"
    <2>1. h[x] = FALSE
        BY <1>2, <1>5 DEF AllowsOf, AllowedBy
    <2> QED
        BY <1>3, <1>5, <2>1
<1>6. CASE x.kind = "union"
    <2>1. h[x] = \E i \in DOMAIN x.parts : h[x.parts[i]]
        BY <1>2, <1>6 DEF AllowsOf, AllowedBy
    <2>2. \A i \in DOMAIN x.parts : Allows(x.parts[i], t) = h[x.parts[i]]
        BY <1>3, <1>6, HardCases
    <2> QED
        BY <1>3, <1>6, <2>1, <2>2
<1>7. CASE x.kind = "intersection"
    <2>1. h[x] = \A i \in DOMAIN x.parts : h[x.parts[i]]
        BY <1>2, <1>7 DEF AllowsOf, AllowedBy
    <2>2. \A i \in DOMAIN x.parts : Allows(x.parts[i], t) = h[x.parts[i]]
        BY <1>3, <1>7, HardCases
    <2> QED
        BY <1>3, <1>7, <2>1, <2>2
<1> QED
    BY <1>4, <1>5, <1>6, <1>7, HardCases

LEMMA HasLeafIs ==
    ASSUME NEW kind, NEW x \in HardExprs
    PROVE  /\ x.kind \notin {"union", "intersection"} => (HasLeaf(x, kind) <=> x.kind = kind)
           /\ x.kind \in {"union", "intersection"} =>
                 (HasLeaf(x, kind) <=> \E i \in DOMAIN x.parts : HasLeaf(x.parts[i], kind))
<1> DEFINE h == CHOOSE f : LeafOf(kind, f)
<1>1. \E f : LeafOf(kind, f)
    BY LeafExists, Zenon
<1>2. LeafOf(kind, h)
    BY <1>1, Zenon
<1>3. \A y \in HardExprs : HasLeaf(y, kind) = h[y]
    BY DEF HasLeaf, LeafOf
<1> HIDE DEF h
<1>4. CASE x.kind \notin {"union", "intersection"}
    <2>1. h[x] = (x.kind = kind)
        BY <1>2, <1>4 DEF LeafOf
    <2> QED
        BY <1>3, <1>4, <2>1
<1>5. CASE x.kind \in {"union", "intersection"}
    <2>1. h[x] = \E i \in DOMAIN x.parts : h[x.parts[i]]
        BY <1>2, <1>5 DEF LeafOf
    <2>2. \A i \in DOMAIN x.parts : HasLeaf(x.parts[i], kind) = h[x.parts[i]]
        BY <1>3, <1>5, HardCases
    <2> QED
        BY <1>3, <1>5, <2>1, <2>2
<1> QED
    BY <1>4, <1>5

Checked(parts, timeline) == [i \in DOMAIN parts |-> CheckExpr(parts[i], timeline)]

LEMMA CheckExprIs ==
    ASSUME NEW timeline \in Period, NEW x \in HardExprs
    PROVE  /\ CheckExpr(x, timeline) \in AnySet
           /\ x.kind = "atom" =>
                CheckExpr(x, timeline) = PeriodsOfTicks(x.allowed \cap Ticks(timeline))
           /\ x.kind = "midpoint" => CheckExpr(x, timeline) \in {<<timeline>>, <<>>}
           /\ x.kind = "failing" => CheckExpr(x, timeline) = Failed
           /\ x.kind = "union" => CheckExpr(x, timeline) = UnionAll(Checked(x.parts, timeline))
           /\ x.kind = "intersection" =>
                LET found == Checked(x.parts, timeline) IN
                CheckExpr(x, timeline) =
                    IF found = <<>> THEN <<timeline>> ELSE MeetAll(Head(found), Tail(found)).set
           /\ x.kind \in {"union", "intersection"} =>
                /\ Checked(x.parts, timeline) \in Seq(AnySet)
                /\ Len(Checked(x.parts, timeline)) = Len(x.parts)
<1> DEFINE D == HardExprs
           g == CHOOSE f : CheckOf(timeline, f)
           found(y) == [i \in DOMAIN y.parts |-> g[y.parts[i]]]
           met(list) == IF list = <<>> THEN <<timeline>> ELSE MeetAll(Head(list), Tail(list)).set
<1>1. CheckOf(timeline, g)
    <2>1. \E f : CheckOf(timeline, f)
        BY CheckExists, Zenon
    <2> QED
        BY <2>1, Zenon
<1>2. \A y \in D : CheckExpr(y, timeline) = g[y]
    BY DEF CheckExpr, CheckOf
<1> HIDE DEF g
<1>3. ASSUME NEW y \in D
      PROVE  /\ y.kind = "atom" => g[y] = PeriodsOfTicks(y.allowed \cap Ticks(timeline))
             /\ y.kind = "midpoint" => g[y] \in {<<timeline>>, <<>>}
             /\ y.kind = "failing" => g[y] = Failed
             /\ y.kind = "union" => g[y] = UnionAll(found(y))
             /\ y.kind = "intersection" => g[y] = met(found(y))
    <2>1. g[y] = FoundBy(y, found(y), timeline)
        BY <1>1 DEF CheckOf
    <2> QED
        BY <2>1 DEF FoundBy, UnionAll, MeetAll
<1> DEFINE P == {y \in D : g[y] \in AnySet}
<1>4. ASSUME NEW y \in D, y.parts \in Seq(D), \A i \in DOMAIN y.parts : y.parts[i] \in P
      PROVE  found(y) \in Seq(AnySet)
    BY <1>4
<1> HIDE DEF found
<1>5. \A list \in Seq(AnySet) : UnionAll(list) \in AnySet /\ met(list) \in AnySet
    <2> SUFFICES ASSUME NEW list \in Seq(AnySet)
                 PROVE  UnionAll(list) \in AnySet /\ met(list) \in AnySet
        OBVIOUS
    <2>1. UnionAll(list) \in AnySet
        BY UnionMeans
    <2>2. <<timeline>> \in AnySet
        BY OnePeriod DEF AnySet
    <2>3. list # <<>> => MeetAll(Head(list), Tail(list)).set \in AnySet
        BY MeetMeans
    <2> QED
        BY <2>1, <2>2, <2>3
<1> HIDE DEF met
<1>6. D \subseteq P
    <2>1. HardLeaves \subseteq P
        <3>1. HardLeaves \subseteq D
            BY HardShapes DEF DepthOf
        <3>2. ASSUME NEW y \in HardLeaves PROVE g[y] \in AnySet
            <4>1. y \in D
                BY <3>1
            <4>2. CASE y.kind = "atom"
                <5>1. g[y] = PeriodsOfTicks(y.allowed \cap Ticks(timeline))
                    BY <1>3, <4>1, <4>2
                <5>2. y.allowed \in SUBSET Int
                    BY <4>1, <4>2, HardCases
                <5> QED
                    BY <5>1, <5>2, AtomSets DEF AnySet
            <4>3. CASE y.kind = "midpoint"
                <5>1. g[y] \in {<<timeline>>, <<>>}
                    BY <1>3, <4>1, <4>3
                <5> QED
                    BY <5>1, OnePeriod, NoSetIsFailed DEF AnySet
            <4>4. CASE y.kind = "failing"
                BY <1>3, <4>1, <4>4 DEF AnySet
            <4> QED
                BY <4>1, <4>2, <4>3, <4>4, HardCases
        <3> QED
            BY <3>1, <3>2
    <2>2. ASSUME NEW y \in D, y.kind \in {"union", "intersection"}, y.parts \in Seq(D),
                 \A i \in DOMAIN y.parts : y.parts[i] \in P
          PROVE  y \in P
        <3>1. found(y) \in Seq(AnySet)
            BY <1>4, <2>2
        <3>2. UnionAll(found(y)) \in AnySet /\ met(found(y)) \in AnySet
            BY <1>5, <3>1
        <3>3. CASE y.kind = "union"
            BY <1>3, <2>2, <3>2, <3>3
        <3>4. CASE y.kind = "intersection"
            BY <1>3, <2>2, <3>2, <3>4
        <3> QED
            BY <2>2, <3>3, <3>4
    <2>3. \A y \in D : y.kind \in {"union", "intersection"} /\ y.parts \in Seq(D)
                       /\ (\A i \in DOMAIN y.parts : y.parts[i] \in P) => y \in P
        <3> HIDE DEF D, P
        <3> QED
            BY <2>2, Zenon
    <2> HIDE DEF P
    <2> QED
        BY <2>1, <2>3, HardInduction
<1>7. ASSUME x.kind \in {"union", "intersection"}
      PROVE  /\ Checked(x.parts, timeline) = found(x)
             /\ Checked(x.parts, timeline) \in Seq(AnySet)
             /\ Len(Checked(x.parts, timeline)) = Len(x.parts)
    <2>1. x.parts \in Seq(D)
        BY <1>7, HardCases
    <2>2. \A i \in DOMAIN x.parts : x.parts[i] \in D
        BY <2>1
    <2>3. Checked(x.parts, timeline) = found(x)
        BY <1>2, <2>2 DEF Checked, found
    <2>4. found(x) \in Seq(AnySet)
        BY <1>4, <1>6, <2>1, <2>2
    <2>5. Len(Checked(x.parts, timeline)) = Len(x.parts)
        BY <2>1 DEF Checked
    <2> QED
        BY <2>3, <2>4, <2>5
<1>8. CheckExpr(x, timeline) = g[x] /\ CheckExpr(x, timeline) \in AnySet
    BY <1>2, <1>6
<1>9. x.kind = "intersection" => CheckExpr(x, timeline) = met(Checked(x.parts, timeline))
    BY <1>3, <1>7, <1>8
<1>10. x.kind = "union" => CheckExpr(x, timeline) = UnionAll(Checked(x.parts, timeline))
    BY <1>3, <1>7, <1>8
<1> QED
    BY <1>3, <1>7, <1>8, <1>9, <1>10 DEF met

(* What the check of an expression finds: nothing outside the timeline,    *)
(* and of an expression without midpoints exactly what it allows.          *)
FindsAllowed(e, timeline, set) ==
    /\ set \in NormalSets
    /\ \A t \in Int : Covers(set, t) => t \in Ticks(timeline)
    /\ TickWise(e) => \A t \in Int : t \in Ticks(timeline) /\ Allows(e, t) => Covers(set, t)
    /\ TickWise(e) => \A t \in Int : Covers(set, t) => Allows(e, t)

ChecksWell(e, timeline) ==
    IF CheckExpr(e, timeline) = Failed THEN CanFail(e)
    ELSE FindsAllowed(e, timeline, CheckExpr(e, timeline))

(* The first failure of a list that has one.                               *)
LEMMA FirstFailure ==
    ASSUME NEW n \in Nat, NEW found, NEW k \in 1 .. n, found[k] = Failed
    PROVE  \E j \in 1 .. k : found[j] = Failed /\ \A i \in 1 .. j - 1 : found[i] # Failed
<1> DEFINE S == {j \in 1 .. n : found[j] = Failed}
<1>1. S \in SUBSET Nat /\ S # {}
    OBVIOUS
<1>2. PICK j \in S : \A i \in S : j <= i
    BY <1>1, LeastNumber
<1>3. j \in 1 .. k
    BY <1>2
<1>4. ASSUME NEW i \in 1 .. j - 1 PROVE found[i] # Failed
    <2>1. i \in 1 .. n /\ ~ (j <= i)
        BY <1>3
    <2> QED
        BY <1>2, <2>1
<1> QED
    BY <1>2, <1>3, <1>4

LEMMA PartsOfKind ==
    ASSUME NEW x \in HardExprs, x.kind \in {"union", "intersection"}, NEW i \in DOMAIN x.parts
    PROVE  /\ x.parts[i] \in HardExprs
           /\ TickWise(x) => TickWise(x.parts[i])
           /\ CanFail(x.parts[i]) => CanFail(x)
<1>1. x.parts[i] \in HardExprs
    BY HardCases
<1>2. \A kind : HasLeaf(x.parts[i], kind) => HasLeaf(x, kind)
    BY HasLeafIs
<1> QED
    BY <1>1, <1>2 DEF TickWise, CanFail

LEMMA LeavesCheckWell ==
    ASSUME NEW e \in HardLeaves, e \in HardExprs, NEW timeline \in Period
    PROVE  ChecksWell(e, timeline)
<1> DEFINE set == CheckExpr(e, timeline)
<1>1. CASE e.kind = "atom"
    <2>1. set = PeriodsOfTicks(e.allowed \cap Ticks(timeline)) /\ e.allowed \in SUBSET Int
        BY <1>1, CheckExprIs, HardCases
    <2>2. set \in NormalSets
        BY <2>1, AtomSets
    <2>3. \A t \in Int : Covers(set, t) <=> t \in e.allowed /\ t \in Ticks(timeline)
        BY <2>1, AtomSets
    <2>4. \A t \in Int : Allows(e, t) <=> t \in e.allowed
        BY <1>1, AllowsIs
    <2>5. set # Failed
        BY <2>2, NoSetIsFailed
    <2> HIDE DEF set
    <2>6. FindsAllowed(e, timeline, set)
        BY <2>2, <2>3, <2>4 DEF FindsAllowed
    <2> QED
        BY <2>5, <2>6 DEF ChecksWell, set
<1>2. CASE e.kind = "midpoint"
    <2>1. set \in {<<timeline>>, <<>>}
        BY <1>2, CheckExprIs
    <2>2. ~ TickWise(e)
        BY <1>2, HasLeafIs DEF TickWise
    <2>3. <<timeline>> \in NormalSets /\ \A t \in Int : Covers(<<timeline>>, t) <=> t \in Ticks(timeline)
        BY OnePeriod
    <2>4. set \in NormalSets /\ \A t \in Int : Covers(set, t) => t \in Ticks(timeline)
        BY <2>1, <2>3, NoSetIsFailed
    <2>5. set # Failed
        BY <2>4, NoSetIsFailed
    <2> HIDE DEF set
    <2>6. FindsAllowed(e, timeline, set)
        BY <2>2, <2>4 DEF FindsAllowed
    <2> QED
        BY <2>5, <2>6 DEF ChecksWell, set
<1>3. CASE e.kind = "failing"
    <2>1. set = Failed
        BY <1>3, CheckExprIs
    <2>2. CanFail(e)
        BY <1>3, HasLeafIs DEF CanFail
    <2> QED
        BY <2>1, <2>2 DEF ChecksWell
<1> QED
    BY <1>1, <1>2, <1>3, HardCases

LEMMA UnionsCheckWell ==
    ASSUME NEW e \in HardExprs, e.kind = "union", NEW timeline \in Period,
           \A i \in DOMAIN e.parts : ChecksWell(e.parts[i], timeline)
    PROVE  ChecksWell(e, timeline)
<1> DEFINE found == Checked(e.parts, timeline)
           n == Len(found)
           set == CheckExpr(e, timeline)
<1>1. found \in Seq(AnySet) /\ n = Len(e.parts) /\ set = UnionAll(found)
    BY CheckExprIs
<1>2. n \in Nat /\ DOMAIN e.parts = 1 .. n
    <2>1. e.parts \in Seq(HardExprs)
        BY HardCases
    <2> QED
        BY <1>1, <2>1
<1>3. \A i \in 1 .. n : found[i] = CheckExpr(e.parts[i], timeline)
    BY <1>2 DEF Checked
<1>4. UnitedUpTo(found, set, n)
    BY <1>1, UnionMeans
<1> HIDE DEF found, n, set
<1>5. ASSUME NEW i \in 1 .. n
      PROVE  IF found[i] = Failed THEN CanFail(e.parts[i]) ELSE FindsAllowed(e.parts[i], timeline, found[i])
    BY <1>2, <1>3 DEF ChecksWell
<1>6. CASE set = Failed
    <2>1. PICK i \in 1 .. n : found[i] = Failed
        BY <1>4, <1>6 DEF UnitedUpTo
    <2>2. CanFail(e)
        BY <1>2, <1>5, <2>1, PartsOfKind
    <2> QED
        BY <1>6, <2>2 DEF ChecksWell, set
<1>7. CASE set # Failed
    <2>1. set \in NormalSets /\ \A i \in 1 .. n : found[i] # Failed
        BY <1>4, <1>7 DEF UnitedUpTo
    <2>2. \A t \in Int : Covers(set, t) <=> \E i \in 1 .. n : Covers(found[i], t)
        BY <1>4, <1>7 DEF UnitedUpTo
    <2>3. \A i \in 1 .. n : FindsAllowed(e.parts[i], timeline, found[i])
        BY <1>5, <2>1
    <2>4. \A t \in Int : Covers(set, t) => t \in Ticks(timeline)
        BY <2>2, <2>3 DEF FindsAllowed
    <2>5. ASSUME TickWise(e), NEW t \in Int
          PROVE  /\ Covers(set, t) => Allows(e, t)
                 /\ t \in Ticks(timeline) /\ Allows(e, t) => Covers(set, t)
        <3>1. \A i \in 1 .. n : TickWise(e.parts[i])
            BY <1>2, <2>5, PartsOfKind
        <3>2. Allows(e, t) <=> \E i \in 1 .. n : Allows(e.parts[i], t)
            BY <1>2, AllowsIs
        <3>3. ASSUME NEW i \in 1 .. n
              PROVE  /\ Covers(found[i], t) => Allows(e.parts[i], t)
                     /\ t \in Ticks(timeline) /\ Allows(e.parts[i], t) => Covers(found[i], t)
            BY <2>3, <3>1 DEF FindsAllowed
        <3> QED
            BY <2>2, <3>2, <3>3
    <2>6. FindsAllowed(e, timeline, set)
        BY <2>1, <2>4, <2>5 DEF FindsAllowed
    <2> QED
        BY <1>7, <2>6 DEF ChecksWell, set
<1> QED
    BY <1>6, <1>7

LEMMA IntersectionsCheckWell ==
    ASSUME NEW e \in HardExprs, e.kind = "intersection", NEW timeline \in Period,
           \A i \in DOMAIN e.parts : ChecksWell(e.parts[i], timeline)
    PROVE  ChecksWell(e, timeline)
<1> DEFINE found == Checked(e.parts, timeline)
           n == Len(found)
           set == CheckExpr(e, timeline)
<1>1. found \in Seq(AnySet) /\ n = Len(e.parts)
    BY CheckExprIs
<1>2. set = IF found = <<>> THEN <<timeline>> ELSE MeetAll(Head(found), Tail(found)).set
    BY CheckExprIs
<1>3. n \in Nat /\ DOMAIN e.parts = 1 .. n
    <2>1. e.parts \in Seq(HardExprs)
        BY HardCases
    <2> QED
        BY <1>1, <2>1
<1>4. \A i \in 1 .. n : found[i] = CheckExpr(e.parts[i], timeline) /\ found[i] \in AnySet
    <2>1. \A i \in 1 .. n : found[i] = CheckExpr(e.parts[i], timeline)
        BY <1>3 DEF Checked
    <2> HIDE DEF found
    <2>2. \A i \in 1 .. n : found[i] \in AnySet
        BY <1>1
    <2> QED
        BY <2>1, <2>2
<1>5. ASSUME NEW i \in 1 .. n
      PROVE  IF found[i] = Failed THEN CanFail(e.parts[i]) ELSE FindsAllowed(e.parts[i], timeline, found[i])
    BY <1>3, <1>4 DEF ChecksWell
<1>6. found = <<>> <=> n = 0
    <2> HIDE DEF found
    <2> QED
        BY <1>1
<1>7. n # 0 => IF FailsBy(found, n) THEN set = Failed
               ELSE /\ set \in NormalSets
                    /\ \A t \in Int : Covers(set, t) <=> AllCover(found, n, t)
    <2> HIDE DEF found
    <2> QED
        BY <1>1, <1>2, <1>6, MeetMeans DEF n
<1> HIDE DEF found, set, n
<1>8. CASE n = 0
    <2>1. set = <<timeline>>
        BY <1>2, <1>6, <1>8
    <2>2. set \in NormalSets /\ \A t \in Int : Covers(set, t) <=> t \in Ticks(timeline)
        BY <2>1, OnePeriod
    <2>3. \A t \in Int : Allows(e, t)
        BY <1>3, <1>8, AllowsIs
    <2>4. FindsAllowed(e, timeline, set)
        BY <2>2, <2>3 DEF FindsAllowed
    <2>5. set # Failed
        BY <2>2, NoSetIsFailed
    <2> QED
        BY <2>4, <2>5 DEF ChecksWell, set
<1>9. CASE n # 0 /\ FailsBy(found, n)
    <2>1. PICK j \in 1 .. n : found[j] = Failed
        BY <1>9 DEF FailsBy
    <2>2. CanFail(e)
        BY <1>3, <1>5, <2>1, PartsOfKind
    <2> QED
        BY <1>7, <1>9, <2>2 DEF ChecksWell, set
<1>10. CASE n # 0 /\ ~ FailsBy(found, n)
    <2>1. set \in NormalSets /\ \A t \in Int : Covers(set, t) <=> AllCover(found, n, t)
        BY <1>7, <1>10
    <2>2. 1 \in 1 .. n
        BY <1>3, <1>10
    <2>3. ASSUME NEW t \in Int, Covers(set, t) PROVE t \in Ticks(timeline)
        <3>1. found[1] # Failed /\ Covers(found[1], t)
            BY <2>1, <2>2, <2>3 DEF AllCover
        <3>2. FindsAllowed(e.parts[1], timeline, found[1])
            BY <1>5, <2>2, <3>1
        <3> QED
            BY <3>1, <3>2 DEF FindsAllowed
    <2>4. ASSUME TickWise(e), NEW t \in Int
          PROVE  /\ Covers(set, t) => Allows(e, t)
                 /\ t \in Ticks(timeline) /\ Allows(e, t) => Covers(set, t)
        <3>1. \A i \in 1 .. n : TickWise(e.parts[i])
            BY <1>3, <2>4, PartsOfKind
        <3>2. Allows(e, t) <=> \A i \in 1 .. n : Allows(e.parts[i], t)
            BY <1>3, AllowsIs
        <3>3. ASSUME NEW i \in 1 .. n, found[i] # Failed
              PROVE  /\ Covers(found[i], t) => Allows(e.parts[i], t)
                     /\ t \in Ticks(timeline) /\ Allows(e.parts[i], t) => Covers(found[i], t)
            <4>1. FindsAllowed(e.parts[i], timeline, found[i])
                BY <1>5, <3>3
            <4> QED
                BY <3>1, <4>1 DEF FindsAllowed
        <3>4. Covers(set, t) => Allows(e, t)
            BY <2>1, <3>2, <3>3 DEF AllCover
        <3>5. ASSUME t \in Ticks(timeline), Allows(e, t)
              PROVE  \A i \in 1 .. n : found[i] # Failed
            <4> SUFFICES ASSUME NEW k \in 1 .. n, found[k] = Failed
                         PROVE  FALSE
                OBVIOUS
            <4>1. PICK j \in 1 .. k : found[j] = Failed /\ \A i \in 1 .. j - 1 : found[i] # Failed
                BY <1>3, FirstFailure
            <4>2. j \in 1 .. n /\ \A i \in 1 .. j - 1 : i \in 1 .. n
                BY <1>3, <4>1
            <4>3. AllCover(found, j - 1, t)
                BY <3>2, <3>3, <3>5, <4>1, <4>2 DEF AllCover
            <4> QED
                BY <1>10, <4>1, <4>2, <4>3 DEF FailsBy
        <3>6. t \in Ticks(timeline) /\ Allows(e, t) => Covers(set, t)
            BY <2>1, <3>2, <3>3, <3>5 DEF AllCover
        <3> QED
            BY <3>4, <3>6
    <2>5. FindsAllowed(e, timeline, set)
        BY <2>1, <2>3, <2>4 DEF FindsAllowed
    <2>6. set # Failed
        BY <2>1, NoSetIsFailed
    <2> QED
        BY <2>5, <2>6 DEF ChecksWell, set
<1> QED
    BY <1>8, <1>9, <1>10

LEMMA ExpressionsCheckWell ==
    \A timeline \in Period : \A e \in HardExprs : ChecksWell(e, timeline)
<1> SUFFICES ASSUME NEW timeline \in Period
             PROVE  \A e \in HardExprs : ChecksWell(e, timeline)
    OBVIOUS
<1> DEFINE P == {e \in HardExprs : ChecksWell(e, timeline)}
<1>1. HardLeaves \subseteq P
    <2>1. HardLeaves \subseteq HardExprs
        BY HardShapes DEF DepthOf
    <2> QED
        BY <2>1, LeavesCheckWell
<1>2. ASSUME NEW e \in HardExprs, e.kind \in {"union", "intersection"},
             \A i \in DOMAIN e.parts : e.parts[i] \in P
      PROVE  e \in P
    <2>1. \A i \in DOMAIN e.parts : ChecksWell(e.parts[i], timeline)
        BY <1>2
    <2>2. CASE e.kind = "union"
        BY <2>1, <2>2, UnionsCheckWell
    <2>3. CASE e.kind = "intersection"
        BY <2>1, <2>3, IntersectionsCheckWell
    <2> QED
        BY <1>2, <2>2, <2>3
<1>3. \A e \in HardExprs : e.kind \in {"union", "intersection"} /\ e.parts \in Seq(HardExprs)
                           /\ (\A i \in DOMAIN e.parts : e.parts[i] \in P) => e \in P
    <2> HIDE DEF P
    <2> QED
        BY <1>2, Zenon
<1>4. HardExprs \subseteq P
    <2> HIDE DEF P
    <2> QED
        BY <1>1, <1>3, HardInduction
<1> QED
    BY <1>4

(* A run of ticks that a set in normal form covers lies in one of its      *)
(* periods.                                                                *)
LEMMA RunsLieInOne ==
    ASSUME NEW set \in NormalSets, NEW c \in Period, \A t \in Ticks(c) : Covers(set, t)
    PROVE  Covered(set, c)
<1>1. c.start \in Int /\ c.end \in Int /\ c.start < c.end
    BY PeriodFacts
<1>2. set \in Seq(Period) /\ IsNormal(set)
    BY DEF NormalSets
<1>3. c.start \in Ticks(c)
    BY <1>1 DEF Ticks
<1>4. PICK i \in DOMAIN set : set[i].start <= c.start /\ c.start < set[i].end
    BY <1>3 DEF Covers
<1>5. set[i].start \in Int /\ set[i].end \in Int
    BY <1>2, PeriodFacts
<1>6. CASE c.end <= set[i].end
    BY <1>4, <1>6 DEF Covered, Inside
<1>7. CASE set[i].end < c.end
    <2> DEFINE t == set[i].end
    <2>1. t \in Ticks(c)
        BY <1>1, <1>4, <1>5, <1>7 DEF Ticks
    <2>2. PICK j \in DOMAIN set : set[j].start <= t /\ t < set[j].end
        BY <2>1 DEF Covers
    <2>3. set[j].start \in Int /\ set[j].end \in Int
        BY <1>2, PeriodFacts
    <2>4. DOMAIN set = 1 .. Len(set) /\ Len(set) \in Nat
        BY <1>2
    <2>5. CASE i < j
        BY <1>2, <1>5, <2>2, <2>3, <2>5 DEF IsNormal
    <2>6. CASE j < i
        <3>1. set[j].end < set[i].start
            BY <1>2, <2>6 DEF IsNormal
        <3> QED
            BY <1>1, <1>4, <1>5, <2>2, <2>3, <3>1
    <2>7. CASE i = j
        BY <1>5, <2>2, <2>7
    <2> QED
        BY <2>4, <2>5, <2>6, <2>7
<1> QED
    BY <1>1, <1>5, <1>6, <1>7

(* What an expression without midpoints fails on inside a timeline it      *)
(* fails on in the whole of it.                                            *)
FailsOverall(e, timeline, c) ==
    TickWise(e) /\ CheckExpr(e, c) = Failed => CheckExpr(e, timeline) = Failed

LEMMA IntersectionsFailOverall ==
    ASSUME NEW e \in HardExprs, e.kind = "intersection", NEW timeline \in Period, NEW c \in Period,
           Ticks(c) \subseteq Ticks(timeline),
           \A i \in DOMAIN e.parts : FailsOverall(e.parts[i], timeline, c)
    PROVE  FailsOverall(e, timeline, c)
<1> DEFINE whole == Checked(e.parts, timeline)
           part == Checked(e.parts, c)
           n == Len(e.parts)
<1> SUFFICES ASSUME TickWise(e), CheckExpr(e, c) = Failed
             PROVE  CheckExpr(e, timeline) = Failed
    BY DEF FailsOverall
<1>1. whole \in Seq(AnySet) /\ Len(whole) = n /\ part \in Seq(AnySet) /\ Len(part) = n
    BY CheckExprIs
<1>2. n \in Nat /\ DOMAIN e.parts = 1 .. n
    BY HardCases
<1>3. CheckExpr(e, c) = IF part = <<>> THEN <<c>> ELSE MeetAll(Head(part), Tail(part)).set
    BY CheckExprIs
<1>4. CheckExpr(e, timeline) =
        IF whole = <<>> THEN <<timeline>> ELSE MeetAll(Head(whole), Tail(whole)).set
    BY CheckExprIs
<1>5. <<c>> # Failed
    BY OnePeriod, NoSetIsFailed
<1>6. \A i \in 1 .. n : e.parts[i] \in HardExprs /\ TickWise(e.parts[i])
    BY <1>2, PartsOfKind
<1>7. \A i \in 1 .. n : whole[i] = CheckExpr(e.parts[i], timeline) /\ part[i] = CheckExpr(e.parts[i], c)
    BY <1>2 DEF Checked
<1> HIDE DEF whole, part, n
<1>8. part # <<>> /\ n # 0 /\ whole # <<>>
    BY <1>1, <1>3, <1>5
<1>9. FailsBy(part, n)
    <2>1. MeetAll(Head(part), Tail(part)).set = Failed
        BY <1>3, <1>8
    <2> QED
        BY <1>1, <1>8, <2>1, MeetMeans, NoSetIsFailed
<1>10. PICK j \in 1 .. n : part[j] = Failed /\ (j <= 2 \/ \E t \in Int : AllCover(part, j - 1, t))
    BY <1>9 DEF FailsBy
<1>11. whole[j] = Failed
    BY <1>2, <1>6, <1>7, <1>10 DEF FailsOverall
<1>12. FailsBy(whole, n)
    <2>1. CASE j <= 2
        BY <1>11, <2>1 DEF FailsBy
    <2>2. CASE ~ (j <= 2)
        <3>1. PICK t \in Int : AllCover(part, j - 1, t)
            BY <1>10, <2>2
        <3>2. ASSUME NEW i \in 1 .. j - 1
              PROVE  Allows(e.parts[i], t) /\ t \in Ticks(timeline)
            <4>1. i \in 1 .. n
                BY <1>2
            <4>2. part[i] # Failed /\ Covers(part[i], t)
                BY <3>1 DEF AllCover
            <4>3. FindsAllowed(e.parts[i], c, part[i])
                BY <1>6, <1>7, <4>1, <4>2, ExpressionsCheckWell DEF ChecksWell
            <4> QED
                BY <1>6, <4>1, <4>2, <4>3 DEF FindsAllowed
        <3>3. PICK k \in 1 .. j : whole[k] = Failed /\ \A i \in 1 .. k - 1 : whole[i] # Failed
            BY <1>2, <1>11, FirstFailure
        <3>4. k \in 1 .. n /\ \A i \in 1 .. k - 1 : i \in 1 .. j - 1 /\ i \in 1 .. n
            BY <1>2, <3>3
        <3>5. ASSUME NEW i \in 1 .. k - 1
              PROVE  whole[i] # Failed /\ Covers(whole[i], t)
            <4>1. FindsAllowed(e.parts[i], timeline, whole[i])
                BY <1>6, <1>7, <3>3, <3>4, ExpressionsCheckWell DEF ChecksWell
            <4>2. Allows(e.parts[i], t) /\ t \in Ticks(timeline) /\ TickWise(e.parts[i])
                BY <1>6, <3>2, <3>4
            <4> QED
                BY <3>3, <4>1, <4>2 DEF FindsAllowed
        <3> QED
            BY <3>3, <3>4, <3>5 DEF FailsBy, AllCover
    <2> QED
        BY <2>1, <2>2
<1> QED
    BY <1>1, <1>4, <1>8, <1>12, MeetMeans

LEMMA ExpressionsFailOverall ==
    ASSUME NEW timeline \in Period, NEW c \in Period, Ticks(c) \subseteq Ticks(timeline)
    PROVE  \A e \in HardExprs : FailsOverall(e, timeline, c)
<1> DEFINE P == {e \in HardExprs : FailsOverall(e, timeline, c)}
<1>1. HardLeaves \subseteq P
    <2>1. HardLeaves \subseteq HardExprs
        BY HardShapes DEF DepthOf
    <2>2. ASSUME NEW e \in HardLeaves PROVE FailsOverall(e, timeline, c)
        <3>1. e \in HardExprs
            BY <2>1
        <3>2. CASE e.kind = "atom"
            <4>1. CheckExpr(e, c) # Failed
                <5>1. CheckExpr(e, c) = PeriodsOfTicks(e.allowed \cap Ticks(c))
                    BY <3>1, <3>2, CheckExprIs
                <5>2. e.allowed \in SUBSET Int
                    BY <3>1, <3>2, HardCases
                <5> QED
                    BY <5>1, <5>2, AtomSets, NoSetIsFailed
            <4> QED
                BY <4>1 DEF FailsOverall
        <3>3. CASE e.kind = "midpoint"
            BY <3>1, <3>3, HasLeafIs DEF FailsOverall, TickWise
        <3>4. CASE e.kind = "failing"
            BY <3>1, <3>4, CheckExprIs DEF FailsOverall
        <3> QED
            BY <3>1, <3>2, <3>3, <3>4, HardCases
    <2> QED
        BY <2>1, <2>2
<1>2. ASSUME NEW e \in HardExprs, e.kind \in {"union", "intersection"}, e.parts \in Seq(HardExprs),
             \A i \in DOMAIN e.parts : e.parts[i] \in P
      PROVE  e \in P
    <2>1. \A i \in DOMAIN e.parts : FailsOverall(e.parts[i], timeline, c)
        BY <1>2
    <2>2. CASE e.kind = "union"
        <3> SUFFICES ASSUME TickWise(e), CheckExpr(e, c) = Failed
                     PROVE  CheckExpr(e, timeline) = Failed
            BY DEF FailsOverall
        <3> DEFINE whole == Checked(e.parts, timeline)
                   part == Checked(e.parts, c)
                   n == Len(e.parts)
        <3>1. whole \in Seq(AnySet) /\ Len(whole) = n /\ part \in Seq(AnySet) /\ Len(part) = n
            BY <1>2, CheckExprIs
        <3>2. CheckExpr(e, c) = UnionAll(part) /\ CheckExpr(e, timeline) = UnionAll(whole)
            BY <2>2, CheckExprIs
        <3>3. DOMAIN e.parts = 1 .. n
            BY <1>2
        <3>4. \A i \in 1 .. n : whole[i] = CheckExpr(e.parts[i], timeline) /\ part[i] = CheckExpr(e.parts[i], c)
            BY <3>3 DEF Checked
        <3> HIDE DEF whole, part, n
        <3>5. PICK i \in 1 .. n : part[i] = Failed
            BY <3>1, <3>2, UnionMeans DEF UnitedUpTo
        <3>6. whole[i] = Failed
            BY <1>2, <2>1, <3>3, <3>4, <3>5, PartsOfKind DEF FailsOverall
        <3> QED
            BY <3>1, <3>2, <3>6, UnionMeans DEF UnitedUpTo
    <2>3. CASE e.kind = "intersection"
        BY <2>1, <2>3, IntersectionsFailOverall
    <2> QED
        BY <1>2, <2>2, <2>3
<1>3. \A e \in HardExprs : e.kind \in {"union", "intersection"} /\ e.parts \in Seq(HardExprs)
                           /\ (\A i \in DOMAIN e.parts : e.parts[i] \in P) => e \in P
    <2> HIDE DEF P
    <2> QED
        BY <1>2, Zenon
<1>4. HardExprs \subseteq P
    <2> HIDE DEF P
    <2> QED
        BY <1>1, <1>3, HardInduction
<1> QED
    BY <1>4

(* The windows of a set, each checked on its own.                          *)
InsideWindows(e, windows) == [n \in DOMAIN windows |-> CheckExpr(e, windows[n])]

LEMMA InsideWindowsMeans ==
    ASSUME NEW e \in HardExprs, NEW windows \in NormalSets
    PROVE  LET out == CheckInside(e, windows) IN
           /\ out \in AnySet
           /\ out = Failed => \E n \in DOMAIN windows : CheckExpr(e, windows[n]) = Failed
           /\ out # Failed =>
                /\ out \in NormalSets
                /\ \A n \in DOMAIN windows : CheckExpr(e, windows[n]) # Failed
                /\ \A t \in Int : Covers(out, t) => Covers(windows, t)
                /\ TickWise(e) =>
                     \A t \in Int : Covers(out, t) <=> Covers(windows, t) /\ Allows(e, t)
<1> DEFINE list == InsideWindows(e, windows)
           out == CheckInside(e, windows)
           n == Len(windows)
<1>1. windows \in Seq(Period) /\ n \in Nat /\ DOMAIN windows = 1 .. n
    BY DEF NormalSets
<1>2. \A i \in 1 .. n : windows[i] \in Period
    BY <1>1
<1>3. \A i \in 1 .. n : list[i] = CheckExpr(e, windows[i]) /\ list[i] \in AnySet
    BY <1>1, <1>2, CheckExprIs DEF InsideWindows
<1>4. list \in Seq(AnySet) /\ Len(list) = n
    BY <1>1, <1>3 DEF InsideWindows
<1>5. out = UnionAll(list)
    BY DEF CheckInside, UnionAll, InsideWindows
<1> HIDE DEF list, out, n
<1>6. out \in AnySet /\ UnitedUpTo(list, out, n)
    BY <1>4, <1>5, UnionMeans
<1>7. out = Failed => \E i \in DOMAIN windows : CheckExpr(e, windows[i]) = Failed
    BY <1>1, <1>3, <1>6 DEF UnitedUpTo
<1>8. ASSUME out # Failed
      PROVE  /\ out \in NormalSets
             /\ \A i \in DOMAIN windows : CheckExpr(e, windows[i]) # Failed
             /\ \A t \in Int : Covers(out, t) => Covers(windows, t)
             /\ TickWise(e) => \A t \in Int : Covers(out, t) <=> Covers(windows, t) /\ Allows(e, t)
    <2>1. out \in NormalSets /\ \A i \in 1 .. n : list[i] # Failed
        BY <1>6, <1>8 DEF UnitedUpTo
    <2>2. \A t \in Int : Covers(out, t) <=> \E i \in 1 .. n : Covers(list[i], t)
        BY <1>6, <1>8 DEF UnitedUpTo
    <2>3. \A i \in 1 .. n : FindsAllowed(e, windows[i], list[i])
        BY <1>2, <1>3, <2>1, ExpressionsCheckWell DEF ChecksWell
    <2>4. \A t \in Int : Covers(windows, t) <=> \E i \in 1 .. n : t \in Ticks(windows[i])
        <3>1. \A i \in 1 .. n : windows[i].start \in Int /\ windows[i].end \in Int
            BY <1>2, PeriodFacts
        <3>2. ASSUME NEW t \in Int, NEW i \in 1 .. n
              PROVE  t \in Ticks(windows[i]) <=> windows[i].start <= t /\ t < windows[i].end
            BY <3>1 DEF Ticks
        <3> QED
            BY <1>1, <3>2 DEF Covers
    <2>5. \A t \in Int : Covers(out, t) => Covers(windows, t)
        BY <2>2, <2>3, <2>4 DEF FindsAllowed
    <2>6. ASSUME TickWise(e), NEW t \in Int
          PROVE  Covers(out, t) <=> Covers(windows, t) /\ Allows(e, t)
        <3>1. ASSUME NEW i \in 1 .. n
              PROVE  Covers(list[i], t) <=> t \in Ticks(windows[i]) /\ Allows(e, t)
            BY <2>3, <2>6 DEF FindsAllowed
        <3> QED
            BY <2>2, <2>4, <3>1
    <2> QED
        BY <1>1, <1>3, <2>1, <2>5, <2>6
<1> QED
    BY <1>6, <1>7, <1>8 DEF out

LEMMA UnconstrainedFacts ==
    ASSUME NEW e \in HardExprs, IsUnconstrained(e)
    PROVE  /\ \A t : Allows(e, t)
           /\ \A timeline \in Period : CheckExpr(e, timeline) = <<timeline>>
<1>1. e.kind = "intersection" /\ e.parts = <<>>
    BY DEF IsUnconstrained, Unconstrained, Intersection
<1>2. \A t : Allows(e, t)
    BY <1>1, AllowsIs
<1>3. ASSUME NEW timeline \in Period PROVE CheckExpr(e, timeline) = <<timeline>>
    <2>1. Checked(e.parts, timeline) = <<>>
        BY <1>1 DEF Checked
    <2> QED
        BY <1>1, <2>1, CheckExprIs
<1> QED
    BY <1>2, <1>3

(* How the two stages end.                                                 *)
HardEnds(static, dynamic, timeline, found) ==
    IF found = Failed THEN CanFail(static) \/ CanFail(dynamic)
    ELSE /\ found \in NormalSets
         /\ \A t \in Int : Covers(found, t) => t \in Ticks(timeline)
         /\ TickWise(static) /\ TickWise(dynamic) =>
               \A t \in Int : Covers(found, t)
                    <=> t \in Ticks(timeline) /\ Allows(static, t) /\ Allows(dynamic, t)

LEMMA TwoStages ==
    ASSUME NEW static \in HardExprs, NEW dynamic \in HardExprs, NEW timeline \in Period
    PROVE  HardEnds(static, dynamic, timeline, CheckHard(static, dynamic, timeline))
<1> DEFINE s == CheckExpr(static, timeline)
           d == IF IsUnconstrained(static) THEN CheckExpr(dynamic, timeline)
                                           ELSE CheckInside(dynamic, s)
           found == CheckHard(static, dynamic, timeline)
<1>1. found = IF s = Failed \/ s = <<>> \/ IsUnconstrained(dynamic) THEN s
              ELSE IF d = Failed THEN Failed ELSE IntersectionOf(s, d)
    BY DEF CheckHard
<1>2. ChecksWell(static, timeline) /\ ChecksWell(dynamic, timeline)
    BY ExpressionsCheckWell
<1>3. IF s = Failed THEN CanFail(static) ELSE FindsAllowed(static, timeline, s)
    BY <1>2 DEF ChecksWell
<1>4. \A set \in NormalSets : \A other \in NormalSets :
        /\ IntersectionOf(set, other) \in NormalSets
        /\ \A t \in Int : Covers(IntersectionOf(set, other), t) <=> Covers(set, t) /\ Covers(other, t)
    BY IntersectionFacts DEF NormalSets
<1> HIDE DEF found
<1>5. CASE s = Failed
    BY <1>1, <1>3, <1>5 DEF HardEnds, found
<1>6. CASE s # Failed /\ s = <<>>
    <2>1. found = s /\ FindsAllowed(static, timeline, s) /\ \A t : ~ Covers(s, t)
        BY <1>1, <1>3, <1>6, NoSetIsFailed
    <2> HIDE DEF s
    <2>2. HardEnds(static, dynamic, timeline, s)
        BY <1>6, <2>1 DEF HardEnds, FindsAllowed
    <2> QED
        BY <2>1, <2>2 DEF found
<1>7. CASE s # Failed /\ s # <<>> /\ IsUnconstrained(dynamic)
    <2>1. found = s /\ FindsAllowed(static, timeline, s) /\ \A t : Allows(dynamic, t)
        BY <1>1, <1>3, <1>7, UnconstrainedFacts
    <2> HIDE DEF s
    <2>2. HardEnds(static, dynamic, timeline, s)
        BY <1>7, <2>1 DEF HardEnds, FindsAllowed
    <2> QED
        BY <2>1, <2>2 DEF found
<1>8. CASE s # Failed /\ s # <<>> /\ ~ IsUnconstrained(dynamic)
    <2>1. FindsAllowed(static, timeline, s) /\ s \in NormalSets
        BY <1>3, <1>8 DEF FindsAllowed
    <2>2. found = IF d = Failed THEN Failed ELSE IntersectionOf(s, d)
        BY <1>1, <1>8
    <2>3. d = Failed => CanFail(dynamic)
        <3>1. CASE IsUnconstrained(static)
            BY <1>2, <3>1 DEF ChecksWell
        <3>2. CASE ~ IsUnconstrained(static)
            <4> SUFFICES ASSUME d = Failed PROVE CanFail(dynamic)
                OBVIOUS
            <4>1. PICK n \in DOMAIN s : CheckExpr(dynamic, s[n]) = Failed
                BY <2>1, <3>2, InsideWindowsMeans
            <4>2. s[n] \in Period
                BY <2>1 DEF NormalSets
            <4> QED
                BY <4>1, <4>2, ExpressionsCheckWell DEF ChecksWell
        <3> QED
            BY <3>1, <3>2
    <2>4. d # Failed =>
            /\ d \in NormalSets
            /\ TickWise(dynamic) => \A t \in Int : Covers(s, t) => (Covers(d, t) <=> Allows(dynamic, t))
        <3>1. CASE IsUnconstrained(static)
            <4> SUFFICES ASSUME d # Failed
                         PROVE  /\ d \in NormalSets
                                /\ TickWise(dynamic) =>
                                     \A t \in Int : Covers(s, t) => (Covers(d, t) <=> Allows(dynamic, t))
                OBVIOUS
            <4>1. FindsAllowed(dynamic, timeline, d)
                BY <1>2, <3>1 DEF ChecksWell
            <4> HIDE DEF d, s
            <4> QED
                BY <2>1, <4>1 DEF FindsAllowed
        <3>2. CASE ~ IsUnconstrained(static)
            BY <2>1, <3>2, InsideWindowsMeans
        <3> QED
            BY <3>1, <3>2
    <2> HIDE DEF s, d
    <2>5. CASE d = Failed
        BY <2>2, <2>3, <2>5 DEF HardEnds, found
    <2>6. CASE d # Failed
        <3>1. found = IntersectionOf(s, d) /\ d \in NormalSets
            BY <2>2, <2>4, <2>6
        <3>2. found \in NormalSets /\ \A t \in Int : Covers(found, t) <=> Covers(s, t) /\ Covers(d, t)
            BY <1>4, <2>1, <3>1
        <3>3. found # Failed
            BY <3>2, NoSetIsFailed
        <3>4. HardEnds(static, dynamic, timeline, found)
            BY <2>1, <2>4, <2>6, <3>2, <3>3 DEF HardEnds, FindsAllowed
        <3> QED
            BY <3>4 DEF found
    <2> QED
        BY <2>5, <2>6
<1> QED
    BY <1>5, <1>6, <1>7, <1>8

(* A candidate that the whole timeline has room for does not make the      *)
(* check fail.                                                             *)
LEMMA CandidatesCheck ==
    ASSUME NEW static \in HardExprs, NEW dynamic \in HardExprs, TickWise(static), TickWise(dynamic),
           NEW timeline \in Period, NEW c \in Period, Ticks(c) \subseteq Ticks(timeline),
           CheckHard(static, dynamic, timeline) # Failed
    PROVE  CheckHard(static, dynamic, c) # Failed
<1> DEFINE s(p) == CheckExpr(static, p)
           d(p) == IF IsUnconstrained(static) THEN CheckExpr(dynamic, p) ELSE CheckInside(dynamic, s(p))
           found(p) == CheckHard(static, dynamic, p)
<1>1. \A p : found(p) = IF s(p) = Failed \/ s(p) = <<>> \/ IsUnconstrained(dynamic) THEN s(p)
                        ELSE IF d(p) = Failed THEN Failed ELSE IntersectionOf(s(p), d(p))
    BY DEF CheckHard
<1>2. s(timeline) # Failed
    BY <1>1
<1>3. s(c) # Failed
    BY <1>2, ExpressionsFailOverall DEF FailsOverall
<1>4. FindsAllowed(static, timeline, s(timeline)) /\ FindsAllowed(static, c, s(c))
    BY <1>2, <1>3, ExpressionsCheckWell DEF ChecksWell
<1>5. \A t \in Int : Covers(s(c), t) => Covers(s(timeline), t)
    BY <1>4 DEF FindsAllowed
<1>6. s(c) \in NormalSets /\ s(timeline) \in NormalSets
    BY <1>4 DEF FindsAllowed
<1>7. CASE s(c) = <<>> \/ IsUnconstrained(dynamic)
    BY <1>1, <1>3, <1>7
<1>8. CASE s(c) # <<>> /\ ~ IsUnconstrained(dynamic)
    <2>1. s(timeline) # <<>>
        <3>1. \E t \in Int : Covers(s(c), t)
            BY <1>6, <1>8, NoSetIsFailed
        <3> HIDE DEF s
        <3> QED
            BY <1>5, <3>1, NoSetIsFailed
    <2>2. d(timeline) # Failed
        BY <1>1, <1>2, <1>8, <2>1
    <2>3. d(c) # Failed
        <3>1. CASE IsUnconstrained(static)
            <4>1. CheckExpr(dynamic, timeline) # Failed
                BY <2>2, <3>1
            <4> QED
                BY <3>1, <4>1, ExpressionsFailOverall DEF FailsOverall
        <3>2. CASE ~ IsUnconstrained(static)
            <4> SUFFICES ASSUME d(c) = Failed PROVE FALSE
                OBVIOUS
            <4>1. CheckInside(dynamic, s(timeline)) # Failed /\ CheckInside(dynamic, s(c)) = Failed
                BY <2>2, <3>2
            <4> HIDE DEF s, d, found
            <4>2. PICK n \in DOMAIN s(c) : CheckExpr(dynamic, s(c)[n]) = Failed
                BY <1>6, <4>1, InsideWindowsMeans
            <4>3. s(c)[n] \in Period
                BY <1>6 DEF NormalSets
            <4>4. \A t \in Ticks(s(c)[n]) : Covers(s(timeline), t)
                <5>1. s(c)[n].start \in Int /\ s(c)[n].end \in Int
                    BY <4>3, PeriodFacts
                <5>2. \A t \in Ticks(s(c)[n]) : t \in Int /\ Covers(s(c), t)
                    BY <5>1 DEF Ticks, Covers
                <5> QED
                    BY <1>5, <5>2
            <4>5. PICK m \in DOMAIN s(timeline) : Inside(s(c)[n], s(timeline)[m])
                BY <1>6, <4>3, <4>4, RunsLieInOne DEF Covered
            <4>6. s(timeline)[m] \in Period
                BY <1>6 DEF NormalSets
            <4>7. Ticks(s(c)[n]) \subseteq Ticks(s(timeline)[m])
                BY <4>3, <4>5, <4>6, PeriodFacts DEF Inside, Ticks
            <4>8. CheckExpr(dynamic, s(timeline)[m]) = Failed
                BY <4>2, <4>3, <4>6, <4>7, ExpressionsFailOverall DEF FailsOverall
            <4> QED
                BY <1>6, <4>1, <4>8, InsideWindowsMeans
        <3> QED
            BY <3>1, <3>2
    <2>4. IntersectionOf(s(c), d(c)) # Failed
        <3>1. found(c) = Failed => CanFail(static) \/ CanFail(dynamic)
            BY TwoStages DEF HardEnds
        <3>2. d(c) \in NormalSets
            <4>1. CASE IsUnconstrained(static)
                BY <2>3, <4>1, CheckExprIs DEF AnySet
            <4>2. CASE ~ IsUnconstrained(static)
                BY <1>6, <2>3, <4>2, InsideWindowsMeans DEF AnySet
            <4> QED
                BY <4>1, <4>2
        <3> HIDE DEF s, d
        <3>3. IntersectionOf(s(c), d(c)) \in NormalSets
            BY <1>6, <3>2, IntersectionFacts DEF NormalSets
        <3> QED
            BY <3>3, NoSetIsFailed
    <2> HIDE DEF s, d
    <2> QED
        BY <1>1, <1>3, <1>8, <2>3, <2>4
<1> QED
    BY <1>7, <1>8

(* Whatever the expressions, their nesting and the timeline: the check in  *)
(* two stages decides as checking everything at every tick, and again for  *)
(* any part of what it found (constraints/types.rs:34-80).                 *)
THEOREM StagedChecksAlwaysAgree ==
    ASSUME About("hard") => /\ sample.static \in HardExprs /\ sample.dynamic \in HardExprs
                            /\ sample.timeline \in PeriodsOver(Int)
    PROVE  StagedChecksAgree
<1> DEFINE static == sample.static
           dynamic == sample.dynamic
           timeline == sample.timeline
           found == CheckHard(static, dynamic, timeline)
<1> SUFFICES ASSUME About("hard") PROVE StagedChecksAgree
    BY DEF StagedChecksAgree, CheckIsPointwise, WindowsHoldForCandidates
<1>1. static \in HardExprs /\ dynamic \in HardExprs /\ timeline \in Period
    BY DEF Period
<1>2. HardEnds(static, dynamic, timeline, found)
    BY <1>1, TwoStages
<1>3. timeline.start \in Int /\ timeline.end \in Int /\ Ticks(timeline) \subseteq Int
    BY <1>1, PeriodFacts DEF Ticks
<1>4. BothTickWise <=> TickWise(static) /\ TickWise(dynamic)
    BY DEF BothTickWise
<1>5. CheckIsPointwise
    <2> SUFFICES IF found = Failed THEN CanFail(static) \/ CanFail(dynamic)
                 ELSE /\ IsNormal(found)
                      /\ Points(found) \subseteq Ticks(timeline)
                      /\ BothTickWise =>
                           Points(found) = {t \in Ticks(timeline) : Allows(static, t) /\ Allows(dynamic, t)}
        BY DEF CheckIsPointwise
    <2> HIDE DEF static, dynamic, timeline, found
    <2>1. CASE found = Failed
        BY <1>2, <2>1 DEF HardEnds
    <2>2. CASE found # Failed
        <3>1. found \in Seq(Period) /\ IsNormal(found)
            BY <1>2, <2>2 DEF HardEnds, NormalSets
        <3>2. \A t : t \in Points(found) <=> t \in Int /\ Covers(found, t)
            BY <3>1, PointsAreCovered
        <3>3. Points(found) \subseteq Ticks(timeline)
            BY <1>2, <2>2, <3>2 DEF HardEnds
        <3>4. ASSUME BothTickWise
              PROVE  Points(found) = {t \in Ticks(timeline) : Allows(static, t) /\ Allows(dynamic, t)}
            <4>1. \A t \in Int : Covers(found, t)
                    <=> t \in Ticks(timeline) /\ Allows(static, t) /\ Allows(dynamic, t)
                BY <1>2, <1>4, <2>2, <3>4 DEF HardEnds
            <4> QED
                BY <1>3, <3>2, <4>1
        <3> QED
            BY <2>2, <3>1, <3>3, <3>4
    <2> QED
        BY <2>1, <2>2
<1>6. WindowsHoldForCandidates
    <2> SUFFICES ASSUME BothTickWise, found # Failed,
                        NEW c \in PeriodsOver(Ticks(timeline)), Covered(found, c)
                 PROVE  /\ CheckHard(static, dynamic, c) # Failed
                        /\ Covered(CheckHard(static, dynamic, c), c)
        BY DEF WindowsHoldForCandidates
    <2> DEFINE again == CheckHard(static, dynamic, c)
    <2> HIDE DEF static, dynamic, timeline
    <2>1. c \in Period /\ c.start \in Ticks(timeline) /\ c.end \in Ticks(timeline)
        BY <1>3 DEF Period, PeriodsOver
    <2>2. Ticks(c) \subseteq Ticks(timeline) /\ Ticks(c) \subseteq Int
        BY <1>3, <2>1, PeriodFacts DEF Ticks
    <2>3. again # Failed
        BY <1>1, <1>4, <2>1, <2>2, CandidatesCheck
    <2>4. HardEnds(static, dynamic, c, again)
        BY <1>1, <2>1, TwoStages
    <2> HIDE DEF again, found
    <2>5. PICK i \in DOMAIN found : Inside(c, found[i])
        BY DEF Covered
    <2>6. found \in Seq(Period)
        BY <1>2 DEF HardEnds, NormalSets
    <2>7. ASSUME NEW t \in Ticks(c) PROVE Covers(again, t)
        <3>1. t \in Int
            BY <2>2
        <3>2. Covers(found, t)
            <4>1. found[i] \in Period /\ found[i].start \in Int /\ found[i].end \in Int
                BY <2>6, PeriodFacts
            <4>2. c.start <= t /\ t < c.end /\ c.start \in Int /\ c.end \in Int
                BY <2>1, <3>1, PeriodFacts DEF Ticks
            <4> QED
                BY <2>5, <3>1, <4>1, <4>2 DEF Inside, Covers
        <3>3. Allows(static, t) /\ Allows(dynamic, t)
            BY <1>2, <1>4, <3>1, <3>2 DEF HardEnds
        <3> QED
            BY <1>4, <2>3, <2>4, <3>1, <3>3 DEF HardEnds
    <2>8. again \in NormalSets
        BY <2>3, <2>4 DEF HardEnds
    <2>9. Covered(again, c)
        BY <2>1, <2>7, <2>8, RunsLieInOne
    <2> QED
        BY <2>3, <2>9 DEF again
<1> QED
    BY <1>5, <1>6 DEF StagedChecksAgree
=============================================================================
