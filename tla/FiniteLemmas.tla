---------------------------- MODULE FiniteLemmas ----------------------------
(***************************************************************************)
(* Facts about numbers, finite sets, strict orders and folds that the      *)
(* proofs of several components rest on.  A fold of the community modules  *)
(* is CHOOSE g : g = [s \in SUBSET S |-> ...], which takes the elements of *)
(* S one by one: FoldExists shows that such a g exists, and Shrinking is   *)
(* the induction that tells what it is.                                    *)
(***************************************************************************)
EXTENDS Integers, Sequences, FiniteSets, FiniteSetTheorems, FunctionTheorems, WellFoundedInduction, TLAPS

(* A set of natural numbers has a least one. *)
LEMMA LeastNumber ==
    ASSUME NEW S \in SUBSET Nat, S # {}
    PROVE  \E n \in S : \A m \in S : n <= m
<1> DEFINE R == {ss \in Nat \X Nat : ss[1] < ss[2]}
<1>1. OpToRel(<, Nat) = R
    BY DEF OpToRel
<1>2. IsWellFoundedOn(R, Nat)
    BY <1>1, NatLessThanWellFounded
<1> HIDE DEF R
<1>3. \E n \in S : \A m \in S : ~ (<<m, n>> \in R)
    BY <1>2, WFMin
<1>4. PICK n \in S : \A m \in S : ~ (<<m, n>> \in R)
    BY <1>3
<1>5. \A m \in S : ~ (m < n)
    BY <1>4 DEF R
<1>6. \A m \in S : n <= m
    BY <1>5
<1> QED
    BY <1>6

(* A set of integers below a bound has a largest one.                      *)
LEMMA LargestNumber ==
    ASSUME NEW S \in SUBSET Int, S # {}, NEW high \in Int, \A x \in S : x <= high
    PROVE  \E m \in S : \A x \in S : x <= m
<1> DEFINE T == {high - x : x \in S}
<1>1. T \in SUBSET Nat /\ T # {}
    <2>1. \A x \in S : high - x \in Nat
        OBVIOUS
    <2> QED
        BY <2>1
<1> HIDE DEF T
<1>2. PICK n \in T : \A y \in T : n <= y
    BY <1>1, LeastNumber
<1> USE DEF T
<1>3. PICK m \in S : n = high - m
    BY <1>2
<1>4. ASSUME NEW x \in S
      PROVE  x <= m
    <2>1. high - m <= high - x
        BY <1>2, <1>3
    <2>2. x \in Int /\ m \in Int
        OBVIOUS
    <2> HIDE DEF T
    <2> QED
        BY <2>1, <2>2
<1> QED
    BY <1>4

(* Induction, for a property of numbers that is given as a set.            *)
LEMMA CountingUp ==
    ASSUME NEW P, 0 \in P, \A n \in Nat : n \in P => n + 1 \in P
    PROVE  Nat \subseteq P
<1> DEFINE bad == Nat \ P
<1> SUFFICES ASSUME bad # {} PROVE FALSE
    OBVIOUS
<1>1. PICK m \in bad : \A n \in bad : m <= n
    BY LeastNumber
<1>2. m \in Nat /\ m # 0
    OBVIOUS
<1>3. m - 1 \in Nat /\ m - 1 < m /\ (m - 1) + 1 = m
    BY <1>2
<1>4. m - 1 \in P
    BY <1>1, <1>3
<1> QED
    BY <1>3, <1>4

(* A finite set has a finite image, of its own size if nothing is merged.  *)
LEMMA ImageCount ==
    ASSUME NEW S, IsFiniteSet(S), NEW f, f = [x \in S |-> f[x]]
    PROVE  /\ IsFiniteSet({f[x] : x \in S})
           /\ (\A x, y \in S : f[x] = f[y] => x = y) =>
                 Cardinality({f[x] : x \in S}) = Cardinality(S)
<1> DEFINE T == {f[x] : x \in S}
<1>1. f \in Surjection(S, T)
    BY DEF Surjection
<1>2. IsFiniteSet(T) /\ (Cardinality(T) = Cardinality(S) <=> f \in Injection(S, T))
    BY <1>1, FS_Surjection
<1> QED
    BY <1>1, <1>2 DEF Injection, Surjection, IsInjective

-----------------------------------------------------------------------------
(* Ranks.  The position of an element in a strict total order of a finite  *)
(* set is the number of elements below it; each position is taken once.    *)

Preceding(S, R, u) == {v \in S : <<v, u>> \in R}

StrictTotalOrder(S, R) ==
    /\ \A u \in S : <<u, u>> \notin R
    /\ \A u, v, w \in S : <<u, v>> \in R /\ <<v, w>> \in R => <<u, w>> \in R
    /\ \A u, v \in S : u # v => <<u, v>> \in R \/ <<v, u>> \in R

LEMMA RankIsStrict ==
    ASSUME NEW S, NEW R, IsFiniteSet(S), StrictTotalOrder(S, R),
           NEW u \in S, NEW v \in S, <<u, v>> \in R
    PROVE  Cardinality(Preceding(S, R, u)) < Cardinality(Preceding(S, R, v))
<1>1. Preceding(S, R, u) \subseteq Preceding(S, R, v) /\ Preceding(S, R, v) \subseteq S
    BY DEF Preceding, StrictTotalOrder
<1>2. u \in Preceding(S, R, v) /\ u \notin Preceding(S, R, u)
    BY DEF Preceding, StrictTotalOrder
<1>3. IsFiniteSet(Preceding(S, R, v))
    BY <1>1, FS_Subset
<1>4. IsFiniteSet(Preceding(S, R, u)) /\ Cardinality(Preceding(S, R, u)) <= Cardinality(Preceding(S, R, v))
    BY <1>1, <1>3, FS_Subset
<1>5. Cardinality(Preceding(S, R, u)) # Cardinality(Preceding(S, R, v))
    BY <1>1, <1>2, <1>3, FS_Subset
<1> QED
    BY <1>3, <1>4, <1>5, FS_CardinalityType

LEMMA RankIsBijective ==
    ASSUME NEW S, NEW R, IsFiniteSet(S), StrictTotalOrder(S, R)
    PROVE  /\ \A u \in S : Cardinality(Preceding(S, R, u)) \in 0 .. Cardinality(S) - 1
           /\ \A u, v \in S :
                 Cardinality(Preceding(S, R, u)) = Cardinality(Preceding(S, R, v)) => u = v
           /\ \A i \in 0 .. Cardinality(S) - 1 :
                 \E u \in S : Cardinality(Preceding(S, R, u)) = i
<1> DEFINE n == Cardinality(S)
<1> DEFINE r == [u \in S |-> Cardinality(Preceding(S, R, u))]
<1>0. n \in Nat
    BY FS_CardinalityType
<1>1. ASSUME NEW u \in S
      PROVE  Cardinality(Preceding(S, R, u)) \in 0 .. n - 1
    <2>1. Preceding(S, R, u) \subseteq S /\ u \notin Preceding(S, R, u)
        BY DEF Preceding, StrictTotalOrder
    <2>2. /\ IsFiniteSet(Preceding(S, R, u))
          /\ Cardinality(Preceding(S, R, u)) <= n
          /\ Cardinality(Preceding(S, R, u)) # n
        BY <2>1, FS_Subset
    <2>3. Cardinality(Preceding(S, R, u)) \in Nat
        BY <2>2, FS_CardinalityType
    <2> QED
        BY <1>0, <2>2, <2>3
<1>2. ASSUME NEW u \in S, NEW v \in S,
             Cardinality(Preceding(S, R, u)) = Cardinality(Preceding(S, R, v))
      PROVE  u = v
    <2>1. Cardinality(Preceding(S, R, u)) \in Int /\ Cardinality(Preceding(S, R, v)) \in Int
        BY <1>1
    <2>2. <<u, v>> \notin R /\ <<v, u>> \notin R
        BY <1>2, <2>1, RankIsStrict
    <2> QED
        BY <2>2 DEF StrictTotalOrder
<1>3. ASSUME NEW i \in 0 .. n - 1
      PROVE  \E u \in S : Cardinality(Preceding(S, R, u)) = i
    <2>1. r \in Injection(S, 0 .. n - 1)
        BY <1>1, <1>2, Fun_IsInj
    <2>2. IsFiniteSet(0 .. n - 1) /\ Cardinality(0 .. n - 1) = n
        BY <1>0, FS_Interval
    <2>3. r \in Surjection(S, 0 .. n - 1)
        BY <2>1, <2>2, FS_Injection
    <2>4. \E u \in S : r[u] = i
        <3> HIDE DEF r, n
        <3> QED
            BY <2>3 DEF Surjection
    <2> QED
        BY <2>4
<1> QED
    BY <1>1, <1>2, <1>3

LEMMA RankIsTaken ==
    ASSUME NEW S, NEW R, IsFiniteSet(S), StrictTotalOrder(S, R),
           NEW i \in 0 .. Cardinality(S) - 1
    PROVE  \E u \in S : Cardinality(Preceding(S, R, u)) = i
    BY RankIsBijective

(* What comes before has the lower position.                               *)
LEMMA RankTellsOrder ==
    ASSUME NEW S, NEW R, IsFiniteSet(S), StrictTotalOrder(S, R), NEW u \in S, NEW v \in S
    PROVE  Cardinality(Preceding(S, R, u)) < Cardinality(Preceding(S, R, v)) <=> <<u, v>> \in R
<1>1. Cardinality(Preceding(S, R, u)) \in Int /\ Cardinality(Preceding(S, R, v)) \in Int
    BY RankIsBijective
<1>2. CASE <<u, v>> \in R
    BY <1>2, RankIsStrict
<1>3. CASE <<v, u>> \in R
    <2>1. Cardinality(Preceding(S, R, v)) < Cardinality(Preceding(S, R, u))
        BY <1>3, RankIsStrict
    <2>2. <<u, v>> \notin R
        BY <1>3 DEF StrictTotalOrder
    <2> QED
        BY <1>1, <2>1, <2>2
<1>4. CASE u = v
    BY <1>1, <1>4 DEF StrictTotalOrder
<1> QED
    BY <1>2, <1>3, <1>4 DEF StrictTotalOrder

(* The elements of a set, in an order: every one stands in its place.      *)
InLine(S, R, L) ==
    /\ L = [n \in 1 .. Cardinality(S) |-> L[n]]
    /\ \A n \in 1 .. Cardinality(S) :
          L[n] \in S /\ Cardinality(Preceding(S, R, L[n])) = n - 1

LEMMA InLineFacts ==
    ASSUME NEW S, NEW R, IsFiniteSet(S), StrictTotalOrder(S, R), NEW L, InLine(S, R, L)
    PROVE  /\ L \in Seq(S) /\ Len(L) = Cardinality(S) /\ DOMAIN L = 1 .. Cardinality(S)
           /\ \A i, j \in DOMAIN L : i < j <=> <<L[i], L[j]>> \in R
           /\ \A u \in S : \E n \in DOMAIN L : L[n] = u
<1>1. Cardinality(S) \in Nat
    BY FS_CardinalityType
<1>2. /\ L = [n \in 1 .. Cardinality(S) |-> L[n]]
      /\ \A n \in 1 .. Cardinality(S) :
            L[n] \in S /\ Cardinality(Preceding(S, R, L[n])) = n - 1
    BY DEF InLine
<1>3. DOMAIN L = 1 .. Cardinality(S)
    BY <1>2
<1>4. L \in Seq(S) /\ Len(L) = Cardinality(S)
    BY <1>1, <1>2
<1>5. ASSUME NEW i \in DOMAIN L, NEW j \in DOMAIN L
      PROVE  i < j <=> <<L[i], L[j]>> \in R
    <2>1. /\ L[i] \in S /\ Cardinality(Preceding(S, R, L[i])) = i - 1
          /\ L[j] \in S /\ Cardinality(Preceding(S, R, L[j])) = j - 1
        BY <1>2, <1>3
    <2>2. i - 1 < j - 1 <=> <<L[i], L[j]>> \in R
        BY <2>1, RankTellsOrder
    <2>3. i \in Int /\ j \in Int
        BY <1>3
    <2> QED
        BY <2>2, <2>3
<1>6. ASSUME NEW u \in S
      PROVE  \E n \in DOMAIN L : L[n] = u
    <2>1. Cardinality(Preceding(S, R, u)) \in 0 .. Cardinality(S) - 1
        BY RankIsBijective
    <2>2. PICK n : n = Cardinality(Preceding(S, R, u)) + 1
        OBVIOUS
    <2>3. n \in 1 .. Cardinality(S) /\ n - 1 = Cardinality(Preceding(S, R, u))
        BY <1>1, <2>1, <2>2
    <2>4. L[n] \in S /\ Cardinality(Preceding(S, R, L[n])) = Cardinality(Preceding(S, R, u))
        BY <1>2, <2>3
    <2>5. L[n] = u
        BY <2>4, RankIsBijective
    <2> QED
        BY <1>3, <2>3, <2>5
<1> QED
    BY <1>3, <1>4, <1>5, <1>6

LEMMA OneLine ==
    ASSUME NEW S, NEW R, IsFiniteSet(S), StrictTotalOrder(S, R),
           NEW L, InLine(S, R, L), NEW M, InLine(S, R, M)
    PROVE  L = M
<1>1. ASSUME NEW n \in 1 .. Cardinality(S)
      PROVE  L[n] = M[n]
    <2>1. /\ L[n] \in S /\ M[n] \in S
          /\ Cardinality(Preceding(S, R, L[n])) = Cardinality(Preceding(S, R, M[n]))
        BY DEF InLine
    <2> QED
        BY <2>1, RankIsBijective
<1>2. /\ L = [n \in 1 .. Cardinality(S) |-> L[n]]
      /\ M = [n \in 1 .. Cardinality(S) |-> M[n]]
    BY DEF InLine
<1> QED
    BY <1>1, <1>2

(* In a strict order of a finite set, an element is below one that nothing *)
(* is above of, or nothing is above of it.                                 *)
StrictOrder(S, R) ==
    /\ \A v \in S : <<v, v>> \notin R
    /\ \A v, w, x \in S : <<v, w>> \in R /\ <<w, x>> \in R => <<v, x>> \in R

LEMMA SomethingOnTop ==
    ASSUME NEW S, NEW R, IsFiniteSet(S), StrictOrder(S, R), NEW u \in S
    PROVE  \E t \in S : /\ t = u \/ <<u, t>> \in R
                        /\ \A v \in S : <<t, v>> \notin R
<1> DEFINE above(v) == {w \in S : <<v, w>> \in R}
           these == {v \in S : v = u \/ <<u, v>> \in R}
           sizes == {Cardinality(above(v)) : v \in these}
<1>1. \A v \in S : IsFiniteSet(above(v)) /\ Cardinality(above(v)) \in Nat
    BY FS_Subset, FS_CardinalityType
<1>2. sizes \in SUBSET Nat /\ sizes # {}
    <2>1. u \in these /\ these \subseteq S
        OBVIOUS
    <2> HIDE DEF above, these
    <2> QED
        BY <1>1, <2>1
<1>3. PICK m \in sizes : \A n \in sizes : m <= n
    BY <1>2, LeastNumber
<1>4. PICK t \in these : m = Cardinality(above(t))
    BY <1>3
<1>5. ASSUME NEW v \in S, <<t, v>> \in R
      PROVE  FALSE
    <2>1. v \in these
        BY <1>5 DEF StrictOrder
    <2>2. above(v) \subseteq above(t) /\ v \in above(t) /\ v \notin above(v)
        BY <1>5 DEF StrictOrder
    <2>3. Cardinality(above(v)) <= Cardinality(above(t)) /\ Cardinality(above(v)) # Cardinality(above(t))
        <3> HIDE DEF above
        <3> QED
            BY <1>1, <2>2, FS_Subset
    <2>4. m <= Cardinality(above(v))
        <3> HIDE DEF above, these
        <3> QED
            BY <1>3, <2>1
    <2>5. Cardinality(above(v)) \in Nat /\ Cardinality(above(t)) \in Nat
        BY <1>1
    <2> HIDE DEF above
    <2> QED
        BY <1>4, <2>3, <2>4, <2>5
<1> QED
    BY <1>4, <1>5

-----------------------------------------------------------------------------
(* Folds over finite sets *)

(* pick takes an element out of every set that has one. *)
Picks(S, pick) == \A s \in SUBSET S : s # {} => pick[s] \in s

LEMMA PickedFacts ==
    ASSUME NEW S, IsFiniteSet(S), NEW pick, Picks(S, pick), NEW s \in SUBSET S
    PROVE  /\ Cardinality(s) \in Nat /\ IsFiniteSet(s)
           /\ Cardinality(s) = 0 <=> s = {}
           /\ s # {} => /\ pick[s] \in s /\ pick[s] \in S
                        /\ s \ {pick[s]} \in SUBSET S
                        /\ Cardinality(s \ {pick[s]}) = Cardinality(s) - 1
<1>1. IsFiniteSet(s)
    BY FS_Subset
<1>2. s # {} => pick[s] \in s
    BY DEF Picks
<1> QED
    BY <1>1, <1>2, FS_CardinalityType, FS_EmptySet, FS_RemoveElement

(* Induction over the subsets of a finite set, element by element.         *)
LEMMA Shrinking ==
    ASSUME NEW S, IsFiniteSet(S), NEW pick, Picks(S, pick), NEW P, {} \in P,
           \A s \in SUBSET S : s # {} /\ s \ {pick[s]} \in P => s \in P
    PROVE  SUBSET S \subseteq P
<1> DEFINE Q == {n \in Nat : \A s \in SUBSET S : Cardinality(s) = n => s \in P}
<1>1. 0 \in Q
    BY PickedFacts
<1>2. ASSUME NEW n \in Nat, n \in Q
      PROVE  n + 1 \in Q
    <2> SUFFICES ASSUME NEW s \in SUBSET S, Cardinality(s) = n + 1 PROVE s \in P
        OBVIOUS
    <2>1. s # {}
        BY PickedFacts
    <2>2. s \ {pick[s]} \in SUBSET S /\ Cardinality(s \ {pick[s]}) = n
        BY <2>1, PickedFacts
    <2>3. s \ {pick[s]} \in P
        BY <1>2, <2>2
    <2> QED
        BY <2>1, <2>3
<1>3. Nat \subseteq Q
    <2> HIDE DEF Q
    <2> QED
        BY <1>1, <1>2, CountingUp
<1> QED
    BY <1>3, PickedFacts

(* A fold over S, with values in G: it adds element x to value y with      *)
(* step[x, y].                                                             *)
AtMost(S, n) == {s \in SUBSET S : Cardinality(s) <= n}
FoldAtMost(S, pick, G, base, step, n) ==
    \E g \in [AtMost(S, n) -> G] : \A s \in AtMost(S, n) :
        g[s] = IF s = {} THEN base ELSE step[pick[s], g[s \ {pick[s]}]]

Folded(S, pick, G, base, step) ==
    \E g \in [SUBSET S -> G] : \A s \in SUBSET S :
        g[s] = IF s = {} THEN base ELSE step[pick[s], g[s \ {pick[s]}]]

LEMMA FoldExists ==
    ASSUME NEW S, IsFiniteSet(S), NEW pick, Picks(S, pick),
           NEW G, NEW base \in G, NEW step \in [S \X G -> G]
    PROVE  Folded(S, pick, G, base, step)
<1> DEFINE P == {n \in Nat : FoldAtMost(S, pick, G, base, step, n)}
<1>1. 0 \in P
    <2> DEFINE g == [s \in AtMost(S, 0) |-> base]
    <2>1. \A s \in AtMost(S, 0) : s = {}
        <3> SUFFICES ASSUME NEW s \in AtMost(S, 0) PROVE s = {}
            OBVIOUS
        <3>1. s \in SUBSET S /\ Cardinality(s) <= 0
            BY DEF AtMost
        <3>2. Cardinality(s) \in Nat /\ (Cardinality(s) = 0 <=> s = {})
            BY <3>1, PickedFacts
        <3> QED
            BY <3>1, <3>2
    <2>2. g \in [AtMost(S, 0) -> G] /\ \A s \in AtMost(S, 0) : g[s] = base
        OBVIOUS
    <2>3. FoldAtMost(S, pick, G, base, step, 0)
        <3> HIDE DEF g
        <3> QED
            BY <2>1, <2>2 DEF FoldAtMost
    <2> QED
        BY <2>3
<1>2. ASSUME NEW n \in Nat, n \in P
      PROVE  n + 1 \in P
    <2>1. PICK g \in [AtMost(S, n) -> G] : \A s \in AtMost(S, n) :
              g[s] = IF s = {} THEN base ELSE step[pick[s], g[s \ {pick[s]}]]
        BY <1>2 DEF FoldAtMost
    <2> DEFINE h == [s \in AtMost(S, n + 1) |->
                        IF s = {} THEN base ELSE step[pick[s], g[s \ {pick[s]}]]]
    <2>2. ASSUME NEW s \in AtMost(S, n + 1), s # {}
          PROVE  s \ {pick[s]} \in AtMost(S, n) /\ pick[s] \in S
        <3>1. s \in SUBSET S /\ Cardinality(s) <= n + 1
            BY DEF AtMost
        <3>2. /\ Cardinality(s) \in Nat /\ pick[s] \in S /\ s \ {pick[s]} \in SUBSET S
              /\ Cardinality(s \ {pick[s]}) = Cardinality(s) - 1
            BY <2>2, <3>1, PickedFacts
        <3>3. Cardinality(s \ {pick[s]}) <= n
            BY <3>1, <3>2
        <3> QED
            BY <3>2, <3>3 DEF AtMost
    <2>3. h \in [AtMost(S, n + 1) -> G]
        <3> SUFFICES ASSUME NEW s \in AtMost(S, n + 1), s # {}
                     PROVE  step[pick[s], g[s \ {pick[s]}]] \in G
            OBVIOUS
        <3> QED
            BY <2>2
    <2>4. ASSUME NEW s \in AtMost(S, n)
          PROVE  s \in AtMost(S, n + 1) /\ h[s] = g[s]
        <3>1. s \in SUBSET S /\ Cardinality(s) <= n /\ Cardinality(s) \in Nat
            BY PickedFacts DEF AtMost
        <3>2. Cardinality(s) <= n + 1
            BY <3>1
        <3>3. s \in AtMost(S, n + 1)
            BY <3>1, <3>2 DEF AtMost
        <3> QED
            BY <2>1, <3>3
    <2>5. \A s \in AtMost(S, n + 1) :
              h[s] = IF s = {} THEN base ELSE step[pick[s], h[s \ {pick[s]}]]
        BY <2>2, <2>4
    <2>6. FoldAtMost(S, pick, G, base, step, n + 1)
        <3> HIDE DEF h
        <3> QED
            BY <2>3, <2>5, Zenon DEF FoldAtMost
    <2> QED
        BY <2>6
<1>3. Nat \subseteq P
    <2> HIDE DEF P
    <2> QED
        BY <1>1, <1>2, CountingUp
<1>4. Cardinality(S) \in Nat
    BY FS_CardinalityType
<1>5. AtMost(S, Cardinality(S)) = SUBSET S
    BY FS_Subset, FS_CardinalityType DEF AtMost
<1>6. FoldAtMost(S, pick, G, base, step, Cardinality(S))
    BY <1>3, <1>4
<1> QED
    BY <1>5, <1>6, Zenon DEF FoldAtMost, Folded

-----------------------------------------------------------------------------
(* Sums over finite sets *)

Pick(s) == CHOOSE x \in s : TRUE

(* g[s] is the sum of f over s, for the subsets s of S: what               *)
(* MapThenSumSet computes.                                                 *)
Sums(S, f, g) ==
    g = [s \in SUBSET S |-> IF s = {} THEN 0 ELSE f[Pick(s)] + g[s \ {Pick(s)}]]

LEMMA SumsExist ==
    ASSUME NEW S, IsFiniteSet(S), NEW N \in {Nat, Int}, NEW f \in [S -> N]
    PROVE  \E g : Sums(S, f, g)
<1> DEFINE pick == [s \in SUBSET S |-> Pick(s)]
           step == [p \in S \X N |-> f[p[1]] + p[2]]
<1>1. Picks(S, pick)
    BY DEF Picks, Pick
<1>2. 0 \in N /\ (\A x, y \in N : x + y \in N)
    OBVIOUS
<1>3. step \in [S \X N -> N]
    BY <1>2
<1>4. PICK g \in [SUBSET S -> N] : \A s \in SUBSET S :
          g[s] = IF s = {} THEN 0 ELSE step[pick[s], g[s \ {pick[s]}]]
    <2> HIDE DEF pick, step
    <2>1. Folded(S, pick, N, 0, step)
        BY <1>1, <1>2, <1>3, FoldExists
    <2> QED
        BY <2>1, Zenon DEF Folded
<1>5. \A s \in SUBSET S : s # {} =>
          step[pick[s], g[s \ {pick[s]}]] = f[Pick(s)] + g[s \ {Pick(s)}]
    <2> SUFFICES ASSUME NEW s \in SUBSET S, s # {}
                 PROVE  step[pick[s], g[s \ {pick[s]}]] = f[Pick(s)] + g[s \ {Pick(s)}]
        OBVIOUS
    <2>1. pick[s] = Pick(s) /\ Pick(s) \in S /\ s \ {Pick(s)} \in SUBSET S
        BY DEF Pick
    <2>2. <<Pick(s), g[s \ {Pick(s)}]>> \in S \X N
        BY <2>1
    <2> QED
        BY <2>1, <2>2
<1>6. Sums(S, f, g)
    BY <1>4, <1>5 DEF Sums
<1> QED
    BY <1>6

LEMMA SumsAreNumbers ==
    ASSUME NEW S, IsFiniteSet(S), NEW N \in {Nat, Int}, NEW f \in [S -> N],
           NEW g, Sums(S, f, g)
    PROVE  \A s \in SUBSET S : g[s] \in N
<1> DEFINE pick == [s \in SUBSET S |-> Pick(s)]
           P == {s \in SUBSET S : g[s] \in N}
<1>1. Picks(S, pick)
    BY DEF Picks, Pick
<1>2. 0 \in N /\ \A x, y \in N : x + y \in N
    OBVIOUS
<1>3. {} \in P
    BY <1>2 DEF Sums
<1>4. ASSUME NEW s \in SUBSET S, s # {}, s \ {pick[s]} \in P
      PROVE  s \in P
    <2>1. g[s] = f[Pick(s)] + g[s \ {Pick(s)}]
        BY <1>4 DEF Sums
    <2>2. f[Pick(s)] \in N
        BY <1>4 DEF Pick
    <2>3. g[s \ {Pick(s)}] \in N
        BY <1>4
    <2> QED
        BY <1>2, <2>1, <2>2, <2>3
<1>5. SUBSET S \subseteq P
    <2> HIDE DEF P, pick
    <2> QED
        BY <1>1, <1>3, <1>4, Shrinking
<1> QED
    BY <1>5

(* A sum of larger numbers is larger.                                      *)
LEMMA SumsCompare ==
    ASSUME NEW S, IsFiniteSet(S), NEW e \in [S -> Int], NEW f \in [S -> Int],
           NEW g, Sums(S, e, g), NEW h, Sums(S, f, h),
           \A x \in S : e[x] <= f[x]
    PROVE  g[S] <= h[S] /\ ((\E x \in S : e[x] < f[x]) => g[S] < h[S])
<1> DEFINE pick == [s \in SUBSET S |-> Pick(s)]
           P == {s \in SUBSET S : g[s] <= h[s] /\ ((\E x \in s : e[x] < f[x]) => g[s] < h[s])}
<1>1. Picks(S, pick)
    BY DEF Picks, Pick
<1>2. \A s \in SUBSET S : g[s] \in Int /\ h[s] \in Int
    BY SumsAreNumbers
<1>3. {} \in P
    BY DEF Sums
<1>4. ASSUME NEW s \in SUBSET S, s # {}, s \ {pick[s]} \in P
      PROVE  s \in P
    <2> DEFINE x == Pick(s)
               r == s \ {x}
    <2>1. x \in s /\ x \in S /\ r \in SUBSET S /\ r \in P
        BY <1>4 DEF Pick
    <2>2. g[s] = e[x] + g[r] /\ h[s] = f[x] + h[r]
        BY <1>4 DEF Sums
    <2>3. /\ g[r] \in Int /\ h[r] \in Int /\ e[x] \in Int /\ f[x] \in Int
          /\ e[x] <= f[x] /\ g[r] <= h[r]
        BY <1>2, <2>1
    <2>4. (\E y \in r : e[y] < f[y]) => g[r] < h[r]
        BY <2>1
    <2>5. (\E y \in s : e[y] < f[y]) => e[x] < f[x] \/ g[r] < h[r]
        BY <2>4
    <2>6. g[s] <= h[s] /\ (e[x] < f[x] \/ g[r] < h[r] => g[s] < h[s])
        <3> HIDE DEF x, r
        <3> QED
            BY <2>2, <2>3
    <2> QED
        BY <2>5, <2>6
<1>5. SUBSET S \subseteq P
    <2> HIDE DEF P, pick
    <2> QED
        BY <1>1, <1>3, <1>4, Shrinking
<1> QED
    BY <1>5

-----------------------------------------------------------------------------
(* Recursive functions.  F tells the value at x of a function f on D from  *)
(* x and f, and looks only at values of f at elements of a lower measure.  *)

LooksDown(D, G, measure, F) ==
    \A x \in D : \A f, g \in [D -> G] :
        (\A y \in D : measure[y] < measure[x] => f[y] = g[y]) => F[<<x, f>>] = F[<<x, g>>]

Solves(D, F, f) == \A x \in D : f[x] = F[<<x, f>>]
SolvedBelow(D, measure, F, f, n) == \A x \in D : measure[x] < n => f[x] = F[<<x, f>>]

LEMMA OneSolution ==
    ASSUME NEW D, NEW G, NEW measure \in [D -> Nat], NEW F, LooksDown(D, G, measure, F),
           NEW n \in Nat, NEW f \in [D -> G], NEW g \in [D -> G],
           SolvedBelow(D, measure, F, f, n), SolvedBelow(D, measure, F, g, n)
    PROVE  \A x \in D : measure[x] < n => f[x] = g[x]
<1> DEFINE P == {k \in Nat : \A x \in D : measure[x] < k /\ measure[x] < n => f[x] = g[x]}
<1>1. 0 \in P
    OBVIOUS
<1>2. ASSUME NEW k \in Nat, k \in P
      PROVE  k + 1 \in P
    <2> SUFFICES ASSUME NEW x \in D, measure[x] < k + 1, measure[x] < n PROVE f[x] = g[x]
        OBVIOUS
    <2>1. \A y \in D : measure[y] < measure[x] => f[y] = g[y]
        BY <1>2
    <2>2. F[<<x, f>>] = F[<<x, g>>]
        BY <2>1 DEF LooksDown
    <2> QED
        BY <2>2 DEF SolvedBelow
<1>3. Nat \subseteq P
    <2> HIDE DEF P
    <2> QED
        BY <1>1, <1>2, CountingUp
<1> QED
    BY <1>3

LEMMA RecursionExists ==
    ASSUME NEW D, NEW G, NEW base \in G, NEW measure \in [D -> Nat],
           NEW F \in [D \X [D -> G] -> G], LooksDown(D, G, measure, F)
    PROVE  \E f \in [D -> G] : Solves(D, F, f)
<1> DEFINE P == {n \in Nat : \E f \in [D -> G] : SolvedBelow(D, measure, F, f, n)}
<1>1. 0 \in P
    <2>1. [x \in D |-> base] \in [D -> G]
        OBVIOUS
    <2>2. SolvedBelow(D, measure, F, [x \in D |-> base], 0)
        BY DEF SolvedBelow
    <2> QED
        BY <2>1, <2>2
<1>2. ASSUME NEW n \in Nat, n \in P
      PROVE  n + 1 \in P
    <2>1. PICK f \in [D -> G] : SolvedBelow(D, measure, F, f, n)
        BY <1>2
    <2> DEFINE g == [x \in D |-> IF measure[x] < n THEN f[x] ELSE F[<<x, f>>]]
    <2>2. g \in [D -> G]
        OBVIOUS
    <2>3. ASSUME NEW x \in D, measure[x] < n + 1
          PROVE  g[x] = F[<<x, g>>]
        <3>1. g[x] = F[<<x, f>>]
            BY <2>1 DEF SolvedBelow
        <3>2. \A y \in D : measure[y] < measure[x] => f[y] = g[y]
            BY <2>3
        <3> HIDE DEF g
        <3>3. F[<<x, f>>] = F[<<x, g>>]
            BY <2>2, <3>2 DEF LooksDown
        <3> QED
            BY <3>1, <3>3
    <2>4. SolvedBelow(D, measure, F, g, n + 1)
        <3> HIDE DEF g
        <3> QED
            BY <2>3 DEF SolvedBelow
    <2> HIDE DEF g
    <2> QED
        BY <2>2, <2>4
<1>3. Nat \subseteq P
    <2> HIDE DEF P
    <2> QED
        BY <1>1, <1>2, CountingUp
<1> DEFINE h(n) == CHOOSE f \in [D -> G] : SolvedBelow(D, measure, F, f, n)
           f == [x \in D |-> h(measure[x] + 1)[x]]
<1>4. \A n \in Nat : h(n) \in [D -> G] /\ SolvedBelow(D, measure, F, h(n), n)
    BY <1>3
<1> HIDE DEF h, P
<1>5. f \in [D -> G]
    <2> SUFFICES ASSUME NEW x \in D PROVE h(measure[x] + 1)[x] \in G
        OBVIOUS
    <2>1. measure[x] + 1 \in Nat
        OBVIOUS
    <2> QED
        BY <1>4, <2>1
<1>6. ASSUME NEW x \in D
      PROVE  f[x] = F[<<x, f>>]
    <2> DEFINE top == h(measure[x] + 1)
    <2>1. measure[x] + 1 \in Nat /\ measure[x] < measure[x] + 1
        OBVIOUS
    <2>2. top \in [D -> G] /\ SolvedBelow(D, measure, F, top, measure[x] + 1)
        BY <1>4, <2>1
    <2>3. f[x] = F[<<x, top>>]
        BY <2>1, <2>2 DEF SolvedBelow
    <2>4. ASSUME NEW y \in D, measure[y] < measure[x]
          PROVE  f[y] = top[y]
        <3>1. measure[y] + 1 \in Nat /\ measure[y] < measure[y] + 1
            OBVIOUS
        <3>2. /\ h(measure[y] + 1) \in [D -> G]
              /\ SolvedBelow(D, measure, F, h(measure[y] + 1), measure[y] + 1)
            BY <1>4, <3>1
        <3> HIDE DEF top
        <3>3. SolvedBelow(D, measure, F, top, measure[y] + 1)
            <4>1. \A z \in D : measure[z] < measure[y] + 1 => measure[z] < measure[x] + 1
                BY <2>4
            <4> QED
                BY <2>2, <4>1 DEF SolvedBelow
        <3>4. h(measure[y] + 1)[y] = top[y]
            BY <2>2, <3>1, <3>2, <3>3, OneSolution
        <3> QED
            BY <3>4
    <2> HIDE DEF f, top
    <2>5. F[<<x, f>>] = F[<<x, top>>]
        BY <1>5, <2>2, <2>4 DEF LooksDown
    <2> QED
        BY <2>3, <2>5
<1> HIDE DEF f
<1>7. Solves(D, F, f)
    BY <1>6 DEF Solves
<1> QED
    BY <1>5, <1>7
=============================================================================
