--------------------------- MODULE MeasureProofs ---------------------------
(***************************************************************************)
(* Proofs about the measures, for every result and every future that is    *)
(* read: the stairs of priorities, the gaps and percentiles of a schedule, *)
(* its score, and the figure of merit that looks ahead, whose sweep over   *)
(* window boundaries gives what counting tick by tick would give.          *)
(***************************************************************************)
EXTENDS AlgorithmProofs

-----------------------------------------------------------------------------
(* Sums, products and orders *)

(* A sum can be taken apart at any of its elements. *)
LEMMA SumsTakeOut ==
    ASSUME NEW S, IsFiniteSet(S), NEW f \in [S -> Int], NEW g, Sums(S, f, g)
    PROVE  \A s \in SUBSET S : \A x \in s : g[s] = f[x] + g[s \ {x}]
<1> DEFINE P == {n \in Nat : \A r \in SUBSET S : Cardinality(r) = n =>
                                \A x \in r : g[r] = f[x] + g[r \ {x}]}
<1>1. \A r \in SUBSET S : /\ IsFiniteSet(r) /\ Cardinality(r) \in Nat /\ g[r] \in Int
                          /\ Cardinality(r) = 0 <=> r = {}
                          /\ \A x \in r : Cardinality(r \ {x}) = Cardinality(r) - 1
    BY SumsAreNumbers, FS_Subset, FS_CardinalityType, FS_EmptySet, FS_RemoveElement
<1>2. 0 \in P
    BY <1>1
<1>3. ASSUME NEW n \in Nat, n \in P PROVE n + 1 \in P
    <2> SUFFICES ASSUME NEW r \in SUBSET S, Cardinality(r) = n + 1, NEW x \in r
                 PROVE  g[r] = f[x] + g[r \ {x}]
        OBVIOUS
    <2> DEFINE z == Pick(r)
    <2>1. z \in r
        BY DEF Pick
    <2>2. g[r] = f[z] + g[r \ {z}]
        BY DEF Sums
    <2> HIDE DEF z
    <2>3. CASE x = z
        BY <2>2, <2>3
    <2>4. CASE x # z
        <3>1. Cardinality(r \ {z}) = n /\ Cardinality(r \ {x}) = n
            BY <1>1, <2>1
        <3>2. /\ r \ {z} \in SUBSET S /\ x \in r \ {z}
              /\ r \ {x} \in SUBSET S /\ z \in r \ {x}
            BY <2>1, <2>4
        <3>3. PICK q : q = (r \ {z}) \ {x} /\ q = (r \ {x}) \ {z}
            OBVIOUS
        <3>4. g[r \ {z}] = f[x] + g[q] /\ g[r \ {x}] = f[z] + g[q]
            BY <1>3, <3>1, <3>2, <3>3
        <3>5. g[q] \in Int /\ f[x] \in Int /\ f[z] \in Int
            BY <1>1, <2>1, <3>3
        <3> QED
            BY <2>2, <3>4, <3>5
    <2> QED
        BY <2>3, <2>4
<1>4. Nat \subseteq P
    <2> HIDE DEF P
    <2> QED
        BY <1>2, <1>3, CountingUp
<1>5. ASSUME NEW s \in SUBSET S PROVE \A x \in s : g[s] = f[x] + g[s \ {x}]
    <2>1. Cardinality(s) \in P
        BY <1>1, <1>4
    <2> QED
        BY <2>1
<1> QED
    BY <1>5

(* Sums over a set are the sums that a larger set has of it.               *)
LEMMA SumsAgree ==
    ASSUME NEW S, IsFiniteSet(S), NEW f \in [S -> Int], NEW g, Sums(S, f, g),
           NEW T \in SUBSET S, NEW e \in [T -> Int], \A x \in T : e[x] = f[x],
           NEW h, Sums(T, e, h)
    PROVE  g[T] = h[T]
<1> DEFINE pick == [s \in SUBSET T |-> Pick(s)]
           P == {s \in SUBSET T : g[s] = h[s]}
<1>1. Picks(T, pick) /\ IsFiniteSet(T)
    BY FS_Subset DEF Picks, Pick
<1>2. {} \in P
    BY DEF Sums
<1>3. ASSUME NEW s \in SUBSET T, s # {}, s \ {pick[s]} \in P
      PROVE  s \in P
    <2>1. Pick(s) \in T
        BY <1>3 DEF Pick
    <2>2. g[s] = f[Pick(s)] + g[s \ {Pick(s)}] /\ h[s] = e[Pick(s)] + h[s \ {Pick(s)}]
        BY <1>3 DEF Sums
    <2> QED
        BY <1>3, <2>1, <2>2
<1>4. SUBSET T \subseteq P
    <2> HIDE DEF P, pick
    <2> QED
        BY <1>1, <1>2, <1>3, Shrinking
<1> QED
    BY <1>4
-----------------------------------------------------------------------------
(* Sums *)

Numbers(f, S) == \A x \in S : f[x] \in Int

LEMMA SumOfIs ==
    ASSUME NEW S, IsFiniteSet(S), NEW f, Numbers(f, S)
    PROVE  \E g : Sums(S, [x \in S |-> f[x]], g) /\ SumOf(f, S) = g[S]
<1> DEFINE e == [x \in S |-> f[x]]
           total == CHOOSE g : Sums(S, e, g)
<1>1. e \in [S -> Int]
    BY DEF Numbers
<1>2. \A x \in S : e[x] = f[x]
    OBVIOUS
<1> HIDE DEF e
<1>3. \A g : Sums(S, e, g) <=>
          g = [s \in SUBSET S |-> IF s = {} THEN 0 ELSE f[Pick(s)] + g[s \ {Pick(s)}]]
    <2>1. \A s \in SUBSET S : s # {} => e[Pick(s)] = f[Pick(s)]
        BY <1>2 DEF Pick
    <2> QED
        BY <2>1 DEF Sums
<1>4. SumOf(f, S) = total[S]
    BY <1>3, Zenon DEF SumOf, MapThenSumSet, MapThenFoldSet, Pick
<1>5. \E g : Sums(S, e, g)
    BY <1>1, SumsExist
<1>6. Sums(S, e, total)
    BY <1>5
<1> HIDE DEF total
<1> QED
    BY <1>4, <1>6 DEF e

LEMMA SumOfFacts ==
    ASSUME NEW S, IsFiniteSet(S), NEW f, Numbers(f, S)
    PROVE  /\ SumOf(f, S) \in Int
           /\ SumOf(f, {}) = 0
           /\ \A x \in S : SumOf(f, S) = f[x] + SumOf(f, S \ {x})
<1> DEFINE e == [x \in S |-> f[x]]
<1>1. e \in [S -> Int] /\ \A x \in S : e[x] = f[x]
    BY DEF Numbers
<1>2. PICK g : Sums(S, e, g) /\ SumOf(f, S) = g[S]
    BY SumOfIs
<1>3. \A T \in SUBSET S : SumOf(f, T) = g[T]
    <2> SUFFICES ASSUME NEW T \in SUBSET S PROVE SumOf(f, T) = g[T]
        OBVIOUS
    <2> DEFINE d == [x \in T |-> f[x]]
    <2>1. IsFiniteSet(T) /\ Numbers(f, T)
        BY FS_Subset DEF Numbers
    <2>2. PICK h : Sums(T, d, h) /\ SumOf(f, T) = h[T]
        BY <2>1, SumOfIs
    <2>3. d \in [T -> Int] /\ \A x \in T : d[x] = e[x]
        BY DEF Numbers
    <2> HIDE DEF d, e
    <2> QED
        BY <1>1, <1>2, <2>2, <2>3, SumsAgree
<1> HIDE DEF e
<1>4. \A T \in SUBSET S : g[T] \in Int
    BY <1>1, <1>2, SumsAreNumbers
<1>5. \A x \in S : g[S] = e[x] + g[S \ {x}]
    BY <1>1, <1>2, SumsTakeOut
<1>6. g[{}] = 0
    BY <1>2 DEF Sums
<1>7. SumOf(f, {}) = 0 /\ SumOf(f, S) \in Int
    BY <1>3, <1>4, <1>6
<1>8. ASSUME NEW x \in S PROVE SumOf(f, S) = f[x] + SumOf(f, S \ {x})
    BY <1>1, <1>3, <1>5
<1> QED
    BY <1>7, <1>8

LEMMA SumsWithin ==
    ASSUME NEW S, IsFiniteSet(S), NEW f, Numbers(f, S), NEW s \in SUBSET S
    PROVE  /\ IsFiniteSet(s) /\ Numbers(f, s)
           /\ SumOf(f, s) \in Int
           /\ \A x \in s : SumOf(f, s) = f[x] + SumOf(f, s \ {x}) /\ SumOf(f, s \ {x}) \in Int
<1>1. \A r \in SUBSET S : IsFiniteSet(r) /\ Numbers(f, r)
    BY FS_Subset DEF Numbers
<1>2. \A r \in SUBSET S : SumOf(f, r) \in Int
    BY <1>1, SumOfFacts
<1>3. \A x \in s : SumOf(f, s) = f[x] + SumOf(f, s \ {x})
    BY <1>1, SumOfFacts
<1> QED
    BY <1>1, <1>2, <1>3

(* Induction over the subsets of a finite set.                             *)
Grows(S, P) == \A s \in SUBSET S : \A z \in s : s \ {z} \in P => s \in P

LEMMA OneByOne ==
    ASSUME NEW S, IsFiniteSet(S), NEW P, {} \in P, Grows(S, P)
    PROVE  S \in P
<1> DEFINE pick == [s \in SUBSET S |-> Pick(s)]
<1>1. Picks(S, pick)
    BY DEF Picks, Pick
<1>2. \A s \in SUBSET S : s # {} => pick[s] \in s
    BY DEF Pick
<1> HIDE DEF pick
<1>3. \A s \in SUBSET S : s # {} /\ s \ {pick[s]} \in P => s \in P
    BY <1>2 DEF Grows
<1>4. SUBSET S \subseteq P
    BY <1>1, <1>3, Shrinking
<1>5. S \in SUBSET S
    OBVIOUS
<1> QED
    BY <1>4, <1>5

LEMMA SumOfCompare ==
    ASSUME NEW S, IsFiniteSet(S), NEW e, Numbers(e, S), NEW f, Numbers(f, S),
           \A x \in S : e[x] <= f[x]
    PROVE  /\ SumOf(e, S) <= SumOf(f, S)
           /\ (\E x \in S : e[x] < f[x]) => SumOf(e, S) < SumOf(f, S)
<1> DEFINE d == [x \in S |-> e[x]]
           c == [x \in S |-> f[x]]
<1>1. PICK g : Sums(S, d, g) /\ SumOf(e, S) = g[S]
    BY SumOfIs
<1>2. PICK h : Sums(S, c, h) /\ SumOf(f, S) = h[S]
    BY SumOfIs
<1>3. /\ d \in [S -> Int] /\ c \in [S -> Int]
      /\ \A x \in S : d[x] = e[x] /\ c[x] = f[x]
    BY DEF Numbers
<1> HIDE DEF d, c
<1>4. g[S] <= h[S] /\ ((\E x \in S : d[x] < c[x]) => g[S] < h[S])
    BY <1>1, <1>2, <1>3, SumsCompare
<1> QED
    BY <1>1, <1>2, <1>3, <1>4

LEMMA SumOfSame ==
    ASSUME NEW S, IsFiniteSet(S), NEW e, Numbers(e, S), NEW f, \A x \in S : e[x] = f[x]
    PROVE  SumOf(e, S) = SumOf(f, S)
<1>1. Numbers(f, S)
    BY DEF Numbers
<1>2. \A x \in S : e[x] <= f[x] /\ f[x] <= e[x]
    BY DEF Numbers
<1>3. SumOf(e, S) <= SumOf(f, S) /\ SumOf(f, S) <= SumOf(e, S)
    BY <1>1, <1>2, SumOfCompare
<1>4. SumOf(e, S) \in Int /\ SumOf(f, S) \in Int
    BY <1>1, SumOfFacts
<1> QED
    BY <1>3, <1>4

LEMMA SumOfUnion ==
    ASSUME NEW S, IsFiniteSet(S), NEW T, IsFiniteSet(T), S \cap T = {},
           NEW f, Numbers(f, S), Numbers(f, T)
    PROVE  SumOf(f, S \cup T) = SumOf(f, S) + SumOf(f, T)
<1> DEFINE P == {s \in SUBSET S : SumOf(f, s \cup T) = SumOf(f, s) + SumOf(f, T)}
<1>1. IsFiniteSet(S \cup T) /\ Numbers(f, S \cup T)
    BY FS_Union DEF Numbers
<1>2. SumOf(f, T) \in Int /\ SumOf(f, {}) = 0
    BY SumOfFacts
<1>3. {} \in P
    <2>1. {} \cup T = T
        OBVIOUS
    <2> QED
        BY <1>2, <2>1
<1>4. ASSUME NEW s \in SUBSET S, NEW z \in s, s \ {z} \in P
      PROVE  s \in P
    <2>1. s \cup T \in SUBSET (S \cup T) /\ z \in s \cup T /\ (s \cup T) \ {z} = (s \ {z}) \cup T
        OBVIOUS
    <2>2. SumOf(f, s \cup T) = f[z] + SumOf(f, (s \ {z}) \cup T)
        BY <1>1, <2>1, SumsWithin
    <2>3. SumOf(f, s) = f[z] + SumOf(f, s \ {z}) /\ SumOf(f, s \ {z}) \in Int /\ f[z] \in Int
        BY SumsWithin DEF Numbers
    <2>4. SumOf(f, (s \ {z}) \cup T) = SumOf(f, s \ {z}) + SumOf(f, T)
        BY <1>4
    <2>5. SumOf(f, s \cup T) = SumOf(f, s) + SumOf(f, T)
        BY <1>2, <2>2, <2>3, <2>4
    <2> QED
        BY <2>5
<1>5. S \in P
    <2> HIDE DEF P
    <2> QED
        BY <1>3, <1>4, OneByOne DEF Grows
<1> QED
    BY <1>5

LEMMA SumOfPlus ==
    ASSUME NEW S, IsFiniteSet(S), NEW e, Numbers(e, S), NEW f, Numbers(f, S),
           NEW h, \A x \in S : h[x] = e[x] + f[x]
    PROVE  SumOf(h, S) = SumOf(e, S) + SumOf(f, S)
<1> DEFINE P == {s \in SUBSET S : SumOf(h, s) = SumOf(e, s) + SumOf(f, s)}
<1>1. Numbers(h, S)
    BY DEF Numbers
<1>2. {} \in P
    BY <1>1, SumOfFacts
<1>3. ASSUME NEW s \in SUBSET S, NEW z \in s, s \ {z} \in P
      PROVE  s \in P
    <2>1. SumOf(h, s) = h[z] + SumOf(h, s \ {z})
        BY <1>1, SumsWithin
    <2>2. SumOf(e, s) = e[z] + SumOf(e, s \ {z}) /\ SumOf(e, s \ {z}) \in Int
        BY SumsWithin
    <2>3. SumOf(f, s) = f[z] + SumOf(f, s \ {z}) /\ SumOf(f, s \ {z}) \in Int
        BY SumsWithin
    <2>4. h[z] = e[z] + f[z] /\ e[z] \in Int /\ f[z] \in Int
        BY DEF Numbers
    <2>5. SumOf(h, s \ {z}) = SumOf(e, s \ {z}) + SumOf(f, s \ {z})
        BY <1>3
    <2>6. SumOf(h, s) = SumOf(e, s) + SumOf(f, s)
        BY <2>1, <2>2, <2>3, <2>4, <2>5
    <2> QED
        BY <2>6
<1>4. S \in P
    <2> HIDE DEF P
    <2> QED
        BY <1>2, <1>3, OneByOne DEF Grows
<1> QED
    BY <1>4

Multiples(h, c, f, S) == \A x \in S : h[x] = c * f[x]

LEMMA SumOfScaled ==
    ASSUME NEW S, IsFiniteSet(S), NEW f, Numbers(f, S), NEW c \in Int,
           NEW h, Multiples(h, c, f, S)
    PROVE  SumOf(h, S) = c * SumOf(f, S)
<1> USE DEF Multiples
<1> DEFINE P == {s \in SUBSET S : SumOf(h, s) = c * SumOf(f, s)}
<1>1. Numbers(h, S)
    BY DEF Numbers
<1>2. {} \in P
    BY <1>1, SumOfFacts
<1>3. ASSUME NEW s \in SUBSET S, NEW z \in s, s \ {z} \in P
      PROVE  s \in P
    <2>1. SumOf(h, s) = h[z] + SumOf(h, s \ {z})
        BY <1>1, SumsWithin
    <2>2. SumOf(f, s) = f[z] + SumOf(f, s \ {z}) /\ SumOf(f, s \ {z}) \in Int
        BY SumsWithin
    <2>3. h[z] = c * f[z] /\ f[z] \in Int
        BY DEF Numbers
    <2>4. SumOf(h, s \ {z}) = c * SumOf(f, s \ {z})
        BY <1>3
    <2>5. \A a, b \in Int : c * (a + b) = c * a + c * b
        OBVIOUS
    <2>6. SumOf(h, s) = c * SumOf(f, s)
        BY <2>1, <2>2, <2>3, <2>4, <2>5
    <2> QED
        BY <2>6
<1>4. S \in P
    <2> HIDE DEF P
    <2> QED
        BY <1>2, <1>3, OneByOne DEF Grows
<1> QED
    BY <1>4

LEMMA SumOfConstant ==
    ASSUME NEW S, IsFiniteSet(S), NEW c \in Int, NEW f, \A x \in S : f[x] = c
    PROVE  SumOf(f, S) = c * Cardinality(S)
<1> DEFINE P == {s \in SUBSET S : SumOf(f, s) = c * Cardinality(s)}
<1>1. Numbers(f, S)
    BY DEF Numbers
<1>2. {} \in P
    BY <1>1, SumOfFacts, FS_EmptySet
<1>3. ASSUME NEW s \in SUBSET S, NEW z \in s, s \ {z} \in P
      PROVE  s \in P
    <2>1. SumOf(f, s) = c + SumOf(f, s \ {z})
        BY <1>1, SumsWithin
    <2>2. PICK n \in Nat : Cardinality(s \ {z}) = n /\ Cardinality(s) = n + 1
        BY FS_Subset, FS_CardinalityType, FS_RemoveElement
    <2>3. SumOf(f, s \ {z}) = c * n
        BY <1>3, <2>2
    <2>4. c * (n + 1) = c * n + c
        OBVIOUS
    <2>5. SumOf(f, s) = c * Cardinality(s)
        BY <2>1, <2>2, <2>3, <2>4
    <2> QED
        BY <2>5
<1>4. S \in P
    <2> HIDE DEF P
    <2> QED
        BY <1>2, <1>3, OneByOne DEF Grows
<1> QED
    BY <1>4

(* A sum can be taken over other names of its elements.                    *)
Renames(h, S, T) ==
    /\ \A x \in S : h[x] \in T
    /\ \A y \in T : \E x \in S : h[x] = y
    /\ \A x, y \in S : h[x] = h[y] => x = y

Follows(e, f, h, S) == \A x \in S : e[x] = f[h[x]]

LEMMA SumOfRenamed ==
    ASSUME NEW S, IsFiniteSet(S), NEW T, NEW h, Renames(h, S, T),
           NEW f, Numbers(f, T), NEW e, Follows(e, f, h, S)
    PROVE  IsFiniteSet(T) /\ SumOf(f, T) = SumOf(e, S)
<1> DEFINE P == {s \in SUBSET S : SumOf(f, {h[x] : x \in s}) = SumOf(e, s)}
<1>0. T = {h[x] : x \in S}
    BY DEF Renames
<1>1. Numbers(e, S)
    BY DEF Numbers, Renames, Follows
<1>2. IsFiniteSet(T)
    <2> DEFINE k == [x \in S |-> h[x]]
    <2>1. k = [x \in S |-> k[x]] /\ T = {k[x] : x \in S}
        BY <1>0
    <2> HIDE DEF k
    <2> QED
        BY <2>1, ImageCount
<1>3. {} \in P
    <2>1. {h[x] : x \in {}} = {}
        OBVIOUS
    <2> QED
        BY <1>1, <1>2, <2>1, SumOfFacts
<1>4. ASSUME NEW s \in SUBSET S, NEW z \in s, s \ {z} \in P
      PROVE  s \in P
    <2> DEFINE im == {h[x] : x \in s}
               less == {h[x] : x \in s \ {z}}
    <2>1. im \in SUBSET T /\ h[z] \in im /\ im \ {h[z]} = less
        BY DEF Renames
    <2>2. SumOf(f, less) = SumOf(e, s \ {z})
        BY <1>4
    <2> HIDE DEF im, less
    <2>3. SumOf(f, im) = f[h[z]] + SumOf(f, less)
        BY <1>2, <2>1, SumsWithin
    <2>4. SumOf(e, s) = e[z] + SumOf(e, s \ {z})
        BY <1>1, SumsWithin
    <2>5. SumOf(f, im) = SumOf(e, s)
        BY <2>2, <2>3, <2>4 DEF Follows
    <2> QED
        BY <2>5 DEF im
<1>5. S \in P
    <2> HIDE DEF P
    <2> QED
        BY <1>3, <1>4, OneByOne DEF Grows
<1> HIDE DEF P
<1>6. SumOf(f, T) = SumOf(e, S)
    BY <1>0, <1>5 DEF P
<1> QED
    BY <1>2, <1>6

(* What adds nothing may be left out.                                      *)
LEMMA SumOfPadded ==
    ASSUME NEW S, IsFiniteSet(S), NEW T \in SUBSET S, NEW f, Numbers(f, S),
           \A x \in S \ T : f[x] = 0
    PROVE  SumOf(f, S) = SumOf(f, T)
<1>1. IsFiniteSet(T) /\ IsFiniteSet(S \ T) /\ T \cap (S \ T) = {} /\ T \cup (S \ T) = S
    BY FS_Subset
<1>2. Numbers(f, T) /\ Numbers(f, S \ T)
    BY DEF Numbers
<1>3. SumOf(f, S) = SumOf(f, T) + SumOf(f, S \ T)
    BY <1>1, <1>2, SumOfUnion
<1>4. SumOf(f, S \ T) = 0 * Cardinality(S \ T)
    BY <1>1, SumOfConstant
<1>5. Cardinality(S \ T) \in Nat /\ SumOf(f, T) \in Int
    BY <1>1, <1>2, FS_CardinalityType, SumOfFacts
<1> QED
    BY <1>3, <1>4, <1>5

LEMMA SumOfOne ==
    ASSUME NEW f, NEW x, f[x] \in Int
    PROVE  SumOf(f, {x}) = f[x]
<1>1. IsFiniteSet({x}) /\ Numbers(f, {x})
    BY FS_Singleton DEF Numbers
<1>2. PICK rest : rest = {x} \ {x} /\ rest = {}
    OBVIOUS
<1>3. SumOf(f, {x}) = f[x] + SumOf(f, rest)
    BY <1>1, <1>2, SumOfFacts
<1>4. SumOf(f, rest) = 0
    BY <1>1, <1>2, SumOfFacts
<1> QED
    BY <1>3, <1>4

(* The sums of the parts of a set.                                         *)
SetsApart(E, R) == \A t, u \in R : t # u => E[t] \cap E[u] = {}
SumsOfSets(e, f, E, R) ==
    \A t \in R : IsFiniteSet(E[t]) /\ Numbers(f, E[t]) /\ e[t] = SumOf(f, E[t])
MembersOf(E, R) == UNION {E[t] : t \in R}

LEMMA SumOfFamilies ==
    ASSUME NEW R, IsFiniteSet(R), NEW E, SetsApart(E, R), NEW f, NEW e, SumsOfSets(e, f, E, R)
    PROVE  SumOf(f, MembersOf(E, R)) = SumOf(e, R)
<1>1. /\ \A t, u \in R : t # u => E[t] \cap E[u] = {}
      /\ \A t \in R : IsFiniteSet(E[t]) /\ Numbers(f, E[t]) /\ e[t] = SumOf(f, E[t])
    BY DEF SetsApart, SumsOfSets
<1> DEFINE All(s) == UNION {E[t] : t \in s}
           P == {s \in SUBSET R : IsFiniteSet(All(s)) /\ SumOf(f, All(s)) = SumOf(e, s)}
<1>2. Numbers(e, R)
    BY <1>1, SumOfFacts DEF Numbers
<1>3. {} \in P
    <2>1. All({}) = {}
        OBVIOUS
    <2>2. SumOf(e, {}) = 0 /\ Numbers(f, {})
        BY <1>2, SumOfFacts DEF Numbers
    <2>3. SumOf(f, {}) = 0
        BY <2>2, SumOfFacts, FS_EmptySet
    <2> HIDE DEF All
    <2> QED
        BY <2>1, <2>2, <2>3, FS_EmptySet
<1>4. ASSUME NEW s \in SUBSET R, NEW z \in s, s \ {z} \in P
      PROVE  s \in P
    <2>1. All(s) = All(s \ {z}) \cup E[z] /\ All(s \ {z}) \cap E[z] = {}
        <3>1. \A t \in s \ {z} : E[t] \cap E[z] = {}
            BY <1>1
        <3> QED
            BY <3>1
    <2>2. Numbers(f, All(s \ {z})) /\ Numbers(f, E[z]) /\ IsFiniteSet(E[z])
        BY <1>1 DEF Numbers
    <2>3. IsFiniteSet(All(s \ {z})) /\ SumOf(f, All(s \ {z})) = SumOf(e, s \ {z})
        BY <1>4
    <2> HIDE DEF All
    <2>4. IsFiniteSet(All(s \ {z}) \cup E[z])
        BY <2>2, <2>3, FS_Union
    <2>5. SumOf(f, All(s \ {z}) \cup E[z]) = SumOf(f, All(s \ {z})) + SumOf(f, E[z])
        BY <2>1, <2>2, <2>3, SumOfUnion
    <2>6. SumOf(e, s) = e[z] + SumOf(e, s \ {z}) /\ SumOf(e, s \ {z}) \in Int
        BY <1>2, SumsWithin
    <2>7. e[z] = SumOf(f, E[z]) /\ e[z] \in Int
        BY <1>1, <1>2 DEF Numbers
    <2>8. SumOf(f, All(s)) = SumOf(e, s)
        BY <2>1, <2>3, <2>5, <2>6, <2>7
    <2> QED
        BY <2>1, <2>4, <2>8
<1>5. R \in P
    <2> HIDE DEF P
    <2> QED
        BY <1>3, <1>4, OneByOne DEF Grows
<1> QED
    BY <1>5 DEF MembersOf

LEMMA SumUpTo ==
    ASSUME NEW n \in Nat, NEW f, Numbers(f, 1 .. n)
    PROVE  /\ SumOf(f, 1 .. 0) = 0
           /\ \A k \in 0 .. n : SumOf(f, 1 .. k) \in Int
           /\ \A k \in 1 .. n : SumOf(f, 1 .. k) = f[k] + SumOf(f, 1 .. k - 1)
<1>1. IsFiniteSet(1 .. n)
    BY FS_Interval
<1>2. 1 .. 0 = {} /\ SumOf(f, {}) = 0
    BY <1>1, SumOfFacts
<1>3. ASSUME NEW k \in 0 .. n PROVE SumOf(f, 1 .. k) \in Int
    <2>1. 1 .. k \in SUBSET (1 .. n)
        OBVIOUS
    <2> QED
        BY <1>1, <2>1, SumsWithin
<1>4. ASSUME NEW k \in 1 .. n PROVE SumOf(f, 1 .. k) = f[k] + SumOf(f, 1 .. k - 1)
    <2>1. 1 .. k \in SUBSET (1 .. n) /\ k \in 1 .. k /\ (1 .. k) \ {k} = 1 .. k - 1
        OBVIOUS
    <2>2. SumOf(f, 1 .. k) = f[k] + SumOf(f, (1 .. k) \ {k})
        BY <1>1, <2>1, SumsWithin
    <2> QED
        BY <2>1, <2>2
<1> QED
    BY <1>2, <1>3, <1>4

-----------------------------------------------------------------------------
(* Orders *)

(* The members of a set by their keys.                                     *)
KeyBefore(key, t, u) == key[t] < key[u] \/ (key[t] = key[u] /\ t < u)
KeyOrder(key, S) == {tu \in S \X S : KeyBefore(key, tu[1], tu[2])}

LEMMA KeysAreOrdered ==
    ASSUME NEW S \in SUBSET Int, NEW key, Numbers(key, S)
    PROVE  StrictTotalOrder(S, KeyOrder(key, S))
<1>1. \A t, u \in S : /\ t \in Int /\ u \in Int /\ key[t] \in Int /\ key[u] \in Int
                      /\ <<t, u>> \in KeyOrder(key, S) <=> KeyBefore(key, t, u)
    BY DEF Numbers, KeyOrder
<1>2. ASSUME NEW t \in S PROVE ~ KeyBefore(key, t, t)
    <2>1. t \in Int /\ key[t] \in Int
        BY <1>1
    <2> QED
        BY <2>1 DEF KeyBefore
<1>3. ASSUME NEW t \in S, NEW u \in S, NEW v \in S, KeyBefore(key, t, u), KeyBefore(key, u, v)
      PROVE  KeyBefore(key, t, v)
    <2>1. /\ t \in Int /\ u \in Int /\ v \in Int
          /\ key[t] \in Int /\ key[u] \in Int /\ key[v] \in Int
        BY <1>1
    <2> QED
        BY <1>3, <2>1 DEF KeyBefore
<1>4. ASSUME NEW t \in S, NEW u \in S, t # u
      PROVE  KeyBefore(key, t, u) \/ KeyBefore(key, u, t)
    <2>1. t \in Int /\ u \in Int /\ key[t] \in Int /\ key[u] \in Int
        BY <1>1
    <2> QED
        BY <1>4, <2>1 DEF KeyBefore
<1> QED
    BY <1>1, <1>2, <1>3, <1>4 DEF StrictTotalOrder

(* A list that takes each place of an order has the members of the set,    *)
(* each once.                                                              *)
Lists(L, S) ==
    /\ L \in Seq(S) /\ Len(L) = Cardinality(S) /\ DOMAIN L = 1 .. Cardinality(S)
    /\ \A i \in DOMAIN L : L[i] \in S
    /\ \A i, j \in DOMAIN L : L[i] = L[j] => i = j
    /\ \A u \in S : \E n \in DOMAIN L : L[n] = u

TakesPlaces(L, S, R) ==
    /\ L = [n \in 1 .. Cardinality(S) |-> L[n]]
    /\ \A n \in 1 .. Cardinality(S) :
          (\E x \in S : Cardinality(Preceding(S, R, x)) = n - 1)
             => L[n] \in S /\ Cardinality(Preceding(S, R, L[n])) = n - 1

LEMMA PlacedInOrder ==
    ASSUME NEW S, NEW R, IsFiniteSet(S), StrictTotalOrder(S, R), NEW L, TakesPlaces(L, S, R)
    PROVE  Lists(L, S) /\ \A i, j \in DOMAIN L : i < j <=> <<L[i], L[j]>> \in R
<1>1. Cardinality(S) \in Nat
    BY FS_CardinalityType
<1>2. ASSUME NEW n \in 1 .. Cardinality(S)
      PROVE  L[n] \in S /\ Cardinality(Preceding(S, R, L[n])) = n - 1
    <2>1. n - 1 \in 0 .. Cardinality(S) - 1
        BY <1>1
    <2>2. \E x \in S : Cardinality(Preceding(S, R, x)) = n - 1
        BY <2>1, RankIsTaken
    <2> QED
        BY <2>2 DEF TakesPlaces
<1>3. L = [n \in 1 .. Cardinality(S) |-> L[n]]
    BY DEF TakesPlaces
<1>4. InLine(S, R, L)
    BY <1>2, <1>3 DEF InLine
<1>5. /\ L \in Seq(S) /\ Len(L) = Cardinality(S) /\ DOMAIN L = 1 .. Cardinality(S)
      /\ \A i, j \in DOMAIN L : i < j <=> <<L[i], L[j]>> \in R
      /\ \A u \in S : \E n \in DOMAIN L : L[n] = u
    BY <1>4, InLineFacts
<1>6. ASSUME NEW i \in DOMAIN L, NEW j \in DOMAIN L, L[i] = L[j] PROVE i = j
    <2>1. i \in Int /\ j \in Int
        BY <1>1, <1>5
    <2>2. i - 1 = j - 1
        BY <1>2, <1>5, <1>6
    <2> QED
        BY <2>1, <2>2
<1> QED
    BY <1>2, <1>5, <1>6 DEF Lists

LEMMA InOrderOfFacts ==
    ASSUME NEW S \in SUBSET Int, IsFiniteSet(S), NEW key, Numbers(key, S)
    PROVE  LET L == InOrderOf(key, S) IN
           Lists(L, S) /\ \A i, j \in DOMAIN L : i < j => KeyBefore(key, L[i], L[j])
<1> DEFINE R == KeyOrder(key, S)
           L == InOrderOf(key, S)
           IsNth(n, x) == Cardinality({y \in S : KeyBefore(key, y, x)}) = n - 1
<1>1. StrictTotalOrder(S, R)
    BY KeysAreOrdered
<1>2. L = [n \in 1 .. Cardinality(S) |-> CHOOSE x \in S : IsNth(n, x)]
    BY DEF InOrderOf, SortedBy, KeyBefore
<1>3. \A x \in S : {y \in S : KeyBefore(key, y, x)} = Preceding(S, R, x)
    BY DEF Preceding, KeyOrder
<1> HIDE DEF L
<1>4. ASSUME NEW n \in 1 .. Cardinality(S), \E x \in S : IsNth(n, x)
      PROVE  L[n] \in S /\ IsNth(n, L[n])
    <2>1. L[n] = CHOOSE x \in S : IsNth(n, x)
        BY <1>2
    <2> HIDE DEF IsNth
    <2> QED
        BY <1>4, <2>1
<1>5. TakesPlaces(L, S, R)
    <2>1. L = [n \in 1 .. Cardinality(S) |-> L[n]]
        <3> HIDE DEF IsNth
        <3> QED
            BY <1>2
    <2>2. \A x \in S : \A n : IsNth(n, x) <=> Cardinality(Preceding(S, R, x)) = n - 1
        BY <1>3
    <2> HIDE DEF IsNth, R
    <2> QED
        BY <1>4, <2>1, <2>2 DEF TakesPlaces
<1>6. Lists(L, S) /\ \A i, j \in DOMAIN L : i < j <=> <<L[i], L[j]>> \in R
    <2> HIDE DEF R
    <2> QED
        BY <1>1, <1>5, PlacedInOrder
<1>7. \A i, j \in DOMAIN L : i < j => KeyBefore(key, L[i], L[j])
    BY <1>6 DEF KeyOrder
<1> QED
    BY <1>6, <1>7 DEF L

-----------------------------------------------------------------------------
(* Stairs *)

NewValues(sorted) == {i \in DOMAIN sorted : i = 1 \/ sorted[i] # sorted[i - 1]}
LessOn(S) == {ij \in S \X S : ij[1] < ij[2]}

LEMMA StepStartsFacts ==
    ASSUME NEW n \in Nat, NEW sorted, DOMAIN sorted = 1 .. n
    PROVE  LET L == StepStarts(sorted) IN
           Lists(L, NewValues(sorted)) /\ \A i, j \in DOMAIN L : i < j => L[i] < L[j]
<1> DEFINE S == NewValues(sorted)
           R == LessOn(S)
           L == StepStarts(sorted)
           IsNth(m, x) == Cardinality({y \in S : y < x}) = m - 1
<1>1. S \in SUBSET (1 .. n) /\ IsFiniteSet(S)
    <2>1. S \in SUBSET (1 .. n)
        BY DEF NewValues
    <2> QED
        BY <2>1, FS_Interval, FS_Subset
<1>2. L = [m \in 1 .. Cardinality(S) |-> CHOOSE x \in S : IsNth(m, x)]
    BY DEF StepStarts, SortedBy, NewValues
<1> HIDE DEF S, L
<1>3. \A x \in S : x \in Int
    BY <1>1
<1>4. StrictTotalOrder(S, R)
    BY <1>3 DEF StrictTotalOrder, LessOn
<1>5. \A x \in S : {y \in S : y < x} = Preceding(S, R, x)
    BY DEF Preceding, LessOn
<1>6. ASSUME NEW m \in 1 .. Cardinality(S), \E x \in S : IsNth(m, x)
      PROVE  L[m] \in S /\ IsNth(m, L[m])
    <2>1. L[m] = CHOOSE x \in S : IsNth(m, x)
        BY <1>2
    <2> HIDE DEF IsNth
    <2> QED
        BY <1>6, <2>1
<1>7. TakesPlaces(L, S, R)
    <2>1. L = [m \in 1 .. Cardinality(S) |-> L[m]]
        <3> HIDE DEF IsNth
        <3> QED
            BY <1>2
    <2>2. \A x \in S : \A m : IsNth(m, x) <=> Cardinality(Preceding(S, R, x)) = m - 1
        BY <1>5
    <2> HIDE DEF IsNth, R
    <2> QED
        BY <1>6, <2>1, <2>2 DEF TakesPlaces
<1>8. Lists(L, S) /\ \A i, j \in DOMAIN L : i < j <=> <<L[i], L[j]>> \in R
    <2> HIDE DEF R
    <2> QED
        BY <1>1, <1>4, <1>7, PlacedInOrder
<1>9. \A i, j \in DOMAIN L : i < j => L[i] < L[j]
    BY <1>8 DEF LessOn
<1> QED
    BY <1>8, <1>9 DEF S, L

Falling(values, n) ==
    /\ values \in Seq(Int) /\ Len(values) = n
    /\ \A i, j \in 1 .. n : i < j => values[i] >= values[j]

(* Where the m stairs of n values start. *)
StairsStart(starts, m, values, n) ==
    /\ Len(starts) = m /\ DOMAIN starts = 1 .. m
    /\ \A k \in 1 .. m : starts[k] \in NewValues(values)
    /\ \A i \in NewValues(values) : \E k \in 1 .. m : starts[k] = i
    /\ \A k, l \in 1 .. m : k < l => starts[k] < starts[l]
    /\ m > 0 => starts[1] = 1
    /\ n > 0 => m > 0

LEMMA StairsBounds ==
    ASSUME NEW n \in Nat, NEW values, Falling(values, n)
    PROVE  \E m \in 0 .. n : StairsStart(StepStarts(values), m, values, n)
<1> DEFINE starts == StepStarts(values)
           S == NewValues(values)
<1>1. DOMAIN values = 1 .. n
    BY DEF Falling
<1>2. Lists(starts, S) /\ \A i, j \in DOMAIN starts : i < j => starts[i] < starts[j]
    BY <1>1, StepStartsFacts, Zenon
<1>3. S \in SUBSET (1 .. n)
    BY <1>1 DEF NewValues
<1>4. Cardinality(S) \in 0 .. n
    <2>1. IsFiniteSet(1 .. n) /\ Cardinality(1 .. n) = n
        BY FS_Interval
    <2>2. IsFiniteSet(S) /\ Cardinality(S) <= Cardinality(1 .. n)
        BY <1>3, <2>1, FS_Subset
    <2>3. Cardinality(S) \in Nat
        BY <2>2, FS_CardinalityType
    <2> QED
        BY <2>1, <2>2, <2>3
<1>5. n > 0 => 1 \in S
    BY <1>1 DEF NewValues
<1> HIDE DEF starts, S
<1>6. PICK m \in 0 .. n : m = Cardinality(S) /\ DOMAIN starts = 1 .. m
    BY <1>2, <1>4 DEF Lists
<1>7. \A k \in 1 .. m : starts[k] \in 1 .. n
    BY <1>2, <1>3, <1>6 DEF Lists
<1>8. \A k, l \in 1 .. m : k < l => starts[k] < starts[l]
    BY <1>2, <1>6
<1>9. ASSUME n > 0 PROVE m > 0 /\ starts[1] = 1
    <2>1. PICK k \in 1 .. m : starts[k] = 1
        BY <1>2, <1>5, <1>6, <1>9 DEF Lists
    <2>2. m > 0 /\ 1 \in 1 .. m /\ starts[1] \in 1 .. n
        BY <1>7, <2>1
    <2>3. ~ (1 < k)
        BY <1>8, <2>1, <2>2
    <2> QED
        BY <2>1, <2>2, <2>3
<1>10. m > 0 => n > 0
    BY <1>6
<1>11. Len(starts) = m
    BY <1>2, <1>6 DEF Lists
<1>12. /\ \A k \in 1 .. m : starts[k] \in S
       /\ \A i \in S : \E k \in 1 .. m : starts[k] = i
    BY <1>2, <1>6 DEF Lists
<1>13. StairsStart(starts, m, values, n)
    BY <1>6, <1>7, <1>8, <1>9, <1>10, <1>11, <1>12 DEF StairsStart, S
<1> QED
    BY <1>13 DEF starts

(* Within a stair nothing changes. *)
LEMMA StairsAreFlat ==
    ASSUME NEW n \in Nat, NEW values, Falling(values, n), NEW starts, NEW m \in Nat,
           StairsStart(starts, m, values, n), NEW i \in 1 .. n
    PROVE  \E k \in 1 .. m : /\ starts[k] <= i /\ values[starts[k]] = values[i]
                             /\ k < m => i < starts[k + 1]
<1>1. /\ DOMAIN values = 1 .. n
      /\ \A k \in 1 .. m : starts[k] \in 1 .. n
      /\ \A k, l \in 1 .. m : k < l => starts[k] < starts[l]
    BY DEF Falling, StairsStart, NewValues
<1> DEFINE K == {k \in 1 .. m : starts[k] <= i}
<1>2. 1 \in K
    BY DEF StairsStart
<1>3. K \in SUBSET Int /\ K # {} /\ m \in Int /\ \A x \in K : x <= m
    BY <1>2
<1>4. PICK k \in K : \A x \in K : x <= k
    <2> HIDE DEF K
    <2> QED
        BY <1>3, LargestNumber
<1>5. k \in 1 .. m /\ starts[k] <= i /\ starts[k] \in 1 .. n
    BY <1>1
<1>6. k < m => i < starts[k + 1]
    <2> SUFFICES ASSUME k < m PROVE i < starts[k + 1]
        OBVIOUS
    <2>1. k + 1 \in 1 .. m /\ k + 1 \notin K
        BY <1>4, <1>5
    <2>2. starts[k + 1] \in Int
        BY <1>1, <2>1
    <2> QED
        BY <2>1, <2>2
<1>7. ASSUME NEW j \in 1 .. n, starts[k] < j, j <= i
      PROVE  values[j] = values[j - 1]
    <2> SUFFICES ASSUME j \in NewValues(values) PROVE FALSE
        BY <1>1, <1>5, <1>7 DEF NewValues
    <2>1. PICK l \in 1 .. m : starts[l] = j
        BY DEF StairsStart
    <2>2. l \in K
        BY <1>7, <2>1
    <2>3. l <= k
        BY <1>4, <2>2
    <2>4. l = k \/ starts[l] < starts[k]
        BY <1>1, <1>5, <2>1, <2>3
    <2> QED
        BY <1>5, <1>7, <2>1, <2>4
<1> DEFINE P == {d \in Nat : starts[k] + d <= i => values[starts[k] + d] = values[starts[k]]}
<1>8. 0 \in P
    BY <1>5
<1>9. ASSUME NEW d \in Nat, d \in P PROVE d + 1 \in P
    <2> SUFFICES ASSUME starts[k] + (d + 1) <= i
                 PROVE  values[starts[k] + (d + 1)] = values[starts[k]]
        OBVIOUS
    <2> DEFINE j == starts[k] + (d + 1)
    <2>1. j \in 1 .. n /\ starts[k] < j /\ j <= i /\ j - 1 = starts[k] + d /\ starts[k] + d <= i
        BY <1>5
    <2>2. values[j] = values[j - 1]
        BY <1>7, <2>1
    <2>3. values[starts[k] + d] = values[starts[k]]
        BY <1>9, <2>1
    <2> QED
        BY <2>1, <2>2, <2>3
<1>10. Nat \subseteq P
    <2> HIDE DEF P
    <2> QED
        BY <1>8, <1>9, CountingUp
<1>11. values[i] = values[starts[k]]
    <2>1. i - starts[k] \in Nat /\ starts[k] + (i - starts[k]) = i
        BY <1>5
    <2>2. i - starts[k] \in P
        BY <1>10, <2>1
    <2> HIDE DEF K
    <2> QED
        BY <2>1, <2>2
<1> QED
    BY <1>5, <1>6, <1>11

(* Each stair is below the one before. *)
LEMMA StairsFall ==
    ASSUME NEW n \in Nat, NEW values, Falling(values, n), NEW starts, NEW m \in Nat,
           StairsStart(starts, m, values, n), NEW k \in 1 .. m, NEW l \in 1 .. m, k < l
    PROVE  values[starts[k]] > values[starts[l]]
<1>1. /\ starts[k] \in 1 .. n /\ starts[l] \in 1 .. n /\ starts[k] < starts[l]
      /\ starts[l] \in NewValues(values)
    BY DEF StairsStart, NewValues, Falling
<1> DEFINE j == starts[l] - 1
<1>2. j \in 1 .. n /\ j < starts[l] /\ starts[k] <= j
    BY <1>1
<1>3. values[starts[l]] # values[j]
    BY <1>1, <1>2 DEF NewValues
<1>4. \A i \in 1 .. n : values[i] \in Int
    BY DEF Falling
<1>5. values[j] >= values[starts[l]]
    BY <1>1, <1>2 DEF Falling
<1>6. values[starts[k]] >= values[j]
    <2>1. CASE starts[k] = j
        BY <1>2, <1>4, <2>1
    <2>2. CASE starts[k] < j
        BY <1>1, <1>2, <2>2 DEF Falling
    <2> QED
        BY <1>1, <1>2, <2>1, <2>2
<1>7. values[starts[k]] \in Int /\ values[j] \in Int /\ values[starts[l]] \in Int
    BY <1>1, <1>2, <1>4
<1> QED
    BY <1>3, <1>5, <1>6, <1>7

(* The lengths of the stairs add up. *)
LengthsOf(f, starts, m, n) ==
    \A k \in 1 .. m : f[k] = (IF k = m THEN n ELSE starts[k + 1] - 1) - (starts[k] - 1)

LEMMA StairsAddUp ==
    ASSUME NEW n \in Nat, NEW values, Falling(values, n), NEW m \in 0 .. n,
           NEW starts, StairsStart(starts, m, values, n), NEW f, LengthsOf(f, starts, m, n)
    PROVE  SumOf(f, 1 .. m) = n
<1>0. /\ \A k \in 1 .. m : starts[k] \in 1 .. n
      /\ m > 0 => starts[1] = 1
      /\ n > 0 => m > 0
      /\ \A k \in 1 .. m : f[k] = (IF k = m THEN n ELSE starts[k + 1] - 1) - (starts[k] - 1)
    BY DEF StairsStart, NewValues, Falling, LengthsOf
<1> DEFINE upto(k) == IF k = 0 THEN 0 ELSE IF k = m THEN n ELSE starts[k + 1] - 1
           P == {k \in Nat : k <= m => SumOf(f, 1 .. k) = upto(k)}
<1>1. Numbers(f, 1 .. m)
    <2> SUFFICES ASSUME NEW k \in 1 .. m PROVE f[k] \in Int
        BY DEF Numbers
    <2>1. k # m => k + 1 \in 1 .. m
        OBVIOUS
    <2> QED
        BY <1>0, <2>1
<1>2. 0 \in P
    BY <1>1, SumUpTo
<1>3. ASSUME NEW k \in Nat, k \in P PROVE k + 1 \in P
    <2> SUFFICES ASSUME k + 1 <= m PROVE SumOf(f, 1 .. k + 1) = upto(k + 1)
        OBVIOUS
    <2>1. k + 1 \in 1 .. m /\ (k + 1) - 1 = k /\ k <= m /\ k # m
        OBVIOUS
    <2>2. SumOf(f, 1 .. k + 1) = f[k + 1] + SumOf(f, 1 .. k)
        BY <1>1, <2>1, SumUpTo
    <2>3. SumOf(f, 1 .. k) = upto(k)
        BY <1>3, <2>1
    <2>4. f[k + 1] = (IF k + 1 = m THEN n ELSE starts[k + 2] - 1) - (starts[k + 1] - 1)
        BY <1>0, <2>1
    <2>5. starts[k + 1] \in 1 .. n /\ (k + 1 # m => starts[k + 2] \in 1 .. n)
        BY <1>0, <2>1
    <2>6. upto(k) = starts[k + 1] - 1
        BY <1>0, <2>1, <2>5
    <2>7. upto(k + 1) = IF k + 1 = m THEN n ELSE starts[k + 2] - 1
        BY <2>1
    <2> HIDE DEF upto, P
    <2> QED
        BY <2>2, <2>3, <2>4, <2>5, <2>6, <2>7
<1>4. Nat \subseteq P
    <2> HIDE DEF P
    <2> QED
        BY <1>2, <1>3, CountingUp
<1>5. m \in P
    BY <1>4
<1>6. SumOf(f, 1 .. m) = upto(m)
    BY <1>5
<1> QED
    BY <1>0, <1>6

(* The values of f over S, in ascending order.                             *)
LEMMA AscendingFacts ==
    ASSUME NEW S \in SUBSET Int, IsFiniteSet(S), NEW f, Numbers(f, S)
    PROVE  LET asc == Ascending(f, S) IN
           /\ asc \in Seq(Int) /\ Len(asc) = Cardinality(S) /\ DOMAIN asc = 1 .. Cardinality(S)
           /\ \A i, j \in DOMAIN asc : i < j => asc[i] <= asc[j]
           /\ \A i \in DOMAIN asc : \E x \in S : asc[i] = f[x]
           /\ \A x \in S : \E i \in DOMAIN asc : asc[i] = f[x]
           /\ SumOf(asc, DOMAIN asc) = SumOf(f, S)
<1> DEFINE L == InOrderOf(f, S)
           asc == Ascending(f, S)
<1>1. Lists(L, S) /\ \A i, j \in DOMAIN L : i < j => KeyBefore(f, L[i], L[j])
    BY InOrderOfFacts, Zenon
<1>2. asc = [i \in DOMAIN L |-> f[L[i]]]
    BY DEF Ascending, Values
<1> HIDE DEF asc, L
<1>3. PICK n \in Nat : n = Cardinality(S) /\ DOMAIN L = 1 .. n
    BY <1>1, FS_CardinalityType DEF Lists
<1>4. \A i \in 1 .. n : L[i] \in S /\ f[L[i]] \in Int
    BY <1>1, <1>3 DEF Lists, Numbers
<1>5. asc \in Seq(Int) /\ Len(asc) = n /\ DOMAIN asc = 1 .. n
    BY <1>2, <1>3, <1>4
<1>6. ASSUME NEW i \in 1 .. n, NEW j \in 1 .. n, i < j PROVE asc[i] <= asc[j]
    <2>1. KeyBefore(f, L[i], L[j])
        BY <1>1, <1>3, <1>6
    <2>2. f[L[i]] \in Int /\ f[L[j]] \in Int /\ asc[i] = f[L[i]] /\ asc[j] = f[L[j]]
        BY <1>2, <1>3, <1>4
    <2> QED
        BY <2>1, <2>2 DEF KeyBefore
<1>7. \A i \in 1 .. n : \E x \in S : asc[i] = f[x]
    BY <1>2, <1>3, <1>4
<1>8. ASSUME NEW x \in S PROVE \E i \in 1 .. n : asc[i] = f[x]
    <2>1. PICK i \in 1 .. n : L[i] = x
        BY <1>1, <1>3 DEF Lists
    <2> QED
        BY <1>2, <1>3, <2>1
<1>9. SumOf(asc, 1 .. n) = SumOf(f, S)
    <2>1. Renames(L, 1 .. n, S)
        BY <1>1, <1>3 DEF Lists, Renames
    <2>2. Follows(asc, f, L, 1 .. n)
        BY <1>2, <1>3 DEF Follows
    <2>3. IsFiniteSet(1 .. n)
        BY FS_Interval
    <2> QED
        BY <2>1, <2>2, <2>3, SumOfRenamed
<1> QED
    BY <1>3, <1>5, <1>6, <1>7, <1>8, <1>9 DEF asc

(* What a result of a scheduler is.                                        *)
ResultIsRead(r) ==
    /\ r.tasks \in SUBSET Int /\ IsFiniteSet(r.tasks)
    /\ \A t \in r.tasks : r.priority[t] \in Int /\ r.placed[t] \in Period \cup {NoPlacement}
    /\ \A t, u \in Scheduled(r) : t # u => ~ Overlaps(r.placed[t], r.placed[u])
    /\ r.horizon \in Period
    /\ r.available \in Int \cup {Default}
    /\ r.weights \in [{"scheduled_task", "scheduled_priority", "utilization", "fragmentation"}
                         -> Nat \ {0}]

LEMMA ScheduledFacts ==
    ASSUME NEW r, ResultIsRead(r)
    PROVE  /\ Scheduled(r) \in SUBSET r.tasks /\ Scheduled(r) \in SUBSET Int
           /\ IsFiniteSet(Scheduled(r)) /\ Cardinality(Scheduled(r)) \in Nat
           /\ Numbers(r.priority, Scheduled(r)) /\ Numbers(r.priority, r.tasks)
           /\ \A t \in Scheduled(r) : r.placed[t] \in Period
<1>1. Scheduled(r) \in SUBSET r.tasks /\ IsFiniteSet(r.tasks) /\ r.tasks \in SUBSET Int
    BY DEF ResultIsRead, Scheduled
<1>2. IsFiniteSet(Scheduled(r)) /\ Cardinality(Scheduled(r)) \in Nat
    BY <1>1, FS_Subset, FS_CardinalityType
<1>3. Numbers(r.priority, r.tasks) /\ Numbers(r.priority, Scheduled(r))
    BY <1>1 DEF ResultIsRead, Numbers
<1>4. \A t \in Scheduled(r) : r.placed[t] \in Period
    BY DEF ResultIsRead, Scheduled
<1> QED
    BY <1>1, <1>2, <1>3, <1>4

LEMMA PrioritiesFall ==
    ASSUME NEW r, ResultIsRead(r)
    PROVE  LET values == Reverse(Ascending(r.priority, Scheduled(r)))
               n == Cardinality(Scheduled(r))
           IN  /\ Falling(values, n)
               /\ \A i \in 1 .. n : \E t \in Scheduled(r) : values[i] = r.priority[t]
<1> DEFINE asc == Ascending(r.priority, Scheduled(r))
           n == Cardinality(Scheduled(r))
           values == Reverse(asc)
<1>1. /\ Scheduled(r) \in SUBSET Int /\ IsFiniteSet(Scheduled(r)) /\ n \in Nat
      /\ Numbers(r.priority, Scheduled(r))
    BY ScheduledFacts
<1>2. /\ asc \in Seq(Int) /\ Len(asc) = n /\ DOMAIN asc = 1 .. n
      /\ \A i, j \in DOMAIN asc : i < j => asc[i] <= asc[j]
      /\ \A i \in DOMAIN asc : \E x \in Scheduled(r) : asc[i] = r.priority[x]
    BY <1>1, AscendingFacts, SMTT(60)
<1> HIDE DEF asc, n
<1>3. values = [i \in 1 .. n |-> asc[(n - i) + 1]]
    BY <1>2 DEF Reverse
<1>4. \A i \in 1 .. n : (n - i) + 1 \in 1 .. n /\ asc[(n - i) + 1] \in Int
    BY <1>1, <1>2
<1>5. values \in Seq(Int) /\ Len(values) = n
    BY <1>1, <1>3, <1>4
<1>6. ASSUME NEW i \in 1 .. n, NEW j \in 1 .. n, i < j PROVE values[i] >= values[j]
    <2>1. (n - j) + 1 < (n - i) + 1 /\ (n - j) + 1 \in 1 .. n /\ (n - i) + 1 \in 1 .. n
        BY <1>1, <1>6
    <2>2. asc[(n - j) + 1] <= asc[(n - i) + 1]
        BY <1>2, <2>1
    <2>3. asc[(n - j) + 1] \in Int /\ asc[(n - i) + 1] \in Int
        BY <1>4
    <2>4. values[i] = asc[(n - i) + 1] /\ values[j] = asc[(n - j) + 1]
        BY <1>3
    <2> QED
        BY <2>2, <2>3, <2>4
<1>7. ASSUME NEW i \in 1 .. n PROVE \E t \in Scheduled(r) : values[i] = r.priority[t]
    <2>1. values[i] = asc[(n - i) + 1] /\ (n - i) + 1 \in DOMAIN asc
        BY <1>2, <1>3, <1>4
    <2> HIDE DEF values
    <2>2. PICK t \in Scheduled(r) : asc[(n - i) + 1] = r.priority[t]
        BY <1>2, <2>1
    <2> QED
        BY <2>1, <2>2
<1>8. Falling(values, n)
    BY <1>5, <1>6 DEF Falling
<1> HIDE DEF values
<1> QED
    BY <1>7, <1>8 DEF asc, n, values

LEMMA StairsAlwaysTell ==
    ASSUME About("result") => ResultIsRead(sample)
    PROVE  StairsTellThePriorities
<1> SUFFICES ASSUME About("result") PROVE StairsTellThePriorities
    BY DEF StairsTellThePriorities
<1> DEFINE stairs == Stairs(sample)
           values == Reverse(Ascending(sample.priority, Scheduled(sample)))
           n == Cardinality(Scheduled(sample))
           starts == StepStarts(values)
<1>1. Falling(values, n) /\ n \in Nat
    BY PrioritiesFall, ScheduledFacts
<1>2. stairs = StepsOf(values, starts)
    BY DEF Stairs, EncodePriorities
<1> HIDE DEF stairs, values, n
<1>3. PICK m \in 0 .. n : StairsStart(starts, m, values, n)
    BY <1>1, StairsBounds
<1> HIDE DEF starts
<1>4. /\ DOMAIN starts = 1 .. m /\ Len(starts) = m /\ Len(values) = n /\ DOMAIN values = 1 .. n
      /\ \A k \in 1 .. m : starts[k] \in 1 .. n
    BY <1>1, <1>3 DEF StairsStart, Falling, NewValues
<1>5. /\ DOMAIN stairs = 1 .. m
      /\ \A k \in 1 .. m : /\ stairs[k].priority = values[starts[k]]
                           /\ stairs[k].start = starts[k] - 1
                           /\ stairs[k].end = IF k = m THEN n - 1 ELSE starts[k + 1] - 2
    BY <1>2, <1>4 DEF StepsOf
<1>6. ASSUME NEW i \in 1 .. n
      PROVE  \E k \in 1 .. m : /\ stairs[k].start < i /\ i <= stairs[k].end + 1
                               /\ stairs[k].priority = values[i]
    <2>1. PICK k \in 1 .. m : /\ starts[k] <= i /\ values[starts[k]] = values[i]
                              /\ k < m => i < starts[k + 1]
        BY <1>1, <1>3, StairsAreFlat
    <2>2. k # m => k < m /\ starts[k + 1] \in 1 .. n
        BY <1>4
    <2>3. stairs[k].start < i
        BY <1>4, <1>5, <2>1
    <2>4. i <= stairs[k].end + 1
        BY <1>1, <1>5, <2>1, <2>2
    <2> QED
        BY <1>5, <2>1, <2>3, <2>4
<1>7. \A k, l \in 1 .. m : k < l => stairs[k].priority > stairs[l].priority
    BY <1>1, <1>3, <1>5, StairsFall
<1> DEFINE f == [k \in DOMAIN stairs |-> stairs[k].end - stairs[k].start + 1]
<1>8. SumOf(f, DOMAIN stairs) = n
    <2>1. ASSUME NEW k \in 1 .. m
          PROVE  f[k] = (IF k = m THEN n ELSE starts[k + 1] - 1) - (starts[k] - 1)
        <3>1. starts[k] \in 1 .. n /\ (k # m => starts[k + 1] \in 1 .. n)
            BY <1>4
        <3>2. f[k] = stairs[k].end - stairs[k].start + 1
            BY <1>5
        <3> HIDE DEF f
        <3>3. n \in Int /\ m \in Int /\ k \in Int
            BY <1>1
        <3>4. /\ stairs[k].start = starts[k] - 1
              /\ stairs[k].end = IF k = m THEN n - 1 ELSE starts[k + 1] - 2
            BY <1>5
        <3> QED
            BY <3>1, <3>2, <3>3, <3>4
    <2> HIDE DEF f
    <2>2. LengthsOf(f, starts, m, n)
        BY <2>1 DEF LengthsOf
    <2>3. SumOf(f, 1 .. m) = n
        BY <1>1, <1>3, <2>2, StairsAddUp
    <2> QED
        BY <1>5, <2>3
<1> QED
    BY <1>4, <1>5, <1>6, <1>7, <1>8 DEF StairsTellThePriorities, stairs, values

(* Sums of what is not negative. *)
Naturals(f, S) == \A x \in S : f[x] \in Nat

LEMMA SumsOfNaturals ==
    ASSUME NEW S, IsFiniteSet(S), NEW f, Naturals(f, S)
    PROVE  /\ Numbers(f, S) /\ SumOf(f, S) \in Nat
           /\ (\E x \in S : f[x] > 0) => SumOf(f, S) > 0
<1>1. Numbers(f, S)
    BY DEF Naturals, Numbers
<1> DEFINE zero == [x \in S |-> 0]
<1>2. Numbers(zero, S) /\ \A x \in S : zero[x] <= f[x] /\ (f[x] > 0 => zero[x] < f[x])
    BY DEF Naturals, Numbers
<1>3. SumOf(zero, S) = 0 * Cardinality(S) /\ Cardinality(S) \in Nat
    BY SumOfConstant, FS_CardinalityType
<1> HIDE DEF zero
<1>4. SumOf(zero, S) <= SumOf(f, S)
    BY <1>1, <1>2, SumOfCompare
<1>5. (\E x \in S : f[x] > 0) => SumOf(zero, S) < SumOf(f, S)
    <2> SUFFICES ASSUME NEW x \in S, f[x] > 0 PROVE SumOf(zero, S) < SumOf(f, S)
        OBVIOUS
    <2>1. \E y \in S : zero[y] < f[y]
        BY <1>2
    <2> QED
        BY <1>1, <1>2, <2>1, SumOfCompare
<1>6. SumOf(f, S) \in Int
    BY <1>1, SumOfFacts
<1> QED
    BY <1>1, <1>3, <1>4, <1>5, <1>6

LEMMA SumOfPart ==
    ASSUME NEW S, IsFiniteSet(S), NEW f, Naturals(f, S), NEW T \in SUBSET S
    PROVE  SumOf(f, T) \in Nat /\ SumOf(f, T) <= SumOf(f, S)
<1>1. /\ IsFiniteSet(T) /\ IsFiniteSet(S \ T) /\ T \cap (S \ T) = {} /\ T \cup (S \ T) = S
      /\ Naturals(f, T) /\ Naturals(f, S \ T)
    BY FS_Subset DEF Naturals
<1>2. /\ Numbers(f, T) /\ SumOf(f, T) \in Nat
      /\ Numbers(f, S \ T) /\ SumOf(f, S \ T) \in Nat
    BY <1>1, SumsOfNaturals
<1>3. SumOf(f, S) = SumOf(f, T) + SumOf(f, S \ T)
    BY <1>1, <1>2, SumOfUnion
<1> QED
    BY <1>2, <1>3

(* The mean priorities.                                                    *)
LEMMA DensityAlwaysCompares ==
    ASSUME About("result") => ResultIsRead(sample)
    PROVE  DensityComparesMeans
<1> SUFFICES ASSUME About("result"), \A t \in sample.tasks : sample.priority[t] >= 0
             PROVE  DensityComparesMeans
    BY DEF DensityComparesMeans
<1> DEFINE S == Scheduled(sample)
           T == sample.tasks
           a == SumOf(sample.priority, S)
           b == SumOf(sample.priority, T)
           density == PriorityDensity(sample)
<1>1. /\ S \in SUBSET T /\ IsFiniteSet(S) /\ IsFiniteSet(T)
      /\ Numbers(sample.priority, T)
    BY ScheduledFacts DEF ResultIsRead
<1>2. Naturals(sample.priority, T)
    BY <1>1 DEF Naturals, Numbers
<1>3. a \in Nat /\ a <= b /\ b \in Nat
    BY <1>1, <1>2, SumOfPart, SumsOfNaturals
<1>4. CASE S = {}
    <2>1. density = <<0, 1>>
        BY <1>4 DEF PriorityDensity
    <2>2. ~ (density[1] > density[2])
        BY <2>1
    <2> QED
        BY <1>4, <2>2 DEF DensityComparesMeans
<1>5. CASE S # {}
    <2>1. PICK c \in Nat : c = Cardinality(S) /\ c > 0
        BY <1>1, <1>5, FS_CardinalityType, FS_EmptySet
    <2>2. PICK d \in Nat : d = Cardinality(T) /\ d > 0
        BY <1>1, <1>5, FS_CardinalityType, FS_EmptySet
    <2>3. TaskRatio(sample) = <<c, d>>
        BY <2>1, <2>2 DEF TaskRatio, Ratio
    <2>4. PriorityRatio(sample) = IF b <= 0 THEN <<0, 1>> ELSE <<a, b>>
        BY DEF PriorityRatio, Ratio
    <2>5. density = <<PriorityRatio(sample)[1] * d, PriorityRatio(sample)[2] * c>>
        BY <1>5, <2>3 DEF PriorityDensity
    <2> HIDE DEF a, b, density, S, T
    <2>6. density[1] > density[2] <=> a * d > b * c
        <3>1. CASE b <= 0
            <4>1. a = 0 /\ b = 0
                BY <1>3, <3>1
            <4>2. density = <<0 * d, 1 * c>>
                BY <2>4, <2>5, <3>1
            <4>3. density[1] = 0 /\ density[2] = c /\ a * d = 0 /\ b * c = 0
                BY <4>1, <4>2
            <4> QED
                BY <2>1, <4>3
        <3>2. CASE ~ (b <= 0)
            <4>1. density = <<a * d, b * c>>
                BY <2>4, <2>5, <3>2
            <4> QED
                BY <4>1
        <3> QED
            BY <3>1, <3>2
    <2> QED
        BY <1>5, <2>1, <2>2, <2>6 DEF DensityComparesMeans, a, b, density, S, T
<1> QED
    BY <1>4, <1>5

-----------------------------------------------------------------------------
(* Scores *)

Positives == Nat \ {0}

Fraction(f) == f[1] \in Int /\ f[2] \in Int /\ 0 <= f[1] /\ f[1] <= f[2] /\ f[2] > 0
Fractions(term) == \A n \in DOMAIN term : Fraction(term[n])

LEMMA ClampedFacts ==
    ASSUME NEW a \in Int, NEW b \in Int
    PROVE  LET c == Clamped(Ratio(a, b)) IN
           /\ Fraction(c)
           /\ c[1] = c[2] <=> b > 0 /\ a >= b
           /\ c[1] = 0 <=> b <= 0 \/ a <= 0
<1> DEFINE c == Clamped(Ratio(a, b))
<1>1. c = IF b <= 0 THEN <<0, 1>> ELSE IF a < 0 THEN <<0, 1>>
          ELSE IF a > b THEN <<1, 1>> ELSE <<a, b>>
    BY DEF Clamped, Ratio
<1> HIDE DEF c
<1> DEFINE Right == /\ Fraction(c)
                    /\ c[1] = c[2] <=> b > 0 /\ a >= b
                    /\ c[1] = 0 <=> b <= 0 \/ a <= 0
<1>2. ASSUME b <= 0 \/ a < 0 PROVE Right
    <2>1. c[1] = 0 /\ c[2] = 1
        BY <1>1, <1>2
    <2>2. ~ (b > 0 /\ a >= b) /\ (b <= 0 \/ a <= 0)
        BY <1>2
    <2> QED
        BY <2>1, <2>2 DEF Fraction
<1>3. ASSUME b > 0 /\ a >= 0 /\ a > b PROVE Right
    <2>1. c[1] = 1 /\ c[2] = 1
        BY <1>1, <1>3
    <2> QED
        BY <1>3, <2>1 DEF Fraction
<1>4. ASSUME b > 0 /\ a >= 0 /\ a <= b PROVE Right
    <2>1. c[1] = a /\ c[2] = b
        BY <1>1, <1>4
    <2> QED
        BY <1>4, <2>1 DEF Fraction
<1>5. Right
    BY <1>2, <1>3, <1>4
<1> QED
    BY <1>5 DEF c

LEMMA DivExact ==
    ASSUME NEW d \in Positives, NEW q \in Nat
    PROVE  (d * q) \div d = q
<1> DEFINE m == d * q
<1>1. d \in Nat /\ d # 0 /\ m \in Nat
    BY DEF Positives
<1> HIDE DEF m
<1>2. PICK k \in Nat, r \in 0 .. d - 1 : k = m \div d /\ m = d * k + r
    BY <1>1, DivFacts
<1>3. PICK e \in Int : e = q - k
    OBVIOUS
<1>4. d * (k + e) = d * k + d * e
    BY <1>1
<1>5. k + e = q
    BY <1>3
<1>6. d * e = r
    <2>1. d * q = d * k + r
        BY <1>2 DEF m
    <2>2. d * k \in Int /\ d * e \in Int /\ r \in Int
        BY <1>1
    <2> QED
        BY <1>4, <1>5, <2>1, <2>2
<1>7. e = 0
    <2>1. ASSUME e >= 1 PROVE FALSE
        <3>1. e - 1 \in Nat
            BY <2>1
        <3>2. d * (e - 1) \in Nat /\ d * e = d * (e - 1) + d
            BY <1>1, <3>1
        <3> QED
            BY <1>1, <1>6, <3>2
    <2>2. ASSUME e <= -1 PROVE FALSE
        <3>1. -1 - e \in Nat
            BY <2>2
        <3>2. d * (-1 - e) \in Nat /\ d * e = - d - d * (-1 - e)
            BY <1>1, <3>1
        <3> QED
            BY <1>1, <1>6, <3>2
    <2> QED
        BY <2>1, <2>2
<1> QED
    BY <1>2, <1>3, <1>7 DEF m

(* g[s] is the product of d over s. *)
Multiplies(S, d, g) ==
    g = [s \in SUBSET S |-> IF s = {} THEN 1 ELSE d[Pick(s)] * g[s \ {Pick(s)}]]

LEMMA ProductsExist ==
    ASSUME NEW S, IsFiniteSet(S), NEW d \in [S -> Positives]
    PROVE  \E g : Multiplies(S, d, g)
<1> DEFINE N == Positives
           pick == [s \in SUBSET S |-> Pick(s)]
           step == [p \in S \X N |-> d[p[1]] * p[2]]
<1>1. Picks(S, pick)
    BY DEF Picks, Pick
<1>2. 1 \in N /\ (\A x, y \in N : x * y \in N)
    <2> SUFFICES ASSUME NEW x \in N, NEW y \in N PROVE x * y \in N
        BY DEF Positives
    <2>1. x \in Nat /\ y - 1 \in Nat /\ x > 0
        BY DEF Positives
    <2>2. x * y = x * (y - 1) + x /\ x * (y - 1) \in Nat
        BY <2>1 DEF Positives
    <2> QED
        BY <2>1, <2>2 DEF Positives
<1>3. step \in [S \X N -> N]
    BY <1>2
<1> HIDE DEF N
<1>4. PICK g \in [SUBSET S -> N] : \A s \in SUBSET S :
          g[s] = IF s = {} THEN 1 ELSE step[pick[s], g[s \ {pick[s]}]]
    <2> HIDE DEF pick, step
    <2>1. Folded(S, pick, N, 1, step)
        BY <1>1, <1>2, <1>3, FoldExists
    <2> QED
        BY <2>1, Zenon DEF Folded
<1>5. \A s \in SUBSET S : s # {} =>
          step[pick[s], g[s \ {pick[s]}]] = d[Pick(s)] * g[s \ {Pick(s)}]
    <2> SUFFICES ASSUME NEW s \in SUBSET S, s # {}
                 PROVE  step[pick[s], g[s \ {pick[s]}]] = d[Pick(s)] * g[s \ {Pick(s)}]
        OBVIOUS
    <2>1. pick[s] = Pick(s) /\ Pick(s) \in S /\ s \ {Pick(s)} \in SUBSET S
        BY DEF Pick
    <2>2. <<Pick(s), g[s \ {Pick(s)}]>> \in S \X N
        BY <2>1
    <2> QED
        BY <2>1, <2>2
<1>6. Multiplies(S, d, g)
    BY <1>4, <1>5 DEF Multiplies
<1> QED
    BY <1>6

LEMMA ProductsDivide ==
    ASSUME NEW S, IsFiniteSet(S), NEW d \in [S -> Positives], NEW g, Multiplies(S, d, g)
    PROVE  g[S] \in Positives /\ \A x \in S : \E q \in Positives : g[S] = d[x] * q
<1> DEFINE pick == [s \in SUBSET S |-> Pick(s)]
           Good(s) == g[s] \in Positives /\ \A x \in s : \E q \in Positives : g[s] = d[x] * q
           P == {s \in SUBSET S : Good(s)}
<1>1. Picks(S, pick)
    BY DEF Picks, Pick
<1>2. {} \in P
    BY DEF Multiplies, Positives
<1>3. \A x, y \in Positives : x * y \in Positives
    <2> SUFFICES ASSUME NEW x \in Positives, NEW y \in Positives PROVE x * y \in Positives
        OBVIOUS
    <2>1. x \in Nat /\ y - 1 \in Nat /\ x > 0
        BY DEF Positives
    <2>2. x * y = x * (y - 1) + x /\ x * (y - 1) \in Nat
        BY <2>1 DEF Positives
    <2> QED
        BY <2>1, <2>2 DEF Positives
<1>4. ASSUME NEW s \in SUBSET S, s # {}, s \ {pick[s]} \in P
      PROVE  s \in P
    <2> DEFINE z == Pick(s)
               rest == s \ {z}
    <2>1. z \in s /\ z \in S /\ g[s] = d[z] * g[rest] /\ Good(rest)
        BY <1>4 DEF Multiplies, Pick
    <2> HIDE DEF z
    <2>2. d[z] \in Positives /\ g[rest] \in Positives
        BY <2>1
    <2>3. g[s] \in Positives
        BY <1>3, <2>1, <2>2
    <2>4. ASSUME NEW x \in s PROVE \E q \in Positives : g[s] = d[x] * q
        <3>1. CASE x = z
            BY <2>1, <2>2, <3>1
        <3>2. CASE x # z
            <4>1. PICK q \in Positives : g[rest] = d[x] * q
                BY <2>1, <3>2
            <4>2. d[x] \in Positives
                OBVIOUS
            <4>3. d[z] * (d[x] * q) = d[x] * (d[z] * q)
                <5>1. \A a, b, c \in Nat : a * (b * c) = b * (a * c)
                    OBVIOUS
                <5> QED
                    BY <2>2, <4>2, <5>1 DEF Positives
            <4>4. d[z] * q \in Positives
                BY <1>3, <2>2
            <4> QED
                BY <2>1, <4>1, <4>3, <4>4
        <3> QED
            BY <3>1, <3>2
    <2> QED
        BY <2>3, <2>4
<1>5. SUBSET S \subseteq P
    <2> HIDE DEF P, pick
    <2> QED
        BY <1>1, <1>2, <1>4, Shrinking
<1> QED
    BY <1>5

LEMMA DenominatorFacts ==
    ASSUME NEW term, IsFiniteSet(DOMAIN term), Fractions(term)
    PROVE  /\ Denominator(term) \in Positives
           /\ \A n \in DOMAIN term : \E q \in Positives :
                 Denominator(term) = term[n][2] * q /\ Denominator(term) \div term[n][2] = q
<1> DEFINE S == DOMAIN term
           d == [n \in S |-> term[n][2]]
           product == CHOOSE g : Multiplies(S, d, g)
<1>1. d \in [S -> Positives] /\ \A n \in S : d[n] = term[n][2]
    BY DEF Fractions, Fraction, Positives
<1> HIDE DEF d
<1>2. \A g : Multiplies(S, d, g) <=>
          g = [s \in SUBSET S |-> IF s = {} THEN 1 ELSE term[Pick(s)][2] * g[s \ {Pick(s)}]]
    <2>1. \A s \in SUBSET S : s # {} => d[Pick(s)] = term[Pick(s)][2]
        BY <1>1 DEF Pick
    <2> QED
        BY <2>1 DEF Multiplies
<1>3. Denominator(term) = product[S]
    <2> DEFINE IsFold(g) ==
                   g = [s \in SUBSET S |-> IF s = {} THEN 1 ELSE term[Pick(s)][2] * g[s \ {Pick(s)}]]
    <2>1. Denominator(term) = (CHOOSE g : IsFold(g))[S]
        BY DEF Denominator, FoldFunction, FoldFunctionOnSet, MapThenFoldSet, Pick
    <2>2. \A g : Multiplies(S, d, g) <=> IsFold(g)
        BY <1>2
    <2> HIDE DEF IsFold, S
    <2> QED
        BY <2>1, <2>2, Zenon
<1>4. \E g : Multiplies(S, d, g)
    BY <1>1, ProductsExist
<1>5. Multiplies(S, d, product)
    BY <1>4
<1> HIDE DEF product
<1>6. product[S] \in Positives /\ \A n \in S : \E q \in Positives : product[S] = d[n] * q
    BY <1>1, <1>5, ProductsDivide
<1>7. ASSUME NEW n \in S
      PROVE  \E q \in Positives : product[S] = d[n] * q /\ product[S] \div d[n] = q
    <2>1. PICK q \in Positives : product[S] = d[n] * q
        BY <1>6
    <2>2. d[n] \in Positives /\ q \in Nat
        BY <1>1 DEF Positives
    <2>3. (d[n] * q) \div d[n] = q
        BY <2>2, DivExact
    <2> QED
        BY <2>1, <2>3
<1> QED
    BY <1>1, <1>3, <1>6, <1>7

LEMMA ScoreFacts ==
    ASSUME NEW term, IsFiniteSet(DOMAIN term), DOMAIN term # {}, Fractions(term),
           NEW w, \A n \in DOMAIN term : w[n] \in Positives
    PROVE  LET score == ScoreOf(w, term, Denominator(term), SumOf(w, DOMAIN term)) IN
           /\ 0 <= score[1] /\ score[1] <= score[2]
           /\ score[1] = score[2] => \A n \in DOMAIN term : term[n][1] = term[n][2]
<1> DEFINE S == DOMAIN term
           den == Denominator(term)
           total == SumOf(w, S)
           e == [n \in S |-> w[n] * term[n][1] * (den \div term[n][2])]
           full == [n \in S |-> den * w[n]]
           score == ScoreOf(w, term, den, total)
           Right == /\ 0 <= score[1] /\ score[1] <= score[2]
                    /\ score[1] = score[2] => \A n \in S : term[n][1] = term[n][2]
<1>1. IsFiniteSet(S) /\ S # {} /\ Naturals(w, S)
    BY DEF Naturals, Positives
<1>2. /\ den \in Positives
      /\ \A n \in S : \E q \in Positives : den = term[n][2] * q /\ den \div term[n][2] = q
    BY DenominatorFacts
<1>3. Numbers(w, S) /\ total \in Nat /\ total > 0
    <2>1. \E n \in S : w[n] > 0
        BY <1>1 DEF Positives
    <2> HIDE DEF S
    <2> QED
        BY <1>1, <2>1, SumsOfNaturals
<1> HIDE DEF den
<1>4. ASSUME NEW n \in S
      PROVE  e[n] \in Nat /\ full[n] \in Nat /\ e[n] <= full[n]
             /\ (term[n][1] # term[n][2] => e[n] < full[n])
    <2>1. PICK q \in Positives : den = term[n][2] * q /\ den \div term[n][2] = q
        BY <1>2
    <2>2. PICK v \in Positives, a \in Nat, d \in Nat :
              v = w[n] /\ a = term[n][1] /\ d = term[n][2] /\ a <= d
        BY DEF Fractions, Fraction
    <2>3. e[n] = v * a * q /\ full[n] = (d * q) * v
        BY <2>1, <2>2
    <2>4. PICK k \in Nat : d = a + k
        <3>1. d - a \in Nat /\ d = a + (d - a)
            BY <2>2
        <3> QED
            BY <3>1
    <2>5. PICK x \in Nat : x = v * q /\ x > 0
        <3>1. v \in Nat /\ q - 1 \in Nat /\ v > 0 /\ q \in Nat
            BY DEF Positives
        <3>2. v * q = v * (q - 1) + v /\ v * (q - 1) \in Nat
            BY <3>1
        <3> QED
            BY <3>1, <3>2
    <2>6. \A i, j, l \in Nat : i * j * l = (i * l) * j /\ (j * l) * i = (i * l) * j
        OBVIOUS
    <2> HIDE DEF e, full
    <2>7. e[n] = x * a /\ full[n] = x * d
        <3>1. v \in Nat /\ a \in Nat /\ q \in Nat /\ d \in Nat
            BY DEF Positives
        <3>2. v * a * q = (v * q) * a
            BY <2>6, <3>1
        <3>3. (d * q) * v = (v * q) * d
            BY <2>6, <3>1
        <3> QED
            BY <2>3, <2>5, <3>2, <3>3
    <2>8. x * d = x * a + x * k /\ x * a \in Nat /\ x * k \in Nat /\ x * d \in Nat
        BY <2>4
    <2>9. k > 0 => x * k > 0
        <3> SUFFICES ASSUME k > 0 PROVE x * k > 0
            OBVIOUS
        <3>1. k - 1 \in Nat /\ x * k = x * (k - 1) + x
            OBVIOUS
        <3>2. x * (k - 1) \in Nat
            BY <3>1
        <3> QED
            BY <2>5, <3>1, <3>2
    <2>10. term[n][1] # term[n][2] => k > 0
        BY <2>2, <2>4
    <2> QED
        BY <2>7, <2>8, <2>9, <2>10
<1> HIDE DEF S
<1>5. Naturals(e, S) /\ Numbers(e, S) /\ Numbers(full, S)
    BY <1>4 DEF Naturals, Numbers
<1>6. SumOf(full, S) = den * total
    <2>1. den \in Int
        BY <1>2 DEF Positives
    <2>2. Multiples(full, den, w, S)
        BY DEF Multiples
    <2> HIDE DEF full, total
    <2> QED
        BY <1>1, <1>3, <2>1, <2>2, SumOfScaled DEF total
<1>7. score = <<SumOf(e, S), total * den>>
    BY <1>3 DEF ScoreOf, WeightedSum, S
<1> HIDE DEF e, full, total, score
<1>8. den * total = total * den
    BY <1>2, <1>3 DEF Positives
<1>9. SumOf(e, S) \in Nat
    BY <1>1, <1>5, SumsOfNaturals
<1>10. SumOf(e, S) <= SumOf(full, S)
    BY <1>1, <1>4, <1>5, SumOfCompare
<1>11. (\E n \in S : term[n][1] # term[n][2]) => SumOf(e, S) < SumOf(full, S)
    <2> SUFFICES ASSUME NEW n \in S, term[n][1] # term[n][2]
                 PROVE  SumOf(e, S) < SumOf(full, S)
        OBVIOUS
    <2>1. \E i \in S : e[i] < full[i]
        BY <1>4
    <2>2. \A i \in S : e[i] <= full[i]
        BY <1>4
    <2> QED
        BY <1>1, <1>5, <2>1, <2>2, SumOfCompare
<1>12. score[1] = SumOf(e, S) /\ score[2] = SumOf(full, S)
    BY <1>6, <1>7, <1>8
<1>13. SumOf(full, S) \in Int
    BY <1>1, <1>5, SumOfFacts
<1>14. score[1] = score[2] => \A n \in S : term[n][1] = term[n][2]
    BY <1>9, <1>11, <1>12, <1>13
<1>15. Right
    BY <1>9, <1>10, <1>12, <1>14
<1> QED
    BY <1>15 DEF score, total, den, S

(* The mean priority is at most the highest, and reaches it only when all  *)
(* priorities are the same.                                                *)
LEMMA RelativeFacts ==
    ASSUME NEW r, ResultIsRead(r)
    PROVE  LET f == RelativePriority(PriorityStats(r)) IN
           /\ Fraction(f)
           /\ f[1] = f[2] =>
                 Scheduled(r) # {} /\ \E top : \A t \in Scheduled(r) : r.priority[t] = top
<1> DEFINE S == Scheduled(r)
           p == r.priority
           asc == Ascending(p, S)
           n == Cardinality(S)
           sum == SumOf(p, S)
           f == RelativePriority(PriorityStats(r))
           Same == S # {} /\ \E top : \A t \in S : p[t] = top
           Right == Fraction(f) /\ (f[1] = f[2] => Same)
<1>1. S \in SUBSET Int /\ IsFiniteSet(S) /\ n \in Nat /\ Numbers(p, S)
    BY ScheduledFacts
<1>2. /\ asc \in Seq(Int) /\ Len(asc) = n /\ DOMAIN asc = 1 .. n
      /\ \A i, j \in DOMAIN asc : i < j => asc[i] <= asc[j]
      /\ \A x \in S : \E i \in DOMAIN asc : asc[i] = p[x]
    BY <1>1, AscendingFacts
<1>3. sum \in Int
    BY <1>1, SumOfFacts
<1>4. PICK top : top = Final(asc, 0)
    OBVIOUS
<1>5. PriorityStats(r).max = top /\ PriorityStats(r).sum = sum /\ PriorityStats(r).count = n
    BY <1>2, <1>4 DEF PriorityStats, StatsOf
<1>6. f = IF top <= 0 THEN <<0, 1>> ELSE Clamped(<<sum, n * top>>)
    BY <1>5 DEF RelativePriority
<1> HIDE DEF asc, n, sum, f, Same, S, p
<1>7. n # 0 => top \in Int /\ n \in 1 .. n /\ asc[n] = top
    <2> SUFFICES ASSUME n # 0 PROVE top \in Int /\ n \in 1 .. n /\ asc[n] = top
        OBVIOUS
    <2>1. asc # <<>> /\ n \in 1 .. n
        BY <1>1, <1>2
    <2>2. top = asc[n]
        BY <1>2, <1>4, <2>1 DEF Final, Last
    <2> QED
        BY <1>2, <2>1, <2>2
<1>8. n = 0 => top = 0
    BY <1>2, <1>4 DEF Final
<1>9. ASSUME top <= 0 PROVE Right
    <2>1. f[1] = 0 /\ f[2] = 1
        BY <1>6, <1>9
    <2> QED
        BY <2>1 DEF Fraction
<1>10. ASSUME ~ (top <= 0) PROVE Right
    <2>1. n # 0 /\ n > 0 /\ top \in Int /\ top > 0
        <3>1. n # 0
            BY <1>8, <1>10
        <3> QED
            BY <1>1, <1>7, <1>10, <3>1
    <2>2. n * top \in Int /\ n * top > 0
        <3>1. n - 1 \in Nat /\ top \in Nat
            BY <1>1, <2>1
        <3>2. n * top = (n - 1) * top + top /\ (n - 1) * top \in Nat
            BY <1>1, <3>1
        <3> QED
            BY <2>1, <3>1, <3>2
    <2>3. f = Clamped(Ratio(sum, n * top))
        <3>1. Ratio(sum, n * top) = <<sum, n * top>>
            BY <2>2 DEF Ratio
        <3> QED
            BY <1>6, <1>10, <3>1
    <2>4. Fraction(f) /\ (f[1] = f[2] => sum >= n * top)
        BY <1>3, <2>2, <2>3, ClampedFacts
    <2>5. \A x \in S : p[x] \in Int /\ p[x] <= top
        <3> SUFFICES ASSUME NEW x \in S PROVE p[x] \in Int /\ p[x] <= top
            OBVIOUS
        <3>1. PICK i \in 1 .. n : asc[i] = p[x]
            BY <1>2
        <3>2. n \in 1 .. n /\ asc[n] = top
            BY <1>7, <2>1
        <3>3. i = n \/ asc[i] <= asc[n]
            BY <1>1, <1>2, <3>2
        <3> QED
            BY <1>1, <2>1, <3>1, <3>2, <3>3 DEF Numbers
    <2> DEFINE tops == [x \in S |-> top]
    <2>6. SumOf(tops, S) = top * n
        BY <1>1, <2>1, SumOfConstant DEF n
    <2>7. Numbers(tops, S) /\ \A x \in S : p[x] <= tops[x]
        BY <2>1, <2>5 DEF Numbers
    <2>8. (\E x \in S : p[x] < tops[x]) => sum < SumOf(tops, S)
        <3> HIDE DEF tops
        <3> QED
            BY <1>1, <2>7, SumOfCompare DEF sum
    <2>9. ASSUME f[1] = f[2] PROVE Same
        <3>1. sum >= top * n
            <4>1. top * n = n * top
                BY <1>1, <2>1
            <4> QED
                BY <2>4, <2>9, <4>1
        <3>2. ~ (sum < SumOf(tops, S))
            BY <1>1, <1>3, <2>1, <2>6, <3>1
        <3>3. \A x \in S : p[x] = top
            BY <2>1, <2>5, <2>8, <3>2
        <3>4. S # {}
            BY <2>1, FS_EmptySet DEF n
        <3> QED
            BY <3>3, <3>4 DEF Same
    <2> QED
        BY <2>4, <2>9
<1>11. Right
    <2>1. top \in Int
        BY <1>1, <1>7, <1>8
    <2> QED
        BY <1>9, <1>10
<1> QED
    BY <1>11 DEF f, Same, S, p

LEMMA OneStair ==
    ASSUME NEW r, ResultIsRead(r), Scheduled(r) # {},
           NEW top, \A t \in Scheduled(r) : r.priority[t] = top
    PROVE  Len(Stairs(r)) = 1
<1> DEFINE values == Reverse(Ascending(r.priority, Scheduled(r)))
           n == Cardinality(Scheduled(r))
           starts == StepStarts(values)
<1>1. /\ Falling(values, n) /\ n \in Nat
      /\ \A i \in 1 .. n : \E t \in Scheduled(r) : values[i] = r.priority[t]
    BY PrioritiesFall, ScheduledFacts
<1>2. n > 0
    BY <1>1, ScheduledFacts, FS_EmptySet
<1>3. Stairs(r) = StepsOf(values, starts)
    BY DEF Stairs, EncodePriorities
<1> HIDE DEF values, n
<1>4. PICK m \in 0 .. n : StairsStart(starts, m, values, n)
    BY <1>1, StairsBounds
<1> HIDE DEF starts
<1>5. \A i \in 1 .. n : values[i] = top
    BY <1>1
<1>6. m > 0 /\ starts[1] = 1 /\ DOMAIN starts = 1 .. m
    BY <1>2, <1>4 DEF StairsStart
<1>7. m = 1
    <2> SUFFICES ASSUME m > 1 PROVE FALSE
        BY <1>6
    <2>1. 1 \in 1 .. m /\ 2 \in 1 .. m
        OBVIOUS
    <2>2. starts[1] < starts[2] /\ starts[2] \in NewValues(values)
        BY <1>4, <2>1 DEF StairsStart
    <2>3. starts[2] \in 1 .. n
        BY <1>1, <2>2 DEF NewValues, Falling
    <2>4. starts[2] - 1 \in 1 .. n /\ starts[2] # 1
        BY <1>1, <1>6, <2>2, <2>3
    <2>5. values[starts[2]] # values[starts[2] - 1]
        BY <2>2, <2>4 DEF NewValues
    <2> QED
        BY <1>5, <2>3, <2>4, <2>5
<1>8. DOMAIN Stairs(r) = 1 .. 1
    BY <1>3, <1>6, <1>7 DEF StepsOf
<1>9. Stairs(r) = [k \in 1 .. 1 |-> Stairs(r)[k]]
    BY <1>3, <1>6, <1>7 DEF StepsOf
<1> QED
    BY <1>9

-----------------------------------------------------------------------------
(* Gaps *)

LEMMA ByStartFacts ==
    ASSUME NEW r, ResultIsRead(r)
    PROVE  LET order == ByStart(r)
               n == Cardinality(Scheduled(r))
           IN  /\ Lists(order, Scheduled(r)) /\ Len(order) = n
               /\ \A i, j \in 1 .. n : i < j => r.placed[order[i]].end <= r.placed[order[j]].start
<1> DEFINE S == Scheduled(r)
           key == [t \in S |-> r.placed[t].start]
           order == ByStart(r)
           n == Cardinality(S)
<1>1. /\ S \in SUBSET Int /\ IsFiniteSet(S) /\ n \in Nat
      /\ \A t \in S : r.placed[t] \in Period
    BY ScheduledFacts
<1>2. \A t \in S : r.placed[t].start \in Int /\ r.placed[t].end \in Int
                   /\ r.placed[t].start < r.placed[t].end
    BY <1>1, PeriodFacts
<1>3. Numbers(key, S) /\ \A t \in S : key[t] = r.placed[t].start
    BY <1>2 DEF Numbers
<1>4. order = InOrderOf(key, S)
    BY DEF ByStart
<1> HIDE DEF key, order, S, n
<1>5. Lists(order, S) /\ \A i, j \in DOMAIN order : i < j => KeyBefore(key, order[i], order[j])
    BY <1>1, <1>3, <1>4, InOrderOfFacts
<1>6. Len(order) = n /\ DOMAIN order = 1 .. n
    BY <1>5 DEF Lists, n
<1>7. ASSUME NEW i \in 1 .. n, NEW j \in 1 .. n, i < j
      PROVE  r.placed[order[i]].end <= r.placed[order[j]].start
    <2>1. order[i] \in S /\ order[j] \in S /\ order[i] # order[j]
        <3>1. i # j
            BY <1>1, <1>7
        <3> QED
            BY <1>5, <1>6, <3>1 DEF Lists
    <2>2. KeyBefore(key, order[i], order[j])
        BY <1>5, <1>6, <1>7
    <2>3. key[order[i]] <= key[order[j]]
        <3>1. key[order[i]] \in Int /\ key[order[j]] \in Int
            BY <1>3, <2>1 DEF Numbers
        <3> QED
            BY <2>2, <3>1 DEF KeyBefore
    <2>4. ~ Overlaps(r.placed[order[i]], r.placed[order[j]])
        BY <2>1 DEF ResultIsRead, S
    <2>5. PICK a \in Int, b \in Int, c \in Int, d \in Int :
              /\ a = r.placed[order[i]].start /\ b = r.placed[order[i]].end
              /\ c = r.placed[order[j]].start /\ d = r.placed[order[j]].end
              /\ a < b /\ c < d
        BY <1>2, <2>1
    <2>6. a <= c
        BY <1>3, <2>1, <2>3, <2>5
    <2>7. ~ (a < d /\ c < b)
        BY <2>4, <2>5 DEF Overlaps
    <2>8. b <= c
        BY <2>5, <2>6, <2>7
    <2> QED
        BY <2>5, <2>8
<1> QED
    BY <1>5, <1>6, <1>7 DEF order, n, S

(* The gaps between placements, the empty ones included. *)
LEMMA BetweenFacts ==
    ASSUME NEW r, ResultIsRead(r)
    PROVE  LET order == ByStart(r)
               between == Between(order, r)
               n == Cardinality(Scheduled(r))
           IN  /\ DOMAIN between = 1 .. n - 1 /\ Naturals(between, 1 .. n - 1)
               /\ \A i \in 1 .. n - 1 :
                     between[i] = r.placed[order[i + 1]].start - r.placed[order[i]].end
<1> DEFINE S == Scheduled(r)
           order == ByStart(r)
           between == Between(order, r)
           n == Cardinality(S)
<1>1. n \in Nat /\ \A t \in S : r.placed[t] \in Period
    BY ScheduledFacts
<1>2. /\ Lists(order, S) /\ Len(order) = n
      /\ \A i, j \in 1 .. n : i < j => r.placed[order[i]].end <= r.placed[order[j]].start
    BY ByStartFacts
<1> HIDE DEF order
<1>3. between = [i \in 1 .. n - 1 |-> r.placed[order[i + 1]].start - r.placed[order[i]].end]
    BY <1>2 DEF Between
<1> HIDE DEF between, n
<1>4. \A i \in 1 .. n : order[i] \in S
    BY <1>2 DEF Lists, n
<1>5. ASSUME NEW i \in 1 .. n - 1 PROVE between[i] \in Nat
    <2>1. i \in 1 .. n /\ i + 1 \in 1 .. n /\ i < i + 1
        BY <1>1
    <2>2. r.placed[order[i]].end \in Int /\ r.placed[order[i + 1]].start \in Int
        BY <1>1, <1>4, <2>1, PeriodFacts
    <2>3. r.placed[order[i]].end <= r.placed[order[i + 1]].start
        BY <1>2, <2>1
    <2>4. between[i] = r.placed[order[i + 1]].start - r.placed[order[i]].end
        BY <1>3
    <2> QED
        BY <2>2, <2>3, <2>4
<1>6. DOMAIN between = 1 .. n - 1 /\ Naturals(between, 1 .. n - 1)
    BY <1>3, <1>5 DEF Naturals
<1> QED
    BY <1>3, <1>6 DEF order, between, n

(* What is left of a list of gaps without the empty ones. *)
LEMMA PositiveFacts ==
    ASSUME NEW gap, DOMAIN gap \in SUBSET Int, IsFiniteSet(DOMAIN gap),
           Naturals(gap, DOMAIN gap)
    PROVE  LET gaps == Positive(gap) IN
           /\ gaps \in Seq(Int) /\ \A i \in DOMAIN gaps : gaps[i] > 0
           /\ \A i, j \in DOMAIN gaps : i < j => gaps[i] <= gaps[j]
           /\ TotalOf(gaps) = SumOf(gap, DOMAIN gap)
<1> DEFINE D == DOMAIN gap
           S == {i \in D : gap[i] > 0}
           gaps == Positive(gap)
<1>1. S \in SUBSET Int /\ S \in SUBSET D /\ IsFiniteSet(S)
    BY FS_Subset
<1>2. Numbers(gap, S) /\ Numbers(gap, D)
    BY DEF Naturals, Numbers
<1>3. gaps = Ascending(gap, S)
    BY DEF Positive
<1> HIDE DEF gaps, D
<1>4. /\ gaps \in Seq(Int)
      /\ \A i, j \in DOMAIN gaps : i < j => gaps[i] <= gaps[j]
      /\ \A i \in DOMAIN gaps : \E x \in S : gaps[i] = gap[x]
      /\ SumOf(gaps, DOMAIN gaps) = SumOf(gap, S)
    <2> HIDE DEF S
    <2> QED
        BY <1>1, <1>2, <1>3, AscendingFacts
<1>5. \A i \in DOMAIN gaps : gaps[i] > 0
    BY <1>4
<1>6. \A x \in D \ S : gap[x] = 0
    BY DEF Naturals, D
<1>7. SumOf(gap, D) = SumOf(gap, S)
    <2> HIDE DEF S
    <2> QED
        BY <1>1, <1>2, <1>6, SumOfPadded DEF D
<1> QED
    BY <1>4, <1>5, <1>7 DEF TotalOf, gaps, D

LEMMA GapsFacts ==
    ASSUME NEW r, ResultIsRead(r)
    PROVE  LET gaps == Gaps(r)
               between == Between(ByStart(r), r)
           IN  /\ gaps \in Seq(Int) /\ \A i \in DOMAIN gaps : gaps[i] > 0
               /\ \A i, j \in DOMAIN gaps : i < j => gaps[i] <= gaps[j]
               /\ TotalOf(gaps) = SumOf(between, 1 .. Cardinality(Scheduled(r)) - 1)
<1> DEFINE between == Between(ByStart(r), r)
           n == Cardinality(Scheduled(r))
<1>1. n \in Nat
    BY ScheduledFacts
<1>2. DOMAIN between = 1 .. n - 1 /\ Naturals(between, 1 .. n - 1)
    BY BetweenFacts
<1> HIDE DEF n, between
<1>3. IsFiniteSet(1 .. n - 1) /\ 1 .. n - 1 \in SUBSET Int
    BY <1>1, FS_Interval
<1>4. Gaps(r) = Positive(between)
    BY DEF Gaps, between
<1>5. LET gaps == Positive(between) IN
      /\ gaps \in Seq(Int) /\ \A i \in DOMAIN gaps : gaps[i] > 0
      /\ \A i, j \in DOMAIN gaps : i < j => gaps[i] <= gaps[j]
      /\ TotalOf(gaps) = SumOf(between, 1 .. n - 1)
    BY <1>2, <1>3, PositiveFacts
<1> QED
    BY <1>4, <1>5 DEF between, n

SpansAndGaps(span, gap, a, b, n) ==
    /\ \A i \in 1 .. n : span[i] = b[i] - a[i]
    /\ \A i \in 1 .. n - 1 : gap[i] = a[i + 1] - b[i]

LEMMA SpansAndGapsAddUp ==
    ASSUME NEW n \in Nat, n > 0, NEW a, NEW b, Numbers(a, 1 .. n), Numbers(b, 1 .. n),
           NEW span, NEW gap, SpansAndGaps(span, gap, a, b, n)
    PROVE  SumOf(span, 1 .. n) + SumOf(gap, 1 .. n - 1) = b[n] - a[1]
<1> DEFINE P == {k \in Nat : k + 1 <= n =>
                    SumOf(span, 1 .. k + 1) + SumOf(gap, 1 .. k) = b[k + 1] - a[1]}
<1>1. Numbers(span, 1 .. n) /\ Numbers(gap, 1 .. n - 1)
    BY DEF Numbers, SpansAndGaps
<1>2. /\ SumOf(span, 1 .. 0) = 0
      /\ \A k \in 0 .. n : SumOf(span, 1 .. k) \in Int
      /\ \A k \in 1 .. n : SumOf(span, 1 .. k) = span[k] + SumOf(span, 1 .. k - 1)
    BY <1>1, SumUpTo
<1>3. /\ SumOf(gap, 1 .. 0) = 0
      /\ \A k \in 0 .. n - 1 : SumOf(gap, 1 .. k) \in Int
      /\ \A k \in 1 .. n - 1 : SumOf(gap, 1 .. k) = gap[k] + SumOf(gap, 1 .. k - 1)
    <2>1. PICK m \in Nat : m = n - 1
        OBVIOUS
    <2>2. Numbers(gap, 1 .. m)
        BY <1>1, <2>1
    <2> HIDE DEF P
    <2>3. /\ SumOf(gap, 1 .. 0) = 0
          /\ \A k \in 0 .. m : SumOf(gap, 1 .. k) \in Int
          /\ \A k \in 1 .. m : SumOf(gap, 1 .. k) = gap[k] + SumOf(gap, 1 .. k - 1)
        BY <2>2, SumUpTo
    <2> QED
        BY <2>1, <2>3
<1>4. 0 \in P
    <2>1. 1 \in 1 .. n /\ 1 - 1 = 0
        OBVIOUS
    <2>2. SumOf(span, 1 .. 1) = span[1] + SumOf(span, 1 .. 0)
        BY <1>2, <2>1
    <2>3. span[1] = b[1] - a[1] /\ a[1] \in Int /\ b[1] \in Int
        BY <2>1 DEF Numbers, SpansAndGaps
    <2>4. SumOf(span, 1 .. 1) + SumOf(gap, 1 .. 0) = b[1] - a[1]
        BY <1>2, <1>3, <2>2, <2>3
    <2> QED
        BY <2>4
<1>5. ASSUME NEW k \in Nat, k \in P PROVE k + 1 \in P
    <2> SUFFICES ASSUME (k + 1) + 1 <= n
                 PROVE  SumOf(span, 1 .. (k + 1) + 1) + SumOf(gap, 1 .. k + 1) = b[(k + 1) + 1] - a[1]
        OBVIOUS
    <2>1. PICK j \in Nat : j = k + 1
        OBVIOUS
    <2>2. j + 1 \in 1 .. n /\ j \in 1 .. n - 1 /\ j \in 1 .. n /\ (j + 1) - 1 = j /\ j - 1 = k /\ j <= n
        BY <2>1
    <2>3. SumOf(span, 1 .. j) + SumOf(gap, 1 .. k) = b[j] - a[1]
        BY <1>5, <2>1, <2>2
    <2> HIDE DEF P
    <2>4. SumOf(span, 1 .. j + 1) = span[j + 1] + SumOf(span, 1 .. j) /\ SumOf(span, 1 .. j) \in Int
        BY <1>2, <2>2
    <2>5. SumOf(gap, 1 .. j) = gap[j] + SumOf(gap, 1 .. k) /\ SumOf(gap, 1 .. k) \in Int
        <3>1. k \in 0 .. n - 1
            BY <2>2
        <3> QED
            BY <1>3, <2>2, <3>1
    <2>6. /\ span[j + 1] = b[j + 1] - a[j + 1] /\ gap[j] = a[j + 1] - b[j]
          /\ a[j + 1] \in Int /\ b[j + 1] \in Int /\ b[j] \in Int
        BY <2>2 DEF Numbers, SpansAndGaps
    <2>7. a[1] \in Int
        BY <2>2 DEF Numbers
    <2>8. SumOf(span, 1 .. j + 1) + SumOf(gap, 1 .. j) = b[j + 1] - a[1]
        <3> DEFINE x == SumOf(span, 1 .. j)
                   y == SumOf(gap, 1 .. k)
        <3>1. /\ x \in Int /\ y \in Int /\ x + y = b[j] - a[1]
              /\ SumOf(span, 1 .. j + 1) = (b[j + 1] - a[j + 1]) + x
              /\ SumOf(gap, 1 .. j) = (a[j + 1] - b[j]) + y
            BY <2>3, <2>4, <2>5, <2>6
        <3> HIDE DEF x, y
        <3> QED
            BY <2>6, <2>7, <3>1
    <2> QED
        BY <2>1, <2>8
<1>6. Nat \subseteq P
    <2> HIDE DEF P
    <2> QED
        BY <1>4, <1>5, CountingUp
<1>7. n - 1 \in P /\ (n - 1) + 1 = n
    BY <1>6
<1> QED
    BY <1>7

LEMMA MaxIs ==
    ASSUME NEW S \in SUBSET Int, NEW m \in S, \A x \in S : x <= m
    PROVE  Max(S) = m
<1>1. \E y \in S : \A x \in S : y >= x
    OBVIOUS
<1>2. Max(S) \in S /\ \A x \in S : Max(S) >= x
    BY <1>1 DEF Max
<1>3. Max(S) \in Int /\ m \in Int /\ Max(S) >= m /\ Max(S) <= m
    BY <1>2
<1> QED
    BY <1>3

LEMMA MinIs ==
    ASSUME NEW S \in SUBSET Int, NEW m \in S, \A x \in S : m <= x
    PROVE  Min(S) = m
<1>1. \E y \in S : \A x \in S : y <= x
    OBVIOUS
<1>2. Min(S) \in S /\ \A x \in S : Min(S) <= x
    BY <1>1 DEF Min
<1>3. Min(S) \in Int /\ m \in Int /\ Min(S) >= m /\ Min(S) <= m
    BY <1>2
<1> QED
    BY <1>3

LEMMA EnvelopeIsFilled ==
    ASSUME NEW r, ResultIsRead(r), Scheduled(r) # {}
    PROVE  LET placed == {r.placed[t] : t \in Scheduled(r)} IN
           ScheduledTime(r) + TotalOf(Gaps(r))
              = Max({p.end : p \in placed}) - Min({p.start : p \in placed})
<1> DEFINE S == Scheduled(r)
           order == ByStart(r)
           n == Cardinality(S)
           between == Between(order, r)
           a == [i \in 1 .. n |-> r.placed[order[i]].start]
           b == [i \in 1 .. n |-> r.placed[order[i]].end]
           span == [i \in 1 .. n |-> b[i] - a[i]]
           spans == [t \in S |-> Span(r.placed[t])]
           placed == {r.placed[t] : t \in S}
           Ends == {p.end : p \in placed}
           Starts == {p.start : p \in placed}
<1>1. n \in Nat /\ IsFiniteSet(S) /\ \A t \in S : r.placed[t] \in Period
    BY ScheduledFacts
<1>2. n > 0
    BY <1>1, FS_EmptySet
<1>3. \A t \in S : r.placed[t].start \in Int /\ r.placed[t].end \in Int
                   /\ r.placed[t].start < r.placed[t].end
    BY <1>1, PeriodFacts
<1>4. /\ Lists(order, S)
      /\ \A i, j \in 1 .. n : i < j => r.placed[order[i]].end <= r.placed[order[j]].start
    BY ByStartFacts
<1>5. \A i \in 1 .. n - 1 : between[i] = r.placed[order[i + 1]].start - r.placed[order[i]].end
    BY BetweenFacts
<1>6. TotalOf(Gaps(r)) = SumOf(between, 1 .. n - 1)
    BY GapsFacts
<1> HIDE DEF order, between
<1>7. DOMAIN order = 1 .. n
    BY <1>4 DEF Lists
<1> HIDE DEF n, S
<1>8. \A i \in 1 .. n : order[i] \in S
    BY <1>4, <1>7 DEF Lists
<1>9. \A i \in 1 .. n : /\ a[i] = r.placed[order[i]].start /\ b[i] = r.placed[order[i]].end
                        /\ a[i] \in Int /\ b[i] \in Int /\ a[i] < b[i] /\ span[i] = b[i] - a[i]
    BY <1>3, <1>8
<1> HIDE DEF a, b, span
<1>10. Numbers(a, 1 .. n) /\ Numbers(b, 1 .. n)
    BY <1>9 DEF Numbers
<1>11. \A i \in 1 .. n - 1 : between[i] = a[i + 1] - b[i]
    <2> SUFFICES ASSUME NEW i \in 1 .. n - 1 PROVE between[i] = a[i + 1] - b[i]
        OBVIOUS
    <2>1. i \in 1 .. n /\ i + 1 \in 1 .. n
        BY <1>1
    <2> QED
        BY <1>5, <1>9, <2>1
<1>12. SumOf(span, 1 .. n) + SumOf(between, 1 .. n - 1) = b[n] - a[1]
    <2>1. SpansAndGaps(span, between, a, b, n)
        BY <1>9, <1>11 DEF SpansAndGaps
    <2> QED
        BY <1>1, <1>2, <1>10, <2>1, SpansAndGapsAddUp
<1>13. SumOf(spans, S) = SumOf(span, 1 .. n)
    <2>1. Renames(order, 1 .. n, S)
        BY <1>4, <1>7 DEF Lists, Renames
    <2>2. Numbers(spans, S)
        BY <1>3 DEF Numbers, Span
    <2>3. Follows(span, spans, order, 1 .. n)
        <3> SUFFICES ASSUME NEW i \in 1 .. n PROVE span[i] = spans[order[i]]
            BY DEF Follows
        <3>1. order[i] \in S /\ spans[order[i]] = Span(r.placed[order[i]])
            BY <1>8
        <3> QED
            BY <1>9, <3>1 DEF Span
    <2>4. IsFiniteSet(1 .. n)
        BY <1>1, FS_Interval
    <2> HIDE DEF spans
    <2> QED
        BY <2>1, <2>2, <2>3, <2>4, SumOfRenamed
<1>14. ScheduledTime(r) = SumOf(spans, S)
    BY DEF ScheduledTime, S
<1> HIDE DEF spans
<1>15. 1 \in 1 .. n /\ n \in 1 .. n
    BY <1>1, <1>2
<1>16. ASSUME NEW t \in S PROVE r.placed[t].end <= b[n] /\ a[1] <= r.placed[t].start
    <2>1. PICK i \in 1 .. n : order[i] = t
        BY <1>4, <1>7 DEF Lists
    <2>2. b[i] <= b[n]
        <3>1. CASE i = n
            BY <1>9, <1>15, <3>1
        <3>2. CASE i # n
            <4>1. i < n
                BY <1>1, <3>2
            <4>2. b[i] <= a[n] /\ a[n] < b[n] /\ b[i] \in Int /\ a[n] \in Int /\ b[n] \in Int
                BY <1>4, <1>9, <1>15, <4>1
            <4> QED
                BY <4>2
        <3> QED
            BY <3>1, <3>2
    <2>3. a[1] <= a[i]
        <3>1. CASE i = 1
            BY <1>9, <1>15, <3>1
        <3>2. CASE i # 1
            <4>1. 1 < i
                BY <1>1, <3>2
            <4>2. b[1] <= a[i] /\ a[1] < b[1] /\ b[1] \in Int /\ a[1] \in Int /\ a[i] \in Int
                BY <1>4, <1>9, <1>15, <4>1
            <4> QED
                BY <4>2
        <3> QED
            BY <3>1, <3>2
    <2> QED
        BY <1>9, <2>1, <2>2, <2>3
<1>17. /\ Ends \in SUBSET Int /\ b[n] \in Ends /\ \A x \in Ends : x <= b[n]
       /\ Starts \in SUBSET Int /\ a[1] \in Starts /\ \A x \in Starts : a[1] <= x
    <2>1. order[n] \in S /\ order[1] \in S
        BY <1>8, <1>15
    <2>2. b[n] = r.placed[order[n]].end /\ a[1] = r.placed[order[1]].start
        BY <1>9, <1>15
    <2> QED
        BY <1>3, <1>16, <2>1, <2>2
<1> HIDE DEF Ends, Starts
<1>18. Max(Ends) = b[n] /\ Min(Starts) = a[1]
    BY <1>17, MaxIs, MinIs
<1> QED
    BY <1>6, <1>12, <1>13, <1>14, <1>18 DEF Ends, Starts, S

Climbing(g, n) ==
    /\ g \in Seq(Int) /\ Len(g) = n
    /\ \A i, j \in 1 .. n : i < j => g[i] <= g[j]

(* v lies part hundredths of the way from the value in place low.          *)
LiesAt(v, g, n, low, part) ==
    /\ v \in Int
    /\ part = 0 => v = 100 * g[low]
    /\ part > 0 => low < n /\ v = 100 * g[low] + part * (g[low + 1] - g[low])

LEMMA PercentileFacts ==
    ASSUME NEW n \in Nat, n > 0, NEW g, Climbing(g, n), NEW q \in {50, 90}
    PROVE  \E low \in 1 .. n, part \in 0 .. 99 :
              /\ q * (n - 1) = 100 * (low - 1) + part
              /\ LiesAt(Percentile(g, q), g, n, low, part)
<1> DEFINE rank == q * (n - 1)
           low == 1 + (rank \div 100)
           part == rank % 100
           v == Percentile(g, q)
<1>1. g # <<>> /\ Len(g) = n /\ \A i \in 1 .. n : g[i] \in Int
    BY DEF Climbing
<1>2. v = IF part = 0 THEN 100 * g[low] ELSE g[low] * (100 - part) + g[low + 1] * part
    BY <1>1 DEF Percentile
<1>3. rank \in Nat /\ rank <= 100 * (n - 1)
    <2>1. CASE q = 50
        BY <2>1
    <2>2. CASE q = 90
        BY <2>2
    <2> QED
        BY <2>1, <2>2
<1> HIDE DEF v, rank
<1>4. PICK k \in Nat, p \in 0 .. 99 :
          k = rank \div 100 /\ p = rank % 100 /\ rank = 100 * k + p
    <2>1. 100 \in Nat /\ 100 # 0
        OBVIOUS
    <2>2. /\ rank \div 100 \in Nat /\ rank % 100 \in 0 .. 100 - 1
          /\ rank = 100 * (rank \div 100) + (rank % 100)
        BY <1>3, <2>1, DivFacts
    <2>3. 0 .. 100 - 1 = 0 .. 99
        OBVIOUS
    <2> QED
        BY <2>2, <2>3
<1>5. low = 1 + k /\ part = p
    BY <1>4
<1> HIDE DEF low, part
<1>6. low \in 1 .. n /\ p \in Int /\ (p > 0 => low < n)
    <2>1. 100 * k + p <= 100 * (n - 1)
        BY <1>3, <1>4
    <2>2. k <= n - 1 /\ (p > 0 => k < n - 1)
        BY <2>1
    <2> QED
        BY <1>5, <2>2
<1>7. rank = 100 * (low - 1) + p
    BY <1>4, <1>5
<1>8. LiesAt(v, g, n, low, p)
    <2>1. CASE p = 0
        <3>1. v = 100 * g[low] /\ g[low] \in Int
            BY <1>1, <1>2, <1>5, <1>6, <2>1
        <3> QED
            BY <2>1, <3>1 DEF LiesAt
    <2>2. CASE p # 0
        <3>1. p > 0 /\ low < n /\ low + 1 \in 1 .. n
            BY <1>6, <2>2
        <3>2. v = g[low] * (100 - p) + g[low + 1] * p
            BY <1>2, <1>5, <2>2
        <3>3. g[low] \in Int /\ g[low + 1] \in Int
            BY <1>1, <1>6, <3>1
        <3>4. \A x, y \in Int : /\ x * (100 - p) + y * p = 100 * x + p * (y - x)
                                /\ x * (100 - p) + y * p \in Int
            BY <1>6
        <3> QED
            BY <2>2, <3>1, <3>2, <3>3, <3>4 DEF LiesAt
    <2> QED
        BY <2>1, <2>2
<1> QED
    BY <1>6, <1>7, <1>8 DEF v, rank

LEMMA LiesBetween ==
    ASSUME NEW n \in Nat, NEW g, Climbing(g, n), NEW low \in 1 .. n, NEW part \in 0 .. 99,
           NEW v, LiesAt(v, g, n, low, part)
    PROVE  /\ 100 * g[low] <= v
           /\ low < n => v <= 100 * g[low + 1]
           /\ low = n => v = 100 * g[n]
<1>1. CASE low < n
    <2>1. low + 1 \in 1 .. n /\ low < low + 1
        BY <1>1
    <2>2. g[low] \in Int /\ g[low + 1] \in Int /\ g[low] <= g[low + 1]
        BY <2>1 DEF Climbing
    <2>3. PICK x \in Int, d \in Nat : x = g[low] /\ g[low + 1] = x + d
        <3>1. g[low + 1] - g[low] \in Nat /\ g[low + 1] = g[low] + (g[low + 1] - g[low])
            BY <2>2
        <3> QED
            BY <2>2, <3>1
    <2>4. v = 100 * x + part * d
        <3>1. CASE part = 0
            BY <2>3, <3>1 DEF LiesAt
        <3>2. CASE part > 0
            <4>1. v = 100 * g[low] + part * (g[low + 1] - g[low])
                BY <3>2 DEF LiesAt
            <4>2. g[low + 1] - g[low] = d
                BY <2>3
            <4> QED
                BY <2>3, <4>1, <4>2
        <3> QED
            BY <3>1, <3>2
    <2>5. part * d \in Nat /\ (100 - part) * d \in Nat
        <3>1. part \in Nat /\ 100 - part \in Nat
            OBVIOUS
        <3> QED
            BY <3>1
    <2>6. part * d <= 100 * d
        <3>1. (100 - part) * d = 100 * d - part * d
            OBVIOUS
        <3> QED
            BY <2>5, <3>1
    <2>7. 100 * g[low] <= v /\ v <= 100 * g[low + 1]
        BY <2>3, <2>4, <2>5, <2>6
    <2> QED
        BY <1>1, <2>7
<1>2. CASE low = n
    <2>1. part = 0
        BY <1>2 DEF LiesAt
    <2>2. v = 100 * g[low] /\ v \in Int
        BY <2>1 DEF LiesAt
    <2> QED
        BY <1>2, <2>2
<1> QED
    BY <1>1, <1>2

LEMMA PercentilesClimb ==
    ASSUME NEW n \in Nat, n > 0, NEW g, Climbing(g, n)
    PROVE  /\ 100 * g[1] <= Percentile(g, 50)
           /\ Percentile(g, 50) <= Percentile(g, 90)
           /\ Percentile(g, 90) <= 100 * g[n]
<1> DEFINE v == Percentile(g, 50)
           u == Percentile(g, 90)
<1>1. PICK l \in 1 .. n, p \in 0 .. 99 :
          50 * (n - 1) = 100 * (l - 1) + p /\ LiesAt(v, g, n, l, p)
    BY PercentileFacts
<1>2. PICK m \in 1 .. n, r \in 0 .. 99 :
          90 * (n - 1) = 100 * (m - 1) + r /\ LiesAt(u, g, n, m, r)
    BY PercentileFacts
<1> HIDE DEF v, u
<1>3. v \in Int /\ u \in Int
    BY <1>1, <1>2 DEF LiesAt
<1>4. /\ 100 * g[l] <= v /\ (l < n => v <= 100 * g[l + 1]) /\ (l = n => v = 100 * g[n])
      /\ 100 * g[m] <= u /\ (m < n => u <= 100 * g[m + 1]) /\ (m = n => u = 100 * g[n])
    <2>1. 100 * g[l] <= v /\ (l < n => v <= 100 * g[l + 1]) /\ (l = n => v = 100 * g[n])
        BY <1>1, LiesBetween
    <2>2. 100 * g[m] <= u /\ (m < n => u <= 100 * g[m + 1]) /\ (m = n => u = 100 * g[n])
        BY <1>2, LiesBetween
    <2> QED
        BY <2>1, <2>2
<1>5. \A i \in 1 .. n : g[i] \in Int /\ g[1] <= g[i] /\ g[i] <= g[n]
    <2> SUFFICES ASSUME NEW i \in 1 .. n PROVE g[i] \in Int /\ g[1] <= g[i] /\ g[i] <= g[n]
        OBVIOUS
    <2>1. 1 \in 1 .. n /\ n \in 1 .. n
        OBVIOUS
    <2>2. g[i] \in Int /\ g[1] \in Int /\ g[n] \in Int
        BY <2>1 DEF Climbing
    <2>3. i = 1 \/ g[1] <= g[i]
        BY <2>1 DEF Climbing
    <2>4. i = n \/ g[i] <= g[n]
        BY <2>1 DEF Climbing
    <2> QED
        BY <2>2, <2>3, <2>4
<1>6. l < m \/ (l = m /\ p <= r)
    <2>1. 100 * (l - 1) + p <= 100 * (m - 1) + r
        <3>1. 50 * (n - 1) <= 90 * (n - 1)
            OBVIOUS
        <3> QED
            BY <1>1, <1>2, <3>1
    <2>2. l \in Int /\ m \in Int /\ p \in Int /\ r \in Int
        OBVIOUS
    <2> QED
        BY <2>1, <2>2
<1>7. 1 \in 1 .. n /\ n \in 1 .. n
    OBVIOUS
<1>8. 100 * g[1] <= v
    <2>1. g[l] \in Int /\ g[1] \in Int /\ g[1] <= g[l]
        BY <1>5, <1>7
    <2> QED
        BY <1>3, <1>4, <2>1
<1>9. u <= 100 * g[n]
    <2>1. CASE m = n
        BY <1>3, <1>4, <2>1
    <2>2. CASE m < n
        <3>1. m + 1 \in 1 .. n
            BY <2>2
        <3>2. g[m + 1] \in Int /\ g[n] \in Int /\ g[m + 1] <= g[n]
            BY <1>5, <1>7, <3>1
        <3> QED
            BY <1>3, <1>4, <2>2, <3>2
    <2> QED
        BY <2>1, <2>2
<1>10. v <= u
    <2>1. CASE l < m
        <3>1. l < n /\ l + 1 \in 1 .. n /\ (l + 1 = m \/ l + 1 < m)
            BY <2>1
        <3>2. g[l + 1] <= g[m] /\ g[l + 1] \in Int /\ g[m] \in Int
            <4>1. g[l + 1] \in Int /\ g[m] \in Int
                BY <1>5, <3>1
            <4>2. l + 1 < m => g[l + 1] <= g[m]
                BY <3>1 DEF Climbing
            <4> QED
                BY <3>1, <4>1, <4>2
        <3> QED
            BY <1>3, <1>4, <3>1, <3>2
    <2>2. CASE l = m /\ p <= r /\ p = 0
        <3>1. v = 100 * g[m]
            BY <1>1, <2>2 DEF LiesAt
        <3> QED
            BY <1>4, <3>1
    <2>3. CASE l = m /\ p <= r /\ p > 0
        <3>1. r > 0 /\ p \in Int /\ r \in Int
            BY <2>3
        <3>2. /\ l < n
              /\ v = 100 * g[l] + p * (g[l + 1] - g[l])
              /\ u = 100 * g[l] + r * (g[l + 1] - g[l])
            BY <1>1, <1>2, <2>3, <3>1 DEF LiesAt
        <3>3. l + 1 \in 1 .. n /\ l < l + 1
            BY <3>2
        <3>4. g[l] \in Int /\ g[l + 1] \in Int /\ g[l] <= g[l + 1]
            BY <1>5, <3>3 DEF Climbing
        <3>5. PICK x \in Int, d \in Nat : x = g[l] /\ d = g[l + 1] - g[l]
            BY <3>4
        <3>6. PICK e \in Nat : r = p + e
            <4>1. r - p \in Nat /\ r = p + (r - p)
                BY <2>3
            <4> QED
                BY <4>1
        <3>7. r * d = p * d + e * d /\ e * d \in Nat /\ p * d \in Int
            BY <3>1, <3>6
        <3>8. v = 100 * x + p * d /\ u = 100 * x + r * d
            BY <3>2, <3>5
        <3> QED
            BY <3>7, <3>8
    <2> QED
        BY <1>6, <2>1, <2>2, <2>3
<1> QED
    BY <1>8, <1>9, <1>10 DEF v, u

LEMMA GapsAlwaysFill ==
    ASSUME About("result") => ResultIsRead(sample)
    PROVE  GapsFillTheEnvelope
<1> SUFFICES ASSUME About("result"), Scheduled(sample) # {}
             PROVE  GapsFillTheEnvelope
    BY DEF GapsFillTheEnvelope
<1> DEFINE g == Gaps(sample)
           n == Len(g)
           f == Fragmentation(sample)
           placed == {sample.placed[t] : t \in Scheduled(sample)}
<1>1. /\ g \in Seq(Int) /\ \A i \in DOMAIN g : g[i] > 0
      /\ \A i, j \in DOMAIN g : i < j => g[i] <= g[j]
    BY GapsFacts
<1>2. n \in Nat /\ DOMAIN g = 1 .. n
    BY <1>1
<1>3. ScheduledTime(sample) + TotalOf(g)
          = Max({p.end : p \in placed}) - Min({p.start : p \in placed})
    BY EnvelopeIsFilled
<1>4. /\ f.count = n /\ f.total = TotalOf(g) /\ f.largest = Final(g, 0) /\ f.min = First(g, NoPlacement)
      /\ f.median = Percentile(g, 50) /\ f.p90 = Percentile(g, 90)
    BY DEF Fragmentation, FragmentationOf
<1> HIDE DEF g, n, f
<1>5. ASSUME n > 0
      PROVE  /\ 100 * f.min <= f.median /\ f.median <= f.p90
             /\ f.p90 <= 100 * f.largest /\ f.count * f.min <= f.total
    <2>1. g # <<>> /\ 1 \in 1 .. n /\ n \in 1 .. n
        BY <1>1, <1>2, <1>5 DEF n
    <2>2. f.largest = g[n] /\ f.min = g[1]
        BY <1>1, <1>4, <2>1 DEF Final, First, Last, n
    <2>3. Climbing(g, n)
        BY <1>1, <1>2 DEF Climbing, n
    <2>4. /\ 100 * g[1] <= Percentile(g, 50) /\ Percentile(g, 50) <= Percentile(g, 90)
          /\ Percentile(g, 90) <= 100 * g[n]
        BY <1>2, <1>5, <2>3, PercentilesClimb
    <2> DEFINE least == [i \in 1 .. n |-> g[1]]
    <2>5. /\ IsFiniteSet(1 .. n) /\ Cardinality(1 .. n) = n
        BY <1>2, FS_Interval
    <2>6. g[1] \in Int /\ \A i \in 1 .. n : g[i] \in Int /\ g[1] <= g[i]
        <3> SUFFICES ASSUME NEW i \in 1 .. n PROVE g[1] \in Int /\ g[i] \in Int /\ g[1] <= g[i]
            BY <2>1
        <3>1. g[1] \in Int /\ g[i] \in Int
            BY <1>1, <1>2, <2>1
        <3>2. i = 1 \/ g[1] <= g[i]
            BY <1>1, <1>2, <2>1
        <3> QED
            BY <3>1, <3>2
    <2>7. SumOf(least, 1 .. n) = g[1] * Cardinality(1 .. n)
        BY <2>5, <2>6, SumOfConstant
    <2>8. Numbers(least, 1 .. n) /\ Numbers(g, 1 .. n) /\ \A i \in 1 .. n : least[i] <= g[i]
        BY <2>6 DEF Numbers
    <2> HIDE DEF least
    <2>9. SumOf(least, 1 .. n) <= SumOf(g, 1 .. n)
        BY <2>5, <2>8, SumOfCompare
    <2>10. g[1] * n = n * g[1]
        BY <1>2, <2>6
    <2>11. n * g[1] <= TotalOf(g)
        BY <1>2, <2>5, <2>7, <2>9, <2>10 DEF TotalOf
    <2> QED
        BY <1>4, <2>2, <2>4, <2>11
<1>6. /\ ScheduledTime(sample) + f.total
             = Max({p.end : p \in placed}) - Min({p.start : p \in placed})
      /\ f.count > 0 => /\ 100 * f.min <= f.median /\ f.median <= f.p90
                        /\ f.p90 <= 100 * f.largest
                        /\ f.count * f.min <= f.total
    BY <1>3, <1>4, <1>5
<1> QED
    BY <1>6 DEF GapsFillTheEnvelope, f

-----------------------------------------------------------------------------
(* The score of a schedule. *)
ScoreTerms == {"scheduled_task", "scheduled_priority", "utilization", "fragmentation"}

LEMMA TermsFacts ==
    ASSUME NEW r, ResultIsRead(r)
    PROVE  LET term == Terms(r) IN
           /\ DOMAIN term = ScoreTerms /\ Fractions(term)
           /\ (\A n \in ScoreTerms : term[n][1] = term[n][2]) =>
                 /\ Scheduled(r) = r.tasks
                 /\ Gaps(r) = <<>>
                 /\ ScheduledTime(r) >= TimeOf(r)
                 /\ Len(Stairs(r)) = 1
<1> DEFINE term == Terms(r)
           S == Scheduled(r)
           time == TimeOf(r)
           total == TotalOf(Gaps(r))
           c == Clamped(Ratio(total, time))
           Full(n) == term[n][1] = term[n][2]
<1>1. /\ S \in SUBSET r.tasks /\ IsFiniteSet(S) /\ Cardinality(S) \in Nat
      /\ \A t \in S : r.placed[t] \in Period
    BY ScheduledFacts
<1>2. time \in Int
    <2>1. Span(r.horizon) \in Int
        BY PeriodFacts DEF ResultIsRead, Span
    <2> QED
        BY <2>1 DEF TimeOf, ResultIsRead
<1>3. ScheduledTime(r) \in Int
    <2> DEFINE spans == [t \in S |-> Span(r.placed[t])]
    <2>1. Numbers(spans, S)
        BY <1>1, PeriodFacts DEF Numbers, Span
    <2>2. ScheduledTime(r) = SumOf(spans, S)
        BY DEF ScheduledTime
    <2> HIDE DEF spans, S
    <2> QED
        BY <1>1, <2>1, <2>2, SumOfFacts
<1>4. total \in Nat /\ (total = 0 => Gaps(r) = <<>>)
    <2>1. PICK g : g = Gaps(r)
        OBVIOUS
    <2>2. g \in Seq(Int) /\ \A i \in DOMAIN g : g[i] > 0
        BY <2>1, GapsFacts
    <2>3. PICK n \in Nat : DOMAIN g = 1 .. n /\ n = Len(g)
        BY <2>2
    <2>4. IsFiniteSet(1 .. n) /\ Naturals(g, 1 .. n)
        <3>1. \A i \in 1 .. n : g[i] \in Int /\ g[i] > 0
            BY <2>2, <2>3
        <3>2. IsFiniteSet(1 .. n)
            BY FS_Interval
        <3> QED
            BY <3>1, <3>2 DEF Naturals
    <2>5. SumOf(g, 1 .. n) \in Nat /\ ((\E i \in 1 .. n : g[i] > 0) => SumOf(g, 1 .. n) > 0)
        BY <2>4, SumsOfNaturals
    <2>6. g # <<>> => 1 \in 1 .. n /\ g[1] > 0
        BY <2>2, <2>3
    <2>7. total = SumOf(g, 1 .. n)
        BY <2>1, <2>3 DEF TotalOf
    <2> QED
        BY <2>1, <2>5, <2>6, <2>7
<1>5. IsFiniteSet(r.tasks) /\ Cardinality(r.tasks) \in Nat /\ Cardinality(S) <= Cardinality(r.tasks)
      /\ (Cardinality(S) = Cardinality(r.tasks) => S = r.tasks)
    <2>1. IsFiniteSet(r.tasks)
        BY DEF ResultIsRead
    <2> QED
        BY <1>1, <2>1, FS_Subset, FS_CardinalityType
<1>6. /\ DOMAIN term = ScoreTerms
      /\ term["scheduled_task"] = Clamped(Ratio(Cardinality(S), Cardinality(r.tasks)))
      /\ term["scheduled_priority"] = RelativePriority(PriorityStats(r))
      /\ term["utilization"] = Clamped(Ratio(ScheduledTime(r), time))
      /\ term["fragmentation"] = <<c[2] - c[1], c[2]>>
    BY DEF Terms, ScoreTerms, TaskRatio, Utilization, Fragmentation, FragmentationOf, Complement
<1> HIDE DEF term, S, time, total
<1>7. Fraction(term["scheduled_task"])
      /\ (Full("scheduled_task") => Cardinality(S) >= Cardinality(r.tasks))
    BY <1>1, <1>5, <1>6, ClampedFacts
<1>8. Fraction(term["utilization"])
      /\ (Full("utilization") => time > 0 /\ ScheduledTime(r) >= time)
    BY <1>2, <1>3, <1>6, ClampedFacts
<1>9. Fraction(c) /\ (c[1] = 0 <=> time <= 0 \/ total <= 0)
    BY <1>2, <1>4, ClampedFacts
<1> HIDE DEF c
<1>10. Fraction(term["fragmentation"]) /\ (Full("fragmentation") => time <= 0 \/ total <= 0)
    <2>1. term["fragmentation"][1] = c[2] - c[1] /\ term["fragmentation"][2] = c[2]
        BY <1>6
    <2>2. PICK a \in Int, b \in Int : a = c[1] /\ b = c[2] /\ 0 <= a /\ a <= b /\ b > 0
        BY <1>9 DEF Fraction
    <2>3. Fraction(term["fragmentation"])
        BY <2>1, <2>2 DEF Fraction
    <2>4. Full("fragmentation") => c[1] = 0
        <3> SUFFICES ASSUME Full("fragmentation") PROVE c[1] = 0
            OBVIOUS
        <3>1. b - a = b
            BY <2>1, <2>2
        <3> QED
            BY <2>2, <3>1
    <2> QED
        BY <1>9, <2>3, <2>4
<1>11. Fraction(term["scheduled_priority"])
       /\ (Full("scheduled_priority") => S # {} /\ \E top : \A t \in S : r.priority[t] = top)
    BY <1>6, RelativeFacts DEF S
<1>12. Fractions(term)
    BY <1>6, <1>7, <1>8, <1>10, <1>11 DEF Fractions, ScoreTerms
<1>13. ASSUME \A n \in ScoreTerms : Full(n)
       PROVE  /\ S = r.tasks /\ Gaps(r) = <<>>
              /\ ScheduledTime(r) >= time /\ Len(Stairs(r)) = 1
    <2>1. /\ Full("scheduled_task") /\ Full("utilization")
          /\ Full("fragmentation") /\ Full("scheduled_priority")
        BY <1>13 DEF ScoreTerms
    <2> HIDE DEF Full
    <2>2. S = r.tasks
        BY <1>1, <1>5, <1>7, <2>1
    <2>3. time > 0 /\ ScheduledTime(r) >= time
        BY <1>8, <2>1
    <2>4. total <= 0
        BY <1>2, <1>10, <2>1, <2>3
    <2>5. Gaps(r) = <<>>
        BY <1>4, <2>4
    <2>6. PICK top : S # {} /\ \A t \in S : r.priority[t] = top
        BY <1>11, <2>1
    <2>7. Len(Stairs(r)) = 1
        BY <2>6, OneStair DEF S
    <2> QED
        BY <2>2, <2>3, <2>5, <2>7
<1> QED
    BY <1>6, <1>12, <1>13 DEF term, S, time

LEMMA OnlyThePerfectScoreEver ==
    ASSUME About("result") => ResultIsRead(sample)
    PROVE  OnlyThePerfectScoreIsOne
<1> SUFFICES ASSUME About("result") PROVE OnlyThePerfectScoreIsOne
    BY DEF OnlyThePerfectScoreIsOne
<1> DEFINE term == Terms(sample)
           w == sample.weights
           score == CompositeScore(sample)
           Perfect == /\ Scheduled(sample) = sample.tasks
                      /\ Gaps(sample) = <<>>
                      /\ ScheduledTime(sample) >= TimeOf(sample)
                      /\ Len(Stairs(sample)) = 1
<1>1. ResultIsRead(sample)
    OBVIOUS
<1>2. /\ DOMAIN term = ScoreTerms /\ Fractions(term)
      /\ (\A n \in ScoreTerms : term[n][1] = term[n][2]) => Perfect
    BY <1>1, TermsFacts
<1>3. DOMAIN w = ScoreTerms /\ \A n \in ScoreTerms : w[n] \in Positives
    BY <1>1 DEF ResultIsRead, ScoreTerms, Positives
<1>4. score = ScoreOf(w, term, Denominator(term), SumOf(w, DOMAIN w))
    BY DEF CompositeScore
<1>5. IsFiniteSet(ScoreTerms) /\ ScoreTerms # {}
    <2>1. PICK a, b, c, d : ScoreTerms = {a, b, c, d}
        BY DEF ScoreTerms
    <2>2. IsFiniteSet({a} \cup {b})
        BY FS_Singleton, FS_AddElement
    <2>3. IsFiniteSet(({a} \cup {b}) \cup {c})
        BY <2>2, FS_AddElement
    <2>4. IsFiniteSet((({a} \cup {b}) \cup {c}) \cup {d})
        BY <2>3, FS_AddElement
    <2>5. ScoreTerms = (({a} \cup {b}) \cup {c}) \cup {d}
        BY <2>1
    <2> QED
        BY <2>4, <2>5
<1> HIDE DEF term, w, score, Perfect
<1>6. /\ 0 <= score[1] /\ score[1] <= score[2]
      /\ score[1] = score[2] => \A n \in ScoreTerms : term[n][1] = term[n][2]
    BY <1>2, <1>3, <1>4, <1>5, ScoreFacts
<1>7. /\ 0 <= score[1] /\ score[1] <= score[2]
      /\ score[1] = score[2] => Perfect
    BY <1>2, <1>6
<1> QED
    BY <1>7 DEF OnlyThePerfectScoreIsOne, Perfect, score

-----------------------------------------------------------------------------
(* The figure of merit that looks ahead *)

LEMMA ListFacts ==
    ASSUME NEW S, NEW list \in Seq(S)
    PROVE  /\ Len(list) \in Nat /\ DOMAIN list = 1 .. Len(list)
           /\ \A k \in 1 .. Len(list) : list[k] \in S
    OBVIOUS

LEMMA PrefixFacts ==
    ASSUME NEW n \in Nat, NEW k \in 1 .. n
    PROVE  /\ 1 .. k \in SUBSET (1 .. n) /\ 1 .. k # {}
           /\ Max(1 .. k) = k /\ (1 .. k) \ {k} = 1 .. k - 1
<1>1. Max(1 .. k) = k /\ (1 .. k) \ {k} = 1 .. k - 1
    BY MaxPicks
<1> QED
    BY <1>1

PartOf(w, from, to) == Span(Common(w, [start |-> from, end |-> to]))
UsableStep(dur, from, to, n, w) ==
    IF PartOf(w, from, to) >= dur THEN n + PartOf(w, from, to) ELSE n

LEMMA PartFacts ==
    ASSUME NEW w \in Period, NEW from \in Int, NEW to \in Int
    PROVE  /\ PartOf(w, from, to) \in Int
           /\ PartOf(w, from, to) = Earlier(w.end, to) - Later(w.start, from)
<1>1. w.start \in Int /\ w.end \in Int
    BY PeriodFacts
<1> QED
    BY <1>1 DEF PartOf, Span, Common, Earlier, Later

(* Adding up the parts of windows that take a task.                       *)
UsableFoldRuns(s, t, from, to, h) ==
    /\ h \in [0 .. Len(s.windows[t]) -> Int]
    /\ h[0] = 0
    /\ \A k \in 1 .. Len(s.windows[t]) : h[k] = UsableStep(s.dur[t], from, to, h[k - 1], s.windows[t][k])
    /\ UsableTicks(s, t, from, to) = h[Len(s.windows[t])]

LEMMA UsableFold ==
    ASSUME NEW s, NEW t, s.windows[t] \in Seq(Period), s.dur[t] \in Int, NEW from \in Int, NEW to \in Int
    PROVE  \E h : UsableFoldRuns(s, t, from, to, h)
<1> DEFINE list == s.windows[t]
           n == Len(list)
           G == Int
           base == 0
           step == [ky \in (1 .. n) \X G |-> UsableStep(s.dur[t], from, to, ky[2], list[ky[1]])]
           IsFold(it) == it = [r \in SUBSET (1 .. n) |->
                                  IF r = {} THEN base ELSE UsableStep(s.dur[t], from, to, it[r \ {Max(r)}], list[Max(r)])]
           iter == CHOOSE it : IsFold(it)
<1>1. n \in Nat /\ DOMAIN list = 1 .. n /\ \A k \in 1 .. n : list[k] \in Period
    <2>1. list \in Seq(Period)
        OBVIOUS
    <2> HIDE DEF list
    <2> QED
        BY <2>1, ListFacts
<1>2. base \in G
    OBVIOUS
<1>3. \A k \in 1 .. n : \A y \in G : UsableStep(s.dur[t], from, to, y, list[k]) \in G
    BY <1>1, PartFacts DEF UsableStep
<1>4. step \in [(1 .. n) \X G -> G]
    <2> HIDE DEF n, G, list
    <2> SUFFICES ASSUME NEW ky \in (1 .. n) \X G PROVE step[ky] \in G
        OBVIOUS
    <2>1. step[ky] = UsableStep(s.dur[t], from, to, ky[2], list[ky[1]]) /\ ky[1] \in 1 .. n /\ ky[2] \in G
        OBVIOUS
    <2> QED
        BY <1>3, <2>1
<1>5. \E it : IsFold(it)
    <2> HIDE DEF G, n, list, base
    <2>1. PICK g \in [SUBSET (1 .. n) -> G] : FoldsTo(n, base, step, g)
        <3> HIDE DEF step
        <3> QED
            BY <1>1, <1>2, <1>4, ListFoldExists
    <2>2. ASSUME NEW r \in SUBSET (1 .. n), r # {}
          PROVE  step[<<Max(r), g[r \ {Max(r)}]>>] = UsableStep(s.dur[t], from, to, g[r \ {Max(r)}], list[Max(r)])
        <3>1. Max(r) \in 1 .. n /\ g[r \ {Max(r)}] \in G
            BY <1>1, <2>2, MaxPicks
        <3> QED
            BY <3>1
    <2>3. IsFold(g)
        <3>1. \A r \in SUBSET (1 .. n) :
                 g[r] = IF r = {} THEN base ELSE step[<<Max(r), g[r \ {Max(r)}]>>]
            BY <2>1 DEF FoldsTo
        <3> HIDE DEF step
        <3>2. \A r \in SUBSET (1 .. n) :
                 g[r] = IF r = {} THEN base ELSE UsableStep(s.dur[t], from, to, g[r \ {Max(r)}], list[Max(r)])
            BY <2>2, <3>1
        <3> QED
            BY <3>2
    <2> HIDE DEF IsFold
    <2> QED
        BY <2>3
<1>6. IsFold(iter)
    <2> HIDE DEF IsFold
    <2> QED
        BY <1>5
<1>7. UsableTicks(s, t, from, to) = iter[1 .. n]
    BY <1>1 DEF UsableTicks, UsableStep, PartOf, FoldLeft, MapThenFoldSet
<1> HIDE DEF iter, G, n, list, base
<1>8. iter[{}] = base
    <2>1. {} \in SUBSET (1 .. n)
        OBVIOUS
    <2> QED
        BY <1>6, <2>1, Zenon
<1>9. \A k \in 1 .. n : iter[1 .. k] = UsableStep(s.dur[t], from, to, iter[1 .. k - 1], list[k])
    <2> SUFFICES ASSUME NEW k \in 1 .. n PROVE iter[1 .. k] = UsableStep(s.dur[t], from, to, iter[1 .. k - 1], list[k])
        OBVIOUS
    <2>1. 1 .. k \in SUBSET (1 .. n) /\ 1 .. k # {} /\ Max(1 .. k) = k /\ (1 .. k) \ {k} = 1 .. k - 1
        BY <1>1, PrefixFacts
    <2>2. iter[1 .. k] = UsableStep(s.dur[t], from, to, iter[(1 .. k) \ {Max(1 .. k)}], list[Max(1 .. k)])
        BY <1>6, <2>1, Zenon
    <2> QED
        BY <2>1, <2>2
<1> HIDE DEF IsFold
<1>10. \A k \in 1 .. n : \A y \in G : step[<<k, y>>] = UsableStep(s.dur[t], from, to, y, list[k])
    BY DEF step
<1> HIDE DEF step
<1>11. PICK h \in [0 .. n -> G] : ValuesOf(n, base, step, iter, h)
    <2>1. Steps(n, G, step, iter)
        BY <1>9, <1>10 DEF Steps
    <2> QED
        BY <1>1, <1>2, <1>4, <1>8, <2>1, FoldSteps
<1>12. \A k \in 1 .. n : h[k] = UsableStep(s.dur[t], from, to, h[k - 1], list[k])
    <2> SUFFICES ASSUME NEW k \in 1 .. n PROVE h[k] = UsableStep(s.dur[t], from, to, h[k - 1], list[k])
        OBVIOUS
    <2>1. k - 1 \in 0 .. n
        BY <1>1
    <2> QED
        BY <1>10, <1>11, <2>1 DEF ValuesOf
<1>13. UsableTicks(s, t, from, to) = h[n]
    BY <1>7, <1>11, Zenon DEF ValuesOf
<1>14. h[0] = base
    BY <1>11, Zenon DEF ValuesOf
<1> QED
    BY <1>11, <1>12, <1>13, <1>14, Zenon DEF G, n, list, base, UsableFoldRuns

(* The state of a search as it is read: windows in normal form, positive   *)
(* durations, predecessors among the tasks, and a load unit that the       *)
(* flexibilities divide.                                                   *)
FutureIsRead(s) ==
    /\ s.tasks \in SUBSET Int /\ IsFiniteSet(s.tasks)
    /\ s.regions \in Seq([start : Int, end : Int]) /\ s.regions # <<>>
    /\ \A t \in s.tasks :
          /\ s.windows[t] \in Seq(Period) /\ IsNormal(s.windows[t])
          /\ s.dur[t] \in Nat \ {0}
          /\ s.preds[t] \in SUBSET s.tasks
          /\ s.placed[t] \in Period \cup {NotPlaced}
          /\ s.soft[t] \in Int
    /\ \A t \in Recoverable(s) : (Unit * s.dur[t]) % BestRegion(s, t).ticks = 0

LEMMA LargestOfFinite ==
    ASSUME NEW S \in SUBSET Int, IsFiniteSet(S), S # {}
    PROVE  \E m \in S : \A x \in S : x <= m
<1> DEFINE P == {r \in SUBSET S : r = {} \/ \E m \in r : \A x \in r : x <= m}
<1>1. {} \in P
    OBVIOUS
<1>2. ASSUME NEW r \in SUBSET S, NEW z \in r, r \ {z} \in P PROVE r \in P
    <2>1. z \in Int /\ \A x \in r : x \in Int
        OBVIOUS
    <2>2. CASE r \ {z} = {}
        <3>1. \A x \in r : x <= z
            BY <2>1, <2>2
        <3> QED
            BY <3>1
    <2>3. CASE r \ {z} # {}
        <3>1. PICK m \in r \ {z} : \A x \in r \ {z} : x <= m
            BY <1>2, <2>3
        <3>2. CASE z <= m
            <4>1. m \in r /\ \A x \in r : x <= m
                BY <3>1, <3>2
            <4> QED
                BY <4>1
        <3>3. CASE ~ (z <= m)
            <4>1. \A x \in r : x <= z
                BY <2>1, <3>1, <3>3
            <4> QED
                BY <4>1
        <3> QED
            BY <3>2, <3>3
    <2> QED
        BY <2>2, <2>3
<1>3. Grows(S, P)
    BY <1>2 DEF Grows
<1>4. S \in P
    <2> HIDE DEF P
    <2> QED
        BY <1>1, <1>3, OneByOne
<1> QED
    BY <1>4

(* A blocked task has no start; another starts once the region is open and *)
(* its predecessors have ended.                                            *)
LEMMA EffectiveFacts ==
    ASSUME NEW s, FutureIsRead(s), NEW t \in s.tasks, NEW from \in Int
    PROVE  /\ s.preds[t] \cap Remaining(s) # {} => EffectiveStart(s, t, from) = Blocked
           /\ s.preds[t] \cap Remaining(s) = {} =>
                 /\ EffectiveStart(s, t, from) \in Int
                 /\ from <= EffectiveStart(s, t, from)
                 /\ \A u \in s.preds[t] : /\ s.placed[u] \in Period
                                          /\ s.placed[u].end <= EffectiveStart(s, t, from)
                 /\ \A x \in Int : from <= x /\ (\A u \in s.preds[t] : s.placed[u].end <= x)
                                      => EffectiveStart(s, t, from) <= x
<1>1. s.preds[t] \cap Remaining(s) # {} => EffectiveStart(s, t, from) = Blocked
    BY DEF EffectiveStart
<1>2. ASSUME s.preds[t] \cap Remaining(s) = {}
      PROVE  /\ EffectiveStart(s, t, from) \in Int
             /\ from <= EffectiveStart(s, t, from)
             /\ \A u \in s.preds[t] : /\ s.placed[u] \in Period
                                      /\ s.placed[u].end <= EffectiveStart(s, t, from)
             /\ \A x \in Int : from <= x /\ (\A u \in s.preds[t] : s.placed[u].end <= x)
                                  => EffectiveStart(s, t, from) <= x
    <2> DEFINE ends == {s.placed[u].end : u \in s.preds[t]}
               S == {from} \cup ends
    <2>1. s.preds[t] \in SUBSET s.tasks /\ IsFiniteSet(s.tasks)
        BY DEF FutureIsRead
    <2>2. ASSUME NEW u \in s.preds[t] PROVE s.placed[u] \in Period /\ s.placed[u].end \in Int
        <3>1. u \in s.tasks /\ s.placed[u] # NotPlaced
            BY <1>2, <2>1 DEF Remaining
        <3>2. s.placed[u] \in Period
            BY <3>1 DEF FutureIsRead
        <3> QED
            BY <3>2, PeriodFacts
    <2>3. IsFiniteSet(S) /\ S \in SUBSET Int /\ S # {}
        <3>1. IsFiniteSet(s.preds[t])
            BY <2>1, FS_Subset
        <3>2. IsFiniteSet(ends)
            <4> DEFINE f == [u \in s.preds[t] |-> s.placed[u].end]
            <4>1. ends = {f[u] : u \in s.preds[t]} /\ f = [u \in s.preds[t] |-> f[u]]
                OBVIOUS
            <4> HIDE DEF ends, f
            <4> QED
                BY <3>1, <4>1, ImageCount
        <3>3. IsFiniteSet(S)
            <4> HIDE DEF ends
            <4>1. IsFiniteSet({from})
                BY FS_Singleton
            <4> QED
                BY <3>2, <4>1, FS_Union
        <3> QED
            BY <2>2, <3>3
    <2>4. EffectiveStart(s, t, from) = Max(S)
        BY <1>2 DEF EffectiveStart
    <2>5. Max(S) \in S /\ \A x \in S : x <= Max(S)
        <3> HIDE DEF S
        <3>1. PICK m \in S : \A x \in S : x <= m
            BY <2>3, LargestOfFinite
        <3>2. Max(S) = m
            BY <2>3, <3>1, MaxIs
        <3> QED
            BY <3>1, <3>2
    <2>6. Max(S) \in Int
        BY <2>3, <2>5
    <2>7. \A u \in s.preds[t] : s.placed[u].end \in S
        OBVIOUS
    <2>8. \A x \in Int : from <= x /\ (\A u \in s.preds[t] : s.placed[u].end <= x)
                             => Max(S) <= x
        BY <2>5
    <2> QED
        BY <2>2, <2>4, <2>5, <2>6, <2>7, <2>8
<1> QED
    BY <1>1, <1>2

(* What a period leaves a task is nothing, or enough for it, the latter    *)
(* when one of its windows has room in the period.                         *)
HasRoom(s, t, from, to) == \E k \in DOMAIN s.windows[t] : PartOf(s.windows[t][k], from, to) >= s.dur[t]

LEMMA UsableFacts ==
    ASSUME NEW s, FutureIsRead(s), NEW t \in s.tasks, NEW from \in Int, NEW to \in Int
    PROVE  LET ticks == UsableTicks(s, t, from, to) IN
           /\ ticks \in Nat
           /\ HasRoom(s, t, from, to) => ticks >= s.dur[t]
           /\ ~ HasRoom(s, t, from, to) => ticks = 0
<1> DEFINE list == s.windows[t]
           n == Len(list)
           d == s.dur[t]
           room(j) == \E k \in 1 .. j : PartOf(list[k], from, to) >= d
<1>1. list \in Seq(Period) /\ d \in Nat \ {0} /\ d \in Int
    BY DEF FutureIsRead
<1>2. PICK h : UsableFoldRuns(s, t, from, to, h)
    BY <1>1, UsableFold
<1>3. /\ h[0] = 0
      /\ \A k \in 1 .. n : h[k] = UsableStep(d, from, to, h[k - 1], list[k])
      /\ UsableTicks(s, t, from, to) = h[n]
    BY <1>2 DEF UsableFoldRuns
<1>4. n \in Nat /\ DOMAIN list = 1 .. n
    BY <1>1
<1>5. \A k \in 1 .. n : PartOf(list[k], from, to) \in Int
    BY <1>1, PartFacts
<1> DEFINE P == {j \in Nat : j <= n => /\ h[j] \in Nat
                                       /\ room(j) => h[j] >= d
                                       /\ ~ room(j) => h[j] = 0}
<1> HIDE DEF n, d, list
<1>6. 0 \in P
    BY <1>3
<1>7. ASSUME NEW j \in Nat, j \in P PROVE j + 1 \in P
    <2> SUFFICES ASSUME j + 1 <= n
                 PROVE  /\ h[j + 1] \in Nat
                        /\ room(j + 1) => h[j + 1] >= d
                        /\ ~ room(j + 1) => h[j + 1] = 0
        OBVIOUS
    <2>1. j + 1 \in 1 .. n /\ (j + 1) - 1 = j /\ j <= n
        BY <1>4
    <2>2. h[j + 1] = UsableStep(d, from, to, h[j], list[j + 1])
        BY <1>3, <2>1
    <2>3. h[j] \in Nat /\ (room(j) => h[j] >= d) /\ (~ room(j) => h[j] = 0)
        BY <1>7, <2>1
    <2>4. room(j + 1) <=> room(j) \/ PartOf(list[j + 1], from, to) >= d
        <3>1. \A k \in 1 .. j + 1 : k \in 1 .. j \/ k = j + 1
            OBVIOUS
        <3>2. 1 .. j \subseteq 1 .. j + 1 /\ j + 1 \in 1 .. j + 1
            OBVIOUS
        <3> QED
            BY <3>1, <3>2
    <2> HIDE DEF room
    <2> QED
        BY <1>1, <1>5, <2>1, <2>2, <2>3, <2>4 DEF UsableStep
<1>8. Nat \subseteq P
    <2> HIDE DEF P
    <2> QED
        BY <1>6, <1>7, CountingUp
<1>9. n \in P /\ n <= n
    BY <1>4, <1>8
<1>10. room(n) <=> HasRoom(s, t, from, to)
    BY <1>4 DEF HasRoom, list, d
<1> HIDE DEF room
<1>11. h[n] \in Nat /\ (room(n) => h[n] >= d) /\ (~ room(n) => h[n] = 0)
    BY <1>9
<1> QED
    BY <1>3, <1>10, <1>11 DEF d

BestStep(s, t, best, region) ==
    IF EffectiveStart(s, t, region.start) = Blocked THEN best
    ELSE IF UsableTicks(s, t, EffectiveStart(s, t, region.start), region.end) > best.ticks
           THEN [from |-> EffectiveStart(s, t, region.start), to |-> region.end,
                 ticks |-> UsableTicks(s, t, EffectiveStart(s, t, region.start), region.end)]
           ELSE best

LEMMA BestStepTypes ==
    ASSUME NEW s, FutureIsRead(s), NEW t \in s.tasks, NEW region \in [start : Int, end : Int],
           NEW best \in [from : Int, to : Int, ticks : Nat]
    PROVE  BestStep(s, t, best, region) \in [from : Int, to : Int, ticks : Nat]
<1>1. region.start \in Int /\ region.end \in Int
    OBVIOUS
<1>2. CASE EffectiveStart(s, t, region.start) = Blocked
    BY <1>2 DEF BestStep
<1>3. CASE EffectiveStart(s, t, region.start) # Blocked
    <2>1. EffectiveStart(s, t, region.start) \in Int
        BY <1>1, <1>3, EffectiveFacts
    <2>2. UsableTicks(s, t, EffectiveStart(s, t, region.start), region.end) \in Nat
        BY <1>1, <2>1, UsableFacts
    <2> QED
        BY <1>1, <2>1, <2>2 DEF BestStep
<1> QED
    BY <1>2, <1>3

(* Looking for the best region.                                            *)
BestFoldRuns(s, t, h) ==
    /\ h \in [0 .. Len(s.regions) -> [from : Int, to : Int, ticks : Nat]]
    /\ h[0] = [from |-> s.regions[1].start, to |-> s.regions[1].end, ticks |-> 0]
    /\ \A k \in 1 .. Len(s.regions) : h[k] = BestStep(s, t, h[k - 1], s.regions[k])
    /\ BestRegion(s, t) = h[Len(s.regions)]

LEMMA BestFold ==
    ASSUME NEW s, FutureIsRead(s), NEW t \in s.tasks
    PROVE  \E h : BestFoldRuns(s, t, h)
<1> DEFINE list == s.regions
           n == Len(list)
           G == [from : Int, to : Int, ticks : Nat]
           base == [from |-> s.regions[1].start, to |-> s.regions[1].end, ticks |-> 0]
           step == [ky \in (1 .. n) \X G |-> BestStep(s, t, ky[2], list[ky[1]])]
           IsFold(it) == it = [r \in SUBSET (1 .. n) |->
                                  IF r = {} THEN base ELSE BestStep(s, t, it[r \ {Max(r)}], list[Max(r)])]
           iter == CHOOSE it : IsFold(it)
<1>1. n \in Nat /\ DOMAIN list = 1 .. n /\ \A k \in 1 .. n : list[k] \in [start : Int, end : Int]
    <2>1. list \in Seq([start : Int, end : Int])
        BY DEF FutureIsRead
    <2> HIDE DEF list
    <2> QED
        BY <2>1, ListFacts
<1>2. base \in G
    <2>1. list # <<>>
        BY DEF FutureIsRead
    <2>2. 1 \in 1 .. n
        BY <1>1, <2>1
    <2>3. list[1].start \in Int /\ list[1].end \in Int
        BY <1>1, <2>2
    <2> QED
        BY <2>3
<1>3. \A k \in 1 .. n : \A y \in G : BestStep(s, t, y, list[k]) \in G
    BY <1>1, BestStepTypes
<1>4. step \in [(1 .. n) \X G -> G]
    <2> HIDE DEF n, G, list
    <2> SUFFICES ASSUME NEW ky \in (1 .. n) \X G PROVE step[ky] \in G
        OBVIOUS
    <2>1. step[ky] = BestStep(s, t, ky[2], list[ky[1]]) /\ ky[1] \in 1 .. n /\ ky[2] \in G
        OBVIOUS
    <2> QED
        BY <1>3, <2>1
<1>5. \E it : IsFold(it)
    <2> HIDE DEF G, n, list, base
    <2>1. PICK g \in [SUBSET (1 .. n) -> G] : FoldsTo(n, base, step, g)
        <3> HIDE DEF step
        <3> QED
            BY <1>1, <1>2, <1>4, ListFoldExists
    <2>2. ASSUME NEW r \in SUBSET (1 .. n), r # {}
          PROVE  step[<<Max(r), g[r \ {Max(r)}]>>] = BestStep(s, t, g[r \ {Max(r)}], list[Max(r)])
        <3>1. Max(r) \in 1 .. n /\ g[r \ {Max(r)}] \in G
            BY <1>1, <2>2, MaxPicks
        <3> QED
            BY <3>1
    <2>3. IsFold(g)
        <3>1. \A r \in SUBSET (1 .. n) :
                 g[r] = IF r = {} THEN base ELSE step[<<Max(r), g[r \ {Max(r)}]>>]
            BY <2>1 DEF FoldsTo
        <3> HIDE DEF step
        <3>2. \A r \in SUBSET (1 .. n) :
                 g[r] = IF r = {} THEN base ELSE BestStep(s, t, g[r \ {Max(r)}], list[Max(r)])
            BY <2>2, <3>1
        <3> QED
            BY <3>2
    <2> HIDE DEF IsFold
    <2> QED
        BY <2>3
<1>6. IsFold(iter)
    <2> HIDE DEF IsFold
    <2> QED
        BY <1>5
<1>7. BestRegion(s, t) = iter[1 .. n]
    BY <1>1 DEF BestRegion, BestStep, FoldLeft, MapThenFoldSet
<1> HIDE DEF iter, G, n, list, base
<1>8. iter[{}] = base
    <2>1. {} \in SUBSET (1 .. n)
        OBVIOUS
    <2> QED
        BY <1>6, <2>1, Zenon
<1>9. \A k \in 1 .. n : iter[1 .. k] = BestStep(s, t, iter[1 .. k - 1], list[k])
    <2> SUFFICES ASSUME NEW k \in 1 .. n PROVE iter[1 .. k] = BestStep(s, t, iter[1 .. k - 1], list[k])
        OBVIOUS
    <2>1. 1 .. k \in SUBSET (1 .. n) /\ 1 .. k # {} /\ Max(1 .. k) = k /\ (1 .. k) \ {k} = 1 .. k - 1
        BY <1>1, PrefixFacts
    <2>2. iter[1 .. k] = BestStep(s, t, iter[(1 .. k) \ {Max(1 .. k)}], list[Max(1 .. k)])
        BY <1>6, <2>1, Zenon
    <2> QED
        BY <2>1, <2>2
<1> HIDE DEF IsFold
<1>10. \A k \in 1 .. n : \A y \in G : step[<<k, y>>] = BestStep(s, t, y, list[k])
    BY DEF step
<1> HIDE DEF step
<1>11. PICK h \in [0 .. n -> G] : ValuesOf(n, base, step, iter, h)
    <2>1. Steps(n, G, step, iter)
        BY <1>9, <1>10 DEF Steps
    <2> QED
        BY <1>1, <1>2, <1>4, <1>8, <2>1, FoldSteps
<1>12. \A k \in 1 .. n : h[k] = BestStep(s, t, h[k - 1], list[k])
    <2> SUFFICES ASSUME NEW k \in 1 .. n PROVE h[k] = BestStep(s, t, h[k - 1], list[k])
        OBVIOUS
    <2>1. k - 1 \in 0 .. n
        BY <1>1
    <2> QED
        BY <1>10, <1>11, <2>1 DEF ValuesOf
<1>13. BestRegion(s, t) = h[n]
    BY <1>7, <1>11, Zenon DEF ValuesOf
<1>14. h[0] = base
    BY <1>11, Zenon DEF ValuesOf
<1> QED
    BY <1>11, <1>12, <1>13, <1>14, Zenon DEF G, n, list, base, BestFoldRuns

(* The best region is one of the regions, and none leaves the task more.   *)
UsableIn(s, t, region) == UsableTicks(s, t, EffectiveStart(s, t, region.start), region.end)

IsRegion(s, t, best, region) ==
    /\ best.from = EffectiveStart(s, t, region.start)
    /\ best.to = region.end
    /\ best.ticks = UsableIn(s, t, region)

Unblocked(s, t) == s.preds[t] \cap Remaining(s) = {}

(* best is the best of the first j regions. *)
BestOf(s, t, best, j) ==
    /\ best \in [from : Int, to : Int, ticks : Nat]
    /\ ~ Unblocked(s, t) => best.ticks = 0
    /\ Unblocked(s, t) => \A i \in 1 .. j : UsableIn(s, t, s.regions[i]) <= best.ticks
    /\ best.ticks > 0 => \E i \in 1 .. j : IsRegion(s, t, best, s.regions[i])

LEMMA UsableInFacts ==
    ASSUME NEW s, FutureIsRead(s), NEW t \in s.tasks, Unblocked(s, t),
           NEW region \in [start : Int, end : Int]
    PROVE  EffectiveStart(s, t, region.start) \in Int /\ UsableIn(s, t, region) \in Nat
<1>1. region.start \in Int /\ region.end \in Int
    OBVIOUS
<1>2. EffectiveStart(s, t, region.start) \in Int
    BY <1>1, EffectiveFacts DEF Unblocked
<1>3. UsableTicks(s, t, EffectiveStart(s, t, region.start), region.end) \in Nat
    BY <1>1, <1>2, UsableFacts
<1> QED
    BY <1>2, <1>3 DEF UsableIn

LEMMA RegionsAreRead ==
    ASSUME NEW s, FutureIsRead(s)
    PROVE  /\ Len(s.regions) \in Nat /\ 1 \in 1 .. Len(s.regions)
           /\ DOMAIN s.regions = 1 .. Len(s.regions)
           /\ \A i \in 1 .. Len(s.regions) : s.regions[i] \in [start : Int, end : Int]
<1>1. s.regions \in Seq([start : Int, end : Int]) /\ s.regions # <<>>
    BY DEF FutureIsRead
<1>2. PICK list : list = s.regions
    OBVIOUS
<1>3. /\ Len(list) \in Nat /\ DOMAIN list = 1 .. Len(list)
      /\ \A i \in 1 .. Len(list) : list[i] \in [start : Int, end : Int]
    BY <1>1, <1>2, ListFacts
<1>4. Len(list) # 0
    BY <1>1, <1>2
<1> QED
    BY <1>2, <1>3, <1>4

LEMMA BestStepFacts ==
    ASSUME NEW s, FutureIsRead(s), NEW t \in s.tasks, NEW best, NEW j \in Nat,
           BestOf(s, t, best, j), j + 1 \in 1 .. Len(s.regions)
    PROVE  BestOf(s, t, BestStep(s, t, best, s.regions[j + 1]), j + 1)
<1> DEFINE region == s.regions[j + 1]
           next == BestStep(s, t, best, region)
           start == EffectiveStart(s, t, region.start)
           ticks == UsableIn(s, t, region)
<1> SUFFICES BestOf(s, t, next, j + 1)
    OBVIOUS
<1>1. /\ region \in [start : Int, end : Int]
      /\ region.start \in Int /\ region.end \in Int
      /\ \A i \in 1 .. j : s.regions[i] \in [start : Int, end : Int]
    BY RegionsAreRead
<1>2. best \in [from : Int, to : Int, ticks : Nat] /\ best.ticks \in Nat
    BY DEF BestOf
<1>3. \A i \in 1 .. j + 1 : i \in 1 .. j \/ i = j + 1
    OBVIOUS
<1>4. 1 .. j \subseteq 1 .. j + 1 /\ j + 1 \in 1 .. j + 1
    OBVIOUS
<1>5. CASE ~ Unblocked(s, t)
    <2>1. next = best
        <3>1. start = Blocked
            BY <1>1, <1>5, EffectiveFacts DEF Unblocked
        <3> QED
            BY <3>1 DEF BestStep
    <2>2. best.ticks = 0
        BY <1>5 DEF BestOf
    <2> HIDE DEF next
    <2> QED
        BY <1>2, <1>5, <2>1, <2>2 DEF BestOf
<1>6. CASE Unblocked(s, t)
    <2>1. start \in Int /\ start # Blocked
        BY <1>1, <1>6, UsableInFacts, BlockedIsNoInstant
    <2>2. ticks \in Nat /\ \A i \in 1 .. j : UsableIn(s, t, s.regions[i]) \in Nat
        BY <1>1, <1>6, UsableInFacts
    <2>3. next = IF ticks > best.ticks THEN [from |-> start, to |-> region.end, ticks |-> ticks] ELSE best
        BY <2>1 DEF BestStep, UsableIn
    <2> HIDE DEF start, ticks, next
    <2>4. CASE ticks > best.ticks
        <3>1. next = [from |-> start, to |-> region.end, ticks |-> ticks]
            BY <2>3, <2>4
        <3>2. next \in [from : Int, to : Int, ticks : Nat] /\ next.ticks = ticks
            BY <1>1, <2>1, <2>2, <3>1
        <3>3. IsRegion(s, t, next, region)
            BY <3>1 DEF IsRegion, start, ticks
        <3>4. \A i \in 1 .. j : UsableIn(s, t, s.regions[i]) <= best.ticks
            BY <1>6 DEF BestOf
        <3>5. ASSUME NEW i \in 1 .. j + 1 PROVE UsableIn(s, t, s.regions[i]) <= ticks
            <4>1. CASE i = j + 1
                BY <2>2, <4>1 DEF ticks
            <4>2. CASE i \in 1 .. j
                <5>1. UsableIn(s, t, s.regions[i]) <= best.ticks
                    BY <3>4, <4>2
                <5>2. UsableIn(s, t, s.regions[i]) \in Nat
                    BY <2>2, <4>2
                <5> QED
                    BY <1>2, <2>2, <2>4, <5>1, <5>2
            <4> QED
                BY <1>3, <4>1, <4>2
        <3> QED
            BY <1>4, <1>6, <3>2, <3>3, <3>5 DEF BestOf
    <2>5. CASE ~ (ticks > best.ticks)
        <3>1. next = best
            BY <2>3, <2>5
        <3>2. ticks <= best.ticks
            BY <1>2, <2>2, <2>5
        <3>3. \A i \in 1 .. j + 1 : UsableIn(s, t, s.regions[i]) <= best.ticks
            <4> SUFFICES ASSUME NEW i \in 1 .. j + 1 PROVE UsableIn(s, t, s.regions[i]) <= best.ticks
                OBVIOUS
            <4>1. CASE i = j + 1
                BY <3>2, <4>1 DEF ticks
            <4>2. CASE i \in 1 .. j
                BY <1>6, <4>2 DEF BestOf
            <4> QED
                BY <1>3, <4>1, <4>2
        <3>4. best.ticks > 0 => \E i \in 1 .. j + 1 : IsRegion(s, t, best, s.regions[i])
            BY <1>4 DEF BestOf
        <3> QED
            BY <1>2, <1>6, <3>1, <3>3, <3>4 DEF BestOf
    <2> QED
        BY <2>4, <2>5 DEF next
<1> QED
    BY <1>5, <1>6

LEMMA BestFacts ==
    ASSUME NEW s, FutureIsRead(s), NEW t \in s.tasks
    PROVE  BestOf(s, t, BestRegion(s, t), Len(s.regions))
<1>1. PICK h : BestFoldRuns(s, t, h)
    BY BestFold
<1> DEFINE n == Len(s.regions)
           P == {j \in Nat : j <= n => BestOf(s, t, h[j], j)}
<1>2. n \in Nat /\ s.regions[1].start \in Int /\ s.regions[1].end \in Int
    BY RegionsAreRead
<1>3. /\ h \in [0 .. n -> [from : Int, to : Int, ticks : Nat]]
      /\ h[0] = [from |-> s.regions[1].start, to |-> s.regions[1].end, ticks |-> 0]
      /\ \A k \in 1 .. n : h[k] = BestStep(s, t, h[k - 1], s.regions[k])
      /\ BestRegion(s, t) = h[n]
    BY <1>1 DEF BestFoldRuns
<1> HIDE DEF n
<1>4. 0 \in P
    <2>1. h[0] \in [from : Int, to : Int, ticks : Nat]
        BY <1>2, <1>3
    <2>2. h[0].ticks = 0
        BY <1>3
    <2> QED
        BY <2>1, <2>2 DEF BestOf
<1>5. ASSUME NEW j \in Nat, j \in P PROVE j + 1 \in P
    <2> SUFFICES ASSUME j + 1 <= n PROVE BestOf(s, t, h[j + 1], j + 1)
        OBVIOUS
    <2>1. j + 1 \in 1 .. n /\ (j + 1) - 1 = j /\ j <= n
        BY <1>2
    <2>2. h[j + 1] = BestStep(s, t, h[j], s.regions[j + 1]) /\ j + 1 \in 1 .. Len(s.regions)
        BY <1>2, <1>3, <2>1 DEF n
    <2>3. BestOf(s, t, h[j], j)
        BY <1>5, <2>1
    <2> QED
        BY <2>2, <2>3, BestStepFacts
<1>6. Nat \subseteq P
    <2> HIDE DEF P
    <2> QED
        BY <1>4, <1>5, CountingUp
<1>7. n \in P /\ n <= n
    BY <1>2, <1>6
<1> QED
    BY <1>3, <1>7 DEF n

(* A recoverable task has room in a window in its best region, and every   *)
(* task with room in some region is recoverable.                           *)
LEMMA RecoverableIs ==
    ASSUME NEW s, FutureIsRead(s), NEW t \in Remaining(s)
    PROVE  t \in Recoverable(s) <=>
              /\ Unblocked(s, t)
              /\ \E i \in 1 .. Len(s.regions) :
                    HasRoom(s, t, EffectiveStart(s, t, s.regions[i].start), s.regions[i].end)
<1> DEFINE best == BestRegion(s, t)
           d == s.dur[t]
           n == Len(s.regions)
           start(i) == EffectiveStart(s, t, s.regions[i].start)
           end(i) == s.regions[i].end
           room(i) == HasRoom(s, t, start(i), end(i))
<1>1. t \in s.tasks /\ d \in Nat \ {0}
    BY DEF Remaining, FutureIsRead
<1>2. BestOf(s, t, best, n)
    BY <1>1, BestFacts
<1>3. best.ticks \in Nat
    BY <1>2 DEF BestOf
<1>4. t \in Recoverable(s) <=> best.ticks >= d
    BY DEF Recoverable
<1> HIDE DEF best, d
<1>5. ASSUME Unblocked(s, t), NEW i \in 1 .. n
      PROVE  /\ UsableIn(s, t, s.regions[i]) \in Nat
             /\ room(i) => UsableIn(s, t, s.regions[i]) >= d
             /\ ~ room(i) => UsableIn(s, t, s.regions[i]) = 0
    <2>1. s.regions[i] \in [start : Int, end : Int] /\ end(i) \in Int
        BY RegionsAreRead
    <2>2. start(i) \in Int
        BY <1>1, <1>5, <2>1, UsableInFacts
    <2>3. UsableIn(s, t, s.regions[i]) = UsableTicks(s, t, start(i), end(i))
        BY DEF UsableIn
    <2> HIDE DEF start, end
    <2> QED
        BY <1>1, <2>1, <2>2, <2>3, UsableFacts DEF d
<1>6. ASSUME t \in Recoverable(s)
      PROVE  Unblocked(s, t) /\ \E i \in 1 .. n : room(i)
    <2>1. best.ticks >= d /\ best.ticks > 0
        BY <1>1, <1>3, <1>4, <1>6
    <2>2. Unblocked(s, t)
        BY <1>2, <2>1 DEF BestOf
    <2>3. PICK i \in 1 .. n : best.ticks = UsableIn(s, t, s.regions[i])
        BY <1>2, <2>1 DEF BestOf, IsRegion
    <2>4. room(i)
        BY <1>5, <2>1, <2>2, <2>3
    <2> QED
        BY <2>2, <2>4
<1>7. ASSUME Unblocked(s, t), NEW i \in 1 .. n, room(i)
      PROVE  t \in Recoverable(s)
    <2>1. UsableIn(s, t, s.regions[i]) <= best.ticks
        BY <1>2, <1>7 DEF BestOf
    <2>2. UsableIn(s, t, s.regions[i]) >= d /\ UsableIn(s, t, s.regions[i]) \in Nat
        BY <1>5, <1>7
    <2> QED
        BY <1>1, <1>3, <1>4, <2>1, <2>2
<1> HIDE DEF room
<1>8. t \in Recoverable(s) <=> Unblocked(s, t) /\ \E i \in 1 .. n : room(i)
    BY <1>6, <1>7
<1> QED
    BY <1>8 DEF room

(* There is room in a window when the task can be placed in it.            *)
LEMMA RoomIs ==
    ASSUME NEW w \in Period, NEW a \in Int, NEW from \in Int, NEW to \in Int, a <= from,
           NEW d \in Nat \ {0}
    PROVE  PartOf(w, from, to) >= d <=>
              \E at \in a .. to - d : Inside([start |-> at, end |-> at + d], w) /\ from <= at
<1>1. w.start \in Int /\ w.end \in Int
    BY PeriodFacts
<1>2. \A at \in Int : Inside([start |-> at, end |-> at + d], w) <=> w.start <= at /\ at + d <= w.end
    BY DEF Inside
<1>3. PartOf(w, from, to) = Earlier(w.end, to) - Later(w.start, from)
    BY PartFacts
<1>4. ASSUME PartOf(w, from, to) >= d
      PROVE  \E at \in a .. to - d : Inside([start |-> at, end |-> at + d], w) /\ from <= at
    <2> DEFINE at == Later(w.start, from)
    <2>1. at \in Int /\ w.start <= at /\ at + d <= w.end /\ from <= at /\ at \in a .. to - d
        BY <1>1, <1>3, <1>4 DEF Earlier, Later
    <2>2. Inside([start |-> at, end |-> at + d], w)
        BY <1>2, <2>1
    <2> HIDE DEF at
    <2> QED
        BY <2>1, <2>2
<1>5. ASSUME NEW at \in a .. to - d, Inside([start |-> at, end |-> at + d], w), from <= at
      PROVE  PartOf(w, from, to) >= d
    <2>1. at \in Int /\ at + d <= to
        OBVIOUS
    <2>2. w.start <= at /\ at + d <= w.end
        BY <1>2, <1>5, <2>1
    <2> QED
        BY <1>1, <1>3, <1>5, <2>1, <2>2 DEF Earlier, Later
<1> QED
    BY <1>4, <1>5

LEMMA RecoverableAlwaysFits ==
    ASSUME About("future") => FutureIsRead(sample)
    PROVE  RecoverableFits
<1> SUFFICES ASSUME About("future"), NEW s, s = sample, FutureIsRead(s)
             PROVE  Recoverable(s) =
                {t \in Remaining(s) :
                    /\ s.preds[t] \cap Remaining(s) = {}
                    /\ \E i \in DOMAIN s.regions, w \in Range(s.windows[t]) :
                       \E at \in s.regions[i].start .. s.regions[i].end - s.dur[t] :
                          /\ Inside([start |-> at, end |-> at + s.dur[t]], w)
                          /\ \A u \in s.preds[t] : s.placed[u].end <= at}
    BY DEF RecoverableFits
<1> DEFINE Suits(t, i, w, at) == /\ Inside([start |-> at, end |-> at + s.dur[t]], w)
                                 /\ \A u \in s.preds[t] : s.placed[u].end <= at
           CanGo(t, i, w) == \E at \in s.regions[i].start .. s.regions[i].end - s.dur[t] : Suits(t, i, w, at)
           start(t, i) == EffectiveStart(s, t, s.regions[i].start)
<1>1. Recoverable(s) \subseteq Remaining(s)
    BY DEF Recoverable
<1>2. DOMAIN s.regions = 1 .. Len(s.regions)
    BY RegionsAreRead
<1>3. ASSUME NEW t \in Remaining(s), Unblocked(s, t), NEW i \in DOMAIN s.regions
      PROVE  HasRoom(s, t, start(t, i), s.regions[i].end) <=> \E w \in Range(s.windows[t]) : CanGo(t, i, w)
    <2> DEFINE a == s.regions[i].start
               to == s.regions[i].end
               from == start(t, i)
               d == s.dur[t]
    <2>1. a \in Int /\ to \in Int
        BY <1>2, RegionsAreRead
    <2>2. t \in s.tasks /\ d \in Nat \ {0} /\ s.windows[t] \in Seq(Period)
        BY DEF Remaining, FutureIsRead
    <2>3. /\ from \in Int /\ a <= from
          /\ \A u \in s.preds[t] : s.placed[u].end \in Int /\ s.placed[u].end <= from
          /\ \A x \in Int : a <= x /\ (\A u \in s.preds[t] : s.placed[u].end <= x) => from <= x
        <3>1. /\ from \in Int /\ a <= from
              /\ \A u \in s.preds[t] : s.placed[u] \in Period /\ s.placed[u].end <= from
              /\ \A x \in Int : a <= x /\ (\A u \in s.preds[t] : s.placed[u].end <= x) => from <= x
            <4> HIDE DEF a
            <4>1. from = EffectiveStart(s, t, a)
                BY DEF a
            <4> HIDE DEF from
            <4> QED
                BY <1>3, <2>1, <2>2, <4>1, EffectiveFacts DEF Unblocked
        <3> QED
            BY <3>1, PeriodFacts
    <2> HIDE DEF a, to, from, d
    <2>4. \A at \in Int : a <= at =>
             (from <= at <=> \A u \in s.preds[t] : s.placed[u].end <= at)
        BY <2>1, <2>3
    <2>5. \A at \in a .. to - d : at \in Int /\ a <= at
        BY <2>1, <2>2
    <2>6. ASSUME NEW w \in Period
          PROVE  PartOf(w, from, to) >= d <=> CanGo(t, i, w)
        <3>1. PartOf(w, from, to) >= d <=>
                 \E at \in a .. to - d : Inside([start |-> at, end |-> at + d], w) /\ from <= at
            BY <2>1, <2>2, <2>3, RoomIs
        <3>2. \A at \in a .. to - d :
                 Inside([start |-> at, end |-> at + d], w) /\ from <= at <=> Suits(t, i, w, at)
            BY <2>4, <2>5 DEF d
        <3> HIDE DEF Suits
        <3> QED
            BY <3>1, <3>2 DEF a, to, d
    <2>7. \A w \in Range(s.windows[t]) : w \in Period
        BY <2>2 DEF Range
    <2> HIDE DEF CanGo
    <2>8. HasRoom(s, t, from, to) <=> \E k \in DOMAIN s.windows[t] : PartOf(s.windows[t][k], from, to) >= d
        BY DEF HasRoom, d
    <2>9. HasRoom(s, t, from, to) <=> \E w \in Range(s.windows[t]) : PartOf(w, from, to) >= d
        BY <2>8 DEF Range
    <2> QED
        BY <2>6, <2>7, <2>9 DEF from, to
<1>4. ASSUME NEW t \in Remaining(s)
      PROVE  t \in Recoverable(s) <=>
                /\ Unblocked(s, t)
                /\ \E i \in DOMAIN s.regions, w \in Range(s.windows[t]) : CanGo(t, i, w)
    <2>1. t \in Recoverable(s) <=>
             /\ Unblocked(s, t)
             /\ \E i \in DOMAIN s.regions : HasRoom(s, t, start(t, i), s.regions[i].end)
        BY <1>2, RecoverableIs
    <2> HIDE DEF CanGo, start
    <2> QED
        BY <1>3, <2>1
<1> QED
    BY <1>1, <1>4 DEF Unblocked

LEMMA SmallestOfFinite ==
    ASSUME NEW S \in SUBSET Int, IsFiniteSet(S), S # {}
    PROVE  \E m \in S : \A x \in S : m <= x
<1> DEFINE f == [x \in S |-> 0 - x]
           T == {f[x] : x \in S}
<1>1. IsFiniteSet(T)
    <2> f = [x \in S |-> f[x]]
        OBVIOUS
    <2> HIDE DEF f
    <2> QED
        BY ImageCount
<1>2. T \in SUBSET Int /\ T # {}
    OBVIOUS
<1>3. PICK m \in T : \A y \in T : y <= m
    <2> HIDE DEF T
    <2> QED
        BY <1>1, <1>2, LargestOfFinite
<1>4. PICK x \in S : m = 0 - x
    OBVIOUS
<1>5. ASSUME NEW z \in S PROVE x <= z
    <2>1. 0 - z \in T
        OBVIOUS
    <2>2. 0 - z <= 0 - x
        BY <1>3, <1>4, <2>1
    <2>3. x \in Int /\ z \in Int
        OBVIOUS
    <2> QED
        BY <2>2, <2>3
<1> QED
    BY <1>5

LEMMA FirstActiveFacts ==
    ASSUME NEW s, FutureIsRead(s)
    PROVE  /\ FirstActive(s) \in Int
           /\ \A i \in 1 .. Len(s.regions) : FirstActive(s) <= s.regions[i].start
<1> DEFINE n == Len(s.regions)
           f == [i \in 1 .. n |-> s.regions[i].start]
           S == {f[i] : i \in 1 .. n}
<1>1. /\ n \in Nat /\ 1 \in 1 .. n /\ DOMAIN s.regions = 1 .. n
      /\ \A i \in 1 .. n : s.regions[i] \in [start : Int, end : Int]
    BY RegionsAreRead
<1>2. \A i \in 1 .. n : f[i] = s.regions[i].start /\ f[i] \in Int
    BY <1>1
<1>3. FirstActive(s) = Min(S)
    <2>1. {s.regions[i].start : i \in DOMAIN s.regions} = S
        BY <1>1
    <2> HIDE DEF S
    <2> QED
        BY <2>1 DEF FirstActive
<1>4. IsFiniteSet(S)
    <2>1. f = [i \in 1 .. n |-> f[i]] /\ IsFiniteSet(1 .. n)
        BY <1>1, FS_Interval
    <2> HIDE DEF f
    <2> QED
        BY <2>1, ImageCount
<1> HIDE DEF f
<1>5. S \in SUBSET Int /\ S # {} /\ \A i \in 1 .. n : f[i] \in S
    BY <1>1, <1>2
<1> HIDE DEF S
<1>6. PICK m \in S : \A x \in S : m <= x
    BY <1>4, <1>5, SmallestOfFinite
<1>7. Min(S) = m
    BY <1>5, <1>6, MinIs
<1> QED
    BY <1>2, <1>3, <1>5, <1>6, <1>7

(* The load of a task is at most one telescope.                            *)
LEMMA QuotientFacts ==
    ASSUME NEW u \in Nat \ {0}, NEW d \in Nat \ {0}, NEW n \in Nat, n >= d, (u * d) % n = 0
    PROVE  (u * d) \div n \in Nat \ {0} /\ (u * d) \div n <= u
<1> DEFINE m == u * d
           q == m \div n
<1>1. m \in Nat /\ m > 0
    <2>1. \A x, y \in Nat : x > 0 /\ y > 0 => x * y \in Nat /\ x * y > 0
        OBVIOUS
    <2> QED
        BY <2>1
<1> HIDE DEF m
<1>2. q \in Nat /\ m = n * q
    BY <1>1, DivFacts DEF m
<1>3. q # 0
    BY <1>1, <1>2
<1>4. q <= u
    <2> SUFFICES ASSUME q > u PROVE FALSE
        BY <1>2
    <2> HIDE DEF q
    <2>1. PICK a \in Nat, b \in Nat : q = u + 1 + a /\ n = d + b
        <3>1. q - u - 1 \in Nat /\ n - d \in Nat
            BY <1>2
        <3>2. q = u + 1 + (q - u - 1) /\ n = d + (n - d)
            BY <1>2
        <3> QED
            BY <3>1, <3>2
    <2>2. \A x, y, v, w \in Nat : (x + w) * (y + 1 + v) = y * x + x + x * v + w * y + w + w * v
        OBVIOUS
    <2>3. n * q = u * d + d + d * a + b * u + b + b * a
        BY <2>1, <2>2
    <2>4. u * d \in Nat /\ d * a \in Nat /\ b * u \in Nat /\ b * a \in Nat
        OBVIOUS
    <2> QED
        BY <1>2, <2>3, <2>4 DEF m
<1> QED
    BY <1>2, <1>3, <1>4 DEF m

(* What a recoverable task loads: parts of its windows, apart from each    *)
(* other, none before a region opens.                                      *)
LoadIsRead(s, t) ==
    /\ IsFiniteSet(LoadedPeriods(s, t)) /\ LoadedPeriods(s, t) # {}
    /\ LoadedPeriods(s, t) \in SUBSET Period
    /\ \A p, q \in LoadedPeriods(s, t) : p # q => p.end < q.start \/ q.end < p.start
    /\ \A p \in LoadedPeriods(s, t) : FirstActive(s) <= p.start
    /\ Density(s, t) \in Nat \ {0} /\ Density(s, t) <= Unit

LEMMA LoadFacts ==
    ASSUME NEW s, FutureIsRead(s), NEW t \in Recoverable(s)
    PROVE  LoadIsRead(s, t)
<1> DEFINE best == BestRegion(s, t)
           from == best.from
           to == best.to
           list == s.windows[t]
           n == Len(list)
           region == [start |-> from, end |-> to]
           hit(k) == list[k].start < to /\ from < list[k].end
           load == LoadedPeriods(s, t)
<1>1. t \in s.tasks /\ best.ticks >= s.dur[t]
    BY DEF Recoverable, Remaining
<1>2. /\ s.dur[t] \in Nat \ {0} /\ list \in Seq(Period) /\ IsNormal(list)
      /\ (Unit * s.dur[t]) % best.ticks = 0
    BY <1>1 DEF FutureIsRead
<1>3. BestOf(s, t, best, Len(s.regions))
    BY <1>1, BestFacts
<1> HIDE DEF best
<1>4. best.ticks \in Nat /\ best.ticks > 0 /\ from \in Int /\ to \in Int
    BY <1>1, <1>2, <1>3 DEF BestOf
<1>5. Unblocked(s, t)
    BY <1>3, <1>4 DEF BestOf
<1>6. PICK i \in 1 .. Len(s.regions) : IsRegion(s, t, best, s.regions[i])
    BY <1>3, <1>4 DEF BestOf
<1>7. FirstActive(s) \in Int /\ FirstActive(s) <= from
    <2>1. s.regions[i] \in [start : Int, end : Int]
        BY RegionsAreRead
    <2>2. s.regions[i].start <= from
        <3>1. s.regions[i].start \in Int
            BY <2>1
        <3> QED
            BY <1>1, <1>5, <1>6, <3>1, EffectiveFacts DEF IsRegion, Unblocked
    <2>3. FirstActive(s) \in Int /\ FirstActive(s) <= s.regions[i].start
        BY FirstActiveFacts
    <2> QED
        BY <1>4, <2>1, <2>2, <2>3
<1>8. /\ n \in Nat /\ DOMAIN list = 1 .. n
      /\ \A k \in 1 .. n : list[k] \in Period /\ list[k].start \in Int /\ list[k].end \in Int
                           /\ list[k].start < list[k].end
    <2>1. n \in Nat /\ DOMAIN list = 1 .. n /\ \A k \in 1 .. n : list[k] \in Period
        BY <1>2, ListFacts
    <2> QED
        BY <2>1, PeriodFacts
<1>9. PICK k \in 1 .. n : PartOf(list[k], from, to) >= s.dur[t]
    <2>1. best.ticks = UsableTicks(s, t, from, to)
        BY <1>6 DEF IsRegion, UsableIn
    <2>2. HasRoom(s, t, from, to)
        BY <1>1, <1>4, <2>1, UsableFacts
    <2> QED
        BY <1>8, <2>2 DEF HasRoom
<1> HIDE DEF from, to, n, list
<1>10. from < to /\ hit(k)
    <2>1. PartOf(list[k], from, to) = Earlier(list[k].end, to) - Later(list[k].start, from)
        BY <1>4, <1>8, PartFacts
    <2> QED
        BY <1>2, <1>4, <1>8, <1>9, <2>1 DEF Earlier, Later
<1> DEFINE part == [j \in 1 .. n |-> Common(list[j], region)]
           hits == {j \in 1 .. n : hit(j)}
<1>11. \A j \in hits : /\ part[j] \in Period
                       /\ part[j].start = Later(list[j].start, from)
                       /\ part[j].end = Earlier(list[j].end, to)
    <2> SUFFICES ASSUME NEW j \in hits
                 PROVE  /\ Common(list[j], region) \in Period
                        /\ Common(list[j], region).start = Later(list[j].start, from)
                        /\ Common(list[j], region).end = Earlier(list[j].end, to)
        OBVIOUS
    <2>1. j \in 1 .. n /\ hit(j)
        OBVIOUS
    <2> DEFINE a == Later(list[j].start, from)
               b == Earlier(list[j].end, to)
    <2>2. a \in Int /\ b \in Int /\ a < b
        BY <1>4, <1>8, <1>10, <2>1 DEF Later, Earlier
    <2>3. Common(list[j], region) = [start |-> a, end |-> b]
        BY DEF Common
    <2> HIDE DEF a, b
    <2> QED
        BY <2>2, <2>3, PeriodIs DEF a, b
<1>12. load = {part[j] : j \in hits}
    <2>1. load = {Common(w, region) : w \in {w \in Range(list) : w.start < to /\ from < w.end}}
        BY DEF LoadedPeriods, PartsIn, best, from, to, list
    <2>2. Range(list) = {list[j] : j \in 1 .. n}
        BY <1>8 DEF Range
    <2> HIDE DEF region, load
    <2> QED
        BY <2>1, <2>2
<1> HIDE DEF load
<1>13. IsFiniteSet(load)
    <2> DEFINE f == [j \in hits |-> part[j]]
    <2>1. f = [j \in hits |-> f[j]] /\ load = {f[j] : j \in hits}
        <3> HIDE DEF part, hits
        <3> QED
            BY <1>12
    <2>2. IsFiniteSet(hits)
        <3>1. IsFiniteSet(1 .. n)
            BY <1>8, FS_Interval
        <3>2. hits \in SUBSET (1 .. n)
            OBVIOUS
        <3> HIDE DEF hits
        <3> QED
            BY <3>1, <3>2, FS_Subset
    <2> HIDE DEF f, hits, part
    <2> QED
        BY <2>1, <2>2, ImageCount
<1>14. part[k] \in load
    <2>1. k \in hits
        BY <1>10
    <2> HIDE DEF hits, part
    <2> QED
        BY <1>12, <2>1
<1> HIDE DEF part
<1>15. load \in SUBSET Period
    BY <1>11, <1>12
<1>16. ASSUME NEW p \in load, NEW q \in load, p # q
       PROVE  p.end < q.start \/ q.end < p.start
    <2>1. PICK j \in hits, l \in hits : p = part[j] /\ q = part[l]
        BY <1>12
    <2>2. j \in 1 .. n /\ l \in 1 .. n /\ j # l
        BY <1>16, <2>1
    <2>3. list[j].end < list[l].start \/ list[l].end < list[j].start
        <3>1. j < l \/ l < j
            BY <2>2
        <3> QED
            BY <1>2, <1>8, <2>2, <3>1 DEF IsNormal
    <2>4. /\ p.start = Later(list[j].start, from) /\ p.end = Earlier(list[j].end, to)
          /\ q.start = Later(list[l].start, from) /\ q.end = Earlier(list[l].end, to)
        BY <1>11, <2>1
    <2> HIDE DEF hits
    <2> QED
        BY <1>4, <1>8, <2>2, <2>3, <2>4 DEF Later, Earlier
<1>17. ASSUME NEW p \in load PROVE FirstActive(s) <= p.start
    <2>1. PICK j \in hits : p = part[j]
        BY <1>12
    <2>2. p.start = Later(list[j].start, from) /\ j \in 1 .. n
        BY <1>11, <2>1
    <2> HIDE DEF hits
    <2> QED
        BY <1>4, <1>7, <1>8, <2>2 DEF Later
<1>18. Density(s, t) \in Nat \ {0} /\ Density(s, t) <= Unit
    <2>1. Density(s, t) = (Unit * s.dur[t]) \div best.ticks
        BY DEF Density, best
    <2> QED
        BY <1>1, <1>2, <1>4, <2>1, QuotientFacts, UnitIsPositive
<1> QED
    BY <1>13, <1>14, <1>15, <1>16, <1>17, <1>18 DEF LoadIsRead, load

(* The events of the loads. *)
EventRecords == [at : Int, delta : Int, task : Int]
OfTask(s, t) == EventsOf(t, LoadedPeriods(s, t), Density(s, t))
AllEvents(s) == UNION {OfTask(s, t) : t \in Recoverable(s)}
EventOrder(S) == {ef \in S \X S : EventBefore(ef[1], ef[2])}

LEMMA EventsAreOrdered ==
    ASSUME NEW S \in SUBSET EventRecords
    PROVE  StrictTotalOrder(S, EventOrder(S))
<1>1. \A e \in S : e.at \in Int /\ e.delta \in Int /\ e.task \in Int
    BY DEF EventRecords
<1>2. \A e, f \in S : <<e, f>> \in EventOrder(S) <=> EventBefore(e, f)
    BY DEF EventOrder
<1>3. \A e \in S : ~ EventBefore(e, e)
    BY <1>1 DEF EventBefore
<1>4. ASSUME NEW e \in S, NEW f \in S, NEW g \in S, EventBefore(e, f), EventBefore(f, g)
      PROVE  EventBefore(e, g)
    <2>1. /\ e.at \in Int /\ e.delta \in Int /\ e.task \in Int
          /\ f.at \in Int /\ f.delta \in Int /\ f.task \in Int
          /\ g.at \in Int /\ g.delta \in Int /\ g.task \in Int
        BY <1>1
    <2> QED
        BY <1>4, <2>1 DEF EventBefore
<1>5. ASSUME NEW e \in S, NEW f \in S, e # f
      PROVE  EventBefore(e, f) \/ EventBefore(f, e)
    <2>1. e \in EventRecords /\ f \in EventRecords
        OBVIOUS
    <2>2. e.at # f.at \/ e.delta # f.delta \/ e.task # f.task
        BY <1>5, <2>1 DEF EventRecords
    <2>3. /\ e.at \in Int /\ e.delta \in Int /\ e.task \in Int
          /\ f.at \in Int /\ f.delta \in Int /\ f.task \in Int
        BY <1>1
    <2> QED
        BY <2>2, <2>3 DEF EventBefore
<1> QED
    BY <1>2, <1>3, <1>4, <1>5 DEF StrictTotalOrder

(* The starts and the ends of the periods of one task.                     *)
StartsOf(s, t) == {Event(p.start, Density(s, t), t) : p \in LoadedPeriods(s, t)}
EndsOf(s, t) == {Event(p.end, - Density(s, t), t) : p \in LoadedPeriods(s, t)}

LEMMA StartsAreRenamed ==
    ASSUME NEW s, NEW t, LoadIsRead(s, t)
    PROVE  \E h : /\ Renames(h, LoadedPeriods(s, t), StartsOf(s, t))
                  /\ \A p \in LoadedPeriods(s, t) : h[p] = Event(p.start, Density(s, t), t)
<1> DEFINE L == LoadedPeriods(s, t)
           h == [p \in L |-> Event(p.start, Density(s, t), t)]
<1>1. ASSUME NEW p \in L, NEW q \in L, h[p] = h[q] PROVE p = q
    <2>1. Event(p.start, Density(s, t), t).at = p.start /\ Event(q.start, Density(s, t), t).at = q.start
        BY DEF Event
    <2>2. p.start = q.start
        BY <1>1, <2>1
    <2>3. p \in Period /\ q \in Period
        BY DEF LoadIsRead
    <2>4. p.start \in Int /\ p.end \in Int /\ p.start < p.end /\ q.end \in Int /\ q.start < q.end
        BY <2>2, <2>3, PeriodFacts
    <2>5. ~ (p.end < q.start) /\ ~ (q.end < p.start)
        BY <2>2, <2>4
    <2> QED
        BY <2>5 DEF LoadIsRead
<1>2. \A p \in L : h[p] = Event(p.start, Density(s, t), t)
    OBVIOUS
<1>3. StartsOf(s, t) = {h[p] : p \in L}
    BY DEF StartsOf
<1> HIDE DEF h, L
<1>4. Renames(h, L, StartsOf(s, t))
    BY <1>1, <1>3 DEF Renames
<1> QED
    BY <1>2, <1>4 DEF L

LEMMA EndsAreRenamed ==
    ASSUME NEW s, NEW t, LoadIsRead(s, t)
    PROVE  \E h : /\ Renames(h, LoadedPeriods(s, t), EndsOf(s, t))
                  /\ \A p \in LoadedPeriods(s, t) : h[p] = Event(p.end, - Density(s, t), t)
<1> DEFINE L == LoadedPeriods(s, t)
           h == [p \in L |-> Event(p.end, - Density(s, t), t)]
<1>1. ASSUME NEW p \in L, NEW q \in L, h[p] = h[q] PROVE p = q
    <2>1. Event(p.end, - Density(s, t), t).at = p.end /\ Event(q.end, - Density(s, t), t).at = q.end
        BY DEF Event
    <2>2. p.end = q.end
        BY <1>1, <2>1
    <2>3. p \in Period /\ q \in Period
        BY DEF LoadIsRead
    <2>4. p.start \in Int /\ p.end \in Int /\ p.start < p.end /\ q.start \in Int /\ q.start < q.end
        BY <2>2, <2>3, PeriodFacts
    <2>5. ~ (p.end < q.start) /\ ~ (q.end < p.start)
        BY <2>2, <2>4
    <2> QED
        BY <2>5 DEF LoadIsRead
<1>2. \A p \in L : h[p] = Event(p.end, - Density(s, t), t)
    OBVIOUS
<1>3. EndsOf(s, t) = {h[p] : p \in L}
    BY DEF EndsOf
<1> HIDE DEF h, L
<1>4. Renames(h, L, EndsOf(s, t))
    BY <1>1, <1>3 DEF Renames
<1> QED
    BY <1>2, <1>4 DEF L

(* What events do up to an instant. *)
CountsUpTo(up, E, x) == \A e \in E : up[e] = IF e.at <= x THEN e.delta ELSE 0

(* The events of a task up to an instant add up to the load at it.         *)
LEMMA LoadOfTask ==
    ASSUME NEW s, NEW t \in Int, LoadIsRead(s, t), NEW x \in Int,
           NEW up, CountsUpTo(up, OfTask(s, t), x)
    PROVE  /\ IsFiniteSet(OfTask(s, t)) /\ Numbers(up, OfTask(s, t))
           /\ OfTask(s, t) # {} /\ OfTask(s, t) \in SUBSET EventRecords
           /\ \A e \in OfTask(s, t) : e.task = t
           /\ SumOf(up, OfTask(s, t)) = IF \E p \in LoadedPeriods(s, t) : x \in Ticks(p)
                                          THEN Density(s, t) ELSE 0
<1> DEFINE L == LoadedPeriods(s, t)
           d == Density(s, t)
           S == StartsOf(s, t)
           E == EndsOf(s, t)
           a == [p \in L |-> IF p.start <= x THEN d ELSE 0]
           b == [p \in L |-> IF p.end <= x THEN - d ELSE 0]
           c == [p \in L |-> a[p] + b[p]]
<1>1. /\ IsFiniteSet(L) /\ L # {} /\ d \in Nat \ {0}
      /\ \A p \in L : p.start \in Int /\ p.end \in Int /\ p.start < p.end
      /\ \A p, q \in L : p # q => p.end < q.start \/ q.end < p.start
    BY PeriodFacts DEF LoadIsRead
<1>2. OfTask(s, t) = S \cup E
    BY DEF OfTask, EventsOf, StartsOf, EndsOf
<1>3. PICK h : Renames(h, L, S) /\ \A p \in L : h[p] = Event(p.start, d, t)
    BY StartsAreRenamed
<1>4. PICK k : Renames(k, L, E) /\ \A p \in L : k[p] = Event(p.end, - d, t)
    BY EndsAreRenamed
<1> HIDE DEF L, d
<1>5. \A e \in S : e \in EventRecords /\ e.task = t /\ e.delta = d
    <2>1. \A e \in S : \E p \in L : e = Event(p.start, d, t)
        BY DEF StartsOf, L, d
    <2> HIDE DEF S
    <2> QED
        BY <1>1, <2>1 DEF Event, EventRecords
<1>6. \A e \in E : e \in EventRecords /\ e.task = t /\ e.delta = - d
    <2>1. \A e \in E : \E p \in L : e = Event(p.end, - d, t)
        BY DEF EndsOf, L, d
    <2> HIDE DEF E
    <2> QED
        BY <1>1, <2>1 DEF Event, EventRecords
<1> HIDE DEF S, E
<1>7. S \cap E = {}
    <2>1. d # - d
        BY <1>1
    <2> QED
        BY <1>5, <1>6, <2>1
<1>8. \A e \in S \cup E : e \in EventRecords /\ e.task = t /\ up[e] \in Int
    <2>1. \A e \in S \cup E : e \in EventRecords /\ e.task = t
        BY <1>5, <1>6
    <2>2. \A e \in S \cup E : e.delta \in Int
        BY <2>1 DEF EventRecords
    <2> QED
        BY <1>2, <2>1, <2>2 DEF CountsUpTo
<1>9. Numbers(up, S) /\ Numbers(up, E) /\ Numbers(up, S \cup E)
    BY <1>8 DEF Numbers
<1>10. Follows(a, up, h, L)
    <2> SUFFICES ASSUME NEW p \in L PROVE a[p] = up[h[p]]
        BY DEF Follows
    <2>1. h[p] \in S
        BY <1>3 DEF Renames
    <2>2. h[p] = Event(p.start, d, t)
        BY <1>3
    <2>3. h[p].at = p.start /\ h[p].delta = d
        BY <2>2 DEF Event
    <2> QED
        BY <1>2, <2>1, <2>3 DEF CountsUpTo
<1>11. Follows(b, up, k, L)
    <2> SUFFICES ASSUME NEW p \in L PROVE b[p] = up[k[p]]
        BY DEF Follows
    <2>1. k[p] \in E
        BY <1>4 DEF Renames
    <2>2. k[p] = Event(p.end, - d, t)
        BY <1>4
    <2>3. k[p].at = p.end /\ k[p].delta = - d
        BY <2>2 DEF Event
    <2> QED
        BY <1>2, <2>1, <2>3 DEF CountsUpTo
<1>12. Numbers(a, L) /\ Numbers(b, L) /\ Numbers(c, L) /\ \A p \in L : c[p] = a[p] + b[p]
    BY <1>1 DEF Numbers
<1>13. \A p \in L : c[p] = IF x \in Ticks(p) THEN d ELSE 0
    <2> SUFFICES ASSUME NEW p \in L
                 PROVE  (IF p.start <= x THEN d ELSE 0) + (IF p.end <= x THEN - d ELSE 0)
                            = IF x \in Ticks(p) THEN d ELSE 0
        OBVIOUS
    <2>1. p.start \in Int /\ p.end \in Int /\ p.start < p.end
        BY <1>1
    <2> QED
        BY <1>1, <2>1 DEF Ticks
<1> HIDE DEF a, b, c
<1>14. IsFiniteSet(S) /\ SumOf(up, S) = SumOf(a, L)
    BY <1>1, <1>3, <1>9, <1>10, SumOfRenamed
<1>15. IsFiniteSet(E) /\ SumOf(up, E) = SumOf(b, L)
    BY <1>1, <1>4, <1>9, <1>11, SumOfRenamed
<1>16. SumOf(up, S \cup E) = SumOf(up, S) + SumOf(up, E)
    BY <1>7, <1>9, <1>14, <1>15, SumOfUnion
<1>17. SumOf(c, L) = SumOf(a, L) + SumOf(b, L)
    BY <1>1, <1>12, SumOfPlus
<1>18. SumOf(c, L) = IF \E p \in L : x \in Ticks(p) THEN d ELSE 0
    <2>1. CASE \E p \in L : x \in Ticks(p)
        <3>1. PICK p \in L : x \in Ticks(p)
            BY <2>1
        <3>2. \A q \in L \ {p} : c[q] = 0
            <4> SUFFICES ASSUME NEW q \in L, q # p PROVE x \notin Ticks(q)
                BY <1>13
            <4>1. p.end < q.start \/ q.end < p.start
                BY <1>1
            <4>2. p.start \in Int /\ p.end \in Int /\ q.start \in Int /\ q.end \in Int
                BY <1>1
            <4> QED
                BY <3>1, <4>1, <4>2 DEF Ticks
        <3>3. SumOf(c, L) = SumOf(c, {p})
            BY <1>1, <1>12, <3>2, SumOfPadded
        <3>4. SumOf(c, {p}) = c[p]
            BY <1>12, SumOfOne DEF Numbers
        <3> QED
            BY <1>13, <2>1, <3>1, <3>3, <3>4
    <2>2. CASE ~ \E p \in L : x \in Ticks(p)
        <3>1. \A q \in L \ {} : c[q] = 0
            BY <1>13, <2>2
        <3>2. SumOf(c, L) = SumOf(c, {})
            BY <1>1, <1>12, <3>1, SumOfPadded
        <3>3. SumOf(c, {}) = 0
            BY <1>1, <1>12, SumOfFacts
        <3> QED
            BY <2>2, <3>2, <3>3
    <2> QED
        BY <2>1, <2>2
<1>19. IsFiniteSet(S \cup E)
    BY <1>14, <1>15, FS_Union
<1>20. S \cup E # {}
    BY <1>1, <1>3 DEF Renames
<1> QED
    BY <1>2, <1>8, <1>9, <1>14, <1>15, <1>16, <1>17, <1>18, <1>19, <1>20 DEF L, d

(* Sums that are written out are the sums of functions.                    *)
LEMMA LoadAtIsSum ==
    ASSUME NEW x, NEW f,
           f = [t \in Recoverable(sample) |-> IF \E p \in LoadedPeriods(sample, t) : x \in Ticks(p)
                                                THEN Density(sample, t) ELSE 0]
    PROVE  LoadAt(x) = SumOf(f, Recoverable(sample))
<1> DEFINE S == Recoverable(sample)
           F(t) == IF \E p \in LoadedPeriods(sample, t) : x \in Ticks(p) THEN Density(sample, t) ELSE 0
           IsFold(g) == g = [r \in SUBSET S |-> IF r = {} THEN 0 ELSE F(Pick(r)) + g[r \ {Pick(r)}]]
           Folds(g) == g = [r \in SUBSET S |-> IF r = {} THEN 0 ELSE f[Pick(r)] + g[r \ {Pick(r)}]]
<1>1. LoadAt(x) = (CHOOSE g : IsFold(g))[S]
    BY DEF LoadAt, MapThenSumSet, MapThenFoldSet, Pick
<1>2. SumOf(f, S) = (CHOOSE g : Folds(g))[S]
    BY DEF SumOf, MapThenSumSet, MapThenFoldSet, Pick
<1>3. \A r \in SUBSET S : r # {} => f[Pick(r)] = F(Pick(r))
    <2> HIDE DEF F
    <2>1. f = [t \in S |-> F(t)]
        BY DEF F
    <2> HIDE DEF S
    <2> QED
        BY <2>1 DEF Pick
<1> HIDE DEF S, F
<1>4. \A g : IsFold(g) <=> Folds(g)
    BY <1>3
<1> HIDE DEF IsFold, Folds
<1> QED
    BY <1>1, <1>2, <1>4, Zenon DEF S

Overloads(over, T) == \A x \in T : over[x] = Later(LoadAt(x) - Unit, 0)
LoadedTicks(s) ==
    UNION {Ticks(p) : p \in UNION {LoadedPeriods(s, t) : t \in Recoverable(s)}}

LEMMA OverloadIsSum ==
    ASSUME NEW over, Overloads(over, LoadedTicks(sample))
    PROVE  MapThenSumSet(LAMBDA x : Later(LoadAt(x) - Unit, 0), LoadedTicks(sample))
              = SumOf(over, LoadedTicks(sample))
<1> DEFINE S == LoadedTicks(sample)
           F(x) == Later(LoadAt(x) - Unit, 0)
           IsFold(g) == g = [r \in SUBSET S |-> IF r = {} THEN 0 ELSE F(Pick(r)) + g[r \ {Pick(r)}]]
           Folds(g) == g = [r \in SUBSET S |-> IF r = {} THEN 0 ELSE over[Pick(r)] + g[r \ {Pick(r)}]]
<1> HIDE DEF S
<1>1. MapThenSumSet(LAMBDA x : Later(LoadAt(x) - Unit, 0), S) = (CHOOSE g : IsFold(g))[S]
    BY DEF MapThenSumSet, MapThenFoldSet, Pick
<1>2. SumOf(over, S) = (CHOOSE g : Folds(g))[S]
    BY DEF SumOf, MapThenSumSet, MapThenFoldSet, Pick
<1>3. \A r \in SUBSET S : r # {} => over[Pick(r)] = F(Pick(r))
    BY DEF Pick, Overloads, S
<1> HIDE DEF F
<1>4. \A g : IsFold(g) <=> Folds(g)
    BY <1>3
<1>5. (CHOOSE g : IsFold(g)) = (CHOOSE g : Folds(g))
    <2> HIDE DEF IsFold, Folds
    <2> QED
        BY <1>4, Zenon
<1> HIDE DEF IsFold, Folds
<1>6. MapThenSumSet(LAMBDA x : Later(LoadAt(x) - Unit, 0), S) = SumOf(over, S)
    BY <1>1, <1>2, <1>5, Zenon
<1> QED
    BY <1>6, Zenon DEF S

LEMMA RecoverableAreTasks ==
    ASSUME NEW s, FutureIsRead(s)
    PROVE  /\ Recoverable(s) \in SUBSET s.tasks /\ Recoverable(s) \in SUBSET Int
           /\ IsFiniteSet(Recoverable(s))
<1>1. s.tasks \in SUBSET Int /\ IsFiniteSet(s.tasks)
    BY DEF FutureIsRead
<1>2. Recoverable(s) \in SUBSET s.tasks
    BY DEF Recoverable, Remaining
<1> QED
    BY <1>1, <1>2, FS_Subset

LEMMA EventsOfTask ==
    ASSUME NEW s, FutureIsRead(s), NEW t \in Recoverable(s)
    PROVE  /\ t \in Int /\ LoadIsRead(s, t)
           /\ IsFiniteSet(OfTask(s, t)) /\ OfTask(s, t) # {} /\ OfTask(s, t) \in SUBSET EventRecords
           /\ \A e \in OfTask(s, t) : e.task = t
<1>1. t \in Int
    BY RecoverableAreTasks
<1>2. LoadIsRead(s, t)
    BY LoadFacts
<1> DEFINE up == [e \in OfTask(s, t) |-> IF e.at <= 0 THEN e.delta ELSE 0]
<1>3. CountsUpTo(up, OfTask(s, t), 0)
    BY DEF CountsUpTo
<1> HIDE DEF up
<1>4. 0 \in Int
    OBVIOUS
<1> QED
    BY <1>1, <1>2, <1>3, <1>4, LoadOfTask

LEMMA AllEventsFacts ==
    ASSUME NEW s, FutureIsRead(s)
    PROVE  /\ IsFiniteSet(AllEvents(s)) /\ AllEvents(s) \in SUBSET EventRecords
           /\ Recoverable(s) # {} => AllEvents(s) # {}
<1> DEFINE R == Recoverable(s)
           f == [t \in R |-> OfTask(s, t)]
           F == {f[t] : t \in R}
<1>1. IsFiniteSet(R)
    BY RecoverableAreTasks
<1>2. \A t \in R : f[t] = OfTask(s, t) /\ IsFiniteSet(f[t]) /\ f[t] # {} /\ f[t] \in SUBSET EventRecords
    BY EventsOfTask
<1>3. AllEvents(s) = UNION F
    BY DEF AllEvents
<1>4. f = [t \in R |-> f[t]]
    OBVIOUS
<1> HIDE DEF f, R
<1>5. IsFiniteSet(F)
    BY <1>1, <1>4, ImageCount
<1>6. \A T \in F : IsFiniteSet(T) /\ T # {} /\ T \in SUBSET EventRecords
    BY <1>2
<1>7. R # {} => F # {}
    OBVIOUS
<1> HIDE DEF F
<1>8. IsFiniteSet(UNION F)
    BY <1>5, <1>6, FS_UNION
<1>9. UNION F \in SUBSET EventRecords
    BY <1>6
<1>10. F # {} => UNION F # {}
    BY <1>6
<1> QED
    BY <1>3, <1>7, <1>8, <1>9, <1>10 DEF R

(* The load at an instant is what the events up to it add up to.           *)
LEMMA LoadAtFacts ==
    ASSUME FutureIsRead(sample), NEW x \in Int, NEW up, CountsUpTo(up, AllEvents(sample), x)
    PROVE  LoadAt(x) \in Int /\ LoadAt(x) = SumOf(up, AllEvents(sample))
<1> DEFINE R == Recoverable(sample)
           F(t) == IF \E p \in LoadedPeriods(sample, t) : x \in Ticks(p) THEN Density(sample, t) ELSE 0
           f == [t \in R |-> F(t)]
           E == [t \in R |-> OfTask(sample, t)]
<1>1. R \in SUBSET Int /\ IsFiniteSet(R)
    BY RecoverableAreTasks
<1>2. LoadAt(x) = SumOf(f, R)
    BY LoadAtIsSum
<1>3. ASSUME NEW t \in R
      PROVE  /\ t \in Int /\ LoadIsRead(sample, t) /\ CountsUpTo(up, OfTask(sample, t), x)
             /\ OfTask(sample, t) \in SUBSET AllEvents(sample)
    <2>1. t \in Int /\ LoadIsRead(sample, t)
        BY EventsOfTask
    <2>2. OfTask(sample, t) \in SUBSET AllEvents(sample)
        BY DEF AllEvents
    <2>3. CountsUpTo(up, OfTask(sample, t), x)
        BY <2>2 DEF CountsUpTo
    <2> QED
        BY <2>1, <2>2, <2>3
<1> HIDE DEF F
<1>4. ASSUME NEW t \in R
      PROVE  /\ IsFiniteSet(OfTask(sample, t)) /\ Numbers(up, OfTask(sample, t))
             /\ \A e \in OfTask(sample, t) : e.task = t
             /\ SumOf(up, OfTask(sample, t)) = F(t)
    <2> HIDE DEF R
    <2> QED
        BY <1>3, LoadOfTask DEF F
<1>5. \A t \in R : E[t] = OfTask(sample, t)
    OBVIOUS
<1>6. \A t \in R : f[t] = SumOf(up, E[t])
    BY <1>4
<1>7. {E[t] : t \in R} = {OfTask(sample, t) : t \in R}
    OBVIOUS
<1> HIDE DEF E, f, R
<1>8. SetsApart(E, R)
    BY <1>4, <1>5 DEF SetsApart
<1>9. SumsOfSets(f, up, E, R)
    BY <1>4, <1>5, <1>6 DEF SumsOfSets
<1>10. SumOf(up, MembersOf(E, R)) = SumOf(f, R)
    BY <1>1, <1>8, <1>9, SumOfFamilies
<1>11. MembersOf(E, R) = AllEvents(sample)
    BY <1>7 DEF AllEvents, R, MembersOf
<1>12. Numbers(up, AllEvents(sample))
    <2>1. IsFiniteSet(AllEvents(sample)) /\ AllEvents(sample) \in SUBSET EventRecords
        BY AllEventsFacts
    <2> QED
        BY <2>1 DEF Numbers, CountsUpTo, EventRecords
<1>13. SumOf(up, AllEvents(sample)) \in Int
    BY <1>12, AllEventsFacts, SumOfFacts
<1> QED
    BY <1>2, <1>10, <1>11, <1>13

(* The events in the order of time. *)
InTime(L, E) ==
    /\ Lists(L, E)
    /\ \A i, j \in DOMAIN L : i < j => L[i].at <= L[j].at

LEMMA EventsInTime ==
    ASSUME NEW s, FutureIsRead(s)
    PROVE  InTime(Events(s), AllEvents(s))
<1> DEFINE S == AllEvents(s)
           R == EventOrder(S)
           L == Events(s)
           IsNth(n, x) == Cardinality({y \in S : EventBefore(y, x)}) = n - 1
<1>1. S \in SUBSET EventRecords /\ IsFiniteSet(S)
    BY AllEventsFacts
<1>2. StrictTotalOrder(S, R)
    BY <1>1, EventsAreOrdered
<1>3. L = [n \in 1 .. Cardinality(S) |-> CHOOSE x \in S : IsNth(n, x)]
    BY DEF Events, SortedBy, AllEvents, OfTask
<1> HIDE DEF L, S
<1>4. \A x \in S : {y \in S : EventBefore(y, x)} = Preceding(S, R, x)
    BY DEF Preceding, EventOrder
<1>5. ASSUME NEW n \in 1 .. Cardinality(S), \E x \in S : IsNth(n, x)
      PROVE  L[n] \in S /\ IsNth(n, L[n])
    <2>1. L[n] = CHOOSE x \in S : IsNth(n, x)
        BY <1>3
    <2> HIDE DEF IsNth
    <2> QED
        BY <1>5, <2>1
<1>6. TakesPlaces(L, S, R)
    <2>1. L = [n \in 1 .. Cardinality(S) |-> L[n]]
        <3> HIDE DEF IsNth
        <3> QED
            BY <1>3
    <2>2. \A x \in S : \A n : IsNth(n, x) <=> Cardinality(Preceding(S, R, x)) = n - 1
        BY <1>4
    <2> HIDE DEF IsNth, R
    <2> QED
        BY <1>5, <2>1, <2>2 DEF TakesPlaces
<1>7. Lists(L, S) /\ \A i, j \in DOMAIN L : i < j <=> <<L[i], L[j]>> \in R
    <2> HIDE DEF R
    <2> QED
        BY <1>1, <1>2, <1>6, PlacedInOrder
<1>8. \A i, j \in DOMAIN L : i < j => L[i].at <= L[j].at
    <2> SUFFICES ASSUME NEW i \in DOMAIN L, NEW j \in DOMAIN L, i < j PROVE L[i].at <= L[j].at
        OBVIOUS
    <2>1. L[i] \in S /\ L[j] \in S /\ EventBefore(L[i], L[j])
        BY <1>7 DEF Lists, EventOrder
    <2>2. L[i].at \in Int /\ L[j].at \in Int
        BY <1>1, <2>1 DEF EventRecords
    <2> QED
        BY <2>1, <2>2 DEF EventBefore
<1> QED
    BY <1>7, <1>8 DEF InTime, L, S

DeltasOf(delta, L, N) == delta = [i \in 1 .. N |-> L[i].delta]

(* Between two events the load is what the events so far add up to.        *)
LEMMA LoadBetween ==
    ASSUME FutureIsRead(sample), NEW L, InTime(L, AllEvents(sample)),
           NEW N \in Nat, N = Len(L), NEW delta, DeltasOf(delta, L, N),
           NEW k \in 1 .. N - 1, NEW x \in Int, L[k].at <= x, x < L[k + 1].at
    PROVE  LoadAt(x) = SumOf(delta, 1 .. k)
<1> DEFINE E == AllEvents(sample)
           up == [e \in E |-> IF e.at <= x THEN e.delta ELSE 0]
           a == [i \in 1 .. N |-> up[L[i]]]
<1>1. /\ DOMAIN L = 1 .. N /\ \A i \in 1 .. N : L[i] \in E
      /\ \A i, j \in 1 .. N : L[i] = L[j] => i = j
      /\ \A e \in E : \E i \in 1 .. N : L[i] = e
      /\ \A i, j \in 1 .. N : i < j => L[i].at <= L[j].at
    BY DEF InTime, Lists
<1>2. E \in SUBSET EventRecords
    BY AllEventsFacts
<1> HIDE DEF E
<1>3. \A e \in E : e.at \in Int /\ e.delta \in Int /\ up[e] = IF e.at <= x THEN e.delta ELSE 0
    BY <1>2 DEF EventRecords
<1>4. CountsUpTo(up, E, x) /\ Numbers(up, E)
    BY <1>3 DEF CountsUpTo, Numbers
<1>5. LoadAt(x) = SumOf(up, E)
    <2> HIDE DEF up
    <2> QED
        BY <1>4, LoadAtFacts DEF E
<1>6. Renames(L, 1 .. N, E)
    BY <1>1 DEF Renames
<1>7. \A i \in 1 .. N : a[i] = up[L[i]]
    OBVIOUS
<1>8. \A i \in 1 .. N : /\ L[i].at \in Int /\ delta[i] = L[i].delta /\ delta[i] \in Int
                        /\ a[i] = IF L[i].at <= x THEN delta[i] ELSE 0
    BY <1>1, <1>3, <1>7 DEF DeltasOf
<1> HIDE DEF up, a
<1>9. Follows(a, up, L, 1 .. N) /\ IsFiniteSet(1 .. N)
    BY <1>7, FS_Interval DEF Follows
<1>10. SumOf(up, E) = SumOf(a, 1 .. N)
    BY <1>4, <1>6, <1>9, SumOfRenamed
<1>11. k \in Int /\ k + 1 \in 1 .. N /\ k \in 1 .. N /\ 1 .. k \in SUBSET (1 .. N)
    OBVIOUS
<1>12. \A i \in (1 .. N) \ (1 .. k) : a[i] = 0
    <2> SUFFICES ASSUME NEW i \in 1 .. N, i \notin 1 .. k PROVE a[i] = 0
        OBVIOUS
    <2>1. i = k + 1 \/ k + 1 < i
        OBVIOUS
    <2>2. L[i].at \in Int /\ L[k + 1].at \in Int /\ L[k + 1].at <= L[i].at
        BY <1>1, <1>8, <1>11, <2>1
    <2>3. ~ (L[i].at <= x)
        BY <2>2
    <2> QED
        BY <1>8, <2>3
<1>13. \A i \in 1 .. k : a[i] = delta[i] /\ a[i] \in Int
    <2> SUFFICES ASSUME NEW i \in 1 .. k PROVE a[i] = delta[i] /\ delta[i] \in Int
        OBVIOUS
    <2>1. i \in 1 .. N /\ (i = k \/ i < k)
        BY <1>11
    <2>2. L[i].at \in Int /\ L[k].at \in Int /\ L[i].at <= L[k].at
        BY <1>1, <1>8, <1>11, <2>1
    <2>3. L[i].at <= x
        BY <2>2
    <2> QED
        BY <1>8, <2>1, <2>3
<1>14. Numbers(a, 1 .. N) /\ Numbers(a, 1 .. k) /\ IsFiniteSet(1 .. k)
    <2>1. \A i \in 1 .. N : a[i] \in Int
        BY <1>8
    <2>2. IsFiniteSet(1 .. k)
        BY <1>11, FS_Interval
    <2> QED
        BY <1>13, <2>1, <2>2 DEF Numbers
<1>15. SumOf(a, 1 .. N) = SumOf(a, 1 .. k)
    BY <1>9, <1>11, <1>12, <1>14, SumOfPadded
<1>16. SumOf(a, 1 .. k) = SumOf(delta, 1 .. k)
    BY <1>13, <1>14, SumOfSame
<1> QED
    BY <1>5, <1>10, <1>15, <1>16

LEMMA SweepStepTypes ==
    ASSUME NEW s, FutureIsRead(s), NEW sweep \in [load : Int, upto : Int, area : Int],
           NEW event \in EventRecords
    PROVE  SweepStep(s, sweep, event) \in [load : Int, upto : Int, area : Int]
<1>1. /\ sweep.load \in Int /\ sweep.upto \in Int /\ sweep.area \in Int
      /\ event.at \in Int /\ event.delta \in Int /\ FirstActive(s) \in Int /\ Unit \in Int
    BY FirstActiveFacts, UnitIsPositive DEF EventRecords
<1> DEFINE at == Later(event.at, FirstActive(s))
           over == Later(sweep.load - Unit, 0)
<1>2. at \in Int /\ over \in Int /\ at - sweep.upto \in Int
    BY <1>1 DEF Later
<1>3. SweepStep(s, sweep, event) = [load |-> sweep.load + event.delta, upto |-> at,
                                    area |-> sweep.area + (at - sweep.upto) * over]
    BY DEF SweepStep
<1> HIDE DEF at, over
<1>4. sweep.load + event.delta \in Int /\ sweep.area + (at - sweep.upto) * over \in Int
    BY <1>1, <1>2
<1> QED
    BY <1>2, <1>3, <1>4

(* Sweeping over events.                                                   *)
SweepFoldRuns(s, events, h) ==
    /\ h \in [0 .. Len(events) -> [load : Int, upto : Int, area : Int]]
    /\ h[0] = [load |-> 0, upto |-> Later(Head(events).at, FirstActive(s)), area |-> 0]
    /\ \A k \in 1 .. Len(events) : h[k] = SweepStep(s, h[k - 1], events[k])
    /\ Sweep(s, events) = h[Len(events)]

LEMMA SweepFold ==
    ASSUME NEW s, FutureIsRead(s), NEW events, events \in Seq(EventRecords), events # <<>>
    PROVE  \E h : SweepFoldRuns(s, events, h)
<1> DEFINE list == events
           n == Len(list)
           G == [load : Int, upto : Int, area : Int]
           base == [load |-> 0, upto |-> Later(Head(events).at, FirstActive(s)), area |-> 0]
           step == [ky \in (1 .. n) \X G |-> SweepStep(s, ky[2], list[ky[1]])]
           IsFold(it) == it = [r \in SUBSET (1 .. n) |->
                                  IF r = {} THEN base ELSE SweepStep(s, it[r \ {Max(r)}], list[Max(r)])]
           iter == CHOOSE it : IsFold(it)
<1>1. n \in Nat /\ DOMAIN list = 1 .. n /\ \A k \in 1 .. n : list[k] \in EventRecords
    <2>1. list \in Seq(EventRecords)
        OBVIOUS
    <2> HIDE DEF list
    <2> QED
        BY <2>1, ListFacts
<1>2. base \in G
    <2>1. 1 \in 1 .. n /\ Head(events) = list[1]
        BY <1>1
    <2>2. Head(events).at \in Int /\ FirstActive(s) \in Int
        BY <1>1, <2>1, FirstActiveFacts DEF EventRecords
    <2>3. Later(Head(events).at, FirstActive(s)) \in Int
        BY <2>2 DEF Later
    <2> QED
        BY <2>3
<1>3. \A k \in 1 .. n : \A y \in G : SweepStep(s, y, list[k]) \in G
    BY <1>1, SweepStepTypes
<1>4. step \in [(1 .. n) \X G -> G]
    <2> HIDE DEF n, G, list
    <2> SUFFICES ASSUME NEW ky \in (1 .. n) \X G PROVE step[ky] \in G
        OBVIOUS
    <2>1. step[ky] = SweepStep(s, ky[2], list[ky[1]]) /\ ky[1] \in 1 .. n /\ ky[2] \in G
        OBVIOUS
    <2> QED
        BY <1>3, <2>1
<1>5. \E it : IsFold(it)
    <2> HIDE DEF G, n, list, base
    <2>1. PICK g \in [SUBSET (1 .. n) -> G] : FoldsTo(n, base, step, g)
        <3> HIDE DEF step
        <3> QED
            BY <1>1, <1>2, <1>4, ListFoldExists
    <2>2. ASSUME NEW r \in SUBSET (1 .. n), r # {}
          PROVE  step[<<Max(r), g[r \ {Max(r)}]>>] = SweepStep(s, g[r \ {Max(r)}], list[Max(r)])
        <3>1. Max(r) \in 1 .. n /\ g[r \ {Max(r)}] \in G
            BY <1>1, <2>2, MaxPicks
        <3> QED
            BY <3>1
    <2>3. IsFold(g)
        <3>1. \A r \in SUBSET (1 .. n) :
                 g[r] = IF r = {} THEN base ELSE step[<<Max(r), g[r \ {Max(r)}]>>]
            BY <2>1 DEF FoldsTo
        <3> HIDE DEF step
        <3>2. \A r \in SUBSET (1 .. n) :
                 g[r] = IF r = {} THEN base ELSE SweepStep(s, g[r \ {Max(r)}], list[Max(r)])
            BY <2>2, <3>1
        <3> QED
            BY <3>2
    <2> HIDE DEF IsFold
    <2> QED
        BY <2>3
<1>6. IsFold(iter)
    <2> HIDE DEF IsFold
    <2> QED
        BY <1>5
<1>7. Sweep(s, events) = iter[1 .. n]
    BY <1>1 DEF Sweep, FoldLeft, MapThenFoldSet
<1> HIDE DEF iter, G, n, list, base
<1>8. iter[{}] = base
    <2>1. {} \in SUBSET (1 .. n)
        OBVIOUS
    <2> QED
        BY <1>6, <2>1, Zenon
<1>9. \A k \in 1 .. n : iter[1 .. k] = SweepStep(s, iter[1 .. k - 1], list[k])
    <2> SUFFICES ASSUME NEW k \in 1 .. n PROVE iter[1 .. k] = SweepStep(s, iter[1 .. k - 1], list[k])
        OBVIOUS
    <2>1. 1 .. k \in SUBSET (1 .. n) /\ 1 .. k # {} /\ Max(1 .. k) = k /\ (1 .. k) \ {k} = 1 .. k - 1
        BY <1>1, PrefixFacts
    <2>2. iter[1 .. k] = SweepStep(s, iter[(1 .. k) \ {Max(1 .. k)}], list[Max(1 .. k)])
        BY <1>6, <2>1, Zenon
    <2> QED
        BY <2>1, <2>2
<1> HIDE DEF IsFold
<1>10. \A k \in 1 .. n : \A y \in G : step[<<k, y>>] = SweepStep(s, y, list[k])
    BY DEF step
<1> HIDE DEF step
<1>11. PICK h \in [0 .. n -> G] : ValuesOf(n, base, step, iter, h)
    <2>1. Steps(n, G, step, iter)
        BY <1>9, <1>10 DEF Steps
    <2> QED
        BY <1>1, <1>2, <1>4, <1>8, <2>1, FoldSteps
<1>12. \A k \in 1 .. n : h[k] = SweepStep(s, h[k - 1], list[k])
    <2> SUFFICES ASSUME NEW k \in 1 .. n PROVE h[k] = SweepStep(s, h[k - 1], list[k])
        OBVIOUS
    <2>1. k - 1 \in 0 .. n
        BY <1>1
    <2> QED
        BY <1>10, <1>11, <2>1 DEF ValuesOf
<1>13. Sweep(s, events) = h[n]
    BY <1>7, <1>11, Zenon DEF ValuesOf
<1>14. h[0] = base
    BY <1>11, Zenon DEF ValuesOf
<1> QED
    BY <1>11, <1>12, <1>13, <1>14, Zenon DEF G, n, list, base, SweepFoldRuns

(* The overload at the ticks of a stretch of time. *)
IsFlat(over, b, c, v) == \A x \in b .. c - 1 : over[x] = v

LEMMA StretchFacts ==
    ASSUME NEW over, Numbers(over, Int), NEW a \in Int, NEW b \in Int, NEW c \in Int,
           a <= b, b <= c, NEW v \in Int, IsFlat(over, b, c, v)
    PROVE  SumOf(over, a .. c - 1) = SumOf(over, a .. b - 1) + (c - b) * v
<1> DEFINE S == a .. b - 1
           T == b .. c - 1
<1>1. IsFiniteSet(S) /\ IsFiniteSet(T) /\ Cardinality(T) = c - b
    <2>1. IsFiniteSet(S)
        BY FS_Interval
    <2>2. IsFiniteSet(T) /\ Cardinality(T) = IF b > c - 1 THEN 0 ELSE (c - 1) - b + 1
        BY FS_Interval
    <2> QED
        BY <2>1, <2>2
<1>2. S \cap T = {} /\ S \cup T = a .. c - 1
    OBVIOUS
<1>3. Numbers(over, S) /\ Numbers(over, T)
    BY DEF Numbers
<1> HIDE DEF S, T
<1>4. SumOf(over, S \cup T) = SumOf(over, S) + SumOf(over, T)
    BY <1>1, <1>2, <1>3, SumOfUnion
<1>5. SumOf(over, T) = v * Cardinality(T)
    <2>1. \A x \in T : over[x] = v
        BY DEF T, IsFlat
    <2> QED
        BY <1>1, <2>1, SumOfConstant
<1>6. v * (c - b) = (c - b) * v
    OBVIOUS
<1> QED
    BY <1>1, <1>2, <1>4, <1>5, <1>6 DEF S

(* After k events the sweep holds the load so far, and the overload of all *)
(* ticks up to the last of them.                                           *)
Swept(y, k, L, delta, over) ==
    /\ y.load = SumOf(delta, 1 .. k)
    /\ y.upto = L[k].at
    /\ y.area = SumOf(over, L[1].at .. L[k].at - 1)

LEMMA FirstEvent ==
    ASSUME NEW s, NEW L, NEW N \in Nat, N > 0, \A i \in 1 .. N : L[i].at \in Int /\ L[i].delta \in Int,
           FirstActive(s) \in Int, FirstActive(s) <= L[1].at,
           NEW delta, delta = [i \in 1 .. N |-> L[i].delta],
           NEW over, Numbers(over, Int),
           NEW y, y = [load |-> 0, upto |-> Later(L[1].at, FirstActive(s)), area |-> 0]
    PROVE  Swept(SweepStep(s, y, L[1]), 1, L, delta, over)
<1> DEFINE z == SweepStep(s, y, L[1])
<1>1. 1 \in 1 .. N /\ L[1].at \in Int /\ L[1].delta \in Int
    OBVIOUS
<1>2. Later(L[1].at, FirstActive(s)) = L[1].at
    BY <1>1 DEF Later
<1>3. Later(0 - Unit, 0) = 0
    BY UnitIsPositive DEF Later
<1>4. y.load = 0 /\ y.upto = L[1].at /\ y.area = 0
    BY <1>2
<1>5. z.load = L[1].delta /\ z.upto = L[1].at /\ z.area = 0
    BY <1>1, <1>2, <1>3, <1>4 DEF SweepStep
<1>6. SumOf(delta, 1 .. 1) = L[1].delta
    <2>1. 1 .. 1 = {1} /\ delta[1] = L[1].delta
        BY <1>1
    <2> QED
        BY <1>1, <2>1, SumOfOne
<1>7. SumOf(over, L[1].at .. L[1].at - 1) = 0
    <2>1. L[1].at .. L[1].at - 1 = {}
        BY <1>1
    <2>2. Numbers(over, {})
        BY DEF Numbers
    <2>3. SumOf(over, {}) = 0
        BY <2>2, SumOfFacts, FS_EmptySet
    <2> QED
        BY <2>1, <2>3
<1> HIDE DEF z
<1>8. Swept(z, 1, L, delta, over)
    BY <1>5, <1>6, <1>7 DEF Swept
<1> QED
    BY <1>8 DEF z

LEMMA NextEvent ==
    ASSUME NEW s, NEW L, NEW N \in Nat, \A i \in 1 .. N : L[i].at \in Int /\ L[i].delta \in Int,
           NEW k \in 1 .. N - 1, L[1].at <= L[k].at, L[k].at <= L[k + 1].at,
           FirstActive(s) \in Int, FirstActive(s) <= L[k + 1].at,
           NEW delta, delta = [i \in 1 .. N |-> L[i].delta],
           NEW over, Numbers(over, Int),
           IsFlat(over, L[k].at, L[k + 1].at, Later(SumOf(delta, 1 .. k) - Unit, 0)),
           NEW y, Swept(y, k, L, delta, over)
    PROVE  Swept(SweepStep(s, y, L[k + 1]), k + 1, L, delta, over)
<1> DEFINE z == SweepStep(s, y, L[k + 1])
           load == SumOf(delta, 1 .. k)
           v == Later(load - Unit, 0)
           a == L[1].at
           b == L[k].at
           c == L[k + 1].at
<1>1. a \in Int /\ b \in Int /\ c \in Int /\ L[k + 1].delta \in Int
    <2>1. 1 \in 1 .. N /\ k \in 1 .. N /\ k + 1 \in 1 .. N
        OBVIOUS
    <2> QED
        BY <2>1
<1>2. load \in Int /\ SumOf(delta, 1 .. k + 1) = delta[k + 1] + load /\ delta[k + 1] = L[k + 1].delta
    <2>1. Numbers(delta, 1 .. N)
        BY DEF Numbers
    <2>2. k \in 0 .. N /\ k + 1 \in 1 .. N /\ (k + 1) - 1 = k
        OBVIOUS
    <2>3. SumOf(delta, 1 .. k) \in Int /\ SumOf(delta, 1 .. k + 1) = delta[k + 1] + SumOf(delta, 1 .. (k + 1) - 1)
        BY <2>1, <2>2, SumUpTo
    <2> QED
        BY <2>2, <2>3
<1>3. Later(c, FirstActive(s)) = c
    BY <1>1 DEF Later
<1>4. y.load = load /\ y.upto = b /\ y.area = SumOf(over, a .. b - 1)
    BY DEF Swept
<1>5. v \in Int
    BY <1>2, UnitIsPositive DEF Later
<1>6. SumOf(over, a .. c - 1) = SumOf(over, a .. b - 1) + (c - b) * v
    <2>1. IsFlat(over, b, c, v) /\ a <= b /\ b <= c
        OBVIOUS
    <2> HIDE DEF a, b, c, v
    <2> QED
        BY <1>1, <1>5, <2>1, StretchFacts
<1>7. z = [load |-> y.load + L[k + 1].delta, upto |-> c, area |-> y.area + (c - y.upto) * v]
    BY <1>3, <1>4 DEF SweepStep
<1> HIDE DEF z, load, v
<1>8. z.load = SumOf(delta, 1 .. k + 1)
    BY <1>1, <1>2, <1>4, <1>7
<1>9. z.upto = c /\ z.area = SumOf(over, a .. c - 1)
    BY <1>4, <1>6, <1>7
<1>10. Swept(z, k + 1, L, delta, over)
    BY <1>8, <1>9 DEF Swept
<1> QED
    BY <1>10 DEF z

(* No event is before the first region opens. *)
LEMMA EventsAreActive ==
    ASSUME NEW s, FutureIsRead(s)
    PROVE  \A e \in AllEvents(s) : FirstActive(s) <= e.at
<1> SUFFICES ASSUME NEW t \in Recoverable(s), NEW e \in OfTask(s, t) PROVE FirstActive(s) <= e.at
    BY DEF AllEvents
<1>1. LoadIsRead(s, t)
    BY EventsOfTask
<1>2. FirstActive(s) \in Int
    BY FirstActiveFacts
<1>3. PICK p \in LoadedPeriods(s, t) : e.at = p.start \/ e.at = p.end
    BY DEF OfTask, EventsOf, Event
<1>4. p.start \in Int /\ p.end \in Int /\ p.start < p.end /\ FirstActive(s) <= p.start
    BY <1>1, PeriodFacts DEF LoadIsRead
<1> QED
    BY <1>2, <1>3, <1>4

(* Every loaded tick is between the first and the last event. *)
LEMMA LoadIsBetweenEvents ==
    ASSUME NEW s, FutureIsRead(s), NEW x \in LoadedTicks(s)
    PROVE  x \in Int /\ \E e, f \in AllEvents(s) : e.at <= x /\ x < f.at
<1>1. PICK t \in Recoverable(s) : \E p \in LoadedPeriods(s, t) : x \in Ticks(p)
    BY DEF LoadedTicks
<1>2. PICK p \in LoadedPeriods(s, t) : x \in Ticks(p)
    BY <1>1
<1>3. p.start \in Int /\ p.end \in Int
    <2>1. LoadIsRead(s, t)
        BY EventsOfTask
    <2> QED
        BY <2>1, PeriodFacts DEF LoadIsRead
<1>4. x \in Int /\ p.start <= x /\ x < p.end
    BY <1>2, <1>3 DEF Ticks
<1> DEFINE e == Event(p.start, Density(s, t), t)
           f == Event(p.end, - Density(s, t), t)
<1>5. e \in OfTask(s, t) /\ f \in OfTask(s, t)
    BY DEF OfTask, EventsOf
<1>6. e \in AllEvents(s) /\ f \in AllEvents(s)
    BY <1>5 DEF AllEvents
<1>7. e.at = p.start /\ f.at = p.end
    BY DEF Event
<1> HIDE DEF e, f
<1> QED
    BY <1>4, <1>6, <1>7

LEMMA NoLoadElsewhere ==
    ASSUME FutureIsRead(sample), NEW x, x \notin LoadedTicks(sample)
    PROVE  LoadAt(x) = 0
<1> DEFINE R == Recoverable(sample)
           f == [t \in R |-> IF \E p \in LoadedPeriods(sample, t) : x \in Ticks(p)
                               THEN Density(sample, t) ELSE 0]
<1>1. LoadAt(x) = SumOf(f, R)
    BY LoadAtIsSum
<1>2. \A t \in R : f[t] = 0
    <2> SUFFICES ASSUME NEW t \in R, NEW p \in LoadedPeriods(sample, t), x \in Ticks(p) PROVE FALSE
        OBVIOUS
    <2> QED
        BY DEF LoadedTicks
<1>3. IsFiniteSet(R)
    BY RecoverableAreTasks
<1> HIDE DEF f, R
<1>4. SumOf(f, R) = 0 * Cardinality(R)
    BY <1>2, <1>3, SumOfConstant
<1>5. Cardinality(R) \in Nat
    BY <1>3, FS_CardinalityType
<1> QED
    BY <1>1, <1>4, <1>5

LEMMA SweepMeasures ==
    ASSUME FutureIsRead(sample), Recoverable(sample) # {},
           NEW over, \A x \in Int : over[x] = Later(LoadAt(x) - Unit, 0)
    PROVE  /\ Numbers(over, Int)
           /\ OverloadArea(sample) = SumOf(over, LoadedTicks(sample))
           /\ IsFiniteSet(LoadedTicks(sample)) /\ LoadedTicks(sample) \in SUBSET Int
<1> DEFINE L == Events(sample)
           E == AllEvents(sample)
           N == Len(L)
           T == LoadedTicks(sample)
           delta == [i \in 1 .. N |-> L[i].delta]
<1>1. IsFiniteSet(E) /\ E \in SUBSET EventRecords /\ E # {}
    BY AllEventsFacts
<1>2. InTime(L, E)
    BY EventsInTime
<1> HIDE DEF L, E
<1>3. /\ N \in Nat /\ DOMAIN L = 1 .. N /\ N > 0 /\ L \in Seq(E) /\ L # <<>>
      /\ \A i \in 1 .. N : L[i] \in E
      /\ \A e \in E : \E i \in 1 .. N : L[i] = e
      /\ \A i, j \in 1 .. N : i < j => L[i].at <= L[j].at
    <2>1. Cardinality(E) \in Nat /\ Cardinality(E) # 0
        BY <1>1, FS_CardinalityType, FS_EmptySet
    <2>2. /\ N = Cardinality(E) /\ DOMAIN L = 1 .. N /\ L \in Seq(E)
          /\ \A i \in 1 .. N : L[i] \in E
          /\ \A e \in E : \E i \in 1 .. N : L[i] = e
          /\ \A i, j \in 1 .. N : i < j => L[i].at <= L[j].at
        BY <1>2 DEF InTime, Lists
    <2> HIDE DEF N
    <2>3. N \in Nat /\ N > 0
        BY <2>1, <2>2
    <2>4. L # <<>>
        BY <2>2, <2>3
    <2> QED
        BY <2>2, <2>3, <2>4
<1>4. \A i \in 1 .. N : L[i].at \in Int /\ L[i].delta \in Int /\ FirstActive(sample) <= L[i].at
    <2>1. \A i \in 1 .. N : FirstActive(sample) <= L[i].at
        BY <1>3, EventsAreActive DEF E
    <2>2. \A i \in 1 .. N : L[i] \in EventRecords
        BY <1>1, <1>3
    <2> QED
        BY <2>1, <2>2 DEF EventRecords
<1>5. FirstActive(sample) \in Int
    BY FirstActiveFacts
<1>6. Numbers(over, Int)
    <2> SUFFICES ASSUME NEW x \in Int PROVE over[x] \in Int
        BY DEF Numbers
    <2> DEFINE up == [e \in E |-> IF e.at <= x THEN e.delta ELSE 0]
    <2>1. CountsUpTo(up, E, x)
        BY DEF CountsUpTo
    <2> HIDE DEF up
    <2>2. LoadAt(x) \in Int
        BY <2>1, LoadAtFacts DEF E
    <2> QED
        BY <2>2, UnitIsPositive DEF Later
<1>7. PICK h : SweepFoldRuns(sample, L, h)
    <2>1. L \in Seq(EventRecords)
        BY <1>1, <1>3
    <2> QED
        BY <1>3, <2>1, SweepFold
<1>8. /\ h[0] = [load |-> 0, upto |-> Later(L[1].at, FirstActive(sample)), area |-> 0]
      /\ \A k \in 1 .. N : h[k] = SweepStep(sample, h[k - 1], L[k])
      /\ Sweep(sample, L) = h[N]
    <2>1. Head(L) = L[1]
        BY <1>3
    <2> QED
        BY <1>7, <2>1 DEF SweepFoldRuns
<1> DEFINE P == {j \in Nat : j < N => Swept(h[j + 1], j + 1, L, delta, over)}
<1> HIDE DEF N, delta
<1>9. delta = [i \in 1 .. N |-> L[i].delta] /\ N = Len(L)
    BY DEF delta, N
<1>10. 0 \in P
    <2>1. 1 \in 1 .. N /\ 1 - 1 = 0 /\ 0 + 1 = 1
        BY <1>3
    <2>2. h[1] = SweepStep(sample, h[0], L[1])
        BY <1>8, <2>1
    <2>3. FirstActive(sample) <= L[1].at
        BY <1>4, <2>1
    <2>4. Swept(SweepStep(sample, h[0], L[1]), 1, L, delta, over)
        BY <1>3, <1>4, <1>5, <1>6, <1>8, <1>9, <2>3, FirstEvent
    <2> QED
        BY <2>1, <2>2, <2>4
<1>11. ASSUME NEW j \in Nat, j \in P PROVE j + 1 \in P
    <2> SUFFICES ASSUME j + 1 < N PROVE Swept(h[(j + 1) + 1], (j + 1) + 1, L, delta, over)
        OBVIOUS
    <2> DEFINE k == j + 1
    <2>1. k \in 1 .. N - 1 /\ k \in 1 .. N /\ k + 1 \in 1 .. N /\ (k + 1) - 1 = k /\ 1 \in 1 .. N /\ j < N
        BY <1>3
    <2>2. Swept(h[k], k, L, delta, over)
        BY <1>11, <2>1
    <2> HIDE DEF k
    <2>3. h[k + 1] = SweepStep(sample, h[k], L[k + 1])
        BY <1>8, <2>1
    <2>4. L[1].at <= L[k].at /\ L[k].at <= L[k + 1].at /\ FirstActive(sample) <= L[k + 1].at
        <3>1. k = 1 \/ 1 < k
            BY <2>1
        <3>2. k < k + 1 /\ L[1].at \in Int
            BY <1>4, <2>1
        <3> QED
            <4>1. L[1].at <= L[k].at
                <5>1. CASE k = 1
                    BY <3>2, <5>1
                <5>2. CASE 1 < k
                    BY <1>3, <2>1, <5>2
                <5> QED
                    BY <3>1, <5>1, <5>2
            <4>2. L[k].at <= L[k + 1].at
                BY <1>3, <2>1, <3>2
            <4>3. FirstActive(sample) <= L[k + 1].at
                BY <1>4, <2>1
            <4> QED
                BY <4>1, <4>2, <4>3
    <2>5. IsFlat(over, L[k].at, L[k + 1].at, Later(SumOf(delta, 1 .. k) - Unit, 0))
        <3> SUFFICES ASSUME NEW x \in L[k].at .. L[k + 1].at - 1
                     PROVE  over[x] = Later(SumOf(delta, 1 .. k) - Unit, 0)
            BY DEF IsFlat
        <3>1. L[k].at \in Int /\ L[k + 1].at \in Int
            BY <1>4, <2>1
        <3>2. x \in Int /\ L[k].at <= x /\ x < L[k + 1].at
            BY <3>1
        <3>3. LoadAt(x) = SumOf(delta, 1 .. k)
            <4>1. InTime(L, AllEvents(sample)) /\ DeltasOf(delta, L, N) /\ N = Len(L) /\ N \in Nat
                BY <1>2, <1>3, <1>9 DEF E, DeltasOf
            <4> QED
                BY <2>1, <3>2, <4>1, LoadBetween
        <3> QED
            BY <3>2, <3>3
    <2>6. \A i \in 1 .. N : L[i].at \in Int /\ L[i].delta \in Int
        BY <1>4
    <2>7. Swept(SweepStep(sample, h[k], L[k + 1]), k + 1, L, delta, over)
        BY <1>3, <1>5, <1>6, <1>9, <2>1, <2>2, <2>4, <2>5, <2>6, NextEvent
    <2> QED
        BY <2>3, <2>7 DEF k
<1>12. Nat \subseteq P
    <2> HIDE DEF P
    <2> QED
        BY <1>10, <1>11, CountingUp
<1>13. Swept(h[N], N, L, delta, over)
    <2>1. N - 1 \in Nat /\ N - 1 < N /\ (N - 1) + 1 = N
        BY <1>3
    <2>2. N - 1 \in P
        BY <1>12, <2>1
    <2> QED
        BY <2>1, <2>2
<1>14. OverloadArea(sample) = SumOf(over, L[1].at .. L[N].at - 1)
    BY <1>8, <1>13 DEF OverloadArea, Swept, L
<1> DEFINE A == L[1].at .. L[N].at - 1
<1>15. T \in SUBSET A
    <2> SUFFICES ASSUME NEW x \in T PROVE x \in A
        OBVIOUS
    <2>1. PICK e \in E, f \in E : x \in Int /\ e.at <= x /\ x < f.at
        BY LoadIsBetweenEvents DEF E
    <2>2. PICK i \in 1 .. N, j \in 1 .. N : L[i] = e /\ L[j] = f
        BY <1>3
    <2>3. 1 \in 1 .. N /\ N \in 1 .. N /\ (i = 1 \/ 1 < i) /\ (j = N \/ j < N)
        BY <1>3
    <2>4. /\ L[1].at \in Int /\ L[N].at \in Int /\ L[i].at \in Int /\ L[j].at \in Int
          /\ L[1].at <= L[i].at /\ L[j].at <= L[N].at
        BY <1>3, <1>4, <2>3
    <2> QED
        BY <2>1, <2>2, <2>4
<1>16. IsFiniteSet(A) /\ A \in SUBSET Int
    <2>1. L[1].at \in Int /\ L[N].at - 1 \in Int
        <3>1. 1 \in 1 .. N /\ N \in 1 .. N
            BY <1>3
        <3> QED
            BY <1>4, <3>1
    <2> QED
        BY <2>1, FS_Interval
<1>17. \A x \in A \ T : over[x] = 0
    <2> SUFFICES ASSUME NEW x \in A, x \notin T PROVE over[x] = 0
        OBVIOUS
    <2>1. x \in Int
        BY <1>16
    <2>2. LoadAt(x) = 0
        BY NoLoadElsewhere
    <2>3. Later(0 - Unit, 0) = 0
        BY UnitIsPositive DEF Later
    <2> QED
        BY <2>1, <2>2, <2>3
<1> HIDE DEF A, T
<1>18. Numbers(over, A)
    BY <1>6, <1>16 DEF Numbers
<1>19. SumOf(over, A) = SumOf(over, T)
    BY <1>15, <1>16, <1>17, <1>18, SumOfPadded
<1>20. IsFiniteSet(T) /\ T \in SUBSET Int
    BY <1>15, <1>16, FS_Subset
<1> QED
    BY <1>6, <1>14, <1>19, <1>20 DEF A, T

LEMMA SweepIsAlwaysTickwise ==
    ASSUME About("future") => FutureIsRead(sample)
    PROVE  SweepIsTickwise
<1> SUFFICES ASSUME About("future"), FutureIsRead(sample)
             PROVE  OverloadArea(sample) =
                MapThenSumSet(LAMBDA x : Later(LoadAt(x) - Unit, 0), LoadedTicks(sample))
    BY DEF SweepIsTickwise, LoadedTicks
<1> DEFINE T == LoadedTicks(sample)
           over == [x \in Int |-> Later(LoadAt(x) - Unit, 0)]
<1>1. \A x \in Int : over[x] = Later(LoadAt(x) - Unit, 0)
    OBVIOUS
<1> HIDE DEF over
<1>2. CASE Recoverable(sample) = {}
    <2>1. T = {}
        BY <1>2 DEF LoadedTicks
    <2>2. Overloads(over, T)
        BY <2>1 DEF Overloads
    <2>3. MapThenSumSet(LAMBDA x : Later(LoadAt(x) - Unit, 0), LoadedTicks(sample)) = SumOf(over, T)
        BY <2>2, OverloadIsSum
    <2>4. Numbers(over, {})
        BY DEF Numbers
    <2>5. SumOf(over, {}) = 0
        BY <2>4, SumOfFacts, FS_EmptySet
    <2>6. OverloadArea(sample) = 0
        BY <1>2 DEF OverloadArea
    <2> HIDE DEF T
    <2> QED
        BY <2>1, <2>3, <2>5, <2>6
<1>3. CASE Recoverable(sample) # {}
    <2>1. OverloadArea(sample) = SumOf(over, T) /\ T \in SUBSET Int
        BY <1>1, <1>3, SweepMeasures
    <2>2. Overloads(over, T)
        BY <1>1, <2>1 DEF Overloads
    <2>3. MapThenSumSet(LAMBDA x : Later(LoadAt(x) - Unit, 0), LoadedTicks(sample)) = SumOf(over, T)
        BY <2>2, OverloadIsSum
    <2> QED
        BY <2>1, <2>3
<1> QED
    BY <1>2, <1>3

HorizonStep(n, region) == n + Later(Span(region), 0)

(* Adding up the time that is left.                                        *)
HorizonFoldRuns(s, h) ==
    /\ h \in [0 .. Len(s.regions) -> Nat]
    /\ h[0] = 0
    /\ \A k \in 1 .. Len(s.regions) : h[k] = HorizonStep(h[k - 1], s.regions[k])
    /\ RemainingHorizon(s) = h[Len(s.regions)]

LEMMA HorizonFold ==
    ASSUME NEW s, FutureIsRead(s)
    PROVE  \E h : HorizonFoldRuns(s, h)
<1> DEFINE list == s.regions
           n == Len(list)
           G == Nat
           base == 0
           step == [ky \in (1 .. n) \X G |-> HorizonStep(ky[2], list[ky[1]])]
           IsFold(it) == it = [r \in SUBSET (1 .. n) |->
                                  IF r = {} THEN base ELSE HorizonStep(it[r \ {Max(r)}], list[Max(r)])]
           iter == CHOOSE it : IsFold(it)
<1>1. n \in Nat /\ DOMAIN list = 1 .. n /\ \A k \in 1 .. n : list[k] \in [start : Int, end : Int]
    <2>1. list \in Seq([start : Int, end : Int])
        BY DEF FutureIsRead
    <2> HIDE DEF list
    <2> QED
        BY <2>1, ListFacts
<1>2. base \in G
    OBVIOUS
<1>3. \A k \in 1 .. n : \A y \in G : HorizonStep(y, list[k]) \in G
    <2> SUFFICES ASSUME NEW k \in 1 .. n, NEW y \in G PROVE HorizonStep(y, list[k]) \in G
        OBVIOUS
    <2>1. list[k].start \in Int /\ list[k].end \in Int
        BY <1>1
    <2> HIDE DEF list
    <2> QED
        BY <2>1 DEF HorizonStep, Span, Later
<1>4. step \in [(1 .. n) \X G -> G]
    <2> HIDE DEF n, G, list
    <2> SUFFICES ASSUME NEW ky \in (1 .. n) \X G PROVE step[ky] \in G
        OBVIOUS
    <2>1. step[ky] = HorizonStep(ky[2], list[ky[1]]) /\ ky[1] \in 1 .. n /\ ky[2] \in G
        OBVIOUS
    <2> QED
        BY <1>3, <2>1
<1>5. \E it : IsFold(it)
    <2> HIDE DEF G, n, list, base
    <2>1. PICK g \in [SUBSET (1 .. n) -> G] : FoldsTo(n, base, step, g)
        <3> HIDE DEF step
        <3> QED
            BY <1>1, <1>2, <1>4, ListFoldExists
    <2>2. ASSUME NEW r \in SUBSET (1 .. n), r # {}
          PROVE  step[<<Max(r), g[r \ {Max(r)}]>>] = HorizonStep(g[r \ {Max(r)}], list[Max(r)])
        <3>1. Max(r) \in 1 .. n /\ g[r \ {Max(r)}] \in G
            BY <1>1, <2>2, MaxPicks
        <3> QED
            BY <3>1
    <2>3. IsFold(g)
        <3>1. \A r \in SUBSET (1 .. n) :
                 g[r] = IF r = {} THEN base ELSE step[<<Max(r), g[r \ {Max(r)}]>>]
            BY <2>1 DEF FoldsTo
        <3> HIDE DEF step
        <3>2. \A r \in SUBSET (1 .. n) :
                 g[r] = IF r = {} THEN base ELSE HorizonStep(g[r \ {Max(r)}], list[Max(r)])
            BY <2>2, <3>1
        <3> QED
            BY <3>2
    <2> HIDE DEF IsFold
    <2> QED
        BY <2>3
<1>6. IsFold(iter)
    <2> HIDE DEF IsFold
    <2> QED
        BY <1>5
<1>7. RemainingHorizon(s) = iter[1 .. n]
    BY <1>1 DEF RemainingHorizon, HorizonStep, FoldLeft, MapThenFoldSet
<1> HIDE DEF iter, G, n, list, base
<1>8. iter[{}] = base
    <2>1. {} \in SUBSET (1 .. n)
        OBVIOUS
    <2> QED
        BY <1>6, <2>1, Zenon
<1>9. \A k \in 1 .. n : iter[1 .. k] = HorizonStep(iter[1 .. k - 1], list[k])
    <2> SUFFICES ASSUME NEW k \in 1 .. n PROVE iter[1 .. k] = HorizonStep(iter[1 .. k - 1], list[k])
        OBVIOUS
    <2>1. 1 .. k \in SUBSET (1 .. n) /\ 1 .. k # {} /\ Max(1 .. k) = k /\ (1 .. k) \ {k} = 1 .. k - 1
        BY <1>1, PrefixFacts
    <2>2. iter[1 .. k] = HorizonStep(iter[(1 .. k) \ {Max(1 .. k)}], list[Max(1 .. k)])
        BY <1>6, <2>1, Zenon
    <2> QED
        BY <2>1, <2>2
<1> HIDE DEF IsFold
<1>10. \A k \in 1 .. n : \A y \in G : step[<<k, y>>] = HorizonStep(y, list[k])
    BY DEF step
<1> HIDE DEF step
<1>11. PICK h \in [0 .. n -> G] : ValuesOf(n, base, step, iter, h)
    <2>1. Steps(n, G, step, iter)
        BY <1>9, <1>10 DEF Steps
    <2> QED
        BY <1>1, <1>2, <1>4, <1>8, <2>1, FoldSteps
<1>12. \A k \in 1 .. n : h[k] = HorizonStep(h[k - 1], list[k])
    <2> SUFFICES ASSUME NEW k \in 1 .. n PROVE h[k] = HorizonStep(h[k - 1], list[k])
        OBVIOUS
    <2>1. k - 1 \in 0 .. n
        BY <1>1
    <2> QED
        BY <1>10, <1>11, <2>1 DEF ValuesOf
<1>13. RemainingHorizon(s) = h[n]
    BY <1>7, <1>11, Zenon DEF ValuesOf
<1>14. h[0] = base
    BY <1>11, Zenon DEF ValuesOf
<1> QED
    BY <1>11, <1>12, <1>13, <1>14, Zenon DEF G, n, list, base, HorizonFoldRuns

LEMMA HorizonIsNumber ==
    ASSUME NEW s, FutureIsRead(s)
    PROVE  RemainingHorizon(s) \in Nat
<1>1. PICK h : HorizonFoldRuns(s, h)
    BY HorizonFold
<1>2. Len(s.regions) \in Nat /\ Len(s.regions) \in 0 .. Len(s.regions)
    BY RegionsAreRead
<1>3. h \in [0 .. Len(s.regions) -> Nat] /\ RemainingHorizon(s) = h[Len(s.regions)]
    BY <1>1 DEF HorizonFoldRuns
<1> QED
    BY <1>2, <1>3

LEMMA ReserveIsSum ==
    ASSUME NEW s, NEW f, f = [t \in Recoverable(s) |-> Unit - Density(s, t)]
    PROVE  MapThenSumSet(LAMBDA t : Unit - Density(s, t), Recoverable(s)) = SumOf(f, Recoverable(s))
<1> DEFINE S == Recoverable(s)
           F(t) == Unit - Density(s, t)
           IsFold(g) == g = [r \in SUBSET S |-> IF r = {} THEN 0 ELSE F(Pick(r)) + g[r \ {Pick(r)}]]
           Folds(g) == g = [r \in SUBSET S |-> IF r = {} THEN 0 ELSE f[Pick(r)] + g[r \ {Pick(r)}]]
           total == MapThenSumSet(LAMBDA t : Unit - Density(s, t), S)
<1>1. total = (CHOOSE g : IsFold(g))[S]
    BY DEF MapThenSumSet, MapThenFoldSet, Pick
<1>2. SumOf(f, S) = (CHOOSE g : Folds(g))[S]
    BY DEF SumOf, MapThenSumSet, MapThenFoldSet, Pick
<1>3. \A r \in SUBSET S : r # {} => f[Pick(r)] = F(Pick(r))
    <2> HIDE DEF F
    <2>1. f = [t \in S |-> F(t)]
        BY DEF F
    <2> HIDE DEF S
    <2> QED
        BY <2>1 DEF Pick
<1> HIDE DEF F
<1>4. \A g : IsFold(g) <=> Folds(g)
    BY <1>3
<1>5. (CHOOSE g : IsFold(g)) = (CHOOSE g : Folds(g))
    <2> HIDE DEF IsFold, Folds
    <2> QED
        BY <1>4, Zenon
<1> HIDE DEF IsFold, Folds, total
<1>6. total = SumOf(f, S)
    BY <1>1, <1>2, <1>5, Zenon
<1> QED
    BY <1>6, Zenon DEF S, total

LEMMA AreaIsNumber ==
    ASSUME FutureIsRead(sample)
    PROVE  OverloadArea(sample) \in Nat
<1> DEFINE T == LoadedTicks(sample)
           over == [x \in Int |-> Later(LoadAt(x) - Unit, 0)]
<1>1. \A x \in Int : over[x] = Later(LoadAt(x) - Unit, 0)
    OBVIOUS
<1> HIDE DEF over
<1>2. CASE Recoverable(sample) = {}
    BY <1>2 DEF OverloadArea
<1>3. CASE Recoverable(sample) # {}
    <2>1. /\ OverloadArea(sample) = SumOf(over, T) /\ T \in SUBSET Int /\ IsFiniteSet(T)
          /\ Numbers(over, Int)
        BY <1>1, <1>3, SweepMeasures
    <2> HIDE DEF T
    <2>2. Naturals(over, T)
        <3> SUFFICES ASSUME NEW x \in T PROVE over[x] \in Nat
            BY DEF Naturals
        <3>1. x \in Int /\ over[x] \in Int /\ over[x] = Later(LoadAt(x) - Unit, 0)
            BY <1>1, <2>1 DEF Numbers
        <3> DEFINE y == LoadAt(x) - Unit
        <3>2. over[x] = IF y >= 0 THEN y ELSE 0
            BY <3>1 DEF Later
        <3> HIDE DEF y
        <3> QED
            BY <3>1, <3>2
    <2>3. SumOf(over, T) \in Nat
        BY <2>1, <2>2, SumsOfNaturals
    <2> QED
        BY <2>1, <2>3
<1> QED
    BY <1>2, <1>3

LEMMA ReserveFacts ==
    ASSUME NEW s, FutureIsRead(s)
    PROVE  0 <= ReserveTerm(s)[1] /\ ReserveTerm(s)[1] < ReserveTerm(s)[2]
<1> DEFINE R == Recoverable(s)
           f == [t \in R |-> Unit - Density(s, t)]
           e == [t \in R |-> Unit]
           sum == SumOf(f, R)
<1>1. IsFiniteSet(R)
    BY RecoverableAreTasks
<1>2. CASE R = {}
    <2>1. ReserveTerm(s) = <<0, 1>>
        BY <1>2, Zenon DEF ReserveTerm
    <2> QED
        BY <2>1
<1>3. CASE R # {}
    <2>1. \A t \in R : f[t] \in Nat /\ e[t] = Unit /\ f[t] < e[t]
        <3> SUFFICES ASSUME NEW t \in R PROVE Unit - Density(s, t) \in Nat /\ Unit - Density(s, t) < Unit
            OBVIOUS
        <3>1. Density(s, t) \in Nat \ {0} /\ Density(s, t) <= Unit
            BY EventsOfTask DEF LoadIsRead
        <3> QED
            BY <3>1, UnitIsPositive
    <2>2. ReserveTerm(s) = <<sum, Unit * Cardinality(R)>>
        <3>1. MapThenSumSet(LAMBDA t : Unit - Density(s, t), Recoverable(s)) = sum
            BY ReserveIsSum
        <3> HIDE DEF sum
        <3> QED
            BY <1>3, <3>1 DEF ReserveTerm
    <2> HIDE DEF f, e, R
    <2>3. Naturals(f, R) /\ Numbers(f, R) /\ Numbers(e, R) /\ \A t \in R : f[t] <= e[t]
        BY <2>1, UnitIsPositive DEF Naturals, Numbers
    <2>4. sum \in Nat
        BY <1>1, <2>3, SumsOfNaturals
    <2>5. SumOf(f, R) < SumOf(e, R)
        <3>1. \E t \in R : f[t] < e[t]
            BY <1>3, <2>1
        <3> QED
            BY <1>1, <2>3, <3>1, SumOfCompare
    <2>6. SumOf(e, R) = Unit * Cardinality(R)
        BY <1>1, <2>1, SumOfConstant, UnitIsPositive
    <2>7. ReserveTerm(s)[1] = sum /\ ReserveTerm(s)[2] = Unit * Cardinality(R)
        BY <2>2
    <2> QED
        BY <2>4, <2>5, <2>6, <2>7
<1> QED
    BY <1>2, <1>3

LEMMA SoftFacts ==
    ASSUME NEW s, FutureIsRead(s)
    PROVE  0 <= SoftTerm(s)[1] /\ SoftTerm(s)[1] <= SoftTerm(s)[2]
<1> DEFINE S == s.tasks \ Remaining(s)
           sum == SumOf(s.soft, S)
           all == Cardinality(s.tasks)
<1>1. IsFiniteSet(s.tasks) /\ S \in SUBSET s.tasks /\ \A t \in s.tasks : s.soft[t] \in Int
    BY DEF FutureIsRead
<1>2. sum \in Int
    <2>1. IsFiniteSet(S) /\ Numbers(s.soft, S)
        BY <1>1, FS_Subset DEF Numbers
    <2> HIDE DEF S
    <2> QED
        BY <2>1, SumOfFacts
<1>3. all \in Nat
    BY <1>1, FS_CardinalityType
<1>4. SoftTerm(s) = IF all = 0 THEN <<0, 1>> ELSE <<Later(0, Earlier(sum, all)), all>>
    BY DEF SoftTerm, SumOf
<1> HIDE DEF sum, all
<1>5. CASE all = 0
    BY <1>4, <1>5
<1>6. CASE all # 0
    <2> DEFINE v == Later(0, Earlier(sum, all))
    <2>1. v \in Int /\ 0 <= v /\ v <= all
        BY <1>2, <1>3 DEF Later, Earlier
    <2>2. SoftTerm(s)[1] = v /\ SoftTerm(s)[2] = all
        BY <1>4, <1>6
    <2> HIDE DEF v
    <2> QED
        BY <2>1, <2>2
<1> QED
    BY <1>5, <1>6

LEMMA TermsAreAlwaysFractions ==
    ASSUME About("future") => FutureIsRead(sample)
    PROVE  TermsAreFractions
<1> DEFINE density == DensityTerm(sample)
           area == OverloadArea(sample)
           left == RemainingHorizon(sample)
           room == Unit * left
           Right == /\ 0 < density[1] /\ density[1] <= density[2]
                    /\ left > 0 => (density[1] = density[2] <=> area = 0)
<1> SUFFICES ASSUME About("future"), FutureIsRead(sample)
             PROVE  Right
    BY ReserveFacts, SoftFacts DEF TermsAreFractions
<1>1. area \in Nat /\ left \in Nat
    BY AreaIsNumber, HorizonIsNumber
<1>2. room \in Nat /\ (left > 0 => room > 0)
    <2>1. \A x, y \in Nat : x * y \in Nat /\ (x > 0 /\ y > 0 => x * y > 0)
        OBVIOUS
    <2> HIDE DEF left
    <2> QED
        BY <1>1, <2>1, UnitIsPositive
<1>3. density = IF room = 0 \/ Recoverable(sample) = {} THEN <<1, 1>> ELSE <<room, room + area>>
    BY DEF DensityTerm
<1>4. Recoverable(sample) = {} => area = 0
    BY DEF OverloadArea
<1> HIDE DEF density, area, left, room
<1>5. CASE room = 0 \/ Recoverable(sample) = {}
    <2>1. density[1] = 1 /\ density[2] = 1
        BY <1>3, <1>5
    <2> QED
        BY <1>1, <1>2, <1>4, <1>5, <2>1
<1>6. CASE ~ (room = 0 \/ Recoverable(sample) = {})
    <2>1. density[1] = room /\ density[2] = room + area
        BY <1>3, <1>6
    <2> QED
        BY <1>1, <1>2, <1>6, <2>1
<1> QED
    BY <1>5, <1>6

(* The measures of a state of the search and of a result mean what they    *)
(* say (future_flexibility.rs, metrics.rs): a task is recoverable exactly  *)
(* when some start fits it, the sweep over window boundaries counts the    *)
(* overload tick by tick, the terms of the figure of merit stay fractions  *)
(* of one; and of a result the stairs, the gaps, the density and the score *)
(* tell what was scheduled.  For every sample that a run can come by.      *)
THEOREM MeasuresAlwaysMeanWhatTheySay ==
    ASSUME About("future") => FutureIsRead(sample),
           About("result") => ResultIsRead(sample)
    PROVE  MeasuresMeanWhatTheySay
    BY RecoverableAlwaysFits, SweepIsAlwaysTickwise, TermsAreAlwaysFractions,
       StairsAlwaysTell, GapsAlwaysFill, OnlyThePerfectScoreEver, DensityAlwaysCompares
       DEF MeasuresMeanWhatTheySay
=============================================================================
