------------------------ MODULE RuleEvaluationProofs ------------------------
(***************************************************************************)
(* Proofs about the evaluation of rules, for any equipment, samples,       *)
(* measures, rules, life times and limits the schema admits: a table cut   *)
(* to its limit keeps the worst rows, and for windows of at most a day the *)
(* indexes that are searched cover the window, a rule is breached where    *)
(* the samples of the window say so, and the value a breach reports is the *)
(* worst there is.  What a fact computes over a finite set of samples is   *)
(* found by induction on finite sets.                                      *)
(***************************************************************************)
EXTENDS RuleEvaluation, FiniteSetTheorems, TLAPS

(* A nonempty set of subsets of a finite set has a minimal member: the     *)
(* induction on finite sets the lemmas below rest on.                      *)
LEMMA FiniteMinimal ==
  ASSUME NEW S, IsFiniteSet(S), NEW G, G \subseteq SUBSET S, G # {}
  PROVE  \E T \in G : \A U \in G : U \subseteq T => U = T
<1> DEFINE R == StrictSubsetOrdering(S)
<1>1. FiniteSubsetsOf(S) = SUBSET S
  BY FS_FiniteSubsetsOfFinite
<1>2. IsWellFoundedOn(R, SUBSET S)
  BY <1>1, FS_StrictSubsetOrderingWellFounded
<1>3. PICK T \in G : \A U \in G : ~ (<<U, T>> \in R)
  <2> HIDE DEF R
  <2> QED
    BY <1>2, WFMin
<1>4. ASSUME NEW U \in G, U \subseteq T, U # T
      PROVE  FALSE
  <2>1. <<U, T>> \in (SUBSET S) \X (SUBSET S)
    OBVIOUS
  <2>2. <<U, T>> \in R
    BY <1>4, <2>1 DEF StrictSubsetOrdering
  <2> QED
    BY <1>3, <2>2
<1> QED
  BY <1>4

(* The image of a finite set is finite.                                    *)
LEMMA FiniteImage ==
  ASSUME NEW S, IsFiniteSet(S), NEW f
  PROVE  IsFiniteSet({f[x] : x \in S})
<1> DEFINE T == {f[x] : x \in S}
           g == [x \in S |-> f[x]]
<1>1. g \in Surjection(S, T)
  BY DEF Surjection
<1> QED
  BY <1>1, FS_Surjection

(* So is the image of two.                                                 *)
LEMMA FiniteImage2 ==
  ASSUME NEW S, IsFiniteSet(S), NEW T, IsFiniteSet(T), NEW f
  PROVE  IsFiniteSet({f[x][y] : x \in S, y \in T})
<1> DEFINE g == [x \in S |-> {f[x][y] : y \in T}]
           G == {g[x] : x \in S}
           H == {f[x][y] : x \in S, y \in T}
<1> SUFFICES IsFiniteSet(H)
  OBVIOUS
<1>1. IsFiniteSet(G)
  <2> HIDE DEF g
  <2> QED
    BY FiniteImage
<1>2. \A x \in S : IsFiniteSet({f[x][y] : y \in T})
  BY FiniteImage
<1>3. \A U \in G : IsFiniteSet(U)
  BY <1>2
<1>4. IsFiniteSet(UNION G)
  <2> HIDE DEF G
  <2> QED
    BY <1>1, <1>3, FS_UNION
<1>5. UNION G = H
  OBVIOUS
<1> HIDE DEF G, H
<1> QED
  BY <1>4, <1>5

(* R orders S strictly.                                                    *)
StrictOn(R, S) ==
  /\ \A x \in S : <<x, x>> \notin R
  /\ \A x, y, z \in S : <<x, y>> \in R /\ <<y, z>> \in R => <<x, z>> \in R

(* A strict order has a last element on a finite set.                      *)
LEMMA LastExists ==
  ASSUME NEW S, IsFiniteSet(S), S # {}, NEW R, StrictOn(R, S)
  PROVE  \E z \in S : \A x \in S : <<z, x>> \notin R
<1> DEFINE Has(T) == \E z \in T : \A x \in T : <<z, x>> \notin R
           G == {T \in SUBSET S : T # {} /\ ~Has(T)}
<1>1. SUFFICES ASSUME G # {}
               PROVE  FALSE
  OBVIOUS
<1>2. PICK T \in G : \A U \in G : U \subseteq T => U = T
  <2>1. G \subseteq SUBSET S
    OBVIOUS
  <2> HIDE DEF G
  <2> QED
    BY <1>1, <2>1, FiniteMinimal
<1>3. PICK x \in T : TRUE
  BY <1>2
<1>4. CASE T = {x}
  BY <1>2, <1>4 DEF StrictOn
<1>5. CASE T # {x}
  <2>1. T \ {x} # {} /\ T \ {x} # T /\ T \ {x} \in SUBSET S
    BY <1>2, <1>3, <1>5
  <2>2. Has(T \ {x})
    BY <1>2, <2>1
  <2>3. PICK z \in T \ {x} : \A y \in T \ {x} : <<z, y>> \notin R
    BY <2>2
  <2>4. CASE <<z, x>> \notin R
    BY <1>2, <2>3, <2>4
  <2>5. CASE <<z, x>> \in R
    <3>1. ASSUME NEW y \in T, <<x, y>> \in R
          PROVE  FALSE
      <4>1. x \in S /\ y \in S /\ z \in S
        BY <1>2
      <4>2. y # x /\ <<z, y>> \in R
        BY <2>5, <3>1, <4>1 DEF StrictOn
      <4> QED
        BY <2>3, <4>2
    <3> QED
      BY <1>2, <1>3, <3>1
  <2> QED
    BY <2>4, <2>5
<1> QED
  BY <1>4, <1>5

(* A finite set can be listed in any strict order: order_rows has a        *)
(* result.                                                                 *)
LEMMA SortedExists ==
  ASSUME NEW S, IsFiniteSet(S), NEW R, StrictOn(R, S)
  PROVE  \E s \in SetToSeqs(S) :
           \A i, j \in DOMAIN s : i < j => <<s[j], s[i]>> \notin R
<1> DEFINE Sorted(s) == \A i, j \in DOMAIN s : i < j => <<s[j], s[i]>> \notin R
           G == {T \in SUBSET S : ~ \E s \in SetToSeqs(T) : Sorted(s)}
<1>1. SUFFICES ASSUME G # {}
               PROVE  FALSE
  OBVIOUS
<1>2. PICK T \in G : \A U \in G : U \subseteq T => U = T
  <2>1. G \subseteq SUBSET S
    OBVIOUS
  <2> HIDE DEF G
  <2> QED
    BY <1>1, <2>1, FiniteMinimal
<1>3. T \in SUBSET S /\ IsFiniteSet(T)
  BY <1>2, FS_Subset
<1>4. T # {}
  <2>1. ASSUME T = {}
        PROVE  FALSE
    <3>1. Cardinality(T) = 0 /\ 1..0 = {}
      BY <2>1, FS_EmptySet
    <3>2. [i \in {} |-> i] \in SetToSeqs(T)
      BY <3>1 DEF SetToSeqs
    <3>3. Sorted([i \in {} |-> i])
      OBVIOUS
    <3> QED
      BY <1>2, <3>2, <3>3
  <2> QED
    BY <2>1
<1>5. StrictOn(R, T)
  BY <1>3 DEF StrictOn
<1>6. PICK z \in T : \A x \in T : <<z, x>> \notin R
  BY <1>3, <1>4, <1>5, LastExists
<1> DEFINE U == T \ {z}
           n == Cardinality(U)
<1>7. U \in SUBSET S /\ U \subseteq T /\ U # T
  BY <1>3
<1>8. PICK s \in SetToSeqs(U) : Sorted(s)
  BY <1>2, <1>7
<1>9. IsFiniteSet(U) /\ n \in Nat /\ Cardinality(T) = n + 1
  <2>1. IsFiniteSet(U) /\ n = Cardinality(T) - 1
    BY <1>3, FS_RemoveElement
  <2>2. n \in Nat /\ Cardinality(T) \in Nat
    BY <1>3, <2>1, FS_CardinalityType
  <2> QED
    BY <2>1, <2>2
<1>10. /\ s \in [1..n -> U]
       /\ \A i, j \in 1..n : i # j => s[i] # s[j]
  BY <1>8 DEF SetToSeqs
<1> DEFINE t == [i \in 1..(n + 1) |-> IF i = n + 1 THEN z ELSE s[i]]
<1> HIDE DEF n
<1>11. \A i \in 1..(n + 1) : i = n + 1 \/ i \in 1..n
  BY <1>9
<1>12. t[n + 1] = z /\ \A i \in 1..n : t[i] = s[i] /\ t[i] \in U
  BY <1>9, <1>10
<1>13. t \in SetToSeqs(T)
  <2>1. t \in [1..(n + 1) -> T]
    BY <1>11, <1>12
  <2>2. \A i, j \in 1..(n + 1) : i # j => t[i] # t[j]
    BY <1>10, <1>11, <1>12
  <2> QED
    BY <1>9, <2>1, <2>2 DEF SetToSeqs
<1>14. Sorted(t)
  <2> SUFFICES ASSUME NEW i \in 1..(n + 1), NEW j \in 1..(n + 1), i < j
               PROVE  <<t[j], t[i]>> \notin R
    OBVIOUS
  <2>1. i \in 1..n
    BY <1>9
  <2>2. CASE j = n + 1
    BY <1>6, <1>12, <2>1, <2>2
  <2>3. CASE j \in 1..n
    BY <1>8, <1>10, <1>12, <2>1, <2>3
  <2> QED
    BY <1>11, <2>2, <2>3
<1> QED
  BY <1>2, <1>13, <1>14

(* Max and Min of finitely many numbers.                                   *)
LEMMA MaxMinExist ==
  ASSUME NEW S, IsFiniteSet(S), S # {}, S \subseteq Int
  PROVE  /\ Max(S) \in S /\ \A y \in S : y <= Max(S)
         /\ Min(S) \in S /\ \A y \in S : Min(S) <= y
<1> DEFINE Up == {p \in Int \X Int : p[1] < p[2]}
           Down == {p \in Int \X Int : p[2] < p[1]}
<1>1. ASSUME NEW x \in Int, NEW y \in Int
      PROVE  (<<x, y>> \in Up <=> x < y) /\ (<<x, y>> \in Down <=> y < x)
  <2>1. <<x, y>> \in Int \X Int /\ <<x, y>>[1] = x /\ <<x, y>>[2] = y
    OBVIOUS
  <2> QED
    BY <2>1
<1> HIDE DEF Up, Down
<1>2. StrictOn(Up, S) /\ StrictOn(Down, S)
  BY <1>1 DEF StrictOn
<1>3. PICK x \in S : \A y \in S : <<x, y>> \notin Up
  BY <1>2, LastExists
<1>4. PICK z \in S : \A y \in S : <<z, y>> \notin Down
  BY <1>2, LastExists
<1>5. ASSUME NEW y \in S
      PROVE  y <= x /\ x >= y /\ z <= y
  <2>1. x \in Int /\ y \in Int /\ z \in Int
    OBVIOUS
  <2>2. ~(x < y) /\ ~(y < z)
    BY <1>1, <1>3, <1>4, <2>1
  <2> QED
    BY <2>1, <2>2
<1>6. Max(S) \in S /\ \A y \in S : Max(S) >= y
  BY <1>5 DEF Max
<1>7. Min(S) \in S /\ \A y \in S : Min(S) =< y
  BY <1>5 DEF Min
<1> QED
  BY <1>6, <1>7

(* Counting up to N, as a fact about sets.                                 *)
LEMMA UpTo ==
  ASSUME NEW N \in Nat, NEW P, 0 \in P,
         \A n \in Nat : n < N /\ n \in P => n + 1 \in P
  PROVE  N \in P
<1> DEFINE Bad == {n \in 0..N : n \notin P}
<1>1. SUFFICES ASSUME Bad # {}
               PROVE  FALSE
  OBVIOUS
<1>2. IsFiniteSet(0..N)
  BY FS_Interval
<1>3. Bad \in SUBSET (0..N) /\ Bad \subseteq Int
  OBVIOUS
<1>4. IsFiniteSet(Bad)
  BY <1>2, <1>3, FS_Subset
<1> DEFINE m == Min(Bad)
<1>5. m \in Bad /\ \A y \in Bad : m <= y
  <2> HIDE DEF Bad
  <2> QED
    BY <1>1, <1>3, <1>4, MaxMinExist
<1> HIDE DEF m
<1>6. m \in Nat /\ m # 0 /\ m <= N /\ m \notin P
  BY <1>5
<1>7. m - 1 \in Nat /\ m - 1 < N /\ m - 1 \in 0..N /\ m - 1 \notin Bad
  BY <1>5, <1>6
<1> QED
  BY <1>6, <1>7

(* g sums f over the subsets of S, taking one element after the other.     *)
Sums(g, f, S) ==
  g = [s \in SUBSET S |->
         IF s = {} THEN 0
         ELSE f[CHOOSE x \in s : TRUE] + g[s \ {CHOOSE x \in s : TRUE}]]

(* That equation has a solution.                                           *)
LEMMA SumSolvable ==
  ASSUME NEW S, IsFiniteSet(S), NEW f
  PROVE  \E g : Sums(g, f, S)
<1> DEFINE Pick(s) == CHOOSE x \in s : TRUE
           Def(g, s) == IF s = {} THEN 0 ELSE f[Pick(s)] + g[s \ {Pick(s)}]
           D(n) == {s \in SUBSET S : Cardinality(s) <= n}
           N == Cardinality(S)
           P == {n \in Nat : \E g : g = [s \in D(n) |-> Def(g, s)]}
<1>2. \A s \in SUBSET S : /\ IsFiniteSet(s) /\ Cardinality(s) \in Nat
                          /\ Cardinality(s) <= N
                          /\ Cardinality(s) = 0 <=> s = {}
  BY FS_Subset, FS_CardinalityType, FS_EmptySet
<1>3. N \in Nat
  BY FS_CardinalityType
<1>4. ASSUME NEW s \in SUBSET S, s # {}
      PROVE  /\ Pick(s) \in s /\ s \ {Pick(s)} \in SUBSET S
             /\ Cardinality(s \ {Pick(s)}) = Cardinality(s) - 1
  BY <1>2, <1>4, FS_RemoveElement
<1>5. 0 \in P
  <2> DEFINE g == [s \in D(0) |-> 0]
  <2>1. \A s \in D(0) : s = {}
    BY <1>2
  <2>2. g = [s \in D(0) |-> Def(g, s)]
    BY <2>1
  <2> QED
    BY <2>2
<1>6. ASSUME NEW n \in Nat, n \in P
      PROVE  n + 1 \in P
  <2>1. PICK g : g = [s \in D(n) |-> Def(g, s)]
    BY <1>6
  <2> DEFINE h == [s \in D(n + 1) |-> IF s \in D(n) THEN g[s] ELSE Def(g, s)]
  <2>2. ASSUME NEW s \in D(n + 1)
        PROVE  h[s] = Def(h, s)
    <3>1. h[s] = Def(g, s)
      BY <2>1
    <3>2. CASE s = {}
      BY <3>1, <3>2
    <3>3. CASE s # {}
      <4> DEFINE u == s \ {Pick(s)}
      <4>1. u \in D(n) /\ u \in D(n + 1)
        BY <1>2, <1>4, <3>3
      <4>2. h[u] = g[u]
        BY <4>1
      <4> QED
        BY <3>1, <3>3, <4>2
    <3> QED
      BY <3>2, <3>3
  <2>3. h = [s \in D(n + 1) |-> h[s]]
    OBVIOUS
  <2> HIDE DEF h, Def
  <2>4. h = [s \in D(n + 1) |-> Def(h, s)]
    BY <2>2, <2>3
  <2>5. \E w : w = [s \in D(n + 1) |-> Def(w, s)]
    BY <2>4
  <2>6. n + 1 \in Nat
    OBVIOUS
  <2> HIDE DEF D
  <2> QED
    BY <2>5, <2>6, Zenon
<1>7. N \in P
  <2> HIDE DEF P, N
  <2> QED
    BY <1>3, <1>5, <1>6, UpTo
<1>8. D(N) = SUBSET S
  BY <1>2
<1>9. \E g : g = [s \in SUBSET S |-> Def(g, s)]
  BY <1>7, <1>8
<1> QED
  BY <1>9 DEF Sums

(* it adds up what f says of the members of the subsets of S.              *)
AddsUp(it, f, S) ==
  /\ it[{}] = 0
  /\ \A s \in SUBSET S : s # {} =>
       it[s] = f[CHOOSE x \in s : TRUE] + it[s \ {CHOOSE x \in s : TRUE}]

(* So does MapThenSumSet, with the values of samples ...                   *)
LEMMA SumOfValues ==
  ASSUME NEW S, IsFiniteSet(S)
  PROVE  \E it : /\ MapThenSumSet(LAMBDA r : r.value, S) = it[S]
                 /\ AddsUp(it, [r \in S |-> r.value], S)
<1> DEFINE Pick(s) == CHOOSE x \in s : TRUE
           f == [r \in S |-> r.value]
           Def(g, s) == IF s = {} THEN 0
                        ELSE Pick(s).value + g[s \ {Pick(s)}]
           it == CHOOSE g : g = [s \in SUBSET S |-> Def(g, s)]
<1>1. MapThenSumSet(LAMBDA r : r.value, S) = it[S]
  BY DEF MapThenSumSet, MapThenFoldSet
<1>2. PICK g : Sums(g, f, S)
  <2> HIDE DEF f
  <2> QED
    BY SumSolvable
<1>3. \A s \in SUBSET S : s # {} => Pick(s) \in S /\ f[Pick(s)] = Pick(s).value
  OBVIOUS
<1>4. g = [s \in SUBSET S |-> Def(g, s)]
  <2> HIDE DEF f
  <2>1. \A s \in SUBSET S : g[s] = Def(g, s)
    BY <1>2, <1>3 DEF Sums
  <2>2. g = [s \in SUBSET S |-> g[s]]
    BY <1>2 DEF Sums
  <2> HIDE DEF Def
  <2> QED
    BY <2>1, <2>2
<1>5. it = [s \in SUBSET S |-> Def(it, s)]
  BY <1>4
<1> HIDE DEF it, f
<1>6. \A s \in SUBSET S : it[s] = Def(it, s)
  BY <1>5
<1>7. AddsUp(it, f, S)
  BY <1>3, <1>6 DEF AddsUp
<1> QED
  BY <1>1, <1>7 DEF f

(* ... and with what they are above a threshold.                           *)
LEMMA SumOfExcess ==
  ASSUME NEW S, IsFiniteSet(S), NEW v
  PROVE  \E it : /\ MapThenSumSet(LAMBDA r : r.value - v, S) = it[S]
                 /\ AddsUp(it, [r \in S |-> r.value - v], S)
<1> DEFINE Pick(s) == CHOOSE x \in s : TRUE
           f == [r \in S |-> r.value - v]
           Def(g, s) == IF s = {} THEN 0
                        ELSE (Pick(s).value - v) + g[s \ {Pick(s)}]
           it == CHOOSE g : g = [s \in SUBSET S |-> Def(g, s)]
<1>1. MapThenSumSet(LAMBDA r : r.value - v, S) = it[S]
  BY DEF MapThenSumSet, MapThenFoldSet
<1>2. PICK g : Sums(g, f, S)
  <2> HIDE DEF f
  <2> QED
    BY SumSolvable
<1>3. \A s \in SUBSET S :
        s # {} => Pick(s) \in S /\ f[Pick(s)] = Pick(s).value - v
  OBVIOUS
<1>4. g = [s \in SUBSET S |-> Def(g, s)]
  <2> HIDE DEF f
  <2>1. \A s \in SUBSET S : g[s] = Def(g, s)
    BY <1>2, <1>3 DEF Sums
  <2>2. g = [s \in SUBSET S |-> g[s]]
    BY <1>2 DEF Sums
  <2> HIDE DEF Def
  <2> QED
    BY <2>1, <2>2
<1>5. it = [s \in SUBSET S |-> Def(it, s)]
  BY <1>4
<1> HIDE DEF it, f
<1>6. \A s \in SUBSET S : it[s] = Def(it, s)
  BY <1>5
<1>7. AddsUp(it, f, S)
  BY <1>3, <1>6 DEF AddsUp
<1> QED
  BY <1>1, <1>7 DEF f

(* Whatever holds of the empty set, and of a set if it holds without one   *)
(* of its elements, holds of a finite set; G are the subsets it holds of.  *)
LEMMA OneByOne ==
  ASSUME NEW S, IsFiniteSet(S), NEW G, {} \in G,
         \A s \in SUBSET S :
           s # {} /\ s \ {CHOOSE x \in s : TRUE} \in G => s \in G
  PROVE  S \in G
<1> DEFINE B == (SUBSET S) \ G
<1>1. SUFFICES ASSUME S \notin G
               PROVE  FALSE
  OBVIOUS
<1>2. PICK T \in B : \A U \in B : U \subseteq T => U = T
  <2>1. B \subseteq SUBSET S /\ B # {}
    BY <1>1
  <2> HIDE DEF B
  <2> QED
    BY <2>1, FiniteMinimal
<1>3. T # {}
  BY <1>2
<1> DEFINE x == CHOOSE y \in T : TRUE
<1>4. x \in T
  BY <1>3
<1> HIDE DEF x
<1>5. T \ {x} \in SUBSET S /\ T \ {x} # T
  BY <1>2, <1>4
<1>6. T \ {x} \in G
  BY <1>2, <1>5
<1>7. T \in G
  BY <1>2, <1>3, <1>6 DEF x
<1> QED
  BY <1>2, <1>7

(* A sum of whole numbers is one.                                          *)
LEMMA SumIsInt ==
  ASSUME NEW S, IsFiniteSet(S), \A x \in S : x.value \in Int
  PROVE  MapThenSumSet(LAMBDA r : r.value, S) \in Int
<1> DEFINE f == [r \in S |-> r.value]
<1>1. PICK it : /\ MapThenSumSet(LAMBDA r : r.value, S) = it[S]
                /\ AddsUp(it, f, S)
  BY SumOfValues
<1>2. \A x \in S : f[x] \in Int
  OBVIOUS
<1> HIDE DEF f
<1> DEFINE G == {s \in SUBSET S : it[s] \in Int}
<1>3. {} \in G
  BY <1>1 DEF AddsUp
<1>4. ASSUME NEW s \in SUBSET S, s # {}, s \ {CHOOSE x \in s : TRUE} \in G
      PROVE  s \in G
  <2> DEFINE x == CHOOSE y \in s : TRUE
             u == s \ {x}
  <2>1. x \in S
    BY <1>4
  <2>2. it[s] = f[x] + it[u]
    BY <1>1, <1>4 DEF AddsUp
  <2>3. it[u] \in Int
    BY <1>4
  <2> HIDE DEF x, u
  <2>4. it[s] \in Int
    BY <1>2, <2>1, <2>2, <2>3
  <2> QED
    BY <2>4
<1>5. S \in G
  <2> HIDE DEF G
  <2> QED
    BY <1>3, <1>4, OneByOne
<1> QED
  BY <1>1, <1>5

(* The sum of the excesses, and a divisor of all the values.               *)
LEMMA SumOfMultiples ==
  ASSUME NEW S, IsFiniteSet(S), NEW n \in Nat \ {0}, NEW v \in Int,
         \A x \in S : x.value \in Int /\ x.value = n * (x.value \div n)
  PROVE  \E q \in Int :
           /\ MapThenSumSet(LAMBDA r : r.value, S) = n * q
           /\ MapThenSumSet(LAMBDA r : r.value - v, S)
                = n * q - v * Cardinality(S)
<1> DEFINE f == [r \in S |-> r.value]
           e == [r \in S |-> r.value - v]
<1>1. PICK it : /\ MapThenSumSet(LAMBDA r : r.value, S) = it[S]
                /\ AddsUp(it, f, S)
  BY SumOfValues
<1>2. PICK ex : /\ MapThenSumSet(LAMBDA r : r.value - v, S) = ex[S]
                /\ AddsUp(ex, e, S)
  BY SumOfExcess
<1>3. \A x \in S : /\ f[x] \in Int /\ f[x] = n * (f[x] \div n)
                  /\ e[x] = f[x] - v
  OBVIOUS
<1>4. ASSUME NEW x \in S
      PROVE  \E k \in Int : f[x] = n * k
  <2> DEFINE a == f[x]
             k == a \div n
  <2>1. a \in Int /\ a = n * k
    BY <1>3
  <2> HIDE DEF a, f
  <2>2. k \in Int
    BY <2>1
  <2> HIDE DEF k
  <2> QED
    BY <2>1, <2>2 DEF a
<1> HIDE DEF f, e
<1> DEFINE G == {s \in SUBSET S : \E q \in Int :
                   it[s] = n * q /\ ex[s] = n * q - v * Cardinality(s)}
<1>5. {} \in G
  <2>1. it[{}] = 0 /\ ex[{}] = 0 /\ Cardinality({}) = 0
    BY <1>1, <1>2, FS_EmptySet DEF AddsUp
  <2>2. n * 0 = 0 /\ n * 0 - v * 0 = 0 /\ 0 \in Int
    OBVIOUS
  <2>3. it[{}] = n * 0 /\ ex[{}] = n * 0 - v * Cardinality({})
    BY <2>1, <2>2
  <2> QED
    BY <2>2, <2>3
<1>6. ASSUME NEW s \in SUBSET S, s # {}, s \ {CHOOSE x \in s : TRUE} \in G
      PROVE  s \in G
  <2> DEFINE x == CHOOSE y \in s : TRUE
             u == s \ {x}
             c == Cardinality(u)
  <2>1. x \in s /\ x \in S
    BY <1>6
  <2>2. it[s] = f[x] + it[u] /\ ex[s] = (f[x] - v) + ex[u]
    BY <1>1, <1>2, <1>3, <1>6, <2>1 DEF AddsUp
  <2>3. PICK q \in Int : it[u] = n * q /\ ex[u] = n * q - v * Cardinality(u)
    BY <1>6
  <2>4. PICK k \in Int : f[x] = n * k
    BY <1>4, <2>1
  <2>5. c \in Nat /\ Cardinality(s) = c + 1
    <3>1. IsFiniteSet(s) /\ c = Cardinality(s) - 1
      BY <1>6, <2>1, FS_Subset, FS_RemoveElement
    <3>2. IsFiniteSet(u) /\ Cardinality(s) \in Nat
      BY <3>1, FS_CardinalityType, FS_RemoveElement
    <3>3. c \in Nat
      BY <3>2, FS_CardinalityType
    <3> HIDE DEF c
    <3> QED
      BY <3>1, <3>2, <3>3
  <2>6. ex[u] = n * q - v * c
    BY <2>3
  <2> HIDE DEF x, u, c
  <2>7. it[s] = n * (q + k)
    BY <2>2, <2>3, <2>4
  <2>8. ex[s] = n * (q + k) - v * (c + 1)
    <3>1. ex[s] = (n * k - v) + (n * q - v * c)
      BY <2>2, <2>4, <2>6
    <3>2. n * (q + k) = n * q + n * k /\ v * (c + 1) = v * c + v
      BY <2>5
    <3>3. n * q \in Int /\ n * k \in Int /\ v * c \in Int
      BY <2>5
    <3> QED
      BY <3>1, <3>2, <3>3
  <2>9. q + k \in Int
    OBVIOUS
  <2> QED
    BY <1>6, <2>5, <2>7, <2>8, <2>9
<1>7. S \in G
  <2> HIDE DEF G
  <2> QED
    BY <1>5, <1>6, OneByOne
<1> QED
  BY <1>1, <1>2, <1>7

-----------------------------------------------------------------------------
(* Days and windows.                                                       *)

(* A day has a first minute and DayLen of them.                            *)
LEMMA DayType ==
  ASSUME NEW a \in Int
  PROVE  /\ Day(a) \in Int
         /\ DayLen * Day(a) <= a /\ a < DayLen * Day(a) + DayLen
<1>1. DayLen \in Nat \ {0}
  BY EvaluationAssumption
<1> QED
  BY <1>1 DEF Day

(* A time between two at most a day apart is on the day of one of them.    *)
LEMMA DayBetween ==
  ASSUME NEW a \in Int, NEW b \in Int, NEW t \in Int,
         a <= t, t <= b, b <= a + DayLen
  PROVE  Day(t) \in {Day(a), Day(b)}
<1> DEFINE p == Day(a)
           q == Day(b)
           d == Day(t)
<1>1. DayLen \in Nat \ {0}
  BY EvaluationAssumption
<1>2. /\ p \in Int /\ DayLen * p <= a /\ a < DayLen * p + DayLen
      /\ q \in Int /\ DayLen * q <= b /\ b < DayLen * q + DayLen
      /\ d \in Int /\ DayLen * d <= t /\ t < DayLen * d + DayLen
  BY DayType
<1> HIDE DEF p, q, d
<1>3. p <= d /\ d <= q
  BY <1>1, <1>2
<1>4. DayLen * q < DayLen * (p + 1) + DayLen
  BY <1>1, <1>2
<1>5. q <= p + 1
  BY <1>1, <1>2, <1>4
<1>6. d = p \/ d = q
  BY <1>2, <1>3, <1>5
<1> QED
  BY <1>6 DEF p, q, d

-----------------------------------------------------------------------------
(* Samples and facts.                                                      *)

(* Finitely many samples, none from the future.                            *)
RowsOK ==
  /\ now \in Int /\ IsFiniteSet(rows)
  /\ \A r \in rows :
       r.value \in Int \cup {Null} /\ r.time \in Int /\ r.time <= now

(* _read_fact finds a number or nothing.                                   *)
LEMMA FactIsNumber ==
  ASSUME RowsOK, NEW bucket \in SUBSET rows, bucket # {}, NEW f,
         f.type \in Implemented
  PROVE  FactValue(f, bucket) \in Int \cup {Null}
<1> DEFINE vs == {r \in bucket : r.value # Null}
           values == {r.value : r \in vs}
           spikes == {r \in vs : IF f.direction = "above" THEN r.value >= f.over
                                                          ELSE r.value <= f.over}
           newest == CHOOSE r \in bucket : \A x \in bucket : x.time <= r.time
<1>1. IsFiniteSet(bucket)
  BY FS_Subset DEF RowsOK
<1>2. vs \in SUBSET bucket /\ spikes \in SUBSET bucket
  OBVIOUS
<1>3. IsFiniteSet(vs) /\ IsFiniteSet(spikes)
  BY <1>1, <1>2, FS_Subset
<1>4. \A r \in vs : r.value \in Int
  BY DEF RowsOK
<1>5. CASE f.type = "spike_count"
  <2>1. Cardinality(spikes) \in Nat
    BY <1>3, FS_CardinalityType
  <2>2. FactValue(f, bucket) = Digit * Cardinality(spikes)
    BY <1>5 DEF FactValue
  <2> HIDE DEF spikes
  <2> QED
    BY <2>1, <2>2, EvaluationAssumption
<1>6. CASE f.type = "last"
  <2> DEFINE times == {r.time : r \in bucket}
             g == [r \in bucket |-> r.time]
  <2>1. times = {g[r] : r \in bucket}
    OBVIOUS
  <2>2. IsFiniteSet({g[r] : r \in bucket})
    <3> HIDE DEF g
    <3> QED
      BY <1>1, FiniteImage
  <2>3. IsFiniteSet(times) /\ times # {} /\ times \subseteq Int
    BY <2>1, <2>2 DEF RowsOK
  <2>4. Max(times) \in times /\ \A y \in times : y <= Max(times)
    <3> HIDE DEF times
    <3> QED
      BY <2>3, MaxMinExist
  <2>5. \E r \in bucket : \A x \in bucket : x.time <= r.time
    BY <2>4
  <2>6. newest \in bucket
    BY <2>5
  <2>7. FactValue(f, bucket) = newest.value
    BY <1>6 DEF FactValue
  <2> HIDE DEF newest
  <2> QED
    BY <2>6, <2>7 DEF RowsOK
<1>7. CASE f.type \in {"max", "min", "avg"} /\ vs = {}
  BY <1>7 DEF FactValue
<1>8. CASE f.type \in {"max", "min", "avg"} /\ vs # {}
  <2> DEFINE g == [r \in vs |-> r.value]
  <2>1. values = {g[r] : r \in vs}
    OBVIOUS
  <2>2. IsFiniteSet({g[r] : r \in vs})
    <3> HIDE DEF g, vs
    <3> QED
      BY <1>3, FiniteImage
  <2>3. IsFiniteSet(values) /\ values # {} /\ values \subseteq Int
    BY <1>4, <1>8, <2>1, <2>2
  <2>4. Max(values) \in Int /\ Min(values) \in Int
    <3> HIDE DEF values
    <3> QED
      BY <2>3, MaxMinExist
  <2> DEFINE total == MapThenSumSet(LAMBDA r : r.value, vs)
             n == Cardinality(vs)
  <2>5. total \in Int
    <3> HIDE DEF vs
    <3> QED
      BY <1>3, <1>4, SumIsInt
  <2>6. n \in Nat /\ n # 0
    BY <1>3, <1>8, FS_CardinalityType, FS_EmptySet
  <2>7. FactValue(f, bucket) \in {Max(values), Min(values), total \div n}
    BY <1>8 DEF FactValue
  <2> HIDE DEF total, n
  <2>8. total \div n \in Int
    BY <2>5, <2>6
  <2> QED
    BY <2>4, <2>7, <2>8
<1> QED
  BY <1>5, <1>6, <1>7, <1>8 DEF Implemented

-----------------------------------------------------------------------------
(* Readings.                                                               *)

(* The documents of a bucket.                                              *)
Bucket(m, metrics, t, i) ==
  {r \in Hits(m, metrics) : <<Target(m, r), Instance(m, r)>> = <<t, i>>}

(* x is the reading of fact f in the bucket of a document r.               *)
Reads(x, id, f, metrics, r) ==
  LET m == Measure[id]
      t == Target(m, r)
      i == Instance(m, r)
  IN  x = [measure |-> id, target |-> t, instance |-> i, fact |-> f.type,
           value |-> FactValue(f, Bucket(m, metrics, t, i))]

(* The readings of a measure, one by one.                                  *)
LEMMA ReadingShape ==
  ASSUME NEW id, NEW metrics, NEW x
  PROVE  x \in ComputeMeasure(id, metrics) <=>
           \E f \in Measure[id].facts : \E r \in Hits(Measure[id], metrics) :
              f.type \in Implemented /\ Reads(x, id, f, metrics, r)
<1> DEFINE m == Measure[id]
           hits == Hits(m, metrics)
           buckets == {<<Target(m, r), Instance(m, r)>> : r \in hits}
           known == {y \in m.facts : y.type \in Implemented}
           Of(b, f) == [measure |-> id, target |-> b[1], instance |-> b[2],
                        fact |-> f.type,
                        value |-> FactValue(f,
                          {r \in hits : <<Target(m, r), Instance(m, r)>> = b})]
<1>1. ComputeMeasure(id, metrics) = {Of(b, f) : b \in buckets, f \in known}
  BY DEF ComputeMeasure
<1>2. ASSUME NEW f, NEW r
      PROVE  Reads(x, id, f, metrics, r) <=>
               x = Of(<<Target(m, r), Instance(m, r)>>, f)
  BY DEF Reads, Bucket
<1> HIDE DEF Of, hits
<1>3. x \in ComputeMeasure(id, metrics) <=>
        \E b \in buckets : \E f \in known : x = Of(b, f)
  BY <1>1
<1>4. (\E b \in buckets : \E f \in known : x = Of(b, f)) <=>
        \E r \in hits : \E f \in known :
           x = Of(<<Target(m, r), Instance(m, r)>>, f)
  OBVIOUS
<1> QED
  BY <1>2, <1>3, <1>4 DEF hits

(* A reading is a number or nothing, at an equipment of the profile.       *)
LEMMA ReadingIsNumber ==
  ASSUME RowsOK, NEW id, NEW metrics, NEW x \in ComputeMeasure(id, metrics)
  PROVE  x.value \in Int \cup {Null} /\ x.target[1] \in EqpIds
<1>1. PICK f \in Measure[id].facts, r \in Hits(Measure[id], metrics) :
        f.type \in Implemented /\ Reads(x, id, f, metrics, r)
  BY ReadingShape
<1> DEFINE m == Measure[id]
           b == Bucket(m, metrics, Target(m, r), Instance(m, r))
<1>2. b \in SUBSET rows /\ r \in b
  BY DEF Bucket, Hits
<1>3. x.value = FactValue(f, b) /\ x.target = Target(m, r)
  BY <1>1 DEF Reads
<1>4. FactValue(f, b) \in Int \cup {Null}
  <2> HIDE DEF b
  <2> QED
    BY <1>1, <1>2, FactIsNumber
<1>5. r.eqp \in EqpIds
  BY DEF Hits
<1> QED
  BY <1>3, <1>4, <1>5 DEF Target

(* A measure has finitely many readings.                                   *)
LEMMA ReadingsFinite ==
  ASSUME RowsOK, NEW id \in DOMAIN Measure, NEW metrics
  PROVE  IsFiniteSet(ComputeMeasure(id, metrics))
<1> DEFINE m == Measure[id]
           hits == Hits(m, metrics)
           known == {y \in m.facts : y.type \in Implemented}
           Of(f, r) == [measure |-> id, target |-> Target(m, r),
                        instance |-> Instance(m, r), fact |-> f.type,
                        value |-> FactValue(f, Bucket(m, metrics, Target(m, r),
                                                      Instance(m, r)))]
           g == [f \in known |-> [r \in hits |-> Of(f, r)]]
           H == {g[f][r] : f \in known, r \in hits}
<1>1. hits \in SUBSET rows
  BY DEF Hits
<1>2. IsFiniteSet(hits)
  BY <1>1, FS_Subset DEF RowsOK
<1>3. IsFiniteSet(known)
  BY ProfileAssumption, FS_Subset DEF IsMeasure
<1>4. IsFiniteSet(H)
  <2> HIDE DEF hits, known, g
  <2> QED
    BY <1>2, <1>3, FiniteImage2
<1>5. ASSUME NEW x \in ComputeMeasure(id, metrics)
      PROVE  x \in H
  <2>1. PICK f \in Measure[id].facts, r \in Hits(Measure[id], metrics) :
          f.type \in Implemented /\ Reads(x, id, f, metrics, r)
    BY ReadingShape
  <2>2. f \in known /\ r \in hits /\ x = Of(f, r)
    BY <2>1 DEF Reads
  <2> HIDE DEF hits, known, Of
  <2>3. g[f][r] = Of(f, r)
    BY <2>2
  <2> QED
    BY <2>2, <2>3
<1>6. ComputeMeasure(id, metrics) \in SUBSET H
  <2> HIDE DEF H
  <2> QED
    BY <1>5
<1> QED
  BY <1>4, <1>6, FS_Subset

(* The readings of an analysis of a tick with what is cached.              *)
Readings(tick, cache) ==
  UNION {ComputeMeasure(i, Resolved(Measure[i], cache)) : i \in Computed(tick)}

(* A tick looks at finitely many measures, all of the profile.             *)
LEMMA IdsFinite ==
  ASSUME NEW tick \in Tick
  PROVE  IsFiniteSet(Computed(tick)) /\ Computed(tick) \subseteq DOMAIN Measure
<1>1. ASSUME NEW r \in tick
      PROVE  IsFiniteSet(MeasuresOf(r)) /\ MeasuresOf(r) \subseteq DOMAIN Measure
  <2> DEFINE g == [k \in DOMAIN r.when |-> r.when[k].measure]
             H == {g[k] : k \in DOMAIN r.when}
  <2>1. IsFiniteSet(DOMAIN r.when)
    BY ProfileAssumption DEF IsRule
  <2>2. IsFiniteSet(H)
    <3> HIDE DEF g
    <3> QED
      BY <2>1, FiniteImage
  <2>3. MeasuresOf(r) = H
    BY DEF MeasuresOf, Range
  <2>4. \A k \in DOMAIN r.when : r.when[k].measure \in DOMAIN Measure
    BY ProfileAssumption DEF IsRule, IsCondition
  <2>5. H \subseteq DOMAIN Measure
    BY <2>4
  <2> HIDE DEF H
  <2> QED
    BY <2>2, <2>3, <2>5
<1> DEFINE g == [r \in tick |-> MeasuresOf(r)]
           G == {g[r] : r \in tick}
<1>2. IsFiniteSet(tick)
  BY ProfileAssumption
<1>3. IsFiniteSet(G)
  <2> HIDE DEF g
  <2> QED
    BY <1>2, FiniteImage
<1>4. G = {MeasuresOf(r) : r \in tick}
  OBVIOUS
<1>5. IsFiniteSet(UNION G)
  <2>1. \A U \in G : IsFiniteSet(U)
    BY <1>1
  <2> HIDE DEF G
  <2> QED
    BY <1>3, <2>1, FS_UNION
<1>6. Computed(tick) \in SUBSET (UNION G)
  BY <1>4 DEF Computed
<1>7. UNION G \subseteq DOMAIN Measure
  BY <1>1, <1>4
<1> HIDE DEF G
<1> QED
  BY <1>5, <1>6, <1>7, FS_Subset

(* The readings of a tick are finitely many.                               *)
LEMMA AllReadingsFinite ==
  ASSUME RowsOK, NEW tick \in Tick, NEW cache
  PROVE  IsFiniteSet(Readings(tick, cache))
<1> DEFINE g == [i \in Computed(tick) |->
                   ComputeMeasure(i, Resolved(Measure[i], cache))]
           G == {g[i] : i \in Computed(tick)}
<1>1. IsFiniteSet(G)
  <2> HIDE DEF g
  <2> QED
    BY IdsFinite, FiniteImage
<1>2. \A U \in G : IsFiniteSet(U)
  BY IdsFinite, ReadingsFinite
<1>3. IsFiniteSet(UNION G)
  <2> HIDE DEF G
  <2> QED
    BY <1>1, <1>2, FS_UNION
<1>4. UNION G = Readings(tick, cache)
  BY DEF Readings
<1> HIDE DEF G
<1> QED
  BY <1>3, <1>4

(* They are numbers or nothing, at the profile's equipment.                *)
LEMMA AllReadingsNumbers ==
  ASSUME RowsOK, NEW tick, NEW cache, NEW x \in Readings(tick, cache)
  PROVE  /\ x.value \in Int \cup {Null} /\ x.target[1] \in EqpIds
         /\ x.fact \in Implemented
<1>1. PICK i \in Computed(tick) :
        x \in ComputeMeasure(i, Resolved(Measure[i], cache))
  BY DEF Readings
<1>2. x.fact \in Implemented
  BY <1>1, ReadingShape DEF Reads
<1> QED
  BY <1>1, <1>2, ReadingIsNumber

-----------------------------------------------------------------------------
(* Breaches.                                                               *)

(* What _worst returns.                                                    *)
LEMMA WorstOf ==
  ASSUME NEW op \in {">=", ">", "<=", "<", "==", "!="},
         NEW S, IsFiniteSet(S), S # {}, S \subseteq Int
  PROVE  /\ Worst(op, S) \in S
         /\ op \in {">=", ">"} => \A y \in S : y <= Worst(op, S)
         /\ op \in {"<=", "<"} => \A y \in S : Worst(op, S) <= y
BY MaxMinExist DEF Worst

(* A condition passes on account of a reading, whatever its quantifier.    *)
LEMMA PassedHasPassing ==
  ASSUME NEW c, IsCondition(c), NEW readings, IsFiniteSet(readings),
         Passed(c, readings)
  PROVE  Passing(c, readings) # {}
<1> DEFINE present == {x \in readings : x.value # Null}
           n == Cardinality(Passing(c, readings))
<1>1. SUFFICES ASSUME Passing(c, readings) = {}
               PROVE  FALSE
  OBVIOUS
<1>2. n = 0
  BY <1>1, FS_EmptySet
<1>3. present \in SUBSET readings
  OBVIOUS
<1>4. present # {} => Cardinality(present) # 0
  BY <1>3, FS_Subset, FS_EmptySet
<1>5. CASE c.quantifier = "any"
  BY <1>2, <1>5 DEF Passed
<1>6. CASE c.quantifier = "all"
  BY <1>2, <1>4, <1>6 DEF Passed
<1>7. CASE c.quantifier = "count"
  BY <1>2, <1>7 DEF Passed, IsCondition
<1> QED
  BY <1>5, <1>6, <1>7 DEF IsCondition

(* The readings a condition looks at for a target.                         *)
ReadingsAt(readings, t, c) ==
  {x \in readings : x.target = t /\ x.measure = c.measure /\ x.fact = c.fact}

(* The ones that satisfy it, and their values.                             *)
PassingAt(readings, t, c) == Passing(c, ReadingsAt(readings, t, c))
ValuesAt(readings, t, c) == {x.value : x \in PassingAt(readings, t, c)}

(* A breach names a condition that passed and the worst of its readings.   *)
LEMMA BreachShape ==
  ASSUME NEW readings, IsFiniteSet(readings), NEW tick \in Tick, NEW r \in tick,
         NEW t, NEW b \in EvaluateRule(r, t, readings)
  PROVE  /\ b.rule = r /\ b.target = t /\ b.cond \in DOMAIN r.when
         /\ IsCondition(r.when[b.cond])
         /\ PassingAt(readings, t, r.when[b.cond]) # {}
         /\ b.value = Worst(r.when[b.cond].op,
                            ValuesAt(readings, t, r.when[b.cond]))
<1> DEFINE of(n) == ReadingsAt(readings, t, r.when[n])
           passed == {n \in DOMAIN r.when : Passed(r.when[n], of(n))}
           first == Min(passed)
           c == r.when[first]
<1>1. /\ passed # {}
      /\ b = [rule |-> r, target |-> t, cond |-> first,
              value |-> Worst(c.op, ValuesAt(readings, t, c))]
  BY DEF EvaluateRule, ReadingsAt, ValuesAt, PassingAt
<1>2. /\ DOMAIN r.when \subseteq Nat /\ IsFiniteSet(DOMAIN r.when)
      /\ \A k \in DOMAIN r.when : IsCondition(r.when[k])
  BY ProfileAssumption DEF IsRule
<1>3. passed \in SUBSET (DOMAIN r.when)
  OBVIOUS
<1>4. IsFiniteSet(passed) /\ passed \subseteq Int
  BY <1>2, <1>3, FS_Subset
<1>5. first \in passed
  <2> HIDE DEF passed
  <2> QED
    BY <1>1, <1>4, MaxMinExist
<1>6. first \in DOMAIN r.when /\ Passed(c, of(first)) /\ IsCondition(c)
  BY <1>2, <1>5
<1>7. of(first) \in SUBSET readings
  BY DEF ReadingsAt
<1>8. IsFiniteSet(of(first))
  BY <1>7, FS_Subset
<1> HIDE DEF first
<1>9. Passing(c, of(first)) # {}
  BY <1>6, <1>8, PassedHasPassing
<1> QED
  BY <1>1, <1>6, <1>9 DEF PassingAt

(* An analysis finds finitely many breaches.                               *)
LEMMA BreachesFinite ==
  ASSUME NEW readings, IsFiniteSet(readings), NEW tick \in Tick
  PROVE  IsFiniteSet(EvaluateBucket(tick, readings))
<1> DEFINE targets == {x.target : x \in readings}
           e == [x \in readings |-> x.target]
           g == [r \in tick |-> [t \in targets |-> EvaluateRule(r, t, readings)]]
           G == {g[r][t] : r \in tick, t \in targets}
<1>1. IsFiniteSet(tick)
  BY ProfileAssumption
<1>2. IsFiniteSet({e[x] : x \in readings})
  <2> HIDE DEF e
  <2> QED
    BY FiniteImage
<1>3. IsFiniteSet(targets)
  <2>1. targets = {e[x] : x \in readings}
    OBVIOUS
  <2> QED
    BY <1>2, <2>1
<1>4. IsFiniteSet(G)
  <2> HIDE DEF g, targets
  <2> QED
    BY <1>1, <1>3, FiniteImage2
<1>5. \A r \in tick, t \in targets : IsFiniteSet(EvaluateRule(r, t, readings))
  BY FS_EmptySet, FS_Singleton DEF EvaluateRule
<1>6. \A U \in G : IsFiniteSet(U)
  <2> HIDE DEF targets
  <2> QED
    BY <1>5
<1>7. IsFiniteSet(UNION G)
  <2> HIDE DEF G
  <2> QED
    BY <1>4, <1>6, FS_UNION
<1>8. G = {EvaluateRule(r, t, readings) : r \in tick, t \in targets}
  <2> HIDE DEF targets
  <2> QED
    OBVIOUS
<1>9. EvaluateBucket(tick, readings)
        = UNION {EvaluateRule(r, t, readings) : r \in tick, t \in targets}
  BY DEF EvaluateBucket
<1> HIDE DEF G, targets
<1> QED
  BY <1>7, <1>8, <1>9

(* What a breach reports: a number, the worst of the readings that satisfy *)
(* the condition it names, at an equipment of the profile.                 *)
LEMMA BreachReports ==
  ASSUME RowsOK, NEW tick \in Tick, NEW cache,
         NEW b \in EvaluateBucket(tick, Readings(tick, cache))
  PROVE  /\ b.rule \in tick /\ b.cond \in DOMAIN b.rule.when
         /\ b.value \in Int /\ b.target[1] \in EqpIds
         /\ LET c == b.rule.when[b.cond]
                ps == PassingAt(Readings(tick, cache), b.target, c)
            IN  /\ IsCondition(c) /\ ps # {} /\ c.value \in Int
                /\ c.op \in {">=", ">", "<=", "<", "==", "!="}
                /\ \E x \in ps : x.value = b.value
                /\ \A x \in ps :
                     /\ x.value \in Int
                     /\ c.op \in {">=", ">"} => x.value <= b.value
                     /\ c.op \in {"<=", "<"} => b.value <= x.value
<1> DEFINE readings == Readings(tick, cache)
<1>1. IsFiniteSet(readings)
  BY AllReadingsFinite
<1>2. PICK r \in tick, t \in {x.target : x \in readings} :
        b \in EvaluateRule(r, t, readings)
  BY DEF EvaluateBucket
<1> DEFINE c == r.when[b.cond]
           ps == PassingAt(readings, t, c)
           values == ValuesAt(readings, t, c)
<1>3. /\ b.rule = r /\ b.target = t /\ b.cond \in DOMAIN r.when
      /\ IsCondition(c) /\ ps # {} /\ b.value = Worst(c.op, values)
  BY <1>1, <1>2, BreachShape
<1>4. \A x \in ps : x \in readings /\ x.target = t /\ x.value # Null
  BY DEF PassingAt, Passing, ReadingsAt, OpCompare
<1>5. \A x \in ps : x.value \in Int /\ x.target[1] \in EqpIds
  BY <1>4, AllReadingsNumbers
<1>6. IsFiniteSet(values)
  <2> DEFINE g == [x \in ps |-> x.value]
  <2>1. ps \in SUBSET readings
    BY <1>4
  <2>2. IsFiniteSet(ps)
    BY <1>1, <2>1, FS_Subset
  <2>3. IsFiniteSet({g[x] : x \in ps})
    <3> HIDE DEF g, ps
    <3> QED
      BY <2>2, FiniteImage
  <2>4. values = {g[x] : x \in ps}
    BY DEF ValuesAt
  <2> QED
    BY <2>3, <2>4
<1>7. values # {} /\ values \subseteq Int
  BY <1>3, <1>5 DEF ValuesAt
<1>8. c.op \in {">=", ">", "<=", "<", "==", "!="} /\ c.value \in Int
  <2>1. PICK x \in ps : TRUE
    BY <1>3
  <2>2. x \in readings /\ x.fact = c.fact
    BY <2>1 DEF PassingAt, Passing, ReadingsAt
  <2>3. c.fact \in Implemented
    BY <2>2, AllReadingsNumbers
  <2> QED
    BY <1>3, <2>3 DEF IsCondition
<1> HIDE DEF values
<1>9. /\ b.value \in values
      /\ c.op \in {">=", ">"} => \A y \in values : y <= b.value
      /\ c.op \in {"<=", "<"} => \A y \in values : b.value <= y
  <2> DEFINE op == c.op
             w == Worst(op, values)
  <2>1. op \in {">=", ">", "<=", "<", "==", "!="} /\ b.value = w
    BY <1>3, <1>8
  <2>2. /\ w \in values
        /\ op \in {">=", ">"} => \A y \in values : y <= w
        /\ op \in {"<=", "<"} => \A y \in values : w <= y
    <3> HIDE DEF op
    <3> QED
      BY <1>6, <1>7, <2>1, WorstOf
  <2> HIDE DEF w
  <2> QED
    BY <2>1, <2>2
<1>10. t[1] \in EqpIds
  BY <1>3, <1>4, <1>5
<1> QED
  BY <1>3, <1>5, <1>7, <1>8, <1>9, <1>10 DEF values, ValuesAt

-----------------------------------------------------------------------------
(* The table of a mail.                                                    *)

(* Finitely many breaches, with numbers.                                   *)
BreachesOK ==
  /\ IsFiniteSet(report.breaches)
  /\ \A b \in report.breaches : b.value \in Int /\ b.target[1] \in Int

(* What is shown is a number.                                              *)
LEMMA RoundsToInt ==
  ASSUME NEW v \in Int
  PROVE  RoundDisplay(v) \in Int
<1> DEFINE h == Digit \div 2
<1>1. Digit \in Nat \ {0} /\ h \in Int
  BY EvaluationAssumption
<1>2. (v + h) \div Digit \in Int /\ (h - v) \div Digit \in Int
  <2> HIDE DEF h
  <2> QED
    BY <1>1
<1> QED
  BY <1>2 DEF RoundDisplay

(* order_rows lists every member once, none before a worse one.            *)
LEMMA OrderIsSorted ==
  ASSUME NEW members, IsFiniteSet(members),
         \A b \in members : b.value \in Int /\ b.target[1] \in Int
  PROVE  LET s == OrderRows(members)
             n == Cardinality(members)
         IN  /\ n \in Nat /\ s \in [1..n -> members]
             /\ \A b \in members : \E i \in 1..n : b = s[i]
             /\ \A i, j \in 1..n : i < j => ~Before(s[j], s[i])
<1> DEFINE n == Cardinality(members)
           R == {p \in members \X members : Before(p[1], p[2])}
           Sorted(s) == \A i, j \in DOMAIN s : i < j => ~Before(s[j], s[i])
           s == OrderRows(members)
<1>1. n \in Nat
  BY FS_CardinalityType
<1>2. ASSUME NEW a \in members, NEW b \in members
      PROVE  <<a, b>> \in R <=> Before(a, b)
  <2>1. <<a, b>> \in members \X members
    OBVIOUS
  <2> QED
    BY <2>1
<1>3. StrictOn(R, members)
  <2>1. \A b \in members : RoundDisplay(b.value) \in Int
    BY RoundsToInt
  <2>2. \A a \in members : ~Before(a, a)
    BY <2>1 DEF Before
  <2>3. \A a, b, c \in members : Before(a, b) /\ Before(b, c) => Before(a, c)
    BY <2>1 DEF Before
  <2> HIDE DEF R
  <2> QED
    BY <1>2, <2>2, <2>3 DEF StrictOn
<1>4. PICK t \in SetToSeqs(members) :
        \A i, j \in DOMAIN t : i < j => <<t[j], t[i]>> \notin R
  <2> HIDE DEF R
  <2> QED
    BY <1>3, SortedExists
<1>5. t \in [1..n -> members]
  BY DEF SetToSeqs
<1>6. Sorted(t)
  <2> HIDE DEF R
  <2> QED
    BY <1>2, <1>4, <1>5
<1>7. s \in SetToSeqs(members) /\ Sorted(s)
  BY <1>6 DEF OrderRows
<1>8. /\ s \in [1..n -> members]
      /\ \A i, j \in 1..n : i # j => s[i] # s[j]
  BY <1>7 DEF SetToSeqs
<1> HIDE DEF s
<1>9. s \in Injection(1..n, members)
  BY <1>8 DEF Injection, IsInjective
<1>10. IsFiniteSet(1..n) /\ Cardinality(1..n) = n
  BY <1>1, FS_Interval
<1>11. s \in Surjection(1..n, members)
  BY <1>9, <1>10, FS_Injection
<1>12. \A b \in members : \E i \in 1..n : b = s[i]
  BY <1>11 DEF Surjection
<1> QED
  BY <1>1, <1>7, <1>8, <1>12 DEF s

(* So the rows that are cut off are no worse than those shown.             *)
LEMMA CapFollows == BreachesOK => CapKeepsWorst
<1> SUFFICES ASSUME BreachesOK, NEW k \in {GroupKey(b) : b \in report.breaches}
             PROVE  LET members == {b \in report.breaches : GroupKey(b) = k}
                        mail == Mail(members)
                    IN  /\ Len(mail.shown) + mail.remaining = Cardinality(members)
                        /\ (\A b \in members : HighSide(b)) =>
                             \A b \in members \ Range(mail.shown),
                                x \in Range(mail.shown) :
                               RoundDisplay(b.value) <= RoundDisplay(x.value)
  BY DEF CapKeepsWorst
<1> DEFINE members == {b \in report.breaches : GroupKey(b) = k}
           n == Cardinality(members)
           s == OrderRows(members)
           shown == Expand(s)
           q == IF n < RowLimit THEN n ELSE RowLimit
<1>1. members \in SUBSET report.breaches
  OBVIOUS
<1>2. IsFiniteSet(members)
  BY <1>1, FS_Subset DEF BreachesOK
<1>3. \A b \in members : b.value \in Int /\ b.target[1] \in Int
  BY DEF BreachesOK
<1>4. /\ n \in Nat /\ s \in [1..n -> members]
      /\ \A b \in members : \E i \in 1..n : b = s[i]
      /\ \A i, j \in 1..n : i < j => ~Before(s[j], s[i])
  <2> HIDE DEF members
  <2> QED
    BY <1>2, <1>3, OrderIsSorted
<1>5. Mail(members).shown = shown
      /\ Mail(members).remaining = Len(s) - Len(shown)
  BY DEF Mail
<1> HIDE DEF s, n, members
<1>6. Len(s) = n /\ s \in Seq(members)
  BY <1>4
<1>7. q \in 0..n
  BY <1>4, EvaluationAssumption
<1>8. shown = SubSeq(s, 1, q)
  BY <1>6 DEF Expand
<1> HIDE DEF q, shown
<1>9. Len(shown) = q /\ DOMAIN shown = 1..q /\ \A i \in 1..q : shown[i] = s[i]
  BY <1>4, <1>6, <1>7, <1>8
<1>10. Len(shown) + (Len(s) - Len(shown)) = n
  BY <1>4, <1>6, <1>7, <1>9
<1>11. ASSUME NEW b \in members \ Range(shown), NEW x \in Range(shown)
       PROVE  RoundDisplay(b.value) <= RoundDisplay(x.value)
  <2>1. PICK i \in 1..q : x = s[i]
    BY <1>9 DEF Range
  <2>2. PICK j \in 1..n : b = s[j]
    BY <1>4
  <2>3. j \notin 1..q
    BY <1>9, <2>2 DEF Range
  <2>4. i \in 1..n /\ i < j
    BY <1>4, <1>7, <2>3
  <2>5. ~Before(b, x) /\ x \in members
    BY <1>4, <2>1, <2>2, <2>4
  <2>6. RoundDisplay(b.value) \in Int /\ RoundDisplay(x.value) \in Int
    BY <1>3, <2>5, RoundsToInt
  <2> QED
    BY <2>5, <2>6 DEF Before
<1> QED
  BY <1>5, <1>10, <1>11 DEF members, n

-----------------------------------------------------------------------------
(* The cache of metric names.                                              *)

(* r is a document the lookup under key k finds.                           *)
UnderKey(k, r) ==
  Day(r.time) \in k[1] /\ r.metric[1] = k[2] /\ k[3] \in {"*", r.proc}

(* An entry stands for a failed lookup and does not outlive what           *)
(* failedAt allows, or it has every name that was there when it was made.  *)
Negative(k) == failedAt \in Int /\ names[k].until <= failedAt + NegativeTtl
Complete(k) ==
  /\ names[k].until <= now + PositiveTtl
  /\ \A r \in rows : r.time + PositiveTtl < names[k].until /\ UnderKey(k, r)
                       => r.metric \in names[k].found

CacheOK ==
  /\ failedAt \in Int \cup {Null}
  /\ failedAt # Null => failedAt <= now
  /\ \A k \in DOMAIN names :
       names[k].until \in Int /\ (Negative(k) \/ Complete(k))

(* Two measures with one key look at the same documents.                   *)
LEMMA SelectsIsUnderKey ==
  ASSUME NEW m, NEW r
  PROVE  UnderKey(Key(m), r) <=>
           Day(r.time) \in ResolveIndexRange(m) /\ Selects(m, r)
BY DEF UnderKey, Key, Selects

(* An entry of the cache after the lookups of an analysis.                 *)
LEMMA LookedUp ==
  ASSUME NEW ms, NEW down, NEW k \in DOMAIN LookUp(ms, down)
  PROVE  \/ k \in Live(names) /\ LookUp(ms, down)[k] = names[k]
         \/ /\ Lost(ms, down) # {}
            /\ LookUp(ms, down)[k] = [found |-> {}, until |-> now + NegativeTtl]
         \/ \E m \in Asked(ms) :
              /\ Key(m) = k /\ m \notin Lost(ms, down)
              /\ LookUp(ms, down)[k]
                   = [found |-> Discovered(m), until |-> now + PositiveTtl]
<1> DEFINE m == CHOOSE x \in Asked(ms) : Key(x) = k
           D == {Key(x) : x \in Asked(ms)} \cup Live(names)
           v == IF k \in Live(names) THEN names[k]
                ELSE IF m \in Lost(ms, down)
                       THEN [found |-> {}, until |-> now + NegativeTtl]
                       ELSE [found |-> Discovered(m), until |-> now + PositiveTtl]
<1>1. k \in D
  BY DEF LookUp
<1>2. LookUp(ms, down)[k] = v
  BY <1>1 DEF LookUp
<1>3. CASE k \in Live(names)
  BY <1>2, <1>3
<1>4. CASE k \notin Live(names)
  <2>1. m \in Asked(ms) /\ Key(m) = k
    BY <1>1, <1>4
  <2> HIDE DEF m
  <2> QED
    BY <1>2, <1>4, <2>1
<1> QED
  BY <1>3, <1>4

(* A name the samples had for longer than names are cached is known to the *)
(* analysis, unless a lookup has failed within the time that is cached.    *)
LEMMA SettledIsFound ==
  ASSUME RowsOK, CacheOK, NEW ms, NEW down, NEW m \in ms, m.expand,
         failedAt' = IF Lost(ms, down) # {} THEN now ELSE failedAt,
         now' = now, rows' = rows, NEW i \in Settled(m)'
  PROVE  i \in LookUp(ms, down)[Key(m)].found
<1> DEFINE k == Key(m)
           e == LookUp(ms, down)[k]
<1>1. PICK y \in rows : /\ i = y.metric /\ y.time <= now - PositiveTtl
                        /\ Day(y.time) \in ResolveIndexRange(m)
                        /\ Selects(m, y)
  BY DEF Settled, ResolveIndexRange, Selects
<1>2. ~(failedAt' # Null /\ now < failedAt' + NegativeTtl)
  BY DEF Settled
<1>3. /\ now \in Int /\ PositiveTtl \in Nat /\ NegativeTtl \in Nat \ {0}
      /\ Null \notin Int /\ y.time \in Int
  BY EvaluationAssumption DEF RowsOK
<1>4. Lost(ms, down) = {} /\ failedAt' = failedAt
  BY <1>2, <1>3
<1>5. UnderKey(k, y)
  BY <1>1, SelectsIsUnderKey
<1>6. k \in DOMAIN LookUp(ms, down)
  BY DEF LookUp, Asked
<1>7. CASE k \in Live(names) /\ e = names[k]
  <2>1. k \in DOMAIN names /\ now < names[k].until
    BY <1>7 DEF Live
  <2>2. names[k].until \in Int
    BY <2>1 DEF CacheOK
  <2>3. ~Negative(k)
    BY <1>2, <1>3, <1>4, <2>1, <2>2 DEF Negative
  <2>4. Complete(k)
    BY <2>1, <2>3 DEF CacheOK
  <2>5. y.time + PositiveTtl < names[k].until
    BY <1>1, <1>3, <2>1, <2>2
  <2> QED
    BY <1>1, <1>5, <1>7, <2>4, <2>5 DEF Complete
<1>8. CASE \E x \in Asked(ms) : Key(x) = k /\ e = [found |-> Discovered(x),
                                            until |-> now + PositiveTtl]
  <2>1. PICK x \in Asked(ms) : Key(x) = k /\ e = [found |-> Discovered(x),
                                            until |-> now + PositiveTtl]
    BY <1>8
  <2>2. Day(y.time) \in ResolveIndexRange(x) /\ Selects(x, y)
    BY <1>5, <2>1, SelectsIsUnderKey
  <2>3. y.metric \in Discovered(x)
    BY <2>2 DEF Discovered
  <2> QED
    BY <1>1, <2>1, <2>3
<1> QED
  BY <1>4, <1>6, <1>7, <1>8, LookedUp

-----------------------------------------------------------------------------
(* What an analysis reports.                                               *)

(* Every window is at most a day long.                                     *)
WindowsFit == \A id \in DOMAIN Measure : Measure[id].window <= DayLen

(* What a measure may find something at: an equipment of the profile and   *)
(* a process.                                                              *)
IsTarget(m, t) ==
  /\ t = <<t[1], t[2]>> /\ t[1] \in EqpIds
  /\ m.proc # "*" => t[2] = m.proc

(* A document that is found is at a target.                                *)
LEMMA HitIsAtTarget ==
  ASSUME NEW m, NEW metrics, NEW r \in Hits(m, metrics)
  PROVE  IsTarget(m, Target(m, r))
BY DEF Hits, Target, IsTarget

(* The instances of a measure whose names are known.                       *)
Known(m, cache) == IF m.expand THEN cache[Key(m)].found ELSE {"all"}

(* The documents behind a reading are the samples of the window: nothing   *)
(* that was stored is missing for want of an index.                        *)
LEMMA WindowIsBucket ==
  ASSUME RowsOK, WindowsFit, NEW id \in DOMAIN Measure, NEW cache,
         NEW i \in Known(Measure[id], cache), NEW t, IsTarget(Measure[id], t)
  PROVE  LET m == Measure[id]
         IN  Window(m, t, i) = Bucket(m, Resolved(m, cache), t, i)
<1> DEFINE m == Measure[id]
           metrics == Resolved(m, cache)
<1>0. m.expand \in BOOLEAN
  BY ProfileAssumption DEF IsMeasure
<1>1. m.window \in Int /\ m.window <= DayLen /\ DayLen \in Nat
  BY ProfileAssumption, EvaluationAssumption DEF WindowsFit, IsMeasure
<1>2. t = <<t[1], t[2]>> /\ t[1] \in EqpIds /\ (m.proc # "*" => t[2] = m.proc)
  BY DEF IsTarget
<1>3. ASSUME NEW y \in Window(m, t, i)
      PROVE  y \in Bucket(m, metrics, t, i)
  <2>1. /\ y \in rows /\ now - m.window <= y.time /\ y.time <= now
        /\ Selects(m, y) /\ y.metric \in Pattern[m.metric]
        /\ y.eqp = t[1] /\ (m.proc = "*" => y.proc = t[2])
        /\ (m.expand => y.metric = i)
    BY <1>3 DEF Window
  <2>2. now \in Int /\ y.time \in Int /\ now - m.window \in Int
    BY <1>1, <2>1 DEF RowsOK
  <2>3. Day(y.time) \in ResolveIndexRange(m)
    <3>1. now <= (now - m.window) + DayLen
      BY <1>1, <2>2
    <3>2. Day(y.time) \in {Day(now - m.window), Day(now)}
      BY <2>1, <2>2, <3>1, DayBetween
    <3> QED
      BY <3>2 DEF ResolveIndexRange
  <2>4. y.metric \in metrics
    BY <2>1 DEF Resolved, Known
  <2>5. Target(m, y) = t
    BY <1>2, <2>1 DEF Target
  <2>6. Instance(m, y) = i
    BY <2>1 DEF Instance, Known
  <2> QED
    BY <1>2, <2>1, <2>3, <2>4, <2>5, <2>6 DEF Bucket, Hits
<1>4. ASSUME NEW y \in Bucket(m, metrics, t, i)
      PROVE  y \in Window(m, t, i)
  <2>1. y \in Hits(m, metrics) /\ Target(m, y) = t /\ Instance(m, y) = i
    BY <1>4 DEF Bucket
  <2>2. y.eqp = t[1] /\ (m.proc = "*" => y.proc = t[2])
    BY <2>1 DEF Target
  <2>3. y.metric \in Pattern[m.metric]
    BY <2>1 DEF Hits, Resolved
  <2>4. m.expand => y.metric = i
    BY <2>1 DEF Instance
  <2> QED
    BY <2>1, <2>2, <2>3, <2>4 DEF Hits, Window
<1> QED
  BY <1>3, <1>4

(* Where there is data there are samples.                                  *)
LEMMA HasDataHasRows ==
  ASSUME NEW f, NEW rs, HasData(f, rs)
  PROVE  rs # {}
<1>1. CASE f.type = "spike_count"
  BY <1>1 DEF HasData
<1>2. CASE f.type = "last"
  BY <1>2 DEF HasData, Valued
<1>3. CASE f.type \notin {"spike_count", "last"}
  BY <1>3 DEF HasData, Valued
<1> QED
  BY <1>1, <1>2, <1>3

(* The worst of the values that satisfy a comparison is the furthest of    *)
(* all: what is further out satisfies it too.                              *)
LEMMA WorstIsFurthest ==
  ASSUME NEW v \in Int, NEW w \in Int, NEW th \in Int,
         NEW op \in {">=", ">", "<=", "<", "==", "!="},
         OpCompare(w, op, th),
         OpCompare(v, op, th) => /\ op \in {">=", ">"} => v <= w
                                 /\ op \in {"<=", "<"} => w <= v
  PROVE  /\ ~(op \in {">", ">="} /\ v > w)
         /\ ~(op \in {"<", "<="} /\ v < w)
<1>1. v # Null /\ w # Null
  BY EvaluationAssumption
<1>2. CASE op = ">="
  BY <1>1, <1>2 DEF OpCompare
<1>3. CASE op = ">"
  BY <1>1, <1>3 DEF OpCompare
<1>4. CASE op = "<="
  BY <1>1, <1>4 DEF OpCompare
<1>5. CASE op = "<"
  BY <1>1, <1>5 DEF OpCompare
<1>6. CASE op \in {"==", "!="}
  BY <1>6
<1> QED
  BY <1>2, <1>3, <1>4, <1>5, <1>6

(* The value of a breach passes its condition, and no instance whose name  *)
(* the cache has is further out.                                           *)
LEMMA NothingFurther ==
  ASSUME RowsOK, WindowsFit, NEW tick \in Tick, NEW cache,
         NEW b \in EvaluateBucket(tick, Readings(tick, cache))
  PROVE  LET c == b.rule.when[b.cond]
             m == Measure[c.measure]
             f == CHOOSE x \in m.facts : x.type = c.fact
         IN  /\ OpCompare(b.value, c.op, c.value)
             /\ c.measure \in Computed(tick)
             /\ \A i \in Known(m, cache) :
                  HasData(f, Window(m, b.target, i))
                       => LET v == FactValue(f, Window(m, b.target, i))
                          IN  /\ ~(c.op \in {">", ">="} /\ OpCompare(v, ">", b.value))
                              /\ ~(c.op \in {"<", "<="} /\ OpCompare(v, "<", b.value))
<1> DEFINE c == b.rule.when[b.cond]
           id == c.measure
           m == Measure[id]
           f == CHOOSE x \in m.facts : x.type = c.fact
           readings == Readings(tick, cache)
           metrics == Resolved(m, cache)
           t == b.target
           ps == PassingAt(readings, t, c)
<1>1. /\ b.value \in Int /\ IsCondition(c) /\ ps # {} /\ c.value \in Int
      /\ c.op \in {">=", ">", "<=", "<", "==", "!="}
      /\ \E x \in ps : x.value = b.value
      /\ \A x \in ps : /\ x.value \in Int
                       /\ c.op \in {">=", ">"} => x.value <= b.value
                       /\ c.op \in {"<=", "<"} => b.value <= x.value
  BY BreachReports
<1>2. /\ id \in DOMAIN Measure /\ c.value \in Int
      /\ c.op \in {">=", ">", "<=", "<", "==", "!="}
  BY <1>1 DEF IsCondition
<1>3. PICK x \in ps : x.value = b.value
  BY <1>1
<1>4. /\ x \in readings /\ x.target = t /\ x.measure = id /\ x.fact = c.fact
      /\ OpCompare(x.value, c.op, c.value)
  BY <1>3 DEF PassingAt, Passing, ReadingsAt
<1>5. PICK k \in Computed(tick) :
        x \in ComputeMeasure(k, Resolved(Measure[k], cache))
  BY <1>4 DEF Readings
<1>6. PICK g \in Measure[k].facts, r \in Hits(Measure[k], Resolved(Measure[k], cache)) :
        g.type \in Implemented
        /\ Reads(x, k, g, Resolved(Measure[k], cache), r)
  BY <1>5, ReadingShape
<1>7. k = id /\ g.type = c.fact /\ t = Target(m, r)
  BY <1>4, <1>6 DEF Reads
<1>8. f = g
  <2>1. g \in m.facts /\ f \in m.facts /\ f.type = c.fact
    BY <1>6, <1>7
  <2> HIDE DEF f
  <2> QED
    BY <1>2, <1>7, <2>1, ProfileAssumption DEF IsMeasure
<1> HIDE DEF c, f, ps, readings
<1>9. ASSUME NEW i \in Known(m, cache), HasData(f, Window(m, t, i))
      PROVE  LET v == FactValue(f, Window(m, t, i))
             IN  /\ ~(c.op \in {">", ">="} /\ OpCompare(v, ">", b.value))
                 /\ ~(c.op \in {"<", "<="} /\ OpCompare(v, "<", b.value))
  <2> DEFINE v == FactValue(f, Window(m, t, i))
  <2>1. Window(m, t, i) = Bucket(m, metrics, t, i)
    BY <1>2, <1>6, <1>7, <1>9, HitIsAtTarget, WindowIsBucket
  <2>2. PICK y \in Window(m, t, i) : TRUE
    BY <1>9, HasDataHasRows
  <2>3. y \in Hits(m, metrics) /\ Target(m, y) = t /\ Instance(m, y) = i
    BY <2>1, <2>2 DEF Bucket
  <2> DEFINE z == [measure |-> id, target |-> t, instance |-> i,
                   fact |-> f.type, value |-> v]
  <2>4. Reads(z, id, f, metrics, y)
    BY <2>1, <2>3 DEF Reads
  <2>5. z \in ComputeMeasure(id, metrics)
    BY <1>6, <1>7, <1>8, <2>3, <2>4, ReadingShape
  <2>6. z \in readings
    BY <1>5, <1>7, <2>5 DEF readings, Readings
  <2>7. v \in Int \cup {Null}
    BY <2>5, ReadingIsNumber
  <2>8. z \in ReadingsAt(readings, t, c)
    BY <1>7, <1>8, <2>6 DEF ReadingsAt
  <2>9. OpCompare(v, c.op, c.value) => z \in ps
    BY <2>8 DEF ps, PassingAt, Passing
  <2> HIDE DEF v
  <2>10. OpCompare(v, c.op, c.value) =>
           /\ c.op \in {">=", ">"} => v <= b.value
           /\ c.op \in {"<=", "<"} => b.value <= v
    BY <1>1, <2>9
  <2>11. ASSUME v # Null
         PROVE  /\ ~(c.op \in {">", ">="} /\ v > b.value)
                /\ ~(c.op \in {"<", "<="} /\ v < b.value)
    <3>1. v \in Int /\ b.value \in Int /\ c.value \in Int
      BY <1>1, <1>2, <2>7, <2>11
    <3>2. OpCompare(b.value, c.op, c.value)
      BY <1>3, <1>4
    <3> DEFINE op == c.op
               th == c.value
               w == b.value
    <3>3. /\ op \in {">=", ">", "<=", "<", "==", "!="}
          /\ th \in Int /\ w \in Int /\ OpCompare(w, op, th)
          /\ OpCompare(v, op, th) => /\ op \in {">=", ">"} => v <= w
                                     /\ op \in {"<=", "<"} => w <= v
      BY <1>2, <2>10, <3>1, <3>2
    <3> HIDE DEF op, th, w
    <3>4. /\ ~(op \in {">", ">="} /\ v > w)
          /\ ~(op \in {"<", "<="} /\ v < w)
      BY <3>1, <3>3, WorstIsFurthest
    <3> QED
      BY <3>4 DEF op, w
  <2> QED
    BY <2>11 DEF OpCompare, v
<1>10. OpCompare(b.value, c.op, c.value) /\ id \in Computed(tick)
  BY <1>3, <1>4, <1>5, <1>7
<1> QED
  BY <1>9, <1>10 DEF c, f

-----------------------------------------------------------------------------
(* The steps.                                                              *)

(* The invariant.                                                          *)
EvaluationInv == RowsOK /\ CacheOK /\ BreachesOK

(* Nothing is stored, cached or reported to begin with.                    *)
LEMMA EvaluationInit == Init => EvaluationInv
<1> SUFFICES ASSUME Init
             PROVE  EvaluationInv
  OBVIOUS
<1>1. RowsOK
  BY EvaluationAssumption, FS_EmptySet DEF Init, RowsOK
<1>2. CacheOK
  BY DEF Init, CacheOK, NoFunction
<1>3. BreachesOK
  BY FS_EmptySet DEF Init, Silent, BreachesOK
<1> QED
  BY <1>1, <1>2, <1>3 DEF EvaluationInv

(* Between analyses nothing is reported.                                   *)
LEMMA SilentIsOK ==
  ASSUME report' = Silent
  PROVE  BreachesOK'
BY FS_EmptySet DEF Silent, BreachesOK

(* A new sample is younger than what entries of the cache answer for.      *)
LEMMA StoreInvariance ==
  ASSUME EvaluationInv, NEW s \in Sample, Store(s)
  PROVE  EvaluationInv'
<1> DEFINE row == [eqp |-> s.eqp, proc |-> s.proc, metric |-> s.metric,
                   value |-> s.value, time |-> now]
<1>1. /\ rows' = rows \cup {row} /\ now' = now /\ names' = names
      /\ failedAt' = failedAt /\ report' = Silent
  BY DEF Store
<1>2. s.value \in Int \cup {Null}
  BY EvaluationAssumption
<1>3. RowsOK'
  <2>1. IsFiniteSet(rows')
    BY <1>1, FS_AddElement DEF EvaluationInv, RowsOK
  <2> QED
    BY <1>1, <1>2, <2>1 DEF EvaluationInv, RowsOK
<1>4. CacheOK'
  <2>1. ASSUME NEW k \in DOMAIN names
        PROVE  names[k].until \in Int /\ (Negative(k)' \/ Complete(k)')
    <3>1. names[k].until \in Int /\ (Negative(k) \/ Complete(k))
      BY DEF EvaluationInv, CacheOK
    <3>2. CASE Negative(k)
      BY <1>1, <3>1, <3>2 DEF Negative
    <3>3. CASE Complete(k)
      <4>1. ~(row.time + PositiveTtl < names[k].until)
        BY <3>1, <3>3, EvaluationAssumption DEF Complete, EvaluationInv, RowsOK
      <4> HIDE DEF row
      <4>2. \A r \in rows' : r.time + PositiveTtl < names[k].until /\ UnderKey(k, r)
                               => r.metric \in names[k].found
        BY <1>1, <3>3, <4>1 DEF Complete
      <4>3. Complete(k)'
        BY <1>1, <3>3, <4>2 DEF Complete, UnderKey, Day
      <4> QED
        BY <3>1, <4>3
    <3> QED
      BY <3>1, <3>2, <3>3
  <2> QED
    BY <1>1, <2>1 DEF EvaluationInv, CacheOK
<1> QED
  BY <1>1, <1>3, <1>4, SilentIsOK DEF EvaluationInv

(* Time passes: entries of the cache only grow older.                      *)
LEMMA MinuteInvariance ==
  ASSUME EvaluationInv, Minute
  PROVE  EvaluationInv'
<1>1. /\ rows' = rows /\ now' = now + 1 /\ names' = names
      /\ failedAt' = failedAt /\ report' = Silent /\ now \in Int
  BY DEF Minute, EvaluationInv, RowsOK
<1>2. RowsOK'
  BY <1>1 DEF EvaluationInv, RowsOK
<1>3. CacheOK'
  <2>1. ASSUME NEW k \in DOMAIN names
        PROVE  names[k].until \in Int /\ (Negative(k)' \/ Complete(k)')
    <3>1. names[k].until \in Int /\ (Negative(k) \/ Complete(k))
      BY DEF EvaluationInv, CacheOK
    <3>2. CASE Negative(k)
      BY <1>1, <3>1, <3>2 DEF Negative
    <3>3. CASE Complete(k)
      <4>1. names[k].until <= now' + PositiveTtl
        BY <1>1, <3>1, <3>3, EvaluationAssumption DEF Complete
      <4>2. Complete(k)'
        BY <1>1, <3>3, <4>1 DEF Complete, UnderKey, Day
      <4> QED
        BY <3>1, <4>2
    <3> QED
      BY <3>1, <3>2, <3>3
  <2>2. failedAt' # Null => failedAt' <= now'
    BY <1>1 DEF EvaluationInv, CacheOK
  <2> QED
    BY <1>1, <2>1, <2>2 DEF EvaluationInv, CacheOK
<1> QED
  BY <1>1, <1>2, <1>3, SilentIsOK DEF EvaluationInv

(* The measures of some ids.                                               *)
MeasuresAt(ids) == {Measure[i] : i \in ids}

(* What an analysis changes: it looks up the names for the measures it has *)
(* come to, and if it comes to the end it reports the breaches.            *)
LEMMA AnalyseParts ==
  ASSUME NEW tick, NEW fault, Analyse(tick, fault)
  PROVE  /\ now' = now /\ rows' = rows /\ report'.tick = tick
         /\ \E done \in SUBSET Computed(tick), down \in BOOLEAN :
              /\ names' = LookUp(MeasuresAt(done), down)
              /\ failedAt' = IF Lost(MeasuresAt(done), down) # {}
                               THEN now ELSE failedAt
              /\ \/ report'.ok = FALSE /\ report'.breaches = {}
                 \/ /\ report'.ok = TRUE /\ done = Computed(tick)
                    /\ report'.breaches
                         = EvaluateBucket(tick, Readings(tick, names'))
<1> DEFINE down == (fault = "names")
<1>1. now' = now /\ rows' = rows
  BY DEF Analyse
<1>2. PICK done \in SUBSET Computed(tick) :
        LET ms == {Measure[i] : i \in done}
            cache == LookUp(ms, down)
            searched == {m \in ms : Resolved(m, cache) # {}}
            lacking == {m \in searched : ~Exists(ResolveIndexRange(m))}
            ok == fault # "search" /\ lacking = {}
        IN  /\ ok => done = Computed(tick)
            /\ names' = cache
            /\ failedAt' = IF Lost(ms, down) # {} THEN now ELSE failedAt
            /\ report' = [tick |-> tick, ok |-> ok, breaches |->
                 IF ~ok THEN {}
                 ELSE EvaluateBucket(tick, UNION
                        {ComputeMeasure(i, Resolved(Measure[i], cache)) :
                           i \in Computed(tick)})]
  BY DEF Analyse
<1> DEFINE ms == MeasuresAt(done)
           searched == {m \in ms : Resolved(m, names') # {}}
           lacking == {m \in searched : ~Exists(ResolveIndexRange(m))}
           ok == fault # "search" /\ lacking = {}
<1>3. /\ ok => done = Computed(tick)
      /\ names' = LookUp(ms, down)
      /\ failedAt' = IF Lost(ms, down) # {} THEN now ELSE failedAt
      /\ report' = [tick |-> tick, ok |-> ok, breaches |->
           IF ~ok THEN {} ELSE EvaluateBucket(tick, Readings(tick, names'))]
  BY <1>2 DEF MeasuresAt, Readings
<1> HIDE DEF ok, ms
<1>4. ok \in BOOLEAN /\ down \in BOOLEAN
  BY DEF ok
<1>5. report'.tick = tick
  BY <1>3
<1>6. \/ report'.ok = FALSE /\ report'.breaches = {}
      \/ /\ report'.ok = TRUE /\ done = Computed(tick)
         /\ report'.breaches = EvaluateBucket(tick, Readings(tick, names'))
  BY <1>3, <1>4
<1> HIDE DEF down
<1> QED
  BY <1>1, <1>3, <1>4, <1>5, <1>6 DEF ms

(* Lookups leave entries that are due to a failure or complete.            *)
LEMMA CacheInvariance ==
  ASSUME EvaluationInv, NEW tick \in Tick, NEW fault, Analyse(tick, fault)
  PROVE  CacheOK'
<1>1a. PICK done \in SUBSET Computed(tick), down \in BOOLEAN :
         /\ names' = LookUp(MeasuresAt(done), down)
         /\ failedAt' = IF Lost(MeasuresAt(done), down) # {} THEN now ELSE failedAt
  BY AnalyseParts
<1> DEFINE ms == MeasuresAt(done)
<1>1. /\ now' = now /\ rows' = rows /\ names' = LookUp(ms, down)
      /\ failedAt' = IF Lost(ms, down) # {} THEN now ELSE failedAt
  BY <1>1a, AnalyseParts
<1>2. /\ now \in Int /\ PositiveTtl \in Nat /\ NegativeTtl \in Nat \ {0}
      /\ failedAt \in Int \cup {Null} /\ (failedAt # Null => failedAt <= now)
      /\ Null \notin Int
  BY EvaluationAssumption DEF EvaluationInv, RowsOK, CacheOK
<1> HIDE DEF ms
<1>3. ASSUME NEW k \in DOMAIN LookUp(ms, down)
      PROVE  names'[k].until \in Int /\ (Negative(k)' \/ Complete(k)')
  <2>1. CASE k \in Live(names) /\ LookUp(ms, down)[k] = names[k]
    <3>1. names'[k] = names[k] /\ k \in DOMAIN names
      BY <1>1, <2>1 DEF Live
    <3>2. names[k].until \in Int /\ (Negative(k) \/ Complete(k))
      BY <3>1 DEF EvaluationInv, CacheOK
    <3>3. CASE Negative(k)
      BY <1>1, <1>2, <3>1, <3>2, <3>3 DEF Negative
    <3>4. CASE Complete(k)
      <4>1. Complete(k)'
        BY <1>1, <3>1, <3>4 DEF Complete, UnderKey, Day
      <4> QED
        BY <3>1, <3>2, <4>1
    <3> QED
      BY <3>2, <3>3, <3>4
  <2>2. CASE /\ Lost(ms, down) # {}
             /\ LookUp(ms, down)[k] = [found |-> {}, until |-> now + NegativeTtl]
    BY <1>1, <1>2, <2>2 DEF Negative
  <2>3. CASE \E m \in Asked(ms) :
               /\ Key(m) = k /\ m \notin Lost(ms, down)
               /\ LookUp(ms, down)[k]
                    = [found |-> Discovered(m), until |-> now + PositiveTtl]
    <3>1. PICK m \in Asked(ms) :
            Key(m) = k /\ names'[k] = [found |-> Discovered(m),
                                       until |-> now + PositiveTtl]
      BY <1>1, <2>3
    <3>2. ASSUME NEW r \in rows, UnderKey(k, r)
          PROVE  r.metric \in names'[k].found
      <4>1. Day(r.time) \in ResolveIndexRange(m) /\ Selects(m, r)
        BY <3>1, <3>2, SelectsIsUnderKey
      <4> QED
        BY <3>1, <4>1 DEF Discovered
    <3>3. names'[k].until = now + PositiveTtl
      BY <3>1
    <3>4. Complete(k)'
      BY <1>1, <1>2, <3>2, <3>3 DEF Complete, UnderKey, Day
    <3> QED
      BY <1>2, <3>3, <3>4
  <2> QED
    BY <2>1, <2>2, <2>3, LookedUp
<1>4. failedAt' \in Int \cup {Null} /\ (failedAt' # Null => failedAt' <= now')
  BY <1>1, <1>2
<1> QED
  BY <1>1, <1>3, <1>4 DEF CacheOK

(* An analysis keeps the invariant.                                        *)
LEMMA AnalyseInvariance ==
  ASSUME EvaluationInv, NEW tick \in Tick, NEW fault, Analyse(tick, fault)
  PROVE  EvaluationInv'
<1> DEFINE found == EvaluateBucket(tick, Readings(tick, names'))
<1>1. /\ now' = now /\ rows' = rows /\ report'.breaches \in {{}, found}
  BY AnalyseParts
<1>2. RowsOK /\ RowsOK'
  BY <1>1 DEF EvaluationInv, RowsOK
<1>3. IsFiniteSet(found)
  BY <1>2, AllReadingsFinite, BreachesFinite
<1>4. \A b \in found : b.value \in Int /\ b.target[1] \in EqpIds
  BY <1>2, BreachReports
<1> HIDE DEF found
<1>5. IsFiniteSet(report'.breaches)
  BY <1>1, <1>3, FS_EmptySet
<1>6. \A b \in report'.breaches : b.value \in Int /\ b.target[1] \in Int
  BY <1>1, <1>4, EvaluationAssumption
<1>7. BreachesOK'
  BY <1>5, <1>6 DEF BreachesOK
<1> QED
  BY <1>2, <1>7, CacheInvariance DEF EvaluationInv

(* Every step keeps it.                                                    *)
LEMMA EvaluationStep ==
  ASSUME EvaluationInv, [Next]_vars
  PROVE  EvaluationInv'
<1>1. CASE Next
  BY <1>1, StoreInvariance, MinuteInvariance, AnalyseInvariance DEF Next
<1>2. CASE UNCHANGED vars
  BY <1>2 DEF vars, EvaluationInv, RowsOK, CacheOK, BreachesOK, Negative,
              Complete, UnderKey, Day
<1> QED
  BY <1>1, <1>2

(* The rows and the cache are well formed, an entry of the cache is either *)
(* due to a failed lookup or complete for all that is older than the time  *)
(* names are cached (client.py, get_metric_names), and what an analysis    *)
(* reports are finitely many numbers.                                      *)
THEOREM EvaluationInvariance == Spec => []EvaluationInv
<1>1. Init => EvaluationInv
  BY EvaluationInit
<1>2. EvaluationInv /\ [Next]_vars => EvaluationInv'
  BY EvaluationStep
<1> QED
  BY <1>1, <1>2, PTL DEF Spec

(* A table cut to its limit leaves out nothing worse than what it shows    *)
(* and counts the rest, for every profile and every limit.                 *)
THEOREM CapAlwaysKeepsWorst == Spec => []CapKeepsWorst
<1>1. EvaluationInv => CapKeepsWorst
  BY CapFollows DEF EvaluationInv
<1> QED
  BY <1>1, EvaluationInvariance, PTL

-----------------------------------------------------------------------------
(* What is reported is the worst.                                          *)

(* An analysis that looks up the names it needs first reports the worst.   *)
LEMMA AnalyseReportsWorst ==
  ASSUME EvaluationInv, WindowsFit, NEW tick \in Tick, NEW fault,
         Analyse(tick, fault)
  PROVE  ReportsWorst'
<1> DEFINE found == EvaluateBucket(tick, Readings(tick, names'))
           all == MeasuresAt(Computed(tick))
<1>0. SUFFICES ASSUME report'.breaches # {}
               PROVE  ReportsWorst'
  BY DEF ReportsWorst
<1>1. PICK down \in BOOLEAN :
        /\ now' = now /\ rows' = rows /\ names' = LookUp(all, down)
        /\ failedAt' = IF Lost(all, down) # {} THEN now ELSE failedAt
        /\ report'.breaches = found
  BY <1>0, AnalyseParts
<1>2. RowsOK /\ CacheOK
  BY DEF EvaluationInv
<1>3. ASSUME NEW b \in report'.breaches
      PROVE  LET c == b.rule.when[b.cond]
                 m == Measure[c.measure]
                 f == CHOOSE x \in m.facts : x.type = c.fact
                 further(v) == \/ c.op \in {">", ">="} /\ OpCompare(v, ">", b.value)
                               \/ c.op \in {"<", "<="} /\ OpCompare(v, "<", b.value)
             IN  /\ OpCompare(b.value, c.op, c.value)
                 /\ \A i \in (IF m.expand THEN Settled(m)' ELSE {"all"}) :
                      HasData(f, Window(m, b.target, i))
                        => ~further(FactValue(f, Window(m, b.target, i)))
  <2> DEFINE c == b.rule.when[b.cond]
             m == Measure[c.measure]
             f == CHOOSE x \in m.facts : x.type = c.fact
  <2>1. b \in found
    <3> HIDE DEF found
    <3> QED
      BY <1>1
  <2>2. /\ OpCompare(b.value, c.op, c.value)
        /\ c.measure \in Computed(tick)
        /\ \A i \in Known(m, names') :
             HasData(f, Window(m, b.target, i))
                  => LET v == FactValue(f, Window(m, b.target, i))
                     IN  /\ ~(c.op \in {">", ">="} /\ OpCompare(v, ">", b.value))
                         /\ ~(c.op \in {"<", "<="} /\ OpCompare(v, "<", b.value))
    BY <1>2, <2>1, NothingFurther
  <2>3. m \in all
    BY <2>2 DEF MeasuresAt
  <2> HIDE DEF all, c, m, f
  <2>4. ASSUME NEW i \in (IF m.expand THEN Settled(m)' ELSE {"all"})
        PROVE  i \in Known(m, names')
    <3>1. CASE m.expand
      <4>1. i \in Settled(m)'
        BY <3>1
      <4> QED
        BY <1>1, <1>2, <2>3, <3>1, <4>1, SettledIsFound DEF Known
    <3>2. CASE ~m.expand
      BY <3>2 DEF Known
    <3> QED
      BY <3>1, <3>2
  <2> QED
    BY <2>2, <2>4 DEF c, m, f
<1>4. \A m, t, i : Window(m, t, i)' = Window(m, t, i)
  BY <1>1 DEF Window
<1> HIDE DEF found
<1> QED
  BY <1>3, <1>4 DEF ReportsWorst

(* threshold.py:65, for every profile whose windows are at most a day      *)
(* long: what a breach reports is over its threshold, and no instance the  *)
(* analysis has to know of is further out.                                 *)
THEOREM WorstIsReported == ASSUME WindowsFit PROVE Spec => []ReportsWorst
<1>1. Init => ReportsWorst
  <2>1. Init => report.breaches = {}
    BY DEF Init, Silent
  <2> QED
    BY <2>1 DEF ReportsWorst
<1>2. EvaluationInv /\ ReportsWorst /\ [Next]_vars => ReportsWorst'
  <2> SUFFICES ASSUME EvaluationInv, ReportsWorst, [Next]_vars
               PROVE  ReportsWorst'
    OBVIOUS
  <2>1. CASE report' = Silent
    <3>1. report'.breaches = {}
      BY <2>1 DEF Silent
    <3> QED
      BY <3>1 DEF ReportsWorst
  <2>2. CASE \E tick \in Tick, fault \in {"none", "names", "search"} :
               Analyse(tick, fault)
    BY <2>2, AnalyseReportsWorst
  <2>3. CASE UNCHANGED vars
    <3>1. UNCHANGED <<now, rows, report, failedAt>>
      BY <2>3 DEF vars
    <3>2. \A m, t, i : Window(m, t, i)' = Window(m, t, i)
      BY <3>1 DEF Window
    <3>3. \A m : Settled(m)' = Settled(m)
      BY <3>1 DEF Settled, ResolveIndexRange
    <3> QED
      BY <3>1, <3>2, <3>3 DEF ReportsWorst
  <2> QED
    BY <2>1, <2>2, <2>3 DEF Next, Store, Minute
<1> QED
  BY <1>1, <1>2, EvaluationInvariance, PTL DEF Spec

(* queries.py:117, for windows of at most a day: today's index and the one *)
(* of the day the window starts on hold everything in between.             *)
THEOREM IndexesCoverWindow ==
  ASSUME WindowsFit
  PROVE  Spec => []IndexCoversWindow
<1>1. EvaluationInv => IndexCoversWindow
  <2> SUFFICES ASSUME EvaluationInv, NEW id \in DOMAIN Measure,
                      NEW t \in (now - Measure[id].window)..now
               PROVE  Day(t) \in ResolveIndexRange(Measure[id])
    BY DEF IndexCoversWindow
  <2> DEFINE w == Measure[id].window
  <2>1. w \in Int /\ w <= DayLen /\ DayLen \in Nat /\ now \in Int
    BY ProfileAssumption, EvaluationAssumption
       DEF WindowsFit, EvaluationInv, RowsOK, IsMeasure
  <2>2. t \in (now - w)..now
    OBVIOUS
  <2> HIDE DEF w
  <2>3. /\ now - w \in Int /\ t \in Int /\ now - w <= t /\ t <= now
        /\ now <= (now - w) + DayLen
    BY <2>1, <2>2
  <2>4. Day(t) \in {Day(now - w), Day(now)}
    BY <2>1, <2>3, DayBetween
  <2> QED
    BY <2>4 DEF ResolveIndexRange, w
<1> QED
  BY <1>1, EvaluationInvariance, PTL

-----------------------------------------------------------------------------
(* The samples.                                                            *)

(* There are at most MaxSample, each is one of those equipment may report, *)
(* and no metric is reported twice at a time.                              *)
SamplesOK ==
  /\ left \in [sample : Nat, fail : Nat]
  /\ Cardinality(rows) + left.sample <= MaxSample
  /\ \A r \in rows : \E s \in Sample :
       r.proc = s.proc /\ r.metric = s.metric /\ r.value = s.value
  /\ \A x, y \in rows :
       /\ x.eqp = y.eqp /\ x.proc = y.proc
       /\ x.metric = y.metric /\ x.time = y.time
       => x = y

(* Nothing is stored to begin with.                                        *)
LEMMA SamplesInit == Init => SamplesOK
BY EvaluationAssumption, FS_EmptySet DEF Init, SamplesOK

(* A sample uses up one of those that are left.                            *)
LEMMA StoreSamples ==
  ASSUME RowsOK, SamplesOK, NEW s \in Sample, Store(s)
  PROVE  SamplesOK'
<1> DEFINE row == [eqp |-> s.eqp, proc |-> s.proc, metric |-> s.metric,
                   value |-> s.value, time |-> now]
<1>1. /\ rows' = rows \cup {row} /\ left.sample > 0
      /\ left' = [left EXCEPT !.sample = @ - 1]
      /\ \A r \in rows : <<r.eqp, r.proc, r.metric, r.time>>
                           # <<s.eqp, s.proc, s.metric, now>>
  BY DEF Store
<1>2. left' \in [sample : Nat, fail : Nat] /\ left'.sample = left.sample - 1
  BY <1>1 DEF SamplesOK
<1>3. Cardinality(rows') + left'.sample <= MaxSample
  <2>1. IsFiniteSet(rows) /\ IsFiniteSet(rows')
    BY <1>1, FS_AddElement DEF RowsOK
  <2>2. Cardinality(rows') = Cardinality(rows)
          \/ Cardinality(rows') = Cardinality(rows) + 1
    <3> HIDE DEF row
    <3> QED
      BY <1>1, <2>1, FS_AddElement
  <2>3. Cardinality(rows) \in Nat /\ MaxSample \in Nat /\ left.sample \in Nat
    BY <2>1, FS_CardinalityType, EvaluationAssumption DEF SamplesOK
  <2> QED
    BY <1>2, <2>2, <2>3 DEF SamplesOK
<1>4. ASSUME NEW r \in rows'
      PROVE  \E x \in Sample :
               r.proc = x.proc /\ r.metric = x.metric /\ r.value = x.value
  <2>1. CASE r \in rows
    BY <2>1 DEF SamplesOK
  <2>2. CASE r = row
    BY <2>2
  <2> QED
    BY <1>1, <2>1, <2>2
<1>5. \A r \in rows : ~(/\ r.eqp = row.eqp /\ r.proc = row.proc
                        /\ r.metric = row.metric /\ r.time = row.time)
  BY <1>1
<1>6. ASSUME NEW x \in rows', NEW y \in rows', x.eqp = y.eqp, x.proc = y.proc,
             x.metric = y.metric, x.time = y.time
      PROVE  x = y
  <2> HIDE DEF row
  <2>1. CASE x \in rows /\ y \in rows
    BY <1>6, <2>1 DEF SamplesOK
  <2>2. CASE x = row \/ y = row
    BY <1>1, <1>5, <1>6, <2>2
  <2> QED
    BY <1>1, <2>1, <2>2
<1> QED
  BY <1>2, <1>3, <1>4, <1>6 DEF SamplesOK

(* No other step touches them.                                             *)
LEMMA SamplesStep ==
  ASSUME RowsOK, SamplesOK, [Next]_vars
  PROVE  SamplesOK'
<1>1. CASE \E s \in Sample : Store(s)
  BY <1>1, StoreSamples
<1>2. ASSUME NEW tick, NEW fault, Analyse(tick, fault)
      PROVE  SamplesOK'
  <2>1. /\ rows' = rows /\ (fault # "none" => left.fail > 0)
        /\ left' = [left EXCEPT !.fail = IF fault = "none" THEN @ ELSE @ - 1]
    BY <1>2 DEF Analyse
  <2>2. left' \in [sample : Nat, fail : Nat] /\ left'.sample = left.sample
    BY <2>1 DEF SamplesOK
  <2> QED
    BY <2>1, <2>2 DEF SamplesOK
<1>3. CASE Minute \/ UNCHANGED vars
  BY <1>3 DEF Minute, vars, SamplesOK
<1> QED
  BY <1>1, <1>2, <1>3 DEF Next

(* So it is of every reachable state.                                      *)
LEMMA SamplesInvariance == Spec => []SamplesOK
<1>1. EvaluationInv /\ SamplesOK /\ [Next]_vars => SamplesOK'
  BY SamplesStep DEF EvaluationInv
<1> QED
  BY <1>1, SamplesInit, EvaluationInvariance, PTL DEF Spec

-----------------------------------------------------------------------------
(* What a fact says about the samples of a window.                         *)

(* The comparisons.                                                        *)
Ops == {">=", ">", "<=", "<", "==", "!="}

(* The fact is found where there is data and passes where the samples mean *)
(* it.                                                                     *)
Says(f, rs, op, th) ==
  /\ FactValue(f, rs) # Null <=> HasData(f, rs)
  /\ HasData(f, rs) =>
       (OpCompare(FactValue(f, rs), op, th) <=> Means(f, op, th, rs))

(* The values of finitely many samples.                                    *)
LEMMA ValuesFinite ==
  ASSUME RowsOK, NEW rs \in SUBSET rows
  PROVE  /\ IsFiniteSet(Valued(rs)) /\ IsFiniteSet(rs)
         /\ \A r \in Valued(rs) : r.value \in Int
         /\ IsFiniteSet({r.value : r \in Valued(rs)})
         /\ {r.value : r \in Valued(rs)} \subseteq Int
<1> DEFINE vs == Valued(rs)
           g == [r \in vs |-> r.value]
<1>1. vs \in SUBSET rows
  BY DEF Valued
<1>2. IsFiniteSet(vs) /\ IsFiniteSet(rs)
  BY <1>1, FS_Subset DEF RowsOK
<1>3. \A r \in vs : r.value \in Int
  BY DEF RowsOK, Valued
<1>4. IsFiniteSet({g[r] : r \in vs})
  <2> HIDE DEF g, vs
  <2> QED
    BY <1>2, FiniteImage
<1>5. {g[r] : r \in vs} = {r.value : r \in vs}
  OBVIOUS
<1> QED
  BY <1>2, <1>3, <1>4, <1>5

(* max and min: a sample no other is beyond has the value.                 *)
LEMMA ExtremeSays ==
  ASSUME RowsOK, NEW rs \in SUBSET rows, NEW f, f.type \in {"max", "min"},
         NEW op \in Ops, NEW th \in Int
  PROVE  Says(f, rs, op, th)
<1> DEFINE vs == Valued(rs)
           values == {r.value : r \in vs}
           w == IF f.type = "max" THEN Max(values) ELSE Min(values)
           least == f.type = "min"
<1>1. HasData(f, rs) <=> vs # {}
  BY DEF HasData, Implemented
<1>2. CASE vs = {}
  <2>1. FactValue(f, rs) = Null
    BY <1>2 DEF FactValue, Valued
  <2> QED
    BY <1>1, <1>2, <2>1 DEF Says
<1>3. CASE vs # {}
  <2>1. FactValue(f, rs) = w
    BY <1>3 DEF FactValue, Valued
  <2>2. IsFiniteSet(values) /\ values # {} /\ values \subseteq Int
    BY <1>3, ValuesFinite
  <2>3. /\ w \in values
        /\ \A y \in values : IF least THEN w <= y ELSE y <= w
    <3> HIDE DEF values
    <3> QED
      BY <2>2, MaxMinExist
  <2> HIDE DEF w
  <2>4. w \in Int /\ w # Null
    BY <2>2, <2>3, EvaluationAssumption
  <2> DEFINE Beyond(r) ==
               \A x \in vs : IF least THEN r.value <= x.value ELSE x.value <= r.value
  <2>5. Means(f, op, th, rs) <=> \E r \in rs : OpCompare(r.value, op, th) /\ Beyond(r)
    BY DEF Means
  <2>6. ASSUME OpCompare(w, op, th)
        PROVE  \E r \in rs : OpCompare(r.value, op, th) /\ Beyond(r)
    <3>1. PICK r \in vs : r.value = w
      BY <2>3
    <3>2. r \in rs /\ Beyond(r)
      BY <2>3, <3>1 DEF Valued
    <3> QED
      BY <2>6, <3>1, <3>2
  <2>7. ASSUME NEW r \in rs, OpCompare(r.value, op, th), Beyond(r)
        PROVE  OpCompare(w, op, th)
    <3>1. r \in vs /\ r.value \in Int /\ r.value \in values
      BY <2>7, ValuesFinite DEF OpCompare, Valued
    <3>2. PICK x \in vs : x.value = w
      BY <2>3
    <3>3. IF least THEN w <= r.value /\ r.value <= w ELSE r.value <= w /\ w <= r.value
      BY <2>3, <2>7, <3>1, <3>2
    <3>4. r.value = w
      BY <2>4, <3>1, <3>3
    <3> QED
      BY <2>7, <3>4
  <2> QED
    BY <1>1, <1>3, <2>1, <2>4, <2>5, <2>6, <2>7 DEF Says
<1> QED
  BY <1>2, <1>3

(* spike_count: the samples on the side of the limit that counts.          *)
LEMMA SpikesSay ==
  ASSUME RowsOK, NEW rs \in SUBSET rows, rs # {}, NEW f,
         f.type = "spike_count", NEW op \in Ops, NEW th \in Int
  PROVE  Says(f, rs, op, th)
<1> DEFINE spikes == {r \in {x \in rs : x.value # Null} :
                        IF f.direction = "above" THEN r.value >= f.over
                                                 ELSE r.value <= f.over}
           edge == IF f.direction = "above" THEN ">=" ELSE "<="
           meant == {r \in rs : OpCompare(r.value, edge, f.over)}
<1>1. spikes = meant
  BY DEF OpCompare
<1>2. FactValue(f, rs) = Digit * Cardinality(spikes)
  BY DEF FactValue
<1>3. Means(f, op, th, rs) <=> OpCompare(Digit * Cardinality(meant), op, th)
  BY DEF Means
<1>4. HasData(f, rs)
  BY DEF HasData
<1>5. FactValue(f, rs) # Null
  <2>1. spikes \in SUBSET rs
    OBVIOUS
  <2>2. IsFiniteSet(spikes)
    BY <2>1, ValuesFinite, FS_Subset
  <2>3. Cardinality(spikes) \in Nat /\ Digit \in Nat /\ Null \notin Int
    BY <2>2, FS_CardinalityType, EvaluationAssumption
  <2> HIDE DEF spikes
  <2> QED
    BY <1>2, <2>3
<1> HIDE DEF spikes, meant
<1> QED
  BY <1>1, <1>2, <1>3, <1>4, <1>5 DEF Says

(* Samples of one instance at one target differ in their time.             *)
LEMMA OneAtATime ==
  ASSUME SamplesOK, NEW id \in DOMAIN Measure, NEW t, NEW i,
         NEW x \in Window(Measure[id], t, i), NEW y \in Window(Measure[id], t, i),
         x.time = y.time
  PROVE  x = y
<1> DEFINE m == Measure[id]
<1>1. m.expand \in BOOLEAN
      /\ (~m.expand => \A a, b \in Pattern[m.metric] : a[1] = b[1] => a = b)
  BY ProfileAssumption DEF IsMeasure
<1>2. /\ x \in rows /\ y \in rows /\ x.eqp = y.eqp
      /\ Selects(m, x) /\ Selects(m, y)
      /\ x.metric \in Pattern[m.metric] /\ y.metric \in Pattern[m.metric]
      /\ (m.proc = "*" => x.proc = t[2] /\ y.proc = t[2])
      /\ (m.expand => x.metric = i /\ y.metric = i)
  BY DEF Window
<1>3. x.proc = y.proc
  BY <1>2 DEF Selects
<1>4. x.metric = y.metric
  BY <1>1, <1>2 DEF Selects
<1> QED
  BY <1>2, <1>3, <1>4 DEF SamplesOK

(* last: the newest sample, if it has a value.                             *)
LEMMA LastSays ==
  ASSUME RowsOK, SamplesOK, NEW id \in DOMAIN Measure, NEW t, NEW i,
         Window(Measure[id], t, i) # {}, NEW f, f.type = "last",
         NEW op \in Ops, NEW th \in Int
  PROVE  Says(f, Window(Measure[id], t, i), op, th)
<1> DEFINE rs == Window(Measure[id], t, i)
           times == {r.time : r \in rs}
           g == [r \in rs |-> r.time]
           Newest(r) == \A x \in rs : x.time <= r.time
           w == CHOOSE r \in rs : \A x \in rs : x.time <= r.time
<1>1. rs \in SUBSET rows
  BY DEF Window
<1>2. \A x, y \in rs : x.time = y.time => x = y
  BY OneAtATime
<1> HIDE DEF rs
<1>3. \A r \in rs : r.time \in Int
  BY <1>1 DEF RowsOK
<1>4. \E r \in rs : Newest(r)
  <2>1. IsFiniteSet(rs)
    BY <1>1, ValuesFinite
  <2>2. IsFiniteSet({g[r] : r \in rs})
    <3> HIDE DEF g
    <3> QED
      BY <2>1, FiniteImage
  <2>3. times = {g[r] : r \in rs}
    OBVIOUS
  <2>4. IsFiniteSet(times) /\ times # {} /\ times \subseteq Int
    BY <1>3, <2>2, <2>3 DEF rs
  <2>5. Max(times) \in times /\ \A y \in times : y <= Max(times)
    <3> HIDE DEF times
    <3> QED
      BY <2>4, MaxMinExist
  <2> QED
    BY <2>5
<1>5. w \in rs /\ Newest(w)
  BY <1>4
<1>6. FactValue(f, rs) = w.value
  BY DEF FactValue
<1> HIDE DEF w
<1>7. \A r \in rs : Newest(r) => r = w
  <2> SUFFICES ASSUME NEW r \in rs, Newest(r)
               PROVE  r = w
    OBVIOUS
  <2>1. r.time <= w.time /\ w.time <= r.time /\ r.time \in Int /\ w.time \in Int
    BY <1>3, <1>5
  <2>2. r.time = w.time
    BY <2>1
  <2> QED
    BY <1>2, <1>5, <2>2
<1>8. HasData(f, rs) <=> \E r \in Valued(rs) : Newest(r)
  BY DEF HasData
<1>9. Means(f, op, th, rs) <=> \E r \in rs : OpCompare(r.value, op, th) /\ Newest(r)
  BY DEF Means
<1>10. HasData(f, rs) <=> w.value # Null
  BY <1>5, <1>7, <1>8 DEF Valued
<1>11. Means(f, op, th, rs) <=> OpCompare(w.value, op, th)
  BY <1>5, <1>7, <1>9
<1>12. Says(f, rs, op, th)
  BY <1>6, <1>10, <1>11 DEF Says
<1> QED
  BY <1>12 DEF rs

(* A mean is beyond a threshold when the sum of the excesses is beyond 0.  *)
LEMMA MeanOfExcess ==
  ASSUME NEW n \in Nat \ {0}, NEW q \in Int, NEW th \in Int, NEW op \in Ops
  PROVE  OpCompare(q, op, th) <=> OpCompare(n * q - th * n, op, 0)
<1> DEFINE d == q - th
           e == n * q - th * n
<1>1. d \in Int /\ e \in Int /\ e = n * d
  OBVIOUS
<1> HIDE DEF d, e
<1>2. (e > 0 <=> d > 0) /\ (e = 0 <=> d = 0) /\ (e < 0 <=> d < 0)
  BY <1>1
<1>3. (q > th <=> e > 0) /\ (q = th <=> e = 0) /\ (q < th <=> e < 0)
  BY <1>2 DEF d
<1>4. /\ q # Null /\ e # Null
      /\ (q >= th <=> q > th \/ q = th) /\ (q <= th <=> q < th \/ q = th)
      /\ (e >= 0 <=> e > 0 \/ e = 0) /\ (e <= 0 <=> e < 0 \/ e = 0)
  BY <1>1, EvaluationAssumption
<1>5. OpCompare(q, op, th) <=> OpCompare(e, op, 0)
  BY <1>3, <1>4 DEF OpCompare, Ops
<1> QED
  BY <1>5 DEF e

(* avg: the sum of what the samples are above the threshold decides.       *)
LEMMA MeanSays ==
  ASSUME RowsOK, SamplesOK, NEW id \in DOMAIN Measure,
         NEW rs \in SUBSET rows, \A r \in rs : Selects(Measure[id], r),
         NEW f \in Measure[id].facts, f.type = "avg", NEW op \in Ops, NEW th \in Int
  PROVE  Says(f, rs, op, th)
<1> DEFINE vs == Valued(rs)
           n == Cardinality(vs)
           total == MapThenSumSet(LAMBDA r : r.value, vs)
           excess == MapThenSumSet(LAMBDA r : r.value - th, vs)
<1>1. HasData(f, rs) <=> vs # {}
  BY DEF HasData, Implemented
<1>2. CASE vs = {}
  <2>1. FactValue(f, rs) = Null
    BY <1>2 DEF FactValue, Valued
  <2> QED
    BY <1>1, <1>2, <2>1 DEF Says
<1>3. CASE vs # {}
  <2>1. FactValue(f, rs) = total \div n
    BY <1>3 DEF FactValue, Valued
  <2>2. Means(f, op, th, rs) <=> OpCompare(excess, op, 0)
    BY DEF Means
  <2>3. /\ IsFiniteSet(vs) /\ vs \in SUBSET rows /\ \A r \in vs : r.value \in Int
    BY ValuesFinite DEF Valued
  <2>4. n \in Nat \ {0} /\ n \in 1..MaxSample
    <3>1. n \in Nat /\ n # 0
      BY <1>3, <2>3, FS_CardinalityType, FS_EmptySet
    <3>2. n <= Cardinality(rows) /\ Cardinality(rows) \in Nat
      BY <2>3, FS_Subset, FS_CardinalityType DEF RowsOK
    <3>3. left.sample \in Nat /\ Cardinality(rows) + left.sample <= MaxSample
      BY DEF SamplesOK
    <3>4. MaxSample \in Nat
      BY EvaluationAssumption
    <3> HIDE DEF n
    <3> QED
      BY <3>1, <3>2, <3>3, <3>4
  <2> HIDE DEF n
  <2>5. ASSUME NEW r \in vs
        PROVE  r.value \in Int /\ r.value = n * (r.value \div n)
    <3>1. r \in rows /\ Selects(Measure[id], r) /\ r.value # Null
      BY <2>3 DEF Valued
    <3>2. PICK s \in Sample :
            r.proc = s.proc /\ r.metric = s.metric /\ r.value = s.value
      BY <3>1 DEF SamplesOK
    <3>3. Selects(Measure[id], s)
      BY <3>1, <3>2 DEF Selects
    <3>4. s.value = n * (s.value \div n)
      BY <2>4, <3>1, <3>2, <3>3, UnitAssumption
    <3> QED
      BY <2>3, <3>2, <3>4
  <2>6. PICK q \in Int : total = n * q /\ excess = n * q - th * Cardinality(vs)
    <3> HIDE DEF vs
    <3> QED
      BY <2>3, <2>4, <2>5, SumOfMultiples
  <2>7. excess = n * q - th * n
    BY <2>6 DEF n
  <2> HIDE DEF total, excess
  <2>8. (n * q) \div n = q
    BY <2>4
  <2>9. FactValue(f, rs) = q
    BY <2>1, <2>6, <2>8
  <2>10. OpCompare(q, op, th) <=> OpCompare(excess, op, 0)
    BY <2>4, <2>7, MeanOfExcess
  <2>11. q # Null
    BY EvaluationAssumption
  <2> QED
    BY <1>1, <1>3, <2>2, <2>9, <2>10, <2>11 DEF Says
<1> QED
  BY <1>2, <1>3

(* agg_strategy and _read_fact compute what the fact means.                *)
LEMMA FactSays ==
  ASSUME RowsOK, SamplesOK, NEW id \in DOMAIN Measure, NEW t, NEW i,
         Window(Measure[id], t, i) # {}, NEW f \in Measure[id].facts,
         f.type \in Implemented, NEW op \in Ops, NEW th \in Int
  PROVE  Says(f, Window(Measure[id], t, i), op, th)
<1> DEFINE rs == Window(Measure[id], t, i)
<1>1. rs \in SUBSET rows /\ \A r \in rs : Selects(Measure[id], r)
  BY DEF Window
<1>2. CASE f.type \in {"max", "min"}
  BY <1>1, <1>2, ExtremeSays
<1>3. CASE f.type = "avg"
  BY <1>1, <1>3, MeanSays
<1>4. CASE f.type = "last"
  BY <1>4, LastSays
<1>5. CASE f.type = "spike_count"
  BY <1>1, <1>5, SpikesSay
<1> QED
  BY <1>2, <1>3, <1>4, <1>5 DEF Implemented

-----------------------------------------------------------------------------
(* Conditions and rules.                                                   *)

(* The fact a condition is about.                                          *)
FactOf(c) == CHOOSE x \in Measure[c.measure].facts : x.type = c.fact

(* The instances in pool with data for a condition, those that satisfy it  *)
(* and what the quantifier makes of them.                                  *)
InstAt(c, t, pool) ==
  {i \in pool : HasData(FactOf(c), Window(Measure[c.measure], t, i))}
SatAt(c, t, pool) ==
  {i \in InstAt(c, t, pool) :
     Means(FactOf(c), c.op, c.value, Window(Measure[c.measure], t, i))}
HoldsAmong(c, t, pool) ==
  CASE c.quantifier = "any" -> SatAt(c, t, pool) # {}
    [] c.quantifier = "all" ->
         InstAt(c, t, pool) # {} /\ SatAt(c, t, pool) = InstAt(c, t, pool)
    [] c.quantifier = "count" -> Cardinality(SatAt(c, t, pool)) >= c.count_min

(* A condition is about one of the facts of its measure.                   *)
LEMMA FactIsThere ==
  ASSUME NEW c, IsCondition(c)
  PROVE  /\ c.measure \in DOMAIN Measure
         /\ FactOf(c) \in Measure[c.measure].facts /\ FactOf(c).type = c.fact
         /\ \A g \in Measure[c.measure].facts : g.type = c.fact => g = FactOf(c)
<1> DEFINE m == Measure[c.measure]
           f == FactOf(c)
<1>1. c.measure \in DOMAIN Measure /\ \E x \in m.facts : x.type = c.fact
  BY DEF IsCondition
<1>2. f \in m.facts /\ f.type = c.fact
  BY <1>1 DEF FactOf
<1> HIDE DEF f
<1>3. \A g \in m.facts : g.type = c.fact => g = f
  BY <1>1, <1>2, ProfileAssumption DEF IsMeasure
<1> QED
  BY <1>1, <1>2, <1>3 DEF f

(* Nothing is known of the facts of later phases.                          *)
LEMMA LaterPhase ==
  ASSUME NEW c, IsCondition(c), c.fact \notin Implemented, NEW t, NEW pool
  PROVE  InstAt(c, t, pool) = {} /\ SatAt(c, t, pool) = {}
<1>1. FactOf(c).type \notin Implemented
  BY FactIsThere
<1>2. \A rs : ~HasData(FactOf(c), rs)
  BY <1>1 DEF HasData, Implemented
<1> QED
  BY <1>2 DEF InstAt, SatAt

(* The quantifier, if the readings stand for the instances one by one.     *)
LEMMA SameQuantity ==
  ASSUME NEW c, IsCondition(c), NEW readings, IsFiniteSet(readings),
         NEW t, NEW pool, NEW h,
         h \in Bijection({x \in readings : x.value # Null}, InstAt(c, t, pool)),
         \A x \in readings : x.value # Null =>
           (OpCompare(x.value, c.op, c.value) <=> h[x] \in SatAt(c, t, pool))
  PROVE  Passed(c, readings) <=> HoldsAmong(c, t, pool)
<1> DEFINE P == {x \in readings : x.value # Null}
           Q == Passing(c, readings)
           I == InstAt(c, t, pool)
           S == SatAt(c, t, pool)
           e == [x \in Q |-> h[x]]
<1>1. P \in SUBSET readings /\ Q \in SUBSET P /\ S \in SUBSET I
  BY DEF Passing, OpCompare, SatAt
<1>2. /\ h \in [P -> I] /\ \A x, y \in P : h[x] = h[y] => x = y
      /\ \A i \in I : \E x \in P : h[x] = i
  BY DEF Bijection, Injection, Surjection, IsInjective
<1>3. \A x \in P : x \in Q <=> h[x] \in S
  BY DEF Passing
<1>4. IsFiniteSet(P) /\ IsFiniteSet(Q)
  BY <1>1, FS_Subset
<1>5. IsFiniteSet(I) /\ Cardinality(I) = Cardinality(P)
  <2>1. ExistsBijection(P, I)
    BY DEF ExistsBijection
  <2> HIDE DEF P, I
  <2> QED
    BY <1>4, <2>1, FS_Bijection
<1>6. IsFiniteSet(S) /\ Cardinality(S) = Cardinality(Q)
  <2> HIDE DEF P, Q, I, S
  <2>1. e \in [Q -> S]
    BY <1>1, <1>3
  <2>2. \A x, y \in Q : e[x] = e[y] => x = y
    BY <1>1, <1>2
  <2>3. \A i \in S : \E x \in Q : e[x] = i
    BY <1>1, <1>2, <1>3
  <2>4. e \in Bijection(Q, S)
    BY <2>1, <2>2, <2>3 DEF Bijection, Injection, Surjection, IsInjective
  <2>5. ExistsBijection(Q, S)
    BY <2>4 DEF ExistsBijection
  <2> QED
    BY <1>4, <2>5, FS_Bijection
<1>7. /\ Cardinality(P) \in Nat /\ Cardinality(Q) \in Nat
      /\ (Cardinality(P) = 0 <=> P = {}) /\ (Cardinality(I) = 0 <=> I = {})
      /\ (Cardinality(S) = 0 <=> S = {})
      /\ (Cardinality(I) = Cardinality(S) => I = S)
  <2> HIDE DEF P, Q, I, S
  <2> QED
    BY <1>1, <1>4, <1>5, <1>6, FS_CardinalityType, FS_EmptySet, FS_Subset
<1>8. CASE c.quantifier = "any"
  <2>1. Passed(c, readings) <=> Cardinality(Q) >= 1
    BY <1>8 DEF Passed
  <2>2. HoldsAmong(c, t, pool) <=> S # {}
    BY <1>8 DEF HoldsAmong
  <2> HIDE DEF Q, S
  <2> QED
    BY <1>6, <1>7, <2>1, <2>2
<1>9. CASE c.quantifier = "all"
  <2>1. Passed(c, readings) <=> P # {} /\ Cardinality(Q) = Cardinality(P)
    BY <1>9 DEF Passed
  <2>2. HoldsAmong(c, t, pool) <=> I # {} /\ S = I
    BY <1>9 DEF HoldsAmong
  <2> HIDE DEF P, Q, I, S
  <2> QED
    BY <1>5, <1>6, <1>7, <2>1, <2>2
<1>10. CASE c.quantifier = "count"
  <2>1. Passed(c, readings) <=> Cardinality(Q) >= c.count_min
    BY <1>10 DEF Passed
  <2>2. HoldsAmong(c, t, pool) <=> Cardinality(S) >= c.count_min
    BY <1>10 DEF HoldsAmong
  <2> QED
    BY <1>6, <2>1, <2>2
<1> QED
  BY <1>8, <1>9, <1>10 DEF IsCondition

(* The reading of an instance.                                             *)
ReadingOf(c, t, i) ==
  [measure |-> c.measure, target |-> t, instance |-> i, fact |-> c.fact,
   value |-> FactValue(FactOf(c), Window(Measure[c.measure], t, i))]

(* An instance with data whose name is known has a reading.                *)
LEMMA InstanceIsRead ==
  ASSUME RowsOK, SamplesOK, WindowsFit, NEW tick \in Tick, NEW cache,
         NEW c, IsCondition(c), c.fact \in Implemented,
         c.measure \in Computed(tick), NEW t, IsTarget(Measure[c.measure], t),
         NEW i \in InstAt(c, t, Known(Measure[c.measure], cache))
  PROVE  /\ ReadingOf(c, t, i) \in ReadingsAt(Readings(tick, cache), t, c)
         /\ ReadingOf(c, t, i).value # Null
<1> DEFINE id == c.measure
           m == Measure[id]
           f == FactOf(c)
           metrics == Resolved(m, cache)
           z == ReadingOf(c, t, i)
<1>1. id \in DOMAIN Measure /\ f \in m.facts /\ f.type = c.fact
  BY FactIsThere
<1>2. i \in Known(m, cache) /\ HasData(f, Window(m, t, i))
  BY DEF InstAt
<1>3. PICK y \in Window(m, t, i) : TRUE
  BY <1>2, HasDataHasRows
<1>4. Window(m, t, i) = Bucket(m, metrics, t, i)
  BY <1>1, <1>2, WindowIsBucket
<1>5. y \in Hits(m, metrics) /\ Target(m, y) = t /\ Instance(m, y) = i
  BY <1>3, <1>4 DEF Bucket
<1>6. Reads(z, id, f, metrics, y)
  BY <1>1, <1>4, <1>5 DEF Reads, ReadingOf
<1>7. z \in ComputeMeasure(id, metrics)
  BY <1>1, <1>5, <1>6, ReadingShape
<1>8. z \in Readings(tick, cache)
  BY <1>7 DEF Readings
<1>9. z \in ReadingsAt(Readings(tick, cache), t, c)
  BY <1>8 DEF ReadingsAt, ReadingOf
<1>10. FactValue(f, Window(m, t, i)) # Null
  BY <1>1, <1>2, <1>3, FactSays DEF Says, Ops
<1> QED
  BY <1>9, <1>10 DEF ReadingOf

(* A reading with a value is that of an instance with data whose name is   *)
(* known.                                                                  *)
LEMMA ReadingIsInstance ==
  ASSUME RowsOK, SamplesOK, WindowsFit, NEW tick \in Tick, NEW cache,
         NEW c, IsCondition(c), NEW t, IsTarget(Measure[c.measure], t),
         NEW x \in ReadingsAt(Readings(tick, cache), t, c), x.value # Null
  PROVE  /\ x.instance \in InstAt(c, t, Known(Measure[c.measure], cache))
         /\ x = ReadingOf(c, t, x.instance)
         /\ Window(Measure[c.measure], t, x.instance) # {}
<1> DEFINE id == c.measure
           m == Measure[id]
           f == FactOf(c)
           metrics == Resolved(m, cache)
<1>1. /\ id \in DOMAIN Measure /\ f \in m.facts /\ f.type = c.fact
      /\ \A g \in m.facts : g.type = c.fact => g = f
  BY FactIsThere
<1> HIDE DEF f
<1>2. /\ x \in Readings(tick, cache) /\ x.target = t /\ x.measure = id
      /\ x.fact = c.fact
  BY DEF ReadingsAt
<1>3. PICK k \in Computed(tick) :
        x \in ComputeMeasure(k, Resolved(Measure[k], cache))
  BY <1>2 DEF Readings
<1>4. PICK g \in Measure[k].facts,
           y \in Hits(Measure[k], Resolved(Measure[k], cache)) :
        g.type \in Implemented
        /\ Reads(x, k, g, Resolved(Measure[k], cache), y)
  BY <1>3, ReadingShape
<1>5. k = id /\ g.type = c.fact /\ x.target = Target(Measure[k], y)
      /\ x.instance = Instance(Measure[k], y)
  BY <1>2, <1>4 DEF Reads
<1>6. g = f /\ y \in Hits(m, metrics)
  BY <1>1, <1>4, <1>5
<1> DEFINE i == Instance(m, y)
<1>7. /\ x = [measure |-> id, target |-> t, instance |-> i, fact |-> f.type,
              value |-> FactValue(f, Bucket(m, metrics, t, i))]
      /\ t = Target(m, y) /\ x.instance = i
  BY <1>2, <1>4, <1>5, <1>6 DEF Reads
<1>8. i \in Known(m, cache)
  <2>1. m.expand \in BOOLEAN
    BY <1>1, ProfileAssumption DEF IsMeasure
  <2> QED
    BY <1>6, <2>1 DEF Known, Instance, Hits, Resolved
<1>9. Window(m, t, i) = Bucket(m, metrics, t, i)
  BY <1>1, <1>8, WindowIsBucket
<1>10. y \in Window(m, t, i)
  BY <1>6, <1>7, <1>9 DEF Bucket
<1>11. FactValue(f, Window(m, t, i)) # Null
  BY <1>7, <1>9
<1>12. HasData(f, Window(m, t, i))
  <2>1. 0 \in Int /\ ">=" \in Ops
    BY DEF Ops
  <2> QED
    BY <1>1, <1>4, <1>6, <1>10, <1>11, <2>1, FactSays DEF Says
<1> QED
  BY <1>1, <1>7, <1>8, <1>9, <1>10, <1>12 DEF InstAt, ReadingOf, f

(* evaluate_condition says what the condition means among the instances    *)
(* whose names are known.                                                  *)
LEMMA ConditionMeans ==
  ASSUME RowsOK, SamplesOK, WindowsFit, NEW tick \in Tick, NEW cache,
         NEW c, IsCondition(c), c.fact \in Implemented => c.measure \in Computed(tick),
         NEW t, IsTarget(Measure[c.measure], t)
  PROVE  Passed(c, ReadingsAt(Readings(tick, cache), t, c)) <=>
           HoldsAmong(c, t, Known(Measure[c.measure], cache))
<1> DEFINE rd == ReadingsAt(Readings(tick, cache), t, c)
           m == Measure[c.measure]
           pool == Known(m, cache)
           P == {x \in rd : x.value # Null}
           I == InstAt(c, t, pool)
           h == [x \in P |-> x.instance]
<1>1. IsFiniteSet(rd)
  <2>1. rd \in SUBSET Readings(tick, cache)
    BY DEF ReadingsAt
  <2> QED
    BY <2>1, AllReadingsFinite, FS_Subset
<1>2. \A x \in P : x.instance \in I /\ x = ReadingOf(c, t, x.instance)
                   /\ Window(m, t, x.instance) # {}
  BY ReadingIsInstance
<1>3. \A i \in I : ReadingOf(c, t, i) \in P /\ ReadingOf(c, t, i).instance = i
  <2>1. CASE c.fact \in Implemented
    BY <2>1, InstanceIsRead DEF ReadingOf
  <2>2. CASE c.fact \notin Implemented
    BY <2>2, LaterPhase
  <2> QED
    BY <2>1, <2>2
<1>4. h \in Bijection(P, I)
  <2> HIDE DEF P, I
  <2>1. h \in [P -> I]
    BY <1>2
  <2>2. \A x, y \in P : h[x] = h[y] => x = y
    BY <1>2
  <2>3. \A i \in I : \E x \in P : h[x] = i
    BY <1>3
  <2> QED
    BY <2>1, <2>2, <2>3 DEF Bijection, Injection, Surjection, IsInjective
<1>5. ASSUME NEW x \in rd, x.value # Null
      PROVE  OpCompare(x.value, c.op, c.value) <=> h[x] \in SatAt(c, t, pool)
  <2> DEFINE i == x.instance
             rs == Window(m, t, i)
             f == FactOf(c)
  <2>1. x \in P /\ i \in I /\ x = ReadingOf(c, t, i) /\ rs # {} /\ h[x] = i
    BY <1>2, <1>5
  <2>2. x.value = FactValue(f, rs) /\ HasData(f, rs)
    BY <2>1 DEF ReadingOf, InstAt
  <2>3. c.fact \in Implemented
    BY <2>1, LaterPhase
  <2>4. c.measure \in DOMAIN Measure /\ f \in m.facts /\ f.type \in Implemented
    BY <2>3, FactIsThere
  <2>5. c.op \in Ops /\ c.value \in Int
    BY <2>3 DEF IsCondition, Ops
  <2>6. Says(f, rs, c.op, c.value)
    BY <2>1, <2>4, <2>5, FactSays
  <2>7. OpCompare(x.value, c.op, c.value) <=> Means(f, c.op, c.value, rs)
    BY <2>2, <2>6 DEF Says
  <2> QED
    BY <2>1, <2>7 DEF SatAt
<1> HIDE DEF rd, h, pool
<1> QED
  BY <1>1, <1>4, <1>5, SameQuantity DEF rd, pool

(* evaluate_rule: all the conditions, or one of them.                      *)
LEMMA RuleFires ==
  ASSUME NEW tick \in Tick, NEW r \in tick, NEW t, NEW readings
  PROVE  EvaluateRule(r, t, readings) # {} <=>
           LET P(k) == Passed(r.when[k], ReadingsAt(readings, t, r.when[k]))
           IN  IF r.combine = "AND" THEN \A k \in DOMAIN r.when : P(k)
                                    ELSE \E k \in DOMAIN r.when : P(k)
<1> DEFINE P(k) == Passed(r.when[k], ReadingsAt(readings, t, r.when[k]))
           passed == {n \in DOMAIN r.when : P(n)}
<1>1. EvaluateRule(r, t, readings) # {} <=>
        ~((r.combine = "AND" /\ passed # DOMAIN r.when) \/ passed = {})
  BY DEF EvaluateRule, ReadingsAt
<1>2. DOMAIN r.when # {}
  BY ProfileAssumption DEF IsRule
<1> HIDE DEF P
<1> QED
  BY <1>1, <1>2 DEF P

(* The targets of a rule are those of each of its measures.                *)
LEMMA TargetOfAll ==
  ASSUME NEW tick \in Tick, NEW r \in tick, NEW j \in DOMAIN r.when,
         NEW k \in DOMAIN r.when, NEW t, IsTarget(Measure[r.when[j].measure], t)
  PROVE  IsTarget(Measure[r.when[k].measure], t)
<1>1. Measure[r.when[j].measure].proc = Measure[r.when[k].measure].proc
  BY ProfileAssumption DEF IsRule
<1> QED
  BY <1>1 DEF IsTarget

(* Where one of its conditions has a reading there is a target of the rule.*)
LEMMA ReadingAtTarget ==
  ASSUME NEW tick, NEW cache, NEW r, NEW k \in DOMAIN r.when, NEW t,
         ReadingsAt(Readings(tick, cache), t, r.when[k]) # {}
  PROVE  /\ IsTarget(Measure[r.when[k].measure], t) /\ t \in Targets(r)
         /\ t \in {x.target : x \in Readings(tick, cache)}
<1> DEFINE c == r.when[k]
           m == Measure[c.measure]
           Procs(a) == LET p == Measure[a.measure].proc
                       IN  IF p = "*" THEN {x.proc : x \in rows} ELSE {p}
<1>1. PICK x \in Readings(tick, cache) : x.target = t /\ x.measure = c.measure
  BY DEF ReadingsAt
<1>2. PICK i \in Computed(tick) :
        x \in ComputeMeasure(i, Resolved(Measure[i], cache))
  BY <1>1 DEF Readings
<1>3. PICK g \in Measure[i].facts,
           y \in Hits(Measure[i], Resolved(Measure[i], cache)) :
        g.type \in Implemented
        /\ Reads(x, i, g, Resolved(Measure[i], cache), y)
  BY <1>2, ReadingShape
<1>4. i = c.measure /\ t = Target(m, y)
  BY <1>1, <1>3 DEF Reads
<1>5. IsTarget(m, t)
  BY <1>3, <1>4, HitIsAtTarget
<1>6. y \in rows /\ t = <<y.eqp, IF m.proc = "*" THEN y.proc ELSE m.proc>>
  BY <1>3, <1>4 DEF Hits, Target
<1>7. t[2] \in Procs(c) /\ t[1] \in EqpIds /\ t = <<t[1], t[2]>>
  BY <1>5, <1>6 DEF IsTarget
<1>8. c \in Range(r.when)
  BY DEF Range
<1>9. Targets(r) = EqpIds \X UNION {Procs(a) : a \in Range(r.when)}
  BY DEF Targets
<1> HIDE DEF Procs, c
<1>10. t[2] \in UNION {Procs(a) : a \in Range(r.when)}
  BY <1>7, <1>8
<1>11. t \in Targets(r)
  BY <1>7, <1>9, <1>10
<1> QED
  BY <1>1, <1>5, <1>11 DEF c

(* A target of a rule is one of its measures.                              *)
LEMMA TargetsAreTargets ==
  ASSUME NEW r, NEW t \in Targets(r)
  PROVE  \E k \in DOMAIN r.when : IsTarget(Measure[r.when[k].measure], t)
<1> DEFINE Procs(a) == LET p == Measure[a.measure].proc
                       IN  IF p = "*" THEN {x.proc : x \in rows} ELSE {p}
<1>1. Targets(r) = EqpIds \X UNION {Procs(a) : a \in Range(r.when)}
  BY DEF Targets
<1>2. /\ t = <<t[1], t[2]>> /\ t[1] \in EqpIds
      /\ \E c \in Range(r.when) : t[2] \in Procs(c)
  <2> HIDE DEF Procs
  <2> QED
    BY <1>1
<1>3. PICK c \in Range(r.when) : t[2] \in Procs(c)
  BY <1>2
<1>4. IsTarget(Measure[c.measure], t)
  BY <1>2, <1>3 DEF IsTarget
<1> QED
  BY <1>3, <1>4 DEF Range

(* The targets an analysis finds a rule breached at.                       *)
LEMMA BreachedWhere ==
  ASSUME NEW readings, IsFiniteSet(readings), NEW tick \in Tick, NEW r \in tick
  PROVE  {b.target : b \in {x \in EvaluateBucket(tick, readings) : x.rule = r}}
           = {t \in {x.target : x \in readings} : EvaluateRule(r, t, readings) # {}}
<1> DEFINE targets == {x.target : x \in readings}
           bs == EvaluateBucket(tick, readings)
<1>1. \A b : b \in bs <=> \E q \in tick, t \in targets : b \in EvaluateRule(q, t, readings)
  <2>1. bs = UNION {EvaluateRule(q, t, readings) : q \in tick, t \in targets}
    BY DEF EvaluateBucket
  <2> HIDE DEF bs, targets
  <2> QED
    BY <2>1
<1>2. \A q \in tick, t \in targets : \A b \in EvaluateRule(q, t, readings) :
        b.rule = q /\ b.target = t
  BY BreachShape
<1> HIDE DEF bs, targets
<1>3. ASSUME NEW b \in bs, b.rule = r
      PROVE  b.target \in targets /\ EvaluateRule(r, b.target, readings) # {}
  <2>1. PICK q \in tick, t \in targets : b \in EvaluateRule(q, t, readings)
    BY <1>1
  <2>2. q = r /\ t = b.target
    BY <1>2, <1>3, <2>1
  <2> QED
    BY <2>1, <2>2
<1>4. ASSUME NEW t \in targets, EvaluateRule(r, t, readings) # {}
      PROVE  \E b \in bs : b.rule = r /\ b.target = t
  <2>1. PICK b \in EvaluateRule(r, t, readings) : TRUE
    BY <1>4
  <2>2. b \in bs /\ b.rule = r /\ b.target = t
    BY <1>1, <1>2, <2>1
  <2> QED
    BY <2>2
<1>5. {b.target : b \in {x \in bs : x.rule = r}}
        = {t \in targets : EvaluateRule(r, t, readings) # {}}
  BY <1>3, <1>4
<1> QED
  BY <1>5 DEF bs, targets

(* What a rule means among the instances whose names are known.            *)
FiresAmong(r, t, cache) ==
  LET H(k) == HoldsAmong(r.when[k], t, Known(Measure[r.when[k].measure], cache))
  IN  IF r.combine = "AND" THEN \A k \in DOMAIN r.when : H(k)
                           ELSE \E k \in DOMAIN r.when : H(k)

(* evaluate_rule finds a breach at exactly the targets where it means one. *)
LEMMA BreachedIfFires ==
  ASSUME RowsOK, SamplesOK, WindowsFit, NEW tick \in Tick, NEW cache, NEW r \in tick
  PROVE  {b.target : b \in {x \in EvaluateBucket(tick, Readings(tick, cache)) :
                              x.rule = r}}
           = {t \in Targets(r) : FiresAmong(r, t, cache)}
<1> DEFINE rd == Readings(tick, cache)
           P(k, t) == Passed(r.when[k], ReadingsAt(rd, t, r.when[k]))
           H(k, t) == HoldsAmong(r.when[k], t, Known(Measure[r.when[k].measure], cache))
           D == DOMAIN r.when
           Places == {x.target : x \in rd}
<1>1. IsFiniteSet(rd)
  BY AllReadingsFinite
<1>2. \A k \in D : IsCondition(r.when[k])
  BY ProfileAssumption DEF IsRule
<1>3. \A k \in D : r.when[k].fact \in Implemented => r.when[k].measure \in Computed(tick)
  <2> SUFFICES ASSUME NEW k \in D, r.when[k].fact \in Implemented
               PROVE  r.when[k].measure \in Computed(tick)
    OBVIOUS
  <2>1. r.when[k].measure \in MeasuresOf(r)
    BY DEF MeasuresOf, Range
  <2>2. \E f \in Measure[r.when[k].measure].facts : f.type \in Implemented
    BY <1>2, FactIsThere
  <2> QED
    BY <2>1, <2>2 DEF Computed
<1>4. ASSUME NEW t, NEW j \in D, IsTarget(Measure[r.when[j].measure], t)
      PROVE  \A k \in D : P(k, t) <=> H(k, t)
  <2> SUFFICES ASSUME NEW k \in D
               PROVE  P(k, t) <=> H(k, t)
    OBVIOUS
  <2>1. IsTarget(Measure[r.when[k].measure], t)
    BY <1>4, TargetOfAll
  <2> QED
    BY <1>2, <1>3, <2>1, ConditionMeans
<1>5. ASSUME NEW t, NEW k \in D, P(k, t)
      PROVE  t \in Targets(r) /\ t \in Places /\ IsTarget(Measure[r.when[k].measure], t)
  <2> DEFINE at == ReadingsAt(rd, t, r.when[k])
  <2>1. at \in SUBSET rd
    BY DEF ReadingsAt
  <2>2. IsFiniteSet(at)
    BY <1>1, <2>1, FS_Subset
  <2>3. Passing(r.when[k], at) # {}
    BY <1>2, <1>5, <2>2, PassedHasPassing
  <2>4. at # {}
    BY <2>3 DEF Passing
  <2> QED
    BY <2>4, ReadingAtTarget
<1>6. D # {}
  BY ProfileAssumption DEF IsRule
<1>7. \A t : EvaluateRule(r, t, rd) # {} <=>
        IF r.combine = "AND" THEN \A k \in D : P(k, t) ELSE \E k \in D : P(k, t)
  BY RuleFires
<1>8. \A t : FiresAmong(r, t, cache) <=>
        IF r.combine = "AND" THEN \A k \in D : H(k, t) ELSE \E k \in D : H(k, t)
  BY DEF FiresAmong
<1> HIDE DEF P, H, D, Places
<1>9. ASSUME NEW t, EvaluateRule(r, t, rd) # {}
      PROVE  t \in Targets(r) /\ FiresAmong(r, t, cache)
  <2>1. PICK k \in D : P(k, t)
    BY <1>6, <1>7, <1>9
  <2>2. t \in Targets(r) /\ IsTarget(Measure[r.when[k].measure], t)
    BY <1>5, <2>1
  <2>3. \A n \in D : P(n, t) <=> H(n, t)
    BY <1>4, <2>2
  <2> QED
    BY <1>7, <1>8, <1>9, <2>2, <2>3
<1>10. ASSUME NEW t \in Targets(r), FiresAmong(r, t, cache)
       PROVE  t \in Places /\ EvaluateRule(r, t, rd) # {}
  <2>1. PICK j \in D : IsTarget(Measure[r.when[j].measure], t)
    BY TargetsAreTargets DEF D
  <2>2. \A n \in D : P(n, t) <=> H(n, t)
    BY <1>4, <2>1
  <2>3. EvaluateRule(r, t, rd) # {}
    BY <1>7, <1>8, <1>10, <2>2
  <2>4. PICK k \in D : P(k, t)
    BY <1>6, <1>7, <2>3
  <2> QED
    BY <1>5, <2>3, <2>4
<1>11. {b.target : b \in {x \in EvaluateBucket(tick, rd) : x.rule = r}}
         = {t \in Places : EvaluateRule(r, t, rd) # {}}
  BY <1>1, BreachedWhere DEF Places
<1>12. {t \in Places : EvaluateRule(r, t, rd) # {}}
         = {t \in Targets(r) : FiresAmong(r, t, cache)}
  BY <1>9, <1>10
<1> QED
  BY <1>11, <1>12

-----------------------------------------------------------------------------
(* A rule is breached where the samples say so.                            *)

(* The known instances with data are the settled ones with data and some   *)
(* of those that may be overlooked.                                        *)
LEMMA KnownIsSettledAndNew ==
  ASSUME NEW m, NEW t, NEW known, NEW settled, settled \subseteq known
  PROVE  LET seen == {x.metric : x \in {y \in rows : Selects(m, y)}}
             new == (known \cap seen) \ settled
         IN  m.expand => \A i : Window(m, t, i) # {} =>
               (i \in settled \cup new <=> i \in known)
BY DEF Window

(* What a condition means depends on the instances with data only.         *)
LEMMA SameAmong ==
  ASSUME NEW c, NEW t, NEW p, NEW q, InstAt(c, t, p) = InstAt(c, t, q)
  PROVE  HoldsAmong(c, t, p) <=> HoldsAmong(c, t, q)
BY DEF HoldsAmong, SatAt

(* The condition of the definition is about the settled instances and the  *)
(* new ones.                                                               *)
LEMMA HoldsNow ==
  ASSUME NEW c, NEW t, NEW new
  PROVE  Holds(c, t, new) <=>
           HoldsAmong(c, t, IF Measure[c.measure].expand
                            THEN Settled(Measure[c.measure]) \cup new ELSE {"all"})
BY DEF Holds, HoldsAmong, InstAt, SatAt, FactOf

(* So it is after a step that leaves the samples and the time alone.       *)
LEMMA HoldsIsAmong ==
  ASSUME now' = now, rows' = rows, NEW c, NEW t, NEW new
  PROVE  Holds(c, t, new)' <=>
           HoldsAmong(c, t, IF Measure[c.measure].expand
                            THEN Settled(Measure[c.measure])' \cup new ELSE {"all"})
<1> DEFINE m == Measure[c.measure]
           f == FactOf(c)
           pool == IF m.expand THEN Settled(m)' \cup new ELSE {"all"}
           inst == {i \in pool : HasData(f, Window(m, t, i)')}
           sat == {i \in inst : Means(f, c.op, c.value, Window(m, t, i)')}
<1>1. \A i : Window(m, t, i)' = Window(m, t, i)
  BY DEF Window
<1>2. Holds(c, t, new)' <=>
        CASE c.quantifier = "any" -> sat # {}
          [] c.quantifier = "all" -> inst # {} /\ sat = inst
          [] c.quantifier = "count" -> Cardinality(sat) >= c.count_min
  BY DEF Holds, FactOf
<1>3. inst = InstAt(c, t, pool) /\ sat = SatAt(c, t, pool)
  BY <1>1 DEF InstAt, SatAt
<1> HIDE DEF inst, sat, pool
<1>4. Holds(c, t, new)' <=> HoldsAmong(c, t, pool)
  BY <1>2, <1>3 DEF HoldsAmong
<1> QED
  BY <1>4 DEF pool

(* An analysis that ends finds what the definition says, with the new      *)
(* instances it happens to know taken into account.                        *)
LEMMA AnalyseFires ==
  ASSUME EvaluationInv, SamplesOK, WindowsFit, NEW tick \in Tick, NEW fault,
         Analyse(tick, fault)
  PROVE  FiresAsDefined'
<1> DEFINE all == MeasuresAt(Computed(tick))
           found == EvaluateBucket(tick, Readings(tick, names'))
<1>0. report'.tick = tick /\ now' = now /\ rows' = rows
  BY AnalyseParts
<1>1. SUFFICES ASSUME report'.ok, NEW r \in tick
               PROVE  \E new \in [MeasuresOf(r) ->
                                    UNION {Overlooked(id)' : id \in MeasuresOf(r)}] :
                        /\ \A id \in MeasuresOf(r) : new[id] \in Overlooked(id)'
                        /\ {b.target : b \in {x \in report'.breaches : x.rule = r}}
                             = {t \in Targets(r)' : Fires(r, t, new)'}
  BY <1>0 DEF FiresAsDefined
<1>2. PICK down \in BOOLEAN :
        /\ names' = LookUp(all, down) /\ report'.breaches = found
        /\ failedAt' = IF Lost(all, down) # {} THEN now ELSE failedAt
  BY <1>1, AnalyseParts
<1>3. RowsOK /\ CacheOK
  BY DEF EvaluationInv
<1> HIDE DEF found
<1> DEFINE ids == MeasuresOf(r)
           Looked(id) == Measure[id].expand /\ id \in Computed(tick)
           Seen(id) == {x.metric : x \in {y \in rows : Selects(Measure[id], y)}}
           New(id) == IF Looked(id)
                      THEN (names'[Key(Measure[id])].found \cap Seen(id))
                             \ Settled(Measure[id])'
                      ELSE {}
           over == UNION {Overlooked(id)' : id \in ids}
<1>4. ASSUME NEW id \in ids
      PROVE  New(id) \in Overlooked(id)'
  <2>1. Overlooked(id)' = IF Measure[id].expand
                          THEN SUBSET (Seen(id) \ Settled(Measure[id])') ELSE {{}}
    BY <1>0 DEF Overlooked, Selects
  <2> QED
    BY <2>1
<1> DEFINE choice == [id \in ids |-> New(id)]
<1> PICK new : new = choice
  OBVIOUS
<1>4a. \A id \in ids : new[id] = New(id)
  OBVIOUS
<1>5. ASSUME NEW k \in DOMAIN r.when, NEW t
      PROVE  Holds(r.when[k], t, new[r.when[k].measure])' <=>
               HoldsAmong(r.when[k], t, Known(Measure[r.when[k].measure], names'))
  <2> DEFINE c == r.when[k]
             id == c.measure
             m == Measure[id]
             settled == Settled(m)'
             pool == IF m.expand THEN settled \cup new[id] ELSE {"all"}
             known == Known(m, names')
  <2>1. IsCondition(c) /\ id \in DOMAIN Measure /\ m.expand \in BOOLEAN
    BY ProfileAssumption DEF IsRule, IsCondition, IsMeasure
  <2>2. Holds(c, t, new[id])' <=> HoldsAmong(c, t, pool)
    BY <1>0, HoldsIsAmong
  <2>3. InstAt(c, t, pool) = InstAt(c, t, known)
    <3>1. CASE c.fact \notin Implemented
      BY <2>1, <3>1, LaterPhase
    <3>2. CASE ~m.expand
      BY <3>2 DEF Known
    <3>3. CASE c.fact \in Implemented /\ m.expand
      <4>1. id \in Computed(tick)
        <5>1. id \in MeasuresOf(r)
          BY DEF MeasuresOf, Range
        <5>2. \E f \in m.facts : f.type \in Implemented
          BY <2>1, <3>3, FactIsThere
        <5> QED
          BY <5>1, <5>2 DEF Computed
      <4>2. m \in all
        BY <4>1 DEF MeasuresAt
      <4>3. known = names'[Key(m)].found
        BY <3>3 DEF Known
      <4>4. settled \subseteq known
        <5> HIDE DEF all
        <5>1. \A i \in Settled(m)' : i \in LookUp(all, down)[Key(m)].found
          BY <1>0, <1>2, <1>3, <3>3, <4>2, SettledIsFound
        <5> QED
          BY <1>2, <4>3, <5>1
      <4>5. new[id] = (known \cap Seen(id)) \ settled
        <5>1. id \in ids
          BY DEF MeasuresOf, Range
        <5> QED
          BY <1>4a, <3>3, <4>1, <4>3, <5>1
      <4> HIDE DEF settled, known, New
      <4>6. \A i : Window(m, t, i) # {} =>
              (i \in settled \cup new[id] <=> i \in known)
        BY <3>3, <4>4, <4>5, KnownIsSettledAndNew
      <4>7. \A i : HasData(FactOf(c), Window(m, t, i)) => Window(m, t, i) # {}
        BY HasDataHasRows
      <4> QED
        BY <3>3, <4>6, <4>7 DEF InstAt
    <3> QED
      BY <2>1, <3>1, <3>2, <3>3
  <2> HIDE DEF pool, known
  <2>4. HoldsAmong(c, t, pool) <=> HoldsAmong(c, t, known)
    BY <2>3, SameAmong
  <2> QED
    BY <2>2, <2>4 DEF known
<1>6. new \in [ids -> over] /\ \A id \in ids : new[id] \in Overlooked(id)'
  <2> HIDE DEF New
  <2> QED
    BY <1>4, <1>4a
<1>7. ASSUME NEW t
      PROVE  Fires(r, t, new)' <=> FiresAmong(r, t, names')
  <2> DEFINE H(k) == Holds(r.when[k], t, new[r.when[k].measure])'
  <2>1. Fires(r, t, new)' <=>
          IF r.combine = "AND" THEN \A k \in DOMAIN r.when : H(k)
                               ELSE \E k \in DOMAIN r.when : H(k)
    BY DEF Fires, Range
  <2> HIDE DEF H
  <2>2. \A k \in DOMAIN r.when :
          H(k) <=> HoldsAmong(r.when[k], t, Known(Measure[r.when[k].measure], names'))
    BY <1>5 DEF H
  <2> QED
    BY <2>1, <2>2 DEF FiresAmong
<1>8. Targets(r)' = Targets(r)
  BY <1>0 DEF Targets
<1>9. {b.target : b \in {x \in report'.breaches : x.rule = r}}
        = {t \in Targets(r)' : Fires(r, t, new)'}
  <2>1. {b.target : b \in {x \in found : x.rule = r}}
          = {t \in Targets(r) : FiresAmong(r, t, names')}
    BY <1>3, BreachedIfFires DEF found
  <2> QED
    BY <1>2, <1>7, <1>8, <2>1
<1> QED
  BY <1>6, <1>9

(* engine.py:148, for every profile whose windows are at most a day long,  *)
(* any samples and any failures: an analysis that ends finds a rule        *)
(* breached at exactly the targets where the samples of the window say so, *)
(* but for instances it may overlook.                                      *)
THEOREM RulesFireAsDefined == ASSUME WindowsFit PROVE Spec => []FiresAsDefined
<1>1. Init => FiresAsDefined
  BY DEF Init, Silent, FiresAsDefined
<1>2. EvaluationInv /\ SamplesOK /\ FiresAsDefined /\ [Next]_vars => FiresAsDefined'
  <2> SUFFICES ASSUME EvaluationInv, SamplesOK, FiresAsDefined, [Next]_vars
               PROVE  FiresAsDefined'
    OBVIOUS
  <2>1. CASE report' = Silent
    BY <2>1 DEF Silent, FiresAsDefined
  <2>2. CASE \E tick \in Tick, fault \in {"none", "names", "search"} :
               Analyse(tick, fault)
    BY <2>2, AnalyseFires
  <2>3. CASE UNCHANGED vars
    <3>1. UNCHANGED <<now, rows, report, failedAt>>
      BY <2>3 DEF vars
    <3>2. \A m : Settled(m)' = Settled(m)
      BY <3>1 DEF Settled, ResolveIndexRange
    <3>3. \A id : Overlooked(id)' = Overlooked(id)
      BY <3>1, <3>2 DEF Overlooked
    <3>4. \A c, t, new : Holds(c, t, new)' <=> Holds(c, t, new)
      BY <3>1, <3>2, HoldsNow, HoldsIsAmong
    <3>5. \A r, t, new : Fires(r, t, new)' <=> Fires(r, t, new)
      BY <3>4 DEF Fires
    <3>6. \A r : Targets(r)' = Targets(r)
      BY <3>1 DEF Targets
    <3> QED
      BY <3>1, <3>3, <3>5, <3>6 DEF FiresAsDefined
  <2> QED
    BY <2>1, <2>2, <2>3 DEF Next, Store, Minute
<1> QED
  BY <1>1, <1>2, EvaluationInvariance, SamplesInvariance, PTL DEF Spec
=============================================================================
