-------------------------- MODULE RoundRobinProofs --------------------------
(***************************************************************************)
(* What _compute_assignments promises, for every finite set of instances   *)
(* and of processes: each process goes to one instance and to one only.    *)
(***************************************************************************)
EXTENDS RoundRobin, FiniteSetTheorems, TLAPS

(* The index of an element is an index of the sorted list.                 *)
LEMMA RankRange ==
  ASSUME NEW S, S \subseteq Nat, IsFiniteSet(S), NEW x \in S
  PROVE  Rank(x, S) \in Nat /\ Rank(x, S) \in 0..(Cardinality(S) - 1)
<1> DEFINE B == {y \in S : y < x}
<1>1. B \in SUBSET S /\ x \notin B
  OBVIOUS
<1>2. IsFiniteSet(B) /\ Cardinality(B) <= Cardinality(S)
      /\ (Cardinality(S) = Cardinality(B) => S = B)
  BY <1>1, FS_Subset
<1>3. Cardinality(B) \in Nat /\ Cardinality(S) \in Nat
  BY <1>2, FS_CardinalityType
<1>4. Cardinality(B) # Cardinality(S)
  BY <1>1, <1>2
<1> QED
  BY <1>2, <1>3, <1>4 DEF Rank

(* sorted() puts a smaller name strictly before a larger one.              *)
LEMMA RankMonotone ==
  ASSUME NEW S, S \subseteq Nat, IsFiniteSet(S),
         NEW x \in S, NEW z \in S, x < z
  PROVE  Rank(x, S) < Rank(z, S)
<1> DEFINE A == {y \in S : y < x}
           B == {y \in S : y < z}
<1>1. A \in SUBSET B /\ B \in SUBSET S /\ x \in B /\ x \notin A
  <2>1. x \in Nat /\ z \in Nat
    OBVIOUS
  <2>2. ASSUME NEW y \in S, y < x
        PROVE  y < z
    <3>1. y \in Nat
      OBVIOUS
    <3> QED
      BY <2>1, <2>2, <3>1
  <2>3. A \in SUBSET B /\ B \in SUBSET S
    BY <2>2
  <2>4. x \in B /\ x \notin A
    BY <2>1
  <2> QED
    BY <2>3, <2>4
<1>2. IsFiniteSet(B)
  BY <1>1, FS_Subset
<1>3. IsFiniteSet(A) /\ Cardinality(A) <= Cardinality(B)
      /\ (Cardinality(B) = Cardinality(A) => B = A)
  BY <1>1, <1>2, FS_Subset
<1>4. Cardinality(A) \in Nat /\ Cardinality(B) \in Nat
  BY <1>2, <1>3, FS_CardinalityType
<1>5. Cardinality(A) # Cardinality(B)
  BY <1>1, <1>3
<1> QED
  BY <1>3, <1>4, <1>5 DEF Rank

(* No two names share an index.                                            *)
LEMMA RankInjective ==
  ASSUME NEW S, S \subseteq Nat, IsFiniteSet(S),
         NEW x \in S, NEW z \in S, Rank(x, S) = Rank(z, S)
  PROVE  x = z
<1>1. Rank(x, S) \in Nat
  BY RankRange
<1>2. CASE x < z
  <2>1. Rank(x, S) < Rank(z, S)
    BY <1>2, RankMonotone
  <2> QED
    BY <1>1, <2>1
<1>3. CASE z < x
  <2>1. Rank(z, S) < Rank(x, S)
    BY <1>3, RankMonotone
  <2> QED
    BY <1>1, <2>1
<1> QED
  BY <1>2, <1>3

(* Every index below the length belongs to a name.                         *)
LEMMA RankSurjective ==
  ASSUME NEW S, S \subseteq Nat, IsFiniteSet(S),
         NEW r \in 0..(Cardinality(S) - 1)
  PROVE  \E x \in S : Rank(x, S) = r
<1> DEFINE T == 0..(Cardinality(S) - 1)
           f == [x \in S |-> Rank(x, S)]
<1>1. Cardinality(S) \in Nat
  BY FS_CardinalityType
<1>2. IsFiniteSet(T) /\ Cardinality(T) = Cardinality(S)
  BY <1>1, FS_Interval
<1>3. f \in [S -> T]
  BY RankRange
<1>4. \A x, z \in S : f[x] = f[z] => x = z
  BY RankInjective
<1>5. f \in Injection(S, T)
  BY <1>3, <1>4 DEF Injection, IsInjective
<1> HIDE DEF f, T
<1>6. f \in Surjection(S, T)
  BY <1>2, <1>5, FS_Injection
<1>7. \E x \in S : f[x] = r
  BY <1>6 DEF Surjection, T
<1> QED
  BY <1>7 DEF f

(* _compute_assignments gives no process to two instances.                 *)
THEOREM AssignmentsDisjoint ==
  ASSUME NEW I, I \subseteq Nat, IsFiniteSet(I), NEW P,
         NEW i \in I, NEW k \in I, i # k
  PROVE  ComputeAssignments(I, P)[i] \cap ComputeAssignments(I, P)[k] = {}
<1>1. Rank(i, I) # Rank(k, I)
  BY RankInjective
<1> QED
  BY <1>1 DEF ComputeAssignments

(* _compute_assignments leaves no process without an instance.             *)
THEOREM AssignmentsCover ==
  ASSUME NEW I, I \subseteq Nat, IsFiniteSet(I), I # {},
         NEW P, P \subseteq Nat, IsFiniteSet(P), NEW p \in P
  PROVE  \E i \in I : p \in ComputeAssignments(I, P)[i]
<1> DEFINE n == Cardinality(I)
           r == Rank(p, P) % n
<1>1. n \in Nat /\ n # 0
  BY FS_CardinalityType, FS_EmptySet
<1>2. Rank(p, P) \in Nat
  BY RankRange
<1> HIDE DEF n
<1>3. r \in 0..(n - 1)
  BY <1>1, <1>2
<1>4. PICK i \in I : Rank(i, I) = r
  BY <1>3, RankSurjective DEF n
<1>5. p \in ComputeAssignments(I, P)[i]
  BY <1>4 DEF ComputeAssignments, n
<1> QED
  BY <1>5

=============================================================================
