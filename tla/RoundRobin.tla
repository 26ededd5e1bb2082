----------------------------- MODULE RoundRobin -----------------------------
(***************************************************************************)
(* PartitionManager._compute_assignments: which processes the leader hands *)
(* to which instance.  Names are modelled by natural numbers, whose order  *)
(* stands for the order sorted() gives the names, and a list of processes  *)
(* by the set of its elements.                                             *)
(***************************************************************************)
EXTENDS Naturals, FiniteSets

(* The index of x in sorted(S).                                            *)
Rank(x, S) == Cardinality({y \in S : y < x})

(* Mutant: one instance too many in the modulus.                           *)
ComputeWithSpare(instances, processes) ==
  [i \in instances |->
     {p \in processes :
        Rank(p, processes) % (Cardinality(instances) + 1)
          = Rank(i, instances)}]

(* instances_sorted[idx % len(instances_sorted)] is given the process with *)
(* index idx; an instance list that is empty gives an empty dictionary.    *)
ComputeAssignments(instances, processes) ==
  [i \in instances |->
     {p \in processes :
        Rank(p, processes) % Cardinality(instances) = Rank(i, instances)}]

=============================================================================
