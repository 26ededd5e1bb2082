------------------------- MODULE MCPartitionManager -------------------------
(***************************************************************************)
(* PartitionManager for TLC.  Spec starts with an empty tree; the settled  *)
(* specifications start where a first leader has served everybody, so that *)
(* the bounds can be spent on what happens to a cluster in operation.      *)
(***************************************************************************)
EXTENDS PartitionManager

(* The lowest id was elected when everybody was up, after a first leader   *)
(* that died before it wrote anything; its on_become_leader has gone       *)
(* through, and every instance has applied its part.                       *)
SettledInit ==
  LET first == CHOOSE i \in Inst : \A k \in Inst : i <= k
      job == [NewJob("become", "gc", Inst) EXCEPT !.ep = 2, !.ts = 1]
  IN  /\ members = Inst /\ leader = first /\ epochNode = 2
      /\ node = [k \in Inst |-> Payload(job, k)]
      /\ sess = [i \in Inst |-> "live"] /\ boot = [i \in Inst |-> "run"]
      /\ mwatch = [i \in Inst |-> FALSE] /\ dwatch = [i \in Inst |-> FALSE]
      /\ fetched = [i \in Inst |-> Absent]
      /\ isLeader = [i \in Inst |-> i = first]
      /\ epoch = [i \in Inst |-> IF i = first THEN 2 ELSE 0]
      /\ known = [i \in Inst |-> [ep |-> 2, ts |-> 1]]
      /\ assigned = ComputeAssignments(Inst, Proc)
      /\ jobs = [i \in Inst |-> {}]
      /\ attempt = [i \in Inst |-> 0] /\ unhealthy = [i \in Inst |-> FALSE]
      /\ clock \in {c \in [Inst -> 0..MaxSkew + 1] :
                      /\ c[first] = 1
                      /\ \A i, k \in Inst : c[i] <= c[k] + MaxSkew}
      /\ left = [boot |-> MaxBoot, stop |-> MaxStop, expire |-> MaxExpire,
                 fail |-> MaxFail, list |-> MaxListFail]
      /\ log = {[ep |-> 2, ts |-> 1, insts |-> Inst, by |-> first]}

SettledSpec == SettledInit /\ [][Next]_vars

FairSettledSpec == SettledSpec /\ Fairness

=============================================================================
