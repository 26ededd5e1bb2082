------------------------------ MODULE Election ------------------------------
(***************************************************************************)
(* What LeaderElection promises to PartitionManager, whatever becomes of   *)
(* sessions, threads and processes below it: at most one pod holds the     *)
(* leadership, it got it with an epoch nobody had before, and it knows.  A *)
(* pod that lost it without noticing goes on calling itself leader, under  *)
(* an epoch that is no longer the newest as soon as somebody else wins.    *)
(***************************************************************************)
EXTENDS Naturals

CONSTANT Inst

VARIABLES holder,    \* the pod that holds the leadership, as a set
          epochNode, \* the newest epoch
          isLeader,  \* is_leader() of each pod
          epoch      \* epoch of each pod

vars == <<holder, epochNode, isLeader, epoch>>

Init ==
  /\ holder = {} /\ epochNode = 0
  /\ isLeader = [i \in Inst |-> FALSE] /\ epoch = [i \in Inst |-> 0]

(* Lock, bump of the epoch and is_leader() come together.                  *)
Win(i) ==
  /\ holder = {} /\ holder' = {i}
  /\ epochNode' = epochNode + 1
  /\ epoch' = [epoch EXCEPT ![i] = epochNode + 1]
  /\ isLeader' = [isLeader EXCEPT ![i] = TRUE]

(* A pod got the lock and bumped the epoch, but the answer was lost: it    *)
(* does not lead, and its epoch is nobody's.                               *)
Waste(i) ==
  /\ holder = {} /\ epochNode' = epochNode + 1
  /\ isLeader' = [isLeader EXCEPT ![i] = FALSE]
  /\ UNCHANGED <<holder, epoch>>

(* The leadership is lost and the pod does not know.                       *)
Fall(i) == holder' = holder \ {i} /\ UNCHANGED <<epochNode, isLeader, epoch>>

(* The pod gives it up, or notices that it is gone.                        *)
Resign(i) ==
  /\ holder' = holder \ {i}
  /\ isLeader' = [isLeader EXCEPT ![i] = FALSE]
  /\ UNCHANGED <<epochNode, epoch>>

(* The process ends, or a new one starts in its place.                     *)
Forget(i) ==
  /\ holder' = holder \ {i}
  /\ isLeader' = [isLeader EXCEPT ![i] = FALSE]
  /\ epoch' = [epoch EXCEPT ![i] = 0]
  /\ UNCHANGED epochNode

Next ==
  \E i \in Inst : Win(i) \/ Waste(i) \/ Fall(i) \/ Resign(i) \/ Forget(i)

Spec == Init /\ [][Next]_vars

(* The leader knows that it leads, and its epoch is the newest one: above  *)
(* that of every pod that led before and may still believe it does.        *)
Fenced ==
  \A i \in holder :
    /\ isLeader[i] /\ epoch[i] = epochNode
    /\ \A j \in Inst \ {i} : j \notin holder /\ epoch[j] < epochNode
=============================================================================
