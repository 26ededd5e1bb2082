----------------------- MODULE PartitionManagerProofs -----------------------
(***************************************************************************)
(* Theorems about PartitionManager for every set of instances and          *)
(* processes and every value of the bounds.                                *)
(***************************************************************************)
EXTENDS PartitionManager, RoundRobinProofs

-----------------------------------------------------------------------------
(* Helpers on coroutine records.                                           *)

LEMMA NewJobType ==
  ASSUME NEW kind \in {"become", "debounce", "retry", "ghost"},
         NEW pc \in {"sleep", "list", "mongo", "commit", "gc"},
         NEW insts \in SUBSET Inst
  PROVE  NewJob(kind, pc, insts) \in Job
BY DEF NewJob, Job

LEMMA JobExceptType ==
  ASSUME NEW j \in Job
  PROVE  /\ \A pc \in {"sleep", "list", "mongo", "commit", "gc"} :
              [j EXCEPT !.pc = pc] \in Job
         /\ \A s \in SUBSET Inst :
              [j EXCEPT !.pc = "mongo", !.insts = s] \in Job
         /\ \A e, t \in Nat :
              [j EXCEPT !.pc = "commit", !.ep = e, !.ts = t] \in Job
         /\ [j EXCEPT !.kind = "retry", !.pc = "sleep", !.ep = 0, !.ts = 0]
              \in Job
         /\ [j EXCEPT !.kind = "ghost"] \in Job
BY DEF Job

LEMMA GhostsType ==
  ASSUME NEW js \in SUBSET Job
  PROVE  Ghosts(js) \in SUBSET Job
BY JobExceptType DEF Ghosts

LEMMA PayloadType ==
  ASSUME NEW j \in Job, NEW k \in j.insts
  PROVE  Payload(j, k) \in Znode
BY DEF Payload, Znode, Job, ComputeAssignments

LEMMA AbsentEmptyType == Absent \in Znode /\ Empty \in Znode /\ NoStamp \in Stamp
BY DEF Absent, Empty, Znode, NoStamp, Stamp

-----------------------------------------------------------------------------
(* Type correctness.                                                       *)

LEMMA InitType == Init => TypeOK
<1> SUFFICES ASSUME Init
             PROVE  TypeOK
  OBVIOUS
<1>1. clock \in [Inst -> Nat]
  BY BoundAssumption DEF Init
<1>2. left \in Spent
  BY BoundAssumption DEF Init, Spent
<1> QED
  BY <1>1, <1>2, AbsentEmptyType DEF Init, TypeOK

LEMMA ApplyType ==
  ASSUME TypeOK, NEW i \in Inst, NEW z \in Znode, ApplyAssignment(i, z)
  PROVE  known' \in [Inst -> Stamp] /\ assigned' \in [Inst -> SUBSET Proc]
<1>1. z.ep \in Nat /\ z.ts \in Nat /\ z.procs \in SUBSET Proc
  BY DEF Znode
<1>2. [ep |-> z.ep, ts |-> z.ts] \in Stamp
  BY <1>1 DEF Stamp
<1> QED
  BY <1>1, <1>2 DEF ApplyAssignment, TypeOK

LEMMA LifecycleType ==
  ASSUME TypeOK, NEW i \in Inst, Lifecycle(i)
  PROVE  TypeOK'
<1> USE DEF TypeOK, zkVars, lifeVars, watchVars, applyVars, leadVars, jobVars
<1>1. CASE Boot(i)
  <2>1. left' \in Spent
    BY <1>1, BoundAssumption DEF Boot, Spent
  <2> QED
    BY <1>1, <2>1, AbsentEmptyType DEF Boot
<1>2. CASE RegisterMember(i)
  <2>1. mwatch' \in [Inst -> BOOLEAN]
    BY <1>2, Zenon DEF RegisterMember, NotifyMembers, Watching
  <2> QED
    BY <1>2, <2>1 DEF RegisterMember
<1>3. CASE RegisterWatches(i)
  BY <1>3, AbsentEmptyType DEF RegisterWatches
<1>4. CASE RefreshRead(i)
  BY <1>4 DEF RefreshRead
<1>5. CASE RefreshApply(i)
  <2>1. known' \in [Inst -> Stamp] /\ assigned' \in [Inst -> SUBSET Proc]
    BY <1>5, ApplyType DEF RefreshApply
  <2> QED
    BY <1>5, <2>1, AbsentEmptyType DEF RefreshApply
<1>6. CASE StartElection(i)
  BY <1>6 DEF StartElection
<1>7. ASSUME DropEphemerals(i)
      PROVE  /\ members' \subseteq Inst /\ leader' \in Inst \cup {NoOne}
             /\ mwatch' \in [Inst -> BOOLEAN]
  <2>1. mwatch' \in [Inst -> BOOLEAN]
    BY <1>7, Zenon DEF DropEphemerals
  <2> QED
    BY <1>7, <2>1 DEF DropEphemerals
<1>8. CASE Stop(i)
  <2>1. left' \in Spent
    BY <1>8, BoundAssumption DEF Stop, Spent
  <2> QED
    BY <1>8, <1>7, <2>1 DEF Stop
<1>9. CASE Crash(i)
  <2>1. left' \in Spent
    BY <1>9, BoundAssumption DEF Crash, Spent
  <2> QED
    BY <1>9, <2>1 DEF Crash
<1>10. CASE ExpireDead(i)
  BY <1>10, <1>7 DEF ExpireDead
<1>11. CASE ExpireLive(i)
  <2>1. left' \in Spent
    BY <1>11, BoundAssumption DEF ExpireLive, Spent
  <2> QED
    BY <1>11, <1>7, <2>1 DEF ExpireLive
<1>12. CASE OnLost(i)
  BY <1>12, AbsentEmptyType DEF OnLost
<1>13. CASE OnConnected(i)
  BY <1>13 DEF OnConnected
<1> QED
  BY <1>1, <1>2, <1>3, <1>4, <1>5, <1>6, <1>8, <1>9, <1>10, <1>11, <1>12,
     <1>13 DEF Lifecycle

LEMMA WatchType ==
  ASSUME TypeOK, NEW i \in Inst,
         \/ OnAssignmentChanged(i) \/ HandleMembershipChange(i)
         \/ BecomeLeader(i)
  PROVE  TypeOK'
<1> USE DEF TypeOK, zkVars, lifeVars, watchVars, applyVars, leadVars, jobVars
<1>1. CASE OnAssignmentChanged(i)
  <2>1. known' \in [Inst -> Stamp] /\ assigned' \in [Inst -> SUBSET Proc]
    BY <1>1, ApplyType DEF OnAssignmentChanged
  <2> QED
    BY <1>1, <2>1 DEF OnAssignmentChanged
<1>2. CASE HandleMembershipChange(i)
  <2>1. Ghosts(OfKind(i, "debounce")) \in SUBSET Job
    BY GhostsType DEF OfKind
  <2>2. NewJob("debounce", "sleep", {}) \in Job
    BY NewJobType
  <2>3. jobs' \in [Inst -> SUBSET Job]
    BY <1>2, <2>1, <2>2 DEF HandleMembershipChange
  <2> QED
    BY <1>2, <2>3 DEF HandleMembershipChange
<1>3. CASE BecomeLeader(i)
  <2>1. NewJob("become", "list", {}) \in Job
    BY NewJobType
  <2> QED
    BY <1>3, <2>1 DEF BecomeLeader
<1> QED
  BY <1>1, <1>2, <1>3

LEMMA RetryCancelledType ==
  ASSUME TypeOK, NEW i \in Inst, NEW j \in jobs[i]
  PROVE  RetryCancelled(i, j) \in SUBSET Job
<1>1. jobs[i] \in SUBSET Job
  BY DEF TypeOK
<1>2. Ghosts(OfKind(i, "retry") \ {j}) \in SUBSET Job
  BY <1>1, GhostsType DEF OfKind
<1> QED
  BY <1>1, <1>2 DEF RetryCancelled

LEMMA FailedType ==
  ASSUME TypeOK, NEW i \in Inst, NEW j \in jobs[i], Failed(i, j)
  PROVE  /\ jobs' \in [Inst -> SUBSET Job] /\ attempt' \in [Inst -> Nat]
         /\ unhealthy' \in [Inst -> BOOLEAN]
<1> DEFINE again == [j EXCEPT !.kind = "retry", !.pc = "sleep", !.ep = 0,
                              !.ts = 0]
<1>1. j \in Job /\ jobs[i] \ {j} \in SUBSET Job
  BY DEF TypeOK
<1>2. again \in Job
  BY <1>1, JobExceptType
<1>3. RetryCancelled(i, j) \cup {again} \in SUBSET Job
  BY <1>2, RetryCancelledType
<1>4. \E new \in SUBSET Job : jobs' = [jobs EXCEPT ![i] = new]
  BY <1>1, <1>3 DEF Failed
<1>5. jobs' \in [Inst -> SUBSET Job]
  BY <1>4 DEF TypeOK
<1>6. attempt' \in [Inst -> Nat]
  BY DEF Failed, TypeOK
<1>7. unhealthy' \in [Inst -> BOOLEAN]
  BY DEF Failed, TypeOK
<1> QED
  BY <1>5, <1>6, <1>7

LEMMA SucceededType ==
  ASSUME TypeOK, NEW i \in Inst, NEW j \in jobs[i], Succeeded(i, j)
  PROVE  /\ jobs' \in [Inst -> SUBSET Job] /\ attempt' \in [Inst -> Nat]
         /\ unhealthy' \in [Inst -> BOOLEAN]
<1>1. j \in Job /\ jobs[i] \ {j} \in SUBSET Job
  BY DEF TypeOK
<1>2. {[j EXCEPT !.pc = "gc"]} \in SUBSET Job
  BY <1>1, JobExceptType
<1>3. RetryCancelled(i, j) \in SUBSET Job
  BY RetryCancelledType
<1>4. \E new \in SUBSET Job : jobs' = [jobs EXCEPT ![i] = new]
  BY <1>1, <1>2, <1>3 DEF Succeeded
<1>5. jobs' \in [Inst -> SUBSET Job]
  BY <1>4 DEF TypeOK
<1>6. attempt' \in [Inst -> Nat]
  BY DEF Succeeded, TypeOK
<1>7. unhealthy' \in [Inst -> BOOLEAN]
  BY DEF Succeeded, TypeOK
<1> QED
  BY <1>5, <1>6, <1>7

LEMMA JobStepType ==
  ASSUME TypeOK, NEW i \in Inst, NEW j \in jobs[i], JobStep(i, j)
  PROVE  TypeOK'
<1> USE DEF TypeOK, zkVars, lifeVars, watchVars, applyVars, leadVars, jobVars,
            jobFrame
<1>0. j \in Job /\ j.insts \in SUBSET Inst
  BY DEF Job
<1>1. CASE Wake(i, j)
  <2>1. [j EXCEPT !.pc = IF j.kind = "retry" THEN "mongo" ELSE "list"] \in Job
    BY <1>0, JobExceptType
  <2> QED
    BY <1>1, <2>1 DEF Wake, AfterSleep
<1>2. CASE ListMembers(i, j)
  <2>1. [j EXCEPT !.pc = "mongo", !.insts = members] \in Job
    BY <1>0, JobExceptType
  <2> QED
    BY <1>2, <2>1 DEF ListMembers
<1>3. CASE ListMembersFails(i, j)
  <2>1. left' \in Spent
    BY <1>3, BoundAssumption DEF ListMembersFails, Spent
  <2> QED
    BY <1>3, <2>1 DEF ListMembersFails
<1>4. CASE BuildTransaction(i, j)
  <2>0. epoch[i] \in Nat /\ clock[i] + 1 \in Nat
    OBVIOUS
  <2>1. [j EXCEPT !.pc = "commit", !.ep = epoch[i], !.ts = clock[i] + 1] \in Job
    BY <1>0, <2>0, JobExceptType, Zenon
  <2>2. node' \in [Inst -> Znode]
    BY <1>4, AbsentEmptyType DEF BuildTransaction
  <2> QED
    BY <1>4, <2>1, <2>2 DEF BuildTransaction
<1>5. CASE RedistributeFails(i, j)
  <2>1. left' \in Spent
    BY <1>5, BoundAssumption DEF RedistributeFails, Spent
  <2> QED
    BY <1>5, <2>1, FailedType DEF RedistributeFails
<1>6. CASE CommitImpossible(i, j)
  BY <1>6, FailedType DEF CommitImpossible
<1>7. CASE CommitAssignments(i, j)
  <2>1. node' \in [Inst -> Znode]
    BY <1>0, <1>7, PayloadType DEF CommitAssignments
  <2>2. dwatch' \in [Inst -> BOOLEAN]
    BY <1>7, Zenon DEF CommitAssignments
  <2>3. log' \subseteq Commit
    BY <1>0, <1>7 DEF CommitAssignments, Commit, Job
  <2> QED
    BY <1>7, <2>1, <2>2, <2>3, SucceededType DEF CommitAssignments
<1>8. CASE CleanupOrphans(i, j)
  <2>1. node' \in [Inst -> Znode]
    BY <1>8, AbsentEmptyType DEF CleanupOrphans
  <2>2. dwatch' \in [Inst -> BOOLEAN]
    BY <1>8, Zenon DEF CleanupOrphans
  <2> QED
    BY <1>8, <2>1, <2>2 DEF CleanupOrphans
<1> QED
  BY <1>1, <1>2, <1>3, <1>4, <1>5, <1>6, <1>7, <1>8 DEF JobStep

LEMMA TypeStep == TypeOK /\ [Next]_vars => TypeOK'
<1> SUFFICES ASSUME TypeOK, [Next]_vars
             PROVE  TypeOK'
  OBVIOUS
<1>1. CASE UNCHANGED vars
  BY <1>1 DEF TypeOK, vars, zkVars, lifeVars, watchVars, applyVars, leadVars,
              jobVars
<1>2. CASE Next
  BY <1>2, LifecycleType, WatchType, JobStepType DEF Next
<1> QED
  BY <1>1, <1>2

(* Type correctness: no sequence of joins, losses, failures and            *)
(* redistributions puts a value of another shape into a znode, a stamp or  *)
(* a coroutine.                                                            *)
THEOREM TypeCorrect == Spec => []TypeOK
BY InitType, TypeStep, PTL DEF Spec

-----------------------------------------------------------------------------
(* What the steps of a coroutine leave alone.                              *)

LEMMA JobStepFrame ==
  ASSUME TypeOK, NEW i \in Inst, NEW j \in jobs[i], JobStep(i, j)
  PROVE  /\ \A k \in Inst \ {i} : jobs'[k] = jobs[k]
         /\ UNCHANGED <<members, leader, epochNode, sess, boot, mwatch,
                        fetched, known, assigned, isLeader, epoch>>
<1> USE DEF TypeOK, zkVars, lifeVars, watchVars, applyVars, leadVars, jobFrame
<1>1. CASE Wake(i, j)
  BY <1>1 DEF Wake, AfterSleep
<1>2. CASE ListMembers(i, j)
  BY <1>2 DEF ListMembers
<1>3. CASE ListMembersFails(i, j)
  BY <1>3 DEF ListMembersFails
<1>4. CASE BuildTransaction(i, j)
  BY <1>4 DEF BuildTransaction
<1>5. CASE RedistributeFails(i, j)
  BY <1>5 DEF RedistributeFails, Failed
<1>6. CASE CommitImpossible(i, j)
  BY <1>6 DEF CommitImpossible, Failed
<1>7. CASE CommitAssignments(i, j)
  BY <1>7 DEF CommitAssignments, Succeeded
<1>8. CASE CleanupOrphans(i, j)
  BY <1>8 DEF CleanupOrphans
<1> QED
  BY <1>1, <1>2, <1>3, <1>4, <1>5, <1>6, <1>7, <1>8 DEF JobStep

-----------------------------------------------------------------------------
(* Epochs have one owner.                                                  *)

LEMMA EpochsOwnedInit == Init => EpochsOwned
BY InstAssumption DEF Init, EpochsOwned

LEMMA EpochsOwnedStep ==
  ASSUME TypeOK, EpochsOwned, [Next]_vars
  PROVE  EpochsOwned'
<1> USE InstAssumption
    DEF EpochsOwned, TypeOK, zkVars, lifeVars, watchVars, applyVars, leadVars,
        jobVars
<1>1. ASSUME NEW i \in Inst, Lifecycle(i)
      PROVE  EpochsOwned'
  <2>1. CASE Boot(i)
    BY <2>1 DEF Boot
  <2>2. CASE RegisterMember(i)
    BY <2>2 DEF RegisterMember
  <2>3. CASE RegisterWatches(i)
    BY <2>3 DEF RegisterWatches
  <2>4. CASE RefreshRead(i)
    BY <2>4 DEF RefreshRead
  <2>5. CASE RefreshApply(i)
    BY <2>5 DEF RefreshApply
  <2>6. CASE StartElection(i)
    BY <2>6 DEF StartElection
  <2>7. CASE Stop(i)
    BY <2>7 DEF Stop, DropEphemerals
  <2>8. CASE Crash(i)
    BY <2>8 DEF Crash
  <2>9. CASE ExpireDead(i)
    BY <2>9 DEF ExpireDead, DropEphemerals
  <2>10. CASE ExpireLive(i)
    BY <2>10 DEF ExpireLive, DropEphemerals
  <2>11. CASE OnLost(i)
    BY <2>11 DEF OnLost
  <2>12. CASE OnConnected(i)
    BY <2>12 DEF OnConnected
  <2> QED
    BY <1>1, <2>1, <2>2, <2>3, <2>4, <2>5, <2>6, <2>7, <2>8, <2>9, <2>10,
       <2>11, <2>12 DEF Lifecycle
<1>2. ASSUME NEW i \in Inst, OnAssignmentChanged(i)
      PROVE  EpochsOwned'
  BY <1>2 DEF OnAssignmentChanged
<1>3. ASSUME NEW i \in Inst, HandleMembershipChange(i)
      PROVE  EpochsOwned'
  BY <1>3 DEF HandleMembershipChange
<1>4. ASSUME NEW i \in Inst, BecomeLeader(i)
      PROVE  EpochsOwned'
  BY <1>4 DEF BecomeLeader
<1>5. ASSUME NEW i \in Inst, NEW j \in jobs[i], JobStep(i, j)
      PROVE  EpochsOwned'
  BY <1>5, JobStepFrame
<1>6. CASE UNCHANGED vars
  BY <1>6 DEF vars
<1> QED
  BY <1>1, <1>2, <1>3, <1>4, <1>5, <1>6 DEF Next

-----------------------------------------------------------------------------
(* Stamps name transactions.                                               *)

LEMMA TransactionsType == TypeOK => Transactions \subseteq Commit
<1> SUFFICES ASSUME TypeOK, NEW i \in Inst, NEW j \in jobs[i]
             PROVE  [ep |-> j.ep, ts |-> j.ts, insts |-> j.insts, by |-> i]
                      \in Commit
  BY DEF Transactions, Pending, TypeOK
<1> QED
  BY DEF TypeOK, Job, Commit

(* x carries the same transaction as y.                                    *)
SameTx(x, y) ==
  /\ x.pc = "commit" /\ y.pc = "commit"
  /\ x.ep = y.ep /\ x.ts = y.ts /\ x.insts = y.insts

(* A step that brings no new transaction to a coroutine brings none to the *)
(* set of all transactions.                                                *)
LEMMA PendingShrinks ==
  ASSUME \A k \in Inst : \A x \in jobs'[k] :
           x.pc = "commit" => \E y \in jobs[k] : SameTx(x, y),
         log' \subseteq Transactions
  PROVE  Transactions' \subseteq Transactions
<1> SUFFICES ASSUME NEW k \in Inst, NEW t \in Pending(k)'
             PROVE  t \in Transactions
  BY DEF Transactions
<1>1. PICK x \in jobs'[k] :
        /\ x.pc = "commit"
        /\ t = [ep |-> x.ep, ts |-> x.ts, insts |-> x.insts, by |-> k]
  BY DEF Pending
<1>2. PICK y \in jobs[k] : SameTx(x, y)
  BY <1>1
<1>3. t \in Pending(k)
  BY <1>1, <1>2 DEF Pending, SameTx
<1> QED
  BY <1>3 DEF Transactions

LEMMA GhostsKeepTx ==
  ASSUME NEW js \in SUBSET Job, NEW x \in Ghosts(js)
  PROVE  \E y \in js : SameTx(x, y)
BY DEF Ghosts, SameTx, Job

LEMMA CancelKeepsTx ==
  ASSUME TypeOK, NEW i \in Inst, NEW j \in jobs[i],
         NEW x \in RetryCancelled(i, j), x.pc = "commit"
  PROVE  \E y \in jobs[i] : SameTx(x, y)
<1>1. CASE x \in jobs[i]
  BY <1>1 DEF SameTx
<1>2. CASE x \in Ghosts(OfKind(i, "retry") \ {j})
  <2>1. OfKind(i, "retry") \ {j} \in SUBSET Job
    BY DEF OfKind, TypeOK
  <2> QED
    BY <1>2, <2>1, GhostsKeepTx DEF OfKind
<1> QED
  BY <1>1, <1>2 DEF RetryCancelled

(* Everything that is not the building of a transaction.                   *)
LEMMA NoNewTransaction ==
  ASSUME TypeOK, NEW i \in Inst,
         \/ Lifecycle(i) \/ OnAssignmentChanged(i)
         \/ HandleMembershipChange(i) \/ BecomeLeader(i)
  PROVE  Transactions' \subseteq Transactions
<1> SUFFICES ASSUME TRUE
             PROVE  /\ log' = log
                    /\ \A k \in Inst : \A x \in jobs'[k] :
                         x.pc = "commit" => \E y \in jobs[k] : SameTx(x, y)
  BY PendingShrinks DEF Transactions
<1> USE DEF TypeOK, zkVars, lifeVars, watchVars, applyVars, leadVars, jobVars
<1>1. CASE Lifecycle(i)
  <2>1. log' = log /\ (jobs' = jobs \/ jobs' = [jobs EXCEPT ![i] = {}])
    BY <1>1 DEF Lifecycle, Boot, RegisterMember, RegisterWatches, RefreshRead,
                RefreshApply, StartElection, Stop, Crash, ExpireDead,
                ExpireLive, OnLost, OnConnected
  <2> QED
    BY <2>1 DEF SameTx
<1>2. CASE OnAssignmentChanged(i)
  BY <1>2 DEF OnAssignmentChanged, SameTx
<1>3. CASE HandleMembershipChange(i)
  <2> DEFINE old == OfKind(i, "debounce")
             job == NewJob("debounce", "sleep", {})
  <2>1. old \in SUBSET jobs[i] /\ old \in SUBSET Job
    BY DEF OfKind
  <2>2. job.pc = "sleep"
    BY DEF NewJob
  <2> HIDE DEF old, job
  <2>3. ASSUME NEW x \in (jobs[i] \ old) \cup Ghosts(old) \cup {job},
               x.pc = "commit"
        PROVE  \E y \in jobs[i] : SameTx(x, y)
    <3>1. CASE x \in jobs[i]
      BY <2>3, <3>1 DEF SameTx
    <3>2. CASE x \in Ghosts(old)
      BY <2>1, <3>2, GhostsKeepTx
    <3> QED
      BY <2>2, <2>3, <3>1, <3>2
  <2>4. \/ jobs' = jobs
        \/ jobs' = [jobs EXCEPT ![i] = (jobs[i] \ old) \cup Ghosts(old)
                                          \cup {job}]
    BY <1>3 DEF HandleMembershipChange, old, job
  <2>5. \A k \in Inst : \A x \in jobs'[k] :
          x.pc = "commit" => \E y \in jobs[k] : SameTx(x, y)
    BY <2>3, <2>4 DEF SameTx
  <2> QED
    BY <1>3, <2>5 DEF HandleMembershipChange
<1>4. CASE BecomeLeader(i)
  <2>1. NewJob("become", "list", {}).pc = "list"
    BY DEF NewJob
  <2> QED
    BY <1>4, <2>1 DEF BecomeLeader, SameTx
<1> QED
  BY <1>1, <1>2, <1>3, <1>4

(* A step of a coroutine that builds no transaction.                       *)
LEMMA NoNewTransactionJob ==
  ASSUME TypeOK, NEW i \in Inst, NEW j \in jobs[i], JobStep(i, j),
         ~BuildTransaction(i, j)
  PROVE  Transactions' \subseteq Transactions
<1> USE DEF TypeOK, jobFrame
<1> DEFINE Kept(x) == x.pc = "commit" => \E y \in jobs[i] : SameTx(x, y)
<1>0. j \in Job /\ \A k \in Inst \ {i} : jobs'[k] = jobs[k]
  BY JobStepFrame
<1>1. SUFFICES log' \subseteq Transactions /\ \A x \in jobs'[i] : Kept(x)
  <2>1. ASSUME NEW k \in Inst, NEW x \in jobs'[k], x.pc = "commit"
        PROVE  \E y \in jobs[k] : SameTx(x, y)
    BY <1>0, <1>1, <2>1 DEF SameTx
  <2> QED
    BY <1>1, <2>1, PendingShrinks
<1>2. log \subseteq Transactions
  BY DEF Transactions
<1>3. \A x \in jobs[i] \ {j} : Kept(x)
  BY DEF SameTx
<1>4. \A x \in RetryCancelled(i, j) : Kept(x)
  BY CancelKeepsTx
<1>5. \A x : x.pc # "commit" => Kept(x)
  OBVIOUS
<1> HIDE DEF Kept
<1>6. ASSUME Failed(i, j)
      PROVE  \A x \in jobs'[i] : Kept(x)
  <2> DEFINE again == [j EXCEPT !.kind = "retry", !.pc = "sleep", !.ep = 0,
                                !.ts = 0]
  <2>1. again.pc = "sleep"
    BY <1>0 DEF Job
  <2>2. \/ jobs'[i] = jobs[i] \ {j}
        \/ jobs'[i] = RetryCancelled(i, j) \cup {again}
    BY <1>6 DEF Failed
  <2> HIDE DEF again
  <2> QED
    BY <1>3, <1>4, <1>5, <2>1, <2>2
<1>7. CASE Wake(i, j)
  <2> DEFINE next == [j EXCEPT !.pc = IF j.kind = "retry" THEN "mongo"
                                                          ELSE "list"]
  <2>1. next.pc # "commit"
    BY <1>0 DEF Job
  <2>2. jobs'[i] \subseteq (jobs[i] \ {j}) \cup {next} /\ log' = log
    BY <1>7 DEF Wake, AfterSleep
  <2> HIDE DEF next
  <2> QED
    BY <1>2, <1>3, <1>5, <2>1, <2>2
<1>8. CASE ListMembers(i, j)
  <2> DEFINE next == [j EXCEPT !.pc = "mongo", !.insts = members]
  <2>1. next.pc # "commit"
    BY <1>0 DEF Job
  <2>2. jobs'[i] = (jobs[i] \ {j}) \cup {next} /\ log' = log
    BY <1>8 DEF ListMembers
  <2> HIDE DEF next
  <2> QED
    BY <1>2, <1>3, <1>5, <2>1, <2>2
<1>9. CASE ListMembersFails(i, j)
  <2>1. jobs'[i] = jobs[i] \ {j} /\ log' = log
    BY <1>9 DEF ListMembersFails
  <2> QED
    BY <1>2, <1>3, <2>1
<1>10. CASE RedistributeFails(i, j)
  BY <1>2, <1>6, <1>10 DEF RedistributeFails
<1>11. CASE CommitImpossible(i, j)
  BY <1>2, <1>6, <1>11 DEF CommitImpossible
<1>12. CASE CommitAssignments(i, j)
  <2> DEFINE next == [j EXCEPT !.pc = "gc"]
             c == [ep |-> j.ep, ts |-> j.ts, insts |-> j.insts, by |-> i]
  <2>1. next.pc # "commit"
    BY <1>0 DEF Job
  <2>2. \/ jobs'[i] = jobs[i] \ {j}
        \/ jobs'[i] \subseteq RetryCancelled(i, j) \cup {next}
    BY <1>12 DEF CommitAssignments, Succeeded
  <2>3. c \in Pending(i)
    BY <1>12 DEF CommitAssignments, Pending
  <2>4. log' = log \cup {c}
    BY <1>12 DEF CommitAssignments
  <2>5. log' \subseteq Transactions
    BY <1>2, <2>3, <2>4 DEF Transactions
  <2> HIDE DEF next, c
  <2> QED
    BY <1>3, <1>4, <1>5, <2>1, <2>2, <2>5
<1>13. CASE CleanupOrphans(i, j)
  <2>1. jobs'[i] = jobs[i] \ {j} /\ log' = log
    BY <1>13 DEF CleanupOrphans
  <2> QED
    BY <1>2, <1>3, <2>1
<1> QED
  BY <1>7, <1>8, <1>9, <1>10, <1>11, <1>12, <1>13 DEF JobStep

LEMMA StampsUniqueInit == Init => StampsUnique
BY DEF Init, StampsUnique, Transactions, Pending

(* Uniqueness survives as long as no transaction is added, the counters do *)
(* not fall and an epoch is given out only when it is new.                 *)
LEMMA StampsUniqueKept ==
  ASSUME TypeOK, TypeOK', StampsUnique, Transactions' \subseteq Transactions,
         epochNode' >= epochNode,
         \A k \in Inst : clock'[k] >= clock[k],
         \A k \in Inst : epoch'[k] \in {epoch[k], 0, epochNode + 1}
  PROVE  StampsUnique'
<1>1. Transactions \subseteq Commit
  BY TransactionsType
<1>2. ASSUME NEW t \in Transactions'
      PROVE  /\ t.ep \in 1..epochNode' /\ t.ts <= clock'[t.by]
             /\ \A i \in Inst : epoch'[i] = t.ep => t.by = i
  <2>1. t \in Transactions /\ t \in Commit
    BY <1>1
  <2>2. t.ep \in Nat /\ t.ts \in Nat /\ t.by \in Inst
    BY <2>1 DEF Commit
  <2>3. /\ t.ep \in 1..epochNode /\ t.ts <= clock[t.by]
        /\ \A i \in Inst : epoch[i] = t.ep => t.by = i
    BY <2>1 DEF StampsUnique
  <2>4. epochNode \in Nat /\ epochNode' \in Nat /\ clock[t.by] \in Nat
        /\ clock'[t.by] \in Nat
    BY <2>2 DEF TypeOK
  <2>5. t.ep \in 1..epochNode' /\ t.ts <= clock'[t.by]
    BY <2>2, <2>3, <2>4
  <2>6. t.ep # 0 /\ t.ep # epochNode + 1
    BY <2>3, <2>4
  <2> QED
    BY <2>3, <2>5, <2>6
<1> QED
  BY <1>2 DEF StampsUnique

(* A new transaction carries the epoch of a leadership that is the         *)
(* builder's own and a reading of its clock no earlier one has.            *)
LEMMA StampsUniqueBuild ==
  ASSUME TypeOK, TypeOK', EpochsOwned, StampsUnique, NEW i \in Inst,
         NEW j \in jobs[i], BuildTransaction(i, j)
  PROVE  StampsUnique'
<1> DEFINE job == [j EXCEPT !.pc = "commit", !.ep = epoch[i],
                            !.ts = clock[i] + 1]
           new == [ep |-> epoch[i], ts |-> clock[i] + 1, insts |-> j.insts,
                   by |-> i]
<1>1. j \in Job /\ epoch[i] \in Nat /\ clock[i] \in Nat /\ epochNode \in Nat
  BY DEF TypeOK
<1>2. epoch[i] \in 1..epochNode
  BY <1>1 DEF EpochsOwned
<1>3. /\ jobs' = [jobs EXCEPT ![i] = (jobs[i] \ {j}) \cup {job}]
      /\ log' = log /\ epoch' = epoch /\ epochNode' = epochNode
      /\ clock' = [clock EXCEPT ![i] = clock[i] + 1]
  BY DEF BuildTransaction, jobFrame, leadVars
<1>4. job.ep = new.ep /\ job.ts = new.ts /\ job.insts = new.insts
  BY <1>1 DEF Job
<1>5. Transactions' \subseteq Transactions \cup {new}
  <2> HIDE DEF new
  <2> SUFFICES ASSUME NEW k \in Inst, NEW t \in Pending(k)'
               PROVE  t \in Transactions \cup {new}
    BY <1>3 DEF Transactions
  <2>1. PICK x \in jobs'[k] :
          /\ x.pc = "commit"
          /\ t = [ep |-> x.ep, ts |-> x.ts, insts |-> x.insts, by |-> k]
    BY DEF Pending
  <2>2. CASE x \in jobs[k]
    <3>1. t \in Pending(k)
      BY <2>1, <2>2 DEF Pending
    <3> QED
      BY <3>1 DEF Transactions
  <2>3. CASE k = i /\ x = job
    <3>1. t = new
      BY <1>4, <2>1, <2>3 DEF new
    <3> QED
      BY <3>1
  <2> QED
    BY <1>3, <2>1, <2>2, <2>3 DEF TypeOK
<1>6. ASSUME NEW t \in Transactions
      PROVE  /\ t.ep \in 1..epochNode /\ t.by \in Inst /\ t.ts \in Nat
             /\ t.ts <= clock[t.by] /\ t.ts <= clock'[t.by]
             /\ \A k \in Inst : epoch[k] = t.ep => t.by = k
             /\ t.ep = new.ep => t.by = new.by /\ t.ts < new.ts
  <2>1. t.ep \in Nat /\ t.ts \in Nat /\ t.by \in Inst
    BY TransactionsType DEF Commit
  <2>2. /\ t.ep \in 1..epochNode /\ t.ts <= clock[t.by]
        /\ \A k \in Inst : epoch[k] = t.ep => t.by = k
    BY DEF StampsUnique
  <2>3. clock[t.by] \in Nat
    BY <2>1 DEF TypeOK
  <2>4. clock'[t.by] = IF t.by = i THEN clock[i] + 1 ELSE clock[t.by]
    BY <1>3, <2>1 DEF TypeOK
  <2>5. t.ts <= clock'[t.by]
    BY <1>1, <2>1, <2>2, <2>3, <2>4
  <2>6. t.ep = new.ep => t.by = i /\ t.ts < clock[i] + 1
    BY <1>1, <2>1, <2>2
  <2> QED
    BY <2>1, <2>2, <2>5, <2>6
<1>7. /\ new.ep \in 1..epochNode /\ new.ts <= clock'[new.by]
      /\ \A k \in Inst : epoch[k] = new.ep => new.by = k
  <2>1. clock'[i] = clock[i] + 1
    BY <1>3 DEF TypeOK
  <2>2. \A k \in Inst : epoch[k] = epoch[i] => k = i
    BY <1>2 DEF EpochsOwned
  <2> QED
    BY <1>1, <1>2, <2>1, <2>2
<1> HIDE DEF new
<1>8. ASSUME NEW t \in Transactions', NEW u \in Transactions', t.ep = u.ep
      PROVE  t.by = u.by /\ (t.ts = u.ts => t = u)
  <2>1. CASE t \in Transactions /\ u \in Transactions
    BY <1>8, <2>1 DEF StampsUnique
  <2>2. CASE t = new /\ u = new
    BY <2>2
  <2>3. CASE t = new /\ u \in Transactions
    <3>1. u.by = new.by /\ u.ts < new.ts /\ u.ts \in Nat /\ new.ts \in Nat
      BY <1>1, <1>6, <1>8, <2>3 DEF new
    <3> QED
      BY <2>3, <3>1
  <2>4. CASE u = new /\ t \in Transactions
    <3>1. t.by = new.by /\ t.ts < new.ts /\ t.ts \in Nat /\ new.ts \in Nat
      BY <1>1, <1>6, <1>8, <2>4 DEF new
    <3> QED
      BY <2>4, <3>1
  <2> QED
    BY <1>5, <2>1, <2>2, <2>3, <2>4
<1>9. ASSUME NEW t \in Transactions'
      PROVE  /\ t.ep \in 1..epochNode' /\ t.ts <= clock'[t.by]
             /\ \A k \in Inst : epoch'[k] = t.ep => t.by = k
  BY <1>3, <1>5, <1>6, <1>7
<1> QED
  BY <1>8, <1>9 DEF StampsUnique

LEMMA StampsUniqueStep ==
  ASSUME TypeOK, TypeOK', EpochsOwned, StampsUnique, [Next]_vars
  PROVE  StampsUnique'
<1>1. ASSUME NEW i \in Inst,
             \/ Lifecycle(i) \/ OnAssignmentChanged(i)
             \/ HandleMembershipChange(i) \/ BecomeLeader(i)
      PROVE  StampsUnique'
  <2>1. Transactions' \subseteq Transactions
    BY <1>1, NoNewTransaction
  <2>2. /\ epochNode' >= epochNode /\ clock' = clock
        /\ \A k \in Inst : epoch'[k] \in {epoch[k], 0, epochNode + 1}
    BY <1>1 DEF Lifecycle, Boot, RegisterMember, RegisterWatches, RefreshRead,
         RefreshApply, StartElection, Stop, Crash, ExpireDead, ExpireLive,
         OnLost, OnConnected, OnAssignmentChanged, HandleMembershipChange,
         BecomeLeader, TypeOK, zkVars, lifeVars, watchVars, applyVars,
         leadVars, jobVars
  <2>3. \A k \in Inst : clock'[k] >= clock[k]
    BY <2>2 DEF TypeOK
  <2> QED
    BY <2>1, <2>2, <2>3, StampsUniqueKept
<1>2. ASSUME NEW i \in Inst, NEW j \in jobs[i], JobStep(i, j),
             ~BuildTransaction(i, j)
      PROVE  StampsUnique'
  <2>1. Transactions' \subseteq Transactions
    BY <1>2, NoNewTransactionJob
  <2>2. epochNode' = epochNode /\ epoch' = epoch
    BY <1>2, JobStepFrame
  <2>3. clock' = clock
    BY <1>2 DEF JobStep, Wake, AfterSleep, ListMembers, ListMembersFails,
         RedistributeFails, CommitImpossible, CommitAssignments, CleanupOrphans
  <2>4. /\ epochNode' >= epochNode /\ \A k \in Inst : clock'[k] >= clock[k]
        /\ \A k \in Inst : epoch'[k] \in {epoch[k], 0, epochNode + 1}
    BY <2>2, <2>3 DEF TypeOK
  <2> QED
    BY <2>1, <2>4, StampsUniqueKept
<1>3. ASSUME NEW i \in Inst, NEW j \in jobs[i], BuildTransaction(i, j)
      PROVE  StampsUnique'
  BY <1>3, StampsUniqueBuild
<1>4. CASE UNCHANGED vars
  BY <1>4 DEF StampsUnique, Transactions, Pending, vars, zkVars, lifeVars,
              watchVars, applyVars, leadVars, jobVars
<1> QED
  BY <1>1, <1>2, <1>3, <1>4 DEF Next

-----------------------------------------------------------------------------
(* Every assignment is a part of one committed transaction.                *)

LEMMA ProvenanceInit == Init => Provenance
BY DEF Init, Provenance, Absent

(* The ways in which a step may touch the carriers of assignments.         *)
LEMMA ProvenanceKept ==
  ASSUME Provenance, log \subseteq log',
         \A k \in Inst : \/ node'[k] = node[k] \/ node'[k].st # "data"
                        \/ \E c \in log' : PartOf(node'[k], c, k),
         \A k \in Inst : \/ fetched'[k] \in {fetched[k], node[k]}
                        \/ fetched'[k].st # "data",
         \A k \in Inst :
            \/ known'[k] = known[k] /\ assigned'[k] = assigned[k]
            \/ known'[k] = NoStamp
            \/ \E z \in {node[k], fetched[k]} :
                 /\ z.st = "data" /\ assigned'[k] = z.procs
                 /\ known'[k] = [ep |-> z.ep, ts |-> z.ts]
  PROVE  Provenance'
<1> SUFFICES ASSUME NEW k \in Inst
             PROVE  /\ \A z \in {node'[k], fetched'[k]} :
                         z.st = "data" => \E c \in log' : PartOf(z, c, k)
                    /\ known'[k] # NoStamp =>
                         \E c \in log' :
                            PartOf([ep |-> known'[k].ep, ts |-> known'[k].ts,
                                    procs |-> assigned'[k]], c, k)
  BY DEF Provenance, PartOf, NoStamp
<1>1. \A z \in {node[k], fetched[k]} :
        z.st = "data" => \E c \in log' : PartOf(z, c, k)
  BY DEF Provenance
<1>2. \A z \in {node'[k], fetched'[k]} :
        z.st = "data" => \E c \in log' : PartOf(z, c, k)
  BY <1>1
<1>3. CASE known'[k] = known[k] /\ assigned'[k] = assigned[k]
  BY <1>2, <1>3 DEF Provenance
<1>4. CASE known'[k] = NoStamp
  BY <1>2, <1>4
<1>5. ASSUME NEW z \in {node[k], fetched[k]}, z.st = "data",
             assigned'[k] = z.procs, known'[k] = [ep |-> z.ep, ts |-> z.ts]
      PROVE  \E c \in log' :
               PartOf([ep |-> known'[k].ep, ts |-> known'[k].ts,
                       procs |-> assigned'[k]], c, k)
  <2>1. PICK c \in log' : PartOf(z, c, k)
    BY <1>1, <1>5
  <2>2. PartOf([ep |-> known'[k].ep, ts |-> known'[k].ts,
                procs |-> assigned'[k]], c, k)
    BY <1>5, <2>1 DEF PartOf
  <2> QED
    BY <2>2
<1> QED
  BY <1>2, <1>3, <1>4, <1>5

(* What _apply_assignment may do to the instance it runs on.               *)
LEMMA ApplyEffect ==
  ASSUME TypeOK, NEW i \in Inst, NEW z, ApplyAssignment(i, z)
  PROVE  \A k \in Inst :
           \/ known'[k] = known[k] /\ assigned'[k] = assigned[k]
           \/ /\ k = i /\ z.st = "data" /\ Newer(z, known[i])
              /\ assigned'[k] = z.procs
              /\ known'[k] = [ep |-> z.ep, ts |-> z.ts]
BY DEF ApplyAssignment, TypeOK

(* A committed transaction is in the log, and each node has its part.      *)
LEMMA CommitEffect ==
  ASSUME TypeOK, NEW i \in Inst, NEW j \in jobs[i], CommitAssignments(i, j)
  PROVE  \A k \in Inst : \/ node'[k] = node[k]
                        \/ \E c \in log' : PartOf(node'[k], c, k)
<1> DEFINE c == [ep |-> j.ep, ts |-> j.ts, insts |-> j.insts, by |-> i]
<1>1. c \in log'
  BY DEF CommitAssignments
<1>2. ASSUME NEW k \in Inst, k \in j.insts
      PROVE  PartOf(node'[k], c, k)
  BY <1>2 DEF CommitAssignments, Payload, PartOf
<1> QED
  BY <1>1, <1>2 DEF CommitAssignments

LEMMA ProvenanceStep ==
  ASSUME TypeOK, Provenance, [Next]_vars
  PROVE  Provenance'
<1> USE DEF TypeOK, zkVars, lifeVars, watchVars, applyVars, leadVars, jobVars
<1>1. ASSUME NEW i \in Inst, Lifecycle(i), ~RefreshApply(i)
      PROVE  Provenance'
  <2>1. log' = log
    BY <1>1 DEF Lifecycle, Boot, RegisterMember, RegisterWatches, RefreshRead,
         StartElection, Stop, Crash, ExpireDead, ExpireLive, OnLost, OnConnected
  <2>2. \A k \in Inst : node'[k] = node[k] \/ node'[k].st # "data"
    BY <1>1 DEF Lifecycle, Boot, RegisterMember, RegisterWatches, RefreshRead,
         StartElection, Stop, Crash, ExpireDead, ExpireLive, OnLost,
         OnConnected, DropEphemerals, Empty
  <2>3. \A k \in Inst : \/ fetched'[k] \in {fetched[k], node[k]}
                        \/ fetched'[k].st # "data"
    BY <1>1 DEF Lifecycle, Boot, RegisterMember, RegisterWatches, RefreshRead,
         StartElection, Stop, Crash, ExpireDead, ExpireLive, OnLost,
         OnConnected, DropEphemerals, Absent
  <2>4. \A k \in Inst : \/ known'[k] = known[k] /\ assigned'[k] = assigned[k]
                        \/ known'[k] = NoStamp
    BY <1>1 DEF Lifecycle, Boot, RegisterMember, RegisterWatches, RefreshRead,
         StartElection, Stop, Crash, ExpireDead, ExpireLive, OnLost,
         OnConnected, DropEphemerals
  <2> HIDE DEF TypeOK
  <2> QED
    BY <2>1, <2>2, <2>3, <2>4, ProvenanceKept
<1>2. ASSUME NEW i \in Inst, RefreshApply(i)
      PROVE  Provenance'
  <2>1. log' = log /\ node' = node
        /\ \A k \in Inst : fetched'[k] = fetched[k] \/ fetched'[k].st # "data"
    BY <1>2 DEF RefreshApply, Absent
  <2>2. \A k \in Inst :
           \/ known'[k] = known[k] /\ assigned'[k] = assigned[k]
           \/ /\ k = i /\ fetched[i].st = "data"
              /\ assigned'[k] = fetched[i].procs
              /\ known'[k] = [ep |-> fetched[i].ep, ts |-> fetched[i].ts]
    BY <1>2, ApplyEffect DEF RefreshApply
  <2> HIDE DEF TypeOK
  <2> QED
    BY <2>1, <2>2, ProvenanceKept
<1>3. ASSUME NEW i \in Inst, OnAssignmentChanged(i)
      PROVE  Provenance'
  <2>1. log' = log /\ node' = node /\ fetched' = fetched
    BY <1>3 DEF OnAssignmentChanged
  <2>2. \A k \in Inst :
           \/ known'[k] = known[k] /\ assigned'[k] = assigned[k]
           \/ /\ k = i /\ node[i].st = "data" /\ assigned'[k] = node[i].procs
              /\ known'[k] = [ep |-> node[i].ep, ts |-> node[i].ts]
    BY <1>3, ApplyEffect DEF OnAssignmentChanged
  <2> HIDE DEF TypeOK
  <2> QED
    BY <2>1, <2>2, ProvenanceKept
<1>4. ASSUME NEW i \in Inst, HandleMembershipChange(i) \/ BecomeLeader(i)
      PROVE  Provenance'
  <2>1. /\ log' = log /\ node' = node /\ fetched' = fetched
        /\ known' = known /\ assigned' = assigned
    BY <1>4 DEF HandleMembershipChange, BecomeLeader
  <2> HIDE DEF TypeOK
  <2> QED
    BY <2>1, ProvenanceKept
<1>5. ASSUME NEW i \in Inst, NEW j \in jobs[i], JobStep(i, j)
      PROVE  Provenance'
  <2>1. fetched' = fetched /\ known' = known /\ assigned' = assigned
    BY <1>5, JobStepFrame
  <2>2. log \subseteq log'
    BY <1>5 DEF JobStep, Wake, AfterSleep, ListMembers, ListMembersFails,
         BuildTransaction,
         RedistributeFails, CommitImpossible, CommitAssignments, CleanupOrphans
  <2>3. CASE CommitAssignments(i, j)
    <3>1. \A k \in Inst : \/ node'[k] = node[k]
                          \/ \E c \in log' : PartOf(node'[k], c, k)
      BY <2>3, CommitEffect
    <3> HIDE DEF TypeOK
    <3> QED
      BY <2>1, <2>2, <3>1, ProvenanceKept
  <2>4. CASE ~CommitAssignments(i, j)
    <3>1. \A k \in Inst : node'[k] = node[k] \/ node'[k].st # "data"
      BY <1>5, <2>4 DEF JobStep, Wake, AfterSleep, ListMembers, ListMembersFails,
           BuildTransaction, RedistributeFails, CommitImpossible,
           CleanupOrphans, Absent, Empty
    <3> HIDE DEF TypeOK
    <3> QED
      BY <2>1, <2>2, <3>1, ProvenanceKept
  <2> QED
    BY <2>3, <2>4
<1>6. CASE UNCHANGED vars
  <2>1. /\ log' = log /\ node' = node /\ fetched' = fetched
        /\ known' = known /\ assigned' = assigned
    BY <1>6 DEF vars
  <2> HIDE DEF TypeOK
  <2> QED
    BY <2>1, ProvenanceKept
<1> QED
  BY <1>1, <1>2, <1>3, <1>4, <1>5, <1>6 DEF Next

-----------------------------------------------------------------------------
(* The inductive invariant and what follows from it.                       *)

IndInv == TypeOK /\ EpochsOwned /\ StampsUnique /\ Provenance

(* In every reachable state epochs have one owner, stamps name one         *)
(* transaction and every assignment is a part of one: the argument behind  *)
(* the stale defence.                                                      *)
THEOREM Invariance == Spec => []IndInv
<1>1. Init => IndInv
  BY InitType, EpochsOwnedInit, StampsUniqueInit, ProvenanceInit DEF IndInv
<1>2. IndInv /\ [Next]_vars => IndInv'
  <2> SUFFICES ASSUME IndInv, [Next]_vars
               PROVE  IndInv'
    OBVIOUS
  <2> USE DEF IndInv
  <2>1. TypeOK'
    BY TypeStep
  <2>2. EpochsOwned'
    BY EpochsOwnedStep
  <2>3. StampsUnique'
    BY <2>1, StampsUniqueStep
  <2>4. Provenance'
    BY ProvenanceStep
  <2> QED
    BY <2>1, <2>2, <2>3, <2>4
<1> QED
  BY <1>1, <1>2, PTL DEF Spec

LEMMA SameStampDisjointFollows == IndInv => SameStampDisjoint
<1> SUFFICES ASSUME IndInv, NEW i \in Inst, NEW k \in Inst, i # k,
                    known[i] = known[k], known[i] # NoStamp
             PROVE  assigned[i] \cap assigned[k] = {}
  BY DEF SameStampDisjoint
<1>1. PICK c \in log : PartOf([ep |-> known[i].ep, ts |-> known[i].ts,
                               procs |-> assigned[i]], c, i)
  BY DEF IndInv, Provenance
<1>2. PICK d \in log : PartOf([ep |-> known[k].ep, ts |-> known[k].ts,
                               procs |-> assigned[k]], d, k)
  BY DEF IndInv, Provenance
<1>3. c \in Transactions /\ d \in Transactions /\ c \in Commit
  BY DEF Transactions, IndInv, TypeOK
<1>4. c.ep = d.ep /\ c.ts = d.ts
  BY <1>1, <1>2 DEF PartOf
<1>5. c = d
  BY <1>3, <1>4 DEF IndInv, StampsUnique
<1>6. /\ assigned[i] = ComputeAssignments(c.insts, Proc)[i] /\ i \in c.insts
      /\ assigned[k] = ComputeAssignments(c.insts, Proc)[k] /\ k \in c.insts
  BY <1>1, <1>2, <1>5 DEF PartOf
<1>7. c.insts \in SUBSET Inst
  BY <1>3 DEF Commit
<1>8. c.insts \subseteq Nat /\ IsFiniteSet(c.insts)
  BY <1>7, InstAssumption, FS_Subset
<1> QED
  BY <1>6, <1>8, AssignmentsDisjoint

(* Two instances that follow the same (leader_epoch, assigned_at) never    *)
(* analyse the same process: _compute_assignments, the atomic multi        *)
(* set_data and the stale defence, under any interleaving.                 *)
THEOREM FollowersDisjoint == Spec => []SameStampDisjoint
BY Invariance, SameStampDisjointFollows, PTL

LEMMA HolderEpochFollows == IndInv => HolderEpochIsNewest
<1> SUFFICES ASSUME IndInv, NEW i \in Inst, NEW k \in Inst, leader = i
             PROVE  known[k].ep <= epoch[i]
  BY DEF HolderEpochIsNewest
<1>1. epoch[i] = epochNode /\ epochNode \in Nat
  BY DEF IndInv, EpochsOwned, TypeOK
<1>2. CASE known[k] = NoStamp
  BY <1>1, <1>2 DEF NoStamp
<1>3. CASE known[k] # NoStamp
  <2>1. PICK c \in log : PartOf([ep |-> known[k].ep, ts |-> known[k].ts,
                                 procs |-> assigned[k]], c, k)
    BY <1>3 DEF IndInv, Provenance
  <2>2. c \in Transactions
    BY DEF Transactions
  <2>3. c.ep \in 1..epochNode
    BY <2>2 DEF IndInv, StampsUnique
  <2>4. c.ep = known[k].ep
    BY <2>1 DEF PartOf
  <2> QED
    BY <1>1, <2>3, <2>4
<1> QED
  BY <1>2, <1>3

(* Nobody has accepted an epoch above the one of the holder of the         *)
(* election lock, so what it writes is never dropped as stale.             *)
THEOREM HolderIsNewest == Spec => []HolderEpochIsNewest
BY Invariance, HolderEpochFollows, PTL

LEMMA SettledCoverageFollows == IndInv => SettledCoverage
<1> SUFFICES ASSUME IndInv, NEW c \in log, c.insts = members, members # {},
                    \A i \in members : known[i] = [ep |-> c.ep, ts |-> c.ts],
                    NEW p \in Proc
             PROVE  Cardinality({i \in members : p \in assigned[i]}) = 1
  BY DEF SettledCoverage
<1>1. members \subseteq Inst /\ members \subseteq Nat /\ IsFiniteSet(members)
  BY InstAssumption, FS_Subset DEF IndInv, TypeOK
<1>2. c \in Transactions /\ c.ep \in 1..epochNode
  BY DEF IndInv, StampsUnique, Transactions
<1>3. ASSUME NEW i \in members
      PROVE  assigned[i] = ComputeAssignments(members, Proc)[i]
  <2>1. known[i] # NoStamp
    BY <1>2 DEF NoStamp
  <2>2. PICK d \in log : PartOf([ep |-> known[i].ep, ts |-> known[i].ts,
                                 procs |-> assigned[i]], d, i)
    BY <1>1, <2>1 DEF IndInv, Provenance
  <2>3. d \in Transactions /\ d.ep = c.ep /\ d.ts = c.ts
    BY <2>2 DEF Transactions, PartOf
  <2>4. d = c
    BY <1>2, <2>3 DEF IndInv, StampsUnique
  <2> QED
    BY <2>2, <2>4 DEF PartOf
<1>4. PICK i \in members : p \in ComputeAssignments(members, Proc)[i]
  BY <1>1, ProcAssumption, AssignmentsCover
<1>5. \A k \in members : p \in assigned[k] => k = i
  BY <1>1, <1>3, <1>4, AssignmentsDisjoint
<1>6. {k \in members : p \in assigned[k]} = {i}
  BY <1>3, <1>4, <1>5
<1> QED
  BY <1>6, FS_Singleton

(* When all members follow the transaction computed for exactly them,      *)
(* every process has one owner: no gap and no overlap.                     *)
THEOREM SettledIsPartition == Spec => []SettledCoverage
BY Invariance, SettledCoverageFollows, PTL

-----------------------------------------------------------------------------
(* Leadership without the lock.                                            *)

LEMMA ZombieStep ==
  ASSUME TypeOK, ZombieOnlyInRecovery, [Next]_vars
  PROVE  ZombieOnlyInRecovery'
<1> USE InstAssumption
    DEF ZombieOnlyInRecovery, Running, TypeOK, zkVars, lifeVars, watchVars,
        applyVars, leadVars, jobVars
<1>1. ASSUME NEW i \in Inst, Lifecycle(i)
      PROVE  ZombieOnlyInRecovery'
  <2>1. CASE Boot(i)
    BY <2>1 DEF Boot
  <2>2. CASE RegisterMember(i)
    BY <2>2 DEF RegisterMember
  <2>3. CASE RegisterWatches(i)
    BY <2>3 DEF RegisterWatches
  <2>4. CASE RefreshRead(i)
    BY <2>4 DEF RefreshRead
  <2>5. CASE RefreshApply(i)
    BY <2>5 DEF RefreshApply
  <2>6. CASE StartElection(i)
    BY <2>6 DEF StartElection
  <2>7. CASE Stop(i)
    BY <2>7 DEF Stop, DropEphemerals
  <2>8. CASE Crash(i)
    BY <2>8 DEF Crash
  <2>9. CASE ExpireDead(i)
    BY <2>9 DEF ExpireDead, DropEphemerals
  <2>10. CASE ExpireLive(i)
    BY <2>10 DEF ExpireLive, DropEphemerals
  <2>11. CASE OnLost(i)
    BY <2>11 DEF OnLost
  <2>12. CASE OnConnected(i)
    BY <2>12 DEF OnConnected
  <2> QED
    BY <1>1, <2>1, <2>2, <2>3, <2>4, <2>5, <2>6, <2>7, <2>8, <2>9, <2>10,
       <2>11, <2>12 DEF Lifecycle
<1>2. ASSUME NEW i \in Inst,
             OnAssignmentChanged(i) \/ HandleMembershipChange(i)
      PROVE  ZombieOnlyInRecovery'
  BY <1>2 DEF OnAssignmentChanged, HandleMembershipChange
<1>3. ASSUME NEW i \in Inst, BecomeLeader(i)
      PROVE  ZombieOnlyInRecovery'
  BY <1>3 DEF BecomeLeader
<1>4. ASSUME NEW i \in Inst, NEW j \in jobs[i], JobStep(i, j)
      PROVE  ZombieOnlyInRecovery'
  BY <1>4, JobStepFrame
<1>5. CASE UNCHANGED vars
  BY <1>5 DEF vars
<1> QED
  BY <1>1, <1>2, <1>3, <1>4, <1>5 DEF Next

(* An instance whose recovery is complete answers is_leader() only if it   *)
(* holds the election lock, so at most one running instance leads.         *)
THEOREM LeadersHoldTheLock == Spec => []ZombieOnlyInRecovery
<1>1. Init => ZombieOnlyInRecovery
  BY DEF Init, ZombieOnlyInRecovery
<1>2. TypeOK /\ ZombieOnlyInRecovery /\ [Next]_vars => ZombieOnlyInRecovery'
  BY ZombieStep
<1> QED
  BY <1>1, <1>2, TypeCorrect, PTL DEF Spec

-----------------------------------------------------------------------------
(* The stamp an instance follows.                                          *)

LEMMA StampStep ==
  ASSUME TypeOK, [Next]_vars, NEW i \in Inst
  PROVE  \/ known'[i] = known[i] /\ assigned'[i] = assigned[i]
         \/ Newer(known'[i], known[i])
         \/ /\ known'[i] = NoStamp /\ assigned'[i] = {}
            /\ sess[i] \in {"none", "expired"}
<1> USE DEF TypeOK, zkVars, lifeVars, watchVars, applyVars, leadVars, jobVars
<1>1. ASSUME NEW k \in Inst, NEW z, ApplyAssignment(k, z)
      PROVE  \/ known'[i] = known[i] /\ assigned'[i] = assigned[i]
             \/ Newer(known'[i], known[i])
  <2>1. \/ known'[i] = known[i] /\ assigned'[i] = assigned[i]
        \/ /\ i = k /\ Newer(z, known[k])
           /\ known'[i] = [ep |-> z.ep, ts |-> z.ts]
    BY <1>1, ApplyEffect
  <2> QED
    BY <2>1 DEF Newer
<1>2. ASSUME NEW k \in Inst, Lifecycle(k)
      PROVE  \/ known'[i] = known[i] /\ assigned'[i] = assigned[i]
             \/ Newer(known'[i], known[i])
             \/ /\ known'[i] = NoStamp /\ assigned'[i] = {}
                /\ sess[i] \in {"none", "expired"}
  <2>1. CASE RefreshApply(k)
    <3>1. ApplyAssignment(k, fetched[k])
      BY <2>1 DEF RefreshApply
    <3> QED
      BY <1>1, <3>1
  <2>2. CASE Boot(k)
    BY <2>2 DEF Boot
  <2>3. CASE OnLost(k)
    BY <2>3 DEF OnLost
  <2>4. CASE ~RefreshApply(k) /\ ~Boot(k) /\ ~OnLost(k)
    BY <1>2, <2>4 DEF Lifecycle, RegisterMember, RegisterWatches, RefreshRead,
         StartElection, Stop, Crash, ExpireDead, ExpireLive, OnConnected
  <2> QED
    BY <2>1, <2>2, <2>3, <2>4
<1>3. ASSUME NEW k \in Inst, OnAssignmentChanged(k)
      PROVE  \/ known'[i] = known[i] /\ assigned'[i] = assigned[i]
             \/ Newer(known'[i], known[i])
  <2>1. ApplyAssignment(k, node[k])
    BY <1>3 DEF OnAssignmentChanged
  <2> QED
    BY <1>1, <2>1
<1>4. ASSUME NEW k \in Inst, HandleMembershipChange(k) \/ BecomeLeader(k)
      PROVE  known'[i] = known[i] /\ assigned'[i] = assigned[i]
  BY <1>4 DEF HandleMembershipChange, BecomeLeader
<1>5. ASSUME NEW k \in Inst, NEW j \in jobs[k], JobStep(k, j)
      PROVE  known'[i] = known[i] /\ assigned'[i] = assigned[i]
  BY <1>5, JobStepFrame
<1>6. CASE UNCHANGED vars
  BY <1>6 DEF vars
<1> QED
  BY <1>2, <1>3, <1>4, <1>5, <1>6 DEF Next

(* Between a start or a LOST and the next one, the (epoch, assigned_at) of *)
(* an instance only grows, and its processes change only with it: an       *)
(* assignment of a deposed leader never replaces a newer one.              *)
THEOREM StampsMoveForward == Spec => StampMovesForward
<1>1. TypeOK /\ [Next]_vars =>
        [\A i \in Inst :
           \/ known'[i] = known[i] /\ assigned'[i] = assigned[i]
           \/ Newer(known'[i], known[i])
           \/ /\ known'[i] = NoStamp /\ assigned'[i] = {}
              /\ sess[i] \in {"none", "expired"}]_vars
  BY StampStep
<1> QED
  BY <1>1, TypeCorrect, PTL DEF Spec, StampMovesForward

-----------------------------------------------------------------------------
(* The retry counter and the readiness flag.                               *)

LEMMA ExhaustedStep ==
  ASSUME TypeOK, UnhealthyMeansExhausted, [Next]_vars
  PROVE  UnhealthyMeansExhausted'
<1> USE BoundAssumption
    DEF UnhealthyMeansExhausted, TypeOK, zkVars, lifeVars, watchVars,
        applyVars, leadVars, jobVars, jobFrame
<1>1. ASSUME NEW i \in Inst, Boot(i)
      PROVE  UnhealthyMeansExhausted'
  BY <1>1 DEF Boot
<1>2. ASSUME attempt' = attempt, unhealthy' = unhealthy
      PROVE  UnhealthyMeansExhausted'
  BY <1>2
<1>3. ASSUME NEW i \in Inst, NEW j \in jobs[i], Failed(i, j)
      PROVE  UnhealthyMeansExhausted'
  BY <1>3 DEF Failed
<1>4. ASSUME NEW i \in Inst, NEW j \in jobs[i], Succeeded(i, j)
      PROVE  UnhealthyMeansExhausted'
  BY <1>4 DEF Succeeded
<1>5. ASSUME NEW i \in Inst,
             \/ Lifecycle(i) /\ ~Boot(i)
             \/ OnAssignmentChanged(i) \/ HandleMembershipChange(i)
             \/ BecomeLeader(i)
      PROVE  attempt' = attempt /\ unhealthy' = unhealthy
  BY <1>5 DEF Lifecycle, RegisterMember, RegisterWatches, RefreshRead,
       RefreshApply, StartElection, Stop, Crash, ExpireDead, ExpireLive,
       OnLost, OnConnected, OnAssignmentChanged, HandleMembershipChange,
       BecomeLeader
<1>6. ASSUME NEW i \in Inst, NEW j \in jobs[i], JobStep(i, j)
      PROVE  UnhealthyMeansExhausted'
  <2>1. CASE RedistributeFails(i, j) \/ CommitImpossible(i, j)
    <3>1. Failed(i, j)
      BY <2>1 DEF RedistributeFails, CommitImpossible
    <3> QED
      BY <1>3, <3>1
  <2>2. CASE CommitAssignments(i, j)
    <3>1. Succeeded(i, j)
      BY <2>2 DEF CommitAssignments
    <3> QED
      BY <1>4, <3>1
  <2>3. CASE \/ Wake(i, j) \/ ListMembers(i, j) \/ ListMembersFails(i, j)
             \/ BuildTransaction(i, j) \/ CleanupOrphans(i, j)
    <3>1. attempt' = attempt /\ unhealthy' = unhealthy
      BY <2>3 DEF Wake, AfterSleep, ListMembers, ListMembersFails, BuildTransaction,
                  CleanupOrphans
    <3> QED
      BY <1>2, <3>1
  <2> QED
    BY <1>6, <2>1, <2>2, <2>3 DEF JobStep
<1>7. CASE UNCHANGED vars
  BY <1>2, <1>7 DEF vars
<1> HIDE DEF UnhealthyMeansExhausted
<1> QED
  BY <1>1, <1>2, <1>5, <1>6, <1>7 DEF Next

(* redistribute_unhealthy is raised exactly when the attempts of           *)
(* _do_redistribute are used up, whichever of the concurrent coroutines    *)
(* failed, and the next success takes it back.                             *)
THEOREM UnhealthyIsExhausted == Spec => []UnhealthyMeansExhausted
<1>1. Init => UnhealthyMeansExhausted
  BY BoundAssumption DEF Init, UnhealthyMeansExhausted
<1>2. TypeOK /\ UnhealthyMeansExhausted /\ [Next]_vars
        => UnhealthyMeansExhausted'
  BY ExhaustedStep
<1> QED
  BY <1>1, <1>2, TypeCorrect, PTL DEF Spec

-----------------------------------------------------------------------------
(* A failed redistribution is not forgotten.                               *)

(* The instance holds the election lock in a session that is alive.        *)
Leads(i) == leader = i /\ sess[i] = "live"

(* A coroutine that goes on until the transaction succeeds or is counted   *)
(* as failed.  The first redistribution of a leadership is one only where  *)
(* the listing of the members does not fail.                               *)
OnTheWay(j) ==
  \/ j.kind = "retry"
  \/ /\ MaxListFail = 0
     /\ j.kind = "become" /\ j.pc \in {"list", "mongo", "commit"}

(* The holder of the lock is through with its start and knows that it      *)
(* leads.                                                                  *)
LeaderKnows == \A i \in Inst : Leads(i) => isLeader[i] /\ boot[i] = "run"

(* A retry never lists the members: it goes on with the list that failed.  *)
RetryKeepsList ==
  \A i \in Inst : \A j \in jobs[i] :
     j.kind = "retry" => j.pc \in {"sleep", "mongo", "commit"}

(* Failures that are counted and not reported have a coroutine that works  *)
(* on them.                                                                *)
FailureInHand ==
  \A i \in Inst : Leads(i) /\ attempt[i] > 0 /\ ~unhealthy[i]
                    => \E j \in jobs[i] : OnTheWay(j)

(* Where no session is lost, only the holder of the lock has coroutines    *)
(* and, among the connected instances, a retry count.                      *)
OthersIdle ==
  MaxExpire = 0 =>
    \A i \in Inst :
       /\ sess[i] \in {"none", "live", "dead"}
       /\ ~Leads(i) => ~isLeader[i] /\ jobs[i] = {}
       /\ sess[i] = "live" /\ ~Leads(i) => attempt[i] = 0

StallInv == LeaderKnows /\ RetryKeepsList /\ FailureInHand /\ OthersIdle

LEMMA StallInit == Init => StallInv
BY InstAssumption
   DEF Init, StallInv, LeaderKnows, RetryKeepsList, FailureInHand, OthersIdle,
       Leads

LEMMA GhostsAreGhosts ==
  ASSUME NEW js \in SUBSET Job, NEW g \in Ghosts(js)
  PROVE  g.kind = "ghost"
<1>1. PICK j \in js : g = [j EXCEPT !.kind = "ghost"]
  BY DEF Ghosts
<1>2. j \in Job
  OBVIOUS
<1> QED
  BY <1>1, <1>2 DEF Job

(* The kind and the place of a coroutine after a step of it: the retry     *)
(* that follows a failure, the end of a sleep, the listing, the building   *)
(* of the transaction and the clean-up.                                    *)
LEMMA JobExceptFields ==
  ASSUME NEW j \in Job, NEW s, NEW e, NEW u
  PROVE  /\ [j EXCEPT !.kind = "retry", !.pc = "sleep", !.ep = 0, !.ts = 0].pc
              = "sleep"
         /\ [j EXCEPT !.kind = "retry", !.pc = "sleep", !.ep = 0, !.ts = 0].kind
              = "retry"
         /\ [j EXCEPT !.pc = s].pc = s /\ [j EXCEPT !.pc = s].kind = j.kind
         /\ [j EXCEPT !.pc = "mongo", !.insts = s].pc = "mongo"
         /\ [j EXCEPT !.pc = "mongo", !.insts = s].kind = j.kind
         /\ [j EXCEPT !.pc = "commit", !.ep = e, !.ts = u].pc = "commit"
         /\ [j EXCEPT !.pc = "commit", !.ep = e, !.ts = u].kind = j.kind
BY DEF Job

(* A step of a coroutine of i takes coroutines of i away and adds ghosts   *)
(* and, in the place of j, at most one: j moved on or the retry for it.    *)
LEMMA JobStepReplaces ==
  ASSUME TypeOK, NEW i \in Inst, NEW j \in jobs[i], JobStep(i, j),
         NEW x \in jobs'[i]
  PROVE  \/ x \in jobs[i]
         \/ x.kind = "ghost"
         \/ x.kind = "retry" /\ x.pc = "sleep"
         \/ x.kind = j.kind /\ x.pc = (IF j.kind = "retry" THEN "mongo"
                                       ELSE "list")
         \/ x.kind = j.kind /\ x.pc \in {"mongo", "commit"}
         \/ x.kind = j.kind /\ x.pc = "gc" /\ x.kind # "retry"
<1>1. j \in Job /\ jobs[i] \in SUBSET Job
  BY DEF TypeOK
<1>2. \A g \in Ghosts(OfKind(i, "retry") \ {j}) : g.kind = "ghost"
  BY <1>1, GhostsAreGhosts DEF OfKind
<1>3. CASE Wake(i, j)
  <2>1. x \in jobs[i] \/ x = [j EXCEPT !.pc = IF j.kind = "retry" THEN "mongo"
                                              ELSE "list"]
    BY <1>3 DEF Wake, AfterSleep, TypeOK
  <2> QED
    BY <1>1, <2>1 DEF Job
<1>4. CASE ListMembers(i, j)
  <2>1. x \in jobs[i] \/ x = [j EXCEPT !.pc = "mongo", !.insts = members]
    BY <1>4 DEF ListMembers, TypeOK
  <2> QED
    BY <1>1, <2>1 DEF Job
<1>5. CASE ListMembersFails(i, j)
  BY <1>5 DEF ListMembersFails, TypeOK
<1>6. CASE BuildTransaction(i, j)
  <2>1. \/ x \in jobs[i]
        \/ x = [j EXCEPT !.pc = "commit", !.ep = epoch[i], !.ts = clock[i] + 1]
    BY <1>6 DEF BuildTransaction, TypeOK
  <2> QED
    BY <1>1, <2>1 DEF Job
<1>7. CASE RedistributeFails(i, j) \/ CommitImpossible(i, j)
  <2>1. Failed(i, j)
    BY <1>7 DEF RedistributeFails, CommitImpossible
  <2> DEFINE again == [j EXCEPT !.kind = "retry", !.pc = "sleep",
                                !.ep = 0, !.ts = 0]
  <2>2. jobs'[i] \in {jobs[i] \ {j}, RetryCancelled(i, j) \cup {again}}
    BY <2>1 DEF Failed, TypeOK
  <2>3. x \in jobs[i] \/ x \in Ghosts(OfKind(i, "retry") \ {j}) \/ x = again
    BY <2>2 DEF RetryCancelled
  <2> QED
    BY <1>1, <1>2, <2>3 DEF Job
<1>8. CASE CommitAssignments(i, j)
  <2>1. Succeeded(i, j)
    BY <1>8 DEF CommitAssignments
  <2> DEFINE collect == [j EXCEPT !.pc = "gc"]
  <2>2. \/ jobs'[i] = jobs[i] \ {j}
        \/ jobs'[i] = RetryCancelled(i, j) \cup {}
        \/ /\ jobs'[i] = RetryCancelled(i, j) \cup {collect}
           /\ j.kind # "retry"
    BY <2>1 DEF Succeeded, TypeOK
  <2>3. \/ x \in jobs[i] \/ x \in Ghosts(OfKind(i, "retry") \ {j})
        \/ x = collect /\ j.kind # "retry"
    BY <2>2 DEF RetryCancelled
  <2> QED
    BY <1>1, <1>2, <2>3 DEF Job
<1>9. CASE CleanupOrphans(i, j)
  BY <1>9 DEF CleanupOrphans, TypeOK
<1> QED
  BY <1>3, <1>4, <1>5, <1>6, <1>7, <1>8, <1>9 DEF JobStep

(* A step of a coroutine of the leader counts a failure only together with *)
(* a retry or at the limit, and takes no coroutine out of the way before   *)
(* the count is reset.                                                     *)
LEMMA InHandStep ==
  ASSUME TypeOK, StallInv, NEW i \in Inst, NEW j \in jobs[i], JobStep(i, j),
         Leads(i), attempt'[i] > 0, ~unhealthy'[i]
  PROVE  \E y \in jobs'[i] : OnTheWay(y)
<1>1. j \in Job /\ jobs[i] \in SUBSET Job /\ isLeader[i] /\ sess[i] = "live"
  BY DEF TypeOK, StallInv, LeaderKnows, Leads
<1>2. ASSUME attempt'[i] = attempt[i], unhealthy'[i] = unhealthy[i]
      PROVE  \E x \in jobs[i] : OnTheWay(x)
  BY <1>2 DEF StallInv, FailureInHand
<1>3. OnTheWay(j) => \/ j.pc = "sleep" /\ j.kind = "retry"
                     \/ j.pc = "list" /\ j.kind = "become" /\ MaxListFail = 0
                     \/ j.pc \in {"mongo", "commit"}
  BY DEF OnTheWay, StallInv, RetryKeepsList
<1>4. CASE Wake(i, j)
  <2>1. jobs'[i] = (jobs[i] \ {j}) \cup AfterSleep(i, j)
        /\ attempt'[i] = attempt[i] /\ unhealthy'[i] = unhealthy[i]
        /\ j.pc = "sleep"
    BY <1>4 DEF Wake, TypeOK
  <2>2. PICK x \in jobs[i] : OnTheWay(x)
    BY <1>2, <2>1
  <2>3. CASE x # j
    BY <2>1, <2>2, <2>3
  <2>4. CASE x = j
    <3> DEFINE after == [j EXCEPT !.pc = "mongo"]
    <3>1. j.kind = "retry" /\ after \in jobs'[i]
      BY <1>1, <1>3, <2>1, <2>2, <2>4 DEF AfterSleep
    <3>2. after.kind = "retry"
      BY <1>1, <3>1, JobExceptFields
    <3> QED
      BY <3>1, <3>2 DEF OnTheWay
  <2> QED
    BY <2>3, <2>4
<1>5. CASE ListMembers(i, j)
  <2> DEFINE after == [j EXCEPT !.pc = "mongo", !.insts = members]
  <2>1. jobs'[i] = (jobs[i] \ {j}) \cup {after}
        /\ attempt'[i] = attempt[i] /\ unhealthy'[i] = unhealthy[i]
        /\ after.kind = j.kind /\ after.pc = "mongo"
    BY <1>1, <1>5, JobExceptFields DEF ListMembers, TypeOK
  <2>2. PICK x \in jobs[i] : OnTheWay(x)
    BY <1>2, <2>1
  <2> QED
    BY <2>1, <2>2 DEF OnTheWay
<1>6. CASE ListMembersFails(i, j)
  <2>1. jobs'[i] = jobs[i] \ {j} /\ j.pc = "list"
        /\ attempt'[i] = attempt[i] /\ unhealthy'[i] = unhealthy[i]
    BY <1>6 DEF ListMembersFails, TypeOK
  <2>2. MaxListFail # 0
    BY <1>1, <1>6, BoundAssumption DEF ListMembersFails, TypeOK, Spent
  <2>3. PICK x \in jobs[i] : OnTheWay(x)
    BY <1>2, <2>1
  <2> QED
    BY <1>3, <2>1, <2>2, <2>3
<1>7. CASE BuildTransaction(i, j)
  <2> DEFINE after == [j EXCEPT !.pc = "commit", !.ep = epoch[i],
                                !.ts = clock[i] + 1]
  <2>1. jobs'[i] = (jobs[i] \ {j}) \cup {after}
        /\ attempt'[i] = attempt[i] /\ unhealthy'[i] = unhealthy[i]
        /\ after.kind = j.kind /\ after.pc = "commit"
    BY <1>1, <1>7, JobExceptFields DEF BuildTransaction, TypeOK
  <2>2. PICK x \in jobs[i] : OnTheWay(x)
    BY <1>2, <2>1
  <2> QED
    BY <2>1, <2>2 DEF OnTheWay
<1>8. CASE RedistributeFails(i, j) \/ CommitImpossible(i, j)
  <2>1. Failed(i, j)
    BY <1>8 DEF RedistributeFails, CommitImpossible
  <2>2. CASE j.kind = "ghost"
    <3>1. jobs'[i] = jobs[i] \ {j} /\ ~OnTheWay(j)
          /\ attempt'[i] = attempt[i] /\ unhealthy'[i] = unhealthy[i]
      BY <2>1, <2>2 DEF Failed, TypeOK, OnTheWay
    <3> QED
      BY <1>2, <3>1
  <2>3. CASE j.kind # "ghost"
    <3> DEFINE again == [j EXCEPT !.kind = "retry", !.pc = "sleep",
                                  !.ep = 0, !.ts = 0]
    <3>1. again \in jobs'[i]
      BY <2>1, <2>3 DEF Failed, TypeOK
    <3>2. OnTheWay(again)
      BY <1>1, JobExceptFields DEF OnTheWay
    <3> QED
      BY <3>1, <3>2
  <2> QED
    BY <2>2, <2>3
<1>9. CASE CommitAssignments(i, j)
  <2>1. Succeeded(i, j)
    BY <1>9 DEF CommitAssignments
  <2>2. jobs'[i] = jobs[i] \ {j} /\ ~OnTheWay(j)
        /\ attempt'[i] = attempt[i] /\ unhealthy'[i] = unhealthy[i]
    BY <2>1 DEF Succeeded, TypeOK, OnTheWay
  <2> QED
    BY <1>2, <2>2
<1>10. CASE CleanupOrphans(i, j)
  <2>1. jobs'[i] = jobs[i] \ {j} /\ j.pc = "gc"
        /\ attempt'[i] = attempt[i] /\ unhealthy'[i] = unhealthy[i]
    BY <1>10 DEF CleanupOrphans, TypeOK
  <2> QED
    BY <1>2, <1>3, <2>1
<1> QED
  BY <1>4, <1>5, <1>6, <1>7, <1>8, <1>9, <1>10 DEF JobStep

LEMMA StallJobStep ==
  ASSUME TypeOK, StallInv, NEW i \in Inst, NEW j \in jobs[i], JobStep(i, j)
  PROVE  StallInv'
<1>1. /\ \A k \in Inst \ {i} : jobs'[k] = jobs[k]
      /\ UNCHANGED <<leader, sess, boot, isLeader>>
  BY JobStepFrame
<1>2. \A k \in Inst \ {i} : attempt'[k] = attempt[k]
                            /\ unhealthy'[k] = unhealthy[k]
  BY DEF JobStep, Wake, ListMembers, ListMembersFails, BuildTransaction,
         RedistributeFails, CommitImpossible, CommitAssignments,
         CleanupOrphans, Failed, Succeeded, TypeOK
<1>3. LeaderKnows'
  BY <1>1 DEF StallInv, LeaderKnows, Leads
<1>4. RetryKeepsList'
  BY <1>1, JobStepReplaces DEF StallInv, RetryKeepsList
<1>5. FailureInHand'
  <2> SUFFICES ASSUME NEW k \in Inst, Leads(k), attempt'[k] > 0, ~unhealthy'[k]
               PROVE  \E y \in jobs'[k] : OnTheWay(y)
    BY <1>1 DEF FailureInHand, Leads, OnTheWay
  <2>1. CASE k = i
    BY <2>1, InHandStep
  <2>2. CASE k # i
    BY <1>1, <1>2, <2>2 DEF StallInv, FailureInHand
  <2> QED
    BY <2>1, <2>2
<1>6. OthersIdle'
  <2> SUFFICES ASSUME MaxExpire = 0
               PROVE  OthersIdle'
    BY DEF OthersIdle
  <2>1. Leads(i)
    BY DEF StallInv, OthersIdle
  <2> QED
    BY <1>1, <1>2, <2>1 DEF StallInv, OthersIdle, Leads
<1> QED
  BY <1>3, <1>4, <1>5, <1>6 DEF StallInv

LEMMA StallLifecycle ==
  ASSUME TypeOK, EpochsOwned, StallInv, NEW i \in Inst, Lifecycle(i)
  PROVE  StallInv'
<1> USE InstAssumption, BoundAssumption
    DEF StallInv, LeaderKnows, RetryKeepsList, FailureInHand, OthersIdle,
        Leads, OnTheWay, EpochsOwned, TypeOK, zkVars, lifeVars, watchVars,
        applyVars, leadVars, jobVars
<1>1. CASE Boot(i)
  BY <1>1 DEF Boot
<1>2. CASE RegisterMember(i)
  BY <1>2 DEF RegisterMember
<1>3. CASE RegisterWatches(i)
  BY <1>3 DEF RegisterWatches
<1>4. CASE RefreshRead(i)
  BY <1>4 DEF RefreshRead
<1>5. CASE RefreshApply(i)
  BY <1>5 DEF RefreshApply
<1>6. CASE StartElection(i)
  BY <1>6 DEF StartElection
<1>7. CASE Stop(i)
  BY <1>7 DEF Stop, DropEphemerals
<1>8. CASE Crash(i)
  BY <1>8 DEF Crash
<1>9. CASE ExpireDead(i)
  BY <1>9 DEF ExpireDead, DropEphemerals
<1>10. CASE ExpireLive(i)
  <2>1. MaxExpire # 0
    BY <1>10 DEF ExpireLive, Spent
  <2> QED
    BY <1>10, <2>1 DEF ExpireLive, DropEphemerals
<1>11. CASE OnLost(i)
  BY <1>11 DEF OnLost
<1>12. CASE OnConnected(i)
  BY <1>12 DEF OnConnected
<1> QED
  BY <1>1, <1>2, <1>3, <1>4, <1>5, <1>6, <1>7, <1>8, <1>9, <1>10, <1>11,
     <1>12 DEF Lifecycle

LEMMA StallMembership ==
  ASSUME TypeOK, StallInv, NEW i \in Inst, HandleMembershipChange(i)
  PROVE  StallInv'
<1> DEFINE old == OfKind(i, "debounce")
           fresh == NewJob("debounce", "sleep", {})
<1>1. UNCHANGED <<leader, sess, boot, isLeader, attempt, unhealthy>>
  BY DEF HandleMembershipChange, zkVars, lifeVars, leadVars
<1>2. \A k \in Inst \ {i} : jobs'[k] = jobs[k]
  BY DEF HandleMembershipChange, TypeOK
<1>3. \/ jobs'[i] = jobs[i]
      \/ /\ isLeader[i]
         /\ jobs'[i] = (jobs[i] \ old) \cup Ghosts(old) \cup {fresh}
  BY DEF HandleMembershipChange, TypeOK
<1>4. /\ \A g \in Ghosts(old) : g.kind = "ghost"
      /\ \A x \in old : x.kind = "debounce"
      /\ fresh.kind = "debounce"
  BY GhostsAreGhosts DEF OfKind, NewJob, TypeOK
<1>5. LeaderKnows'
  BY <1>1 DEF StallInv, LeaderKnows, Leads
<1>6. RetryKeepsList'
  BY <1>2, <1>3, <1>4 DEF StallInv, RetryKeepsList
<1>7. FailureInHand'
  <2> SUFFICES ASSUME NEW k \in Inst, NEW x \in jobs[k], OnTheWay(x)
               PROVE  \E y \in jobs'[k] : OnTheWay(y)
    BY <1>1 DEF StallInv, FailureInHand, Leads, OnTheWay
  <2> QED
    BY <1>2, <1>3, <1>4 DEF OnTheWay
<1>8. OthersIdle'
  BY <1>1, <1>2, <1>3 DEF StallInv, OthersIdle, Leads
<1> QED
  BY <1>5, <1>6, <1>7, <1>8 DEF StallInv

LEMMA StallBecome ==
  ASSUME TypeOK, StallInv, NEW i \in Inst, BecomeLeader(i),
         MaxExpire = 0 \/ MaxListFail = 0
  PROVE  StallInv'
<1> DEFINE first == NewJob("become", "list", {})
<1>1. /\ leader = NoOne /\ sess[i] = "live" /\ boot[i] = "run" /\ leader' = i
      /\ isLeader' = [isLeader EXCEPT ![i] = TRUE]
      /\ jobs' = [jobs EXCEPT ![i] = @ \cup {first}]
      /\ UNCHANGED <<sess, boot, attempt, unhealthy>>
  BY DEF BecomeLeader, lifeVars
<1>2. first.kind = "become" /\ first.pc = "list"
  BY DEF NewJob
<1>3. LeaderKnows'
  BY <1>1 DEF LeaderKnows, Leads, TypeOK
<1>4. RetryKeepsList'
  BY <1>1, <1>2 DEF StallInv, RetryKeepsList, TypeOK
<1>5. FailureInHand'
  <2> SUFFICES ASSUME attempt[i] > 0
               PROVE  \E y \in jobs'[i] : OnTheWay(y)
    BY <1>1, InstAssumption DEF FailureInHand, Leads, OnTheWay, TypeOK
  <2>1. MaxListFail = 0
    BY <1>1, InstAssumption DEF StallInv, OthersIdle, Leads
  <2> QED
    BY <1>1, <1>2, <2>1 DEF OnTheWay, TypeOK
<1>6. OthersIdle'
  BY <1>1, InstAssumption DEF StallInv, OthersIdle, Leads, TypeOK
<1> QED
  BY <1>3, <1>4, <1>5, <1>6 DEF StallInv

LEMMA StallStep ==
  ASSUME TypeOK, EpochsOwned, StallInv, [Next]_vars,
         MaxExpire = 0 \/ MaxListFail = 0
  PROVE  StallInv'
<1>1. ASSUME NEW i \in Inst, OnAssignmentChanged(i)
      PROVE  StallInv'
  BY <1>1 DEF OnAssignmentChanged, zkVars, lifeVars, leadVars, jobVars,
       StallInv, LeaderKnows, RetryKeepsList, FailureInHand, OthersIdle,
       Leads, OnTheWay
<1>2. CASE UNCHANGED vars
  BY <1>2 DEF vars, zkVars, lifeVars, leadVars, jobVars,
       StallInv, LeaderKnows, RetryKeepsList, FailureInHand, OthersIdle,
       Leads, OnTheWay
<1> QED
  BY <1>1, <1>2, StallLifecycle, StallMembership, StallBecome, StallJobStep
     DEF Next

(* A failed _do_redistribute is never silently given up: while the leader  *)
(* has failures on its count, a coroutine is at work on them or readiness  *)
(* reports them, whichever coroutines overlap and whichever was cancelled  *)
(* in favour of another.  It takes either that no session is lost or that  *)
(* get_children does not fail: a leader that is deposed by a session loss  *)
(* drops its retry with the count standing, and on_become_leader, which is *)
(* the next one to work on it, is itself lost if the listing raises.       *)
THEOREM FailuresAreInHand ==
  ASSUME MaxExpire = 0 \/ MaxListFail = 0
  PROVE  Spec => []NoSilentStall
<1>1. Init => StallInv
  BY StallInit
<1>2. TypeOK /\ EpochsOwned /\ StallInv /\ [Next]_vars => StallInv'
  BY StallStep
<1>3. TypeOK /\ StallInv => NoSilentStall
  BY DEF TypeOK, StallInv, FailureInHand, NoSilentStall, Leads, Running
<1>4. IndInv => TypeOK /\ EpochsOwned
  BY DEF IndInv
<1> QED
  BY <1>1, <1>2, <1>3, <1>4, Invariance, PTL DEF Spec
-----------------------------------------------------------------------------
(* The newest list of members is the one that is distributed.              *)

(* Redistributions are faster than the sleeps, no session is lost, no      *)
(* listing fails, and there are fewer failures than attempts.              *)
Calm == Prompt /\ MaxExpire = 0 /\ MaxListFail = 0 /\ MaxFail < MaxAttempts

(* A coroutine that is going to list the members, and one that has a list  *)
(* and works on it.                                                        *)
Relists(j) == j.kind \in {"become", "debounce"} /\ j.pc \in {"sleep", "list"}
Working(j) == j.kind # "ghost" /\ j.pc \in {"mongo", "commit"}

(* The leader has distributed the list of the members there are.           *)
Distributed(i) ==
  \E c \in log : c.by = i /\ c.ep = epoch[i] /\ c.insts = members

(* Of the coroutines of an instance at most one is not asleep, and at most *)
(* one is a retry.                                                         *)
OneAwake(i) ==
  \A x, y \in jobs[i] : x.pc # "sleep" /\ y.pc # "sleep" => x = y
OneRetry(i) ==
  \A x, y \in jobs[i] : x.kind = "retry" /\ y.kind = "retry" => x = y

(* A ghost is a transaction.                                               *)
GhostsCommit(i) == \A j \in jobs[i] : j.kind = "ghost" => j.pc = "commit"

(* A transaction that is built is of this leadership, and the nodes it     *)
(* writes exist.                                                           *)
CanCommit(i) ==
  \A j \in jobs[i] : j.pc = "commit" =>
     j.ep = epoch[i] /\ \A k \in j.insts : node[k].st # "absent"

(* Failures on the count were failures of Mongo or ZooKeeper.              *)
Counted(i) == Leads(i) => attempt[i] + left.fail <= MaxFail

(* Unless the members are going to be listed again, the newest list is     *)
(* worked on, or it waits for its retry and nothing is worked on, or it is *)
(* distributed and no retry is left to undo that.                          *)
NewestInHand(i) ==
  Leads(i) /\ ~mwatch[i] /\ (\A j \in jobs[i] : ~Relists(j)) =>
    \/ \E j \in jobs[i] : Working(j) /\ j.insts = members
    \/ /\ \A j \in jobs[i] : ~Working(j)
       /\ \/ \E j \in jobs[i] : j.kind = "retry" /\ j.insts = members
          \/ Distributed(i) /\ \A j \in jobs[i] : j.kind # "retry"

(* The invariant, for an instance and for all.                             *)
NewestAt(i) ==
  /\ OneAwake(i) /\ OneRetry(i) /\ GhostsCommit(i) /\ CanCommit(i)
  /\ Counted(i) /\ NewestInHand(i)
NewestInv == \A i \in Inst : NewestAt(i)

(* Nothing is asked of an instance without coroutines that does not lead.  *)
LEMMA NewestIdle ==
  ASSUME NEW i \in Inst, jobs[i] = {}, ~Leads(i)
  PROVE  NewestAt(i)
BY DEF NewestAt, OneAwake, OneRetry, GhostsCommit, CanCommit, Counted,
       NewestInHand

(* The same of the state after a step.                                     *)
LEMMA NewestIdleNext ==
  ASSUME NEW i \in Inst, jobs'[i] = {}, ~Leads(i)'
  PROVE  NewestAt(i)'
BY DEF NewestAt, OneAwake, OneRetry, GhostsCommit, CanCommit, Counted,
       NewestInHand

(* A step of another instance leaves the coroutines of k alone; if it      *)
(* changes the members, k is told.                                         *)
LEMMA NewestOther ==
  ASSUME NEW k \in Inst, NewestAt(k),
         jobs'[k] = jobs[k], attempt'[k] = attempt[k], epoch'[k] = epoch[k],
         left'.fail = left.fail, log' = log, Leads(k)' => Leads(k),
         \A n \in Inst : node[n].st # "absent" => node'[n].st # "absent",
         \A j \in jobs[k] : j.insts \subseteq Inst,
         mwatch[k] => mwatch'[k],
         Leads(k) => members' = members \/ mwatch'[k]
  PROVE  NewestAt(k)'
<1>1. OneAwake(k)' /\ OneRetry(k)' /\ GhostsCommit(k)'
  BY DEF NewestAt, OneAwake, OneRetry, GhostsCommit
<1>2. CanCommit(k)'
  BY DEF NewestAt, CanCommit
<1>3. Counted(k)'
  BY DEF NewestAt, Counted
<1>4. NewestInHand(k)'
  <2> SUFFICES ASSUME Leads(k)', ~mwatch'[k], \A j \in jobs[k] : ~Relists(j)
               PROVE  NewestInHand(k)'
    BY DEF NewestInHand, Relists
  <2>1. NewestInHand(k) /\ members' = members
    BY DEF NewestAt
  <2> QED
    BY <2>1 DEF NewestInHand, Relists, Working, Distributed
<1> QED
  BY <1>1, <1>2, <1>3, <1>4 DEF NewestAt

(* Whoever starts, stops or dies has no coroutines and does not lead.      *)
LEMMA LifecycleOwn ==
  ASSUME Calm, TypeOK, EpochsOwned, StallInv, NEW i \in Inst, Lifecycle(i)
  PROVE  jobs'[i] = {} /\ ~Leads(i)'
<1> USE InstAssumption, BoundAssumption
    DEF Calm, StallInv, LeaderKnows, OthersIdle, Leads, EpochsOwned, TypeOK,
        zkVars, lifeVars, watchVars, applyVars, leadVars, jobVars
<1>1. CASE Boot(i)
  BY <1>1 DEF Boot
<1>2. CASE RegisterMember(i)
  BY <1>2 DEF RegisterMember
<1>3. CASE RegisterWatches(i)
  BY <1>3 DEF RegisterWatches
<1>4. CASE RefreshRead(i)
  BY <1>4 DEF RefreshRead
<1>5. CASE RefreshApply(i)
  BY <1>5 DEF RefreshApply
<1>6. CASE StartElection(i)
  BY <1>6 DEF StartElection
<1>7. CASE Stop(i)
  BY <1>7 DEF Stop, DropEphemerals
<1>8. CASE Crash(i)
  BY <1>8 DEF Crash
<1>9. CASE ExpireDead(i)
  BY <1>9 DEF ExpireDead, DropEphemerals
<1>10. CASE ExpireLive(i)
  BY <1>10 DEF ExpireLive, Spent
<1>11. CASE OnLost(i)
  BY <1>11 DEF OnLost
<1>12. CASE OnConnected(i)
  BY <1>12 DEF OnConnected
<1> QED
  BY <1>1, <1>2, <1>3, <1>4, <1>5, <1>6, <1>7, <1>8, <1>9, <1>10, <1>11,
     <1>12 DEF Lifecycle

(* What the others keep when i starts, stops or dies.                      *)
LEMMA LifecycleOthers ==
  ASSUME Calm, TypeOK, EpochsOwned, StallInv, NEW i \in Inst, Lifecycle(i),
         NEW k \in Inst \ {i}
  PROVE  /\ jobs'[k] = jobs[k] /\ attempt'[k] = attempt[k]
         /\ epoch'[k] = epoch[k] /\ left'.fail = left.fail /\ log' = log
         /\ Leads(k)' => Leads(k)
         /\ \A n \in Inst : node[n].st # "absent" => node'[n].st # "absent"
         /\ mwatch[k] => mwatch'[k]
         /\ Leads(k) => members' = members \/ mwatch'[k]
<1> USE InstAssumption, BoundAssumption
    DEF Calm, StallInv, LeaderKnows, OthersIdle, Leads, TypeOK,
        zkVars, lifeVars, watchVars, applyVars, leadVars, jobVars
<1>1. CASE Boot(i)
  BY <1>1 DEF Boot, Spent
<1>2. CASE RegisterMember(i)
  BY <1>2 DEF RegisterMember, NotifyMembers, Watching
<1>3. CASE RegisterWatches(i)
  BY <1>3 DEF RegisterWatches
<1>4. CASE RefreshRead(i)
  BY <1>4 DEF RefreshRead
<1>5. CASE RefreshApply(i)
  BY <1>5 DEF RefreshApply
<1>6. CASE StartElection(i)
  BY <1>6 DEF StartElection
<1>7. CASE Stop(i)
  BY <1>7 DEF Stop, DropEphemerals, Watching, Spent
<1>8. CASE Crash(i)
  BY <1>8 DEF Crash, Spent
<1>9. CASE ExpireDead(i)
  BY <1>9 DEF ExpireDead, DropEphemerals, Watching
<1>10. CASE ExpireLive(i)
  BY <1>10 DEF ExpireLive, Spent
<1>11. CASE OnLost(i)
  BY <1>11 DEF OnLost
<1>12. CASE OnConnected(i)
  BY <1>12 DEF OnConnected
<1> QED
  BY <1>1, <1>2, <1>3, <1>4, <1>5, <1>6, <1>7, <1>8, <1>9, <1>10, <1>11,
     <1>12 DEF Lifecycle

(* Starts, stops, crashes and expired sessions keep the invariant.         *)
LEMMA NewestLifecycle ==
  ASSUME Calm, TypeOK, EpochsOwned, StallInv, NewestInv, NEW i \in Inst,
         Lifecycle(i)
  PROVE  NewestInv'
<1>1. NewestAt(i)'
  BY LifecycleOwn, NewestIdleNext
<1>2. ASSUME NEW k \in Inst \ {i}
      PROVE  NewestAt(k)'
  <2>1. NewestAt(k) /\ \A j \in jobs[k] : j.insts \subseteq Inst
    BY DEF NewestInv, TypeOK, Job
  <2> QED
    BY <2>1, LifecycleOthers, NewestOther
<1> QED
  BY <1>1, <1>2 DEF NewestInv
(* An event of the members makes the leader list them again.               *)
LEMMA NewestMembership ==
  ASSUME Calm, TypeOK, StallInv, NewestInv, NEW i \in Inst,
         HandleMembershipChange(i)
  PROVE  NewestInv'
<1> DEFINE old == OfKind(i, "debounce")
           fresh == NewJob("debounce", "sleep", {})
<1>1. UNCHANGED <<leader, members, node, sess, epoch, attempt, left, log>>
  BY DEF HandleMembershipChange, zkVars, lifeVars, leadVars
<1>2. \A k \in Inst \ {i} : jobs'[k] = jobs[k] /\ mwatch'[k] = mwatch[k]
  BY DEF HandleMembershipChange, TypeOK
<1>3. ASSUME NEW k \in Inst \ {i}
      PROVE  NewestAt(k)'
  <2>1. NewestAt(k) /\ \A j \in jobs[k] : j.insts \subseteq Inst
    BY DEF NewestInv, TypeOK, Job
  <2>2. Leads(k)' => Leads(k)
    BY <1>1 DEF Leads
  <2> QED
    BY <1>1, <1>2, <2>1, <2>2, NewestOther
<1>4. CASE ~Leads(i)
  <2>1. jobs'[i] = {} /\ ~Leads(i)'
    BY <1>1, <1>4 DEF HandleMembershipChange, StallInv, OthersIdle, Calm, Leads
  <2> QED
    BY <1>3, <2>1, NewestIdleNext DEF NewestInv
<1>5. CASE Leads(i)
  <2>1. jobs'[i] = (jobs[i] \ old) \cup Ghosts(old) \cup {fresh}
    BY <1>5 DEF HandleMembershipChange, StallInv, LeaderKnows, TypeOK
  <2>2. /\ fresh.kind = "debounce" /\ fresh.pc = "sleep"
        /\ \A x \in old : x \in jobs[i] /\ x.kind = "debounce"
        /\ jobs[i] \subseteq Job
    BY DEF NewJob, OfKind, TypeOK
  <2>3. ASSUME NEW g \in Ghosts(old)
        PROVE  \E x \in old : /\ x.pc = "commit"
                              /\ g = [x EXCEPT !.kind = "ghost"]
                              /\ g.kind = "ghost" /\ g.pc = "commit"
                              /\ g.ep = x.ep /\ g.insts = x.insts
    <3>1. PICK x \in old : x.pc = "commit" /\ g = [x EXCEPT !.kind = "ghost"]
      BY DEF Ghosts
    <3>2. x \in Job
      BY <2>2
    <3> QED
      BY <3>1, <3>2 DEF Job
  <2> HIDE DEF old, fresh
  <2>4. /\ OneAwake(i) /\ OneRetry(i) /\ GhostsCommit(i) /\ CanCommit(i)
        /\ Counted(i)
    BY DEF NewestInv, NewestAt
  <2>5. OneAwake(i)'
    BY <2>1, <2>2, <2>3, <2>4 DEF OneAwake
  <2>6. OneRetry(i)' /\ GhostsCommit(i)'
    BY <2>1, <2>2, <2>3, <2>4 DEF OneRetry, GhostsCommit
  <2>7. CanCommit(i)'
    BY <1>1, <2>1, <2>2, <2>3, <2>4 DEF CanCommit
  <2>8. Counted(i)'
    BY <1>1, <2>4 DEF Counted, Leads
  <2>9. NewestInHand(i)'
    BY <2>1, <2>2 DEF NewestInHand, Relists
  <2>10. NewestAt(i)'
    BY <2>5, <2>6, <2>7, <2>8, <2>9 DEF NewestAt
  <2> QED
    BY <1>3, <2>10 DEF NewestInv
<1> QED
  BY <1>4, <1>5

(* A new leader lists the members first.                                   *)
LEMMA NewestBecome ==
  ASSUME Calm, TypeOK, StallInv, NewestInv, NEW i \in Inst, BecomeLeader(i)
  PROVE  NewestInv'
<1> DEFINE first == NewJob("become", "list", {})
<1>1. /\ leader = NoOne /\ sess[i] = "live" /\ leader' = i
      /\ jobs' = [jobs EXCEPT ![i] = @ \cup {first}]
      /\ UNCHANGED <<sess, attempt, left>>
  BY DEF BecomeLeader, lifeVars
<1>2. first.kind = "become" /\ first.pc = "list"
  BY DEF NewJob
<1>3. \A k \in Inst : jobs[k] = {} /\ ~Leads(k)
  BY <1>1, InstAssumption DEF Calm, StallInv, OthersIdle, Leads
<1>4. attempt[i] = 0 /\ left.fail \in 0..MaxFail /\ MaxFail \in Nat
  BY <1>1, <1>3, BoundAssumption DEF Calm, StallInv, OthersIdle, TypeOK, Spent
<1>5. ASSUME NEW k \in Inst \ {i}
      PROVE  NewestAt(k)'
  <2>1. jobs'[k] = {} /\ ~Leads(k)'
    BY <1>1, <1>3 DEF TypeOK, Leads
  <2> QED
    BY <2>1, NewestIdleNext
<1>6. jobs'[i] = {first}
  BY <1>1, <1>3 DEF TypeOK
<1> HIDE DEF first
<1>7. NewestAt(i)'
  BY <1>1, <1>2, <1>4, <1>6
     DEF NewestAt, OneAwake, OneRetry, GhostsCommit, CanCommit, Counted,
         NewestInHand, Relists
<1> QED
  BY <1>5, <1>7 DEF NewestInv

(* The lists and stamps of a coroutine after a step of it.                 *)
LEMMA JobExceptLists ==
  ASSUME NEW j \in Job, NEW s, NEW e, NEW u
  PROVE  /\ [j EXCEPT !.kind = "retry", !.pc = "sleep", !.ep = 0,
                      !.ts = 0].insts = j.insts
         /\ [j EXCEPT !.pc = s].insts = j.insts /\ [j EXCEPT !.pc = s].ep = j.ep
         /\ [j EXCEPT !.pc = "mongo", !.insts = s].insts = s
         /\ [j EXCEPT !.pc = "commit", !.ep = e, !.ts = u].insts = j.insts
         /\ [j EXCEPT !.pc = "commit", !.ep = e, !.ts = u].ep = e
BY DEF Job

(* With one coroutine awake a success or a failure cancels no transaction  *)
(* of a retry.                                                             *)
LEMMA NoRetryInFlight ==
  ASSUME NEW i \in Inst, OneAwake(i), NEW j \in jobs[i], j.pc # "sleep"
  PROVE  RetryCancelled(i, j) = jobs[i] \ (OfKind(i, "retry") \cup {j})
<1>1. Ghosts(OfKind(i, "retry") \ {j}) = {}
  BY DEF Ghosts, OfKind, OneAwake
<1> QED
  BY <1>1 DEF RetryCancelled

(* When a sleep ends nothing else is awake.                                *)
LEMMA NewestWake ==
  ASSUME Calm, TypeOK, StallInv, NEW i \in Inst, NewestAt(i), NEW j \in jobs[i],
         Leads(i), Wake(i, j)
  PROVE  NewestAt(i)'
<1> DEFINE after == [j EXCEPT !.pc = IF j.kind = "retry" THEN "mongo" ELSE "list"]
<1>1. /\ j.pc = "sleep" /\ (\A x \in jobs[i] : x.pc = "sleep")
      /\ jobs'[i] = (jobs[i] \ {j}) \cup {after}
      /\ UNCHANGED <<leader, sess, members, mwatch, node, epoch, attempt,
                     left, log>>
  BY DEF Wake, AfterSleep, Calm, StallInv, LeaderKnows, TypeOK, zkVars,
         jobFrame, lifeVars, watchVars, leadVars
<1>2. j \in Job
  BY DEF TypeOK
<1>3. /\ after.pc = (IF j.kind = "retry" THEN "mongo" ELSE "list")
      /\ after.kind = j.kind /\ after.insts = j.insts
  BY <1>2, JobExceptFields, JobExceptLists
<1> HIDE DEF after
<1>4. /\ OneAwake(i) /\ OneRetry(i) /\ GhostsCommit(i) /\ CanCommit(i)
      /\ Counted(i) /\ NewestInHand(i)
  BY DEF NewestAt
<1>5. OneAwake(i)'
  BY <1>1 DEF OneAwake
<1>6. OneRetry(i)' /\ GhostsCommit(i)'
  BY <1>1, <1>3, <1>4 DEF OneRetry, GhostsCommit
<1>7. CanCommit(i)'
  BY <1>1, <1>3, <1>4 DEF CanCommit
<1>8. Counted(i)'
  BY <1>1, <1>4 DEF Counted, Leads
<1>9. NewestInHand(i)'
  <2> SUFFICES ASSUME ~mwatch[i], \A x \in jobs'[i] : ~Relists(x)
               PROVE  \E x \in jobs'[i] : Working(x) /\ x.insts = members
    BY <1>1 DEF NewestInHand, Relists, Working
  <2>1. j.kind = "retry"
    BY <1>1, <1>2, <1>3, <1>4 DEF Relists, Job, GhostsCommit
  <2>2. \A x \in jobs[i] : ~Relists(x) /\ ~Working(x)
    BY <1>1, <2>1 DEF Relists, Working
  <2>3. \/ \E x \in jobs[i] : x.kind = "retry" /\ x.insts = members
        \/ \A x \in jobs[i] : x.kind # "retry"
    BY <1>4, <2>2 DEF NewestInHand
  <2> QED
    BY <1>1, <1>3, <1>4, <2>1, <2>3 DEF Working, OneRetry
<1> QED
  BY <1>5, <1>6, <1>7, <1>8, <1>9 DEF NewestAt

(* A list that was just read is the newest.                                *)
LEMMA NewestList ==
  ASSUME TypeOK, NEW i \in Inst, NewestAt(i), NEW j \in jobs[i],
         Leads(i), ListMembers(i, j)
  PROVE  NewestAt(i)'
<1> DEFINE after == [j EXCEPT !.pc = "mongo", !.insts = members]
<1>1. /\ j.pc = "list" /\ jobs'[i] = (jobs[i] \ {j}) \cup {after}
      /\ UNCHANGED <<leader, sess, members, mwatch, node, epoch, attempt,
                     left, log>>
  BY DEF ListMembers, TypeOK, zkVars, jobFrame, lifeVars, watchVars, leadVars
<1>2. after.pc = "mongo" /\ after.kind = j.kind /\ after.insts = members
  BY JobExceptFields, JobExceptLists DEF TypeOK
<1> HIDE DEF after
<1>3. /\ OneAwake(i) /\ OneRetry(i) /\ GhostsCommit(i) /\ CanCommit(i)
      /\ Counted(i)
  BY DEF NewestAt
<1>4. OneAwake(i)'
  BY <1>1, <1>3 DEF OneAwake
<1>5. OneRetry(i)' /\ GhostsCommit(i)'
  BY <1>1, <1>2, <1>3 DEF OneRetry, GhostsCommit
<1>6. CanCommit(i)'
  BY <1>1, <1>2, <1>3 DEF CanCommit
<1>7. Counted(i)'
  BY <1>1, <1>3 DEF Counted, Leads
<1>8. NewestInHand(i)'
  BY <1>1, <1>2, <1>3 DEF NewestInHand, Working, GhostsCommit
<1> QED
  BY <1>4, <1>5, <1>6, <1>7, <1>8 DEF NewestAt

(* A transaction is built for the list there is, and ensure_path has made  *)
(* the nodes it needs.                                                     *)
LEMMA NewestBuild ==
  ASSUME TypeOK, NEW i \in Inst, NewestAt(i), NEW j \in jobs[i],
         Leads(i), BuildTransaction(i, j)
  PROVE  NewestAt(i)'
<1> DEFINE after == [j EXCEPT !.pc = "commit", !.ep = epoch[i],
                              !.ts = clock[i] + 1]
<1>1. /\ j.pc = "mongo" /\ jobs'[i] = (jobs[i] \ {j}) \cup {after}
      /\ UNCHANGED <<leader, sess, members, mwatch, epoch, attempt, left, log>>
  BY DEF BuildTransaction, TypeOK, jobFrame, lifeVars, watchVars, leadVars
<1>2. /\ after.pc = "commit" /\ after.kind = j.kind /\ after.insts = j.insts
      /\ after.ep = epoch[i] /\ j.insts \subseteq Inst
  BY JobExceptFields, JobExceptLists DEF TypeOK, Job
<1>3. \A k \in j.insts : node'[k].st # "absent"
  <2>1. node' = [k \in Inst |->
                   IF k \in j.insts /\ node[k].st = "absent" THEN Empty
                   ELSE node[k]]
    BY DEF BuildTransaction, Leads
  <2> QED
    BY <1>2, <2>1 DEF Empty
<1> HIDE DEF after
<1>4. /\ OneAwake(i) /\ OneRetry(i) /\ GhostsCommit(i) /\ CanCommit(i)
      /\ Counted(i) /\ NewestInHand(i)
  BY DEF NewestAt
<1>5. OneAwake(i)'
  BY <1>1, <1>4 DEF OneAwake
<1>6. OneRetry(i)' /\ GhostsCommit(i)'
  BY <1>1, <1>2, <1>4 DEF OneRetry, GhostsCommit
<1>7. CanCommit(i)'
  <2>1. \A x \in jobs[i] \ {j} : x.pc # "commit"
    BY <1>1, <1>4 DEF OneAwake
  <2> QED
    BY <1>1, <1>2, <1>3, <2>1 DEF CanCommit
<1>8. Counted(i)'
  BY <1>1, <1>4 DEF Counted, Leads
<1>9. NewestInHand(i)'
  <2> SUFFICES ASSUME ~mwatch[i], \A x \in jobs'[i] : ~Relists(x)
               PROVE  \E x \in jobs'[i] : Working(x) /\ x.insts = members
    BY <1>1 DEF NewestInHand, Relists, Working
  <2>1. \A x \in jobs[i] : ~Relists(x)
    BY <1>1 DEF Relists
  <2>2. Working(j)
    BY <1>1, <1>4 DEF Working, GhostsCommit
  <2>3. PICK x \in jobs[i] : Working(x) /\ x.insts = members
    BY <1>4, <2>1, <2>2 DEF NewestInHand
  <2>4. x = j
    BY <1>1, <1>4, <2>3 DEF OneAwake, Working
  <2> QED
    BY <1>1, <1>2, <2>2, <2>3, <2>4 DEF Working
<1> QED
  BY <1>5, <1>6, <1>7, <1>8, <1>9 DEF NewestAt

(* A list that failed waits for its retry and replaces older ones.         *)
LEMMA NewestFails ==
  ASSUME Calm, TypeOK, NEW i \in Inst, NewestAt(i), NEW j \in jobs[i],
         Leads(i), RedistributeFails(i, j)
  PROVE  NewestAt(i)'
<1> DEFINE again == [j EXCEPT !.kind = "retry", !.pc = "sleep",
                              !.ep = 0, !.ts = 0]
           retries == OfKind(i, "retry")
<1>1. /\ j.pc \in {"mongo", "commit"} /\ Failed(i, j)
      /\ left.fail > 0 /\ left'.fail = left.fail - 1
      /\ UNCHANGED <<leader, sess, members, mwatch, node, epoch, log>>
  BY DEF RedistributeFails, TypeOK, Spent, zkVars, jobFrame, lifeVars,
         watchVars, leadVars
<1>2. again.pc = "sleep" /\ again.kind = "retry" /\ again.insts = j.insts
  BY JobExceptFields, JobExceptLists DEF TypeOK
<1>3. /\ OneAwake(i) /\ OneRetry(i) /\ GhostsCommit(i) /\ CanCommit(i)
      /\ Counted(i) /\ NewestInHand(i)
  BY DEF NewestAt
<1>4. /\ attempt[i] + left.fail <= MaxFail /\ MaxFail < MaxAttempts
      /\ attempt[i] \in Nat /\ left.fail \in Nat /\ MaxFail \in Nat
      /\ MaxAttempts \in Nat
  BY <1>3, BoundAssumption DEF Counted, Calm, TypeOK, Spent
<1>5. CASE j.kind = "ghost"
  <2>1. jobs'[i] = jobs[i] \ {j} /\ attempt'[i] = attempt[i]
    BY <1>1, <1>5 DEF Failed, TypeOK
  <2>2. OneAwake(i)' /\ OneRetry(i)' /\ GhostsCommit(i)'
    BY <1>3, <2>1 DEF OneAwake, OneRetry, GhostsCommit
  <2>3. CanCommit(i)'
    BY <1>1, <1>3, <2>1 DEF CanCommit
  <2>4. Counted(i)'
    BY <1>1, <1>4, <2>1 DEF Counted
  <2>5. NewestInHand(i)'
    BY <1>1, <1>3, <1>5, <2>1
       DEF NewestInHand, Relists, Working, Distributed, Leads
  <2> QED
    BY <2>2, <2>3, <2>4, <2>5 DEF NewestAt
<1>6. CASE j.kind # "ghost"
  <2>1. attempt[i] + 1 < MaxAttempts
    BY <1>1, <1>4
  <2>2. /\ jobs'[i] = RetryCancelled(i, j) \cup {again}
        /\ attempt'[i] = attempt[i] + 1
    BY <1>1, <1>6, <2>1 DEF Failed, TypeOK
  <2>3. RetryCancelled(i, j) = jobs[i] \ (retries \cup {j})
    BY <1>1, <1>3, NoRetryInFlight
  <2>4. /\ \A x \in jobs'[i] : \/ x \in jobs[i] /\ x # j /\ x.kind # "retry"
                               \/ x = again
        /\ \A x \in jobs[i] : x = j \/ x.kind = "retry" \/ x \in jobs'[i]
        /\ again \in jobs'[i]
    BY <2>2, <2>3 DEF OfKind
  <2> HIDE DEF again
  <2>5. OneAwake(i)' /\ OneRetry(i)' /\ GhostsCommit(i)'
    BY <1>2, <1>3, <2>4 DEF OneAwake, OneRetry, GhostsCommit
  <2>6. CanCommit(i)'
    BY <1>1, <1>2, <1>3, <2>4 DEF CanCommit
  <2>7. Counted(i)'
    BY <1>1, <1>4, <2>2 DEF Counted
  <2>8. NewestInHand(i)'
    <3> SUFFICES ASSUME ~mwatch[i], \A x \in jobs'[i] : ~Relists(x)
                 PROVE  /\ \A x \in jobs'[i] : ~Working(x)
                        /\ \E x \in jobs'[i] : x.kind = "retry" /\ x.insts = members
      BY <1>1 DEF NewestInHand, Relists, Working
    <3>1. \A x \in jobs[i] : ~Relists(x)
      BY <1>1, <2>4 DEF Relists
    <3>2. Working(j)
      BY <1>1, <1>6 DEF Working
    <3>3. PICK x \in jobs[i] : Working(x) /\ x.insts = members
      BY <1>3, <3>1, <3>2 DEF NewestInHand
    <3>4. \A y \in jobs[i] : Working(y) => y = j
      BY <1>1, <1>3 DEF OneAwake, Working
    <3> QED
      BY <1>2, <2>4, <3>3, <3>4 DEF Working
  <2> QED
    BY <2>5, <2>6, <2>7, <2>8 DEF NewestAt
<1> QED
  BY <1>5, <1>6

(* A success with the newest list is what the property asks for.           *)
LEMMA NewestCommits ==
  ASSUME TypeOK, NEW i \in Inst, NewestAt(i), NEW j \in jobs[i],
         Leads(i), CommitAssignments(i, j)
  PROVE  NewestAt(i)'
<1> DEFINE collect == [j EXCEPT !.pc = "gc"]
           retries == OfKind(i, "retry")
           entry == [ep |-> j.ep, ts |-> j.ts, insts |-> j.insts, by |-> i]
<1>1. /\ j.pc = "commit" /\ Succeeded(i, j) /\ log' = log \cup {entry}
      /\ UNCHANGED <<leader, sess, members, mwatch, epoch, left>>
  BY DEF CommitAssignments, lifeVars, leadVars
<1>2. collect.pc = "gc" /\ collect.kind = j.kind
  BY JobExceptFields DEF TypeOK
<1>3. /\ OneAwake(i) /\ OneRetry(i) /\ GhostsCommit(i) /\ CanCommit(i)
      /\ Counted(i) /\ NewestInHand(i)
  BY DEF NewestAt
<1>4. \A k \in Inst : node[k].st # "absent" => node'[k].st # "absent"
  BY DEF CommitAssignments, Payload
<1>5. \A x \in jobs[i] : x.insts \subseteq Inst
  BY DEF TypeOK, Job
<1>6. /\ attempt[i] \in Nat /\ left.fail \in Nat /\ MaxFail \in Nat
      /\ attempt[i] + left.fail <= MaxFail
  BY <1>3, BoundAssumption DEF Counted, TypeOK, Spent
<1>7. CASE j.kind = "ghost"
  <2>1. jobs'[i] = jobs[i] \ {j} /\ attempt'[i] = attempt[i]
    BY <1>1, <1>7 DEF Succeeded, TypeOK
  <2>2. OneAwake(i)' /\ OneRetry(i)' /\ GhostsCommit(i)'
    BY <1>3, <2>1 DEF OneAwake, OneRetry, GhostsCommit
  <2>3. CanCommit(i)'
    BY <1>1, <1>3, <1>4, <1>5, <2>1 DEF CanCommit
  <2>4. Counted(i)'
    BY <1>1, <1>6, <2>1 DEF Counted
  <2>5. NewestInHand(i)'
    BY <1>1, <1>3, <1>7, <2>1
       DEF NewestInHand, Relists, Working, Distributed, Leads
  <2> QED
    BY <2>2, <2>3, <2>4, <2>5 DEF NewestAt
<1>8. CASE j.kind # "ghost"
  <2>1. /\ attempt'[i] = 0
        /\ \/ jobs'[i] = RetryCancelled(i, j) \cup {}
           \/ /\ jobs'[i] = RetryCancelled(i, j) \cup {collect}
              /\ j.kind # "retry"
    BY <1>1, <1>8 DEF Succeeded, TypeOK
  <2>2. RetryCancelled(i, j) = jobs[i] \ (retries \cup {j})
    BY <1>1, <1>3, NoRetryInFlight
  <2>3. /\ \A x \in jobs'[i] : \/ x \in jobs[i] /\ x # j /\ x.kind # "retry"
                               \/ x = collect /\ j.kind # "retry"
        /\ \A x \in jobs[i] : x = j \/ x.kind = "retry" \/ x \in jobs'[i]
    BY <2>1, <2>2 DEF OfKind
  <2> HIDE DEF collect
  <2>4. OneAwake(i)' /\ OneRetry(i)' /\ GhostsCommit(i)'
    BY <1>1, <1>2, <1>3, <1>8, <2>3 DEF OneAwake, OneRetry, GhostsCommit
  <2>5. CanCommit(i)'
    BY <1>1, <1>2, <1>3, <1>4, <1>5, <2>3 DEF CanCommit
  <2>6. Counted(i)'
    BY <1>1, <1>6, <2>1 DEF Counted
  <2>7. NewestInHand(i)'
    <3> SUFFICES ASSUME ~mwatch[i], \A x \in jobs'[i] : ~Relists(x)
                 PROVE  /\ \A x \in jobs'[i] : ~Working(x) /\ x.kind # "retry"
                        /\ Distributed(i)'
      BY <1>1 DEF NewestInHand, Relists, Working
    <3>1. \A x \in jobs[i] : ~Relists(x)
      <4>1. \A x \in jobs[i] : x.kind = "retry" => ~Relists(x)
        BY DEF Relists
      <4> QED
        BY <1>1, <2>3, <4>1 DEF Relists
    <3>2. Working(j)
      BY <1>1, <1>8 DEF Working
    <3>3. PICK x \in jobs[i] : Working(x) /\ x.insts = members
      BY <1>3, <3>1, <3>2 DEF NewestInHand
    <3>4. \A y \in jobs[i] : Working(y) => y = j
      BY <1>1, <1>3 DEF OneAwake, Working
    <3>5. entry.by = i /\ entry.ep = epoch[i] /\ entry.insts = members
      BY <1>1, <1>3, <3>3, <3>4 DEF CanCommit
    <3>6. Distributed(i)'
      BY <1>1, <3>5 DEF Distributed
    <3> QED
      BY <1>2, <2>3, <3>4, <3>6 DEF Working
  <2> QED
    BY <2>4, <2>5, <2>6, <2>7 DEF NewestAt
<1> QED
  BY <1>7, <1>8

(* The clean-up runs when no transaction is under way.                     *)
LEMMA NewestCleans ==
  ASSUME TypeOK, StallInv, NEW i \in Inst, NewestAt(i), NEW j \in jobs[i],
         Leads(i), CleanupOrphans(i, j)
  PROVE  NewestAt(i)'
<1>1. /\ j.pc = "gc" /\ jobs'[i] = jobs[i] \ {j}
      /\ UNCHANGED <<leader, sess, members, mwatch, epoch, attempt, left, log>>
  BY DEF CleanupOrphans, TypeOK, lifeVars, leadVars
<1>2. /\ OneAwake(i) /\ OneRetry(i) /\ GhostsCommit(i) /\ CanCommit(i)
      /\ Counted(i) /\ NewestInHand(i)
  BY DEF NewestAt
<1>3. OneAwake(i)' /\ OneRetry(i)' /\ GhostsCommit(i)'
  BY <1>1, <1>2 DEF OneAwake, OneRetry, GhostsCommit
<1>4. CanCommit(i)'
  BY <1>1, <1>2 DEF CanCommit, OneAwake
<1>5. Counted(i)'
  BY <1>1, <1>2 DEF Counted, Leads
<1>6. NewestInHand(i)'
  <2> SUFFICES ASSUME ~mwatch[i], \A x \in jobs[i] : x # j => ~Relists(x)
               PROVE  NewestInHand(i)'
    BY <1>1 DEF NewestInHand, Relists
  <2>1. \A x \in jobs[i] : ~Relists(x)
    BY <1>1 DEF Relists
  <2>2. CASE \E x \in jobs[i] : Working(x) /\ x.insts = members
    BY <1>1, <1>2, <2>2 DEF OneAwake, Working
  <2>3. CASE ~\E x \in jobs[i] : Working(x) /\ x.insts = members
    <3>1. /\ \A x \in jobs[i] : ~Working(x)
          /\ \/ \E x \in jobs[i] : x.kind = "retry" /\ x.insts = members
             \/ Distributed(i) /\ \A x \in jobs[i] : x.kind # "retry"
      BY <1>2, <2>1, <2>3 DEF NewestInHand
    <3>2. j.kind # "retry"
      BY <1>1 DEF StallInv, RetryKeepsList
    <3> QED
      BY <1>1, <3>1, <3>2 DEF NewestInHand, Working, Relists, Distributed
  <2> QED
    BY <2>2, <2>3
<1> QED
  BY <1>3, <1>4, <1>5, <1>6 DEF NewestAt

(* The steps of the leader's coroutines keep it.                           *)
LEMMA NewestJobStep ==
  ASSUME Calm, TypeOK, StallInv, NewestInv, NEW i \in Inst, NEW j \in jobs[i],
         JobStep(i, j)
  PROVE  NewestInv'
<1>1. Leads(i) /\ NewestAt(i)
  BY DEF Calm, StallInv, OthersIdle, NewestInv
<1>2. ASSUME NEW k \in Inst \ {i}
      PROVE  NewestAt(k)'
  <2>1. jobs[k] = {} /\ ~Leads(k)
    BY <1>1 DEF Calm, StallInv, OthersIdle, Leads
  <2>2. jobs'[k] = {} /\ ~Leads(k)'
    BY <2>1, JobStepFrame DEF Leads
  <2> QED
    BY <2>2, NewestIdleNext
<1>3. ~ListMembersFails(i, j)
  BY <1>1, BoundAssumption DEF ListMembersFails, Leads, Calm, TypeOK, Spent
<1>4. ~CommitImpossible(i, j)
  BY <1>1 DEF CommitImpossible, Leads, NewestAt, CanCommit
<1>5. NewestAt(i)'
  BY <1>1, <1>3, <1>4, NewestWake, NewestList, NewestBuild, NewestFails,
     NewestCommits, NewestCleans DEF JobStep
<1> QED
  BY <1>2, <1>5 DEF NewestInv

(* Every step keeps it.                                                    *)
LEMMA NewestStep ==
  ASSUME Calm, TypeOK, EpochsOwned, StallInv, NewestInv, [Next]_vars
  PROVE  NewestInv'
<1>1. ASSUME UNCHANGED <<zkVars, lifeVars, mwatch, leadVars, jobVars, left, log>>
      PROVE  NewestInv'
  <2> SUFFICES ASSUME NEW k \in Inst
               PROVE  NewestAt(k)'
    BY DEF NewestInv
  <2>1. NewestAt(k) /\ \A j \in jobs[k] : j.insts \subseteq Inst
    BY DEF NewestInv, TypeOK, Job
  <2>2. Leads(k)' => Leads(k)
    BY <1>1 DEF Leads, zkVars, lifeVars
  <2> QED
    BY <1>1, <2>1, <2>2, NewestOther DEF zkVars, leadVars, jobVars
<1>2. ASSUME NEW i \in Inst, OnAssignmentChanged(i)
      PROVE  NewestInv'
  BY <1>1, <1>2 DEF OnAssignmentChanged
<1>3. CASE UNCHANGED vars
  BY <1>1, <1>3 DEF vars, watchVars
<1> QED
  BY <1>2, <1>3, NewestLifecycle, NewestMembership, NewestBecome, NewestJobStep
     DEF Next

(* A leader with nothing left to do has distributed exactly the members    *)
(* there are, whatever joined, left or crashed and whichever transactions  *)
(* failed in between: as long as redistributions end before the next sleep *)
(* does, sessions and listings do not fail and the failures do not exhaust *)
(* the attempts.  TLC refutes the property when any one of these four is   *)
(* dropped.                                                                *)
THEOREM IdleLeaderHasDistributed ==
  ASSUME Calm
  PROVE  Spec => []NoUnreportedStall
<1>1. Init => StallInv /\ NewestInv
  <2>1. Init => \A i \in Inst : jobs[i] = {} /\ ~Leads(i)
    BY InstAssumption DEF Init, Leads
  <2> QED
    BY <2>1, StallInit, NewestIdle DEF NewestInv
<1>2. TypeOK /\ EpochsOwned /\ StallInv /\ NewestInv /\ [Next]_vars
        => StallInv' /\ NewestInv'
  BY StallStep, NewestStep DEF Calm
<1>3. NewestInv => NoUnreportedStall
  BY DEF NewestInv, NewestAt, NewestInHand, Distributed, NoUnreportedStall,
         Running, Leads
<1>4. IndInv => TypeOK /\ EpochsOwned
  BY DEF IndInv
<1> QED
  BY <1>1, <1>2, <1>3, <1>4, Invariance, PTL DEF Spec

-----------------------------------------------------------------------------
(* The election as one step of PartitionManager.                           *)

LEMMA LeaderKnowsInit == Init => LeaderKnows
BY InstAssumption DEF Init, LeaderKnows, Leads

LEMMA LeaderKnowsLifecycle ==
  ASSUME TypeOK, EpochsOwned, LeaderKnows, NEW i \in Inst, Lifecycle(i)
  PROVE  LeaderKnows'
<1> USE InstAssumption
    DEF LeaderKnows, Leads, EpochsOwned, TypeOK, zkVars, lifeVars, leadVars
<1>1. CASE Boot(i)
  BY <1>1 DEF Boot
<1>2. CASE RegisterMember(i) \/ RegisterWatches(i) \/ RefreshRead(i)
  BY <1>2 DEF RegisterMember, RegisterWatches, RefreshRead
<1>3. CASE RefreshApply(i)
  BY <1>3 DEF RefreshApply
<1>4. CASE StartElection(i)
  BY <1>4 DEF StartElection
<1>5. CASE Stop(i) \/ Crash(i)
  BY <1>5 DEF Stop, Crash, DropEphemerals
<1>6. CASE ExpireDead(i) \/ ExpireLive(i)
  BY <1>6 DEF ExpireDead, ExpireLive, DropEphemerals
<1>7. CASE OnLost(i) \/ OnConnected(i)
  BY <1>7 DEF OnLost, OnConnected
<1> QED
  BY <1>1, <1>2, <1>3, <1>4, <1>5, <1>6, <1>7 DEF Lifecycle

LEMMA LeaderKnowsStep ==
  ASSUME TypeOK, EpochsOwned, LeaderKnows, [Next]_vars
  PROVE  LeaderKnows'
<1>1. ASSUME NEW i \in Inst, OnAssignmentChanged(i) \/ HandleMembershipChange(i)
      PROVE  LeaderKnows'
  BY <1>1 DEF OnAssignmentChanged, HandleMembershipChange, LeaderKnows, Leads,
              zkVars, lifeVars, leadVars
<1>2. ASSUME NEW i \in Inst, BecomeLeader(i) PROVE LeaderKnows'
  BY <1>2, InstAssumption DEF BecomeLeader, LeaderKnows, Leads, TypeOK, lifeVars
<1>3. ASSUME NEW i \in Inst, NEW j \in jobs[i], JobStep(i, j)
      PROVE  LeaderKnows'
  BY <1>3, JobStepFrame DEF LeaderKnows, Leads
<1>4. CASE UNCHANGED vars
  BY <1>4 DEF vars, zkVars, lifeVars, leadVars, LeaderKnows, Leads
<1> QED
  BY <1>1, <1>2, <1>3, <1>4, LeaderKnowsLifecycle DEF Next

LEMMA ElectInit == Init => Elect!Init
BY InstAssumption DEF Init, Elect!Init, Holder

LEMMA ElectLifecycle ==
  ASSUME TypeOK, EpochsOwned, LeaderKnows, NEW i \in Inst, Lifecycle(i)
  PROVE  \/ Elect!Fall(i) \/ Elect!Resign(i) \/ Elect!Forget(i)
         \/ UNCHANGED Elect!vars
<1> USE InstAssumption DEF TypeOK, zkVars, lifeVars, leadVars
<1>1. CASE Boot(i)
  <2>1. Holder' = Holder \ {i}
    BY <1>1 DEF Boot, Holder, EpochsOwned
  <2> QED
    BY <1>1, <2>1 DEF Boot, Elect!Forget
<1>2. CASE RegisterMember(i) \/ RegisterWatches(i) \/ RefreshRead(i)
            \/ RefreshApply(i)
  BY <1>2 DEF RegisterMember, RegisterWatches, RefreshRead, RefreshApply, Holder,
              Elect!vars
<1>3. CASE StartElection(i)
  <2>1. Holder' = Holder \ {i}
    BY <1>3 DEF StartElection, Holder, LeaderKnows, Leads
  <2> QED
    BY <1>3, <2>1 DEF StartElection, Elect!Resign
<1>4. CASE Stop(i)
  <2>1. Holder' = Holder \ {i}
    BY <1>4 DEF Stop, DropEphemerals, Holder
  <2> QED
    BY <1>4, <2>1 DEF Stop, Elect!Resign
<1>5. CASE Crash(i)
  <2>1. Holder' = Holder \ {i}
    BY <1>5 DEF Crash, Holder
  <2> QED
    BY <1>5, <2>1 DEF Crash, Elect!Resign
<1>6. CASE ExpireDead(i) \/ ExpireLive(i)
  <2>1. Holder' = Holder \ {i}
    BY <1>6 DEF ExpireDead, ExpireLive, DropEphemerals, Holder
  <2> QED
    BY <1>6, <2>1 DEF ExpireDead, ExpireLive, Elect!Fall
<1>7. CASE OnLost(i) \/ OnConnected(i)
  <2>1. Holder' = Holder
    BY <1>7 DEF OnLost, OnConnected, Holder, EpochsOwned
  <2> QED
    BY <1>7, <2>1 DEF OnLost, OnConnected, Elect!vars
<1> QED
  BY <1>1, <1>2, <1>3, <1>4, <1>5, <1>6, <1>7 DEF Lifecycle

LEMMA ElectStep ==
  ASSUME TypeOK, EpochsOwned, LeaderKnows, [Next]_vars
  PROVE  [Elect!Next]_(Elect!vars)
<1>1. ASSUME NEW i \in Inst, OnAssignmentChanged(i) \/ HandleMembershipChange(i)
      PROVE  UNCHANGED Elect!vars
  BY <1>1 DEF OnAssignmentChanged, HandleMembershipChange, Holder, Elect!vars,
              zkVars, lifeVars, leadVars
<1>2. ASSUME NEW i \in Inst, BecomeLeader(i) PROVE Elect!Win(i)
  <2>1. Holder = {} /\ Holder' = {i}
    BY <1>2, InstAssumption DEF BecomeLeader, Holder, TypeOK, lifeVars
  <2> QED
    BY <1>2, <2>1 DEF BecomeLeader, Elect!Win
<1>3. ASSUME NEW i \in Inst, NEW j \in jobs[i], JobStep(i, j)
      PROVE  UNCHANGED Elect!vars
  BY <1>3, JobStepFrame DEF Holder, Elect!vars
<1>4. CASE UNCHANGED vars
  BY <1>4 DEF vars, zkVars, lifeVars, leadVars, Holder, Elect!vars
<1> QED
  BY <1>1, <1>2, <1>3, <1>4, ElectLifecycle DEF Next, Elect!Next

(* PartitionManager sees an election that keeps the promises of Election:  *)
(* it takes nothing for granted that LeaderElection, step by step, does    *)
(* not implement (SessionRecovery).                                        *)
THEOREM ElectionAssumed == Spec => Elect!Spec
<1>1. IndInv /\ LeaderKnows /\ [Next]_vars => LeaderKnows'
  BY LeaderKnowsStep DEF IndInv
<1>2. IndInv /\ LeaderKnows /\ [Next]_vars => [Elect!Next]_(Elect!vars)
  BY ElectStep DEF IndInv
<1> QED
  BY <1>1, <1>2, LeaderKnowsInit, ElectInit, Invariance, PTL DEF Spec, Elect!Spec
=============================================================================
