------------------------- MODULE AnalysisLockProofs -------------------------
(***************************************************************************)
(* Proofs about AnalysisLock, for any number of instances, processes, jobs *)
(* and worker threads.                                                     *)
(***************************************************************************)
EXTENDS AnalysisLock, TLAPS

(* A node without a job or a thread exists only during a shutdown.         *)
Held ==
  \A t \in znode : pc[t] # "idle" \/ call[t] # "none" \/ Host[t] \notin up

IndInv == TypeOK /\ CallsMatch /\ Ordered /\ Queued /\ Held /\ Present

(* What every step of a job or of an instance does to a queue.             *)
LEMMA WithoutType ==
  ASSUME NEW q \in [Task -> SUBSET Task], NEW gone
  PROVE  /\ Without(q, gone) \in [Task -> SUBSET Task]
         /\ \A t \in Task : Without(q, gone)[t] = q[t] \ gone
BY DEF Without

(* One step of a job or of an instance keeps the type invariant.           *)
LEMMA TypeStep == TypeOK /\ [Next]_vars => TypeOK'
<1> SUFFICES ASSUME TypeOK, [Next]_vars PROVE TypeOK'
  OBVIOUS
<1> USE TaskAssumption, WithoutType
<1>1. ASSUME NEW t \in Task, JobStep(t) PROVE TypeOK'
  <2>1. CASE Fire(t)
    BY <2>1 DEF TypeOK, Fire, SameLocal, OnHost
  <2>2. CASE BeginAcquire(t)
    BY <2>2 DEF TypeOK, BeginAcquire, Submit, OnHost
  <2>3. CASE CreateNode(t)
    BY <2>3 DEF TypeOK, CreateNode
  <2>4. CASE Acquired(t)
    BY <2>4 DEF TypeOK, Acquired, Leave
  <2>5. CASE AcquireTimeout(t)
    BY <2>5 DEF TypeOK, AcquireTimeout, Leave, DeleteNode, End
  <2>6. CASE BeginRelease(t)
    BY <2>6 DEF TypeOK, BeginRelease, Submit, OnHost
  <2>7. CASE Released(t)
    BY <2>7 DEF TypeOK, Released, Leave, DeleteNode, End
  <2>8. CASE ForceCancel(t)
    BY <2>8 DEF TypeOK, ForceCancel, Submit, OnHost, Leave, End
  <2> QED BY <1>1, <2>1, <2>2, <2>3, <2>4, <2>5, <2>6, <2>7, <2>8 DEF JobStep
<1>2. ASSUME NEW i \in Inst, Expire(i) \/ Shutdown(i) \/ Close(i) PROVE TypeOK'
  BY <1>2 DEF TypeOK, Expire, Shutdown, Close, DropSession, OnHost
<1>3. CASE UNCHANGED vars
  BY <1>3 DEF TypeOK, vars
<1> QED BY <1>1, <1>2, <1>3 DEF Next

(* Each part of the invariant is kept by every step.                       *)
LEMMA CallsStep == IndInv /\ [Next]_vars => CallsMatch'
<1> SUFFICES ASSUME IndInv, [Next]_vars PROVE CallsMatch'
  OBVIOUS
<1> USE TaskAssumption, WithoutType DEF IndInv, TypeOK, CallsMatch
<1>1. ASSUME NEW t \in Task, JobStep(t) PROVE CallsMatch'
  <2>1. CASE Fire(t)
    BY <2>1 DEF Fire
  <2>2. CASE BeginAcquire(t)
    BY <2>2 DEF BeginAcquire, Submit
  <2>3. CASE CreateNode(t)
    BY <2>3 DEF CreateNode
  <2>4. CASE Acquired(t)
    BY <2>4 DEF Acquired, Leave
  <2>5. CASE AcquireTimeout(t)
    BY <2>5 DEF AcquireTimeout, Leave, End
  <2>6. CASE BeginRelease(t)
    BY <2>6 DEF BeginRelease, Submit
  <2>7. CASE Released(t)
    BY <2>7 DEF Released, Leave, End
  <2>8. CASE ForceCancel(t)
    BY <2>8 DEF ForceCancel, Submit, Leave, End
  <2> QED BY <1>1, <2>1, <2>2, <2>3, <2>4, <2>5, <2>6, <2>7, <2>8 DEF JobStep
<1>2. ASSUME NEW i \in Inst, Expire(i) \/ Shutdown(i) \/ Close(i)
      PROVE  CallsMatch'
  BY <1>2 DEF Expire, Shutdown, Close, OnHost
<1>3. CASE UNCHANGED vars
  BY <1>3 DEF vars
<1> QED BY <1>1, <1>2, <1>3 DEF Next

LEMMA OrderedStep == IndInv /\ [Next]_vars => Ordered'
<1> SUFFICES ASSUME IndInv, [Next]_vars PROVE Ordered'
  OBVIOUS
<1> USE TaskAssumption, WithoutType DEF IndInv, TypeOK, CallsMatch, Ordered
<1>1. ASSUME NEW t \in Task, JobStep(t) PROVE Ordered'
  <2>1. CASE Fire(t)
    BY <2>1 DEF Fire
  <2>2. CASE BeginAcquire(t)
    BY <2>2 DEF BeginAcquire
  <2>3. CASE CreateNode(t)
    BY <2>3 DEF CreateNode
  <2>4. CASE Acquired(t)
    BY <2>4 DEF Acquired
  <2>5. CASE AcquireTimeout(t)
    BY <2>5 DEF AcquireTimeout, DeleteNode, End
  <2>6. CASE BeginRelease(t)
    BY <2>6 DEF BeginRelease
  <2>7. CASE Released(t)
    BY <2>7 DEF Released, DeleteNode, End
  <2>8. CASE ForceCancel(t)
    BY <2>8 DEF ForceCancel, End
  <2> QED BY <1>1, <2>1, <2>2, <2>3, <2>4, <2>5, <2>6, <2>7, <2>8 DEF JobStep
<1>2. ASSUME NEW i \in Inst, Expire(i) \/ Shutdown(i) \/ Close(i)
      PROVE  Ordered'
  BY <1>2 DEF Expire, Shutdown, Close, OnHost, DropSession
<1>3. CASE UNCHANGED vars
  BY <1>3 DEF vars
<1> QED BY <1>1, <1>2, <1>3 DEF Next

LEMMA QueuedStep == IndInv /\ [Next]_vars => Queued'
<1> SUFFICES ASSUME IndInv, [Next]_vars PROVE Queued'
  OBVIOUS
<1> USE TaskAssumption, WithoutType
    DEF IndInv, TypeOK, Queued, SameLocal, OnHost
<1>1. ASSUME NEW t \in Task, JobStep(t) PROVE Queued'
  <2>1. CASE Fire(t)
    BY <2>1 DEF Fire
  <2>2. CASE BeginAcquire(t)
    BY <2>2 DEF BeginAcquire
  <2>3. CASE CreateNode(t)
    BY <2>3 DEF CreateNode
  <2>4. CASE Acquired(t)
    BY <2>4 DEF Acquired
  <2>5. CASE AcquireTimeout(t)
    BY <2>5 DEF AcquireTimeout, End
  <2>6. CASE BeginRelease(t)
    BY <2>6 DEF BeginRelease
  <2>7. CASE Released(t)
    BY <2>7 DEF Released, End
  <2>8. CASE ForceCancel(t)
    BY <2>8 DEF ForceCancel, End
  <2> QED BY <1>1, <2>1, <2>2, <2>3, <2>4, <2>5, <2>6, <2>7, <2>8 DEF JobStep
<1>2. ASSUME NEW i \in Inst, Expire(i) \/ Shutdown(i) \/ Close(i)
      PROVE  Queued'
  BY <1>2 DEF Expire, Shutdown, Close
<1>3. CASE UNCHANGED vars
  BY <1>3 DEF vars
<1> QED BY <1>1, <1>2, <1>3 DEF Next

LEMMA HeldStep == IndInv /\ [Next]_vars => Held'
<1> SUFFICES ASSUME IndInv, [Next]_vars PROVE Held'
  OBVIOUS
<1> USE TaskAssumption, WithoutType DEF IndInv, TypeOK, CallsMatch, Held
<1>1. ASSUME NEW t \in Task, JobStep(t) PROVE Held'
  <2>1. CASE Fire(t)
    BY <2>1 DEF Fire
  <2>2. CASE BeginAcquire(t)
    BY <2>2 DEF BeginAcquire, Submit
  <2>3. CASE CreateNode(t)
    BY <2>3 DEF CreateNode
  <2>4. CASE Acquired(t)
    BY <2>4 DEF Acquired, Leave
  <2>5. CASE AcquireTimeout(t)
    BY <2>5 DEF AcquireTimeout, DeleteNode, Leave, End
  <2>6. CASE BeginRelease(t)
    BY <2>6 DEF BeginRelease, Submit
  <2>7. CASE Released(t)
    BY <2>7 DEF Released, DeleteNode, Leave, End
  <2>8. CASE ForceCancel(t)
    BY <2>8 DEF ForceCancel, Submit, Leave, End
  <2> QED BY <1>1, <2>1, <2>2, <2>3, <2>4, <2>5, <2>6, <2>7, <2>8 DEF JobStep
<1>2. ASSUME NEW i \in Inst, Expire(i) \/ Shutdown(i) \/ Close(i)
      PROVE  Held'
  BY <1>2 DEF Expire, Shutdown, Close, OnHost, DropSession
<1>3. CASE UNCHANGED vars
  BY <1>3 DEF vars
<1> QED BY <1>1, <1>2, <1>3 DEF Next

LEMMA PresentStep == IndInv /\ [Next]_vars => Present'
<1> SUFFICES ASSUME IndInv, [Next]_vars PROVE Present'
  OBVIOUS
<1> USE TaskAssumption, WithoutType DEF IndInv, TypeOK, Present
<1>1. ASSUME NEW t \in Task, JobStep(t) PROVE Present'
  <2>1. CASE Fire(t)
    BY <2>1 DEF Fire
  <2>2. CASE BeginAcquire(t)
    BY <2>2 DEF BeginAcquire
  <2>3. CASE CreateNode(t)
    BY <2>3 DEF CreateNode
  <2>4. CASE Acquired(t)
    BY <2>4 DEF Acquired
  <2>5. CASE AcquireTimeout(t)
    BY <2>5 DEF AcquireTimeout, DeleteNode
  <2>6. CASE BeginRelease(t)
    BY <2>6 DEF BeginRelease
  <2>7. CASE Released(t)
    BY <2>7 DEF Released, DeleteNode
  <2>8. CASE ForceCancel(t)
    BY <2>8 DEF ForceCancel
  <2> QED BY <1>1, <2>1, <2>2, <2>3, <2>4, <2>5, <2>6, <2>7, <2>8 DEF JobStep
<1>2. ASSUME NEW i \in Inst, Expire(i) \/ Shutdown(i) \/ Close(i)
      PROVE  Present'
  BY <1>2 DEF Expire, Shutdown, Close, OnHost, DropSession
<1>3. CASE UNCHANGED vars
  BY <1>3 DEF vars
<1> QED BY <1>1, <1>2, <1>3 DEF Next

(* The parts together are an inductive invariant of the lock.              *)
THEOREM LockInvariance == Spec => []IndInv
<1>1. Init => IndInv
  BY TaskAssumption DEF Init, IndInv, TypeOK, CallsMatch, Ordered, Queued, Held,
     Present
<1>2. IndInv /\ [Next]_vars => IndInv'
  BY TypeStep, CallsStep, OrderedStep, QueuedStep, HeldStep, PresentStep
  DEF IndInv
<1> QED BY <1>1, <1>2, PTL DEF Spec

(* Type correctness of the lock model.                                     *)
THEOREM LockTypeCorrect == Spec => []TypeOK
BY LockInvariance, PTL DEF IndInv

(* ZKAnalysisLock.acquire is a mutex per process across instances, up to   *)
(* jobs whose session ZooKeeper has already given up.                      *)
THEOREM MutualExclusion == Spec => []Exclusion
<1>1. IndInv => Exclusion
  BY DEF IndInv, Ordered, Exclusion
<1> QED BY LockInvariance, <1>1, PTL

(* The asyncio.Lock keeps the jobs of one instance and process apart even  *)
(* when the session is lost.                                               *)
THEOREM LocalMutualExclusion == Spec => []LocalExclusion
<1>1. IndInv => LocalExclusion
  BY DEF IndInv, Queued, LocalExclusion, SameLocal, OnHost
<1> QED BY LockInvariance, <1>1, PTL

(* A contender has in front of it only nodes that a job or a thread will   *)
(* withdraw, that a shutdown is about to end, or whose deletion failed in  *)
(* the session that is still on.                                           *)
THEOREM NodesAreOwned == Spec => []NoLeak
<1>1. IndInv => NoLeak
  <2> SUFFICES ASSUME IndInv,
                      NEW u \in znode \cup UNION {ahead[t] : t \in znode}
               PROVE  \/ pc[u] # "idle" \/ call[u] # "none"
                      \/ Host[u] \notin up \/ u \in orphan
    BY DEF NoLeak
  <2>1. u \in znode \cup orphan
    BY DEF IndInv, TypeOK, Present
  <2> QED BY <2>1 DEF IndInv, Held
<1> QED BY LockInvariance, <1>1, PTL
=============================================================================
