---------------------------- MODULE AnalysisLock ----------------------------
(***************************************************************************)
(* ZKAnalysisLock.acquire (distributed/lock) as the analysis jobs use it:  *)
(* a job holds an asyncio.Lock of its instance and then a kazoo lock in    *)
(* ZooKeeper.  Acquire and release of the kazoo lock are blocking calls in *)
(* the instance's default thread pool, where they queue for a worker, and  *)
(* the pool is cancelled from neither end: a coroutine that is cancelled   *)
(* leaves the call it waits for to its thread.                             *)
(*                                                                         *)
(* The queues (asyncio.Lock, pool, ZooKeeper) are first come, first        *)
(* served.  Each is modelled by the set of tasks in front of a task.       *)
(***************************************************************************)
EXTENDS Naturals, FiniteSets

CONSTANTS
  Inst,     \* instances
  Proc,     \* processes, each with a lock of its own
  Task,     \* job ids, (process, interval) on an instance
  Host,     \* the instance a job runs on
  Target,   \* the process a job analyses
  Workers,  \* threads of an instance's default executor
  Unsteady  \* bound: the instances that lose answers and sessions and are
            \*        shut down

ASSUME TaskAssumption ==
  /\ Host \in [Task -> Inst] /\ Target \in [Task -> Proc]
  /\ IsFiniteSet(Task) /\ Workers \in Nat \ {0}
  /\ Unsteady \subseteq Inst

VARIABLES
  pc,        \* where the job's coroutine stands
  waits,     \* asyncio.Lock: jobs of the same instance and process in front
  call,      \* the blocking call the job has with the executor
  front,     \* executor: calls in front
  znode,     \* jobs whose current run has a contender node in ZooKeeper
  orphan,    \* jobs of which ZooKeeper has a node that could not be deleted
  ahead,     \* ZooKeeper: contenders for the same lock with a lower number
  lost,      \* history: the node of the lock held went with the session
  up,        \* instances whose scheduler starts jobs
  cancelled  \* jobs that this shutdown has cancelled

vars == <<pc, waits, call, front, znode, orphan, ahead, lost, up, cancelled>>

TypeOK ==
  /\ pc \in [Task -> {"idle", "local", "acquiring", "critical", "releasing"}]
  /\ call \in [Task -> {"none", "acquire", "release"}]
  /\ waits \in [Task -> SUBSET Task] /\ front \in [Task -> SUBSET Task]
  /\ ahead \in [Task -> SUBSET Task]
  /\ znode \subseteq Task /\ orphan \subseteq Task
  /\ lost \subseteq Task /\ cancelled \subseteq Task /\ up \subseteq Inst

Init ==
  /\ pc = [t \in Task |-> "idle"] /\ call = [t \in Task |-> "none"]
  /\ waits = [t \in Task |-> {}] /\ front = [t \in Task |-> {}]
  /\ ahead = [t \in Task |-> {}]
  /\ znode = {} /\ orphan = {} /\ lost = {} /\ cancelled = {}
  /\ up = Inst

-----------------------------------------------------------------------------
OnHost(i) == {t \in Task : Host[t] = i}

(* Jobs that share the asyncio.Lock of t (_get_asyncio_lock).              *)
SameLocal(t) == {u \in OnHost(Host[t]) : Target[u] = Target[t]}

Without(queue, gone) == [t \in Task |-> queue[t] \ gone]

(* loop.run_in_executor(None, ...): behind the calls the pool has.         *)
Submit(t, what) ==
  /\ call' = [call EXCEPT ![t] = what]
  /\ front' = [front EXCEPT ![t] = {u \in OnHost(Host[t]) : call[u] # "none"}]

(* The call has returned, or was still queued and is dropped.              *)
Leave(t) ==
  /\ call' = [call EXCEPT ![t] = "none"]
  /\ front' = Without(front, {t})

(* A worker thread has taken the call.                                     *)
Served(t) == call[t] # "none" /\ Cardinality(front[t]) < Workers

(* Mutant: an ended run keeps its entry under the job id.                  *)
EndAsDone(t) ==
  /\ pc' = [pc EXCEPT ![t] = "done"]
  /\ waits' = Without(waits, {t})

(* The coroutine ends, and with it `async with' on the asyncio.Lock.       *)
End(t) ==
  /\ pc' = [pc EXCEPT ![t] = "idle"]
  /\ waits' = Without(waits, {t})

(* The recipe deletes the node of this run, if the session still has it.   *)
(* When the answers stay out for three tries (command_retry) the recipe    *)
(* gives up, acquire swallows the error, and the node stays in the queue   *)
(* of the lock for as long as the session lasts.                           *)
DeleteNode(t) ==
  /\ znode' = znode \ {t}
  /\ \/ /\ ahead' = Without(ahead, {t} \ orphan)
        /\ UNCHANGED orphan
     \/ /\ t \in znode /\ Host[t] \in Unsteady
        /\ orphan' = orphan \cup {t}
        /\ UNCHANGED ahead

(* The session of i ends, and with it all nodes of its jobs.               *)
DropSession(i) ==
  /\ znode' = znode \ OnHost(i) /\ orphan' = orphan \ OnHost(i)
  /\ ahead' = Without(ahead, OnHost(i))

-----------------------------------------------------------------------------
(* Mutant: one asyncio.Lock per job instead of one per process.            *)
FireUnqueued(t) ==
  /\ pc[t] = "idle" /\ Host[t] \in up
  /\ pc' = [pc EXCEPT ![t] = "local"]
  /\ UNCHANGED <<waits, call, front, znode, orphan, ahead, lost, up, cancelled>>

(* A job fires and asks for the asyncio.Lock of its process.  A job id     *)
(* whose last run has not ended is not started (max_instances = 1).        *)
Fire(t) ==
  /\ pc[t] = "idle" /\ Host[t] \in up
  /\ pc' = [pc EXCEPT ![t] = "local"]
  /\ waits' = [waits EXCEPT ![t] = {u \in SameLocal(t) : pc[u] # "idle"}]
  /\ UNCHANGED <<call, front, znode, orphan, ahead, lost, up, cancelled>>

(* It has the asyncio.Lock: kazoo_lock.acquire goes to the executor.       *)
BeginAcquire(t) ==
  /\ pc[t] = "local" /\ waits[t] = {}
  /\ pc' = [pc EXCEPT ![t] = "acquiring"]
  /\ Submit(t, "acquire")
  /\ UNCHANGED <<waits, znode, orphan, ahead, lost, up, cancelled>>

(* The kazoo recipe creates its ephemeral sequential node, again when the  *)
(* session was replaced.                                                   *)
CreateNode(t) ==
  /\ Served(t) /\ call[t] = "acquire" /\ t \notin znode
  /\ znode' = znode \cup {t}
  /\ ahead' = [ahead EXCEPT ![t] =
       {u \in znode \cup orphan : Target[u] = Target[t]}]
  /\ UNCHANGED <<pc, waits, call, front, orphan, lost, up, cancelled>>

(* The node has the lowest number: acquire returns.  If the coroutine was  *)
(* cancelled nobody will release what was acquired.                        *)
Acquired(t) ==
  /\ Served(t) /\ call[t] = "acquire" /\ t \in znode /\ ahead[t] = {}
  /\ Leave(t)
  /\ pc' = [pc EXCEPT ![t] = IF @ = "acquiring" THEN "critical" ELSE @]
  /\ UNCHANGED <<waits, znode, orphan, ahead, lost, up, cancelled>>

(* Mutant: acquire() without a timeout.                                    *)
AcquireBlocks(t) == FALSE /\ UNCHANGED vars

(* Mutant: the result of acquire is not looked at.                         *)
TimeoutGoesOn(t) ==
  /\ Served(t) /\ call[t] = "acquire"
  /\ DeleteNode(t)
  /\ Leave(t)
  /\ pc' = [pc EXCEPT ![t] = IF @ = "acquiring" THEN "critical" ELSE @]
  /\ UNCHANGED <<waits, lost, up, cancelled>>

(* timeout_sec is over, or the recipe failed: it withdraws its node        *)
(* (_best_effort_cleanup) and the job fails.                               *)
AcquireTimeout(t) ==
  /\ Served(t) /\ call[t] = "acquire"
  /\ DeleteNode(t)
  /\ Leave(t)
  /\ IF pc[t] = "acquiring" THEN End(t) ELSE UNCHANGED <<pc, waits>>
  /\ UNCHANGED <<lost, up, cancelled>>

(* Mutant: the release is not in a finally block and the analysis raises.  *)
ReleaseSkipped(t) ==
  /\ pc[t] = "critical"
  /\ End(t)
  /\ UNCHANGED <<call, front, znode, orphan, ahead, lost, up, cancelled>>

(* The analysis is over, normally or not: the release goes to the executor.*)
BeginRelease(t) ==
  /\ pc[t] = "critical"
  /\ pc' = [pc EXCEPT ![t] = "releasing"]
  /\ Submit(t, "release")
  /\ UNCHANGED <<waits, znode, orphan, ahead, lost, up, cancelled>>

(* kazoo_lock.release deletes the node of this acquire; an error, because  *)
(* the session took the node already or ZooKeeper does not answer, is      *)
(* logged and the job ends the same way.                                   *)
Released(t) ==
  /\ Served(t) /\ call[t] = "release"
  /\ DeleteNode(t)
  /\ Leave(t)
  /\ IF pc[t] = "releasing" THEN End(t) ELSE UNCHANGED <<pc, waits>>
  /\ lost' = lost \ {t}
  /\ UNCHANGED <<up, cancelled>>

(* The ZooKeeper session of i expires.  A job inside the lock goes on.     *)
Expire(i) ==
  /\ i \in Unsteady
  /\ DropSession(i)
  /\ lost' = lost \cup {t \in OnHost(i) : pc[t] = "critical"}
  /\ UNCHANGED <<pc, waits, call, front, up, cancelled>>

-----------------------------------------------------------------------------
(* AnalysisScheduler.shutdown: no job starts any more.                     *)
Shutdown(i) ==
  /\ i \in up \cap Unsteady
  /\ up' = up \ {i}
  /\ UNCHANGED <<pc, waits, call, front, znode, orphan, ahead, lost, cancelled>>

(* What still runs when the timeout of shutdown is over is cancelled.  A   *)
(* job inside the lock releases it first; a call the coroutine waits for   *)
(* goes on if a thread has it and is dropped if it is still queued, the    *)
(* release of a lock included.                                             *)
ForceCancel(t) ==
  /\ pc[t] # "idle" /\ Host[t] \notin up /\ t \notin cancelled
  /\ cancelled' = cancelled \cup {t}
  /\ IF pc[t] = "critical"
       THEN /\ pc' = [pc EXCEPT ![t] = "releasing"]
            /\ Submit(t, "release")
            /\ UNCHANGED waits
       ELSE /\ End(t)
            /\ IF Served(t) THEN UNCHANGED <<call, front>> ELSE Leave(t)
  /\ UNCHANGED <<znode, orphan, ahead, lost, up>>

(* The rest of the lifespan's exit closes the session and with it every    *)
(* call and node; the next pod takes the place of this one.                *)
Close(i) ==
  /\ i \notin up /\ \A t \in OnHost(i) : pc[t] = "idle"
  /\ DropSession(i)
  /\ call' = [t \in Task |-> IF Host[t] = i THEN "none" ELSE call[t]]
  /\ front' = Without(front, OnHost(i))
  /\ up' = up \cup {i}
  /\ cancelled' = cancelled \ OnHost(i)
  /\ lost' = lost \ OnHost(i)
  /\ UNCHANGED <<pc, waits>>

-----------------------------------------------------------------------------
JobStep(t) ==
  \/ Fire(t) \/ BeginAcquire(t) \/ CreateNode(t) \/ Acquired(t)
  \/ AcquireTimeout(t) \/ BeginRelease(t) \/ Released(t) \/ ForceCancel(t)

Next ==
  \/ \E t \in Task : JobStep(t)
  \/ \E i \in Inst : Expire(i) \/ Shutdown(i) \/ Close(i)

Spec == Init /\ [][Next]_vars

(* The event loop runs what is ready, a thread ends its call (an acquire   *)
(* at the latest by its timeout), an analysis ends (its queries have       *)
(* timeouts), and a shutdown is carried through.                           *)
Fairness ==
  /\ \A t \in Task :
       /\ WF_vars(BeginAcquire(t)) /\ WF_vars(BeginRelease(t))
       /\ WF_vars(AcquireTimeout(t)) /\ WF_vars(Released(t))
       /\ WF_vars(CreateNode(t) \/ Acquired(t))
  /\ \A i \in Inst : WF_vars(Close(i))

FairSpec == Spec /\ Fairness

-----------------------------------------------------------------------------
(* Properties.                                                             *)

(* Two jobs analyse the same process at the same time only if the session  *)
(* of one of them is gone: whatever was cancelled, timed out or restarted, *)
(* ZooKeeper's queue is the mutex.                                         *)
Exclusion ==
  \A t, u \in Task :
     /\ t # u /\ Target[t] = Target[u]
     /\ pc[t] = "critical" /\ pc[u] = "critical"
     => t \in lost \/ u \in lost

(* On one instance the asyncio.Lock lets one job at a time deal with the   *)
(* kazoo lock of a process, whatever happens to the session.               *)
LocalExclusion ==
  \A t \in Task : \A u \in SameLocal(t) :
     t # u => ~(/\ pc[t] \in {"acquiring", "critical", "releasing"}
                /\ pc[u] \in {"acquiring", "critical", "releasing"})

(* Every node that is in the queue of a lock, or that a contender waits    *)
(* for, has a job or a thread that will withdraw it, or goes with its      *)
(* session in a shutdown that has begun: timeouts, cancellations and lost  *)
(* sessions leave nothing in front of a later contender.  The one          *)
(* exception is a node whose deletion failed in the session that is still  *)
(* on; Owned says what that costs.                                         *)
NoLeak ==
  \A u \in znode \cup UNION {ahead[t] : t \in znode} :
     pc[u] # "idle" \/ call[u] # "none" \/ Host[u] \notin up \/ u \in orphan

(* The same without the exception is what the code does not guarantee: a   *)
(* release that gave up leaves a node that no run of any job ever deletes, *)
(* and the jobs of its process time out on every instance until the        *)
(* session of the first one ends.                                          *)
Owned ==
  \A u \in znode \cup UNION {ahead[t] : t \in znode} :
     pc[u] # "idle" \/ call[u] # "none" \/ Host[u] \notin up

(* A contender waits only for nodes that ZooKeeper has.                    *)
Present == \A t \in Task : ahead[t] \subseteq znode \cup orphan

(* What the coroutine waits for is what the executor runs; a call whose    *)
(* coroutine is gone exists only during a shutdown.                        *)
CallsMatch ==
  \A t \in Task :
     /\ pc[t] = "acquiring" => call[t] = "acquire"
     /\ pc[t] = "releasing" => call[t] = "release"
     /\ pc[t] \in {"local", "critical"} => call[t] = "none"
     /\ pc[t] = "idle" /\ call[t] # "none" => Host[t] \notin up

(* Of two contenders for one lock one is ahead of the other, and who holds *)
(* the lock in a living session has nobody in front.                       *)
Ordered ==
  /\ \A t, u \in znode :
       t # u /\ Target[t] = Target[u] => t \in ahead[u] \/ u \in ahead[t]
  /\ \A t \in Task :
       pc[t] = "critical" /\ t \notin lost => t \in znode /\ ahead[t] = {}

(* The same for the asyncio.Lock.                                          *)
Queued ==
  /\ \A t \in Task : \A u \in SameLocal(t) :
       t # u /\ pc[t] # "idle" /\ pc[u] # "idle"
         => t \in waits[u] \/ u \in waits[t]
  /\ \A t \in Task :
       pc[t] \in {"acquiring", "critical", "releasing"} => waits[t] = {}

(* Every job that starts ends, although the calls of jobs that wait for a  *)
(* lock can keep the release of that very lock out of the thread pool.     *)
JobsEnd == \A t \in Task : pc[t] # "idle" ~> pc[t] = "idle"

=============================================================================
