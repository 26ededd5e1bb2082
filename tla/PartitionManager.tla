-------------------------- MODULE PartitionManager --------------------------
(***************************************************************************)
(* The cluster of PartitionManager objects (distributed/partition_manager) *)
(* over one ZooKeeper tree: membership, the leader's redistribution tasks, *)
(* the assignment znodes and the instances that apply them.                *)
(*                                                                         *)
(* One action is what an instance does between two awaits.  Winning the    *)
(* election (read, bump and persist the epoch) is one step, a restarted    *)
(* pod finds the ephemeral nodes of its last life gone, and a session is   *)
(* lost again only after the recovery from its last loss.                  *)
(***************************************************************************)
EXTENDS Naturals, FiniteSets, RoundRobin

CONSTANTS
  Inst,         \* instance ids (pod names)
  Proc,         \* active processes of EQP_INFO
  NoOne,        \* nobody holds the election lock
  Prompt,       \* redistributions are faster than debounce and backoff
  MaxAttempts,  \* _REDISTRIBUTE_MAX_ATTEMPTS
  MaxSkew,      \* largest difference between the clocks of two hosts
  MaxBoot,      \* bound: pod starts
  MaxStop,      \* bound: graceful stops and crashes
  MaxExpire,    \* bound: session losses of a running pod
  MaxFail,      \* bound: failed Mongo reads and failed transactions
  MaxListFail,  \* bound: failed get_children calls while connected
  MaxClock      \* bound: readings of a host's clock

ASSUME InstAssumption ==
  Inst \subseteq Nat /\ IsFiniteSet(Inst) /\ NoOne \notin Inst
ASSUME ProcAssumption == Proc \subseteq Nat /\ IsFiniteSet(Proc)
ASSUME BoundAssumption ==
  /\ Prompt \in BOOLEAN
  /\ MaxAttempts \in Nat \ {0} /\ MaxSkew \in Nat /\ MaxBoot \in Nat
  /\ MaxStop \in Nat /\ MaxExpire \in Nat /\ MaxFail \in Nat
  /\ MaxListFail \in Nat /\ MaxClock \in Nat

VARIABLES
  members,    \* ZooKeeper: ephemeral nodes under {root}/members
  leader,     \* ZooKeeper: who holds the election lock
  epochNode,  \* ZooKeeper: value of {root}/leader-epoch
  node,       \* ZooKeeper: {root}/assignments/<instance>
  sess,       \* the instance's ZooKeeper session, as both ends see it
  boot,       \* how far start() or _reinit_after_loss() has come
  mwatch,     \* a members event is waiting for the ChildrenWatch callback
  dwatch,     \* a data event is waiting for the DataWatch callback
  fetched,    \* what _refresh_assignment_from_zk read and has not applied
  isLeader,   \* LeaderElection._is_leader
  epoch,      \* LeaderElection._epoch
  known,      \* (_known_epoch, _known_assigned_at)
  assigned,   \* _assigned_processes
  jobs,       \* coroutines on their way through _do_redistribute
  attempt,    \* _redistribute_attempt
  unhealthy,  \* _redistribute_unhealthy
  clock,      \* time.time() of the instance's host
  left,       \* what is left of the bounds
  log         \* history: the transactions that were committed

zkVars    == <<members, leader, epochNode, node>>
lifeVars  == <<sess, boot>>
watchVars == <<mwatch, dwatch>>
applyVars == <<fetched, known, assigned>>
leadVars  == <<isLeader, epoch>>
jobVars   == <<jobs, attempt, unhealthy, clock>>
vars == <<zkVars, lifeVars, watchVars, applyVars, leadVars, jobVars, left, log>>

-----------------------------------------------------------------------------
(* Values.                                                                 *)

Znode == [st : {"absent", "empty", "data"}, ep : Nat, ts : Nat,
          procs : SUBSET Proc]
Absent == [st |-> "absent", ep |-> 0, ts |-> 0, procs |-> {}]
Empty  == [st |-> "empty",  ep |-> 0, ts |-> 0, procs |-> {}]

Stamp == [ep : Nat, ts : Nat]
NoStamp == [ep |-> 0, ts |-> 0]

(* A coroutine inside _do_redistribute or on its way there: who created    *)
(* it, which await it stands at, the member list it works for and, once    *)
(* the transaction is built, its stamp.  A "ghost" is a transaction whose  *)
(* coroutine was cancelled after it was handed to the executor thread.     *)
Job == [kind : {"become", "debounce", "retry", "ghost"},
        pc : {"sleep", "list", "mongo", "commit", "gc"},
        insts : SUBSET Inst, ep : Nat, ts : Nat]

NewJob(kind, pc, insts) ==
  [kind |-> kind, pc |-> pc, insts |-> insts, ep |-> 0, ts |-> 0]

Commit == [ep : Nat, ts : Nat, insts : SUBSET Inst, by : Inst]

Spent == [boot : 0..MaxBoot, stop : 0..MaxStop, expire : 0..MaxExpire,
          fail : 0..MaxFail, list : 0..MaxListFail]

TypeOK ==
  /\ members \subseteq Inst
  /\ leader \in Inst \cup {NoOne}
  /\ epochNode \in Nat
  /\ node \in [Inst -> Znode]
  /\ sess \in [Inst -> {"none", "live", "dead", "expired", "lost"}]
  /\ boot \in [Inst -> {"off", "member", "watch", "refresh", "apply",
                        "elect", "run"}]
  /\ mwatch \in [Inst -> BOOLEAN] /\ dwatch \in [Inst -> BOOLEAN]
  /\ fetched \in [Inst -> Znode]
  /\ isLeader \in [Inst -> BOOLEAN] /\ epoch \in [Inst -> Nat]
  /\ known \in [Inst -> Stamp] /\ assigned \in [Inst -> SUBSET Proc]
  /\ jobs \in [Inst -> SUBSET Job]
  /\ attempt \in [Inst -> Nat] /\ unhealthy \in [Inst -> BOOLEAN]
  /\ clock \in [Inst -> Nat]
  /\ left \in Spent
  /\ log \subseteq Commit

Init ==
  /\ members = {} /\ leader = NoOne /\ epochNode = 0
  /\ node = [i \in Inst |-> Absent]
  /\ sess = [i \in Inst |-> "none"] /\ boot = [i \in Inst |-> "off"]
  /\ mwatch = [i \in Inst |-> FALSE] /\ dwatch = [i \in Inst |-> FALSE]
  /\ fetched = [i \in Inst |-> Absent]
  /\ isLeader = [i \in Inst |-> FALSE] /\ epoch = [i \in Inst |-> 0]
  /\ known = [i \in Inst |-> NoStamp] /\ assigned = [i \in Inst |-> {}]
  /\ jobs = [i \in Inst |-> {}]
  /\ attempt = [i \in Inst |-> 0] /\ unhealthy = [i \in Inst |-> FALSE]
  /\ clock \in [Inst -> 0..MaxSkew]
  /\ left = [boot |-> MaxBoot, stop |-> MaxStop, expire |-> MaxExpire,
             fail |-> MaxFail, list |-> MaxListFail]
  /\ log = {}

-----------------------------------------------------------------------------
(* Pod and session life cycle.                                             *)

(* The instance has registered its two watches in the current session.     *)
Watching(i) ==
  sess[i] = "live" /\ boot[i] \in {"refresh", "apply", "elect", "run"}

(* Every registered ChildrenWatch has an event to deliver.                 *)
NotifyMembers == mwatch' = [i \in Inst |-> mwatch[i] \/ Watching(i)]

(* A pod comes up: a new process with the fields __init__ gives it.        *)
Boot(i) ==
  /\ sess[i] = "none" /\ left.boot > 0
  /\ left' = [left EXCEPT !.boot = @ - 1]
  /\ sess' = [sess EXCEPT ![i] = "live"]
  /\ boot' = [boot EXCEPT ![i] = "member"]
  /\ mwatch' = [mwatch EXCEPT ![i] = FALSE]
  /\ dwatch' = [dwatch EXCEPT ![i] = FALSE]
  /\ fetched' = [fetched EXCEPT ![i] = Absent]
  /\ known' = [known EXCEPT ![i] = NoStamp]
  /\ assigned' = [assigned EXCEPT ![i] = {}]
  /\ isLeader' = [isLeader EXCEPT ![i] = FALSE]
  /\ epoch' = [epoch EXCEPT ![i] = 0]
  /\ jobs' = [jobs EXCEPT ![i] = {}]
  /\ attempt' = [attempt EXCEPT ![i] = 0]
  /\ unhealthy' = [unhealthy EXCEPT ![i] = FALSE]
  /\ UNCHANGED <<zkVars, clock, log>>

(* _register_member: create the ephemeral node.                            *)
RegisterMember(i) ==
  /\ sess[i] = "live" /\ boot[i] = "member"
  /\ members' = members \cup {i}
  /\ NotifyMembers
  /\ boot' = [boot EXCEPT ![i] = "watch"]
  /\ UNCHANGED <<leader, epochNode, node, sess, dwatch, applyVars, leadVars,
                 jobVars, left, log>>

(* ensure_path of the own assignment node, then _register_watches.  Both   *)
(* kazoo watches call back once when they are created.                     *)
RegisterWatches(i) ==
  /\ sess[i] = "live" /\ boot[i] = "watch"
  /\ node' = [node EXCEPT ![i] = IF @.st = "absent" THEN Empty ELSE @]
  /\ mwatch' = [mwatch EXCEPT ![i] = TRUE]
  /\ dwatch' = [dwatch EXCEPT ![i] = TRUE]
  /\ boot' = [boot EXCEPT ![i] = "refresh"]
  /\ UNCHANGED <<members, leader, epochNode, sess, applyVars, leadVars,
                 jobVars, left, log>>

(* _refresh_assignment_from_zk up to the answer of kazoo.get.              *)
RefreshRead(i) ==
  /\ sess[i] = "live" /\ boot[i] = "refresh"
  /\ fetched' = [fetched EXCEPT ![i] = node[i]]
  /\ boot' = [boot EXCEPT ![i] = "apply"]
  /\ UNCHANGED <<zkVars, sess, watchVars, known, assigned, leadVars, jobVars,
                 left, log>>

(* (epoch, assigned_at) of a is newer than that of b.                      *)
Newer(a, b) == a.ep > b.ep \/ (a.ep = b.ep /\ a.ts > b.ts)

(* Mutant: the payload itself is kept as the stamp.                        *)
ApplyWholePayload(i, z) ==
  IF z.st = "data" /\ Newer(z, known[i])
    THEN /\ known' = [known EXCEPT ![i] = z]
         /\ assigned' = [assigned EXCEPT ![i] = z.procs]
    ELSE UNCHANGED <<known, assigned>>

(* Mutant: the stale defence looks at the epoch only.                      *)
ApplySameEpoch(i, z) ==
  IF z.st = "data" /\ z.ep >= known[i].ep
    THEN /\ known' = [known EXCEPT ![i] = [ep |-> z.ep, ts |-> z.ts]]
         /\ assigned' = [assigned EXCEPT ![i] = z.procs]
    ELSE UNCHANGED <<known, assigned>>

(* _apply_assignment: the stale defence.  A missing or an empty node is    *)
(* dropped by the caller.                                                  *)
ApplyAssignment(i, z) ==
  IF z.st = "data" /\ Newer(z, known[i])
    THEN /\ known' = [known EXCEPT ![i] = [ep |-> z.ep, ts |-> z.ts]]
         /\ assigned' = [assigned EXCEPT ![i] = z.procs]
    ELSE UNCHANGED <<known, assigned>>

(* _refresh_assignment_from_zk from there on.                              *)
RefreshApply(i) ==
  /\ boot[i] = "apply"
  /\ ApplyAssignment(i, fetched[i])
  /\ fetched' = [fetched EXCEPT ![i] = Absent]
  /\ boot' = [boot EXCEPT ![i] = "elect"]
  /\ UNCHANGED <<zkVars, sess, watchVars, leadVars, jobVars, left, log>>

(* Mutant: restart_after_loss without _is_leader = False.                  *)
StartElectionKeepsLead(i) ==
  /\ sess[i] = "live" /\ boot[i] = "elect"
  /\ boot' = [boot EXCEPT ![i] = "run"]
  /\ UNCHANGED <<zkVars, sess, watchVars, applyVars, leadVars, jobVars, left,
                 log>>

(* LeaderElection.start at boot and restart_after_loss during recovery:    *)
(* leadership won in the lost session is given up only here.               *)
StartElection(i) ==
  /\ sess[i] = "live" /\ boot[i] = "elect"
  /\ isLeader' = [isLeader EXCEPT ![i] = FALSE]
  /\ boot' = [boot EXCEPT ![i] = "run"]
  /\ UNCHANGED <<zkVars, sess, watchVars, applyVars, epoch, jobVars, left, log>>

(* What ZooKeeper does when a session ends: ephemeral nodes go.            *)
DropEphemerals(i) ==
  /\ members' = members \ {i}
  /\ leader' = IF leader = i THEN NoOne ELSE leader
  /\ mwatch' = [j \in Inst |->
                  j # i /\ (mwatch[j] \/ (i \in members /\ Watching(j)))]

(* stop(), LeaderElection.stop() and the close of the session: pending     *)
(* tasks are cancelled and nothing of the process remains.                 *)
Stop(i) ==
  /\ sess[i] = "live" /\ boot[i] = "run" /\ left.stop > 0
  /\ left' = [left EXCEPT !.stop = @ - 1]
  /\ sess' = [sess EXCEPT ![i] = "none"]
  /\ boot' = [boot EXCEPT ![i] = "off"]
  /\ DropEphemerals(i)
  /\ jobs' = [jobs EXCEPT ![i] = {}]
  /\ isLeader' = [isLeader EXCEPT ![i] = FALSE]
  /\ dwatch' = [dwatch EXCEPT ![i] = FALSE]
  /\ UNCHANGED <<epochNode, node, applyVars, epoch, attempt, unhealthy, clock,
                 log>>

(* The process dies; its ephemeral nodes outlive it until ZooKeeper        *)
(* expires the session.                                                    *)
Crash(i) ==
  /\ sess[i] = "live" /\ left.stop > 0
  /\ left' = [left EXCEPT !.stop = @ - 1]
  /\ sess' = [sess EXCEPT ![i] = "dead"]
  /\ boot' = [boot EXCEPT ![i] = "off"]
  /\ jobs' = [jobs EXCEPT ![i] = {}]
  /\ isLeader' = [isLeader EXCEPT ![i] = FALSE]
  /\ mwatch' = [mwatch EXCEPT ![i] = FALSE]
  /\ dwatch' = [dwatch EXCEPT ![i] = FALSE]
  /\ UNCHANGED <<zkVars, applyVars, epoch, attempt, unhealthy, clock, log>>

ExpireDead(i) ==
  /\ sess[i] = "dead"
  /\ sess' = [sess EXCEPT ![i] = "none"]
  /\ DropEphemerals(i)
  /\ UNCHANGED <<epochNode, node, boot, dwatch, applyVars, leadVars, jobVars,
                 left, log>>

(* The session of a running pod expires on the server; the client does not *)
(* know yet and keeps its assignment and its leadership.                   *)
ExpireLive(i) ==
  /\ sess[i] = "live" /\ boot[i] = "run" /\ left.expire > 0
  /\ left' = [left EXCEPT !.expire = @ - 1]
  /\ sess' = [sess EXCEPT ![i] = "expired"]
  /\ DropEphemerals(i)
  /\ UNCHANGED <<epochNode, node, boot, dwatch, applyVars, leadVars, jobVars,
                 log>>

(* on_zk_state_change(LOST): forget the assignment and its stamp.          *)
OnLost(i) ==
  /\ sess[i] = "expired"
  /\ sess' = [sess EXCEPT ![i] = "lost"]
  /\ known' = [known EXCEPT ![i] = NoStamp]
  /\ assigned' = [assigned EXCEPT ![i] = {}]
  /\ UNCHANGED <<zkVars, boot, watchVars, fetched, leadVars, jobVars, left,
                 log>>

(* on_zk_state_change(CONNECTED) after a loss: _reinit_after_loss begins.  *)
(* The DataWatch of the old session reads its node again by itself.        *)
OnConnected(i) ==
  /\ sess[i] = "lost"
  /\ sess' = [sess EXCEPT ![i] = "live"]
  /\ boot' = [boot EXCEPT ![i] = "member"]
  /\ dwatch' = [dwatch EXCEPT ![i] = TRUE]
  /\ UNCHANGED <<zkVars, mwatch, applyVars, leadVars, jobVars, left, log>>

-----------------------------------------------------------------------------
(* Watch callbacks.                                                        *)

(* The DataWatch reads the node as it is now and hands it to               *)
(* _on_assignment_changed_sync.                                            *)
OnAssignmentChanged(i) ==
  /\ dwatch[i] /\ sess[i] = "live"
  /\ dwatch' = [dwatch EXCEPT ![i] = FALSE]
  /\ ApplyAssignment(i, node[i])
  /\ UNCHANGED <<zkVars, lifeVars, mwatch, fetched, leadVars, jobVars, left,
                 log>>

(* The transactions of cancelled coroutines that the executor runs anyway. *)
Ghosts(js) == {[j EXCEPT !.kind = "ghost"] : j \in {x \in js : x.pc = "commit"}}

OfKind(i, kind) == {j \in jobs[i] : j.kind = kind}

(* Mutant: an event that comes while a task is pending is dropped.         *)
IgnoreWhilePending(i) ==
  /\ mwatch[i] /\ sess[i] = "live"
  /\ mwatch' = [mwatch EXCEPT ![i] = FALSE]
  /\ jobs' = IF isLeader[i] /\ OfKind(i, "debounce") = {}
               THEN [jobs EXCEPT ![i] = @ \cup {NewJob("debounce", "sleep", {})}]
               ELSE jobs
  /\ UNCHANGED <<zkVars, lifeVars, dwatch, applyVars, leadVars, attempt,
                 unhealthy, clock, left, log>>

(* _handle_membership_change: the leader drops the debounce task it has    *)
(* and starts a new one.                                                   *)
HandleMembershipChange(i) ==
  /\ mwatch[i] /\ sess[i] = "live"
  /\ mwatch' = [mwatch EXCEPT ![i] = FALSE]
  /\ LET old == OfKind(i, "debounce")
     IN  jobs' = IF isLeader[i]
                   THEN [jobs EXCEPT ![i] = (@ \ old) \cup Ghosts(old)
                                       \cup {NewJob("debounce", "sleep", {})}]
                   ELSE jobs
  /\ UNCHANGED <<zkVars, lifeVars, dwatch, applyVars, leadVars, attempt,
                 unhealthy, clock, left, log>>

-----------------------------------------------------------------------------
(* The leader.                                                             *)

(* Mutant: the epoch counts the wins of this process.                      *)
BecomeLeaderOwnCount(i) ==
  /\ leader = NoOne /\ sess[i] = "live" /\ boot[i] = "run"
  /\ leader' = i
  /\ epochNode' = epoch[i] + 1
  /\ epoch' = [epoch EXCEPT ![i] = epoch[i] + 1]
  /\ isLeader' = [isLeader EXCEPT ![i] = TRUE]
  /\ jobs' = [jobs EXCEPT ![i] = @ \cup {NewJob("become", "list", {})}]
  /\ UNCHANGED <<members, node, lifeVars, watchVars, applyVars, attempt,
                 unhealthy, clock, left, log>>

(* _on_become_leader_sync: bump the persistent epoch, become leader and    *)
(* schedule on_become_leader.                                              *)
BecomeLeader(i) ==
  /\ leader = NoOne /\ sess[i] = "live" /\ boot[i] = "run"
  /\ leader' = i
  /\ epochNode' = epochNode + 1
  /\ epoch' = [epoch EXCEPT ![i] = epochNode + 1]
  /\ isLeader' = [isLeader EXCEPT ![i] = TRUE]
  /\ jobs' = [jobs EXCEPT ![i] = @ \cup {NewJob("become", "list", {})}]
  /\ UNCHANGED <<members, node, lifeVars, watchVars, applyVars, attempt,
                 unhealthy, clock, left, log>>

jobFrame == <<lifeVars, watchVars, applyVars, leadVars>>

(* Who still leads after the sleep goes on: _debounced_redistribute lists  *)
(* the members anew, _retry_redistribute keeps the list that failed.       *)
AfterSleep(i, j) ==
  IF ~isLeader[i] THEN {}
  ELSE {[j EXCEPT !.pc = IF j.kind = "retry" THEN "mongo" ELSE "list"]}

(* The sleep of a debounce or retry task is over.  Nothing in the code     *)
(* keeps a sleep from ending while another redistribution of this instance *)
(* is under way; Prompt assumes it for runs that need the timing.          *)
Wake(i, j) ==
  /\ j.pc = "sleep"
  /\ Prompt => \A x \in jobs[i] : x.pc = "sleep"
  /\ jobs' = [jobs EXCEPT ![i] = (@ \ {j}) \cup AfterSleep(i, j)]
  /\ UNCHANGED <<zkVars, jobFrame, attempt, unhealthy, clock, left, log>>

(* get_children(members) in on_become_leader and _debounced_redistribute.  *)
ListMembers(i, j) ==
  /\ j.pc = "list" /\ sess[i] = "live"
  /\ jobs' = [jobs EXCEPT ![i] = (@ \ {j}) \cup
                {[j EXCEPT !.pc = "mongo", !.insts = members]}]
  /\ UNCHANGED <<zkVars, jobFrame, attempt, unhealthy, clock, left, log>>

(* The same call raises: the coroutine ends, and nobody looks at its       *)
(* exception.                                                              *)
ListMembersFails(i, j) ==
  /\ j.pc = "list"
  /\ \/ sess[i] # "live" /\ left' = left
     \/ /\ sess[i] = "live" /\ left.list > 0
        /\ left' = [left EXCEPT !.list = @ - 1]
  /\ jobs' = [jobs EXCEPT ![i] = @ \ {j}]
  /\ UNCHANGED <<zkVars, jobFrame, attempt, unhealthy, clock, log>>

(* Mutant: assigned_at in a coarse unit, equal for two transactions.       *)
BuildCoarseTime(i, j) ==
  /\ j.pc = "mongo" /\ clock[i] < MaxClock
  /\ node' = IF sess[i] # "live" THEN node
             ELSE [k \in Inst |->
                     IF k \in j.insts /\ node[k].st = "absent" THEN Empty
                     ELSE node[k]]
  /\ clock' = [clock EXCEPT ![i] = @ + 1]
  /\ jobs' = [jobs EXCEPT ![i] = (@ \ {j}) \cup
                {[j EXCEPT !.pc = "commit", !.ep = epoch[i], !.ts = 1]}]
  /\ UNCHANGED <<members, leader, epochNode, jobFrame, attempt, unhealthy,
                 left, log>>

(* get_distinct_processes answers, ensure_path runs for every assignment   *)
(* node (a failure is only logged) and the transaction is built: stamped   *)
(* with the leader's epoch and the time.  The process table does not       *)
(* change, so the moment Mongo is read does not matter.                    *)
BuildTransaction(i, j) ==
  /\ j.pc = "mongo" /\ clock[i] < MaxClock
  /\ node' = IF sess[i] # "live" THEN node
             ELSE [k \in Inst |->
                     IF k \in j.insts /\ node[k].st = "absent" THEN Empty
                     ELSE node[k]]
  /\ clock' = [clock EXCEPT ![i] = @ + 1]
  /\ jobs' = [jobs EXCEPT ![i] = (@ \ {j}) \cup
                {[j EXCEPT !.pc = "commit", !.ep = epoch[i],
                           !.ts = clock[i] + 1]}]
  /\ UNCHANGED <<members, leader, epochNode, jobFrame, attempt, unhealthy,
                 left, log>>

(* The coroutines left when j ends and the retry task is cancelled.        *)
RetryCancelled(i, j) ==
  LET retries == OfKind(i, "retry")
  IN  (jobs[i] \ (retries \cup {j})) \cup Ghosts(retries \ {j})

(* Mutant: a pending retry task, the running one included, is left to it.  *)
FailedNoReschedule(i, j) ==
  LET retries == OfKind(i, "retry")
      again == [j EXCEPT !.kind = "retry", !.pc = "sleep", !.ep = 0, !.ts = 0]
  IN  IF j.kind = "ghost"
        THEN /\ jobs' = [jobs EXCEPT ![i] = @ \ {j}]
             /\ UNCHANGED <<attempt, unhealthy>>
        ELSE /\ attempt' = [attempt EXCEPT ![i] = @ + 1]
             /\ jobs' = [jobs EXCEPT ![i] = (@ \ {j}) \cup
                           IF retries = {} /\ attempt[i] + 1 < MaxAttempts
                             THEN {again} ELSE {}]
             /\ unhealthy' = [unhealthy EXCEPT ![i] =
                                @ \/ attempt[i] + 1 >= MaxAttempts]

(* The failure path of _do_redistribute: count, then schedule a retry with *)
(* the same member list or, at the limit, give up.                         *)
Failed(i, j) ==
  LET again == [j EXCEPT !.kind = "retry", !.pc = "sleep", !.ep = 0, !.ts = 0]
  IN  IF j.kind = "ghost"
        THEN /\ jobs' = [jobs EXCEPT ![i] = @ \ {j}]
             /\ UNCHANGED <<attempt, unhealthy>>
        ELSE /\ attempt' = [attempt EXCEPT ![i] = @ + 1]
             /\ IF attempt[i] + 1 < MaxAttempts
                  THEN /\ jobs' = [jobs EXCEPT ![i] =
                                     RetryCancelled(i, j) \cup {again}]
                       /\ UNCHANGED unhealthy
                  ELSE /\ jobs' = [jobs EXCEPT ![i] = @ \ {j}]
                       /\ unhealthy' = [unhealthy EXCEPT ![i] = TRUE]

(* MongoUnavailableError, or a transaction that ZooKeeper refuses.         *)
RedistributeFails(i, j) ==
  /\ j.pc \in {"mongo", "commit"}
  /\ left.fail > 0
  /\ left' = [left EXCEPT !.fail = @ - 1]
  /\ Failed(i, j)
  /\ UNCHANGED <<zkVars, jobFrame, clock, log>>

(* The transaction cannot succeed: no session, or an assignment node that  *)
(* does not exist.                                                         *)
CommitImpossible(i, j) ==
  /\ j.pc = "commit"
  /\ sess[i] # "live" \/ \E k \in j.insts : node[k].st = "absent"
  /\ Failed(i, j)
  /\ UNCHANGED <<zkVars, jobFrame, clock, left, log>>

(* What the transaction writes to k's node.                                *)
Payload(j, k) == [st |-> "data", ep |-> j.ep, ts |-> j.ts,
                  procs |-> ComputeAssignments(j.insts, Proc)[k]]

(* Mutant: a success resets the counter and not the readiness flag.        *)
SucceededStaysUnhealthy(i, j) ==
  LET next == IF j.kind \in {"ghost", "retry"} THEN {}
              ELSE {[j EXCEPT !.pc = "gc"]}
  IN  /\ jobs' = [jobs EXCEPT ![i] = RetryCancelled(i, j) \cup next]
      /\ attempt' = [attempt EXCEPT ![i] = IF j.kind = "ghost" THEN @ ELSE 0]
      /\ UNCHANGED unhealthy

(* The success path clears the retry state and cancels the retry task.     *)
(* When the running coroutine is that retry task it cancels itself, and    *)
(* its next await, in _cleanup_orphan_assignments, raises.                 *)
Succeeded(i, j) ==
  LET next == IF j.kind = "retry" THEN {} ELSE {[j EXCEPT !.pc = "gc"]}
  IN  IF j.kind = "ghost"
        THEN /\ jobs' = [jobs EXCEPT ![i] = @ \ {j}]
             /\ UNCHANGED <<attempt, unhealthy>>
        ELSE /\ attempt' = [attempt EXCEPT ![i] = 0]
             /\ unhealthy' = [unhealthy EXCEPT ![i] = FALSE]
             /\ jobs' = [jobs EXCEPT ![i] = RetryCancelled(i, j) \cup next]

(* transaction.commit: every listed node gets its part, atomically.        *)
CommitAssignments(i, j) ==
  /\ j.pc = "commit" /\ sess[i] = "live"
  /\ \A k \in j.insts : node[k].st # "absent"
  /\ node' = [k \in Inst |-> IF k \in j.insts THEN Payload(j, k) ELSE node[k]]
  /\ dwatch' = [k \in Inst |-> dwatch[k] \/ (k \in j.insts /\ Watching(k))]
  /\ log' = log \cup {[ep |-> j.ep, ts |-> j.ts, insts |-> j.insts, by |-> i]}
  /\ Succeeded(i, j)
  /\ UNCHANGED <<members, leader, epochNode, lifeVars, mwatch, applyVars,
                 leadVars, clock, left>>

(* _cleanup_orphan_assignments: delete the nodes of everybody who was not  *)
(* in the list; without a session it only logs.                            *)
CleanupOrphans(i, j) ==
  /\ j.pc = "gc"
  /\ LET orphans == {k \in Inst : node[k].st # "absent" /\ k \notin j.insts}
     IN  IF sess[i] = "live"
           THEN /\ node' = [k \in Inst |->
                              IF k \in orphans THEN Absent ELSE node[k]]
                /\ dwatch' = [k \in Inst |->
                                dwatch[k] \/ (k \in orphans /\ Watching(k))]
           ELSE UNCHANGED <<node, dwatch>>
  /\ jobs' = [jobs EXCEPT ![i] = @ \ {j}]
  /\ UNCHANGED <<members, leader, epochNode, lifeVars, mwatch, applyVars,
                 leadVars, attempt, unhealthy, clock, left, log>>

-----------------------------------------------------------------------------
Lifecycle(i) ==
  \/ Boot(i) \/ RegisterMember(i) \/ RegisterWatches(i) \/ RefreshRead(i)
  \/ RefreshApply(i) \/ StartElection(i)
  \/ Stop(i) \/ Crash(i) \/ ExpireDead(i) \/ ExpireLive(i)
  \/ OnLost(i) \/ OnConnected(i)

JobStep(i, j) ==
  \/ Wake(i, j) \/ ListMembers(i, j) \/ ListMembersFails(i, j)
  \/ BuildTransaction(i, j) \/ RedistributeFails(i, j)
  \/ CommitImpossible(i, j) \/ CommitAssignments(i, j) \/ CleanupOrphans(i, j)

Next ==
  \E i \in Inst :
     \/ Lifecycle(i)
     \/ OnAssignmentChanged(i) \/ HandleMembershipChange(i)
     \/ BecomeLeader(i)
     \/ \E j \in jobs[i] : JobStep(i, j)

Spec == Init /\ [][Next]_vars

(* The event loop runs every ready coroutine and delivers every event, and *)
(* ZooKeeper expires every abandoned session.                              *)
Progress(i) ==
  \/ RegisterMember(i) \/ RegisterWatches(i) \/ RefreshRead(i)
  \/ RefreshApply(i) \/ StartElection(i)
  \/ ExpireDead(i) \/ OnLost(i) \/ OnConnected(i)

Fairness ==
  \A i \in Inst :
     /\ WF_vars(Progress(i))
     /\ WF_vars(OnAssignmentChanged(i))
     /\ WF_vars(HandleMembershipChange(i))
     /\ WF_vars(BecomeLeader(i))
     /\ WF_vars(\E j \in jobs[i] : JobStep(i, j))

FairSpec == Spec /\ Fairness

-----------------------------------------------------------------------------
(* Properties.                                                             *)

Running(i) == sess[i] = "live" /\ boot[i] = "run"

(* Two instances that follow the same transaction (equal epoch and         *)
(* assigned_at) never analyse the same process, however many leaders,      *)
(* zombie leaders, retries and reordered watch events there were:          *)
(* _compute_assignments, the atomic multi set_data and the stale defence   *)
(* of _apply_assignment together.                                          *)
SameStampDisjoint ==
  \A i, k \in Inst :
     i # k /\ known[i] = known[k] /\ known[i] # NoStamp
       => assigned[i] \cap assigned[k] = {}

(* The transactions i has built and not yet committed.                     *)
Pending(i) ==
  {[ep |-> j.ep, ts |-> j.ts, insts |-> j.insts, by |-> i] :
     j \in {x \in jobs[i] : x.pc = "commit"}}

Transactions == log \cup UNION {Pending(i) : i \in Inst}

(* An epoch belongs to one leadership, and within it the clock of that     *)
(* leader tells the transactions apart: the pair (leader_epoch,            *)
(* assigned_at) names one transaction.                                     *)
StampsUnique ==
  /\ \A t \in Transactions :
        t.ep \in 1..epochNode /\ t.ts <= clock[t.by]
  /\ \A t \in Transactions, i \in Inst : epoch[i] = t.ep => t.by = i
  /\ \A t, u \in Transactions : t.ep = u.ep => t.by = u.by
  /\ \A t, u \in Transactions : t.ep = u.ep /\ t.ts = u.ts => t = u

(* z is what the committed transaction c wrote for i.                      *)
PartOf(z, c, i) ==
  /\ i \in c.insts /\ z.ep = c.ep /\ z.ts = c.ts
  /\ z.procs = ComputeAssignments(c.insts, Proc)[i]

(* Whatever an instance follows, has fetched or finds in its node is its   *)
(* own part of one committed transaction, never a mixture of two.          *)
Provenance ==
  \A i \in Inst :
     /\ \A z \in {node[i], fetched[i]} :
          z.st = "data" => \E c \in log : PartOf(z, c, i)
     /\ known[i] # NoStamp =>
          \E c \in log : PartOf([ep |-> known[i].ep, ts |-> known[i].ts,
                                 procs |-> assigned[i]], c, i)

(* Who holds the lock has the newest epoch, no two instances share one,    *)
(* and nobody redistributes without one.                                   *)
EpochsOwned ==
  /\ \A i \in Inst : epoch[i] <= epochNode
  /\ \A i, k \in Inst : i # k /\ epoch[i] = epoch[k] => epoch[i] = 0
  /\ \A i \in Inst : isLeader[i] \/ jobs[i] # {} => epoch[i] >= 1
  /\ \A i \in Inst :
       leader = i => epoch[i] = epochNode /\ sess[i] \in {"live", "dead"}

(* When every member follows the transaction that was computed for exactly *)
(* these members, every active process has one and only one owner.         *)
SettledCoverage ==
  \A c \in log :
     c.insts = members /\ members # {}
     /\ (\A i \in members : known[i] = [ep |-> c.ep, ts |-> c.ts])
       => \A p \in Proc :
            Cardinality({i \in members : p \in assigned[i]}) = 1

(* Nobody has accepted an epoch above the one of the instance that holds   *)
(* the election lock, so its assignments are never dropped as stale: what  *)
(* the persistent {root}/leader-epoch is for.                              *)
HolderEpochIsNewest ==
  \A i, k \in Inst : leader = i => known[k].ep <= epoch[i]

(* is_leader() without the lock is possible, but only until the recovery   *)
(* from the loss of the session has gone through restart_after_loss.       *)
ZombieOnlyInRecovery ==
  \A i \in Inst : isLeader[i] /\ Running(i) => leader = i

(* The leader in the sense of Election.                                    *)
Holder == {i \in Inst : leader = i /\ sess[i] = "live"}

Elect == INSTANCE Election WITH holder <- Holder

(* Between two resets (a new process, LOST) the stamp an instance follows  *)
(* only moves forward, and its assignment changes only together with it.   *)
StampMovesForward ==
  [][\A i \in Inst :
       \/ known'[i] = known[i] /\ assigned'[i] = assigned[i]
       \/ Newer(known'[i], known[i])
       \/ /\ known'[i] = NoStamp /\ assigned'[i] = {}
          /\ sess[i] \in {"none", "expired"}]_vars

(* A leader whose last _do_redistribute failed is on its way to another    *)
(* attempt or reports itself unhealthy: no silent stall.                   *)
NoSilentStall ==
  \A i \in Inst :
     leader = i /\ Running(i) /\ attempt[i] > 0
       => unhealthy[i] \/ jobs[i] # {}

(* _redistribute_unhealthy is raised at the limit and not before, and the  *)
(* next success takes it back.                                             *)
UnhealthyMeansExhausted ==
  \A i \in Inst : unhealthy[i] <=> attempt[i] >= MaxAttempts

(* Every process is analysed by exactly one running instance.              *)
Owned ==
  (\E i \in Inst : Running(i)) =>
     \A p \in Proc : Cardinality({i \in Inst : Running(i) /\ p \in assigned[i]}) = 1

(* Once pods stop coming and going, every process ends up with exactly one *)
(* owner: joins, departures, leader changes and crashes are all            *)
(* redistributed.                                                          *)
EventuallyOwned == <>[]Owned

(* The orphan clean-up is housekeeping: no running member is left without  *)
(* the assignment node it watches.                                         *)
MembersKeepNodes ==
  <>[](\A i \in Inst : Running(i) /\ i \in members => node[i].st # "absent")

(* The readiness flag speaks of a leader: an instance that does not lead   *)
(* has nothing to redistribute and does not report itself unhealthy.       *)
UnhealthyOnlyAsLeader == \A i \in Inst : unhealthy[i] => isLeader[i]

(* The assignment nodes of departed pods do not accumulate: every          *)
(* successful redistribution ends with their removal.                      *)
OrphansAreCollected ==
  <>[](\A k \in Inst : node[k].st # "absent" =>
         k \in members \/ leader = NoOne)

(* A leader that holds the lock and has nothing left to do has written a   *)
(* transaction of its epoch for exactly the members there are, or reports  *)
(* itself unhealthy.                                                       *)
NoUnreportedStall ==
  \A i \in Inst :
     leader = i /\ Running(i) /\ jobs[i] = {} /\ ~mwatch[i] =>
       unhealthy[i] \/ \E c \in log :
                         c.by = i /\ c.ep = epoch[i] /\ c.insts = members

=============================================================================
