-------------------------- MODULE SessionRecovery ---------------------------
(***************************************************************************)
(* Life and loss of ZooKeeper sessions below PartitionManager: who owns    *)
(* the ephemeral member node and the election lock, the CONNECTED handlers *)
(* that recover from a loss, and LeaderElection as the thread it really    *)
(* is.  PartitionManager takes winning the election and recovering for one *)
(* step each; here their steps interleave with each other, with further    *)
(* losses, with crashes and with failing calls.                            *)
(***************************************************************************)
EXTENDS Naturals, Sequences

CONSTANTS
  Inst,        \* instance ids (host names)
  NoLock,      \* nobody holds the election lock
  Slow,        \* the epoch calls of the election may take more than 5 s
  Hasty,       \* a container restarts before its old session has expired
  MaxSession,  \* bound: sessions of one instance
  MaxExpire,   \* bound: sessions of running pods that expire
  MaxDown,     \* bound: crashes and graceful stops
  MaxFail      \* bound: calls that fail though connected

ASSUME RecoveryAssumption ==
  /\ Slow \in BOOLEAN /\ Hasty \in BOOLEAN
  /\ MaxSession \in Nat \ {0} /\ NoLock \notin Inst \X (0..MaxSession)
  /\ MaxExpire \in Nat /\ MaxDown \in Nat /\ MaxFail \in Nat

VARIABLES
  member,   \* ZooKeeper: session that owns {root}/members/<i>, 0 if absent
  lock,     \* ZooKeeper: <<instance, session>> first in the election, or NoLock
  epochNode,\* ZooKeeper: value of {root}/leader-epoch
  stale,    \* ZooKeeper: sessions of crashed processes it has not expired yet
  conn,     \* the client: off, up, expired (not told yet), lost (told)
  gen,      \* number of the client's session
  lostFlag, \* PartitionManager._session_lost
  recs,     \* start() or CONNECTED handlers under way, by their next await
  whole,    \* history: session whose set-up ran to its end, 0 after a failure
  dropped,  \* history: session in which a call of the run failed, 0 if none
  thread,   \* the election thread: its place in Election.run
  epochRead,\* `current` of _on_become_leader_sync
  queued,   \* runs waiting for the election thread
  stopEv,   \* _stop_event is set
  isLeader, \* LeaderElection._is_leader
  epoch,    \* LeaderElection._epoch
  left      \* what is left of the bounds

zkVars    == <<member, lock, epochNode, stale>>
connVars  == <<conn, gen, lostFlag>>
recVars   == <<recs, whole, dropped>>
electVars == <<thread, epochRead, queued, stopEv, isLeader, epoch>>
vars == <<zkVars, connVars, recVars, electVars, left>>

Session == 1..MaxSession
Handler == [at : {"member", "watch", "stop", "await", "ensure"},
            boot : BOOLEAN, gen : Session]

(* Ranges of the variables.                                                *)
TypeOK ==
  /\ member \in [Inst -> 0..MaxSession]
  /\ lock = NoLock \/ lock \in Inst \X Session
  /\ epochNode \in Nat /\ stale \subseteq Inst \X Session
  /\ conn \in [Inst -> {"off", "up", "expired", "lost"}]
  /\ gen \in [Inst -> 0..MaxSession] /\ lostFlag \in [Inst -> BOOLEAN]
  /\ recs \in [Inst -> Seq(Handler)] /\ whole \in [Inst -> 0..MaxSession]
  /\ dropped \in [Inst -> 0..MaxSession]
  /\ thread \in [Inst -> {"idle", "contend", "read", "write", "wait"}]
  /\ epochRead \in [Inst -> Nat] /\ queued \in [Inst -> Nat]
  /\ stopEv \in [Inst -> BOOLEAN] /\ isLeader \in [Inst -> BOOLEAN]
  /\ epoch \in [Inst -> Nat]
  /\ left \in [expire : 0..MaxExpire, down : 0..MaxDown, fail : 0..MaxFail]

Init ==
  /\ member = [i \in Inst |-> 0] /\ lock = NoLock /\ epochNode = 0
  /\ stale = {}
  /\ conn = [i \in Inst |-> "off"] /\ gen = [i \in Inst |-> 0]
  /\ lostFlag = [i \in Inst |-> FALSE]
  /\ recs = [i \in Inst |-> <<>>] /\ whole = [i \in Inst |-> 0]
  /\ dropped = [i \in Inst |-> 0]
  /\ thread = [i \in Inst |-> "idle"] /\ epochRead = [i \in Inst |-> 0]
  /\ queued = [i \in Inst |-> 0] /\ stopEv = [i \in Inst |-> FALSE]
  /\ isLeader = [i \in Inst |-> FALSE] /\ epoch = [i \in Inst |-> 0]
  /\ left = [expire |-> MaxExpire, down |-> MaxDown, fail |-> MaxFail]

-----------------------------------------------------------------------------
(* Sessions.                                                               *)

(* ZooKeeper ends session s of instance i and deletes what it owns.        *)
EndSession(i, s) ==
  /\ member' = [member EXCEPT ![i] = IF @ = s THEN 0 ELSE @]
  /\ lock' = IF lock = <<i, s>> THEN NoLock ELSE lock

(* The process is gone: threads, tasks and fields with it.                 *)
ProcessGone(i) ==
  /\ conn' = [conn EXCEPT ![i] = "off"]
  /\ lostFlag' = [lostFlag EXCEPT ![i] = FALSE]
  /\ recs' = [recs EXCEPT ![i] = <<>>]
  /\ thread' = [thread EXCEPT ![i] = "idle"]
  /\ queued' = [queued EXCEPT ![i] = 0]
  /\ stopEv' = [stopEv EXCEPT ![i] = FALSE]
  /\ isLeader' = [isLeader EXCEPT ![i] = FALSE]
  /\ epoch' = [epoch EXCEPT ![i] = 0]
  /\ left' = [left EXCEPT !.down = @ - 1]

(* A container starts under the host name it had before.                   *)
BootPod(i) ==
  /\ conn[i] = "off" /\ gen[i] < MaxSession
  /\ Hasty \/ \A s \in Session : <<i, s>> \notin stale
  /\ conn' = [conn EXCEPT ![i] = "up"]
  /\ gen' = [gen EXCEPT ![i] = @ + 1]
  /\ recs' = [recs EXCEPT ![i] =
                <<[at |-> "member", boot |-> TRUE, gen |-> gen[i] + 1]>>]
  /\ UNCHANGED <<zkVars, lostFlag, whole, dropped, electVars, left>>

(* LeaderElection.stop and the close of the session.                       *)
StopPod(i) ==
  /\ conn[i] = "up" /\ recs[i] = <<>> /\ left.down > 0
  /\ EndSession(i, gen[i]) /\ ProcessGone(i)
  /\ UNCHANGED <<epochNode, stale, gen, whole, dropped, epochRead>>

CrashPod(i) ==
  /\ conn[i] = "up" /\ left.down > 0
  /\ stale' = stale \cup {<<i, gen[i]>>} /\ ProcessGone(i)
  /\ UNCHANGED <<member, lock, epochNode, gen, whole, dropped, epochRead>>

(* The session timeout of a crashed process is over.                       *)
Reap(i, s) ==
  /\ <<i, s>> \in stale /\ stale' = stale \ {<<i, s>>}
  /\ EndSession(i, s)
  /\ UNCHANGED <<epochNode, connVars, recVars, electVars, left>>

(* The session of a running pod expires before the client learns of it.    *)
Expire(i) ==
  /\ conn[i] = "up" /\ left.expire > 0 /\ gen[i] < MaxSession
  /\ left' = [left EXCEPT !.expire = @ - 1]
  /\ conn' = [conn EXCEPT ![i] = "expired"]
  /\ EndSession(i, gen[i])
  /\ UNCHANGED <<epochNode, stale, gen, lostFlag, recVars, electVars>>

(* _state_listener hands LOST to on_zk_state_change.                       *)
OnLost(i) ==
  /\ conn[i] = "expired"
  /\ conn' = [conn EXCEPT ![i] = "lost"]
  /\ lostFlag' = [lostFlag EXCEPT ![i] = TRUE]
  /\ UNCHANGED <<zkVars, gen, recVars, electVars, left>>

(* CONNECTED in a new session: recovery begins if a loss is remembered.    *)
OnConnected(i) ==
  /\ conn[i] = "lost"
  /\ conn' = [conn EXCEPT ![i] = "up"]
  /\ gen' = [gen EXCEPT ![i] = @ + 1]
  /\ recs' = IF ~lostFlag[i] THEN recs
             ELSE [recs EXCEPT ![i] = Append(@,
                     [at |-> "member", boot |-> FALSE, gen |-> gen[i] + 1])]
  /\ UNCHANGED <<zkVars, lostFlag, whole, dropped, electVars, left>>

-----------------------------------------------------------------------------
(* PartitionManager.start and _reinit_after_loss.                          *)

At(i, n, at) == n \in DOMAIN recs[i] /\ recs[i][n].at = at
GoTo(i, n, at) == recs' = [recs EXCEPT ![i][n].at = at]

(* The handler returns; _session_lost is cleared whatever happened.        *)
HandlerEnds(i, n) ==
  /\ recs' = [recs EXCEPT ![i] = [k \in 1..(Len(@) - 1) |->
                                    IF k < n THEN @[k] ELSE @[k + 1]]]
  /\ lostFlag' = [lostFlag EXCEPT ![i] = recs[i][n].boot /\ @]

(* Mutant: only start registers the member.                                *)
RegisterMemberOnce(i, n) ==
  /\ At(i, n, "member") /\ conn[i] = "up"
  /\ member' = [member EXCEPT ![i] = IF recs[i][n].boot THEN gen[i] ELSE @]
  /\ GoTo(i, n, "watch")
  /\ UNCHANGED <<lock, epochNode, stale, connVars, whole, dropped, electVars, left>>

(* _register_member: an existing node is taken for the own one.            *)
RegisterMember(i, n) ==
  /\ At(i, n, "member") /\ conn[i] = "up"
  /\ member' = [member EXCEPT ![i] = IF @ = 0 THEN gen[i] ELSE @]
  /\ GoTo(i, n, "watch")
  /\ UNCHANGED <<lock, epochNode, stale, connVars, whole, dropped, electVars, left>>

(* ensure_path, _register_watches and _refresh_assignment_from_zk; start   *)
(* goes on with LeaderElection.start, which has nothing to stop.           *)
RegisterWatches(i, n) ==
  /\ At(i, n, "watch") /\ conn[i] = "up"
  /\ GoTo(i, n, IF recs[i][n].boot THEN "ensure" ELSE "stop")
  /\ UNCHANGED <<zkVars, connVars, whole, dropped, electVars, left>>

(* Mutant: restart_after_loss does not wait for the old run.               *)
RestartDoesNotWait(i, n) ==
  /\ At(i, n, "stop")
  /\ stopEv' = [stopEv EXCEPT ![i] = TRUE]
  /\ GoTo(i, n, "ensure")
  /\ UNCHANGED <<zkVars, connVars, whole, dropped, thread, epochRead, queued, isLeader,
                 epoch, left>>

(* restart_after_loss up to the wait for the old run.                      *)
RestartSetsStop(i, n) ==
  /\ At(i, n, "stop")
  /\ stopEv' = [stopEv EXCEPT ![i] = TRUE]
  /\ GoTo(i, n, "await")
  /\ UNCHANGED <<zkVars, connVars, whole, dropped, thread, epochRead, queued, isLeader,
                 epoch, left>>

(* Mutant: the cancelled run is counted off although it is in progress.    *)
RestartAwaitsCancels(i, n) ==
  /\ At(i, n, "await")
  /\ \/ thread[i] = "idle" /\ queued[i] = 0
     \/ thread[i] = "contend" \/ Slow \/ conn[i] # "up"
  /\ queued' = [queued EXCEPT ![i] = @ - 1]
  /\ isLeader' = [isLeader EXCEPT ![i] = FALSE]
  /\ GoTo(i, n, "ensure")
  /\ UNCHANGED <<zkVars, connVars, whole, dropped, thread, epochRead, stopEv, epoch, left>>

(* The old run has ended, or five seconds are over: then a run that did    *)
(* not start yet is cancelled with its future.                             *)
RestartAwaits(i, n) ==
  /\ At(i, n, "await")
  /\ \/ thread[i] = "idle" /\ queued[i] = 0
     \/ thread[i] = "contend" \/ Slow \/ conn[i] # "up"
  /\ queued' = [queued EXCEPT ![i] = IF @ > 0 THEN @ - 1 ELSE 0]
  /\ isLeader' = [isLeader EXCEPT ![i] = FALSE]
  /\ GoTo(i, n, "ensure")
  /\ UNCHANGED <<zkVars, connVars, whole, dropped, thread, epochRead, stopEv, epoch, left>>

(* Mutant: the stop event stays set for the next run.                      *)
StartElectionKeepsStop(i, n) ==
  /\ At(i, n, "ensure") /\ conn[i] = "up"
  /\ queued' = [queued EXCEPT ![i] = @ + 1]
  /\ HandlerEnds(i, n)
  /\ whole' = [whole EXCEPT ![i] = recs[i][n].gen]
  /\ UNCHANGED <<zkVars, conn, gen, dropped, thread, epochRead, stopEv, isLeader,
                 epoch, left>>

(* ensure_path of the epoch node and _start_election_run.                  *)
StartElectionRun(i, n) ==
  /\ At(i, n, "ensure") /\ conn[i] = "up"
  /\ stopEv' = [stopEv EXCEPT ![i] = FALSE]
  /\ queued' = [queued EXCEPT ![i] = @ + 1]
  /\ HandlerEnds(i, n)
  /\ whole' = [whole EXCEPT ![i] = recs[i][n].gen]
  /\ UNCHANGED <<zkVars, conn, gen, dropped, thread, epochRead, isLeader, epoch,
                 left>>

(* A call of _reinit_after_loss raises: the error is logged, the rest of   *)
(* the recovery left out.                                                  *)
RecoveryFails(i, n) ==
  /\ n \in DOMAIN recs[i] /\ ~recs[i][n].boot
  /\ recs[i][n].at \in {"member", "watch", "ensure"}
  /\ \/ conn[i] # "up" /\ left' = left
     \/ /\ conn[i] = "up" /\ left.fail > 0
        /\ left' = [left EXCEPT !.fail = @ - 1]
  /\ HandlerEnds(i, n)
  /\ whole' = [whole EXCEPT ![i] = 0]
  /\ UNCHANGED <<zkVars, conn, gen, dropped, electVars>>

-----------------------------------------------------------------------------
(* The election thread.                                                    *)

BeginRun(i) ==
  /\ thread[i] = "idle" /\ queued[i] > 0
  /\ thread' = [thread EXCEPT ![i] = "contend"]
  /\ queued' = [queued EXCEPT ![i] = @ - 1]
  /\ UNCHANGED <<zkVars, connVars, recVars, epochRead, stopEv, isLeader, epoch,
                 left>>

(* kazoo's lock: it goes on contending in the session the client has now,  *)
(* or gives up while there is none.                                        *)
Win(i) ==
  /\ thread[i] = "contend" /\ conn[i] = "up" /\ lock = NoLock
  /\ lock' = <<i, gen[i]>>
  /\ thread' = [thread EXCEPT ![i] = "read"]
  /\ UNCHANGED <<member, epochNode, stale, connVars, recVars, epochRead, queued,
                 stopEv, isLeader, epoch, left>>

(* The callback leaves and Election.run with it; nothing starts another    *)
(* run before the next recovery.                                           *)
LeaveRun(i) ==
  /\ thread' = [thread EXCEPT ![i] = "idle"]
  /\ isLeader' = [isLeader EXCEPT ![i] = FALSE]
  /\ UNCHANGED <<member, stale, connVars, recs, whole, epochRead, queued, stopEv,
                 epoch>>

(* Election.run releases the lock, if the session still has it.            *)
FreeLock(i) ==
  lock' = IF lock = <<i, gen[i]>> /\ conn[i] = "up" THEN NoLock ELSE lock

(* ZooKeeper does not answer a call of the run in a session that survives. *)
CallFails(i) ==
  /\ conn[i] = "up" /\ left.fail > 0
  /\ left' = [left EXCEPT !.fail = @ - 1]
  /\ dropped' = [dropped EXCEPT ![i] = gen[i]]

GiveUp(i) ==
  /\ thread[i] = "contend" /\ conn[i] # "up" /\ LeaveRun(i)
  /\ UNCHANGED <<lock, epochNode, dropped, left>>

ReadEpoch(i) ==
  /\ thread[i] = "read" /\ conn[i] = "up"
  /\ epochRead' = [epochRead EXCEPT ![i] = epochNode]
  /\ thread' = [thread EXCEPT ![i] = "write"]
  /\ UNCHANGED <<zkVars, connVars, recVars, queued, stopEv, isLeader, epoch, left>>

(* The write is not conditional on the version that was read; it also      *)
(* succeeds in a later session than the read.                              *)
WriteEpoch(i) ==
  /\ thread[i] = "write" /\ conn[i] = "up"
  /\ epochNode' = epochRead[i] + 1
  /\ epoch' = [epoch EXCEPT ![i] = epochRead[i] + 1]
  /\ isLeader' = [isLeader EXCEPT ![i] = TRUE]
  /\ thread' = [thread EXCEPT ![i] = "wait"]
  /\ UNCHANGED <<member, lock, stale, connVars, recVars, epochRead, queued,
                 stopEv, left>>

(* The read or the write of the epoch raises: without a session, or in one *)
(* that survives.  A write that raised may have been done, and the release *)
(* of the lock may fail in the same outage.                                *)
EpochCallFails(i) ==
  /\ thread[i] \in {"read", "write"} /\ LeaveRun(i)
  /\ \/ conn[i] # "up" /\ UNCHANGED <<lock, epochNode, dropped, left>>
     \/ /\ CallFails(i)
        /\ FreeLock(i) \/ UNCHANGED lock
        /\ \/ UNCHANGED epochNode
           \/ thread[i] = "write" /\ epochNode' = epochRead[i] + 1

(* stop_event ends the wait; the release of the lock may give up.          *)
StopWaiting(i) ==
  /\ thread[i] = "wait" /\ stopEv[i] /\ LeaveRun(i)
  /\ \/ FreeLock(i) /\ UNCHANGED <<dropped, left>>
     \/ CallFails(i) /\ UNCHANGED lock
  /\ UNCHANGED epochNode

-----------------------------------------------------------------------------
ThreadStep(i) ==
  \/ BeginRun(i) \/ Win(i) \/ GiveUp(i) \/ ReadEpoch(i) \/ WriteEpoch(i)
  \/ EpochCallFails(i) \/ StopWaiting(i)

HandlerStep(i, n) ==
  \/ RegisterMember(i, n) \/ RegisterWatches(i, n) \/ RestartSetsStop(i, n)
  \/ RestartAwaits(i, n) \/ StartElectionRun(i, n)

Next == \E i \in Inst :
  \/ BootPod(i) \/ StopPod(i) \/ CrashPod(i) \/ Expire(i)
  \/ OnLost(i) \/ OnConnected(i)
  \/ \E s \in Session : Reap(i, s)
  \/ \E n \in DOMAIN recs[i] : HandlerStep(i, n) \/ RecoveryFails(i, n)
  \/ ThreadStep(i)

(* Threads run, the loop runs its coroutines, kazoo reports what happened  *)
(* to the session and ZooKeeper expires dead ones.                         *)
Fairness ==
  \A i \in Inst :
    /\ WF_vars(ThreadStep(i)) /\ WF_vars(OnLost(i)) /\ WF_vars(OnConnected(i))
    /\ WF_vars(\E n \in DOMAIN recs[i] : HandlerStep(i, n) \/ RecoveryFails(i, n))
    /\ WF_vars(\E s \in Session : Reap(i, s))

Spec == Init /\ [][Next]_vars
FairSpec == Spec /\ Fairness

-----------------------------------------------------------------------------
(* Properties.                                                             *)

(* The set-up for the session the client has now ran from end to end,      *)
(* nothing of it is under way and no other recovery failed since.          *)
SetUp(i) == conn[i] = "up" /\ recs[i] = <<>> /\ whole[i] = gen[i]

(* partition_manager.py:163: a start or a recovery that came to its end    *)
(* has put the instance among the members, whatever other losses and       *)
(* recoveries it met.  The node of an earlier session that _register_member*)
(* finds is "harmless" (partition_manager.py:194).                         *)
RecoveredIsMember ==
  \A i \in Inst : SetUp(i) /\ stale = {} => member[i] = gen[i]

(* leader_election.py:103: leadership of a lost session does not survive   *)
(* the recovery; who is set up and leads holds the lock.                   *)
RecoveredLeaderHoldsLock ==
  \A i \in Inst : SetUp(i) /\ isLeader[i] => lock = <<i, gen[i]>>

(* A call of the run failed in the session the client has now.             *)
Dropped(i) == dropped[i] = gen[i]

(* leader_election.py:81: after a recovery the pod takes part in the       *)
(* election again: a run is queued or the thread is in one, until a call   *)
(* of the run fails in a session that survives.  Then                      *)
(* leader_election.py:168 ends the run and only the loss of the session    *)
(* starts another.                                                         *)
RecoveredContends ==
  \A i \in Inst :
     SetUp(i) => queued[i] > 0 \/ thread[i] # "idle" \/ Dropped(i)

(* Once every pod is set up for good, one of them leads.  The two ways in  *)
(* which a cluster of pods that are all set up has no leader are that      *)
(* every pod dropped out of the election, and that one that dropped out    *)
(* left its node in front of the others.                                   *)
SomeoneLeads ==
  <>[](\A i \in Inst : SetUp(i))
    => <>[](\/ \E i \in Inst : isLeader[i] /\ lock = <<i, gen[i]>>
            \/ \E i \in Inst : Dropped(i) /\ lock = <<i, gen[i]>>
            \/ \A i \in Inst : Dropped(i))

(* Without the exceptions, what the code does not guarantee: a pod that is *)
(* set up contends, and pods that are set up have a leader.                *)
AlwaysContends ==
  \A i \in Inst : SetUp(i) => queued[i] > 0 \/ thread[i] # "idle"
AlwaysLed ==
  <>[](\A i \in Inst : SetUp(i))
    => <>[](\E i \in Inst : isLeader[i] /\ lock = <<i, gen[i]>>)

(* The leader in the sense of Election: the election thread is past the    *)
(* bump of the epoch, in the session that has the lock.                    *)
Holder == {i \in Inst :
             conn[i] = "up" /\ lock = <<i, gen[i]>> /\ thread[i] = "wait"}

Elect == INSTANCE Election WITH holder <- Holder

(* A step at which no election thread stands between the lock and the      *)
(* write of the epoch when its client gets a new session: what             *)
(* leader_election.py:145 relies on and nothing enforces.                  *)
BumpEndsWithSession ==
  \A i \in Inst : thread[i] \in {"read", "write"} => ~OnConnected(i)

(* ARCHITECTURE.md:257: a change of leader never takes the epoch back.     *)
EpochNeverFalls == [][epochNode' >= epochNode]_epochNode
=============================================================================
