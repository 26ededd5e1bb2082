-------------------------------- MODULE Pod ---------------------------------
(***************************************************************************)
(* One pod from start to exit: the lifespan of main.py with its rollback,  *)
(* the clients it opens, the ZooKeeper events that reach the scheduler and *)
(* the scheduler itself.  How assignments come about is PartitionManager's *)
(* subject, the recovery from a lost session SessionRecovery's.            *)
(***************************************************************************)
EXTENDS AnalysisScheduler, Functions

CONSTANTS
  MaxTries,  \* attempts of connect_with_retry
  MaxFlap    \* bound: connection losses

ASSUME PodAssumption ==
  MaxTries \in Nat \ {0} /\ MaxFlap \in Nat

VARIABLES
  phase,     \* the step of lifespan that comes next
  open,      \* clients of InfraContext that are populated
  tries,     \* attempt of connect_with_retry
  zk,        \* the connection, as the state handlers were told
  lost,      \* PartitionManager._session_lost
  recover,   \* CONNECTED handlers inside _reinit_after_loss
  assigned,  \* PartitionManager._assigned_processes
  flaps      \* what is left of MaxFlap

podVars == <<phase, open, tries, zk, lost, recover, assigned, flaps>>
vars == <<schedVars, podVars>>

Clients == <<"es", "mongo", "redis", "email", "zk">>
Boot == <<"es", "mongo", "redis", "email", "zk", "repos", "wire", "members",
          "elect", "start", "serve">>
Ends == {"shut", "stop", "drain", "leave", "close", "exited"}

PodTypeOK ==
  /\ phase \in Range(Boot) \cup Ends
  /\ open \subseteq Range(Clients) /\ tries \in 1..MaxTries
  /\ zk \in {"off", "connected", "suspended", "lost"}
  /\ lost \in BOOLEAN /\ recover \in 0..MaxFlap
  /\ assigned \subseteq Process
  /\ flaps \in 0..MaxFlap

(* Ranges of the variables of the pod and its scheduler.                   *)
TypeOK == SchedTypeOK /\ PodTypeOK

Init ==
  /\ SchedInit
  /\ phase = "es" /\ open = {} /\ tries = 1 /\ zk = "off"
  /\ lost = FALSE /\ recover = 0 /\ assigned = {}
  /\ flaps = MaxFlap

-----------------------------------------------------------------------------
(* lifespan up to yield.                                                   *)

(* A debug instance connects neither to ZooKeeper nor starts what uses it. *)
Skipped(ph) == debug /\ ph \in {"zk", "members", "elect"}
After(ph) ==
  LET n == CHOOSE k \in DOMAIN Boot : Boot[k] = ph
      next == {k \in DOMAIN Boot : k > n /\ ~Skipped(Boot[k])}
  IN  Boot[CHOOSE k \in next : \A x \in next : k <= x]

(* init_infra: one client answers.                                         *)
Connect ==
  /\ phase \in Range(Clients)
  /\ open' = open \cup {phase} /\ tries' = 1
  /\ zk' = IF phase = "zk" THEN "connected" ELSE zk
  /\ phase' = After(phase)
  /\ UNCHANGED <<schedVars, lost, recover, assigned, flaps>>

(* Mutant: one attempt too many.                                           *)
ConnectRetryOnceMore ==
  /\ phase \in {"mongo", "redis"} /\ tries <= MaxTries
  /\ tries' = tries + 1
  /\ UNCHANGED <<schedVars, phase, open, zk, lost, recover, assigned, flaps>>

(* MongoClient and RedisClient try again.                                  *)
ConnectRetry ==
  /\ phase \in {"mongo", "redis"} /\ tries < MaxTries
  /\ tries' = tries + 1
  /\ UNCHANGED <<schedVars, phase, open, zk, lost, recover, assigned, flaps>>

(* The client does not answer.  ES, email and ZooKeeper keep the object    *)
(* whose first call failed; MongoClient and RedisClient keep it only once  *)
(* it answered, and give up after MaxTries.  A debug instance does not     *)
(* probe the email server.                                                 *)
EsUnreachable == phase = "es" /\ open' = open \cup {"es"}
RetriesExhausted ==
  phase \in {"mongo", "redis"} /\ tries = MaxTries /\ open' = open
EmailUnreachable == phase = "email" /\ ~debug /\ open' = open \cup {"email"}
ZkUnreachable == phase = "zk" /\ open' = open \cup {"zk"}

(* Mutant: a client that failed its first ping is not rolled back.         *)
ConnectFailsForgets ==
  /\ \/ EsUnreachable \/ RetriesExhausted \/ EmailUnreachable \/ ZkUnreachable
  /\ phase' = IF open = {} THEN "exited" ELSE "close"
  /\ UNCHANGED <<schedVars, tries, zk, lost, recover, assigned, flaps>>

(* init_infra closes what it has.                                          *)
ConnectFails ==
  /\ \/ EsUnreachable \/ RetriesExhausted \/ EmailUnreachable \/ ZkUnreachable
  /\ phase' = "close"
  /\ UNCHANGED <<schedVars, tries, zk, lost, recover, assigned, flaps>>

(* verify_versions, init_repos, init_distributed, init_scheduler, the part *)
(* of PartitionManager.start that joins, LeaderElection.start.             *)
BootStep ==
  /\ phase \in {"repos", "wire", "members", "elect"}
  /\ phase' = After(phase)
  /\ UNCHANGED <<schedVars, open, tries, zk, lost, recover, assigned, flaps>>

(* A call of that step raises.  app.state.scheduler exists once "wire" is  *)
(* done, and with it the teardown of the scheduler.                        *)
BootStepFails ==
  /\ phase \in {"repos", "members", "elect"}
  /\ phase = "repos" => ~debug
  /\ phase' = IF phase = "repos" THEN "close" ELSE "shut"
  /\ UNCHANGED <<schedVars, open, tries, zk, lost, recover, assigned, flaps>>

StartScheduler ==
  /\ phase = "start" /\ Start
  /\ phase' = "serve"
  /\ UNCHANGED <<open, tries, zk, lost, recover, assigned, flaps>>

-----------------------------------------------------------------------------
(* lifespan after yield.                                                   *)

(* SIGTERM; shutdown cancels the reconcile loop and awaits it.             *)
Terminate ==
  /\ phase \in {"serve", "shut"} /\ ShutdownBegin
  /\ phase' = "stop"
  /\ UNCHANGED <<open, tries, zk, lost, recover, assigned, flaps>>

StopScheduler ==
  /\ phase = "stop" /\ ShutdownScheduler
  /\ phase' = "drain"
  /\ UNCHANGED <<open, tries, zk, lost, recover, assigned, flaps>>

Drain ==
  /\ phase = "drain" /\ ShutdownDrain
  /\ phase' = "leave"
  /\ UNCHANGED <<open, tries, zk, lost, recover, assigned, flaps>>

(* PartitionManager.stop and LeaderElection.stop.                          *)
Leave ==
  /\ phase = "leave" /\ phase' = "close"
  /\ UNCHANGED <<schedVars, open, tries, zk, lost, recover, assigned, flaps>>

(* close_partial walks the clients against the order of init_infra.        *)
LastOpened == CHOOSE n \in DOMAIN Clients : Clients[n] \in open
                /\ \A k \in DOMAIN Clients : Clients[k] \in open => k <= n

(* Closing the ZooKeeper client makes kazoo report LOST.                   *)
CloseClient ==
  /\ phase = "close" /\ open # {}
  /\ open' = open \ {Clients[LastOpened]}
  /\ zk' = IF Clients[LastOpened] = "zk" THEN "off" ELSE zk
  /\ phase' = IF open' = {} THEN "exited" ELSE "close"
  /\ UNCHANGED <<schedVars, tries, lost, recover, assigned, flaps>>

-----------------------------------------------------------------------------
(* PartitionManager towards the scheduler, once its handlers are there.    *)

Joined == ~debug /\ zk # "off"
            /\ phase \in {"elect", "start", "serve", "stop", "drain", "leave"}

schedRest == <<debug, cadence, running, aps, owned, jobs, queue, loopOn,
               inflight, budget>>

(* on_zk_state_change(SUSPENDED).                                          *)
ZkSuspended ==
  /\ Joined /\ zk = "connected" /\ flaps > 0
  /\ flaps' = flaps - 1
  /\ zk' = "suspended" /\ PauseAllJobs
  /\ UNCHANGED <<schedRest, phase, open, tries, lost, recover, assigned>>

(* on_zk_state_change(LOST).                                               *)
ZkLost ==
  /\ Joined /\ zk = "suspended"
  /\ zk' = "lost" /\ lost' = TRUE /\ assigned' = {} /\ PauseAllJobs
  /\ UNCHANGED <<schedRest, phase, open, tries, recover, flaps>>

(* on_zk_state_change(CONNECTED): resume at once, or recover first.        *)
ZkConnected ==
  /\ Joined /\ zk \in {"suspended", "lost"}
  /\ zk' = "connected"
  /\ IF lost THEN recover' = recover + 1 /\ UNCHANGED paused
             ELSE ResumeJobsFor /\ UNCHANGED recover
  /\ UNCHANGED <<schedRest, phase, open, tries, lost, assigned, flaps>>

(* _reinit_after_loss returned, with its errors swallowed.                 *)
RecoveryEnds ==
  /\ recover > 0
  /\ recover' = recover - 1 /\ lost' = FALSE
  /\ ResumeJobsFor
  /\ UNCHANGED <<schedRest, phase, open, tries, zk, assigned, flaps>>

(* _apply_assignment, from the DataWatch or from a refresh.                *)
ApplyAssignment(ps) ==
  /\ Joined /\ zk = "connected"
  /\ assigned' = ps /\ CallReload(ps)
  /\ UNCHANGED <<debug, cadence, running, paused, aps, owned, jobs, loopOn,
                 inflight, phase, open, tries, zk, lost, recover, flaps>>

-----------------------------------------------------------------------------
Live == phase \notin {"close", "exited"}

PodSteps ==
  \/ Connect \/ ConnectRetry \/ ConnectFails
  \/ BootStep \/ BootStepFails \/ StartScheduler
  \/ Terminate \/ StopScheduler \/ Drain \/ Leave \/ CloseClient
  \/ ZkSuspended \/ ZkLost \/ ZkConnected \/ RecoveryEnds
  \/ \E ps \in SUBSET Process : ApplyAssignment(ps)

SchedSteps ==
  /\ phase # "exited"
  /\ \/ "mongo" \in open /\ MutatorSteps
     \/ MutatorFails("mongo" \in open)
     \/ Live /\ EditProfiles
     \/ phase = "serve" /\ CallReconcile
     \/ LoopTick
     \/ \E j \in Process \X Interval : JobStarts(j) \/ JobEnds(j)
  /\ UNCHANGED podVars

Next == PodSteps \/ SchedSteps

(* The event loop runs what is ready: coroutines at the lock get their     *)
(* answers and the reconcile loop wakes up.                                *)
Fairness ==
  /\ WF_vars("mongo" \in open /\ MutatorSteps /\ UNCHANGED podVars)
  /\ WF_vars(LoopTick /\ UNCHANGED podVars)

Spec == Init /\ [][Next]_vars /\ Fairness

-----------------------------------------------------------------------------
(* Properties.                                                             *)

(* jobs.py:87: reload and reconcile never interleave at an await, so a     *)
(* reconcile cannot bring back jobs of a process given away meanwhile: the *)
(* job table behaves like JobTable.                                        *)
Table == INSTANCE JobTable WITH mine <- ProcessesToSchedule, table <- jobs
TableSpec == Table!Spec

(* Several assignments can wait at the lock at once; when none waits, the  *)
(* scheduler works for the last one the partition manager accepted, also   *)
(* after reloads that failed half way (partition_manager.py:512-515).      *)
OwnedIsLatest ==
  (assigned # {} /\ \A n \in DOMAIN queue : queue[n].by = "reload"
                                              => queue[n].begun)
    => owned = assigned

(* main.py:197: the scheduler is drained before any client goes away, even *)
(* when a reconnect resumes the jobs in the middle of the shutdown.        *)
NoJobWithoutClients ==
  inflight # {} => Range(Clients) \ (IF debug THEN {"zk"} ELSE {}) \subseteq open

(* infra.py:95, main.py:197: whichever step of start-up fails, nothing the *)
(* pod opened outlives it.                                                 *)
NothingLeft ==
  phase = "exited" => open = {} /\ inflight = {} /\ ~loopOn /\ ~aps

(* ARCHITECTURE.md:96, jobs.py:264: a lost Mongo read or a half finished   *)
(* reload heals: once edits and assignments stop, the table of a pod that  *)
(* is neither paused nor stopping is the cadence of what it owns.          *)
Converges ==
  <>[](\/ debug \/ paused \/ ~loopOn \/ owned = Unassigned
       \/ jobs = UNION {JobsOf(p) : p \in owned})

(* ARCHITECTURE.md:567: from SUSPENDED or LOST on the scheduler is paused. *)
PausedWhileDisconnected ==
  (zk \in {"suspended", "lost"} /\ phase = "serve") => paused
=============================================================================
