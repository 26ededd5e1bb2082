# ResourceMonitorServer: verification in TLA+

ResourceMonitorServer watches factory equipment. Several identical pods share
the work: every *process* (a group of equipment, from Mongo's `EQP_INFO`) is
analysed by one pod, on schedule; breached rules become e-mails, damped by a
cooldown. ZooKeeper coordinates the pods, profiles in Mongo say what to look
for, Elasticsearch holds the samples, Redis the cooldowns. This directory holds
the models, the TLC runs that check them and the TLAPS proofs about them.
Source paths are relative to `src/src/` unless they start with `src/`.

## 1. Inventory

| component | state | operations | what makes it correct |
|---|---|---|---|
| `distributed/partition_manager.py` | stamp `(_known_epoch, _known_assigned_at)`, assignment, debounce task, retry task, attempt counter, unhealthy flag | start, stop, ZooKeeper LOST/CONNECTED, members event, assignment event, become leader, redistribute, retry, orphan clean-up | every process gets exactly one owner; stale assignments are ignored; no stall goes unreported |
| `distributed/leader_election.py` | `_is_leader`, `_epoch`, election thread, stop event; `{root}/leader-epoch` | start, win, restart after loss, stop | one leader per epoch, epochs grow, whoever recovers contends |
| `distributed/lock.py` | one `asyncio.Lock` per process, one kazoo lock per acquire | acquire, release | one analysis per process in the cluster; a lock is not left behind |
| `distributed/zk_client.py` | kazoo client, state handlers | connect, close, state events | events reach the loop in order |
| `scheduler/jobs.py` | registered jobs, owned processes, paused, running, running jobs | start, reload, reconcile, pause, resume, shutdown, job wrapper | jobs = cadence of the owned processes; nothing runs after shutdown |
| `main.py`, `startup/` | the life of a pod, the clients it opened | phases, roll-back, reverse shutdown | everything opened is closed, and closed after what uses it |
| `cache/cooldown.py` | Redis keys with TTL, local TTL cache | check, set, clear | a sent alert is damped, also without Redis; nothing else is |
| `alert/email_client.py` | bounded outbox | send | failures are on record, never raised |
| `analyzer/engine.py` | – | one tick: resolve, query, evaluate, group, send | every breached group is sent, damped or recorded |
| `analyzer/threshold.py`, `fact_catalog.py`, `es_parser.py` | – | facts, conditions, rules | agrees with what the rules mean on the raw samples |
| `es/queries.py`, `es/client.py` | cache of metric names | index range, aggregations, lookups | the window is what is searched; a cached name is forgotten in time |
| `analyzer/alert_builder.py`, `alert/body_renderer.py` | – | group, order, cut, format | a cut mail keeps the worst rows |
| `db/models.py`, `db/repository.py`, `api/profiles.py` | profile documents with a version, resolve cache | create, replace, delete, edit, resolve, fold | no lost update, the narrower scope wins, caches follow |
| settings, logging, middleware, health, tools | – | text and I/O | not modelled |

How they interact: `PartitionManager` writes `{root}/assignments/<pod>` as
leader and follows its own node as a worker; an accepted assignment calls
`AnalysisScheduler.reload`; a job takes `ZKAnalysisLock`, runs the engine,
which resolves profiles through their cache, queries Elasticsearch, asks the
cooldown manager, sends mail and sets the cooldown. ZooKeeper state events
pause, resume and re-initialise. The election thread, the kazoo threads, the
thread pool and the event loop of a pod run concurrently; pods crash, are
rolled over, and lose sessions while they run; Mongo, Redis, Elasticsearch and
the mail server fail between any two calls.

`PROJECT.json` lists the hazards this brings, each with the line where it
bites and the properties that would catch it, and the components with what is
modelled of them.

## 2. Modules

| module | models | proofs |
|---|---|---|
| `RoundRobin` | `_compute_assignments` as an operator on sets | `RoundRobinProofs` |
| `PartitionManager` | the cluster of partition managers over one ZooKeeper tree; implements `Election` | `PartitionManagerProofs` |
| `Election` | abstract: what the election promises to the partition manager | |
| `SessionRecovery` | below it: sessions, member nodes, recovery handlers, the election thread; implements `Election` | `SessionRecoveryProofs` |
| `AnalysisLock` | the two-tier lock and the thread pool in between | `AnalysisLockProofs` |
| `JobTable` | abstract: what a scheduler promises about its job table | |
| `AnalysisScheduler` | reload, reconcile, pause, resume, shutdown, jobs in flight | |
| `Pod` | the life of one pod; extends `AnalysisScheduler`, implements `JobTable` | `PodProofs` |
| `AlertDispatch` | from breach to mail: ticks, cooldown, mail client, several pods | `AlertDispatchProofs` |
| `ProfileCascade` | scopes, fold, validation, job intervals, as operators | `ProfileStoreProofs` |
| `ProfileStore` | documents, requests of operators, caches of pods; extends `ProfileCascade` | `ProfileStoreProofs` |
| `RuleEvaluation` | from samples to facts, breaches and the mail | `RuleEvaluationProofs` |

`MC<module>` gives the constants of a module their values for TLC.
`MCPartitionManager` adds a settled cluster as a second initial state.

One action is what a coroutine, thread or service does between two awaits or
calls. Next to an action there may stand a variant whose comment begins with
*Mutant*: it is not part of the specification; put in the place of the action
it breaks the property `PROJECT.json` names, which shows that the property
sees that part of the code.

### PartitionManager

ZooKeeper's part of the state is `members`, `leader`, `epochNode` and `node`
(assignment nodes: absent, empty as `ensure_path` makes them, or with data).
A pod has its session `sess` (`live`; `dead`: the process is gone, ZooKeeper
does not know; `expired`: ZooKeeper knows, the client does not; `lost`: both
know), its position `boot` in `start()` or `_reinit_after_loss()`, pending
watch events `mwatch` and `dwatch`, and the fields of the class under their
names. `log` (the committed transactions) and `left` (what is left of the
bounds) are auxiliary.

The leader's coroutines are the elements of `jobs[i]`: who created them
(`become`, `debounce`, `retry`), which await they stand at (`sleep`, `list`,
`mongo`, `commit`, `gc`), their member list and their stamp. Several may be
under way, as in the code, where only a *debounce* task replaces a debounce
task and a retry a retry. Cancelling a coroutine that stands at `commit` does
not take its transaction back from the executor thread; it becomes a `ghost`.
The success path cancels the retry task even when that is the running task
(`Succeeded`), and the listing of members is outside the retry machinery
(`ListMembersFails`).

Abstractions: names are numbers; the process table is constant; Mongo's
answer, `ensure_path` for all nodes and the building of the transaction are one
step, the clean-up is one step; a transaction either commits or fails, so one
that commits while its answer is lost, which the code counts as a failure and
retries (`partition_manager.py:349-361`), is left out; a watch callback and the coroutine it schedules
are one step (within a session the loop runs them in order); election is one
step, and its epoch calls succeed; a pod boots only when its last session has
ended; one session loss at a time. The last three are what `SessionRecovery` takes apart; that the one-step
election promises no more than the real one is shown through `Election`, which
both modules implement (section 5). `Prompt` is a
timing assumption, see below.

### SessionRecovery

Sessions are numbered per pod. `member[i]` is the session that owns the member
node, `lock` the session first in the election. `recs[i]` holds the run of
`start()` and the CONNECTED handlers under way, each at its next await
(`member`, `watch`, `stop`, `await`, `ensure`); `thread[i]` is the place of the
one election thread in kazoo's `Election.run` (`contend`, `read`, `write`,
`wait`), with `queued[i]` runs behind it. Reading and writing the epoch are two
calls, which are not retried. Either may fail in a session that survives
(`EpochCallFails`): the write perhaps after it was done, the release of the
lock with it or not. `leader_election.py:168` then ends the run and nothing
starts another before the next loss. `dropped[i]` is a history: the session in
which a call of the run last failed that way. `OnLost` remembers a loss also
before `start()` has registered the state handler (`partition_manager.py:121`),
where the code would forget it.
A crashed process leaves its session in `stale` until ZooKeeper reaps it. Two switches say what the environment may do: `Slow`, the epoch calls of
the election take longer than the five seconds `restart_after_loss` waits;
`Hasty`, a container restarts before its old session has expired.

`Election` is the abstract specification: `holder` is the pod that leads, or
nobody. `Win` takes lock, next epoch and `is_leader()` together, `Waste` bumps
the epoch for nobody, `Fall` loses
the leadership unnoticed, `Resign` gives it up or notices, `Forget` is the end
of a process. Its consequence `Fenced`: the leader is one, knows, and has an
epoch above everybody else's. `SessionRecovery` maps `holder` to the pods whose
thread waits past the bump in the session that has the lock,
`PartitionManager` to the lock holder with a living session.

### AnalysisLock

A job (`Task`) is idle, waits for its pod's asyncio lock (`local`), is
`acquiring`, `critical` or `releasing`. `call` is the blocking kazoo call it
has with the thread pool. Pool, asyncio lock and ZooKeeper queue are modelled
by the set of those in front. A forced cancellation (`AnalysisScheduler.
shutdown` after its timeout) leaves a running call to its thread, drops a
queued one, and lets a critical job release first. A release, or the clean-up
of an acquire that timed out, may fail in a session that survives
(`DeleteNode`): `lock.py:109` logs it and goes on, and the node is an `orphan`
in front of later contenders until the session ends. The kazoo recipe, the
executor and ZooKeeper are external and modelled from how `lock.py` uses them.

### AnalysisScheduler, JobTable and Pod

`queue` holds the coroutines at `_reconcile_lock`: reloads (for an assignment),
reconciles of the loop and of the API. The first one holds the lock and asks
Mongo for one process after the other; assignments, edits of profiles, pauses,
Mongo failures and the shutdown land between its reads. `inflight` are the
jobs that run. `Pod` puts this into the lifespan of `main.py`: the phases in
the order of `Boot`, the clients open so far, the attempts of
`connect_with_retry`, the roll-back from any phase, the exit, and the ZooKeeper
events as far as they reach the scheduler. A debug instance (`debug`) skips
what it skips in the code.

`JobTable` is the abstract specification: the pod is responsible for some
processes (`mine`), a change of that starts from an empty table, and otherwise
any jobs of those processes may come and go. `Pod` implements it with
`mine <- ProcessesToSchedule, table <- jobs` (`TableSpec`).

### AlertDispatch

One process, ticks of several pods under the analysis lock. `held` is the pod
whose session has the lock; `LoseLock` takes it from a tick that goes on
(`lock.py:96`), and from then on another pod may start. A tick collects
breaches, asks for all cooldowns in one batch, and then sends group by group
and sets each cooldown. Redis keys and local entries are remaining life times,
and `Clock` takes one unit from all of them, so time needs no bound.
`RedisFails` and `RedisReturns` bound an outage; a send may fail, be delivered
without an answer, or raise; a tick may raise wherever it awaits Mongo,
Elasticsearch, the mail server or a Redis that answers with an error; the SETEX
of a cooldown of 0, which the schema allows as it does negative ones
(`models.py:348`), always raises; a
pod may restart; an operator may clear cooldowns. Debug instances tick without
the lock and do not mail. `mailed`, `due`, `burst` and `shared` (the ticks that
overlap one that has lost its lock) are histories. The lock is always given
back here; what a release that fails costs is `AnalysisLock`'s subject.

### ProfileCascade and ProfileStore

A body is what a scope document says; `FoldProfiles` is `fold_profiles`,
`Sound` is `validate_effective`. A request loads, validates against the
documents above, and writes under the version it has loaded; other requests
come in between, and Mongo may lose the call or the answer. Analyses on each
pod resolve through `cache[p]`; a read under way keeps what it has read. A
document's `rev`, `born` and `against` are histories: the write that made it,
the write that started its version over, and what it was validated against.

### RuleEvaluation

Equipment stores samples in one index a day; an analysis asks for the metric
names (through the two caches), aggregates the trailing window and evaluates
the rules of a tick; `Mail` orders, cuts and heads the rows of a group. The
rounding of what a mail shows is there for `CapKeepsWorst` alone, since rows
are ordered by rounded values. The
properties restate the rules on the raw samples, without indexes, buckets,
caches or facts. A value is a whole number of some unit, `Digit` of which make
the last digit a mail shows, so that rounding is visible; the unit is fine
enough for the average of as many samples as there may be to be whole
(`UnitAssumption`; sixths of a digit for three samples).
An analysis takes one measure after the other. A search that fails, or that
lacks an index, ends the tick, and the names of the measures after it are not
looked up: `done` in `Analyse` are the measures it has come to. Measures
without an implemented fact are not asked for at all (`Computed`).
An analysis may overlook instances that are younger than the cache of names;
`Settled` are those it may not: reported where the measure looks (its indexes,
category and process) for longer than names are cached, with no failed lookup
since. `IsCondition`, `IsMeasure`, `IsRule` and `ProfileAssumption` are what
the validators of `db/models.py` guarantee: among others that the measures of
a rule are on one process dimension (without it an AND rule could never fire)
and that a metric with a wildcard is expanded (without it the newest sample of
a bucket would not be one sample).

## 3. Runs

`tlc -workers 2 -config <run>.cfg <module>`.

| run (module) | bounds | shows |
|---|---|---|
| `PartitionSessionLoss` (`MCPartitionManager`) | settled, 1 session loss, clocks differ by 1, clock to 3 | `HolderEpochIsNewest`, `SameStampDisjoint`, `ZombieOnlyInRecovery`, `StampMovesForward` |
| `PartitionFailures` | settled, a stop or crash and a restart, 3 failures, 1 failed listing, 3 attempts, clock to 4 | `TypeOK`, `SettledCoverage`, `NoSilentStall`, `UnhealthyMeansExhausted` |
| `PartitionLiveness` | settled, a stop or crash and a restart, 2 failures, `Prompt`, fairness | `NoUnreportedStall`, `EventuallyOwned` |
| `SessionRecovery` (`MCSessionRecovery`) | 2 pods, 3 sessions each, 2 expiries, 1 stop or crash, 1 call of a recovery or an election that fails in a living session, fairness | `TypeOK`, `RecoveredIsMember`, `RecoveredLeaderHoldsLock`, `RecoveredContends`, `SomeoneLeads` |
| `LockSafety` (`MCAnalysisLock`) | 2 pods, 1 process, 2 cadences, 1 worker; any number of timeouts, failed deletions, lost sessions and shutdowns | `TypeOK`, `Exclusion`, `LocalExclusion`, `NoLeak`, no deadlock |
| `LockPool` | 2 pods x 2 processes, 1 worker, pod 1 restarts, loses sessions and has deletions fail, fairness | `JobsEnd`, no deadlock |
| `Pod` (`MCPod`) | 2 processes, 1 interval, 1 edit, 2 assignments, 1 API reconcile, 1 Mongo failure, 2 attempts, 1 connection loss, fairness | `TypeOK`, `OwnedIsLatest`, `NoJobWithoutClients`, `NothingLeft`, `TableSpec`, `Converges` |
| `AlertDispatch` (`MCAlertDispatch`) | 2 pods, 3 equipment, cooldowns of 0 and 1, local life 1, outbox of 1; an outage with a restart, an outage with a clearing, 2 failed sends with any number of raising ticks, a lock lost, or a debug instance; fairness | `SuppressionIsPaid`, `NothingUnaccounted`, `NoFlood`, `OneMailPerCooldown`, `BreachPages` |
| `ProfileStore` (`MCProfileStore`) | 3 nested scopes, 2 pods, 2 operators, 2 requests of 8 kinds, 1 failure, fairness | `TypeOK`, `ScheduleCovers`, `NarrowestDecides`, `SoundUntilParentMoves`, `NoLostUpdate`, `EditsReachEveryPod` |
| `RuleEvaluation` (`MCRuleEvaluation`) | 2 equipment, a day of 3 minutes, 3 samples of 8 kinds, time to 4, one tick of 5 rules, windows of 1 and 2 minutes, 1 failure, 1 row | `FiresAsDefined`, `ReportsWorst`, `CapKeepsWorst` |
| `PartitionStaleList` | 2 pods boot, fairness, not `Prompt` | refutes `EventuallyOwned`, section 4 |
| `CooldownAfterOutage` (`MCAlertDispatch`) | one outage | refutes `LocalEntrySuppresses`, section 4 |

**Bounds.** Two pods and two processes are the smallest cluster in which
ownership can overlap or be missing; leader and follower, joiner and survivor
are then different pods. Three failures with three attempts reach the limit
and, with a success before, restart the count. `MaxClock` bounds the number of
transactions a host builds; it is 3 and 4 where concurrent redistributions
multiply. Two expiries let a second loss fall into the recovery from the
first, on one pod or both; `SessionRecovery` also passes with two failing calls
(`MaxFail = 2`, 2.2 million states). Two assignments and a reconcile put three
coroutines at the scheduler's lock. In `AlertDispatch` time and ticks are
unbounded; the faults are grouped in scenarios so that those that meet in one
place meet. The two members of its group have different cooldowns, and which
of them is first decides: 0, where Redis refuses the SETEX, or 1. Two requests are two operators on one document, or on documents of
which one is above the other; a failure is a lost call or a lost answer.
Three samples in the last minute of a day and the two after it give windows of
one and two minutes that end before midnight, span it and start after it,
samples that have left the window, averages of two, and caches of names that
are fresh, stale and expired.

Deadlock is checked for the lock. Elsewhere a settled cluster, an exited pod,
or a day that is over has nothing left to do.

**Timing.** With `Prompt` a debounce (2 s) or backoff (2 s and more) ends only
when no other redistribution of the pod is under way. Nothing in the code
enforces it; it says that Mongo and ZooKeeper answer within two seconds. All
safety runs do without it. `PartitionLiveness` needs it, and
`PartitionStaleList` shows what happens otherwise.

**Fairness.**

* Partition manager: weak fairness on each pod's next start-up or recovery
  step, on each kind of callback, on its redistribution coroutines, on the
  election (the kazoo recipe hands the lock to a contender) and on the expiry
  of dead sessions. Boots, stops, crashes and losses are not fair; failures
  are bounded.
* Session recovery: the election thread, the handlers, the reports of kazoo
  (LOST, CONNECTED) and the reaping of dead sessions are weakly fair.
* Lock: the loop runs what is ready, threads finish their calls, an acquire at
  the latest by its timeout, an analysis ends since its queries have timeouts,
  and a shutdown that has begun is carried through.
* Pod: the coroutine at the head of the lock gets its answers, and the
  reconcile loop wakes up.
* Alert dispatch: time passes, a tick goes on, and for each interval some
  production pod gets its turn at the lock again and again (strong fairness:
  the lock serves in order of arrival, so a job that is due again and again
  comes to its turn). The last assumes that locks are given back or go with
  their session; `Owned` in section 4 is what the code does otherwise.
* Profile store: a cache entry that is there expires. Nothing else is fair.

## 4. Disagreements found

Two runs that TLC must refute; `PROJECT.json` quotes the text they contradict.

* `PartitionStaleList`: the redistribution after an election and the debounced
  one may overlap. If the first lists its members early and stamps late, its
  old list wins: two owners of one process, for good. Needs a redistribution
  longer than the debounce.
* `CooldownAfterOutage`: a cooldown set while Redis is out is in the local
  cache only, and the batch check looks there only if Redis raises. When Redis
  is back the same pod mails the same alert again.

Further statements that one would make of the code, most of them made by its
docs or comments, and that the models refute. Each is a
definition that no run lists; to reproduce, put it into the configuration
named.

| definition | where | what happens |
|---|---|---|
| `MembersKeepNodes` | `PartitionStaleList.cfg` | the clean-up of a slow redistribution deletes the node of a pod that joined meanwhile; it is served again at the next membership change and not before |
| `OrphansAreCollected` | `PartitionLiveness.cfg` | a redistribution that succeeds in the retry task cancels itself at the first await of the clean-up |
| `UnhealthyOnlyAsLeader` | `PartitionSessionLoss.cfg` with `MaxFail = 2` | an unhealthy leader that loses its session stays unhealthy (readiness 503) as a follower |
| `NoUnreportedStall` | `PartitionLiveness.cfg` with `MaxListFail = 1` | a failed `get_children` ends the coroutine with neither a retry nor the flag |
| `NoUnreportedStall` | `PartitionLiveness.cfg` with `MaxAttempts = 2` | at the limit `partition_manager.py:372` leaves an older retry with an older member list pending; when that one succeeds the flag is taken back although the newest list was never distributed |
| `NoUnreportedStall` | `PartitionLiveness.cfg` with `MaxExpire = 1` | a debounce of the leadership before a session loss succeeds late and cancels the retry of the new leadership: what stays distributed carries the old epoch |
| `NoUnreportedStall` | `PartitionLiveness.cfg` with `Prompt = FALSE` | the overlap of `PartitionStaleList`, as a safety violation |
| `NoSilentStall` | `PartitionFailures.cfg` with `MaxExpire = 1` | a leader loses its session, its retry ends because it no longer leads (`partition_manager.py:468`) and the count of attempts stays; it leads again, and if the listing then fails there is neither a retry nor the flag |
| `EpochNeverFalls` | `SessionRecovery.cfg` | `leader_election.py:145`: a leader whose session expires between read and write writes in the next session, over a newer epoch (`src/ARCHITECTURE.md:257`) |
| `RecoveredLeaderHoldsLock` | `SessionRecovery.cfg` with `Slow = TRUE` | the old run outlives the wait of five seconds and the stop event is cleared under it: it leads without the lock |
| `RecoveredIsMember` | `SessionRecovery.cfg` with `Hasty = TRUE` | `partition_manager.py:194`: the node of the last life is taken for the own one and reaped later |
| `AlwaysContends` | `SessionRecovery.cfg` | `leader_election.py:168`: an epoch call fails once in a session that survives; the run ends, and a pod that is set up no longer contends |
| `AlwaysLed` | `SessionRecovery.cfg` | the same, and the release of the lock fails with it (with `MaxFail = 2` the same on every pod): all are set up and nobody leads for as long as that session lasts |
| `Owned` | `LockSafety.cfg` | `lock.py:109`: a release that gives up in a session that survives is logged; its node blocks the process on every pod until that session ends |
| `NeverMailedTwice` | `AlertDispatch.cfg` | `lock.py:96`: the session is lost after the batch check; another pod gets the lock, finds no cooldown either, and both mail |
| `AlwaysPages` | `AlertDispatch.cfg` | `cooldown.py:94`: the SETEX of a cooldown of 0 raises, so the groups behind that mail are not sent in any tick; an error of httpx that `email_client.py:144-167` does not list does the same if it recurs |
| `PausedWhileDisconnected` | `Pod.cfg` with `MaxFlap = 2` | a recovery that ends after the next SUSPENDED resumes the jobs (`src/ARCHITECTURE.md:567`) |
| `HeadlineIsWorst` | `RuleEvaluation.cfg` | the head of a mail shows the first member by equipment id, not the worst (`src/docs/resource-monitor-email-template-architecture.md:190`) |
| `IndexCoversWindow` | `RuleEvaluation.cfg` with a window longer than a day | `queries.py:117` takes the first and the last day of the window and none between |

## 5. Proofs

For every set of pods, processes, documents and alerts and every value of the
bounds.

* `RoundRobinProofs`: the rank of an element in a finite set is an injection
  onto `0 .. n-1`, hence the shares are disjoint and cover all processes.
* `PartitionManagerProofs` (from `InstAssumption`, `ProcAssumption`,
  `BoundAssumption`): `SameStampDisjoint` is not inductive; that two pods
  with one stamp hold parts of *one* transaction rests on where stamps come
  from. The inductive invariant `IndInv` adds: `EpochsOwned` (an epoch belongs
  to one pod, the lock holder has the newest), `StampsUnique` (within an epoch
  the leader's clock separates transactions, pending and committed) and
  `Provenance` (what a node holds, a refresh has read or a pod follows is its
  part of one committed transaction). From it follow `FollowersDisjoint`,
  `HolderIsNewest` and, with `RoundRobinProofs`, `SettledIsPartition`.
  `LeadersHoldTheLock`, `StampsMoveForward` and `UnhealthyIsExhausted` are
  proved beside it. `NoSilentStall` (`FailuresAreInHand`) needs who may cancel
  which coroutine: `StallInv` says that a leader that counts a failure has a
  coroutine that goes on until the transaction succeeds or is counted as failed
  (`FailureInHand`, `OnTheWay`), that a retry never lists members
  (`RetryKeepsList`), that the lock holder knows that it leads (`LeaderKnows`),
  and that without session losses pods that do not lead have nothing under way
  (`OthersIdle`). It assumes that sessions are not lost or listings do not
  fail; section 4 shows what the two do together. `NoUnreportedStall`
  (`IdleLeaderHasDistributed`) needs `NewestInv`: of a leader's coroutines one
  at most is awake and one at most is a retry, a transaction that is built can
  be committed (nothing removes a node it writes), and unless the members are
  going to be listed again the newest list is worked on, or waits for its retry
  with nothing else awake, or is distributed with no older retry left
  (`NewestInHand`). It assumes `Calm`: `Prompt`, no lost sessions, no failing
  listings, fewer failures than attempts. Section 4 has a counterexample for
  each of the four.
* `AnalysisLockProofs` (`TaskAssumption`): `Exclusion` follows from `Ordered`
  (of two contenders one is ahead; who holds the lock in a living session has
  nobody in front), which needs `CallsMatch` (what a coroutine waits for is
  what the pool runs). `LocalExclusion` follows from `Queued`. `NoLeak`
  needs in addition that a contender waits only for nodes ZooKeeper has
  (`Present`) and that a node of the current run belongs to a job that is not
  idle, to a call under way or to a pod that is down (`Held`): what is left are
  the orphans.
* `SessionRecoveryProofs` (`RecoveryAssumption`): per pod, `Bounds` (sessions
  are numbered upwards and a pod that is off runs nothing), `Contends` (nothing
  stops the run the set-up queued, but a call of it that fails in this
  session), `Leads` (from the wait for the old run on,
  a run past the lock holds it in this session; needs `~Slow`) and `Belongs`
  (from the registration on, the member node is this session's; needs
  `~Hasty`). Section 4 shows that both assumptions are needed.
  `EpochRises` settles when `EpochNeverFalls` holds: in every behaviour in which
  no client gets a new session while its election thread stands between the
  lock and the write of the epoch (`BumpEndsWithSession`), whatever `Slow` and
  `Hasty` are. The invariant is `BumpOK`: a connected thread between lock and
  write has the lock in this session and has read the current epoch. The code
  does not enforce the hypothesis (a version check on the write would); the
  counterexample of section 4 is its negation. Under it and `~Slow`,
  `ElectionImplemented` is the refinement of `Election` and `LeaderIsFenced`
  its consequence. `ElectionAssumed` in `PartitionManagerProofs` is the other
  half, without hypotheses: what `PartitionManager` assumes of the election is
  an implementation of the same `Election`, by `EpochsOwned` and `LeaderKnows`.
* `PodProofs` (`SchedulerAssumption`, `PodAssumption`): the refinement
  `TableImplemented` rests on `TableInv`: only the head of the queue has begun,
  and what it plans is for processes the pod is responsible for *now*; this is
  what `_reconcile_lock` is for. `LatestOwned` needs that the last reload in
  the queue carries the latest assignment (`Latest`). `JobsHaveClients` and
  `ExitIsClean` follow from `OrderInv`, which says for each phase what is open
  and what still runs. `PodTypeCorrect` adds that losses under way and losses
  left stay within the bound (`FlapsOK`).
* `AlertDispatchProofs` (`DispatchAssumption`): `SuppressionIsPaid` is
  inductive with `Paid` (Redis, local entries and ticks know only cooldowns of
  confirmed mails). `OneMailPerCooldown` needs `Told`: what Redis was told is
  there or on its way; production ticks that overlap are all in `shared`, since
  a tick begins only when nobody has the lock, so that those under way are
  `Adrift`; and a tick outside `shared` that has asked Redis sends only keys
  nobody has told Redis about.
  `NothingUnaccounted` (`Accounted`) follows from `FiledInv`: at every point of
  a tick the keys it is done with are suppressed, sent or among the last of the
  outbox (`Covers`), and the outbox only drops what is older. `NoFlood` follows
  from `FloodInv`: each mail of a burst is charged to a pod whose local entry
  for the key still lives or that is about to make one (`Spent`), and a pod is
  charged once.
* `ProfileStoreProofs` (`StoreAssumption`, `ScopeAssumption`: wildcards from
  the right only, other scopes are accepted by the API but never resolved;
  `StoredAssumption`: documents inserted by hand compose soundly):
  `NoLostUpdate` needs `BaseIsStored` (a request's version names the write it
  has read, as long as the document was not created anew since).
  `SoundUntilParentMoves` needs `Validated`: what a request has validated is
  sound against the documents it saw, and these are told apart by the write
  that made them. `ScheduleCovers` and `NarrowestDecides` are about the fold
  over a cascade of any length: `ShapeInv` (whatever is stored or on its way
  has the shape the schema asks for, from `EditAssumption`) makes the fold
  defined, and that a rule ends up with what the narrowest document says is
  proved by taking the first fold step where it would fail.
* `RuleEvaluationProofs` (`EvaluationAssumption`, `ProfileAssumption`,
  `UnitAssumption`):
  `CapKeepsWorst` holds for any number of breaches and any limit, since a
  finite set can be listed in any strict order and a cut is a prefix of the
  list. `ReportsWorst` needs `CacheOK`: an entry of the cache of names is due
  to a failed lookup and no older than `failedAt` allows, or it has every name
  that was there when it was made, so that what is `Settled` is found
  (`SettledIsFound`). For windows of at most a day (`WindowsFit`) the bucket of
  an instance then is the window of the property (`WindowIsBucket`), and
  whatever is further out than a value that passes would pass too.
  `FiresAsDefined` (`RulesFireAsDefined`) adds `SamplesOK` (there are at most
  `MaxSample` samples, each of them one that may be reported, and one of a
  metric at a time) and goes along the layers of the code. A fact computed over
  a bucket is there when the samples have data for it, and passes when they
  mean it (`FactSays`: the extreme of a finite set, the newest sample, a sum of
  multiples of the number of samples, a count). The readings of a condition at
  a target are in bijection with the known instances that have data, so the
  counts and quantifiers of `evaluate_condition` are those of the definition
  (`ConditionMeans`). The measures of a rule share their targets, so a rule is
  breached at a target of its own or nowhere (`BreachedIfFires`). And the known
  instances with data are the settled ones and some of those that may be
  overlooked (`AnalyseFires`), which names the witness for `new`. Without
  `WindowsFit` section 4 has the counterexample.

  The attempt to prove `FiresAsDefined` corrected the model three times: the
  meaning of a maximum under `<=` and of a minimum under `>=` was stated as
  "some sample" instead of "the extreme sample"; the lookups of names after a
  search that failed were not left out; and the validators' rules about one
  process dimension and about wildcards, without which the property is false,
  were not stated.

Where a proof needs induction over a finite set or a sequence (the fold of the
cascade, the sum of an average, the order of a table) it takes a minimal
counterexample: finite subsets and natural numbers are well founded (`WFMin`),
which the provers accept as a statement about sets.

Only model-checked: liveness (`EventuallyOwned`, `SomeoneLeads`, `JobsEnd`,
`Converges`, `BreachPages`, `EditsReachEveryPod`), since fairness is outside
the prover's reach. Every invariant and every action property of the passing
runs, and the refinement `TableSpec`, is proved. The refinements of `Election`
are theorems only. TLC can check the one of `SessionRecovery` with
`ACTION_CONSTRAINT BumpEndsWithSession`; without it `Elect!Spec` is violated.

## 6. Plan

What would come next: changes of `EQP_INFO` while a cluster runs.

## 7. Not modelled

* Settings, logging, middleware, health and metrics endpoints, developer tools
  and the seeder (nothing in production calls it): text and I/O without state
  of their own. The settings that matter are CONSTANTS.
* Rendering: templates, escaping, the byte limit of a mail, templates whose
  row block is missing or malformed (`body_renderer.py:161-167`). `order_rows`
  takes large values for the worse ones; `CapKeepsWorst` speaks of high-side
  rules only.
* Elasticsearch: percentiles (approximated there), `introspect_field_type`,
  the size limits of terms aggregations (`queries.py:97`).
* The eviction of local cooldowns above 50000, the version check and the
  critical self-alert at start-up, the probing of ports in `zk_client.py`.
* The client objects of attempts to connect that failed: `db/client.py:46-56`
  and `redis_client.py:59-68` neither keep nor close them. `NothingLeft` is
  about the clients that were stored.
* Field validation of pydantic models: single values, no state.
* Clocks that are set back: the order of stamps rests on `time.time()` moving
  forward.
* Changes of `EQP_INFO`: they take effect with the next redistribution.
