--------------------------- MODULE AlertDispatch ----------------------------
(***************************************************************************)
(* From breach to mail: the ticks of AnalysisEngine for one process on     *)
(* several pods, AlertCooldownManager with its Redis keys and the local    *)
(* cache of each pod, and EmailAlertClient with its outbox.                *)
(*                                                                         *)
(* Remaining life times stand for time stamps, so that the model is finite *)
(* without a bound on time.  A step of a tick is what it does between two  *)
(* awaits.  What a rule makes of its facts is RuleEvaluation's subject and *)
(* the profile an equipment gets is ProfileStore's.                        *)
(***************************************************************************)
EXTENDS Naturals, Sequences, FiniteSets

CONSTANTS
  Pod,        \* instances that may run a tick of the process
  Eqp,        \* its active equipment
  Interval,   \* intervals of the rules
  ModelOf,    \* eqpModel of an equipment, NoModel when empty
  NoModel,
  ProfileOf,  \* effective profile of an equipment, NoProfile without a document,
              \* a rule once for each EARS process it is about
  NoProfile,
  LocalTtl,   \* COOLDOWN_LOCAL_CACHE_MAX_TTL_SEC
  OutboxMax,  \* _OUTBOX_MAXLEN
  Scenario    \* sets of debug instances, each with a bound on its faults

Monitored == {e \in Eqp : ProfileOf[e] # NoProfile}
Channels == UNION {{ProfileOf[e].notify[n] : n \in DOMAIN ProfileOf[e].notify} :
                   e \in Monitored}
Minutes == {c.minutes : c \in Channels}

(* Bounds: Redis outages, sends reported as failed, restarts of pods,      *)
(* cooldowns cleared by hand, sessions lost in a tick; and whether errors  *)
(* may end ticks, any number of them.                                      *)
Bounds == [outage : Nat, send : Nat, restart : Nat, clear : Nat, lose : Nat,
           raise : BOOLEAN]

ASSUME DispatchAssumption ==
  /\ IsFiniteSet(Pod) /\ Minutes \subseteq Nat
  /\ LocalTtl \in Nat \ {0} /\ OutboxMax \in Nat \ {0}
  /\ \A s \in Scenario : s.debug \subseteq Pod /\ s.debug # Pod
                            /\ s.left \in Bounds

VARIABLES
  debug,      \* instances with debug_read_only
  tick,       \* the run of _do_analysis on a pod
  held,       \* the pod whose session has the lock of the process
  shared,     \* history: ticks that overlap one that had lost its lock
  outage,     \* 0: Redis answers, else 1 + the time it has not, up to LocalTtl
  redis,      \* remaining life of a cooldown key in Redis, 0: absent
  local,      \* the same in the local cache of a pod
  outbox,     \* _outbox of a pod
  mailed,     \* history: what mail was ever confirmed for
  due,        \* history: time left during which Redis was told to suppress
  burst,      \* history: mails of a key confirmed in this outage, but one for
              \* each restart and each cooldown cleared by hand
  left        \* what is left of the bounds

locks == <<held, shared>>
vars == <<debug, tick, locks, outage, redis, local, outbox, mailed, due,
          burst, left>>

-----------------------------------------------------------------------------
(* alert_builder.                                                          *)

ChannelOf(b) == ProfileOf[b.eqp].notify[b.rule.notify]

(* resolve_group_value; one process, so its name stands for itself.        *)
GroupValue(b) ==
  CASE ChannelOf(b).groupBy = "model" -> ModelOf[b.eqp]
    [] ChannelOf(b).groupBy = "process" -> "process"
    [] ChannelOf(b).groupBy = "eqp" -> b.eqp

(* Who a mail about b is for.                                              *)
Slot(b) == IF GroupValue(b) = NoModel THEN b.eqp ELSE GroupValue(b)

(* Mutant: the severity is not part of the identity.                       *)
KeyWithoutSeverity(b) == <<Slot(b), b.rule.proc, b.rule.notify, "any">>

(* make_cooldown_key: an empty group value falls back to the equipment.    *)
CooldownKey(b) == <<Slot(b), b.rule.proc, b.rule.notify, b.rule.severity>>

Breaches == UNION {{[eqp |-> e, rule |-> r] : r \in ProfileOf[e].rules} :
                   e \in Monitored}
Mailable == {b \in Breaches : b.rule.notify \in DOMAIN ProfileOf[b.eqp].notify}
Key == {CooldownKey(b) : b \in Mailable}
Ident(b) == <<Slot(b), b.rule.proc, b.rule.notify, b.rule.severity>>

(* _do_analysis and _evaluate_bucket: enabled profiles, enabled rules of   *)
(* this interval, breaches that name an existing channel.  Which of them   *)
(* there are is up to the data.                                            *)
Evaluated(iv) ==
  {b \in Mailable : /\ ProfileOf[b.eqp].enabled
                    /\ b.rule.enabled /\ b.rule.interval = iv}

-----------------------------------------------------------------------------
NoTick == [at |-> "idle", iv |-> 0, pending |-> {}, asked |-> FALSE, todo |-> {},
           cooling |-> {}, sent |-> {}, key |-> <<>>, minutes |-> 0]

Init ==
  /\ \E s \in Scenario : debug = s.debug /\ left = s.left
  /\ tick = [p \in Pod |-> NoTick] /\ outage = 0 /\ held = {} /\ shared = {}
  /\ redis = [k \in Key |-> 0] /\ local = [p \in Pod |-> [k \in Key |-> 0]]
  /\ outbox = [p \in Pod |-> <<>>]
  /\ mailed = {} /\ due = [k \in Key |-> 0] /\ burst = [k \in Key |-> 0]

-----------------------------------------------------------------------------
(* A tick.                                                                 *)

Idle(p) == tick[p].at = "idle"
Less(n) == IF n > 0 THEN n - 1 ELSE 0
Lesser(m, n) == IF m < n THEN m ELSE n

(* Production ticks whose lock went with the session (lock.py yields it    *)
(* once and never looks again).                                            *)
Adrift == {q \in Pod \ debug : ~Idle(q) /\ q \notin held}

(* Mutant: no lock around the tick.                                        *)
RunAnalysisUnlocked(p, iv) ==
  /\ Idle(p)
  /\ tick' = [tick EXCEPT ![p] = [NoTick EXCEPT !.at = "collect", !.iv = iv]]
  /\ IF p \in debug THEN UNCHANGED locks
     ELSE /\ held' = held \cup {p}
          /\ shared' = IF Adrift = {} THEN shared ELSE shared \cup Adrift \cup {p}
  /\ UNCHANGED <<debug, outage, redis, local, outbox, mailed, due,
                 burst, left>>

(* run_analysis gets the lock of the process; the lock of a debug instance *)
(* excludes nobody.                                                        *)
RunAnalysis(p, iv) ==
  /\ Idle(p)
  /\ tick' = [tick EXCEPT ![p] = [NoTick EXCEPT !.at = "collect", !.iv = iv]]
  /\ IF p \in debug THEN UNCHANGED locks
     ELSE /\ held = {} /\ held' = {p}
          /\ shared' = IF Adrift = {} THEN shared ELSE shared \cup Adrift \cup {p}
  /\ UNCHANGED <<debug, outage, redis, local, outbox, mailed, due,
                 burst, left>>

(* The session ends in the middle of a tick, which goes on without lock.   *)
LoseLock(p) ==
  /\ left.lose > 0 /\ left' = [left EXCEPT !.lose = @ - 1]
  /\ p \in held /\ held' = held \ {p}
  /\ UNCHANGED <<debug, tick, shared, outage, redis, local, outbox, mailed,
                 due, burst>>

(* _do_analysis up to _dispatch, _compute_measure included.                *)
Collect(p, ps) ==
  /\ tick[p].at = "collect" /\ ps \subseteq Evaluated(tick[p].iv)
  /\ tick' = [tick EXCEPT ![p].pending = ps,
                ![p].at = IF ps = {} THEN "done" ELSE "check",
                ![p].todo = {CooldownKey(b) : b \in ps}]
  /\ UNCHANGED <<debug, locks, outage, redis, local, outbox, mailed,
                 due, burst, left>>

(* Mutant: a suppressed breach starts its cooldown over.                   *)
CheckCooldownSlides(p) ==
  /\ tick[p].at = "check"
  /\ LET ask == p \notin debug /\ outage = 0
         cooling == {k \in tick[p].todo :
                       IF ask THEN redis[k] > 0 ELSE local[p][k] > 0}
     IN  /\ tick' = [tick EXCEPT
                ![p].at = IF cooling = tick[p].todo THEN "done" ELSE "group",
                ![p].asked = ask, ![p].cooling = cooling, ![p].todo = @ \ cooling]
         /\ redis' = [k \in Key |-> IF k \in cooling /\ ask THEN 2 ELSE redis[k]]
  /\ UNCHANGED <<debug, locks, outage, local, outbox, mailed, due, burst,
                 left>>

(* is_cooling_down_batch: Redis if it answers, else what this pod knows.   *)
CheckCooldown(p) ==
  /\ tick[p].at = "check"
  /\ LET ask == p \notin debug /\ outage = 0
         cooling == {k \in tick[p].todo :
                       IF ask THEN redis[k] > 0 ELSE local[p][k] > 0}
     IN  tick' = [tick EXCEPT
                ![p].at = IF cooling = tick[p].todo THEN "done" ELSE "group",
                ![p].asked = ask, ![p].cooling = cooling, ![p].todo = @ \ cooling]
  /\ UNCHANGED <<debug, locks, outage, redis, local, outbox, mailed,
                 due, burst, left>>

Members(p, k) == {b \in tick[p].pending : CooldownKey(b) = k}
NextGroup(rest) == IF rest = {} THEN "done" ELSE "group"

(* Mutant: the local entry is written after Redis accepted the key.        *)
SentRedisFirst(p, k, c) ==
  /\ tick[p].at = "group" /\ k \in tick[p].todo
  /\ tick' = [tick EXCEPT ![p].at = "set", ![p].todo = @ \ {k}, ![p].key = k,
                ![p].minutes = c.minutes, ![p].sent = @ \cup {k}]
  /\ local' = [local EXCEPT ![p][k] = IF outage = 0 THEN LocalTtl ELSE @]
  /\ IF p \in debug THEN UNCHANGED <<mailed, due, burst>>
     ELSE /\ mailed' = mailed \cup {Ident(b) : b \in Members(p, k)}
          /\ due' = [due EXCEPT ![k] = c.minutes]
          /\ burst' = IF outage \in 1..LocalTtl THEN [burst EXCEPT ![k] = @ + 1]
                      ELSE burst
  /\ UNCHANGED <<debug, locks, outage, redis, outbox, left>>

(* One mail per group, with the channel of its first member: send_alert is *)
(* confirmed and set_cooldown writes the local entry, all without an await *)
(* in between.  A debug instance does as if and sends nothing.             *)
Sent(p, k, c) ==
  /\ tick[p].at = "group" /\ k \in tick[p].todo
  /\ tick' = [tick EXCEPT ![p].at = "set", ![p].todo = @ \ {k}, ![p].key = k,
                ![p].minutes = c.minutes, ![p].sent = @ \cup {k}]
  /\ local' = [local EXCEPT ![p][k] = LocalTtl]
  /\ IF p \in debug THEN UNCHANGED <<mailed, due, burst>>
     ELSE /\ mailed' = mailed \cup {Ident(b) : b \in Members(p, k)}
          /\ due' = [due EXCEPT ![k] = c.minutes]
          /\ burst' = IF outage \in 1..LocalTtl THEN [burst EXCEPT ![k] = @ + 1]
                      ELSE burst
  /\ UNCHANGED <<debug, locks, outage, redis, outbox, left>>

(* Mutant: a full outbox keeps its old entries.                            *)
SendFailsUnrecorded(p, k) ==
  /\ tick[p].at = "group" /\ k \in tick[p].todo /\ p \notin debug
  /\ left.send > 0 /\ left' = [left EXCEPT !.send = @ - 1]
  /\ tick' = [tick EXCEPT ![p].todo = @ \ {k},
                ![p].at = NextGroup(tick[p].todo \ {k})]
  /\ outbox' = [outbox EXCEPT ![p] =
                   IF Len(@) = OutboxMax THEN @ ELSE Append(@, k)]
  /\ UNCHANGED <<debug, locks, outage, redis, local, mailed, due, burst>>

(* send_alert returns False: time-out, refused connection, HTTP error or   *)
(* an answer that is no success.  Whether mail went out is not known.      *)
SendFails(p, k) ==
  /\ tick[p].at = "group" /\ k \in tick[p].todo /\ p \notin debug
  /\ left.send > 0 /\ left' = [left EXCEPT !.send = @ - 1]
  /\ tick' = [tick EXCEPT ![p].todo = @ \ {k},
                ![p].at = NextGroup(tick[p].todo \ {k})]
  /\ outbox' = [outbox EXCEPT ![p] =
       Append(IF Len(@) = OutboxMax THEN Tail(@) ELSE @, k)]
  /\ UNCHANGED <<debug, locks, outage, redis, local, mailed, due, burst>>

(* What p told, or still has to tell, Redis about its last mail is void.   *)
Untold(p) == [k \in Key |-> IF p \notin debug /\ tick[p].at = "set"
                                 /\ tick[p].key = k THEN 0 ELSE due[k]]

(* The tick of p is over and its lock, if it still has it, is given back.  *)
Over(p) ==
  /\ tick' = [tick EXCEPT ![p] = NoTick]
  /\ held' = held \ {p} /\ shared' = shared \ {p}

(* The SETEX of set_cooldown: the last one counts.  Redis refuses a life   *)
(* time of 0, which is not among the errors that are caught.               *)
SetCooldown(p) ==
  /\ tick[p].at = "set"
  /\ LET k == tick[p].key
         n == tick[p].minutes
         asks == p \notin debug /\ outage = 0
     IN  /\ redis' = IF asks /\ n > 0 THEN [redis EXCEPT ![k] = n] ELSE redis
         /\ due' = IF asks THEN [due EXCEPT ![k] = Lesser(@, n)] ELSE Untold(p)
         /\ IF asks /\ n = 0 THEN Over(p)
            ELSE /\ tick' = [tick EXCEPT ![p].at = NextGroup(tick[p].todo),
                                ![p].key = <<>>, ![p].minutes = 0]
                 /\ UNCHANGED locks
  /\ UNCHANGED <<debug, outage, local, outbox, mailed, burst, left>>

(* A Mongo, Elasticsearch or HTTP error that nobody catches ends the tick, *)
(* and so does an answer of Redis that is an error.                        *)
TickRaises(p) ==
  /\ left.raise
  /\ \/ tick[p].at \in {"collect", "group"}
     \/ tick[p].at \in {"check", "set"} /\ p \notin debug /\ outage = 0
  /\ Over(p) /\ due' = Untold(p)
  /\ UNCHANGED <<debug, outage, redis, local, outbox, mailed, burst, left>>

TickEnds(p) ==
  /\ tick[p].at = "done" /\ Over(p)
  /\ UNCHANGED <<debug, outage, redis, local, outbox, mailed, due,
                 burst, left>>

-----------------------------------------------------------------------------
(* Surroundings.                                                           *)

RedisFails ==
  /\ outage = 0 /\ left.outage > 0
  /\ outage' = 1 /\ left' = [left EXCEPT !.outage = @ - 1]
  /\ UNCHANGED <<debug, tick, locks, redis, local, outbox, mailed, due, burst>>

RedisReturns ==
  /\ outage > 0 /\ outage' = 0 /\ burst' = [k \in Key |-> 0]
  /\ UNCHANGED <<debug, tick, locks, redis, local, outbox, mailed, due, left>>

(* The process ends in the middle of what it does; a new one has neither   *)
(* local entries nor an outbox.                                            *)
Restart(p) ==
  /\ left.restart > 0 /\ left' = [left EXCEPT !.restart = @ - 1]
  /\ Over(p) /\ due' = Untold(p)
  /\ local' = [local EXCEPT ![p] = [k \in Key |-> 0]]
  /\ outbox' = [outbox EXCEPT ![p] = <<>>]
  /\ burst' = [k \in Key |-> Less(burst[k])]
  /\ UNCHANGED <<debug, outage, redis, mailed>>

(* DELETE /admin/cooldowns on pod p: an unreachable Redis is ignored.      *)
ClearCooldown(p, k) ==
  /\ left.clear > 0 /\ left' = [left EXCEPT !.clear = @ - 1]
  /\ local' = [local EXCEPT ![p][k] = 0]
  /\ LET reaches == p \notin debug /\ outage = 0
     IN  /\ redis' = IF reaches THEN [redis EXCEPT ![k] = 0] ELSE redis
         /\ due' = IF reaches THEN [due EXCEPT ![k] = 0] ELSE due
  /\ burst' = [burst EXCEPT ![k] = Less(@)]
  /\ UNCHANGED <<debug, tick, locks, outage, outbox, mailed>>

Clock ==
  /\ redis' = [k \in Key |-> Less(redis[k])]
  /\ local' = [p \in Pod |-> [k \in Key |-> Less(local[p][k])]]
  /\ due' = [k \in Key |-> Less(due[k])]
  /\ outage' = IF outage \in 1..LocalTtl THEN outage + 1 ELSE outage
  /\ UNCHANGED <<debug, tick, locks, outbox, mailed, burst, left>>

-----------------------------------------------------------------------------
TickStep(p) ==
  \/ \E ps \in SUBSET Mailable : Collect(p, ps)
  \/ CheckCooldown(p) \/ SetCooldown(p) \/ TickEnds(p)
  \/ \E k \in tick[p].todo : \E b \in Members(p, k) : Sent(p, k, ChannelOf(b))

Next ==
  \/ \E p \in Pod :
       \/ \E iv \in Interval : RunAnalysis(p, iv)
       \/ TickStep(p) \/ TickRaises(p) \/ Restart(p) \/ LoseLock(p)
       \/ \E k \in tick[p].todo : SendFails(p, k)
       \/ \E k \in Key : ClearCooldown(p, k)
  \/ RedisFails \/ RedisReturns \/ Clock

(* Time passes, a tick goes on, and the interval job of some production    *)
(* pod gets its turn at the lock, which serves in order of arrival.        *)
Fairness ==
  /\ WF_vars(Clock)
  /\ \A p \in Pod : WF_vars(TickStep(p))
  /\ \A iv \in Interval : SF_vars(\E p \in Pod \ debug : RunAnalysis(p, iv))

Spec == Init /\ [][Next]_vars /\ Fairness

-----------------------------------------------------------------------------
(* Properties.                                                             *)

(* cooldown.py:62: a breach is only ever suppressed because mail about the *)
(* same group, EARS process, channel and severity was confirmed: not by a  *)
(* failed send, a debug instance, or mail about a lower severity.          *)
SuppressionIsPaid ==
  \A p \in Pod \ debug : tick[p].at \in {"group", "set", "done"} =>
    \A b \in tick[p].pending :
      CooldownKey(b) \in tick[p].cooling => Ident(b) \in mailed

(* email_client.py:125: when a tick ends without an error, each of its     *)
(* breaches was suppressed, mailed, or stands in the outbox, as far back   *)
(* as the outbox reaches.                                                  *)
NothingUnaccounted ==
  \A p \in Pod \ debug : tick[p].at = "done" =>
    LET open == {CooldownKey(b) : b \in tick[p].pending}
                  \ (tick[p].cooling \cup tick[p].sent)
        kept == {outbox[p][n] : n \in DOMAIN outbox[p]}
    IN  open \subseteq kept \/ Cardinality(kept \cap open) = OutboxMax

(* cooldown.py:5: a Redis outage does not turn into a flood: while local   *)
(* entries live, each pod mails a key once at most, unless it restarted or *)
(* an operator cleared the entry.                                          *)
NoFlood ==
  outage \in 1..LocalTtl =>
    \A k \in Key : burst[k] <= Cardinality(Pod \ debug)

(* engine.py:68, cooldown.py:105: while Redis has accepted a cooldown no   *)
(* pod mails the key again on the word of Redis, although the check is one *)
(* batch before the first of several sends: unless the tick overlaps one   *)
(* that went on when the lock was gone with its session (lock.py:96).      *)
OneMailPerCooldown ==
  [][\A p \in Pod \ debug, k \in Key :
       (tick[p].asked /\ tick'[p].at = "set" /\ tick'[p].key = k
          /\ tick[p].at = "group") => due[k] = 0 \/ p \in shared]_vars

(* The same without that exception, as README section 4 refutes it.        *)
NeverMailedTwice ==
  [][\A p \in Pod \ debug, k \in Key :
       (tick[p].asked /\ tick'[p].at = "set" /\ tick'[p].key = k
          /\ tick[p].at = "group") => due[k] = 0]_vars

(* From some time on every tick of its interval finds b.                   *)
Persistent(b) ==
  <>[](\A p \in Pod : (tick[p].at \notin {"idle", "collect"}
                          /\ tick[p].iv = b.rule.interval)
                         => b \in tick[p].pending)

Paged(k) == \E p \in Pod \ debug : k \in tick[p].sent

(* A production tick of interval iv is over that had not come to group k.  *)
CutShort(iv, k) ==
  \E p \in Pod \ debug :
    /\ ~Idle(p) /\ Idle(p)' /\ tick[p].iv = iv
    /\ tick[p].at = "collect" \/ k \in tick[p].todo

(* engine.py:245: a breach that every tick finds is mailed again and again:*)
(* no cooldown silences it, nor do ticks, sends, pods and Redis that fail  *)
(* now and then; only tick after tick that raises before its group has its *)
(* turn does.                                                              *)
BreachPages ==
  \A b \in UNION {Evaluated(iv) : iv \in Interval} : \A k \in {CooldownKey(b)} :
    Persistent(b) => []<>Paged(k) \/ []<><<CutShort(b.rule.interval, k)>>_vars

(* The same without that exception, as README section 4 refutes it: the    *)
(* SETEX of a channel with a cooldown of 0 raises whenever it is sent.     *)
AlwaysPages ==
  \A b \in UNION {Evaluated(iv) : iv \in Interval} : \A k \in {CooldownKey(b)} :
    Persistent(b) => []<>Paged(k)

(* cooldown.py:13: after set_cooldown "subsequent is_cooling_down checks   *)
(* still see the cooldown" although Redis failed: the pod that mailed does *)
(* not mail again while its local entry lives (where no cooldown is        *)
(* shorter than that life or cleared by hand).                             *)
LocalEntrySuppresses ==
  [][\A p \in Pod \ debug, k \in Key :
       (tick'[p].at = "set" /\ tick'[p].key = k /\ tick[p].at = "group")
         => local[p][k] = 0]_vars
=============================================================================
