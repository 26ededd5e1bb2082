------------------------ MODULE AlertDispatchProofs -------------------------
(***************************************************************************)
(* Proofs about the dispatch of alerts, for any pods, equipment, profiles, *)
(* channels, life times and faults: whatever is suppressed was paid for    *)
(* with a confirmed mail, while Redis holds a cooldown nobody mails the    *)
(* key on the word of Redis but in a tick that overlaps one without lock,  *)
(* no breach of a finished tick is unaccounted for, and an outage of Redis *)
(* does not turn into a flood.                                             *)
(***************************************************************************)
EXTENDS AlertDispatch, FiniteSetTheorems, TLAPS

Tick == [at : {"idle", "collect", "check", "group", "set", "done"},
         iv : Interval \cup {0}, pending : SUBSET Mailable, asked : BOOLEAN,
         todo : SUBSET Key, cooling : SUBSET Key, sent : SUBSET Key,
         key : Key \cup {<<>>}, minutes : Nat]

Typed ==
  /\ tick \in [Pod -> Tick] /\ outage \in Nat
  /\ redis \in [Key -> Nat] /\ due \in [Key -> Nat]
  /\ local \in [Pod -> [Key -> Nat]]

(* Redis, the local entries of production pods and their ticks only know   *)
(* cooldowns of keys that mail was confirmed for.                          *)
Paid ==
  /\ \A k \in Key : redis[k] > 0 => k \in mailed
  /\ \A p \in Pod \ debug, k \in Key : local[p][k] > 0 => k \in mailed
  /\ \A p \in Pod \ debug : /\ tick[p].cooling \subseteq mailed
                            /\ tick[p].at = "set" => tick[p].key \in mailed

(* A production tick is alone or knows that it overlaps another.  A        *)
(* cooldown Redis was told about is in Redis or on its way there, and a    *)
(* tick that asked Redis and was alone still has to send only what is not  *)
(* cooling down.                                                           *)
Underway(k) == \E p \in Pod \ debug : tick[p].at = "set" /\ tick[p].key = k
Told ==
  /\ \A p, q \in Pod \ debug : p # q => Idle(p) \/ Idle(q) \/ p \in shared
  /\ \A k \in Key : due[k] > 0 => due[k] <= redis[k] \/ Underway(k)
  /\ \A p \in Pod \ debug :
       /\ tick[p].at = "set" => tick[p].key \in Key \ tick[p].todo
       /\ (tick[p].asked /\ tick[p].at \in {"group", "set"} /\ p \notin shared) =>
            \A k \in tick[p].todo : due[k] = 0

DispatchInv == Typed /\ Paid /\ Told

-----------------------------------------------------------------------------
(* Facts about the constants.                                              *)

LEMMA KeyOfBreach ==
  ASSUME NEW b \in Mailable
  PROVE  /\ CooldownKey(b) \in Key /\ Ident(b) = CooldownKey(b)
         /\ ChannelOf(b).minutes \in Nat
  <1>1. CooldownKey(b) \in Key /\ Ident(b) = CooldownKey(b)
    BY DEF Key, Ident, CooldownKey
  <1>2. PICK e \in Monitored : b \in {[eqp |-> e, rule |-> r] :
                                        r \in ProfileOf[e].rules}
    BY DEF Mailable, Breaches
  <1>3. b.eqp = e /\ b.rule.notify \in DOMAIN ProfileOf[b.eqp].notify
    BY <1>2 DEF Mailable
  <1>4. ChannelOf(b) \in Channels
    BY <1>2, <1>3 DEF ChannelOf, Channels
  <1>5. ChannelOf(b).minutes \in Minutes
    BY <1>4 DEF Minutes
  <1> QED BY <1>1, <1>5, DispatchAssumption

LEMMA NoTickTyped ==
  NoTick \in Tick /\ NoTick.at = "idle" /\ NoTick.cooling = {} /\ NoTick.todo = {}
  BY DEF NoTick, Tick

LEMMA LessTyped ==
  ASSUME NEW n \in Nat
  PROVE  Less(n) \in Nat /\ Less(n) <= n /\ (Less(n) > 0 => n > 0)
           /\ \A m \in Nat : m <= n => Less(m) <= Less(n)
  BY DEF Less

(* A step of the tick of one pod.                                          *)
LEMMA OneTick ==
  ASSUME Typed, NEW p \in Pod, NEW t \in Tick, tick' = [tick EXCEPT ![p] = t]
  PROVE  /\ tick' \in [Pod -> Tick] /\ tick'[p] = t
         /\ \A q \in Pod : q # p => tick'[q] = tick[q]
  BY DEF Typed

-----------------------------------------------------------------------------
LEMMA DispatchInit == Init => DispatchInv
  <1> SUFFICES ASSUME Init PROVE DispatchInv
    OBVIOUS
  <1>1. tick \in [Pod -> Tick] /\ \A p \in Pod : tick[p] = NoTick
    BY NoTickTyped DEF Init
  <1>2. Typed
    BY <1>1 DEF Init, Typed
  <1>3. Paid
    BY <1>1, NoTickTyped DEF Init, Paid
  <1>4. Told
    BY <1>1, NoTickTyped DEF Init, Told, Idle
  <1> QED BY <1>2, <1>3, <1>4 DEF DispatchInv

(* The production ticks that p must know of.                               *)
Crowd(p) == {q \in Pod \ debug : q # p /\ ~Idle(q)}

(* A step of a tick that neither comes from nor leads to a SETEX.          *)
LEMMA PlainTick ==
  ASSUME DispatchInv, NEW p \in Pod, NEW t \in Tick,
         tick' = [tick EXCEPT ![p] = t],
         UNCHANGED <<debug, outage, redis, due, local, mailed>>,
         tick[p].at # "set", t.at # "set",
         \A q \in Pod : q # p /\ q \in shared => q \in shared',
         p \notin debug =>
           /\ t.cooling \subseteq mailed
           /\ (t.at # "idle" /\ Crowd(p) # {} => Crowd(p) \cup {p} \subseteq shared')
           /\ (t.asked /\ t.at = "group" /\ p \notin shared' =>
                 \A k \in t.todo : due[k] = 0)
  PROVE  DispatchInv'
  <1>1. /\ tick' \in [Pod -> Tick] /\ tick'[p] = t
        /\ \A q \in Pod : q # p => tick'[q] = tick[q]
    BY OneTick DEF DispatchInv
  <1>2. Typed'
    BY <1>1 DEF DispatchInv, Typed
  <1>3. Paid'
    <2>1. \A q \in Pod \ debug : /\ tick'[q].cooling \subseteq mailed
                                 /\ tick'[q].at = "set" => tick'[q].key \in mailed
      BY <1>1 DEF DispatchInv, Paid
    <2> QED BY <2>1 DEF DispatchInv, Paid
  <1>4. Told'
    <2>1. \A q \in Pod \ debug : Idle(q)' <=> tick'[q].at = "idle"
      BY DEF Idle
    <2>2. ASSUME NEW q \in Pod \ debug, NEW r \in Pod \ debug, q # r,
                 ~Idle(q)', ~Idle(r)'
          PROVE  q \in shared'
      <3>1. CASE q = p
        <4>1. r \in Crowd(p) /\ t.at # "idle"
          BY <1>1, <2>1, <2>2, <3>1 DEF Crowd, Idle
        <4> QED BY <2>2, <3>1, <4>1
      <3>2. CASE r = p
        <4>1. q \in Crowd(p) /\ t.at # "idle"
          BY <1>1, <2>1, <2>2, <3>2 DEF Crowd, Idle
        <4> QED BY <2>2, <3>2, <4>1
      <3>3. CASE q # p /\ r # p
        <4>1. ~Idle(q) /\ ~Idle(r)
          BY <1>1, <2>1, <2>2, <3>3 DEF Idle
        <4> QED BY <2>2, <3>3, <4>1 DEF DispatchInv, Told
      <3> QED BY <3>1, <3>2, <3>3
    <2>3. \A k \in Key : Underway(k) => Underway(k)'
      <3> SUFFICES ASSUME NEW k \in Key, Underway(k) PROVE Underway(k)'
        OBVIOUS
      <3>1. PICK q \in Pod \ debug : tick[q].at = "set" /\ tick[q].key = k
        BY DEF Underway
      <3>2. tick'[q] = tick[q]
        BY <1>1, <3>1
      <3> QED BY <3>1, <3>2 DEF Underway
    <2>4. \A k \in Key : due'[k] > 0 => due'[k] <= redis'[k] \/ Underway(k)'
      BY <2>3 DEF DispatchInv, Told
    <2>5. ASSUME NEW q \in Pod \ debug
          PROVE  /\ tick'[q].at = "set" => tick'[q].key \in Key \ tick'[q].todo
                 /\ (tick'[q].asked /\ tick'[q].at \in {"group", "set"}
                       /\ q \notin shared') => \A k \in tick'[q].todo : due[k] = 0
      <3>1. CASE q = p
        BY <1>1, <2>5, <3>1
      <3>2. CASE q # p
        BY <1>1, <2>5, <3>2 DEF DispatchInv, Told
      <3> QED BY <3>1, <3>2
    <2> QED BY <2>2, <2>4, <2>5 DEF Told
  <1> QED BY <1>2, <1>3, <1>4 DEF DispatchInv

(* A tick that goes on has long known of the others.                       *)
LEMMA GoesOn ==
  ASSUME DispatchInv, NEW p \in Pod, ~Idle(p), UNCHANGED shared
  PROVE  /\ \A q \in Pod : q # p /\ q \in shared => q \in shared'
         /\ p \notin debug /\ Crowd(p) # {} => Crowd(p) \cup {p} \subseteq shared'
  BY DEF DispatchInv, Told, Crowd

LEMMA RunAnalysisStep ==
  ASSUME DispatchInv, NEW p \in Pod, NEW iv \in Interval, RunAnalysis(p, iv)
  PROVE  DispatchInv'
  <1> DEFINE t == [NoTick EXCEPT !.at = "collect", !.iv = iv]
  <1>1. t \in Tick /\ t.at = "collect" /\ t.cooling = {}
    BY DEF NoTick, Tick
  <1>2. /\ tick' = [tick EXCEPT ![p] = t] /\ Idle(p)
        /\ UNCHANGED <<debug, outage, redis, due, local, mailed>>
        /\ \/ p \in debug /\ UNCHANGED shared
           \/ /\ held = {}
              /\ shared' = (IF Adrift = {} THEN shared ELSE shared \cup Adrift \cup {p})
    BY DEF RunAnalysis, locks
  <1>3. tick[p].at # "set"
    BY <1>2 DEF Idle
  <1>4. \A q \in Pod : q \in shared => q \in shared'
    BY <1>2
  <1>5. p \notin debug /\ Crowd(p) # {} => Crowd(p) \cup {p} \subseteq shared'
    <2> SUFFICES ASSUME p \notin debug, Crowd(p) # {}
                 PROVE  Crowd(p) \cup {p} \subseteq shared'
      OBVIOUS
    <2>1. Crowd(p) \subseteq Adrift /\ Adrift # {}
      BY <1>2 DEF Crowd, Adrift
    <2> QED BY <1>2, <2>1
  <1> HIDE DEF t
  <1> QED BY <1>1, <1>2, <1>3, <1>4, <1>5, PlainTick

LEMMA CollectStep ==
  ASSUME DispatchInv, NEW p \in Pod, NEW ps \in SUBSET Mailable, Collect(p, ps)
  PROVE  DispatchInv'
  <1> DEFINE t == [tick[p] EXCEPT !.pending = ps,
                     !.at = IF ps = {} THEN "done" ELSE "check",
                     !.todo = {CooldownKey(b) : b \in ps}]
  <1>0. tick \in [Pod -> Tick] /\ tick[p] \in Tick
    BY DEF DispatchInv, Typed
  <1>1. {CooldownKey(b) : b \in ps} \in SUBSET Key
    BY KeyOfBreach
  <1>2. t \in Tick /\ t.at \in {"done", "check"} /\ t.cooling = tick[p].cooling
    BY <1>0, <1>1 DEF Tick
  <1>3. tick' = [tick EXCEPT ![p] = t]
    BY <1>0 DEF Collect
  <1>4. /\ tick[p].at = "collect" /\ UNCHANGED shared
        /\ UNCHANGED <<debug, outage, redis, due, local, mailed>>
    BY DEF Collect, locks
  <1>5. p \notin debug => t.cooling \subseteq mailed
    BY <1>2 DEF DispatchInv, Paid
  <1> HIDE DEF t
  <1> QED BY <1>2, <1>3, <1>4, <1>5, PlainTick, GoesOn DEF Idle

LEMMA CheckStep ==
  ASSUME DispatchInv, NEW p \in Pod, CheckCooldown(p)
  PROVE  DispatchInv'
  <1> DEFINE ask == p \notin debug /\ outage = 0
             cooling == {k \in tick[p].todo :
                           IF ask THEN redis[k] > 0 ELSE local[p][k] > 0}
             t == [tick[p] EXCEPT
                     !.at = IF cooling = tick[p].todo THEN "done" ELSE "group",
                     !.asked = ask, !.cooling = cooling, !.todo = @ \ cooling]
  <1>0. tick \in [Pod -> Tick] /\ tick[p] \in Tick
    BY DEF DispatchInv, Typed
  <1>1. tick[p].at = "check" /\ UNCHANGED <<debug, outage, redis, due, local, mailed>>
          /\ UNCHANGED shared
          /\ tick' = [tick EXCEPT ![p].at = IF cooling = tick[p].todo THEN "done"
                                            ELSE "group",
                        ![p].asked = ask, ![p].cooling = cooling,
                        ![p].todo = @ \ cooling]
    BY DEF CheckCooldown, locks
  <1>2. tick[p].todo \subseteq Key /\ cooling \subseteq tick[p].todo /\ ask \in BOOLEAN
    BY <1>0 DEF Tick
  <1>3. p \notin debug => cooling \subseteq mailed
    BY <1>2 DEF DispatchInv, Paid
  <1>4. ask /\ p \notin shared => \A k \in tick[p].todo \ cooling : due[k] = 0
    <2> SUFFICES ASSUME ask, p \notin shared, NEW k \in tick[p].todo \ cooling
                 PROVE  due[k] = 0
      OBVIOUS
    <2>1. k \in Key /\ redis[k] \in Nat /\ due[k] \in Nat /\ ~(redis[k] > 0)
      BY <1>2 DEF DispatchInv, Typed
    <2>2. ~Underway(k)
      <3>1. ASSUME NEW q \in Pod \ debug, tick[q].at = "set" PROVE FALSE
        <4>1. CASE q = p
          BY <1>1, <3>1, <4>1
        <4>2. CASE q # p
          BY <1>1, <3>1, <4>2 DEF DispatchInv, Told, Idle
        <4> QED BY <4>1, <4>2
      <3> QED BY <3>1 DEF Underway
    <2> QED BY <2>1, <2>2 DEF DispatchInv, Told
  <1> HIDE DEF ask, cooling
  <1>5. t \in Tick
    BY <1>0, <1>2 DEF Tick
  <1>6. t.at \in {"done", "group"} /\ t.cooling = cooling
          /\ t.todo = tick[p].todo \ cooling /\ t.asked = ask
    BY <1>0 DEF Tick
  <1>7. tick' = [tick EXCEPT ![p] = t]
    BY <1>0, <1>1
  <1> HIDE DEF t
  <1> QED BY <1>1, <1>3, <1>4, <1>5, <1>6, <1>7, PlainTick, GoesOn DEF Idle

LEMMA SendFailsStep ==
  ASSUME DispatchInv, NEW p \in Pod, NEW k \in tick[p].todo, SendFails(p, k)
  PROVE  DispatchInv'
  <1> DEFINE t == [tick[p] EXCEPT !.todo = @ \ {k},
                     !.at = NextGroup(tick[p].todo \ {k})]
  <1>0. tick \in [Pod -> Tick] /\ tick[p] \in Tick
    BY DEF DispatchInv, Typed
  <1>1. tick[p].at = "group" /\ UNCHANGED <<debug, outage, redis, due, local, mailed>>
          /\ UNCHANGED shared
          /\ tick' = [tick EXCEPT ![p].todo = @ \ {k},
                        ![p].at = NextGroup(tick[p].todo \ {k})]
    BY DEF SendFails, locks
  <1>2. NextGroup(tick[p].todo \ {k}) \in {"done", "group"}
    BY DEF NextGroup
  <1>3. t \in Tick /\ t.at \in {"done", "group"} /\ t.cooling = tick[p].cooling
          /\ t.todo = tick[p].todo \ {k} /\ t.asked = tick[p].asked
    BY <1>0, <1>2 DEF Tick
  <1>4. tick' = [tick EXCEPT ![p] = t]
    BY <1>0, <1>1
  <1>5. p \notin debug => t.cooling \subseteq mailed
    BY <1>3 DEF DispatchInv, Paid
  <1>6. p \notin debug /\ t.asked /\ p \notin shared => \A x \in t.todo : due[x] = 0
    BY <1>1, <1>3 DEF DispatchInv, Told
  <1> HIDE DEF t
  <1> QED BY <1>1, <1>3, <1>4, <1>5, <1>6, PlainTick, GoesOn DEF Idle

(* Mail is confirmed.                                                      *)
LEMMA SentStep ==
  ASSUME DispatchInv, NEW p \in Pod, NEW k \in tick[p].todo,
         NEW b \in Members(p, k), Sent(p, k, ChannelOf(b))
  PROVE  DispatchInv'
  <1> DEFINE n == ChannelOf(b).minutes
             t == [tick[p] EXCEPT !.at = "set", !.todo = @ \ {k}, !.key = k,
                     !.minutes = n, !.sent = @ \cup {k}]
  <1>0. /\ tick \in [Pod -> Tick] /\ tick[p] \in Tick /\ LocalTtl \in Nat
        /\ redis \in [Key -> Nat] /\ due \in [Key -> Nat]
        /\ local \in [Pod -> [Key -> Nat]]
    BY DispatchAssumption DEF DispatchInv, Typed
  <1>1. k \in Key /\ b \in Mailable /\ CooldownKey(b) = k /\ Ident(b) = k
          /\ n \in Nat
    <2>1. k \in Key /\ b \in Mailable /\ CooldownKey(b) = k
      BY <1>0 DEF Tick, Members
    <2> QED BY <2>1, KeyOfBreach
  <1>2. /\ tick[p].at = "group" /\ UNCHANGED <<debug, shared, outage, redis>>
        /\ tick' = [tick EXCEPT ![p].at = "set", ![p].todo = @ \ {k},
                      ![p].key = k, ![p].minutes = n, ![p].sent = @ \cup {k}]
        /\ local' = [local EXCEPT ![p][k] = LocalTtl]
    BY DEF Sent, locks
  <1>3. \/ p \in debug /\ mailed' = mailed /\ due' = due
        \/ /\ p \notin debug /\ due' = [due EXCEPT ![k] = n]
           /\ mailed' = mailed \cup {Ident(x) : x \in Members(p, k)}
    BY DEF Sent
  <1> HIDE DEF n
  <1>4. t \in Tick
    BY <1>0, <1>1 DEF Tick
  <1>5. t.at = "set" /\ t.cooling = tick[p].cooling /\ t.todo = tick[p].todo \ {k}
          /\ t.asked = tick[p].asked /\ t.key = k /\ t.minutes = n
    BY <1>0 DEF Tick
  <1>6. tick' = [tick EXCEPT ![p] = t]
    BY <1>0, <1>2
  <1> HIDE DEF t
  <1>7. /\ tick' \in [Pod -> Tick] /\ tick'[p] = t
        /\ \A q \in Pod : q # p => tick'[q] = tick[q]
    BY <1>4, <1>6, OneTick DEF DispatchInv
  <1>8. mailed \subseteq mailed' /\ (p \notin debug => k \in mailed')
    BY <1>1, <1>3
  <1>9. Typed'
    BY <1>0, <1>1, <1>2, <1>3, <1>7 DEF DispatchInv, Typed
  <1>10. Paid'
    <2>1. \A x \in Key : redis'[x] > 0 => x \in mailed'
      BY <1>2, <1>8 DEF DispatchInv, Paid
    <2>2. ASSUME NEW q \in Pod \ debug', NEW x \in Key, local'[q][x] > 0
          PROVE  x \in mailed'
      <3>1. CASE q = p /\ x = k
        BY <1>2, <1>8, <3>1
      <3>2. CASE ~(q = p /\ x = k)
        <4>1. local'[q][x] = local[q][x]
          BY <1>0, <1>2, <3>2
        <4> QED BY <1>2, <1>8, <2>2, <4>1 DEF DispatchInv, Paid
      <3> QED BY <3>1, <3>2
    <2>3. ASSUME NEW q \in Pod \ debug'
          PROVE  /\ tick'[q].cooling \subseteq mailed'
                 /\ tick'[q].at = "set" => tick'[q].key \in mailed'
      <3>1. CASE q = p
        BY <1>2, <1>5, <1>7, <1>8, <2>3, <3>1 DEF DispatchInv, Paid
      <3>2. CASE q # p
        BY <1>2, <1>7, <1>8, <2>3, <3>2 DEF DispatchInv, Paid
      <3> QED BY <3>1, <3>2
    <2> QED BY <2>1, <2>2, <2>3 DEF Paid
  <1>11. Told'
    <2>1. \A q, r \in Pod \ debug' : q # r => Idle(q)' \/ Idle(r)' \/ q \in shared'
      BY <1>2, <1>5, <1>7 DEF DispatchInv, Told, Idle
    <2>2. ASSUME NEW x \in Key, due'[x] > 0
          PROVE  due'[x] <= redis'[x] \/ Underway(x)'
      <3>1. CASE p \notin debug /\ x = k
        <4>1. due'[k] = n
          BY <1>0, <1>1, <1>3, <3>1
        <4> QED BY <1>1, <1>2, <1>5, <1>7, <3>1, <4>1 DEF Underway
      <3>2. CASE ~(p \notin debug /\ x = k)
        <4>1. due'[x] = due[x]
          BY <1>0, <1>3, <3>2
        <4>2. Underway(x) => Underway(x)'
          <5> SUFFICES ASSUME Underway(x) PROVE Underway(x)'
            OBVIOUS
          <5>1. PICK q \in Pod \ debug : tick[q].at = "set" /\ tick[q].key = x
            BY DEF Underway
          <5>2. tick'[q] = tick[q]
            BY <1>2, <1>7, <5>1
          <5> QED BY <1>2, <4>1, <5>1, <5>2 DEF Underway
        <4> QED BY <1>2, <2>2, <4>1, <4>2 DEF DispatchInv, Told
      <3> QED BY <3>1, <3>2
    <2>3. ASSUME NEW q \in Pod \ debug'
          PROVE  /\ tick'[q].at = "set" => tick'[q].key \in Key \ tick'[q].todo
                 /\ (tick'[q].asked /\ tick'[q].at \in {"group", "set"}
                       /\ q \notin shared') =>
                      \A x \in tick'[q].todo : due'[x] = 0
      <3>1. CASE q = p
        <4>1. tick[p].asked /\ p \notin shared => \A x \in tick[p].todo : due[x] = 0
          BY <1>2, <2>3, <3>1 DEF DispatchInv, Told
        <4>2. tick[p].todo \subseteq Key
          BY <1>0 DEF Tick
        <4>3. \A x \in Key : x # k => due'[x] = due[x]
          BY <1>0, <1>3
        <4> QED BY <1>1, <1>2, <1>5, <1>7, <3>1, <4>1, <4>2, <4>3
      <3>2. CASE q # p
        <4>1. tick'[q] = tick[q] /\ q \in Pod \ debug
          BY <1>2, <1>7, <2>3, <3>2
        <4>2. CASE p \in debug
          BY <1>2, <1>3, <4>1, <4>2 DEF DispatchInv, Told
        <4>3. CASE p \notin debug
          <5>1. tick[q].at = "idle" \/ q \in shared
            BY <1>2, <3>2, <4>1, <4>3 DEF DispatchInv, Told, Idle
          <5>2. tick[q].at = "set" => tick[q].key \in Key \ tick[q].todo
            BY <4>1 DEF DispatchInv, Told
          <5> QED BY <1>2, <4>1, <5>1, <5>2
        <4> QED BY <4>2, <4>3
      <3> QED BY <3>1, <3>2
    <2> QED BY <2>1, <2>2, <2>3 DEF Told
  <1> QED BY <1>9, <1>10, <1>11 DEF DispatchInv

(* The SETEX of the tick of p: its cooldown arrives in Redis or is given   *)
(* up, every other one is where it was.                                    *)
LEMMA SetStep ==
  ASSUME DispatchInv, NEW p \in Pod, SetCooldown(p)
  PROVE  DispatchInv'
  <1> DEFINE k == tick[p].key
             n == tick[p].minutes
             asks == p \notin debug /\ outage = 0
             t == IF asks /\ n = 0 THEN NoTick
                  ELSE [tick[p] EXCEPT !.at = NextGroup(tick[p].todo),
                                       !.key = <<>>, !.minutes = 0]
  <1>0. /\ tick \in [Pod -> Tick] /\ tick[p] \in Tick /\ n \in Nat
        /\ redis \in [Key -> Nat] /\ due \in [Key -> Nat]
    BY DEF DispatchInv, Typed, Tick
  <1>1. /\ tick[p].at = "set" /\ UNCHANGED <<debug, outage, local, mailed>>
        /\ redis' = IF asks /\ n > 0 THEN [redis EXCEPT ![k] = n] ELSE redis
        /\ due' = IF asks THEN [due EXCEPT ![k] = Lesser(@, n)] ELSE Untold(p)
        /\ tick' = [tick EXCEPT ![p] = t]
        /\ \A q \in Pod : q # p => (q \in shared' <=> q \in shared)
        /\ t.at = "idle" \/ (p \in shared' <=> p \in shared)
    <2>1. tick[p].at = "set" /\ UNCHANGED <<debug, outage, local, mailed>>
      BY DEF SetCooldown
    <2>2. /\ redis' = IF asks /\ n > 0 THEN [redis EXCEPT ![k] = n] ELSE redis
          /\ due' = IF asks THEN [due EXCEPT ![k] = Lesser(@, n)] ELSE Untold(p)
      BY DEF SetCooldown
    <2>3. CASE asks /\ n = 0
      <3>1. tick' = [tick EXCEPT ![p] = NoTick] /\ shared' = shared \ {p} /\ t = NoTick
        BY <2>3 DEF SetCooldown, Over
      <3> QED BY <2>1, <2>2, <3>1, NoTickTyped
    <2>4. CASE ~(asks /\ n = 0)
      <3>1. /\ tick' = [tick EXCEPT ![p].at = NextGroup(tick[p].todo), ![p].key = <<>>,
                          ![p].minutes = 0]
            /\ UNCHANGED shared
        BY <2>4 DEF SetCooldown, locks
      <3>2. t = [tick[p] EXCEPT !.at = NextGroup(tick[p].todo), !.key = <<>>,
                                !.minutes = 0]
        BY <2>4
      <3> HIDE DEF t
      <3> QED BY <1>0, <2>1, <2>2, <3>1, <3>2
    <2> QED BY <2>3, <2>4
  <1>2. NextGroup(tick[p].todo) \in {"done", "group"}
    BY DEF NextGroup
  <1>3. t \in Tick /\ t.at \in {"idle", "done", "group"}
    BY <1>0, <1>2, NoTickTyped DEF Tick
  <1>4. \/ t.at = "idle" /\ t.cooling = {}
        \/ t.cooling = tick[p].cooling /\ t.todo = tick[p].todo
             /\ t.asked = tick[p].asked
    BY <1>0, NoTickTyped DEF Tick
  <1>5. p \notin debug => k \in Key \ tick[p].todo /\ k \in mailed
    BY <1>1 DEF DispatchInv, Told, Paid
  <1>6. asks \in BOOLEAN /\ (asks => p \notin debug)
    OBVIOUS
  <1> HIDE DEF t, k, n, asks
  <1>7. /\ tick' \in [Pod -> Tick] /\ tick'[p] = t
        /\ \A q \in Pod : q # p => tick'[q] = tick[q]
    BY <1>1, <1>3, OneTick DEF DispatchInv
  <1>8. /\ redis' \in [Key -> Nat] /\ due' \in [Key -> Nat]
        /\ \A x \in Key : x # k \/ p \in debug =>
                            redis'[x] = redis[x] /\ due'[x] = due[x]
        /\ \A x \in Key : due'[x] <= due[x]
        /\ p \notin debug => due'[k] = 0 \/ due'[k] <= redis'[k]
    <2>1. CASE asks
      <3>1. k \in Key /\ p \notin debug
        BY <1>5, <1>6, <2>1
      <3>2. Lesser(due[k], n) \in Nat /\ Lesser(due[k], n) <= due[k]
              /\ Lesser(due[k], n) <= n
        BY <1>0, <3>1 DEF Lesser
      <3>3. due' = [due EXCEPT ![k] = Lesser(due[k], n)]
        BY <1>1, <2>1
      <3> QED BY <1>0, <1>1, <2>1, <3>1, <3>2, <3>3
    <2>2. CASE ~asks
      <3>1. redis' = redis
        BY <1>1, <2>2
      <3>2. due' = [x \in Key |-> IF p \notin debug /\ k = x THEN 0 ELSE due[x]]
        BY <1>1, <2>2 DEF Untold, k
      <3> QED BY <1>0, <1>5, <3>1, <3>2
    <2> QED BY <2>1, <2>2
  <1>9. Typed'
    BY <1>1, <1>7, <1>8 DEF DispatchInv, Typed
  <1>10. Paid'
    <2>1. ASSUME NEW x \in Key, redis'[x] > 0 PROVE x \in mailed'
      <3>1. CASE x = k /\ p \notin debug
        BY <1>1, <1>5, <3>1
      <3>2. CASE ~(x = k /\ p \notin debug)
        BY <1>1, <1>8, <2>1, <3>2 DEF DispatchInv, Paid
      <3> QED BY <3>1, <3>2
    <2>2. ASSUME NEW q \in Pod \ debug'
          PROVE  /\ tick'[q].cooling \subseteq mailed'
                 /\ tick'[q].at = "set" => tick'[q].key \in mailed'
      <3>1. CASE q = p
        BY <1>1, <1>3, <1>4, <1>7, <2>2, <3>1 DEF DispatchInv, Paid
      <3>2. CASE q # p
        BY <1>1, <1>7, <2>2, <3>2 DEF DispatchInv, Paid
      <3> QED BY <3>1, <3>2
    <2> QED BY <1>1, <2>1, <2>2 DEF DispatchInv, Paid
  <1>11. Told'
    <2>1. ASSUME NEW q \in Pod \ debug', NEW r \in Pod \ debug', q # r
          PROVE  Idle(q)' \/ Idle(r)' \/ q \in shared'
      <3>1. q \in Pod \ debug /\ r \in Pod \ debug
        BY <1>1
      <3>2. Idle(q) \/ Idle(r) \/ q \in shared
        BY <2>1, <3>1 DEF DispatchInv, Told
      <3>3. (Idle(q) => Idle(q)') /\ (Idle(r) => Idle(r)')
        BY <1>1, <1>7, <3>1 DEF Idle
      <3>4. q \in shared => q \in shared' \/ Idle(q)'
        BY <1>1, <1>7, <3>1 DEF Idle
      <3> QED BY <3>2, <3>3, <3>4
    <2>2. ASSUME NEW x \in Key, due'[x] > 0
          PROVE  due'[x] <= redis'[x] \/ Underway(x)'
      <3>1. CASE x = k /\ p \notin debug
        BY <1>8, <2>2, <3>1
      <3>2. CASE ~(x = k /\ p \notin debug)
        <4>1. due'[x] = due[x] /\ redis'[x] = redis[x]
          BY <1>8, <3>2
        <4>2. CASE due[x] <= redis[x]
          BY <4>1, <4>2
        <4>3. CASE Underway(x)
          <5>1. PICK q \in Pod \ debug : tick[q].at = "set" /\ tick[q].key = x
            BY <4>3 DEF Underway
          <5>2. q # p
            BY <3>2, <5>1 DEF k
          <5>3. tick'[q] = tick[q] /\ q \in Pod \ debug'
            BY <1>1, <1>7, <5>1, <5>2
          <5> QED BY <5>1, <5>3 DEF Underway
        <4> QED BY <2>2, <4>1, <4>2, <4>3 DEF DispatchInv, Told
      <3> QED BY <3>1, <3>2
    <2>3. ASSUME NEW q \in Pod \ debug'
          PROVE  /\ tick'[q].at = "set" => tick'[q].key \in Key \ tick'[q].todo
                 /\ (tick'[q].asked /\ tick'[q].at \in {"group", "set"}
                       /\ q \notin shared') => \A x \in tick'[q].todo : due'[x] = 0
      <3>1. \A x \in tick[q].todo : x \in Key
        BY <1>0, <2>3 DEF Tick
      <3>2. \A x \in Key : due[x] = 0 => due'[x] = 0
        BY <1>0, <1>8
      <3>3. CASE q = p
        <4>1. tick[p].asked /\ p \notin shared => \A x \in tick[p].todo : due[x] = 0
          BY <1>1, <2>3, <3>3 DEF DispatchInv, Told
        <4> QED BY <1>1, <1>3, <1>4, <1>7, <3>1, <3>2, <3>3, <4>1
      <3>4. CASE q # p
        <4>1. q \in Pod \ debug /\ tick'[q] = tick[q] /\ (q \in shared' <=> q \in shared)
          BY <1>1, <1>7, <2>3, <3>4
        <4>2. tick[q].at = "set" => tick[q].key \in Key \ tick[q].todo
          BY <4>1 DEF DispatchInv, Told
        <4>3. (tick[q].asked /\ tick[q].at \in {"group", "set"} /\ q \notin shared) =>
                \A x \in tick[q].todo : due[x] = 0
          BY <4>1 DEF DispatchInv, Told
        <4> QED BY <3>1, <3>2, <4>1, <4>2, <4>3
      <3> QED BY <3>3, <3>4
    <2> QED BY <2>1, <2>2, <2>3 DEF Told
  <1> QED BY <1>9, <1>10, <1>11 DEF DispatchInv

(* The tick of q is over, or is what it was.                               *)
OverOrSame(q) == \/ tick'[q] = NoTick
                 \/ tick'[q] = tick[q] /\ (q \in shared => q \in shared')

(* Cooldowns that only fade, ticks that only end.                          *)
LEMMA Fading ==
  ASSUME DispatchInv, Typed', UNCHANGED <<debug, mailed>>,
         \A q \in Pod : OverOrSame(q),
         \A k \in Key : redis'[k] > 0 => redis[k] > 0,
         \A q \in Pod, k \in Key : local'[q][k] > 0 => local[q][k] > 0,
         \A k \in Key : due'[k] <= due[k],
         \A k \in Key : due'[k] > 0 => due'[k] <= redis'[k] \/ Underway(k)'
  PROVE  DispatchInv'
  <1>1. Paid'
    <2>1. ASSUME NEW q \in Pod \ debug'
          PROVE  /\ tick'[q].cooling \subseteq mailed'
                 /\ tick'[q].at = "set" => tick'[q].key \in mailed'
      BY <2>1, NoTickTyped DEF DispatchInv, Paid, OverOrSame
    <2> QED BY <2>1 DEF DispatchInv, Paid
  <1>2. Told'
    <2>1. ASSUME NEW q \in Pod \ debug', NEW r \in Pod \ debug', q # r
          PROVE  Idle(q)' \/ Idle(r)' \/ q \in shared'
      <3>1. q \in Pod \ debug /\ r \in Pod \ debug
        OBVIOUS
      <3>2. Idle(q) \/ Idle(r) \/ q \in shared
        BY <2>1, <3>1 DEF DispatchInv, Told
      <3> QED BY <3>1, <3>2, NoTickTyped DEF Idle, OverOrSame
    <2>2. ASSUME NEW q \in Pod \ debug'
          PROVE  /\ tick'[q].at = "set" => tick'[q].key \in Key \ tick'[q].todo
                 /\ (tick'[q].asked /\ tick'[q].at \in {"group", "set"}
                       /\ q \notin shared') => \A x \in tick'[q].todo : due'[x] = 0
      <3>0. due \in [Key -> Nat] /\ due' \in [Key -> Nat] /\ tick \in [Pod -> Tick]
        BY DEF DispatchInv, Typed
      <3>1. CASE tick'[q] = NoTick
        BY <3>1, NoTickTyped
      <3>2. CASE tick'[q] = tick[q] /\ (q \in shared => q \in shared')
        <4>1. q \in Pod \ debug /\ tick[q].todo \subseteq Key
          BY <2>2, <3>0 DEF Tick
        <4>2. tick[q].at = "set" => tick[q].key \in Key \ tick[q].todo
          BY <4>1 DEF DispatchInv, Told
        <4>3. (tick[q].asked /\ tick[q].at \in {"group", "set"} /\ q \notin shared) =>
                \A x \in tick[q].todo : due[x] = 0
          BY <4>1 DEF DispatchInv, Told
        <4>4. \A x \in Key : due[x] = 0 => due'[x] = 0
          BY <3>0
        <4> QED BY <3>2, <4>1, <4>2, <4>3, <4>4
      <3> QED BY <2>2, <3>1, <3>2 DEF OverOrSame
    <2> QED BY <2>1, <2>2 DEF Told
  <1> QED BY <1>1, <1>2 DEF DispatchInv

(* A tick is over, whether it came to its end or not: what it had still to *)
(* tell Redis is void.                                                     *)
LEMMA OverStep ==
  ASSUME DispatchInv, NEW p \in Pod, TickRaises(p) \/ TickEnds(p) \/ Restart(p)
  PROVE  DispatchInv'
  <1>0. /\ tick \in [Pod -> Tick] /\ redis \in [Key -> Nat]
        /\ due \in [Key -> Nat] /\ local \in [Pod -> [Key -> Nat]]
    BY DEF DispatchInv, Typed
  <1>1. /\ tick' = [tick EXCEPT ![p] = NoTick] /\ shared' = shared \ {p}
        /\ local' = local \/ local' = [local EXCEPT ![p] = [k \in Key |-> 0]]
        /\ due' = Untold(p) \/ (due' = due /\ tick[p].at = "done")
        /\ UNCHANGED <<debug, outage, redis, mailed>>
    BY DEF TickRaises, TickEnds, Restart, Over
  <1>2. /\ tick' \in [Pod -> Tick] /\ tick'[p] = NoTick
        /\ \A q \in Pod : q # p => tick'[q] = tick[q] /\ (q \in shared => q \in shared')
    BY <1>0, <1>1, NoTickTyped
  <1>3. due' \in [Key -> Nat] /\ \A k \in Key :
          /\ due'[k] <= due[k]
          /\ due'[k] > 0 => due'[k] = due[k]
          /\ due'[k] > 0 => ~(p \notin debug /\ tick[p].at = "set" /\ tick[p].key = k)
    BY <1>0, <1>1 DEF Untold
  <1>4. Typed'
    BY <1>0, <1>1, <1>2, <1>3 DEF DispatchInv, Typed
  <1>5. \A q \in Pod, k \in Key : local'[q][k] > 0 => local[q][k] > 0
    BY <1>0, <1>1
  <1>6. ASSUME NEW k \in Key, due'[k] > 0
        PROVE  due'[k] <= redis'[k] \/ Underway(k)'
    <2>1. due'[k] = due[k] /\ ~(p \notin debug /\ tick[p].at = "set" /\ tick[p].key = k)
      BY <1>3, <1>6
    <2>2. CASE due[k] <= redis[k]
      BY <1>1, <2>1, <2>2
    <2>3. CASE Underway(k)
      <3>1. PICK q \in Pod \ debug : tick[q].at = "set" /\ tick[q].key = k
        BY <2>3 DEF Underway
      <3>2. tick'[q] = tick[q]
        BY <1>2, <2>1, <3>1
      <3> QED BY <1>1, <3>1, <3>2 DEF Underway
    <2> QED BY <1>6, <2>1, <2>2, <2>3 DEF DispatchInv, Told
  <1>7. \A q \in Pod : OverOrSame(q)
    BY <1>2 DEF OverOrSame
  <1>8. \A k \in Key : redis'[k] > 0 => redis[k] > 0
    BY <1>1
  <1>9. \A k \in Key : due'[k] <= due[k]
    BY <1>3
  <1>10. \A k \in Key : due'[k] > 0 => due'[k] <= redis'[k] \/ Underway(k)'
    BY <1>6
  <1> QED BY <1>1, <1>4, <1>5, <1>7, <1>8, <1>9, <1>10, Fading

LEMMA ClearStep ==
  ASSUME DispatchInv, NEW p \in Pod, NEW x \in Key, ClearCooldown(p, x)
  PROVE  DispatchInv'
  <1>0. /\ tick \in [Pod -> Tick] /\ redis \in [Key -> Nat]
        /\ due \in [Key -> Nat] /\ local \in [Pod -> [Key -> Nat]]
    BY DEF DispatchInv, Typed
  <1>1. /\ local' = [local EXCEPT ![p][x] = 0]
        /\ \/ redis' = redis /\ due' = due
           \/ redis' = [redis EXCEPT ![x] = 0] /\ due' = [due EXCEPT ![x] = 0]
        /\ UNCHANGED <<debug, tick, shared, outage, mailed>>
    BY DEF ClearCooldown, locks
  <1>2. Typed'
    <2>1. redis' \in [Key -> Nat] /\ due' \in [Key -> Nat]
      BY <1>0, <1>1
    <2>2. local' \in [Pod -> [Key -> Nat]]
      BY <1>0, <1>1
    <2> QED BY <1>0, <1>1, <2>1, <2>2 DEF DispatchInv, Typed
  <1>3. \A k \in Key : /\ due'[k] <= due[k] /\ (redis'[k] > 0 => redis[k] > 0)
                       /\ due'[k] > 0 => due'[k] = due[k] /\ redis'[k] = redis[k]
    BY <1>0, <1>1
  <1>4. \A q \in Pod, k \in Key : local'[q][k] > 0 => local[q][k] > 0
    BY <1>0, <1>1
  <1>5. \A k \in Key : Underway(k) => Underway(k)'
    BY <1>1 DEF Underway
  <1>6. \A k \in Key : due'[k] > 0 => due'[k] <= redis'[k] \/ Underway(k)'
    BY <1>3, <1>5 DEF DispatchInv, Told
  <1>8. \A q \in Pod : OverOrSame(q)
    BY <1>1 DEF OverOrSame
  <1> QED BY <1>1, <1>2, <1>3, <1>4, <1>6, <1>8, Fading

LEMMA ClockStep ==
  ASSUME DispatchInv, Clock
  PROVE  DispatchInv'
  <1>0. /\ tick \in [Pod -> Tick] /\ redis \in [Key -> Nat] /\ outage \in Nat
        /\ due \in [Key -> Nat] /\ local \in [Pod -> [Key -> Nat]]
    BY DEF DispatchInv, Typed
  <1>1. /\ redis' = [k \in Key |-> Less(redis[k])]
        /\ local' = [p \in Pod |-> [k \in Key |-> Less(local[p][k])]]
        /\ due' = [k \in Key |-> Less(due[k])]
        /\ outage' \in Nat /\ UNCHANGED <<debug, tick, shared, mailed>>
    BY <1>0 DEF Clock, locks
  <1>2. Typed'
    BY <1>0, <1>1, LessTyped DEF Typed
  <1>3. \A k \in Key : redis'[k] > 0 => redis[k] > 0
    BY <1>0, <1>1, LessTyped
  <1>4. \A q \in Pod, k \in Key : local'[q][k] > 0 => local[q][k] > 0
    BY <1>0, <1>1, LessTyped
  <1>5. \A k \in Key : due'[k] <= due[k]
    BY <1>0, <1>1, LessTyped
  <1>6. \A k \in Key : Underway(k) => Underway(k)'
    BY <1>1 DEF Underway
  <1>7. \A k \in Key : due'[k] > 0 => due'[k] <= redis'[k] \/ Underway(k)'
    <2> SUFFICES ASSUME NEW k \in Key, due'[k] > 0, ~Underway(k)
                 PROVE  due'[k] <= redis'[k]
      BY <1>6
    <2>1. due[k] > 0
      BY <1>0, <1>1, LessTyped
    <2>2. due[k] <= redis[k]
      BY <2>1 DEF DispatchInv, Told
    <2> QED BY <1>0, <1>1, <2>2, LessTyped
  <1>8. \A q \in Pod : OverOrSame(q)
    BY <1>1 DEF OverOrSame
  <1> QED BY <1>1, <1>2, <1>3, <1>4, <1>5, <1>7, <1>8, Fading

(* Redis comes and goes, a lock is lost.                                   *)
LEMMA StillStep ==
  ASSUME DispatchInv, \/ RedisFails \/ RedisReturns \/ UNCHANGED vars
                      \/ \E p \in Pod : LoseLock(p)
  PROVE  DispatchInv'
  <1>1. UNCHANGED <<debug, tick, shared, redis, local, mailed, due>> /\ outage' \in Nat
    BY DEF RedisFails, RedisReturns, LoseLock, vars, locks, DispatchInv, Typed
  <1> QED BY <1>1 DEF DispatchInv, Typed, Paid, Told, Underway, Idle

LEMMA DispatchStep ==
  ASSUME DispatchInv, [Next]_vars
  PROVE  DispatchInv'
  <1>1. ASSUME NEW p \in Pod, TickStep(p) PROVE DispatchInv'
    BY <1>1, CollectStep, CheckStep, SetStep, OverStep, SentStep DEF TickStep
  <1>2. ASSUME NEW p \in Pod,
               \/ \E iv \in Interval : RunAnalysis(p, iv)
               \/ TickRaises(p) \/ Restart(p) \/ LoseLock(p)
               \/ \E k \in tick[p].todo : SendFails(p, k)
               \/ \E k \in Key : ClearCooldown(p, k)
        PROVE  DispatchInv'
    BY <1>2, RunAnalysisStep, OverStep, StillStep, SendFailsStep, ClearStep
  <1> QED BY <1>1, <1>2, ClockStep, StillStep DEF Next

-----------------------------------------------------------------------------
(* The inductive invariant: cooldowns are paid for, what Redis was told is *)
(* in Redis or on its way there, and two production ticks run at once only *)
(* when the lock of one was lost, which both are marked with.              *)
THEOREM DispatchInvariance == Spec => []DispatchInv
  <1>1. DispatchInv /\ [Next]_vars => DispatchInv'
    BY DispatchStep
  <1> QED BY <1>1, DispatchInit, PTL DEF Spec

(* A breach is only ever suppressed because mail about the same group,     *)
(* channel and severity was confirmed (cooldown.py:62).                    *)
THEOREM SuppressionPaid == Spec => []SuppressionIsPaid
  <1>1. DispatchInv => SuppressionIsPaid
    <2> SUFFICES ASSUME DispatchInv, NEW p \in Pod \ debug,
                        NEW b \in tick[p].pending,
                        CooldownKey(b) \in tick[p].cooling
                 PROVE  Ident(b) \in mailed
      BY DEF SuppressionIsPaid
    <2>1. b \in Mailable /\ tick[p].cooling \subseteq mailed
      BY DEF DispatchInv, Typed, Tick, Paid
    <2> QED BY <2>1, KeyOfBreach
  <1> QED BY <1>1, DispatchInvariance, PTL

(* Only Sent brings a tick from its groups to a SETEX.                     *)
LEMMA OnlySent ==
  ASSUME DispatchInv, [Next]_vars, NEW p \in Pod,
         tick[p].at = "group", tick'[p].at = "set"
  PROVE  tick'[p].key \in tick[p].todo
  <1>0. tick \in [Pod -> Tick]
    BY DEF DispatchInv, Typed
  <1>1. ASSUME NEW q \in Pod, TickRaises(q) \/ TickEnds(q) \/ Restart(q) PROVE FALSE
    <2>1. tick' = [tick EXCEPT ![q] = NoTick]
      BY <1>1 DEF TickRaises, TickEnds, Restart, Over
    <2> QED BY <1>0, <2>1, NoTickTyped
  <1>2. ASSUME NEW q \in Pod, NEW iv \in Interval, RunAnalysis(q, iv) PROVE FALSE
    <2>1. tick' = [tick EXCEPT ![q] = [NoTick EXCEPT !.at = "collect", !.iv = iv]]
      BY <1>2 DEF RunAnalysis
    <2> QED BY <1>0, <2>1 DEF NoTick
  <1>3. ASSUME NEW q \in Pod, NEW ps \in SUBSET Mailable, Collect(q, ps) PROVE FALSE
    <2>1. tick[q].at = "collect" /\ q # p
      BY <1>3 DEF Collect
    <2>2. tick'[p] = tick[p]
      BY <1>0, <1>3, <2>1 DEF Collect
    <2> QED BY <2>2
  <1>4. ASSUME NEW q \in Pod, CheckCooldown(q) PROVE FALSE
    <2>1. tick[q].at = "check" /\ q # p
      BY <1>4 DEF CheckCooldown
    <2>2. tick'[p] = tick[p]
      BY <1>0, <1>4, <2>1 DEF CheckCooldown
    <2> QED BY <2>2
  <1>5. ASSUME NEW q \in Pod, SetCooldown(q) PROVE FALSE
    <2>1. tick[q].at = "set" /\ q # p
      BY <1>5 DEF SetCooldown
    <2>2. tick'[p] = tick[p]
      BY <1>0, <1>5, <2>1 DEF SetCooldown, Over
    <2> QED BY <2>2
  <1>6. ASSUME NEW q \in Pod, NEW k \in tick[q].todo, SendFails(q, k) PROVE FALSE
    <2>1. tick' = [tick EXCEPT ![q].todo = @ \ {k},
                     ![q].at = NextGroup(tick[q].todo \ {k})]
      BY <1>6 DEF SendFails
    <2>2. CASE q # p
      BY <1>0, <2>1, <2>2
    <2>3. CASE q = p
      <3>1. tick'[p].at = NextGroup(tick[q].todo \ {k})
        BY <1>0, <2>1, <2>3 DEF Tick
      <3> QED BY <3>1 DEF NextGroup
    <2> QED BY <2>2, <2>3
  <1>7. ASSUME NEW q \in Pod, NEW k \in tick[q].todo, NEW b \in Members(q, k),
               Sent(q, k, ChannelOf(b))
        PROVE  tick'[p].key \in tick[p].todo
    <2>1. tick' = [tick EXCEPT ![q].at = "set", ![q].todo = @ \ {k}, ![q].key = k,
                     ![q].minutes = ChannelOf(b).minutes, ![q].sent = @ \cup {k}]
      BY <1>7 DEF Sent
    <2>2. CASE q # p
      BY <1>0, <2>1, <2>2
    <2>3. CASE q = p
      <3>1. tick'[p].key = k
        BY <1>0, <2>1, <2>3 DEF Tick
      <3> QED BY <3>1, <2>3
    <2> QED BY <2>2, <2>3
  <1>8. CASE UNCHANGED tick
    BY <1>8
  <1>9. CASE RedisFails \/ RedisReturns \/ Clock \/ UNCHANGED vars
             \/ \E q \in Pod : LoseLock(q) \/ \E k \in Key : ClearCooldown(q, k)
    BY <1>8, <1>9 DEF RedisFails, RedisReturns, Clock, vars, ClearCooldown, LoseLock
  <1>10. ASSUME NEW q \in Pod, TickStep(q) PROVE tick'[p].key \in tick[p].todo
    BY <1>10, <1>1, <1>3, <1>4, <1>5, <1>7 DEF TickStep
  <1> QED BY <1>1, <1>2, <1>6, <1>9, <1>10 DEF Next

(* While a cooldown that Redis accepted runs, no production pod mails the  *)
(* key on the word of Redis, unless its tick overlaps one that lost its    *)
(* lock (engine.py:68, cooldown.py:105, lock.py:96).                       *)
THEOREM OneMail == Spec => OneMailPerCooldown
  <1>1. DispatchInv /\ [Next]_vars =>
          [\A p \in Pod \ debug, k \in Key :
             (tick[p].asked /\ tick'[p].at = "set" /\ tick'[p].key = k
                /\ tick[p].at = "group") => due[k] = 0 \/ p \in shared]_vars
    <2> SUFFICES ASSUME DispatchInv, [Next]_vars, NEW p \in Pod \ debug,
                        NEW k \in Key, tick[p].asked, tick'[p].at = "set",
                        tick'[p].key = k, tick[p].at = "group", p \notin shared
                 PROVE  due[k] = 0
      OBVIOUS
    <2>1. k \in tick[p].todo
      BY OnlySent
    <2> QED BY <2>1 DEF DispatchInv, Told
  <1> QED BY <1>1, DispatchInvariance, PTL DEF Spec, OneMailPerCooldown

-----------------------------------------------------------------------------
(* What the outbox keeps.                                                  *)

(* The keys a tick found, and those it could neither suppress nor mail.    *)
Wanted(t) == {CooldownKey(b) : b \in t.pending}
Unsent(t) == Wanted(t) \ (t.todo \cup t.cooling \cup t.sent)

(* The last m entries of an outbox q are different members of F, and all   *)
(* of F unless q has no room for more.                                     *)
Newest(q, m) == (Len(q) - m + 1)..Len(q)
Covers(q, F) ==
  \E m \in 0..Len(q) :
    /\ \A i, j \in Newest(q, m) : i # j => q[i] # q[j]
    /\ \A i \in Newest(q, m) : q[i] \in F
    /\ m = OutboxMax \/ \A k \in F : \E i \in Newest(q, m) : q[i] = k

(* A tick t with the outbox q of its pod: what is still to do has neither  *)
(* been suppressed nor mailed, and what was done with is on record.        *)
Filed(t, q) ==
  /\ t.at \in {"idle", "collect", "check"} => t.cooling = {} /\ t.sent = {}
  /\ t.at = "check" => t.todo = Wanted(t)
  /\ t.at \in {"group", "set", "done"} =>
       /\ t.todo \subseteq Wanted(t) \ (t.cooling \cup t.sent)
       /\ Covers(q, Unsent(t))
  /\ t.at = "done" => t.todo = {}

FiledInv ==
  /\ outbox \in [Pod -> Seq(Key)]
  /\ \A p \in Pod : Len(outbox[p]) <= OutboxMax /\ Filed(tick[p], outbox[p])

(* A failed mail is filed: the newest entries make room for it last.       *)
LEMMA Filing ==
  ASSUME NEW q \in Seq(Key), Len(q) <= OutboxMax, NEW F, NEW k \in Key,
         k \notin F, Covers(q, F),
         NEW r, r = Append(IF Len(q) = OutboxMax THEN Tail(q) ELSE q, k)
  PROVE  r \in Seq(Key) /\ Len(r) <= OutboxMax /\ Covers(r, F \cup {k})
  <1>0. OutboxMax \in Nat \ {0} /\ Len(q) \in Nat
    BY DispatchAssumption
  <1>1. PICK m \in 0..Len(q) :
          /\ \A i, j \in Newest(q, m) : i # j => q[i] # q[j]
          /\ \A i \in Newest(q, m) : q[i] \in F
          /\ m = OutboxMax \/ \A x \in F : \E i \in Newest(q, m) : q[i] = x
    BY DEF Covers
  <1>2. CASE Len(q) < OutboxMax
    <2>1. /\ r = Append(q, k) /\ r \in Seq(Key) /\ Len(r) = Len(q) + 1
          /\ r[Len(q) + 1] = k /\ \A i \in 1..Len(q) : r[i] = q[i]
      BY <1>0, <1>2
    <2>2. Newest(r, m + 1) = Newest(q, m) \cup {Len(q) + 1}
      BY <1>0, <2>1 DEF Newest
    <2>3. \A i \in Newest(q, m) : r[i] = q[i] /\ i # Len(q) + 1
      BY <1>0, <2>1 DEF Newest
    <2>4. \A i, j \in Newest(r, m + 1) : i # j => r[i] # r[j]
      BY <1>1, <2>1, <2>2, <2>3
    <2>5. \A i \in Newest(r, m + 1) : r[i] \in F \cup {k}
      BY <1>1, <2>1, <2>2, <2>3
    <2>6. \A x \in F \cup {k} : \E i \in Newest(r, m + 1) : r[i] = x
      <3>1. m # OutboxMax
        BY <1>0, <1>2
      <3> QED BY <1>1, <2>1, <2>2, <2>3, <3>1
    <2>7. m + 1 \in 0..Len(r)
      BY <1>0, <2>1
    <2>8. Covers(r, F \cup {k})
      BY <2>4, <2>5, <2>6, <2>7 DEF Covers
    <2> QED BY <1>0, <1>2, <2>1, <2>8
  <1>3. CASE Len(q) = OutboxMax
    <2>1. /\ r = Append(Tail(q), k) /\ r \in Seq(Key) /\ Len(r) = Len(q)
          /\ r[Len(q)] = k /\ \A i \in 2..Len(q) : r[i - 1] = q[i]
      BY <1>0, <1>3
    <2> DEFINE n == IF m = OutboxMax THEN m - 1 ELSE m
    <2>2. n \in 0..(OutboxMax - 1) /\ n <= m /\ (m # OutboxMax => n = m)
      BY <1>0, <1>3
    <2> HIDE DEF n
    <2>3. \A i \in Newest(q, n) : i \in Newest(q, m) /\ i \in 2..Len(q)
      BY <1>0, <1>3, <2>2 DEF Newest
    <2>4. \A j \in Newest(r, n + 1) : j = Len(q)
                  \/ (j + 1 \in Newest(q, n) /\ r[j] = q[j + 1])
      <3> TAKE j \in Newest(r, n + 1)
      <3>1. j \in (Len(q) - n)..Len(q)
        BY <1>0, <2>1, <2>2 DEF Newest
      <3>2. CASE j # Len(q)
        <4>1. j + 1 \in Newest(q, n) /\ j + 1 \in 2..Len(q) /\ (j + 1) - 1 = j
          BY <1>0, <1>3, <2>2, <3>1, <3>2 DEF Newest
        <4> QED BY <2>1, <4>1
      <3> QED BY <3>2
    <2>5. \A i \in Newest(q, n) : i - 1 \in Newest(r, n + 1) /\ r[i - 1] = q[i]
      BY <1>0, <1>3, <2>1, <2>2, <2>3 DEF Newest
    <2>6. Len(q) \in Newest(r, n + 1)
      BY <1>0, <2>1, <2>2 DEF Newest
    <2>7. ASSUME NEW i \in Newest(r, n + 1), NEW j \in Newest(r, n + 1), i # j
          PROVE  r[i] # r[j]
      <3>0. i \in Int /\ j \in Int
        BY DEF Newest
      <3>1. CASE i = Len(q)
        BY <1>1, <2>1, <2>3, <2>4, <2>7, <3>1
      <3>2. CASE j = Len(q)
        BY <1>1, <2>1, <2>3, <2>4, <2>7, <3>2
      <3>3. CASE i # Len(q) /\ j # Len(q)
        BY <1>1, <2>3, <2>4, <2>7, <3>0, <3>3
      <3> QED BY <3>1, <3>2, <3>3
    <2>8. \A i \in Newest(r, n + 1) : r[i] \in F \cup {k}
      BY <1>1, <2>1, <2>3, <2>4
    <2>9. n + 1 = OutboxMax
            \/ \A x \in F \cup {k} : \E i \in Newest(r, n + 1) : r[i] = x
      <3>1. CASE m = OutboxMax
        BY <1>0, <3>1 DEF n
      <3>2. CASE m # OutboxMax
        <4>1. n = m
          BY <2>2, <3>2
        <4>2. ASSUME NEW x \in F PROVE \E i \in Newest(r, n + 1) : r[i] = x
          <5>1. PICK i \in Newest(q, n) : q[i] = x
            BY <1>1, <3>2, <4>1
          <5> QED BY <2>5, <5>1
        <4> QED BY <2>1, <2>6, <4>2
      <3> QED BY <3>1, <3>2
    <2>10. n + 1 \in 0..Len(r)
      BY <1>0, <1>3, <2>1, <2>2
    <2>11. Covers(r, F \cup {k})
      BY <2>7, <2>8, <2>9, <2>10 DEF Covers
    <2> QED BY <1>0, <1>3, <2>1, <2>11
  <1> QED BY <1>0, <1>2, <1>3

LEMMA NothingToCover ==
  ASSUME NEW q \in Seq(Key)
  PROVE  Covers(q, {})
  <1>1. 0 \in 0..Len(q) /\ Newest(q, 0) = {}
    BY DEF Newest
  <1> QED BY <1>1 DEF Covers

(* What covers the keys either holds them all or nothing but them.         *)
LEMMA CoversAll ==
  ASSUME NEW q \in Seq(Key), Len(q) <= OutboxMax, NEW F, Covers(q, F)
  PROVE  LET kept == {q[n] : n \in DOMAIN q}
         IN  F \subseteq kept \/ Cardinality(kept \cap F) = OutboxMax
  <1> DEFINE kept == {q[n] : n \in DOMAIN q}
  <1> SUFFICES F \subseteq kept \/ Cardinality(kept \cap F) = OutboxMax
    OBVIOUS
  <1>0. OutboxMax \in Nat \ {0} /\ Len(q) \in Nat /\ DOMAIN q = 1..Len(q)
    BY DispatchAssumption
  <1>1. PICK m \in 0..Len(q) :
          /\ \A i, j \in Newest(q, m) : i # j => q[i] # q[j]
          /\ \A i \in Newest(q, m) : q[i] \in F
          /\ m = OutboxMax \/ \A x \in F : \E i \in Newest(q, m) : q[i] = x
    BY DEF Covers
  <1>2. \A i \in Newest(q, m) : i \in 1..Len(q)
    BY <1>0 DEF Newest
  <1>3. CASE m # OutboxMax
    BY <1>0, <1>1, <1>2, <1>3
  <1>4. CASE m = OutboxMax
    <2>a. \A a, b, c \in Nat : a <= b /\ b <= c /\ a = c => b = c /\ b - a + 1 = 1
      OBVIOUS
    <2>b. m \in Nat /\ Len(q) \in Nat /\ OutboxMax \in Nat /\ m <= Len(q) /\ Len(q) <= OutboxMax /\ m = OutboxMax
      BY <1>0, <1>4
    <2>0. Len(q) = OutboxMax /\ Len(q) - m + 1 = 1
      BY <2>a, <2>b
    <2>1. Len(q) = OutboxMax /\ Newest(q, m) = 1..OutboxMax
      BY <2>0 DEF Newest
    <2>2. kept \cap F = kept
      BY <1>0, <1>1, <2>1
    <2> DEFINE f == [i \in 1..OutboxMax |-> q[i]]
    <2>3. f \in Bijection(1..OutboxMax, kept)
      BY <1>0, <1>1, <2>1 DEF Bijection, Injection, Surjection, IsInjective
    <2>4. IsFiniteSet(1..OutboxMax) /\ Cardinality(1..OutboxMax) = OutboxMax
      BY <1>0, FS_Interval
    <2>5. Cardinality(kept) = Cardinality(1..OutboxMax)
      BY <2>3, <2>4, FS_Bijection DEF ExistsBijection
    <2> QED BY <2>2, <2>4, <2>5
  <1> QED BY <1>3, <1>4

(* A step of one tick, with the outbox of its pod.                         *)
LEMMA FiledTick ==
  ASSUME DispatchInv, FiledInv, NEW p \in Pod, NEW t \in Tick,
         tick' = [tick EXCEPT ![p] = t], NEW q \in Seq(Key),
         outbox' = [outbox EXCEPT ![p] = q], Len(q) <= OutboxMax, Filed(t, q)
  PROVE  FiledInv'
  <1>1. /\ tick' \in [Pod -> Tick] /\ tick'[p] = t
        /\ \A x \in Pod : x # p => tick'[x] = tick[x]
    BY OneTick DEF DispatchInv
  <1>2. /\ outbox' \in [Pod -> Seq(Key)] /\ outbox'[p] = q
        /\ \A x \in Pod : x # p => outbox'[x] = outbox[x]
    BY DEF FiledInv
  <1>3. ASSUME NEW x \in Pod
        PROVE  Len(outbox'[x]) <= OutboxMax /\ Filed(tick'[x], outbox'[x])
    <2>1. CASE x = p
      BY <1>1, <1>2, <2>1
    <2>2. CASE x # p
      BY <1>1, <1>2, <2>2 DEF FiledInv
    <2> QED BY <2>1, <2>2
  <1> QED BY <1>2, <1>3 DEF FiledInv

LEMMA SameOutbox ==
  ASSUME FiledInv, NEW p \in Pod, UNCHANGED outbox
  PROVE  /\ outbox[p] \in Seq(Key) /\ Len(outbox[p]) <= OutboxMax
         /\ outbox' = [outbox EXCEPT ![p] = outbox[p]]
         /\ Filed(tick[p], outbox[p])
  BY DEF FiledInv

LEMMA IdleFiled ==
  ASSUME NEW q
  PROVE  Filed(NoTick, q)
  BY DEF Filed, NoTick

LEMMA FiledRun ==
  ASSUME DispatchInv, FiledInv, NEW p \in Pod, NEW iv \in Interval,
         RunAnalysis(p, iv)
  PROVE  FiledInv'
  <1> DEFINE t == [NoTick EXCEPT !.at = "collect", !.iv = iv]
  <1>1. t \in Tick /\ t.at = "collect" /\ t.cooling = {} /\ t.sent = {}
    BY DEF NoTick, Tick
  <1>2. tick' = [tick EXCEPT ![p] = t] /\ UNCHANGED outbox
    BY DEF RunAnalysis
  <1> HIDE DEF t
  <1>3. Filed(t, outbox[p])
    BY <1>1 DEF Filed
  <1> QED BY <1>1, <1>2, <1>3, SameOutbox, FiledTick

LEMMA FiledCollect ==
  ASSUME DispatchInv, FiledInv, NEW p \in Pod, NEW ps \in SUBSET Mailable,
         Collect(p, ps)
  PROVE  FiledInv'
  <1> DEFINE t == [tick[p] EXCEPT !.pending = ps,
                     !.at = IF ps = {} THEN "done" ELSE "check",
                     !.todo = {CooldownKey(b) : b \in ps}]
  <1>0. tick \in [Pod -> Tick] /\ tick[p] \in Tick /\ tick[p].at = "collect"
    BY DEF DispatchInv, Typed, Collect
  <1>1. {CooldownKey(b) : b \in ps} \in SUBSET Key
    BY KeyOfBreach
  <1>2. /\ t \in Tick /\ t.at = (IF ps = {} THEN "done" ELSE "check")
        /\ t.cooling = tick[p].cooling /\ t.sent = tick[p].sent
        /\ t.pending = ps /\ t.todo = {CooldownKey(b) : b \in ps}
    BY <1>0, <1>1 DEF Tick
  <1>3. tick' = [tick EXCEPT ![p] = t] /\ UNCHANGED outbox
    BY <1>0 DEF Collect
  <1> HIDE DEF t
  <1>4. tick[p].cooling = {} /\ tick[p].sent = {}
    BY <1>0 DEF FiledInv, Filed
  <1>5. Filed(t, outbox[p])
    <2>1. t.todo = Wanted(t) /\ (ps = {} => t.todo = {})
      BY <1>2 DEF Wanted
    <2>2. ps = {} => Unsent(t) = {}
      BY <2>1 DEF Unsent
    <2>3. Covers(outbox[p], {})
      BY SameOutbox, <1>3, NothingToCover
    <2>4. CASE ps = {}
      BY <1>2, <1>4, <2>1, <2>2, <2>3, <2>4 DEF Filed
    <2>5. CASE ps # {}
      BY <1>2, <1>4, <2>1, <2>5 DEF Filed
    <2> QED BY <2>4, <2>5
  <1> QED BY <1>2, <1>3, <1>5, SameOutbox, FiledTick

LEMMA FiledCheck ==
  ASSUME DispatchInv, FiledInv, NEW p \in Pod, CheckCooldown(p)
  PROVE  FiledInv'
  <1> DEFINE ask == p \notin debug /\ outage = 0
             cooling == {k \in tick[p].todo :
                           IF ask THEN redis[k] > 0 ELSE local[p][k] > 0}
             t == [tick[p] EXCEPT
                     !.at = IF cooling = tick[p].todo THEN "done" ELSE "group",
                     !.asked = ask, !.cooling = cooling, !.todo = @ \ cooling]
  <1>0. tick \in [Pod -> Tick] /\ tick[p] \in Tick
    BY DEF DispatchInv, Typed
  <1>1. tick[p].at = "check" /\ UNCHANGED outbox
          /\ tick' = [tick EXCEPT ![p].at = IF cooling = tick[p].todo THEN "done"
                                            ELSE "group",
                        ![p].asked = ask, ![p].cooling = cooling,
                        ![p].todo = @ \ cooling]
    BY DEF CheckCooldown
  <1>2. tick[p].todo \subseteq Key /\ cooling \subseteq tick[p].todo /\ ask \in BOOLEAN
    BY <1>0 DEF Tick
  <1> HIDE DEF ask, cooling
  <1>3. t \in Tick
    BY <1>0, <1>2 DEF Tick
  <1>4. /\ t.at = IF cooling = tick[p].todo THEN "done" ELSE "group"
        /\ t.cooling = cooling /\ t.todo = tick[p].todo \ cooling
        /\ t.sent = tick[p].sent /\ t.pending = tick[p].pending
    BY <1>0 DEF Tick
  <1>5. tick' = [tick EXCEPT ![p] = t]
    BY <1>0, <1>1
  <1> HIDE DEF t
  <1>6. tick[p].cooling = {} /\ tick[p].sent = {} /\ tick[p].todo = Wanted(tick[p])
    BY <1>1 DEF FiledInv, Filed
  <1>7. Filed(t, outbox[p])
    <2>1. Wanted(t) = tick[p].todo
      BY <1>4, <1>6 DEF Wanted
    <2>2. Unsent(t) = {}
      BY <1>2, <1>4, <1>6, <2>1 DEF Unsent
    <2>3. Covers(outbox[p], Unsent(t))
      BY <1>1, <2>2, SameOutbox, NothingToCover
    <2>4. t.todo \subseteq Wanted(t) \ (t.cooling \cup t.sent)
      BY <1>4, <1>6, <2>1
    <2>5. t.at \in {"done", "group"} /\ (t.at = "done" => t.todo = {})
      BY <1>4
    <2> QED BY <2>3, <2>4, <2>5 DEF Filed
  <1> QED BY <1>1, <1>3, <1>5, <1>7, SameOutbox, FiledTick

LEMMA FiledSendFails ==
  ASSUME DispatchInv, FiledInv, NEW p \in Pod, NEW k \in tick[p].todo,
         SendFails(p, k)
  PROVE  FiledInv'
  <1> DEFINE t == [tick[p] EXCEPT !.todo = @ \ {k},
                     !.at = NextGroup(tick[p].todo \ {k})]
             q == Append(IF Len(outbox[p]) = OutboxMax THEN Tail(outbox[p])
                         ELSE outbox[p], k)
  <1>0. tick \in [Pod -> Tick] /\ tick[p] \in Tick
    BY DEF DispatchInv, Typed
  <1>1. tick[p].at = "group"
          /\ tick' = [tick EXCEPT ![p].todo = @ \ {k},
                        ![p].at = NextGroup(tick[p].todo \ {k})]
          /\ outbox' = [outbox EXCEPT ![p] = q]
    BY DEF SendFails, FiledInv
  <1>2. /\ NextGroup(tick[p].todo \ {k}) \in {"done", "group"}
        /\ NextGroup(tick[p].todo \ {k}) = "done" => tick[p].todo \ {k} = {}
    BY DEF NextGroup
  <1>3. /\ t \in Tick /\ t.at = NextGroup(tick[p].todo \ {k})
        /\ t.cooling = tick[p].cooling /\ t.sent = tick[p].sent
        /\ t.todo = tick[p].todo \ {k} /\ t.pending = tick[p].pending
    BY <1>0, <1>2 DEF Tick
  <1>4. tick' = [tick EXCEPT ![p] = t]
    BY <1>0, <1>1
  <1>5. k \in Key /\ outbox[p] \in Seq(Key) /\ Len(outbox[p]) <= OutboxMax
    BY <1>0 DEF Tick, FiledInv
  <1>6. /\ tick[p].todo \subseteq Wanted(tick[p]) \ (tick[p].cooling \cup tick[p].sent)
        /\ Covers(outbox[p], Unsent(tick[p]))
    BY <1>1 DEF FiledInv, Filed
  <1> HIDE DEF t
  <1>7. Wanted(t) = Wanted(tick[p]) /\ k \notin Unsent(tick[p])
          /\ Unsent(t) = Unsent(tick[p]) \cup {k}
    <2>1. Wanted(t) = Wanted(tick[p])
      BY <1>3 DEF Wanted
    <2> QED BY <1>3, <1>6, <2>1 DEF Unsent
  <1>8. q \in Seq(Key) /\ Len(q) <= OutboxMax /\ Covers(q, Unsent(t))
    <2> HIDE DEF q
    <2>1. q = Append(IF Len(outbox[p]) = OutboxMax THEN Tail(outbox[p])
                     ELSE outbox[p], k)
      BY DEF q
    <2> DEFINE F == Unsent(tick[p])
    <2>2. Covers(outbox[p], F) /\ k \notin F
      BY <1>6, <1>7
    <2> HIDE DEF F
    <2>3. q \in Seq(Key) /\ Len(q) <= OutboxMax /\ Covers(q, F \cup {k})
      BY <1>5, <2>1, <2>2, Filing
    <2> QED BY <1>7, <2>3 DEF F
  <1> HIDE DEF q
  <1>9. Filed(t, q)
    <2>1. t.todo \subseteq Wanted(t) \ (t.cooling \cup t.sent)
      BY <1>3, <1>6, <1>7
    <2> QED BY <1>2, <1>3, <1>8, <2>1 DEF Filed
  <1> QED BY <1>1, <1>3, <1>4, <1>8, <1>9, FiledTick

LEMMA FiledSent ==
  ASSUME DispatchInv, FiledInv, NEW p \in Pod, NEW k \in tick[p].todo,
         NEW b \in Members(p, k), Sent(p, k, ChannelOf(b))
  PROVE  FiledInv'
  <1> DEFINE n == ChannelOf(b).minutes
             t == [tick[p] EXCEPT !.at = "set", !.todo = @ \ {k}, !.key = k,
                     !.minutes = n, !.sent = @ \cup {k}]
  <1>0. tick \in [Pod -> Tick] /\ tick[p] \in Tick
    BY DEF DispatchInv, Typed
  <1>1. k \in Key /\ n \in Nat
    <2>1. k \in Key /\ b \in Mailable
      BY <1>0 DEF Tick, Members
    <2> QED BY <2>1, KeyOfBreach
  <1>2. /\ tick[p].at = "group" /\ UNCHANGED outbox
        /\ tick' = [tick EXCEPT ![p].at = "set", ![p].todo = @ \ {k},
                      ![p].key = k, ![p].minutes = n, ![p].sent = @ \cup {k}]
    BY DEF Sent
  <1> HIDE DEF n
  <1>3. t \in Tick
    BY <1>0, <1>1 DEF Tick
  <1>4. t.at = "set" /\ t.cooling = tick[p].cooling /\ t.todo = tick[p].todo \ {k}
          /\ t.sent = tick[p].sent \cup {k} /\ t.pending = tick[p].pending
    BY <1>0 DEF Tick
  <1>5. tick' = [tick EXCEPT ![p] = t]
    BY <1>0, <1>2
  <1> HIDE DEF t
  <1>6. /\ tick[p].todo \subseteq Wanted(tick[p]) \ (tick[p].cooling \cup tick[p].sent)
        /\ Covers(outbox[p], Unsent(tick[p]))
    BY <1>2 DEF FiledInv, Filed
  <1>7. Filed(t, outbox[p])
    <2>1. Wanted(t) = Wanted(tick[p])
      BY <1>4 DEF Wanted
    <2>2. Unsent(t) = Unsent(tick[p])
      BY <1>4, <2>1 DEF Unsent
    <2>3. t.todo \subseteq Wanted(t) \ (t.cooling \cup t.sent)
      BY <1>4, <1>6, <2>1
    <2> QED BY <1>4, <1>6, <2>2, <2>3 DEF Filed
  <1> QED BY <1>2, <1>3, <1>5, <1>7, SameOutbox, FiledTick

LEMMA FiledSet ==
  ASSUME DispatchInv, FiledInv, NEW p \in Pod, SetCooldown(p)
  PROVE  FiledInv'
  <1> DEFINE t == [tick[p] EXCEPT !.at = NextGroup(tick[p].todo), !.key = <<>>,
                     !.minutes = 0]
  <1>0. tick \in [Pod -> Tick] /\ tick[p] \in Tick
    BY DEF DispatchInv, Typed
  <1>1. /\ tick[p].at = "set" /\ UNCHANGED outbox
        /\ \/ tick' = [tick EXCEPT ![p] = NoTick]
           \/ tick' = [tick EXCEPT ![p] = t]
    <2>1. tick[p].at = "set" /\ UNCHANGED outbox
      BY DEF SetCooldown
    <2>2. \/ tick' = [tick EXCEPT ![p] = NoTick]
          \/ tick' = [tick EXCEPT ![p].at = NextGroup(tick[p].todo), ![p].key = <<>>,
                        ![p].minutes = 0]
      BY DEF SetCooldown, Over
    <2> QED BY <1>0, <2>1, <2>2
  <1>2. CASE tick' = [tick EXCEPT ![p] = NoTick]
    BY <1>1, <1>2, NoTickTyped, IdleFiled, SameOutbox, FiledTick
  <1>3. CASE tick' = [tick EXCEPT ![p] = t]
    <2>1. /\ NextGroup(tick[p].todo) \in {"done", "group"}
          /\ NextGroup(tick[p].todo) = "done" => tick[p].todo = {}
      BY DEF NextGroup
    <2>2. /\ t \in Tick /\ t.at = NextGroup(tick[p].todo)
          /\ t.cooling = tick[p].cooling /\ t.sent = tick[p].sent
          /\ t.todo = tick[p].todo /\ t.pending = tick[p].pending
      BY <1>0, <2>1 DEF Tick
    <2> HIDE DEF t
    <2>3. Wanted(t) = Wanted(tick[p])
      BY <2>2 DEF Wanted
    <2>4. Unsent(t) = Unsent(tick[p])
      BY <2>2, <2>3 DEF Unsent
    <2>5. Filed(t, outbox[p])
      <3>1. Filed(tick[p], outbox[p])
        BY DEF FiledInv
      <3> QED BY <1>1, <2>1, <2>2, <2>3, <2>4, <3>1 DEF Filed
    <2> QED BY <1>1, <1>3, <2>2, <2>5, SameOutbox, FiledTick
  <1> QED BY <1>1, <1>2, <1>3

LEMMA FiledOver ==
  ASSUME DispatchInv, FiledInv, NEW p \in Pod,
         TickRaises(p) \/ TickEnds(p) \/ Restart(p)
  PROVE  FiledInv'
  <1>1. tick' = [tick EXCEPT ![p] = NoTick]
    BY DEF TickRaises, TickEnds, Restart, Over
  <1>2. UNCHANGED outbox \/ outbox' = [outbox EXCEPT ![p] = <<>>]
    BY DEF TickRaises, TickEnds, Restart
  <1>3. <<>> \in Seq(Key) /\ Len(<<>>) <= OutboxMax
    BY DispatchAssumption
  <1> QED BY <1>1, <1>2, <1>3, NoTickTyped, IdleFiled, SameOutbox, FiledTick

LEMMA FiledStep ==
  ASSUME DispatchInv, FiledInv, [Next]_vars
  PROVE  FiledInv'
  <1>1. ASSUME NEW p \in Pod, TickStep(p) PROVE FiledInv'
    BY <1>1, FiledCollect, FiledCheck, FiledSet, FiledOver, FiledSent DEF TickStep
  <1>3. CASE UNCHANGED <<tick, outbox>>
    BY <1>3 DEF FiledInv
  <1>2. ASSUME NEW p \in Pod,
               \/ \E iv \in Interval : RunAnalysis(p, iv)
               \/ TickRaises(p) \/ Restart(p) \/ LoseLock(p)
               \/ \E k \in tick[p].todo : SendFails(p, k)
        PROVE  FiledInv'
    BY <1>2, <1>3, FiledRun, FiledOver, FiledSendFails DEF LoseLock
  <1>4. ASSUME NEW p \in Pod, NEW k \in Key, ClearCooldown(p, k) PROVE FiledInv'
    BY <1>3, <1>4 DEF ClearCooldown
  <1>5. CASE RedisFails \/ RedisReturns \/ Clock \/ UNCHANGED vars
    BY <1>3, <1>5 DEF RedisFails, RedisReturns, Clock, vars
  <1> QED BY <1>1, <1>2, <1>4, <1>5 DEF Next

LEMMA FiledInit == Init => FiledInv
  <1> SUFFICES ASSUME Init PROVE FiledInv
    OBVIOUS
  <1>1. <<>> \in Seq(Key) /\ Len(<<>>) <= OutboxMax
    BY DispatchAssumption
  <1>2. outbox \in [Pod -> Seq(Key)] /\ \A p \in Pod : outbox[p] = <<>> /\ tick[p] = NoTick
    BY <1>1 DEF Init
  <1> QED BY <1>1, <1>2, IdleFiled DEF FiledInv

(* A tick that ends without an error leaves no breach unaccounted for: it  *)
(* was suppressed, mailed, or stands in the outbox as far back as that     *)
(* reaches (email_client.py:125).                                          *)
THEOREM Accounted == Spec => []NothingUnaccounted
  <1>1. DispatchInv /\ FiledInv => NothingUnaccounted
    <2> SUFFICES ASSUME DispatchInv, FiledInv, NEW p \in Pod \ debug,
                        tick[p].at = "done"
                 PROVE  LET open == {CooldownKey(b) : b \in tick[p].pending}
                                      \ (tick[p].cooling \cup tick[p].sent)
                            kept == {outbox[p][n] : n \in DOMAIN outbox[p]}
                        IN  open \subseteq kept
                              \/ Cardinality(kept \cap open) = OutboxMax
      BY DEF NothingUnaccounted
    <2>1. /\ outbox[p] \in Seq(Key) /\ Len(outbox[p]) <= OutboxMax
          /\ Filed(tick[p], outbox[p])
      BY DEF FiledInv
    <2>2. tick[p].todo = {} /\ Covers(outbox[p], Unsent(tick[p]))
      BY <2>1 DEF Filed
    <2>3. Unsent(tick[p]) = {CooldownKey(b) : b \in tick[p].pending}
                              \ (tick[p].cooling \cup tick[p].sent)
      BY <2>2 DEF Unsent, Wanted
    <2> QED BY <2>1, <2>2, <2>3, CoversAll
  <1>2. DispatchInv /\ FiledInv /\ [Next]_vars => FiledInv'
    BY FiledStep
  <1> QED BY <1>1, <1>2, FiledInit, DispatchInvariance, PTL DEF Spec

-----------------------------------------------------------------------------
(* Mail while Redis is away.                                               *)

(* The production pods that cannot mail k again in this outage: the local  *)
(* entry lives until it is no longer counted, and no tick that missed it   *)
(* is under way.                                                           *)
Busy(t, k) == t.at \in {"group", "set"} /\ k \in t.todo
Spent(k) == {p \in Pod \ debug : /\ local[p][k] + outage > LocalTtl
                                 /\ ~Busy(tick[p], k)}
FloodInv ==
  /\ burst \in [Key -> Nat]
  /\ outage = 0 => \A k \in Key : burst[k] = 0
  /\ outage \in 1..LocalTtl => \A k \in Key : burst[k] <= Cardinality(Spent(k))

LEMMA PodsFinite ==
  ASSUME NEW S \in SUBSET Pod, NEW T \in SUBSET S
  PROVE  /\ IsFiniteSet(S) /\ Cardinality(S) \in Nat /\ Cardinality(T) \in Nat
         /\ Cardinality(T) <= Cardinality(S)
  <1>1. IsFiniteSet(S) /\ IsFiniteSet(T)
    BY DispatchAssumption, FS_Subset
  <1> QED BY <1>1, FS_Subset, FS_CardinalityType

(* A pod that is added, or one that is lost.                               *)
LEMMA PodsCounted ==
  ASSUME NEW S \in SUBSET Pod, NEW p \in Pod
  PROVE  /\ p \notin S => Cardinality(S \cup {p}) = Cardinality(S) + 1
         /\ Cardinality(S \ {p}) \in Nat
         /\ Cardinality(S) <= Cardinality(S \ {p}) + 1
  <1>1. IsFiniteSet(S) /\ Cardinality(S) \in Nat
    BY PodsFinite
  <1>2. Cardinality(S \ {p}) \in Nat
    BY PodsFinite
  <1>3. p \notin S => Cardinality(S \cup {p}) = Cardinality(S) + 1
    BY <1>1, FS_AddElement
  <1>4. Cardinality(S \ {p}) = IF p \in S THEN Cardinality(S) - 1 ELSE Cardinality(S)
    BY <1>1, FS_RemoveElement
  <1> QED BY <1>1, <1>2, <1>3, <1>4

LEMMA SpentPods ==
  ASSUME NEW k
  PROVE  Spent(k) \in SUBSET Pod /\ Spent(k)' \in SUBSET Pod
  BY DEF Spent

(* Pods that have spent their mail stay so.                                *)
LEMMA SpentStays ==
  ASSUME FloodInv, UNCHANGED <<outage, burst>>,
         outage \in 1..LocalTtl => \A k \in Key : Spent(k) \subseteq Spent(k)'
  PROVE  FloodInv'
  <1>1. ASSUME outage \in 1..LocalTtl, NEW k \in Key
        PROVE  burst[k] <= Cardinality(Spent(k)')
    <2>1. burst[k] \in Nat /\ burst[k] <= Cardinality(Spent(k))
      BY <1>1 DEF FloodInv
    <2>2. /\ Cardinality(Spent(k)) \in Nat /\ Cardinality(Spent(k)') \in Nat
          /\ Cardinality(Spent(k)) <= Cardinality(Spent(k)')
      BY <1>1, SpentPods, PodsFinite
    <2> QED BY <2>1, <2>2
  <1> QED BY <1>1 DEF FloodInv

(* A step of a tick that is no confirmed mail.                             *)
LEMMA FloodTick ==
  ASSUME DispatchInv, FloodInv, NEW p \in Pod, NEW t \in Tick,
         tick' = [tick EXCEPT ![p] = t], UNCHANGED <<debug, outage, local, burst>>,
         outage \in 1..LocalTtl =>
           \A k \in Key : local[p][k] > 0 /\ Busy(t, k) => Busy(tick[p], k)
  PROVE  FloodInv'
  <1>1. /\ tick' \in [Pod -> Tick] /\ tick'[p] = t
        /\ \A x \in Pod : x # p => tick'[x] = tick[x]
    BY OneTick DEF DispatchInv
  <1>2. ASSUME outage \in 1..LocalTtl, NEW k \in Key, NEW x \in Spent(k)
        PROVE  x \in Spent(k)'
    <2>1. x \in Pod \ debug /\ local[x][k] + outage > LocalTtl /\ ~Busy(tick[x], k)
      BY <1>2 DEF Spent
    <2>2. local[x][k] > 0
      <3>1. local[x][k] \in Nat /\ LocalTtl \in Nat
        BY <1>2, <2>1, DispatchAssumption DEF DispatchInv, Typed
      <3> QED BY <1>2, <2>1, <3>1
    <2>3. ~Busy(tick'[x], k)
      BY <1>1, <1>2, <2>1, <2>2
    <2> QED BY <2>1, <2>3 DEF Spent
  <1> QED BY <1>2, SpentStays

LEMMA FloodRun ==
  ASSUME DispatchInv, FloodInv, NEW p \in Pod, NEW iv \in Interval,
         RunAnalysis(p, iv)
  PROVE  FloodInv'
  <1> DEFINE t == [NoTick EXCEPT !.at = "collect", !.iv = iv]
  <1>1. t \in Tick /\ t.at = "collect"
    BY DEF NoTick, Tick
  <1>2. tick' = [tick EXCEPT ![p] = t] /\ UNCHANGED <<debug, outage, local, burst>>
    BY DEF RunAnalysis
  <1> HIDE DEF t
  <1> QED BY <1>1, <1>2, FloodTick DEF Busy

LEMMA FloodCollect ==
  ASSUME DispatchInv, FloodInv, NEW p \in Pod, NEW ps \in SUBSET Mailable,
         Collect(p, ps)
  PROVE  FloodInv'
  <1> DEFINE t == [tick[p] EXCEPT !.pending = ps,
                     !.at = IF ps = {} THEN "done" ELSE "check",
                     !.todo = {CooldownKey(b) : b \in ps}]
  <1>0. tick \in [Pod -> Tick] /\ tick[p] \in Tick
    BY DEF DispatchInv, Typed
  <1>1. {CooldownKey(b) : b \in ps} \in SUBSET Key
    BY KeyOfBreach
  <1>2. t \in Tick /\ t.at \in {"done", "check"}
    BY <1>0, <1>1 DEF Tick
  <1>3. tick' = [tick EXCEPT ![p] = t] /\ UNCHANGED <<debug, outage, local, burst>>
    BY <1>0 DEF Collect
  <1> HIDE DEF t
  <1> QED BY <1>2, <1>3, FloodTick DEF Busy

(* Without Redis a tick asks the local entries of its own pod.             *)
LEMMA FloodCheck ==
  ASSUME DispatchInv, FloodInv, NEW p \in Pod, CheckCooldown(p)
  PROVE  FloodInv'
  <1> DEFINE ask == p \notin debug /\ outage = 0
             cooling == {k \in tick[p].todo :
                           IF ask THEN redis[k] > 0 ELSE local[p][k] > 0}
             t == [tick[p] EXCEPT
                     !.at = IF cooling = tick[p].todo THEN "done" ELSE "group",
                     !.asked = ask, !.cooling = cooling, !.todo = @ \ cooling]
  <1>0. tick \in [Pod -> Tick] /\ tick[p] \in Tick
    BY DEF DispatchInv, Typed
  <1>1. tick' = [tick EXCEPT ![p].at = IF cooling = tick[p].todo THEN "done"
                                       ELSE "group",
                   ![p].asked = ask, ![p].cooling = cooling, ![p].todo = @ \ cooling]
          /\ UNCHANGED <<debug, outage, local, burst>>
    BY DEF CheckCooldown
  <1>2. tick[p].todo \subseteq Key /\ cooling \subseteq tick[p].todo /\ ask \in BOOLEAN
    BY <1>0 DEF Tick
  <1>3. outage \in 1..LocalTtl => \A k \in tick[p].todo : local[p][k] > 0 => k \in cooling
    OBVIOUS
  <1> HIDE DEF ask, cooling
  <1>4. t \in Tick /\ t.todo = tick[p].todo \ cooling
    BY <1>0, <1>2 DEF Tick
  <1>5. tick' = [tick EXCEPT ![p] = t]
    BY <1>0, <1>1
  <1> HIDE DEF t
  <1>6. outage \in 1..LocalTtl => \A k \in Key : local[p][k] > 0 => ~Busy(t, k)
    BY <1>3, <1>4 DEF Busy
  <1> QED BY <1>1, <1>4, <1>5, <1>6, FloodTick

LEMMA FloodSendFails ==
  ASSUME DispatchInv, FloodInv, NEW p \in Pod, NEW k \in tick[p].todo,
         SendFails(p, k)
  PROVE  FloodInv'
  <1> DEFINE t == [tick[p] EXCEPT !.todo = @ \ {k},
                     !.at = NextGroup(tick[p].todo \ {k})]
  <1>0. tick \in [Pod -> Tick] /\ tick[p] \in Tick
    BY DEF DispatchInv, Typed
  <1>1. tick[p].at = "group" /\ UNCHANGED <<debug, outage, local, burst>>
          /\ tick' = [tick EXCEPT ![p].todo = @ \ {k},
                        ![p].at = NextGroup(tick[p].todo \ {k})]
    BY DEF SendFails
  <1>2. NextGroup(tick[p].todo \ {k}) \in {"done", "group"}
    BY DEF NextGroup
  <1>3. t \in Tick /\ t.todo = tick[p].todo \ {k}
    BY <1>0, <1>2 DEF Tick
  <1>4. tick' = [tick EXCEPT ![p] = t]
    BY <1>0, <1>1
  <1> HIDE DEF t
  <1>5. \A x \in Key : Busy(t, x) => Busy(tick[p], x)
    BY <1>1, <1>3 DEF Busy
  <1> QED BY <1>1, <1>3, <1>4, <1>5, FloodTick

LEMMA FloodSet ==
  ASSUME DispatchInv, FloodInv, NEW p \in Pod, SetCooldown(p)
  PROVE  FloodInv'
  <1> DEFINE t == [tick[p] EXCEPT !.at = NextGroup(tick[p].todo), !.key = <<>>,
                     !.minutes = 0]
  <1>0. tick \in [Pod -> Tick] /\ tick[p] \in Tick
    BY DEF DispatchInv, Typed
  <1>1. /\ tick[p].at = "set" /\ UNCHANGED <<debug, outage, local, burst>>
        /\ \/ tick' = [tick EXCEPT ![p] = NoTick]
           \/ tick' = [tick EXCEPT ![p] = t]
    <2>1. tick[p].at = "set" /\ UNCHANGED <<debug, outage, local, burst>>
      BY DEF SetCooldown
    <2>2. \/ tick' = [tick EXCEPT ![p] = NoTick]
          \/ tick' = [tick EXCEPT ![p].at = NextGroup(tick[p].todo), ![p].key = <<>>,
                        ![p].minutes = 0]
      BY DEF SetCooldown, Over
    <2> QED BY <1>0, <2>1, <2>2
  <1>2. NextGroup(tick[p].todo) \in {"done", "group"}
    BY DEF NextGroup
  <1>3. t \in Tick /\ t.todo = tick[p].todo
    BY <1>0, <1>2 DEF Tick
  <1> HIDE DEF t
  <1>4. \A x \in Key : (Busy(t, x) => Busy(tick[p], x)) /\ ~Busy(NoTick, x)
    BY <1>1, <1>3, NoTickTyped DEF Busy
  <1>5. CASE tick' = [tick EXCEPT ![p] = NoTick]
    BY <1>1, <1>4, <1>5, NoTickTyped, FloodTick
  <1>6. CASE tick' = [tick EXCEPT ![p] = t]
    BY <1>1, <1>3, <1>4, <1>6, FloodTick
  <1> QED BY <1>1, <1>5, <1>6

LEMMA FloodOver ==
  ASSUME DispatchInv, FloodInv, NEW p \in Pod, TickRaises(p) \/ TickEnds(p)
  PROVE  FloodInv'
  <1>1. tick' = [tick EXCEPT ![p] = NoTick] /\ UNCHANGED <<debug, outage, local, burst>>
    BY DEF TickRaises, TickEnds, Over
  <1>2. \A x \in Key : ~Busy(NoTick, x)
    BY NoTickTyped DEF Busy
  <1> QED BY <1>1, <1>2, NoTickTyped, FloodTick

(* A confirmed mail spends the pod, which had not spent its mail before.   *)
LEMMA FloodSent ==
  ASSUME DispatchInv, FloodInv, NEW p \in Pod, NEW k \in tick[p].todo,
         NEW b \in Members(p, k), Sent(p, k, ChannelOf(b))
  PROVE  FloodInv'
  <1> DEFINE n == ChannelOf(b).minutes
             t == [tick[p] EXCEPT !.at = "set", !.todo = @ \ {k}, !.key = k,
                     !.minutes = n, !.sent = @ \cup {k}]
  <1>0. /\ tick \in [Pod -> Tick] /\ tick[p] \in Tick /\ outage \in Nat
        /\ LocalTtl \in Nat \ {0} /\ local \in [Pod -> [Key -> Nat]]
    BY DispatchAssumption DEF DispatchInv, Typed
  <1>1. k \in Key /\ n \in Nat
    <2>1. k \in Key /\ b \in Mailable
      BY <1>0 DEF Tick, Members
    <2> QED BY <2>1, KeyOfBreach
  <1>2. /\ tick[p].at = "group" /\ UNCHANGED <<debug, outage>>
        /\ tick' = [tick EXCEPT ![p].at = "set", ![p].todo = @ \ {k},
                      ![p].key = k, ![p].minutes = n, ![p].sent = @ \cup {k}]
        /\ local' = [local EXCEPT ![p][k] = LocalTtl]
        /\ burst' = (IF p \notin debug /\ outage \in 1..LocalTtl
                     THEN [burst EXCEPT ![k] = @ + 1] ELSE burst)
    BY DEF Sent
  <1> HIDE DEF n
  <1>3. t \in Tick
    BY <1>0, <1>1 DEF Tick
  <1>4. t.at = "set" /\ t.todo = tick[p].todo \ {k}
    BY <1>0 DEF Tick
  <1>5. tick' = [tick EXCEPT ![p] = t]
    BY <1>0, <1>2
  <1> HIDE DEF t
  <1>6. /\ tick'[p] = t /\ \A x \in Pod : x # p => tick'[x] = tick[x]
    BY <1>3, <1>5, OneTick DEF DispatchInv
  <1>7. \A x \in Key : Busy(t, x) <=> (Busy(tick[p], x) /\ x # k)
    BY <1>2, <1>4 DEF Busy
  <1>8. local'[p][k] = LocalTtl /\ Busy(tick[p], k)
          /\ \A y \in Pod, x \in Key : ~(y = p /\ x = k) => local'[y][x] = local[y][x]
    BY <1>0, <1>1, <1>2 DEF Busy
  <1>9. ASSUME NEW x \in Key, x # k PROVE Spent(x)' = Spent(x)
    <2>1. \A y \in Pod : Busy(tick'[y], x) <=> Busy(tick[y], x)
      BY <1>6, <1>7, <1>9
    <2>2. \A y \in Pod : local'[y][x] = local[y][x]
      BY <1>8, <1>9
    <2> QED BY <1>2, <2>1, <2>2 DEF Spent
  <1>10. ASSUME outage \in 1..LocalTtl
         PROVE  /\ p \notin Spent(k)
                /\ p \notin debug => Spent(k)' = Spent(k) \cup {p}
                /\ p \in debug => Spent(k)' = Spent(k)
    <2>1. p \notin Spent(k)
      BY <1>8 DEF Spent
    <2>2. LocalTtl + outage > LocalTtl /\ ~Busy(t, k)
      BY <1>0, <1>1, <1>7, <1>10
    <2>3. p \notin debug => p \in Spent(k)'
      BY <1>2, <1>6, <1>8, <2>2 DEF Spent
    <2>4. p \in debug => p \notin Spent(k)'
      BY <1>2 DEF Spent
    <2>5. \A y \in Pod : y # p => (y \in Spent(k)' <=> y \in Spent(k))
      BY <1>1, <1>2, <1>6, <1>8 DEF Spent
    <2> QED BY <2>1, <2>3, <2>4, <2>5, SpentPods
  <1>11. burst' \in [Key -> Nat] /\ (outage = 0 => burst' = burst)
    BY <1>1, <1>2 DEF FloodInv
  <1>12. ASSUME outage \in 1..LocalTtl, NEW x \in Key
         PROVE  burst'[x] <= Cardinality(Spent(x)')
    <2>1. burst[x] \in Nat /\ burst[x] <= Cardinality(Spent(x))
      BY <1>12 DEF FloodInv
    <2>2. CASE x # k
      <3>1. burst'[x] = burst[x]
        BY <1>1, <1>2, <2>2 DEF FloodInv
      <3> QED BY <1>9, <2>1, <2>2, <3>1
    <2>3. CASE x = k /\ p \in debug
      <3>1. burst'[x] = burst[x] /\ Spent(x)' = Spent(x)
        BY <1>2, <1>10, <1>12, <2>3
      <3> QED BY <2>1, <3>1
    <2>4. CASE x = k /\ p \notin debug
      <3>1. burst'[x] = burst[x] + 1
        BY <1>2, <1>12, <2>4 DEF FloodInv
      <3>2. Spent(k) \in SUBSET Pod /\ Cardinality(Spent(k)) \in Nat
        BY SpentPods, PodsFinite
      <3>3. Cardinality(Spent(k) \cup {p}) = Cardinality(Spent(k)) + 1
        BY <1>10, <1>12, <3>2, PodsCounted
      <3>4. Spent(x)' = Spent(k) \cup {p}
        BY <1>10, <1>12, <2>4
      <3> QED BY <2>1, <2>4, <3>1, <3>2, <3>3, <3>4
    <2> QED BY <2>2, <2>3, <2>4
  <1> QED BY <1>2, <1>11, <1>12 DEF FloodInv

(* One entry less for a pod, and one mail less that is counted.            *)
LEMMA FloodForgets ==
  ASSUME FloodInv, NEW p \in Pod, UNCHANGED <<debug, outage>>,
         burst' \in [Key -> Nat],
         \A k \in Key : \/ burst'[k] = Less(burst[k]) /\ Spent(k) \ {p} \subseteq Spent(k)'
                        \/ burst'[k] = burst[k] /\ Spent(k) \subseteq Spent(k)'
  PROVE  FloodInv'
  <1>1. burst \in [Key -> Nat]
    BY DEF FloodInv
  <1>2. outage' = 0 => \A k \in Key : burst'[k] = 0
    BY <1>1 DEF FloodInv, Less
  <1>3. ASSUME outage \in 1..LocalTtl, NEW k \in Key
        PROVE  burst'[k] <= Cardinality(Spent(k)')
    <2>1. burst[k] \in Nat /\ burst[k] <= Cardinality(Spent(k))
      BY <1>1, <1>3 DEF FloodInv
    <2>2. Spent(k) \in SUBSET Pod /\ Spent(k)' \in SUBSET Pod
      BY SpentPods
    <2>3. CASE burst'[k] = burst[k] /\ Spent(k) \subseteq Spent(k)'
      <3>1. /\ Cardinality(Spent(k)) \in Nat /\ Cardinality(Spent(k)') \in Nat
            /\ Cardinality(Spent(k)) <= Cardinality(Spent(k)')
        BY <2>2, <2>3, PodsFinite
      <3> QED BY <2>1, <2>3, <3>1
    <2>4. CASE burst'[k] = Less(burst[k]) /\ Spent(k) \ {p} \subseteq Spent(k)'
      <3>1. /\ Cardinality(Spent(k) \ {p}) \in Nat /\ Cardinality(Spent(k)') \in Nat
            /\ Cardinality(Spent(k) \ {p}) <= Cardinality(Spent(k)')
        BY <2>2, <2>4, PodsFinite
      <3>2. Cardinality(Spent(k)) <= Cardinality(Spent(k) \ {p}) + 1
              /\ Cardinality(Spent(k)) \in Nat
        BY <2>2, PodsCounted, PodsFinite
      <3> QED BY <2>1, <2>4, <3>1, <3>2 DEF Less
    <2> QED BY <2>3, <2>4
  <1> QED BY <1>2, <1>3 DEF FloodInv

LEMMA FloodRestart ==
  ASSUME DispatchInv, FloodInv, NEW p \in Pod, Restart(p)
  PROVE  FloodInv'
  <1>0. /\ tick \in [Pod -> Tick] /\ local \in [Pod -> [Key -> Nat]]
        /\ burst \in [Key -> Nat]
    BY DEF DispatchInv, Typed, FloodInv
  <1>1. /\ tick' = [tick EXCEPT ![p] = NoTick]
        /\ local' = [local EXCEPT ![p] = [k \in Key |-> 0]]
        /\ burst' = [k \in Key |-> Less(burst[k])] /\ UNCHANGED <<debug, outage>>
    BY DEF Restart, Over
  <1>2. burst' \in [Key -> Nat] /\ \A k \in Key : burst'[k] = Less(burst[k])
    BY <1>0, <1>1, LessTyped
  <1>3. \A k \in Key : Spent(k) \ {p} \subseteq Spent(k)'
    BY <1>0, <1>1 DEF Spent
  <1> QED BY <1>1, <1>2, <1>3, FloodForgets

LEMMA FloodClear ==
  ASSUME DispatchInv, FloodInv, NEW p \in Pod, NEW x \in Key, ClearCooldown(p, x)
  PROVE  FloodInv'
  <1>0. local \in [Pod -> [Key -> Nat]] /\ burst \in [Key -> Nat]
    BY DEF DispatchInv, Typed, FloodInv
  <1>1. /\ local' = [local EXCEPT ![p][x] = 0]
        /\ burst' = [burst EXCEPT ![x] = Less(@)] /\ UNCHANGED <<debug, tick, outage>>
    BY DEF ClearCooldown
  <1>2. burst' \in [Key -> Nat] /\ burst'[x] = Less(burst[x])
          /\ \A k \in Key : k # x => burst'[k] = burst[k]
    BY <1>0, <1>1, LessTyped
  <1>3. Spent(x) \ {p} \subseteq Spent(x)'
    BY <1>0, <1>1 DEF Spent
  <1>4. \A k \in Key : k # x => Spent(k) \subseteq Spent(k)'
    BY <1>0, <1>1 DEF Spent
  <1> QED BY <1>1, <1>2, <1>3, <1>4, FloodForgets

(* The outage ages as fast as the local entries do.                        *)
LEMMA FloodClock ==
  ASSUME DispatchInv, FloodInv, Clock
  PROVE  FloodInv'
  <1>0. /\ local \in [Pod -> [Key -> Nat]] /\ burst \in [Key -> Nat]
        /\ outage \in Nat /\ LocalTtl \in Nat \ {0}
    BY DispatchAssumption DEF DispatchInv, Typed, FloodInv
  <1>1. /\ local' = [p \in Pod |-> [k \in Key |-> Less(local[p][k])]]
        /\ outage' = (IF outage \in 1..LocalTtl THEN outage + 1 ELSE outage)
        /\ UNCHANGED <<debug, tick, burst>>
    BY DEF Clock
  <1>2. /\ outage' = 0 => outage = 0
        /\ outage' \in 1..LocalTtl => outage \in 1..LocalTtl /\ outage' = outage + 1
    BY <1>0, <1>1
  <1>3. ASSUME outage' \in 1..LocalTtl, NEW k \in Key
        PROVE  burst'[k] <= Cardinality(Spent(k)')
    <2>1. burst[k] \in Nat /\ burst[k] <= Cardinality(Spent(k))
      BY <1>0, <1>2, <1>3 DEF FloodInv
    <2>2. ASSUME NEW y \in Spent(k) PROVE y \in Spent(k)'
      <3>1. y \in Pod \ debug /\ local[y][k] + outage > LocalTtl /\ ~Busy(tick[y], k)
        BY <2>2 DEF Spent
      <3>2. local'[y][k] = Less(local[y][k]) /\ local[y][k] \in Nat
        BY <1>0, <1>1, <3>1
      <3>3. Less(local[y][k]) + (outage + 1) > LocalTtl
        BY <1>0, <1>2, <1>3, <3>1, <3>2 DEF Less
      <3> QED BY <1>1, <1>2, <1>3, <3>1, <3>2, <3>3 DEF Spent
    <2>3. /\ Cardinality(Spent(k)) \in Nat /\ Cardinality(Spent(k)') \in Nat
          /\ Cardinality(Spent(k)) <= Cardinality(Spent(k)')
      BY <2>2, SpentPods, PodsFinite
    <2> QED BY <1>1, <2>1, <2>3
  <1> QED BY <1>0, <1>1, <1>2, <1>3 DEF FloodInv

LEMMA FloodRedis ==
  ASSUME DispatchInv, FloodInv, \/ RedisFails \/ RedisReturns \/ UNCHANGED vars
                                \/ \E p \in Pod : LoseLock(p)
  PROVE  FloodInv'
  <1>1. CASE RedisFails
    <2>1. /\ outage' = 1 /\ UNCHANGED <<debug, tick, local, burst>>
          /\ burst \in [Key -> Nat] /\ \A k \in Key : burst[k] = 0
      BY <1>1 DEF RedisFails, FloodInv
    <2>2. \A k \in Key : Cardinality(Spent(k)') \in Nat
      BY SpentPods, PodsFinite
    <2>3. \A k \in Key : burst'[k] <= Cardinality(Spent(k)')
      BY <2>1, <2>2
    <2> QED BY <2>1, <2>3 DEF FloodInv
  <1>2. CASE RedisReturns
    <2>1. outage' = 0 /\ burst' = [k \in Key |-> 0]
      BY <1>2 DEF RedisReturns
    <2> QED BY <2>1 DEF FloodInv
  <1>3. CASE UNCHANGED vars \/ \E p \in Pod : LoseLock(p)
    <2>0. UNCHANGED <<debug, tick, outage, local, burst>>
      BY <1>3 DEF vars, LoseLock
    <2>1. \A k : Spent(k)' = Spent(k)
      BY <2>0 DEF Spent
    <2> QED BY <2>0, <2>1, SpentStays
  <1> QED BY <1>1, <1>2, <1>3

LEMMA FloodStep ==
  ASSUME DispatchInv, FloodInv, [Next]_vars
  PROVE  FloodInv'
  <1>1. ASSUME NEW p \in Pod, TickStep(p) PROVE FloodInv'
    BY <1>1, FloodCollect, FloodCheck, FloodSet, FloodOver, FloodSent DEF TickStep
  <1>2. ASSUME NEW p \in Pod,
               \/ \E iv \in Interval : RunAnalysis(p, iv)
               \/ TickRaises(p) \/ Restart(p) \/ LoseLock(p)
               \/ \E k \in tick[p].todo : SendFails(p, k)
               \/ \E k \in Key : ClearCooldown(p, k)
        PROVE  FloodInv'
    BY <1>2, FloodRun, FloodOver, FloodRestart, FloodSendFails, FloodClear,
       FloodRedis
  <1> QED BY <1>1, <1>2, FloodClock, FloodRedis DEF Next

LEMMA FloodInit == Init => FloodInv
  BY DEF Init, FloodInv

(* A Redis outage does not turn into a flood: while local entries live,    *)
(* each production pod mails a key once at most, but for one mail more for *)
(* each restart and each cooldown cleared by hand (cooldown.py:5).         *)
THEOREM NoFloodTheorem == Spec => []NoFlood
  <1>1. FloodInv => NoFlood
    <2> SUFFICES ASSUME FloodInv, outage \in 1..LocalTtl, NEW k \in Key
                 PROVE  burst[k] <= Cardinality(Pod \ debug)
      BY DEF NoFlood
    <2>1. burst[k] \in Nat /\ burst[k] <= Cardinality(Spent(k))
      BY DEF FloodInv
    <2>2. Spent(k) \subseteq Pod \ debug
      BY DEF Spent
    <2>3. /\ Cardinality(Spent(k)) \in Nat /\ Cardinality(Pod \ debug) \in Nat
          /\ Cardinality(Spent(k)) <= Cardinality(Pod \ debug)
      BY <2>2, PodsFinite
    <2> QED BY <2>1, <2>3
  <1>2. DispatchInv /\ FloodInv /\ [Next]_vars => FloodInv'
    BY FloodStep
  <1> QED BY <1>1, <1>2, FloodInit, DispatchInvariance, PTL DEF Spec
=============================================================================
