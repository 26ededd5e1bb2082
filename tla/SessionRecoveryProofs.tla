----------------------- MODULE SessionRecoveryProofs ------------------------
(***************************************************************************)
(* Proofs about the recovery from lost sessions, for any instances and any *)
(* number of losses, crashes and failing calls: a recovery that came to    *)
(* its end leaves a member that contends, and who leads holds the lock;    *)
(* when the epoch only rises and LeaderElection implements Election.       *)
(***************************************************************************)
EXTENDS SessionRecovery, TLAPS

Has(i, h) == \E n \in DOMAIN recs[i] : recs[i][n] = h

(* Sessions are numbered upwards, a pod that is off runs nothing, and the  *)
(* session a pod has now is not one ZooKeeper keeps for a dead process.    *)
Bounds(i) ==
  /\ whole[i] <= gen[i] /\ \A h \in Handler : Has(i, h) => h.gen <= gen[i]
  /\ conn[i] # "off" => gen[i] > 0
  /\ conn[i] \in {"expired", "lost"} => gen[i] < MaxSession
  /\ conn[i] = "off" => recs[i] = <<>> /\ thread[i] = "idle" /\ queued[i] = 0
  /\ \A s \in Session : <<i, s>> \in stale =>
       s <= gen[i] /\ (s = gen[i] => conn[i] = "off")

(* Nothing but a failing call of its own ends the run the set-up queued.   *)
Contends(i) ==
  SetUp(i) => ~stopEv[i] /\ (queued[i] > 0 \/ thread[i] # "idle" \/ Dropped(i))

(* From the wait for the old run on, a run of this session past the lock   *)
(* holds it.                                                               *)
Leads(i) ==
  /\ isLeader[i] => thread[i] = "wait"
  /\ (/\ ~Slow /\ conn[i] = "up"
      /\ \/ whole[i] = gen[i]
         \/ \E h \in Handler : Has(i, h) /\ h.gen = gen[i]
                                 /\ (h.boot \/ h.at = "ensure"))
       => thread[i] \in {"idle", "contend"} \/ lock = <<i, gen[i]>>

(* Where restarts wait for the old session, the member node belongs to the *)
(* session of the pod or to nobody, and to the session once it registered. *)
Belongs(i) == ~Hasty =>
  /\ conn[i] # "off" => \A s \in Session : <<i, s>> \notin stale
  /\ conn[i] = "off" => member[i] = 0 \/ <<i, member[i]>> \in stale
  /\ conn[i] = "up" => member[i] \in {0, gen[i]}
  /\ conn[i] \in {"expired", "lost"} => member[i] = 0
  /\ (/\ conn[i] = "up"
      /\ \/ whole[i] = gen[i]
         \/ \E h \in Handler : Has(i, h) /\ h.gen = gen[i] /\ h.at # "member")
       => member[i] = gen[i]

PodInv(i) == Bounds(i) /\ Contends(i) /\ Leads(i) /\ Belongs(i)
RecoveryInv == TypeOK /\ \A i \in Inst : PodInv(i)

-----------------------------------------------------------------------------
LEMMA RecoveryInit == Init => RecoveryInv
  <1> SUFFICES ASSUME Init PROVE RecoveryInv
    OBVIOUS
  <1>1. TypeOK
    BY RecoveryAssumption DEF Init, TypeOK
  <1>2. ASSUME NEW i \in Inst PROVE PodInv(i)
    <2>1. conn[i] = "off" /\ recs[i] = <<>> /\ whole[i] = 0 /\ gen[i] = 0
            /\ thread[i] = "idle" /\ ~isLeader[i] /\ member[i] = 0 /\ stale = {}
            /\ queued[i] = 0
      BY DEF Init
    <2>2. \A h : ~Has(i, h)
      BY <2>1 DEF Has
    <2>3. Bounds(i) /\ Contends(i)
      BY <2>1, <2>2 DEF Bounds, Contends, SetUp, Dropped
    <2>4. Leads(i) /\ Belongs(i)
      BY <2>1 DEF Leads, Belongs
    <2> QED BY <2>3, <2>4 DEF PodInv
  <1> QED BY <1>1, <1>2 DEF RecoveryInv

(* A step elsewhere.                                                       *)
LEMMA Elsewhere ==
  ASSUME NEW i \in Inst, PodInv(i),
         conn'[i] = conn[i], gen'[i] = gen[i], recs'[i] = recs[i],
         whole'[i] = whole[i], dropped'[i] = dropped[i],
         thread'[i] = thread[i], queued'[i] = queued[i],
         stopEv'[i] = stopEv[i], isLeader'[i] = isLeader[i],
         member'[i] = member[i],
         \A s : <<i, s>> \in stale' <=> <<i, s>> \in stale,
         lock = <<i, gen[i]>> => lock' = lock
  PROVE  PodInv(i)'
  <1>1. \A h : Has(i, h)' <=> Has(i, h)
    BY DEF Has
  <1>2. Bounds(i)'
    BY <1>1 DEF PodInv, Bounds
  <1>3. Contends(i)'
    BY DEF PodInv, Contends, SetUp, Dropped
  <1>4. Leads(i)'
    BY <1>1 DEF PodInv, Leads
  <1>5. Belongs(i)'
    BY <1>1 DEF PodInv, Belongs
  <1> QED BY <1>2, <1>3, <1>4, <1>5 DEF PodInv

-----------------------------------------------------------------------------
(* What handlers do to the list of handlers.                               *)

LEMMA GoToSeq ==
  ASSUME TypeOK, NEW i \in Inst, NEW n \in DOMAIN recs[i],
         NEW at \in {"member", "watch", "stop", "await", "ensure"},
         GoTo(i, n, at)
  PROVE  /\ recs' \in [Inst -> Seq(Handler)]
         /\ \A j \in Inst : j # i => recs'[j] = recs[j]
         /\ recs'[i] # <<>>
         /\ \A h \in Handler : Has(i, h)' =>
              Has(i, h) \/ (h.at = at /\ h.gen = recs[i][n].gen
                              /\ h.boot = recs[i][n].boot)
  <1> DEFINE h0 == [recs[i][n] EXCEPT !.at = at]
             r == [recs[i] EXCEPT ![n] = h0]
  <1>1. recs \in [Inst -> Seq(Handler)] /\ recs[i] \in Seq(Handler)
          /\ DOMAIN recs[i] = 1..Len(recs[i]) /\ recs[i][n] \in Handler
    BY DEF TypeOK
  <1>2. h0 \in Handler /\ h0.at = at /\ h0.gen = recs[i][n].gen
          /\ h0.boot = recs[i][n].boot
    BY <1>1 DEF Handler
  <1>3. recs' = [recs EXCEPT ![i] = r]
    BY <1>1 DEF GoTo
  <1> HIDE DEF h0
  <1>4. r \in Seq(Handler) /\ r # <<>> /\ DOMAIN r = DOMAIN recs[i]
          /\ \A k \in DOMAIN r : r[k] = IF k = n THEN h0 ELSE recs[i][k]
    BY <1>1, <1>2
  <1> HIDE DEF r
  <1>5. recs'[i] = r /\ recs' \in [Inst -> Seq(Handler)]
          /\ \A j \in Inst : j # i => recs'[j] = recs[j]
    BY <1>1, <1>3, <1>4
  <1>6. ASSUME NEW h \in Handler, Has(i, h)'
        PROVE  Has(i, h) \/ h = h0
    BY <1>4, <1>5, <1>6 DEF Has
  <1> QED BY <1>2, <1>4, <1>5, <1>6

LEMMA EndsSeq ==
  ASSUME TypeOK, NEW i \in Inst, NEW n \in DOMAIN recs[i], HandlerEnds(i, n)
  PROVE  /\ recs' \in [Inst -> Seq(Handler)]
         /\ \A j \in Inst : j # i => recs'[j] = recs[j]
         /\ \A h \in Handler : Has(i, h)' => Has(i, h)
         /\ lostFlag' \in [Inst -> BOOLEAN]
  <1> DEFINE r == [k \in 1..(Len(recs[i]) - 1) |->
                     IF k < n THEN recs[i][k] ELSE recs[i][k + 1]]
  <1>1. recs \in [Inst -> Seq(Handler)] /\ recs[i] \in Seq(Handler)
          /\ DOMAIN recs[i] = 1..Len(recs[i]) /\ recs[i][n] \in Handler
          /\ Len(recs[i]) \in Nat /\ n \in 1..Len(recs[i])
    BY DEF TypeOK
  <1>2. recs' = [recs EXCEPT ![i] = r]
    BY DEF HandlerEnds
  <1>3. \A k \in 1..(Len(recs[i]) - 1) : \E m \in DOMAIN recs[i] : r[k] = recs[i][m]
    <2> SUFFICES ASSUME NEW k \in 1..(Len(recs[i]) - 1)
                 PROVE  \E m \in DOMAIN recs[i] : r[k] = recs[i][m]
      OBVIOUS
    <2>1. k \in DOMAIN recs[i] /\ k + 1 \in DOMAIN recs[i]
      BY <1>1
    <2>2. r[k] = recs[i][k] \/ r[k] = recs[i][k + 1]
      OBVIOUS
    <2> QED BY <2>1, <2>2
  <1>4. DOMAIN r = 1..(Len(recs[i]) - 1)
    OBVIOUS
  <1>5. r \in [1..(Len(recs[i]) - 1) -> Handler]
    BY <1>1
  <1>6. r \in Seq(Handler)
    BY <1>1, <1>5
  <1> HIDE DEF r
  <1>7. recs'[i] = r /\ recs' \in [Inst -> Seq(Handler)]
          /\ \A j \in Inst : j # i => recs'[j] = recs[j]
    BY <1>1, <1>2, <1>6
  <1>8. \A h \in Handler : Has(i, h)' => Has(i, h)
    BY <1>3, <1>4, <1>7 DEF Has
  <1>9. lostFlag' \in [Inst -> BOOLEAN]
    <2>1. lostFlag' = [lostFlag EXCEPT ![i] = recs[i][n].boot /\ @]
      BY DEF HandlerEnds
    <2>2. (recs[i][n].boot /\ lostFlag[i]) \in BOOLEAN
      OBVIOUS
    <2> QED BY <2>1, <2>2 DEF TypeOK
  <1> QED BY <1>7, <1>8, <1>9

-----------------------------------------------------------------------------
(* The end of a session takes away what it owned and nothing else.         *)
LEMMA EndSessionEffect ==
  ASSUME TypeOK, NEW i \in Inst, NEW s \in Session, EndSession(i, s)
  PROVE  /\ member' \in [Inst -> 0..MaxSession]
         /\ (lock' = NoLock \/ lock' \in Inst \X Session)
         /\ member'[i] = (IF member[i] = s THEN 0 ELSE member[i])
         /\ (lock # <<i, s>> => lock' = lock)
         /\ \A j \in Inst : j # i => member'[j] = member[j]
         /\ \A j \in Inst : j # i => (lock = <<j, gen[j]>> => lock' = lock)
  <1>1. 0 \in 0..MaxSession
    BY RecoveryAssumption
  <1> QED BY <1>1 DEF EndSession, TypeOK

(* The pod is gone.                                                        *)
LEMMA ProcessGoneEffect ==
  ASSUME TypeOK, NEW i \in Inst, ProcessGone(i), left.down > 0
  PROVE  /\ conn' \in [Inst -> {"off", "up", "expired", "lost"}]
         /\ lostFlag' \in [Inst -> BOOLEAN] /\ recs' \in [Inst -> Seq(Handler)]
         /\ thread' \in [Inst -> {"idle", "contend", "read", "write", "wait"}]
         /\ queued' \in [Inst -> Nat] /\ stopEv' \in [Inst -> BOOLEAN]
         /\ isLeader' \in [Inst -> BOOLEAN] /\ epoch' \in [Inst -> Nat]
         /\ left' \in [expire : 0..MaxExpire, down : 0..MaxDown, fail : 0..MaxFail]
         /\ conn'[i] = "off" /\ recs'[i] = <<>> /\ thread'[i] = "idle"
         /\ ~isLeader'[i] /\ queued'[i] = 0
         /\ \A j \in Inst : j # i =>
              /\ conn'[j] = conn[j] /\ recs'[j] = recs[j]
              /\ thread'[j] = thread[j] /\ queued'[j] = queued[j]
              /\ stopEv'[j] = stopEv[j] /\ isLeader'[j] = isLeader[j]
  <1>1. left' \in [expire : 0..MaxExpire, down : 0..MaxDown, fail : 0..MaxFail]
    <2>1. /\ left \in [expire : 0..MaxExpire, down : 0..MaxDown, fail : 0..MaxFail]
          /\ left' = [left EXCEPT !.down = @ - 1]
      BY DEF ProcessGone, TypeOK
    <2> QED BY <2>1, RecoveryAssumption
  <1>2. recs' \in [Inst -> Seq(Handler)]
    BY DEF ProcessGone, TypeOK
  <1> QED BY <1>1, <1>2 DEF ProcessGone, TypeOK

(* A pod that is off.                                                      *)
LEMMA OffInv ==
  ASSUME NEW i \in Inst, TypeOK, TypeOK', PodInv(i), conn'[i] = "off",
         recs'[i] = <<>>, thread'[i] = "idle", ~isLeader'[i], queued'[i] = 0,
         gen'[i] = gen[i], whole'[i] = whole[i],
         \A s \in Session : <<i, s>> \in stale' => <<i, s>> \in stale \/ s = gen[i],
         ~Hasty => member'[i] = 0 \/ <<i, member'[i]>> \in stale'
  PROVE  PodInv(i)'
  <1>1. gen[i] \in Nat /\ whole[i] \in Nat /\ \A s \in Session : s \in Nat
    BY RecoveryAssumption DEF TypeOK, Session
  <1>2. \A h : ~Has(i, h)'
    BY DEF Has
  <1>3. Bounds(i)'
    BY <1>1, <1>2 DEF PodInv, Bounds
  <1>4. Contends(i)' /\ Leads(i)' /\ Belongs(i)'
    BY DEF Contends, SetUp, Dropped, Leads, Belongs
  <1> QED BY <1>3, <1>4 DEF PodInv

LEMMA StopOrCrashStep ==
  ASSUME RecoveryInv, NEW i \in Inst, StopPod(i) \/ CrashPod(i)
  PROVE  RecoveryInv'
  <1>0. /\ conn[i] = "up" /\ ProcessGone(i) /\ left.down > 0 /\ TypeOK /\ PodInv(i)
        /\ UNCHANGED <<epochNode, gen, whole, dropped, epochRead>>
    BY DEF StopPod, CrashPod, RecoveryInv
  <1>1. gen[i] \in Session /\ gen[i] > 0
    BY <1>0, RecoveryAssumption DEF TypeOK, Session, PodInv, Bounds
  <1>2. \/ EndSession(i, gen[i]) /\ stale' = stale
        \/ UNCHANGED <<member, lock>> /\ stale' = stale \cup {<<i, gen[i]>>}
    BY DEF StopPod, CrashPod
  <1>3. /\ member' \in [Inst -> 0..MaxSession]
        /\ (lock' = NoLock \/ lock' \in Inst \X Session)
        /\ \A j \in Inst : j # i => member'[j] = member[j]
        /\ \A j \in Inst : j # i => (lock = <<j, gen[j]>> => lock' = lock)
    BY <1>0, <1>1, <1>2, EndSessionEffect DEF TypeOK
  <1>4. /\ stale' \subseteq Inst \X Session
        /\ \A j \in Inst : \A s : j # i => (<<j, s>> \in stale' <=> <<j, s>> \in stale)
        /\ \A s : <<i, s>> \in stale' => <<i, s>> \in stale \/ s = gen[i]
    <2>1. CASE stale' = stale
      BY <1>0, <2>1 DEF TypeOK
    <2>2. CASE stale' = stale \cup {<<i, gen[i]>>}
      <3>1. stale' \subseteq Inst \X Session
        BY <1>0, <1>1, <2>2 DEF TypeOK
      <3>2. \A j \in Inst : \A s : j # i => <<j, s>> # <<i, gen[i]>>
        OBVIOUS
      <3>3. \A s : <<i, s>> = <<i, gen[i]>> => s = gen[i]
        OBVIOUS
      <3> QED BY <2>2, <3>1, <3>2, <3>3, Zenon
    <2> QED BY <1>2, <2>1, <2>2
  <1>5. TypeOK'
    <2>1. /\ epochNode' \in Nat /\ gen' \in [Inst -> 0..MaxSession]
          /\ whole' \in [Inst -> 0..MaxSession] /\ epochRead' \in [Inst -> Nat]
          /\ dropped' \in [Inst -> 0..MaxSession]
      BY <1>0 DEF TypeOK
    <2>2. /\ conn' \in [Inst -> {"off", "up", "expired", "lost"}]
          /\ lostFlag' \in [Inst -> BOOLEAN] /\ recs' \in [Inst -> Seq(Handler)]
          /\ thread' \in [Inst -> {"idle", "contend", "read", "write", "wait"}]
          /\ queued' \in [Inst -> Nat] /\ stopEv' \in [Inst -> BOOLEAN]
          /\ isLeader' \in [Inst -> BOOLEAN] /\ epoch' \in [Inst -> Nat]
          /\ left' \in [expire : 0..MaxExpire, down : 0..MaxDown, fail : 0..MaxFail]
      BY <1>0, ProcessGoneEffect
    <2> QED BY <1>3, <1>4, <2>1, <2>2 DEF TypeOK
  <1>6. ~Hasty => member'[i] = 0 \/ <<i, member'[i]>> \in stale'
    <2>1. ~Hasty => member[i] = 0 \/ member[i] = gen[i]
      BY <1>0 DEF PodInv, Belongs
    <2>2. CASE EndSession(i, gen[i])
      BY <1>0, <1>1, <2>1, <2>2, EndSessionEffect
    <2>3. CASE UNCHANGED <<member, lock>> /\ stale' = stale \cup {<<i, gen[i]>>}
      BY <2>1, <2>3
    <2> QED BY <1>2, <2>2, <2>3
  <1>7. PodInv(i)'
    <2>1. conn'[i] = "off" /\ recs'[i] = <<>> /\ thread'[i] = "idle"
            /\ ~isLeader'[i] /\ queued'[i] = 0
            /\ gen'[i] = gen[i] /\ whole'[i] = whole[i]
      BY <1>0, ProcessGoneEffect
    <2>2. \A s \in Session : <<i, s>> \in stale' => <<i, s>> \in stale \/ s = gen[i]
      BY <1>4
    <2> QED BY <1>0, <1>5, <1>6, <2>1, <2>2, OffInv
  <1>8. ASSUME NEW j \in Inst, j # i PROVE PodInv(j)'
    <2>1. PodInv(j)
      BY DEF RecoveryInv
    <2> QED BY <1>0, <1>3, <1>4, <1>8, <2>1, ProcessGoneEffect, Elsewhere
  <1> QED BY <1>5, <1>7, <1>8 DEF RecoveryInv

LEMMA BootStep ==
  ASSUME RecoveryInv, NEW i \in Inst, BootPod(i)
  PROVE  RecoveryInv'
  <1> DEFINE h0 == [at |-> "member", boot |-> TRUE, gen |-> gen[i] + 1]
  <1>0. /\ TypeOK /\ PodInv(i) /\ conn[i] = "off" /\ gen[i] \in 0..MaxSession
        /\ gen[i] < MaxSession /\ MaxSession \in Nat
        /\ UNCHANGED <<zkVars, lostFlag, whole, dropped, electVars, left>>
    BY RecoveryAssumption DEF BootPod, RecoveryInv, TypeOK
  <1>1. gen[i] + 1 \in Session /\ h0 \in Handler /\ h0.gen = gen[i] + 1
          /\ h0.at = "member"
    BY <1>0 DEF Session, Handler
  <1> HIDE DEF h0
  <1>2. <<h0>> \in Seq(Handler) /\ <<h0>> # <<>>
          /\ \A n \in DOMAIN <<h0>> : <<h0>>[n] = h0
    BY <1>1
  <1>3. /\ conn' = [conn EXCEPT ![i] = "up"] /\ gen' = [gen EXCEPT ![i] = gen[i] + 1]
        /\ recs' = [recs EXCEPT ![i] = <<h0>>]
    BY DEF BootPod, h0
  <1>4. TypeOK'
    <2>1. gen' \in [Inst -> 0..MaxSession]
      BY <1>0, <1>3 DEF TypeOK
    <2>2. recs' \in [Inst -> Seq(Handler)]
      BY <1>0, <1>2, <1>3 DEF TypeOK
    <2>3. conn' \in [Inst -> {"off", "up", "expired", "lost"}]
      BY <1>0, <1>3 DEF TypeOK
    <2> QED BY <1>0, <2>1, <2>2, <2>3 DEF TypeOK, zkVars, electVars
  <1>5. conn'[i] = "up" /\ gen'[i] = gen[i] + 1 /\ recs'[i] = <<h0>>
          /\ whole'[i] = whole[i] /\ whole[i] \in Nat /\ gen[i] \in Nat
          /\ thread'[i] = thread[i] /\ isLeader'[i] = isLeader[i]
          /\ stale' = stale /\ member'[i] = member[i]
    BY <1>0, <1>3 DEF TypeOK, zkVars, electVars
  <1>6. \A h : Has(i, h)' => h = h0
    BY <1>2, <1>5 DEF Has
  <1>7. PodInv(i)'
    <2>1. Bounds(i)'
      <3>1. \A s \in Session : <<i, s>> \in stale => s <= gen[i] /\ s \in Nat
        BY <1>0 DEF PodInv, Bounds, Session
      <3> QED BY <1>0, <1>1, <1>5, <1>6, <3>1 DEF PodInv, Bounds
    <2>2. Contends(i)'
      BY <1>2, <1>5 DEF Contends, SetUp, Dropped
    <2>3. thread[i] = "idle" /\ ~isLeader[i]
      BY <1>0 DEF PodInv, Bounds, Leads
    <2>4. Leads(i)'
      BY <1>5, <2>3 DEF Leads
    <2>5. ~Hasty => \A s \in Session : <<i, s>> \notin stale
      BY DEF BootPod
    <2>6. ~Hasty => member[i] = 0
      <3>1. stale \subseteq Inst \X Session
        BY <1>0 DEF TypeOK
      <3> QED BY <1>0, <2>5, <3>1 DEF PodInv, Belongs
    <2>7. whole[i] <= gen[i]
      BY <1>0 DEF PodInv, Bounds
    <2>8. Belongs(i)'
      BY <1>1, <1>5, <1>6, <2>5, <2>6, <2>7 DEF Belongs
    <2> QED BY <2>1, <2>2, <2>4, <2>8 DEF PodInv
  <1>8. ASSUME NEW j \in Inst, j # i PROVE PodInv(j)'
    <2>1. PodInv(j) /\ conn'[j] = conn[j] /\ gen'[j] = gen[j] /\ recs'[j] = recs[j]
      BY <1>0, <1>3, <1>8 DEF RecoveryInv, TypeOK
    <2> QED BY <1>0, <2>1, Elsewhere DEF zkVars, electVars
  <1> QED BY <1>4, <1>7, <1>8 DEF RecoveryInv

LEMMA ReapStep ==
  ASSUME RecoveryInv, NEW i \in Inst, NEW s \in Session, Reap(i, s)
  PROVE  RecoveryInv'
  <1>0. /\ TypeOK /\ PodInv(i) /\ <<i, s>> \in stale /\ EndSession(i, s)
        /\ stale' = stale \ {<<i, s>>}
        /\ UNCHANGED <<epochNode, connVars, recVars, electVars, left>>
    BY DEF Reap, RecoveryInv
  <1>1. /\ member' \in [Inst -> 0..MaxSession]
        /\ (lock' = NoLock \/ lock' \in Inst \X Session)
        /\ member'[i] = (IF member[i] = s THEN 0 ELSE member[i])
        /\ (lock # <<i, s>> => lock' = lock)
        /\ \A j \in Inst : j # i => member'[j] = member[j]
        /\ \A j \in Inst : j # i => (lock = <<j, gen[j]>> => lock' = lock)
    BY <1>0, EndSessionEffect
  <1>2. TypeOK'
    BY <1>0, <1>1 DEF TypeOK, connVars, recVars, electVars
  <1>3. \A h : Has(i, h)' <=> Has(i, h)
    BY <1>0 DEF Has, recVars
  <1>4. PodInv(i)'
    <2>1. Bounds(i)'
      BY <1>0, <1>3 DEF PodInv, Bounds, connVars, recVars, electVars
    <2>2. Contends(i)'
      BY <1>0 DEF PodInv, Contends, SetUp, Dropped, connVars, recVars, electVars
    <2>3. conn[i] = "up" => s # gen[i]
      BY <1>0 DEF PodInv, Bounds
    <2>4. conn[i] = "up" /\ lock = <<i, gen[i]>> => lock' = <<i, gen[i]>>
      <3>1. s # gen[i] => <<i, s>> # <<i, gen[i]>>
        OBVIOUS
      <3> QED BY <1>1, <2>3, <3>1
    <2>5. Leads(i)'
      BY <1>0, <1>3, <2>4 DEF PodInv, Leads, connVars, recVars, electVars
    <2>6. ~Hasty => conn[i] = "off"
      BY <1>0 DEF PodInv, Belongs
    <2>7. ~Hasty => member'[i] = 0 \/ <<i, member'[i]>> \in stale'
      <3>1. CASE member[i] = s
        BY <1>1, <3>1
      <3>2. CASE member[i] # s
        <4>1. <<i, member[i]>> # <<i, s>>
          BY <3>2
        <4> QED BY <1>0, <1>1, <2>6, <3>2, <4>1 DEF PodInv, Belongs
      <3> QED BY <3>1, <3>2
    <2>8. Belongs(i)'
      BY <1>0, <2>6, <2>7 DEF Belongs, connVars
    <2> QED BY <2>1, <2>2, <2>5, <2>8 DEF PodInv
  <1>5. ASSUME NEW j \in Inst, j # i PROVE PodInv(j)'
    <2>1. PodInv(j)
      BY DEF RecoveryInv
    <2>2. \A x : <<j, x>> \in stale' <=> <<j, x>> \in stale
      <3>1. \A x : <<j, x>> # <<i, s>>
        BY <1>5
      <3> QED BY <1>0, <3>1
    <2> QED BY <1>0, <1>1, <1>5, <2>1, <2>2, Elsewhere DEF connVars, recVars, electVars
  <1> QED BY <1>2, <1>4, <1>5 DEF RecoveryInv

LEMMA ExpireStep ==
  ASSUME RecoveryInv, NEW i \in Inst, Expire(i)
  PROVE  RecoveryInv'
  <1>0. /\ TypeOK /\ PodInv(i) /\ conn[i] = "up" /\ EndSession(i, gen[i])
        /\ gen[i] < MaxSession /\ conn' = [conn EXCEPT ![i] = "expired"]
        /\ left.expire > 0 /\ left' = [left EXCEPT !.expire = @ - 1]
        /\ UNCHANGED <<epochNode, stale, gen, lostFlag, recVars, electVars>>
    BY DEF Expire, RecoveryInv
  <1>1. gen[i] \in Session
    BY <1>0, RecoveryAssumption DEF TypeOK, Session, PodInv, Bounds
  <1>2. /\ member' \in [Inst -> 0..MaxSession]
        /\ (lock' = NoLock \/ lock' \in Inst \X Session)
        /\ member'[i] = (IF member[i] = gen[i] THEN 0 ELSE member[i])
        /\ \A j \in Inst : j # i => member'[j] = member[j]
        /\ \A j \in Inst : j # i => (lock = <<j, gen[j]>> => lock' = lock)
    BY <1>0, <1>1, EndSessionEffect
  <1>3. left' \in [expire : 0..MaxExpire, down : 0..MaxDown, fail : 0..MaxFail]
    <2>1. left \in [expire : 0..MaxExpire, down : 0..MaxDown, fail : 0..MaxFail]
      BY <1>0 DEF TypeOK
    <2> QED BY <1>0, <2>1, RecoveryAssumption
  <1>4. TypeOK'
    <2>1. conn' \in [Inst -> {"off", "up", "expired", "lost"}]
      BY <1>0 DEF TypeOK
    <2> QED BY <1>0, <1>2, <1>3, <2>1 DEF TypeOK, recVars, electVars
  <1>5. conn'[i] = "expired"
    BY <1>0 DEF TypeOK
  <1>6. \A h : Has(i, h)' <=> Has(i, h)
    BY <1>0 DEF Has, recVars
  <1>7. PodInv(i)'
    <2>1. Bounds(i)'
      BY <1>0, <1>5, <1>6 DEF PodInv, Bounds, recVars, electVars
    <2>2. Contends(i)' /\ Leads(i)'
      BY <1>0, <1>5 DEF PodInv, Contends, SetUp, Dropped, Leads, electVars
    <2>3. Belongs(i)'
      BY <1>0, <1>2, <1>5 DEF PodInv, Belongs
    <2> QED BY <2>1, <2>2, <2>3 DEF PodInv
  <1>8. ASSUME NEW j \in Inst, j # i PROVE PodInv(j)'
    <2>1. PodInv(j) /\ conn'[j] = conn[j]
      BY <1>0, <1>8 DEF RecoveryInv, TypeOK
    <2> QED BY <1>0, <1>2, <1>8, <2>1, Elsewhere DEF recVars, electVars
  <1> QED BY <1>4, <1>7, <1>8 DEF RecoveryInv

LEMMA OnLostStep ==
  ASSUME RecoveryInv, NEW i \in Inst, OnLost(i)
  PROVE  RecoveryInv'
  <1>0. /\ TypeOK /\ PodInv(i) /\ conn[i] = "expired"
        /\ conn' = [conn EXCEPT ![i] = "lost"]
        /\ lostFlag' = [lostFlag EXCEPT ![i] = TRUE]
        /\ UNCHANGED <<zkVars, gen, recVars, electVars, left>>
    BY DEF OnLost, RecoveryInv
  <1>1. TypeOK'
    <2>1. conn' \in [Inst -> {"off", "up", "expired", "lost"}]
      BY <1>0 DEF TypeOK
    <2>2. lostFlag' \in [Inst -> BOOLEAN]
      BY <1>0 DEF TypeOK
    <2> QED BY <1>0, <2>1, <2>2 DEF TypeOK, zkVars, recVars, electVars
  <1>2. conn'[i] = "lost"
    BY <1>0 DEF TypeOK
  <1>3. \A h : Has(i, h)' <=> Has(i, h)
    BY <1>0 DEF Has, recVars
  <1>4. PodInv(i)'
    <2>1. Bounds(i)'
      BY <1>0, <1>2, <1>3 DEF PodInv, Bounds, zkVars, recVars, electVars
    <2>2. Contends(i)' /\ Leads(i)'
      BY <1>0, <1>2 DEF PodInv, Contends, SetUp, Dropped, Leads, electVars
    <2>3. Belongs(i)'
      BY <1>0, <1>2 DEF PodInv, Belongs, zkVars
    <2> QED BY <2>1, <2>2, <2>3 DEF PodInv
  <1>5. ASSUME NEW j \in Inst, j # i PROVE PodInv(j)'
    <2>1. PodInv(j) /\ conn'[j] = conn[j]
      BY <1>0, <1>5 DEF RecoveryInv, TypeOK
    <2> QED BY <1>0, <2>1, Elsewhere DEF zkVars, recVars, electVars
  <1> QED BY <1>1, <1>4, <1>5 DEF RecoveryInv

LEMMA OnConnectedStep ==
  ASSUME RecoveryInv, NEW i \in Inst, OnConnected(i)
  PROVE  RecoveryInv'
  <1> DEFINE h0 == [at |-> "member", boot |-> FALSE, gen |-> gen[i] + 1]
             r == IF ~lostFlag[i] THEN recs[i] ELSE Append(recs[i], h0)
  <1>0. /\ TypeOK /\ PodInv(i) /\ conn[i] = "lost" /\ gen[i] \in 0..MaxSession
        /\ gen[i] < MaxSession /\ MaxSession \in Nat
        /\ recs \in [Inst -> Seq(Handler)] /\ recs[i] \in Seq(Handler)
        /\ UNCHANGED <<zkVars, lostFlag, whole, dropped, electVars, left>>
    BY RecoveryAssumption DEF OnConnected, RecoveryInv, TypeOK, PodInv, Bounds
  <1>1. gen[i] + 1 \in Session /\ h0 \in Handler /\ h0.gen = gen[i] + 1
          /\ h0.at = "member" /\ ~h0.boot
    BY <1>0 DEF Session, Handler
  <1>2. /\ conn' = [conn EXCEPT ![i] = "up"] /\ gen' = [gen EXCEPT ![i] = gen[i] + 1]
        /\ recs' = [recs EXCEPT ![i] = r]
    BY <1>0 DEF OnConnected
  <1> HIDE DEF h0
  <1>3. r \in Seq(Handler)
          /\ \A n \in DOMAIN r : r[n] = h0 \/ \E m \in DOMAIN recs[i] : r[n] = recs[i][m]
    <2>1. CASE ~lostFlag[i]
      BY <1>0, <2>1
    <2>2. CASE lostFlag[i]
      <3>1. r \in Seq(Handler) /\ Len(r) = Len(recs[i]) + 1
              /\ r[Len(recs[i]) + 1] = h0
              /\ \A n \in 1..Len(recs[i]) : r[n] = recs[i][n]
        BY <1>0, <1>1, <2>2
      <3>2. Len(recs[i]) \in Nat /\ DOMAIN recs[i] = 1..Len(recs[i])
              /\ DOMAIN r = 1..(Len(recs[i]) + 1)
        BY <1>0, <3>1
      <3>3. \A n \in DOMAIN r : n = Len(recs[i]) + 1 \/ n \in 1..Len(recs[i])
        BY <3>2
      <3> QED BY <3>1, <3>2, <3>3
    <2> QED BY <2>1, <2>2
  <1> HIDE DEF r
  <1>4. TypeOK'
    <2>1. gen' \in [Inst -> 0..MaxSession]
      BY <1>0, <1>2 DEF TypeOK
    <2>2. recs' \in [Inst -> Seq(Handler)]
      BY <1>0, <1>2, <1>3
    <2>3. conn' \in [Inst -> {"off", "up", "expired", "lost"}]
      BY <1>0, <1>2 DEF TypeOK
    <2> QED BY <1>0, <2>1, <2>2, <2>3 DEF TypeOK, zkVars, electVars
  <1>5. conn'[i] = "up" /\ gen'[i] = gen[i] + 1 /\ recs'[i] = r
          /\ whole'[i] = whole[i] /\ whole[i] \in Nat /\ gen[i] \in Nat
          /\ thread'[i] = thread[i] /\ isLeader'[i] = isLeader[i]
          /\ stale' = stale /\ member'[i] = member[i]
    BY <1>0, <1>2 DEF TypeOK, zkVars, electVars
  <1>6. \A h : Has(i, h)' => h = h0 \/ Has(i, h)
    BY <1>3, <1>5 DEF Has
  <1>7. whole[i] <= gen[i] /\ \A h \in Handler : Has(i, h) => h.gen <= gen[i]
    BY <1>0 DEF PodInv, Bounds
  <1>8. \A h \in Handler : Has(i, h)' /\ h.gen = gen[i] + 1 => h = h0
    <2>1. \A h \in Handler : h.gen \in Nat
      BY DEF Handler, Session
    <2> QED BY <1>5, <1>6, <1>7, <2>1
  <1>9. PodInv(i)'
    <2>1. Bounds(i)'
      <3>1. \A s \in Session : <<i, s>> \in stale => s <= gen[i] /\ s \in Nat /\ s # gen[i]
        BY <1>0 DEF PodInv, Bounds, Session
      <3>2. \A h \in Handler : Has(i, h)' => h.gen <= gen[i] + 1
        <4>1. \A h \in Handler : h.gen \in Nat
          BY DEF Handler, Session
        <4> QED BY <1>1, <1>5, <1>6, <1>7, <4>1
      <3> QED BY <1>0, <1>5, <1>7, <3>1, <3>2 DEF Bounds
    <2>2. Contends(i)'
      BY <1>5, <1>7 DEF Contends, SetUp, Dropped
    <2>3. Leads(i)'
      BY <1>0, <1>1, <1>5, <1>7, <1>8 DEF PodInv, Leads
    <2>4. Belongs(i)'
      BY <1>0, <1>1, <1>5, <1>7, <1>8 DEF PodInv, Belongs
    <2> QED BY <2>1, <2>2, <2>3, <2>4 DEF PodInv
  <1>10. ASSUME NEW j \in Inst, j # i PROVE PodInv(j)'
    <2>1. PodInv(j) /\ conn'[j] = conn[j] /\ gen'[j] = gen[j] /\ recs'[j] = recs[j]
      BY <1>0, <1>2, <1>10 DEF RecoveryInv, TypeOK
    <2> QED BY <1>0, <2>1, Elsewhere DEF zkVars, electVars
  <1> QED BY <1>4, <1>9, <1>10 DEF RecoveryInv

-----------------------------------------------------------------------------
(* Handlers.  One that goes on keeps the pod from being set up.            *)
LEMMA RegisterMemberStep ==
  ASSUME RecoveryInv, NEW i \in Inst, NEW n \in DOMAIN recs[i], RegisterMember(i, n)
  PROVE  RecoveryInv'
  <1>0. /\ TypeOK /\ PodInv(i) /\ conn[i] = "up" /\ GoTo(i, n, "watch")
        /\ member' = [member EXCEPT ![i] = IF @ = 0 THEN gen[i] ELSE @]
        /\ recs[i][n].at = "member" /\ recs[i][n] \in Handler /\ gen[i] \in 0..MaxSession
        /\ UNCHANGED <<lock, epochNode, stale, connVars, whole, dropped, electVars, left>>
    <2>1. TypeOK /\ PodInv(i)
      BY DEF RecoveryInv
    <2>2. recs[i][n] \in Handler
      BY <2>1 DEF TypeOK
    <2>3. gen[i] \in 0..MaxSession
      BY <2>1 DEF TypeOK
    <2> QED BY <2>1, <2>2, <2>3 DEF RegisterMember, At
  <1>1. /\ recs' \in [Inst -> Seq(Handler)]
        /\ \A j \in Inst : j # i => recs'[j] = recs[j]
        /\ recs'[i] # <<>>
        /\ \A h \in Handler : Has(i, h)' =>
             Has(i, h) \/ (h.at = "watch" /\ h.gen = recs[i][n].gen
                             /\ h.boot = recs[i][n].boot)
    BY <1>0, GoToSeq
  <1>2. member' \in [Inst -> 0..MaxSession]
          /\ member'[i] = (IF member[i] = 0 THEN gen[i] ELSE member[i])
    BY <1>0 DEF TypeOK
  <1>3. TypeOK'
    BY <1>0, <1>1, <1>2 DEF TypeOK, connVars, electVars
  <1>4. Has(i, recs[i][n])
    BY DEF Has
  <1>5. PodInv(i)'
    <2>1. Bounds(i)'
      BY <1>0, <1>1, <1>4 DEF PodInv, Bounds, connVars, electVars
    <2>2. Contends(i)'
      BY <1>1 DEF Contends, SetUp, Dropped
    <2>3. Leads(i)'
      BY <1>0, <1>1, <1>4 DEF PodInv, Leads, connVars, electVars
    <2>4. Belongs(i)'
      BY <1>0, <1>2 DEF PodInv, Belongs, connVars
    <2> QED BY <2>1, <2>2, <2>3, <2>4 DEF PodInv
  <1>6. ASSUME NEW j \in Inst, j # i PROVE PodInv(j)'
    <2>1. PodInv(j) /\ member'[j] = member[j]
      BY <1>0, <1>6 DEF RecoveryInv, TypeOK
    <2> QED BY <1>0, <1>1, <1>6, <2>1, Elsewhere DEF connVars, electVars
  <1> QED BY <1>3, <1>5, <1>6 DEF RecoveryInv

LEMMA RegisterWatchesStep ==
  ASSUME RecoveryInv, NEW i \in Inst, NEW n \in DOMAIN recs[i], RegisterWatches(i, n)
  PROVE  RecoveryInv'
  <1> DEFINE to == IF recs[i][n].boot THEN "ensure" ELSE "stop"
  <1>0. /\ TypeOK /\ PodInv(i) /\ conn[i] = "up" /\ GoTo(i, n, to)
        /\ recs[i][n].at = "watch" /\ recs[i][n] \in Handler
        /\ UNCHANGED <<zkVars, connVars, whole, dropped, electVars, left>>
    <2>1. TypeOK /\ PodInv(i)
      BY DEF RecoveryInv
    <2>2. recs[i][n] \in Handler
      BY <2>1 DEF TypeOK
    <2> QED BY <2>1, <2>2 DEF RegisterWatches, At
  <1>1. to \in {"member", "watch", "stop", "await", "ensure"} /\ to # "member"
          /\ (to = "ensure" => recs[i][n].boot)
    OBVIOUS
  <1> HIDE DEF to
  <1>2. /\ recs' \in [Inst -> Seq(Handler)]
        /\ \A j \in Inst : j # i => recs'[j] = recs[j]
        /\ recs'[i] # <<>>
        /\ \A h \in Handler : Has(i, h)' =>
             Has(i, h) \/ (h.at = to /\ h.gen = recs[i][n].gen
                             /\ h.boot = recs[i][n].boot)
    BY <1>0, <1>1, GoToSeq
  <1>3. TypeOK'
    BY <1>0, <1>2 DEF TypeOK, zkVars, connVars, electVars
  <1>4. Has(i, recs[i][n])
    BY DEF Has
  <1>5. PodInv(i)'
    <2>1. Bounds(i)'
      BY <1>0, <1>2, <1>4 DEF PodInv, Bounds, zkVars, connVars, electVars
    <2>2. Contends(i)'
      BY <1>2 DEF Contends, SetUp, Dropped
    <2>3. Leads(i)'
      BY <1>0, <1>1, <1>2, <1>4 DEF PodInv, Leads, zkVars, connVars, electVars
    <2>4. Belongs(i)'
      BY <1>0, <1>1, <1>2, <1>4 DEF PodInv, Belongs, zkVars, connVars
    <2> QED BY <2>1, <2>2, <2>3, <2>4 DEF PodInv
  <1>6. ASSUME NEW j \in Inst, j # i PROVE PodInv(j)'
    <2>1. PodInv(j)
      BY DEF RecoveryInv
    <2> QED BY <1>0, <1>2, <1>6, <2>1, Elsewhere DEF zkVars, connVars, electVars
  <1> QED BY <1>3, <1>5, <1>6 DEF RecoveryInv

LEMMA RestartSetsStopStep ==
  ASSUME RecoveryInv, NEW i \in Inst, NEW n \in DOMAIN recs[i], RestartSetsStop(i, n)
  PROVE  RecoveryInv'
  <1>0. /\ TypeOK /\ PodInv(i) /\ GoTo(i, n, "await")
        /\ stopEv' = [stopEv EXCEPT ![i] = TRUE]
        /\ recs[i][n].at = "stop" /\ recs[i][n] \in Handler
        /\ UNCHANGED <<zkVars, connVars, whole, dropped, thread, epochRead, queued, isLeader,
                       epoch, left>>
    <2>1. TypeOK /\ PodInv(i)
      BY DEF RecoveryInv
    <2>2. recs[i][n] \in Handler
      BY <2>1 DEF TypeOK
    <2> QED BY <2>1, <2>2 DEF RestartSetsStop, At
  <1>1. /\ recs' \in [Inst -> Seq(Handler)]
        /\ \A j \in Inst : j # i => recs'[j] = recs[j]
        /\ recs'[i] # <<>>
        /\ \A h \in Handler : Has(i, h)' =>
             Has(i, h) \/ (h.at = "await" /\ h.gen = recs[i][n].gen
                             /\ h.boot = recs[i][n].boot)
    BY <1>0, GoToSeq
  <1>2. TypeOK'
    <2>1. stopEv' \in [Inst -> BOOLEAN]
      BY <1>0 DEF TypeOK
    <2> QED BY <1>0, <1>1, <2>1 DEF TypeOK, zkVars, connVars
  <1>3. Has(i, recs[i][n])
    BY DEF Has
  <1>4. conn[i] # "off"
    BY <1>0 DEF PodInv, Bounds
  <1>5. PodInv(i)'
    <2>1. Bounds(i)'
      BY <1>0, <1>1, <1>3, <1>4 DEF PodInv, Bounds, zkVars, connVars
    <2>2. Contends(i)'
      BY <1>1 DEF Contends, SetUp, Dropped
    <2>3. Leads(i)'
      BY <1>0, <1>1, <1>3 DEF PodInv, Leads, zkVars, connVars
    <2>4. Belongs(i)'
      BY <1>0, <1>1, <1>3 DEF PodInv, Belongs, zkVars, connVars
    <2> QED BY <2>1, <2>2, <2>3, <2>4 DEF PodInv
  <1>6. ASSUME NEW j \in Inst, j # i PROVE PodInv(j)'
    <2>1. PodInv(j) /\ stopEv'[j] = stopEv[j]
      BY <1>0, <1>6 DEF RecoveryInv, TypeOK
    <2> QED BY <1>0, <1>1, <1>6, <2>1, Elsewhere DEF zkVars, connVars
  <1> QED BY <1>2, <1>5, <1>6 DEF RecoveryInv

(* With calls that answer in time the wait ends in a session only when the *)
(* old run is over or has not got the lock.                                *)
LEMMA RestartAwaitsStep ==
  ASSUME RecoveryInv, NEW i \in Inst, NEW n \in DOMAIN recs[i], RestartAwaits(i, n)
  PROVE  RecoveryInv'
  <1>0. /\ TypeOK /\ PodInv(i) /\ GoTo(i, n, "ensure")
        /\ queued' = [queued EXCEPT ![i] = IF @ > 0 THEN @ - 1 ELSE 0]
        /\ isLeader' = [isLeader EXCEPT ![i] = FALSE]
        /\ recs[i][n].at = "await" /\ recs[i][n] \in Handler
        /\ UNCHANGED <<zkVars, connVars, whole, dropped, thread, epochRead, stopEv, epoch, left>>
    <2>1. TypeOK /\ PodInv(i)
      BY DEF RecoveryInv
    <2>2. recs[i][n] \in Handler
      BY <2>1 DEF TypeOK
    <2> QED BY <2>1, <2>2 DEF RestartAwaits, At
  <1>1. ~Slow /\ conn[i] = "up" => thread[i] \in {"idle", "contend"}
    BY DEF RestartAwaits
  <1>2. /\ recs' \in [Inst -> Seq(Handler)]
        /\ \A j \in Inst : j # i => recs'[j] = recs[j]
        /\ recs'[i] # <<>>
        /\ \A h \in Handler : Has(i, h)' =>
             Has(i, h) \/ (h.at = "ensure" /\ h.gen = recs[i][n].gen
                             /\ h.boot = recs[i][n].boot)
    BY <1>0, GoToSeq
  <1>3. TypeOK'
    <2>1. queued' \in [Inst -> Nat]
      <3>1. queued \in [Inst -> Nat] /\ queued[i] \in Nat
        BY <1>0 DEF TypeOK
      <3>2. (IF queued[i] > 0 THEN queued[i] - 1 ELSE 0) \in Nat
        BY <3>1
      <3> QED BY <1>0, <3>1, <3>2
    <2>2. isLeader' \in [Inst -> BOOLEAN]
      BY <1>0 DEF TypeOK
    <2> QED BY <1>0, <1>2, <2>1, <2>2 DEF TypeOK, zkVars, connVars
  <1>4. Has(i, recs[i][n])
    BY DEF Has
  <1>5. conn[i] # "off" /\ ~isLeader'[i]
    BY <1>0 DEF PodInv, Bounds, TypeOK
  <1>6. PodInv(i)'
    <2>1. Bounds(i)'
      BY <1>0, <1>2, <1>4, <1>5 DEF PodInv, Bounds, zkVars, connVars
    <2>2. Contends(i)'
      BY <1>2 DEF Contends, SetUp, Dropped
    <2>3. Leads(i)'
      BY <1>0, <1>1, <1>5 DEF Leads, connVars
    <2>4. Belongs(i)'
      BY <1>0, <1>2, <1>4 DEF PodInv, Belongs, zkVars, connVars
    <2> QED BY <2>1, <2>2, <2>3, <2>4 DEF PodInv
  <1>7. ASSUME NEW j \in Inst, j # i PROVE PodInv(j)'
    <2>1. PodInv(j) /\ queued'[j] = queued[j] /\ isLeader'[j] = isLeader[j]
      BY <1>0, <1>7 DEF RecoveryInv, TypeOK
    <2> QED BY <1>0, <1>2, <1>7, <2>1, Elsewhere DEF zkVars, connVars
  <1> QED BY <1>3, <1>6, <1>7 DEF RecoveryInv

LEMMA StartElectionStep ==
  ASSUME RecoveryInv, NEW i \in Inst, NEW n \in DOMAIN recs[i], StartElectionRun(i, n)
  PROVE  RecoveryInv'
  <1>0. /\ TypeOK /\ PodInv(i) /\ HandlerEnds(i, n) /\ conn[i] = "up"
        /\ stopEv' = [stopEv EXCEPT ![i] = FALSE]
        /\ queued' = [queued EXCEPT ![i] = @ + 1]
        /\ whole' = [whole EXCEPT ![i] = recs[i][n].gen]
        /\ recs[i][n].at = "ensure" /\ recs[i][n] \in Handler
        /\ UNCHANGED <<zkVars, conn, gen, dropped, thread, epochRead, isLeader, epoch,
                       left>>
    <2>1. TypeOK /\ PodInv(i)
      BY DEF RecoveryInv
    <2>2. recs[i] \in Seq(Handler)
      BY <2>1 DEF TypeOK
    <2>3. recs[i][n] \in Handler
      BY <2>2
    <2> QED BY <2>1, <2>3 DEF StartElectionRun, At
  <1>1. /\ recs' \in [Inst -> Seq(Handler)]
        /\ \A j \in Inst : j # i => recs'[j] = recs[j]
        /\ \A h \in Handler : Has(i, h)' => Has(i, h)
        /\ lostFlag' \in [Inst -> BOOLEAN]
    BY <1>0, EndsSeq
  <1>2. Has(i, recs[i][n]) /\ recs[i][n].gen <= gen[i] /\ recs[i][n].gen \in 0..MaxSession
    <2>1. Has(i, recs[i][n])
      BY DEF Has
    <2>2. recs[i][n].gen \in 0..MaxSession
      BY <1>0, RecoveryAssumption DEF Handler, Session
    <2> QED BY <1>0, <2>1, <2>2 DEF PodInv, Bounds
  <1>3. TypeOK'
    <2>1. queued' \in [Inst -> Nat]
      BY <1>0 DEF TypeOK
    <2>2. stopEv' \in [Inst -> BOOLEAN]
      BY <1>0 DEF TypeOK
    <2>3. whole' \in [Inst -> 0..MaxSession]
      BY <1>0, <1>2 DEF TypeOK
    <2> QED BY <1>0, <1>1, <2>1, <2>2, <2>3 DEF TypeOK, zkVars
  <1>4. whole'[i] = recs[i][n].gen /\ ~stopEv'[i] /\ queued'[i] > 0
    BY <1>0 DEF TypeOK
  <1>5. PodInv(i)'
    <2>1. Bounds(i)'
      BY <1>0, <1>1, <1>2, <1>4 DEF PodInv, Bounds, zkVars
    <2>2. Contends(i)'
      BY <1>4 DEF Contends
    <2>3. Leads(i)'
      BY <1>0, <1>1, <1>2, <1>4 DEF PodInv, Leads, zkVars
    <2>4. Belongs(i)'
      BY <1>0, <1>1, <1>2, <1>4 DEF PodInv, Belongs, zkVars
    <2> QED BY <2>1, <2>2, <2>3, <2>4 DEF PodInv
  <1>6. ASSUME NEW j \in Inst, j # i PROVE PodInv(j)'
    <2>1. PodInv(j) /\ queued'[j] = queued[j] /\ stopEv'[j] = stopEv[j]
            /\ whole'[j] = whole[j]
      BY <1>0, <1>6 DEF RecoveryInv, TypeOK
    <2> QED BY <1>0, <1>1, <1>6, <2>1, Elsewhere DEF zkVars
  <1> QED BY <1>3, <1>5, <1>6 DEF RecoveryInv

LEMMA RecoveryFailsStep ==
  ASSUME RecoveryInv, NEW i \in Inst, NEW n \in DOMAIN recs[i], RecoveryFails(i, n)
  PROVE  RecoveryInv'
  <1>0. /\ TypeOK /\ PodInv(i) /\ HandlerEnds(i, n)
        /\ whole' = [whole EXCEPT ![i] = 0]
        /\ \/ left' = left
           \/ left.fail > 0 /\ left' = [left EXCEPT !.fail = @ - 1]
        /\ recs[i][n] \in Handler /\ UNCHANGED <<zkVars, conn, gen, dropped, electVars>>
    <2>1. TypeOK /\ PodInv(i)
      BY DEF RecoveryInv
    <2>2. recs[i][n] \in Handler
      BY <2>1 DEF TypeOK
    <2> QED BY <2>1, <2>2 DEF RecoveryFails
  <1>1. /\ recs' \in [Inst -> Seq(Handler)]
        /\ \A j \in Inst : j # i => recs'[j] = recs[j]
        /\ \A h \in Handler : Has(i, h)' => Has(i, h)
        /\ lostFlag' \in [Inst -> BOOLEAN]
    BY <1>0, EndsSeq
  <1>2. conn[i] # "off" /\ gen[i] > 0 /\ gen[i] \in Nat
    BY <1>0 DEF PodInv, Bounds, TypeOK
  <1>3. TypeOK'
    <2>1. left' \in [expire : 0..MaxExpire, down : 0..MaxDown, fail : 0..MaxFail]
      <3>1. left \in [expire : 0..MaxExpire, down : 0..MaxDown, fail : 0..MaxFail]
        BY <1>0 DEF TypeOK
      <3> QED BY <1>0, <3>1, RecoveryAssumption
    <2>2. whole' \in [Inst -> 0..MaxSession]
      BY <1>0, RecoveryAssumption DEF TypeOK
    <2> QED BY <1>0, <1>1, <2>1, <2>2 DEF TypeOK, zkVars, electVars
  <1>4. whole'[i] = 0
    BY <1>0 DEF TypeOK
  <1>5. PodInv(i)'
    <2>1. Bounds(i)'
      BY <1>0, <1>1, <1>2, <1>4 DEF PodInv, Bounds, zkVars, electVars
    <2>2. Contends(i)'
      BY <1>0, <1>2, <1>4 DEF Contends, SetUp, Dropped
    <2>3. Leads(i)'
      BY <1>0, <1>1, <1>2, <1>4 DEF PodInv, Leads, zkVars, electVars
    <2>4. Belongs(i)'
      BY <1>0, <1>1, <1>2, <1>4 DEF PodInv, Belongs, zkVars
    <2> QED BY <2>1, <2>2, <2>3, <2>4 DEF PodInv
  <1>6. ASSUME NEW j \in Inst, j # i PROVE PodInv(j)'
    <2>1. PodInv(j) /\ whole'[j] = whole[j]
      BY <1>0, <1>6 DEF RecoveryInv, TypeOK
    <2> QED BY <1>0, <1>1, <1>6, <2>1, Elsewhere DEF zkVars, electVars
  <1> QED BY <1>3, <1>5, <1>6 DEF RecoveryInv

-----------------------------------------------------------------------------
(* The election thread.                                                    *)

LEMMA ThreadStepKeeps ==
  ASSUME RecoveryInv, NEW i \in Inst, ThreadStep(i)
  PROVE  RecoveryInv'
  <1>0. /\ TypeOK /\ PodInv(i)
        /\ UNCHANGED <<member, stale, connVars, recs, whole, stopEv>>
    BY DEF RecoveryInv, ThreadStep, BeginRun, Win, GiveUp, ReadEpoch, WriteEpoch,
           EpochCallFails, StopWaiting, LeaveRun, zkVars, recVars
  <1>1. \/ /\ thread[i] = "idle" /\ queued[i] > 0
           /\ thread' = [thread EXCEPT ![i] = "contend"]
           /\ queued' = [queued EXCEPT ![i] = @ - 1]
           /\ UNCHANGED <<lock, epochNode, epochRead, isLeader, epoch>>
        \/ /\ thread[i] = "contend" /\ conn[i] = "up" /\ lock = NoLock
           /\ lock' = <<i, gen[i]>> /\ thread' = [thread EXCEPT ![i] = "read"]
           /\ UNCHANGED <<epochNode, epochRead, queued, isLeader, epoch>>
        \/ /\ thread[i] = "read" /\ thread' = [thread EXCEPT ![i] = "write"]
           /\ epochRead' = [epochRead EXCEPT ![i] = epochNode]
           /\ UNCHANGED <<lock, epochNode, queued, isLeader, epoch>>
        \/ /\ thread[i] = "write" /\ thread' = [thread EXCEPT ![i] = "wait"]
           /\ epochNode' = epochRead[i] + 1
           /\ epoch' = [epoch EXCEPT ![i] = epochRead[i] + 1]
           /\ isLeader' = [isLeader EXCEPT ![i] = TRUE]
           /\ UNCHANGED <<lock, epochRead, queued>>
        \/ /\ thread[i] # "idle"
           /\ conn[i] # "up" \/ stopEv[i] \/ dropped' = [dropped EXCEPT ![i] = gen[i]]
           /\ thread' = [thread EXCEPT ![i] = "idle"]
           /\ isLeader' = [isLeader EXCEPT ![i] = FALSE]
           /\ lock' = lock \/ (lock = <<i, gen[i]>> /\ lock' = NoLock)
           /\ epochNode' = epochNode \/ epochNode' = epochRead[i] + 1
           /\ UNCHANGED <<epochRead, queued, epoch>>
    BY DEF ThreadStep, BeginRun, Win, GiveUp, ReadEpoch, WriteEpoch,
           EpochCallFails, StopWaiting, LeaveRun, FreeLock, CallFails, zkVars
  <1>1a. \/ UNCHANGED <<dropped, left>>
         \/ /\ dropped' = [dropped EXCEPT ![i] = gen[i]] /\ left.fail > 0
            /\ left' = [left EXCEPT !.fail = @ - 1]
    BY DEF ThreadStep, BeginRun, Win, GiveUp, ReadEpoch, WriteEpoch,
           EpochCallFails, StopWaiting, CallFails, recVars
  <1>1b. /\ dropped' \in [Inst -> 0..MaxSession]
         /\ \A j \in Inst : j # i => dropped'[j] = dropped[j]
         /\ dropped'[i] \in {dropped[i], gen[i]}
         /\ dropped' = [dropped EXCEPT ![i] = gen[i]] => dropped'[i] = gen[i]
         /\ left' \in [expire : 0..MaxExpire, down : 0..MaxDown, fail : 0..MaxFail]
    <2>1. dropped \in [Inst -> 0..MaxSession] /\ gen[i] \in 0..MaxSession
      BY <1>0 DEF TypeOK
    <2>2. left \in [expire : 0..MaxExpire, down : 0..MaxDown, fail : 0..MaxFail]
      BY <1>0 DEF TypeOK
    <2>3. left' \in [expire : 0..MaxExpire, down : 0..MaxDown, fail : 0..MaxFail]
      BY <1>1a, <2>2, RecoveryAssumption
    <2> QED BY <1>1a, <2>1, <2>3
  <1>2. \A h : Has(i, h)' <=> Has(i, h)
    BY <1>0 DEF Has
  <1>3. conn[i] = "up" => gen[i] \in Session
    BY <1>0, RecoveryAssumption DEF TypeOK, Session, PodInv, Bounds
  <1>4. TypeOK'
    <2>1. thread' \in [Inst -> {"idle", "contend", "read", "write", "wait"}]
            /\ isLeader' \in [Inst -> BOOLEAN]
      BY <1>0, <1>1 DEF TypeOK
    <2>2. queued' \in [Inst -> Nat]
      <3>1. queued \in [Inst -> Nat] /\ queued[i] \in Nat
        BY <1>0 DEF TypeOK
      <3>2. queued' = queued \/ (queued[i] > 0 /\ queued' = [queued EXCEPT ![i] = queued[i] - 1])
        BY <1>1
      <3> QED BY <3>1, <3>2
    <2>3. epochNode' \in Nat /\ epochRead' \in [Inst -> Nat] /\ epoch' \in [Inst -> Nat]
      <3>1. epochNode \in Nat /\ epochRead \in [Inst -> Nat] /\ epoch \in [Inst -> Nat]
              /\ epochRead[i] \in Nat
        BY <1>0 DEF TypeOK
      <3>2. epochNode' = epochNode \/ epochNode' = epochRead[i] + 1
        BY <1>1
      <3>3. epochRead' = epochRead \/ epochRead' = [epochRead EXCEPT ![i] = epochNode]
        BY <1>1
      <3>4. epoch' = epoch \/ epoch' = [epoch EXCEPT ![i] = epochRead[i] + 1]
        BY <1>1
      <3> QED BY <3>1, <3>2, <3>3, <3>4
    <2>4. lock' = NoLock \/ lock' \in Inst \X Session
      BY <1>0, <1>1, <1>3 DEF TypeOK
    <2> QED BY <1>0, <1>1b, <2>1, <2>2, <2>3, <2>4 DEF TypeOK, connVars
  <1>5. /\ thread'[i] \in {"idle", "contend", "read", "write", "wait"}
        /\ thread'[i] = "idle" => conn[i] # "up" \/ stopEv[i] \/ dropped'[i] = gen[i]
        /\ conn[i] = "off" => thread[i] = "idle" /\ recs[i] = <<>>
    BY <1>0, <1>1, <1>1b, <1>4 DEF TypeOK, PodInv, Bounds
  <1>6. conn[i] # "off"
    BY <1>0, <1>1 DEF TypeOK, PodInv, Bounds
  <1>7. PodInv(i)'
    <2>1. Bounds(i)'
      BY <1>0, <1>2, <1>6 DEF PodInv, Bounds, connVars
    <2>2. Contends(i)'
      BY <1>0, <1>5 DEF PodInv, Contends, SetUp, Dropped, connVars
    <2>3. isLeader'[i] => thread'[i] = "wait"
      BY <1>0, <1>1 DEF TypeOK, PodInv, Leads
    <2>4. thread[i] \in {"idle", "contend"} \/ lock = <<i, gen[i]>> =>
            thread'[i] \in {"idle", "contend"} \/ lock' = <<i, gen[i]>>
      BY <1>0, <1>1 DEF TypeOK
    <2>5. Leads(i)'
      BY <1>0, <1>2, <2>3, <2>4 DEF PodInv, Leads, connVars
    <2>6. Belongs(i)'
      BY <1>0, <1>2 DEF PodInv, Belongs, connVars
    <2> QED BY <2>1, <2>2, <2>5, <2>6 DEF PodInv
  <1>8. ASSUME NEW j \in Inst, j # i PROVE PodInv(j)'
    <2>1. PodInv(j) /\ thread'[j] = thread[j] /\ queued'[j] = queued[j]
            /\ isLeader'[j] = isLeader[j]
      BY <1>0, <1>1, <1>8 DEF RecoveryInv, TypeOK
    <2>2. lock = <<j, gen[j]>> => lock' = lock
      <3>1. <<j, gen[j]>> # NoLock
        BY <1>0, RecoveryAssumption DEF TypeOK
      <3>2. <<j, gen[j]>> # <<i, gen[i]>>
        BY <1>8
      <3> QED BY <1>1, <3>1, <3>2
    <2> QED BY <1>0, <1>1b, <1>8, <2>1, <2>2, Elsewhere DEF connVars
  <1> QED BY <1>4, <1>7, <1>8 DEF RecoveryInv

-----------------------------------------------------------------------------
LEMMA RecoveryStep ==
  ASSUME RecoveryInv, [Next]_vars
  PROVE  RecoveryInv'
  <1>1. ASSUME NEW i \in Inst, NEW n \in DOMAIN recs[i],
               HandlerStep(i, n) \/ RecoveryFails(i, n)
        PROVE  RecoveryInv'
    BY <1>1, RegisterMemberStep, RegisterWatchesStep, RestartSetsStopStep,
       RestartAwaitsStep, StartElectionStep, RecoveryFailsStep DEF HandlerStep
  <1>2. ASSUME NEW i \in Inst,
               \/ BootPod(i) \/ StopPod(i) \/ CrashPod(i) \/ Expire(i)
               \/ OnLost(i) \/ OnConnected(i) \/ \E s \in Session : Reap(i, s)
        PROVE  RecoveryInv'
    BY <1>2, BootStep, StopOrCrashStep, ExpireStep, OnLostStep, OnConnectedStep,
       ReapStep
  <1>3. CASE UNCHANGED vars
    <2>1. ASSUME NEW i \in Inst PROVE PodInv(i)'
      <3>1. PodInv(i)
        BY DEF RecoveryInv
      <3> QED BY <1>3, <3>1, Elsewhere
              DEF vars, zkVars, connVars, recVars, electVars
    <2>2. TypeOK'
      BY <1>3 DEF RecoveryInv, TypeOK, vars, zkVars, connVars, recVars, electVars
    <2> QED BY <2>1, <2>2 DEF RecoveryInv
  <1> QED BY <1>1, <1>2, <1>3, ThreadStepKeeps DEF Next

(* The inductive invariant: TypeOK and, for each pod, numbered sessions,   *)
(* an unstopped run, a lock held from the wait on and an owned member node.*)
THEOREM RecoveryInvariance == Spec => []RecoveryInv
  <1>1. RecoveryInv /\ [Next]_vars => RecoveryInv'
    BY RecoveryStep
  <1> QED BY <1>1, RecoveryInit, PTL DEF Spec

(* Ranges of the variables of sessions, handlers and the election thread.  *)
THEOREM RecoveryTypeCorrect == Spec => []TypeOK
  <1>1. RecoveryInv => TypeOK
    BY DEF RecoveryInv
  <1> QED BY <1>1, RecoveryInvariance, PTL

(* A recovery that came to its end contends again, whatever other losses,  *)
(* failures and recoveries it met (leader_election.py:81), until a call of *)
(* its run fails in a session that survives (leader_election.py:168).      *)
THEOREM SetUpContends == Spec => []RecoveredContends
  <1>1. RecoveryInv => RecoveredContends
    BY DEF RecoveryInv, PodInv, Contends, RecoveredContends
  <1> QED BY <1>1, RecoveryInvariance, PTL

(* Where the epoch calls answer within the five seconds of the wait,       *)
(* leadership of a lost session does not survive the recovery              *)
(* (leader_election.py:103).                                               *)
THEOREM SetUpLeaderHoldsLock ==
  ASSUME ~Slow PROVE Spec => []RecoveredLeaderHoldsLock
  <1>1. RecoveryInv => RecoveredLeaderHoldsLock
    BY DEF RecoveryInv, PodInv, Leads, SetUp, RecoveredLeaderHoldsLock
  <1> QED BY <1>1, RecoveryInvariance, PTL

(* Where no container restarts before its old session has expired, a       *)
(* recovery that came to its end has put the instance among the members    *)
(* (partition_manager.py:163).                                             *)
THEOREM SetUpIsMember ==
  ASSUME ~Hasty PROVE Spec => []RecoveredIsMember
  <1>1. RecoveryInv => RecoveredIsMember
    BY DEF RecoveryInv, PodInv, Belongs, SetUp, RecoveredIsMember
  <1> QED BY <1>1, RecoveryInvariance, PTL
-----------------------------------------------------------------------------
(* The bump of the epoch, and the election as PartitionManager sees it.    *)

(* The lock is never of a session to come; between the lock and the write  *)
(* of the epoch a connected pod has the lock, and what it read is current. *)
BumpOK(i) ==
  /\ \A s \in Session : lock = <<i, s>> => s <= gen[i]
  /\ conn[i] = "up" /\ thread[i] \in {"read", "write"} => lock = <<i, gen[i]>>
  /\ conn[i] = "up" /\ thread[i] = "write" => epochRead[i] = epochNode

BumpInv == \A i \in Inst : BumpOK(i)

LEMMA LockNames ==
  /\ \A i \in Inst : \A s \in 0..MaxSession : NoLock # <<i, s>>
  /\ \A i \in Inst : \A s \in Session : NoLock # <<i, s>>
  /\ \A i, j, s, r : <<i, s>> = <<j, r>> => i = j /\ s = r
  <1>1. \A i \in Inst : \A s \in 0..MaxSession : NoLock # <<i, s>>
    BY RecoveryAssumption
  <1>2. \A s \in Session : s \in 0..MaxSession
    BY RecoveryAssumption DEF Session
  <1>3. \A i, j, s, r : <<i, s>> = <<j, r>> => i = j /\ s = r
    OBVIOUS
  <1> QED BY <1>1, <1>2, <1>3

LEMMA BumpInit == Init => BumpInv
  <1> SUFFICES ASSUME Init, NEW i \in Inst PROVE BumpOK(i)
    BY DEF BumpInv
  <1>1. lock = NoLock /\ conn[i] = "off"
    BY DEF Init
  <1> QED BY <1>1, LockNames DEF BumpOK

(* A step that does not concern pod j.                                     *)
LEMMA BumpElsewhere ==
  ASSUME NEW j \in Inst, BumpOK(j), conn'[j] = conn[j], gen'[j] = gen[j],
         thread'[j] = thread[j], epochRead'[j] = epochRead[j],
         \A s \in Session : lock' = <<j, s>> => lock = <<j, s>>,
         lock = <<j, gen[j]>> => lock' = lock,
         epochNode' = epochNode \/ ~(conn[j] = "up" /\ thread[j] = "write")
  PROVE  BumpOK(j)'
BY DEF BumpOK

(* What a step of sessions and processes leaves alone: the epoch, the      *)
(* other pods and the lock, unless a session of the pod had it.            *)
LEMMA LifeEffect ==
  ASSUME RecoveryInv, NEW i \in Inst,
         \/ BootPod(i) \/ StopPod(i) \/ CrashPod(i) \/ Expire(i)
         \/ OnLost(i) \/ OnConnected(i) \/ \E s \in Session : Reap(i, s)
  PROVE  /\ epochNode' = epochNode /\ epochRead' = epochRead
         /\ \/ lock' = lock
            \/ lock' = NoLock /\ \E s \in Session : lock = <<i, s>>
         /\ \A j \in Inst \ {i} : /\ conn'[j] = conn[j] /\ gen'[j] = gen[j]
                                  /\ thread'[j] = thread[j]
                                  /\ gen[j] \in 0..MaxSession
  <1>0. TypeOK /\ Bounds(i)
    BY DEF RecoveryInv, PodInv
  <1> USE DEF TypeOK, zkVars, connVars, electVars
  <1>1. CASE BootPod(i)
    BY <1>0, <1>1 DEF BootPod
  <1>2. CASE StopPod(i)
    <2>1. gen[i] \in Session
      BY <1>0, <1>2, RecoveryAssumption DEF StopPod, Bounds, Session
    <2> QED BY <1>0, <1>2, <2>1 DEF StopPod, EndSession, ProcessGone
  <1>3. CASE CrashPod(i)
    BY <1>0, <1>3 DEF CrashPod, ProcessGone
  <1>4. CASE Expire(i)
    <2>1. gen[i] \in Session
      BY <1>0, <1>4, RecoveryAssumption DEF Expire, Bounds, Session
    <2> QED BY <1>0, <1>4, <2>1 DEF Expire, EndSession
  <1>5. CASE OnLost(i) \/ OnConnected(i)
    BY <1>0, <1>5 DEF OnLost, OnConnected
  <1>6. CASE \E s \in Session : Reap(i, s)
    BY <1>0, <1>6 DEF Reap, EndSession
  <1> QED BY <1>1, <1>2, <1>3, <1>4, <1>5, <1>6

(* Steps of sessions and processes.                                        *)
LEMMA BumpLife ==
  ASSUME RecoveryInv, BumpInv, BumpEndsWithSession, NEW i \in Inst,
         \/ BootPod(i) \/ StopPod(i) \/ CrashPod(i) \/ Expire(i)
         \/ OnLost(i) \/ OnConnected(i) \/ \E s \in Session : Reap(i, s)
  PROVE  BumpInv'
  <1>0. TypeOK /\ Bounds(i) /\ BumpOK(i)
    BY DEF RecoveryInv, PodInv, BumpInv
  <1>1. /\ epochNode' = epochNode /\ epochRead' = epochRead
        /\ \/ lock' = lock
           \/ lock' = NoLock /\ \E s \in Session : lock = <<i, s>>
        /\ \A j \in Inst \ {i} : /\ conn'[j] = conn[j] /\ gen'[j] = gen[j]
                                 /\ thread'[j] = thread[j]
                                 /\ gen[j] \in 0..MaxSession
    BY LifeEffect
  <1>2. ASSUME NEW j \in Inst \ {i} PROVE BumpOK(j)'
    <2>1. BumpOK(j) /\ gen[j] \in 0..MaxSession
      BY <1>1 DEF BumpInv
    <2>2. /\ \A s \in Session : lock' = <<j, s>> => lock = <<j, s>>
          /\ lock = <<j, gen[j]>> => lock' = lock
      BY <1>1, LockNames
    <2> QED BY <1>1, <2>1, <2>2, BumpElsewhere
  <1>3. /\ gen'[i] \in {gen[i], gen[i] + 1} /\ gen[i] \in Nat
        /\ \/ conn'[i] # "up"
           \/ thread'[i] \in {"idle", "contend", "wait"}
           \/ /\ conn[i] = "up" /\ gen'[i] = gen[i] /\ thread'[i] = thread[i]
              /\ lock = <<i, gen[i]>> => lock' = lock
    <2> USE DEF TypeOK, zkVars, connVars, electVars
    <2>0. gen[i] \in Nat /\ thread[i] \in {"idle", "contend", "read", "write", "wait"}
      BY <1>0
    <2>1. CASE BootPod(i)
      BY <1>0, <2>0, <2>1 DEF BootPod, Bounds
    <2>2. CASE StopPod(i) \/ CrashPod(i)
      BY <1>0, <2>0, <2>2 DEF StopPod, CrashPod, ProcessGone
    <2>3. CASE Expire(i) \/ OnLost(i)
      BY <1>0, <2>0, <2>3 DEF Expire, OnLost
    <2>4. CASE OnConnected(i)
      <3>1. thread[i] \notin {"read", "write"}
        BY <2>4 DEF BumpEndsWithSession
      <3> QED BY <1>0, <2>0, <2>4, <3>1 DEF OnConnected
    <2>5. ASSUME NEW s \in Session, Reap(i, s)
          PROVE  /\ gen' = gen /\ conn' = conn /\ thread' = thread
                 /\ conn[i] = "up" => lock' = lock \/ lock # <<i, gen[i]>>
      BY <1>0, <2>5, LockNames DEF Reap, EndSession, Bounds
    <2> QED BY <2>0, <2>1, <2>2, <2>3, <2>4, <2>5
  <1>4. BumpOK(i)'
    <2>1. \A s \in Session : lock' = <<i, s>> => lock = <<i, s>> /\ s \in Nat
      BY <1>1, LockNames DEF Session
    <2>2. \A s \in Session : lock' = <<i, s>> => s <= gen'[i]
      BY <1>0, <1>3, <2>1 DEF BumpOK
    <2> QED BY <1>0, <1>1, <1>3, <2>2 DEF BumpOK
  <1> QED BY <1>2, <1>4 DEF BumpInv

(* Handlers leave the lock, the epoch and the thread alone.                *)
LEMMA HandlersElsewhere ==
  ASSUME NEW i \in Inst, NEW n \in DOMAIN recs[i],
         HandlerStep(i, n) \/ RecoveryFails(i, n)
  PROVE  UNCHANGED <<lock, epochNode, conn, gen, thread, epochRead, epoch>>
BY DEF HandlerStep, RegisterMember, RegisterWatches, RestartSetsStop, RestartAwaits,
       StartElectionRun, RecoveryFails, zkVars, connVars, electVars

LEMMA BumpThread ==
  ASSUME RecoveryInv, BumpInv, NEW i \in Inst, ThreadStep(i)
  PROVE  BumpInv'
  <1>0. /\ TypeOK /\ Bounds(i) /\ BumpOK(i) /\ gen[i] \in 0..MaxSession
        /\ UNCHANGED <<conn, gen>>
    BY DEF RecoveryInv, PodInv, BumpInv, TypeOK, ThreadStep, BeginRun, Win, GiveUp,
           ReadEpoch, WriteEpoch, EpochCallFails, StopWaiting, LeaveRun, connVars
  <1>1. \A j \in Inst \ {i} : /\ thread'[j] = thread[j] /\ epochRead'[j] = epochRead[j]
                             /\ BumpOK(j) /\ gen[j] \in 0..MaxSession
    BY <1>0 DEF BumpInv, TypeOK, ThreadStep, BeginRun, Win, GiveUp, ReadEpoch,
                WriteEpoch, EpochCallFails, StopWaiting, LeaveRun
  <1>2. CASE Win(i)
    <2>1. lock = NoLock /\ lock' = <<i, gen[i]>> /\ thread'[i] = "read"
            /\ epochNode' = epochNode
      BY <1>0, <1>2 DEF Win, TypeOK
    <2>2. BumpOK(i)'
      <3>1. \A s \in Session : lock' = <<i, s>> => s = gen[i]
        BY <2>1, LockNames
      <3> QED BY <1>0, <2>1, <3>1 DEF BumpOK
    <2>3. ASSUME NEW j \in Inst \ {i} PROVE BumpOK(j)'
      BY <1>0, <1>1, <2>1, LockNames, BumpElsewhere
    <2> QED BY <2>2, <2>3 DEF BumpInv
  <1>3. CASE GiveUp(i) \/ EpochCallFails(i) \/ StopWaiting(i)
    <2>1. /\ thread'[i] = "idle"
          /\ \/ epochNode' = epochNode
             \/ conn[i] = "up" /\ thread[i] = "write"
          /\ lock' = lock \/ (lock = <<i, gen[i]>> /\ lock' = NoLock)
      BY <1>0, <1>3 DEF GiveUp, EpochCallFails, StopWaiting, LeaveRun, FreeLock,
                        CallFails, TypeOK
    <2>2. BumpOK(i)'
      BY <1>0, <2>1, LockNames DEF BumpOK
    <2>3. ASSUME NEW j \in Inst \ {i} PROVE BumpOK(j)'
      <3>1. epochNode' = epochNode \/ ~(conn[j] = "up" /\ thread[j] = "write")
        BY <1>0, <1>1, <2>1, LockNames DEF BumpOK
      <3> QED BY <1>0, <1>1, <2>1, <3>1, LockNames, BumpElsewhere
    <2> QED BY <2>2, <2>3 DEF BumpInv
  <1>4. CASE BeginRun(i) \/ ReadEpoch(i)
    <2>1. /\ lock' = lock /\ epochNode' = epochNode
          /\ \/ thread'[i] = "contend"
             \/ thread[i] = "read" /\ thread'[i] = "write" /\ epochRead'[i] = epochNode
      BY <1>0, <1>4 DEF BeginRun, ReadEpoch, TypeOK, zkVars
    <2>2. BumpOK(i)'
      BY <1>0, <2>1 DEF BumpOK
    <2>3. ASSUME NEW j \in Inst \ {i} PROVE BumpOK(j)'
      BY <1>0, <1>1, <2>1, BumpElsewhere
    <2> QED BY <2>2, <2>3 DEF BumpInv
  <1>5. CASE WriteEpoch(i)
    <2>1. /\ lock' = lock /\ thread'[i] = "wait" /\ lock = <<i, gen[i]>>
      BY <1>0, <1>5 DEF WriteEpoch, TypeOK, BumpOK
    <2>2. BumpOK(i)'
      BY <1>0, <2>1 DEF BumpOK
    <2>3. ASSUME NEW j \in Inst \ {i} PROVE BumpOK(j)'
      <3>1. ~(conn[j] = "up" /\ thread[j] = "write")
        BY <1>1, <2>1, LockNames DEF BumpOK
      <3> QED BY <1>0, <1>1, <2>1, <3>1, BumpElsewhere
    <2> QED BY <2>2, <2>3 DEF BumpInv
  <1> QED BY <1>2, <1>3, <1>4, <1>5 DEF ThreadStep

LEMMA BumpStep ==
  ASSUME RecoveryInv, BumpInv, [Next]_vars, [BumpEndsWithSession]_vars
  PROVE  BumpInv'
  <1>1. CASE UNCHANGED vars
    BY <1>1 DEF vars, zkVars, connVars, electVars, BumpInv, BumpOK
  <1>2. ASSUME NEW i \in Inst, NEW n \in DOMAIN recs[i],
               HandlerStep(i, n) \/ RecoveryFails(i, n)
        PROVE  BumpInv'
    BY <1>2, HandlersElsewhere DEF BumpInv, BumpOK
  <1> QED BY <1>1, <1>2, BumpLife, BumpThread DEF Next

(* Where no election thread survives its session between the lock and the  *)
(* write of the epoch, the epoch never falls, whatever else fails and      *)
(* however slow the calls are (ARCHITECTURE.md:257).                       *)
THEOREM EpochRises ==
  Spec /\ [][BumpEndsWithSession]_vars => EpochNeverFalls
  <1>1. RecoveryInv /\ BumpInv /\ [Next]_vars => [epochNode' >= epochNode]_epochNode
    <2> SUFFICES ASSUME RecoveryInv, BumpInv, Next, epochNode' # epochNode
                 PROVE  epochNode' >= epochNode
      BY DEF vars, zkVars
    <2>1. PICK i \in Inst : /\ conn[i] = "up" /\ thread[i] = "write"
                            /\ epochNode' = epochRead[i] + 1
      BY HandlersElsewhere
         DEF Next, BootPod, StopPod, CrashPod, Expire, OnLost, OnConnected, Reap,
             ThreadStep, BeginRun, Win, GiveUp, ReadEpoch, WriteEpoch,
             EpochCallFails, CallFails, StopWaiting, zkVars
    <2> QED BY <2>1 DEF BumpInv, BumpOK, RecoveryInv, TypeOK
  <1>2. RecoveryInv /\ BumpInv /\ [Next]_vars /\ [BumpEndsWithSession]_vars => BumpInv'
    BY BumpStep
  <1> QED BY <1>1, <1>2, BumpInit, RecoveryInvariance, PTL DEF Spec, EpochNeverFalls
-----------------------------------------------------------------------------
(* LeaderElection implements Election.                                     *)

LEMMA ElectInit == Init => Elect!Init
BY DEF Init, Elect!Init, Holder

LEMMA HolderLoses ==
  ASSUME NEW i \in Inst, i \notin Holder',
         \A j \in Inst \ {i} : j \in Holder' <=> j \in Holder
  PROVE  Holder' = Holder \ {i}
BY DEF Holder

LEMMA HolderElsewhere ==
  ASSUME NEW j \in Inst, conn'[j] = conn[j], gen'[j] = gen[j],
         thread'[j] = thread[j],
         lock' = <<j, gen[j]>> <=> lock = <<j, gen[j]>>
  PROVE  j \in Holder' <=> j \in Holder
BY DEF Holder

(* Steps of sessions and processes: a loss, an end or nothing.             *)
LEMMA ElectLife ==
  ASSUME RecoveryInv, BumpInv, NEW i \in Inst,
         \/ BootPod(i) \/ StopPod(i) \/ CrashPod(i) \/ Expire(i)
         \/ OnLost(i) \/ OnConnected(i) \/ \E s \in Session : Reap(i, s)
  PROVE  Elect!Fall(i) \/ Elect!Forget(i) \/ UNCHANGED Elect!vars
  <1>0. /\ TypeOK /\ Bounds(i) /\ BumpOK(i)
        /\ gen[i] \in 0..MaxSession /\ gen[i] \in Nat
    <2>1. TypeOK /\ Bounds(i) /\ BumpOK(i)
      BY DEF RecoveryInv, PodInv, BumpInv
    <2>2. gen[i] \in 0..MaxSession
      BY <2>1 DEF TypeOK
    <2> QED BY <2>1, <2>2
  <1>1. /\ epochNode' = epochNode
        /\ \/ lock' = lock
           \/ lock' = NoLock /\ \E s : lock = <<i, s>>
        /\ \A j \in Inst \ {i} : /\ conn'[j] = conn[j] /\ gen'[j] = gen[j]
                                 /\ thread'[j] = thread[j] /\ gen[j] \in 0..MaxSession
    BY LifeEffect
  <1>2. \A j \in Inst \ {i} : j \in Holder' <=> j \in Holder
    BY <1>1, LockNames, HolderElsewhere
  <1>3. i \in Holder' => i \in Holder
    <2> USE DEF TypeOK, zkVars, connVars, electVars
    <2>1. CASE BootPod(i)
      BY <1>0, <2>1 DEF BootPod, Bounds, Holder
    <2>2. CASE StopPod(i) \/ CrashPod(i)
      BY <1>0, <2>2 DEF StopPod, CrashPod, ProcessGone, Holder
    <2>3. CASE Expire(i) \/ OnLost(i)
      BY <1>0, <2>3 DEF Expire, OnLost, Holder
    <2>4. CASE OnConnected(i)
      <3>0. /\ gen \in [Inst -> 0..MaxSession] /\ gen[i] < MaxSession
            /\ gen' = [gen EXCEPT ![i] = @ + 1] /\ lock' = lock
        BY <1>0, <2>4 DEF OnConnected, Bounds
      <3>1. gen[i] + 1 \in Session /\ gen'[i] = gen[i] + 1 /\ lock' = lock
        BY <1>0, <3>0, RecoveryAssumption DEF Session
      <3>2. lock # <<i, gen[i] + 1>>
        BY <1>0, <3>1 DEF BumpOK
      <3> QED BY <3>1, <3>2 DEF Holder
    <2>5. CASE \E s \in Session : Reap(i, s)
      BY <1>0, <1>1, <2>5, LockNames DEF Reap, Holder
    <2> QED BY <2>1, <2>2, <2>3, <2>4, <2>5
  <1>4. CASE StopPod(i) \/ CrashPod(i)
    <2>1. /\ isLeader' = [isLeader EXCEPT ![i] = FALSE]
          /\ epoch' = [epoch EXCEPT ![i] = 0] /\ i \notin Holder'
      BY <1>0, <1>4 DEF StopPod, CrashPod, ProcessGone, Holder, TypeOK
    <2> QED BY <1>1, <1>2, <2>1, HolderLoses DEF Elect!Forget
  <1>5. CASE ~(StopPod(i) \/ CrashPod(i))
    <2>1. isLeader' = isLeader /\ epoch' = epoch
      BY <1>5 DEF BootPod, Expire, OnLost, OnConnected, Reap, electVars
    <2>2. CASE i \in Holder'
      <3>1. Holder' = Holder
        BY <1>2, <1>3, <2>2 DEF Holder
      <3> QED BY <1>1, <2>1, <3>1 DEF Elect!vars
    <2>3. CASE i \notin Holder'
      BY <1>1, <1>2, <2>1, <2>3, HolderLoses DEF Elect!Fall
    <2> QED BY <2>2, <2>3
  <1> QED BY <1>4, <1>5

LEMMA ElectHandler ==
  ASSUME ~Slow, RecoveryInv, NEW i \in Inst, NEW n \in DOMAIN recs[i],
         HandlerStep(i, n) \/ RecoveryFails(i, n)
  PROVE  Elect!Resign(i) \/ UNCHANGED Elect!vars
  <1>1. Holder' = Holder
    BY HandlersElsewhere DEF Holder
  <1>2. CASE RestartAwaits(i, n)
    <2>1. isLeader' = [isLeader EXCEPT ![i] = FALSE]
            /\ UNCHANGED <<epochNode, epoch>> /\ i \notin Holder
      BY <1>2 DEF RestartAwaits, zkVars, Holder
    <2> QED BY <1>1, <2>1 DEF Elect!Resign
  <1>3. CASE ~RestartAwaits(i, n)
    <2>1. UNCHANGED <<isLeader, epochNode, epoch>>
      BY <1>3 DEF HandlerStep, RegisterMember, RegisterWatches, RestartSetsStop,
                  StartElectionRun, RecoveryFails, zkVars, electVars
    <2> QED BY <1>1, <2>1 DEF Elect!vars
  <1> QED BY <1>2, <1>3

LEMMA ElectThread ==
  ASSUME RecoveryInv, BumpInv, NEW i \in Inst, ThreadStep(i)
  PROVE  \/ Elect!Win(i) \/ Elect!Waste(i) \/ Elect!Resign(i)
         \/ UNCHANGED Elect!vars
  <1>0. /\ TypeOK /\ BumpOK(i) /\ UNCHANGED <<conn, gen>> /\ gen[i] \in 0..MaxSession
    BY DEF RecoveryInv, BumpInv, TypeOK, ThreadStep, BeginRun, Win, GiveUp,
           ReadEpoch, WriteEpoch, EpochCallFails, StopWaiting, LeaveRun, connVars
  <1>1. \A j \in Inst \ {i} : thread'[j] = thread[j] /\ gen[j] \in 0..MaxSession
    BY <1>0 DEF TypeOK, ThreadStep, BeginRun, Win, GiveUp, ReadEpoch,
                WriteEpoch, EpochCallFails, StopWaiting, LeaveRun
  <1>2. CASE BeginRun(i) \/ Win(i) \/ ReadEpoch(i)
    <2>1. /\ UNCHANGED <<epochNode, isLeader, epoch>>
          /\ thread[i] # "wait" /\ thread'[i] # "wait"
          /\ lock' = lock \/ (lock = NoLock /\ lock' = <<i, gen[i]>>)
      BY <1>0, <1>2 DEF BeginRun, Win, ReadEpoch, TypeOK, zkVars
    <2>2. \A j \in Inst \ {i} : j \in Holder' <=> j \in Holder
      BY <1>0, <1>1, <2>1, LockNames, HolderElsewhere
    <2>3. Holder' = Holder
      BY <2>1, <2>2 DEF Holder
    <2> QED BY <2>1, <2>3 DEF Elect!vars
  <1>3. CASE GiveUp(i) \/ EpochCallFails(i) \/ StopWaiting(i)
    <2>1. /\ epoch' = epoch /\ thread'[i] = "idle"
          /\ isLeader' = [isLeader EXCEPT ![i] = FALSE]
          /\ lock' = lock \/ (lock = <<i, gen[i]>> /\ lock' = NoLock)
          /\ \/ epochNode' = epochNode
             \/ /\ conn[i] = "up" /\ thread[i] = "write"
                /\ epochNode' = epochRead[i] + 1
      BY <1>0, <1>3 DEF GiveUp, EpochCallFails, StopWaiting, LeaveRun, FreeLock,
                        CallFails, TypeOK
    <2>2. \A j \in Inst \ {i} : j \in Holder' <=> j \in Holder
      BY <1>0, <1>1, <2>1, LockNames, HolderElsewhere
    <2>3. i \notin Holder'
      BY <2>1 DEF Holder
    <2>4. CASE epochNode' = epochNode
      BY <2>1, <2>2, <2>3, <2>4, HolderLoses DEF Elect!Resign
    <2>5. CASE /\ conn[i] = "up" /\ thread[i] = "write"
               /\ epochNode' = epochRead[i] + 1
      <3>1. lock = <<i, gen[i]>> /\ epochNode' = epochNode + 1
        BY <1>0, <2>5 DEF BumpOK
      <3>2. Holder = {}
        <4>1. \A j \in Inst \ {i} : lock # <<j, gen[j]>>
          BY <3>1, LockNames
        <4> QED BY <2>5, <4>1 DEF Holder
      <3>3. Holder' = {}
        BY <2>2, <2>3, <3>2 DEF Holder
      <3> QED BY <2>1, <3>1, <3>2, <3>3 DEF Elect!Waste
    <2> QED BY <2>1, <2>4, <2>5
  <1>4. CASE WriteEpoch(i)
    <2>1. /\ conn[i] = "up" /\ thread[i] = "write" /\ epochRead[i] = epochNode
          /\ lock = <<i, gen[i]>> /\ lock' = lock /\ thread'[i] = "wait"
          /\ epochNode' = epochNode + 1
          /\ epoch' = [epoch EXCEPT ![i] = epochNode + 1]
          /\ isLeader' = [isLeader EXCEPT ![i] = TRUE]
      BY <1>0, <1>4 DEF WriteEpoch, BumpOK, TypeOK
    <2>2. \A j \in Inst \ {i} : lock # <<j, gen[j]>>
      BY <2>1, LockNames
    <2>3. Holder = {}
      BY <2>1, <2>2 DEF Holder
    <2>4. Holder' = {i}
      BY <1>0, <2>1, <2>2 DEF Holder
    <2> QED BY <2>1, <2>3, <2>4 DEF Elect!Win
  <1> QED BY <1>2, <1>3, <1>4 DEF ThreadStep

LEMMA ElectStep ==
  ASSUME ~Slow, RecoveryInv, BumpInv, [Next]_vars
  PROVE  [Elect!Next]_(Elect!vars)
  <1>1. CASE UNCHANGED vars
    BY <1>1 DEF vars, zkVars, connVars, electVars, Holder, Elect!vars
  <1> QED BY <1>1, ElectLife, ElectHandler, ElectThread DEF Next, Elect!Next

(* Where the epoch calls answer in time and no election thread survives    *)
(* its session between the lock and the write of the epoch, LeaderElection *)
(* implements Election: losses, crashes, failing calls, recoveries that    *)
(* overlap and restarts on top of a live session included.                 *)
THEOREM ElectionImplemented ==
  ASSUME ~Slow PROVE Spec /\ [][BumpEndsWithSession]_vars => Elect!Spec
  <1>1. RecoveryInv /\ BumpInv /\ [Next]_vars => [Elect!Next]_(Elect!vars)
    BY ElectStep
  <1>2. RecoveryInv /\ BumpInv /\ [Next]_vars /\ [BumpEndsWithSession]_vars => BumpInv'
    BY BumpStep
  <1> QED BY <1>1, <1>2, BumpInit, ElectInit, RecoveryInvariance, PTL
          DEF Spec, Elect!Spec

(* No epoch is above the newest one.                                       *)
EpochsKnown == \A i \in Inst : epoch[i] <= epochNode

LEMMA FencedStep ==
  ASSUME TypeOK, EpochsKnown, Elect!Fenced, [Elect!Next]_(Elect!vars)
  PROVE  EpochsKnown' /\ Elect!Fenced'
  <1>0. /\ epochNode \in Nat /\ epoch \in [Inst -> Nat]
        /\ isLeader \in [Inst -> BOOLEAN] /\ \A j \in Inst : epoch[j] \in Nat
        /\ Holder \subseteq Inst
    BY DEF TypeOK, Holder
  <1>1. CASE UNCHANGED Elect!vars
    BY <1>1 DEF Elect!vars, EpochsKnown, Elect!Fenced
  <1>2. ASSUME NEW i \in Inst, Elect!Win(i) PROVE EpochsKnown' /\ Elect!Fenced'
    <2>1. /\ Holder' = {i} /\ epochNode' = epochNode + 1 /\ epoch'[i] = epochNode + 1
          /\ isLeader'[i] /\ \A j \in Inst \ {i} : epoch'[j] = epoch[j]
      BY <1>0, <1>2 DEF Elect!Win
    <2> QED BY <1>0, <2>1 DEF EpochsKnown, Elect!Fenced
  <1>2a. ASSUME NEW i \in Inst, Elect!Waste(i) PROVE EpochsKnown' /\ Elect!Fenced'
    BY <1>0, <1>2a DEF Elect!Waste, EpochsKnown, Elect!Fenced
  <1>3. ASSUME NEW i \in Inst, Elect!Fall(i) \/ Elect!Resign(i) \/ Elect!Forget(i)
        PROVE  EpochsKnown' /\ Elect!Fenced'
    <2>1. /\ Holder' = Holder \ {i} /\ epochNode' = epochNode
          /\ epoch'[i] \in {epoch[i], 0}
          /\ \A j \in Inst \ {i} : epoch'[j] = epoch[j] /\ isLeader'[j] = isLeader[j]
      BY <1>0, <1>3 DEF Elect!Fall, Elect!Resign, Elect!Forget
    <2>2. EpochsKnown'
      BY <1>0, <2>1 DEF EpochsKnown
    <2>3. ASSUME NEW j \in Holder'
          PROVE  /\ isLeader'[j] /\ epoch'[j] = epochNode'
                 /\ \A k \in Inst \ {j} : k \notin Holder' /\ epoch'[k] < epochNode'
      <3>1. /\ j \in Holder /\ j # i /\ isLeader[j] /\ epoch[j] = epochNode
            /\ \A k \in Inst \ {j} : k \notin Holder /\ epoch[k] < epochNode
        BY <2>1 DEF Elect!Fenced
      <3>2. 0 < epochNode
        BY <1>0, <1>3, <3>1
      <3> QED BY <1>0, <2>1, <3>1, <3>2
    <2> QED BY <2>2, <2>3 DEF Elect!Fenced
  <1> QED BY <1>1, <1>2, <1>2a, <1>3 DEF Elect!Next

(* Under the same hypotheses at most one pod leads, it knows it does, and  *)
(* every pod that led before it has a smaller epoch: what makes the epoch  *)
(* a fence for its assignments (leader_election.py:144).                   *)
THEOREM LeaderIsFenced ==
  ASSUME ~Slow PROVE Spec /\ [][BumpEndsWithSession]_vars => []Elect!Fenced
  <1>1. Init => EpochsKnown /\ Elect!Fenced
    BY DEF Init, EpochsKnown, Elect!Fenced, Holder
  <1>2. TypeOK /\ EpochsKnown /\ Elect!Fenced /\ [Elect!Next]_(Elect!vars)
          => EpochsKnown' /\ Elect!Fenced'
    BY FencedStep
  <1> QED BY <1>1, <1>2, ElectionImplemented, RecoveryTypeCorrect, PTL
          DEF Spec, Elect!Spec
=============================================================================
