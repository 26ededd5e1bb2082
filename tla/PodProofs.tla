----------------------------- MODULE PodProofs ------------------------------
(***************************************************************************)
(* Proofs about a pod, for any processes, intervals and bounds: its job    *)
(* table implements JobTable, the scheduler ends up with the assignment    *)
(* accepted last, no job outlives a client and nothing outlives the pod.   *)
(***************************************************************************)
EXTENDS Pod, TLAPS

(* The queue at the scheduler's lock: only its head has begun, a coroutine *)
(* that has not begun knows nothing, and one that has works on processes   *)
(* this instance is responsible for.                                       *)
QueueOK ==
  /\ queue \in Seq(Mutator)
  /\ \A n \in 1..Len(queue) :
       IF queue[n].begun
       THEN /\ n = 1
            /\ queue[n].todo \subseteq ProcessesToSchedule
            /\ queue[n].want \subseteq ProcessesToSchedule \X Interval
       ELSE queue[n].todo = {} /\ queue[n].want = {}

TableInv ==
  /\ debug \in BOOLEAN /\ cadence \in [Process -> SUBSET Interval]
  /\ owned = Unassigned \/ owned \in SUBSET Process
  /\ jobs \subseteq ProcessesToSchedule \X Interval
  /\ QueueOK
-----------------------------------------------------------------------------
(* What the steps do to the queue.                                         *)

LEMMA WithoutSeq ==
  ASSUME NEW S, NEW s \in Seq(S), NEW n \in 1..Len(s)
  PROVE  /\ Without(s, n) \in Seq(S) /\ Len(Without(s, n)) = Len(s) - 1
         /\ \A k \in 1..(Len(s) - 1) :
              Without(s, n)[k] = IF k < n THEN s[k] ELSE s[k + 1]
  <1>1. Len(s) \in Nat /\ Len(s) - 1 \in Nat
    OBVIOUS
  <1>2. \A k \in 1..(Len(s) - 1) : (IF k < n THEN s[k] ELSE s[k + 1]) \in S
    OBVIOUS
  <1>3. Without(s, n) \in [1..(Len(s) - 1) -> S]
    BY <1>2 DEF Without
  <1> QED BY <1>1, <1>3 DEF Without

LEMMA AppendSeq ==
  ASSUME NEW S, NEW s \in Seq(S), NEW x \in S
  PROVE  /\ Append(s, x) \in Seq(S) /\ Len(Append(s, x)) = Len(s) + 1
         /\ Append(s, x)[Len(s) + 1] = x
         /\ \A k \in 1..Len(s) : Append(s, x)[k] = s[k]
  OBVIOUS

LEMMA TailSeq ==
  ASSUME NEW S, NEW s \in Seq(S), s # <<>>
  PROVE  /\ Len(s) \in Nat \ {0} /\ s[1] \in S /\ Head(s) = s[1]
         /\ Tail(s) \in Seq(S) /\ Len(Tail(s)) = Len(s) - 1
         /\ \A k \in 1..(Len(s) - 1) : Tail(s)[k] = s[k + 1]
  OBVIOUS

(* A coroutine leaves the lock or stays at the head with another state.    *)
LEMMA ContinueSeq ==
  ASSUME queue \in Seq(Mutator), queue # <<>>, NEW m \in Mutator, Continue(m)
  PROVE  /\ queue' \in Seq(Mutator)
         /\ \/ /\ m.todo = {} /\ Len(queue') = Len(queue) - 1
               /\ \A k \in 1..(Len(queue) - 1) : queue'[k] = queue[k + 1]
            \/ /\ m.todo # {} /\ Len(queue') = Len(queue) /\ queue'[1] = m
               /\ \A k \in 2..Len(queue) : queue'[k] = queue[k]
  <1>1. CASE m.todo = {}
    BY <1>1, TailSeq DEF Continue
  <1>2. CASE m.todo # {}
    BY <1>2 DEF Continue
  <1> QED BY <1>1, <1>2

LEMMA HolderTyped ==
  ASSUME QueueOK, queue # <<>>
  PROVE  /\ Len(queue) \in Nat \ {0} /\ Holder = queue[1] /\ Holder \in Mutator
         /\ DOMAIN queue = 1..Len(queue)
  BY TailSeq DEF QueueOK, Holder

LEMMA NewMutatorTyped ==
  ASSUME NEW by \in {"reload", "loop", "api"}, NEW ps \in SUBSET Process
  PROVE  NewMutator(by, ps) \in Mutator /\ NewMutator(by, ps).by = by
           /\ NewMutator(by, ps).procs = ps /\ ~NewMutator(by, ps).begun
           /\ NewMutator(by, ps).todo = {} /\ NewMutator(by, ps).want = {}
  BY DEF NewMutator, Mutator

-----------------------------------------------------------------------------
(* TableInv is inductive.                                                  *)

LEMMA TableInit == Init => TableInv
  BY DEF Init, SchedInit, TableInv, QueueOK, ProcessesToSchedule

LEMMA TableSame ==
  ASSUME TableInv, UNCHANGED <<debug, cadence, owned, jobs, queue>>
  PROVE  TableInv'
  BY DEF TableInv, QueueOK, ProcessesToSchedule

LEMMA TableAppend ==
  ASSUME TableInv, UNCHANGED <<debug, cadence, owned, jobs>>,
         NEW by \in {"reload", "loop", "api"}, NEW ps \in SUBSET Process,
         queue' = Append(queue, NewMutator(by, ps))
  PROVE  TableInv'
  <1>1. ProcessesToSchedule' = ProcessesToSchedule
    BY DEF ProcessesToSchedule
  <1>2. QueueOK'
    <2>1. queue \in Seq(Mutator) /\ Len(queue) \in Nat
      BY DEF TableInv, QueueOK
    <2>2. /\ queue' \in Seq(Mutator) /\ Len(queue') = Len(queue) + 1
          /\ queue'[Len(queue) + 1] = NewMutator(by, ps)
          /\ \A k \in 1..Len(queue) : queue'[k] = queue[k]
      BY <2>1, AppendSeq, NewMutatorTyped
    <2> QED BY <1>1, <2>1, <2>2, NewMutatorTyped DEF TableInv, QueueOK
  <1> QED BY <1>1, <1>2 DEF TableInv

LEMMA TableDrop ==
  ASSUME TableInv, UNCHANGED <<debug, cadence, owned, jobs>>,
         NEW n \in 1..Len(queue),
         queue' \in Seq(Mutator), Len(queue') = Len(queue) - 1,
         \A k \in 1..(Len(queue) - 1) :
           queue'[k] = IF k < n THEN queue[k] ELSE queue[k + 1]
  PROVE  TableInv'
  <1>1. ProcessesToSchedule' = ProcessesToSchedule
    BY DEF ProcessesToSchedule
  <1>2. queue \in Seq(Mutator) /\ Len(queue) \in Nat
    BY DEF TableInv, QueueOK
  <1>3. \A k \in 1..Len(queue) :
          IF queue[k].begun
          THEN /\ k = 1 /\ queue[k].todo \subseteq ProcessesToSchedule'
               /\ queue[k].want \subseteq ProcessesToSchedule' \X Interval
          ELSE queue[k].todo = {} /\ queue[k].want = {}
    BY <1>1 DEF TableInv, QueueOK
  <1>4. ASSUME NEW k \in 1..Len(queue')
        PROVE  IF queue'[k].begun
               THEN /\ k = 1 /\ queue'[k].todo \subseteq ProcessesToSchedule'
                    /\ queue'[k].want \subseteq ProcessesToSchedule' \X Interval
               ELSE queue'[k].todo = {} /\ queue'[k].want = {}
    <2>1. CASE k < n
      BY <1>2, <1>3, <1>4, <2>1
    <2>2. CASE ~(k < n)
      <3>1. k + 1 \in 1..Len(queue) /\ k + 1 # 1 /\ queue'[k] = queue[k + 1]
        BY <1>2, <1>4, <2>2
      <3> QED BY <1>3, <3>1
    <2> QED BY <2>1, <2>2
  <1>5. QueueOK'
    BY <1>4 DEF QueueOK
  <1> QED BY <1>1, <1>5 DEF TableInv

LEMMA TableReloadBegins ==
  ASSUME TableInv, ReloadBegins
  PROVE  TableInv' /\ ProcessesToSchedule' \subseteq Process /\ jobs' = {}
  <1> DEFINE m == [Holder EXCEPT !.begun = TRUE, !.todo = Holder.procs]
  <1>1. queue # <<>> /\ ~Holder.begun /\ Continue(m) /\ jobs' = {}
          /\ owned' = Holder.procs /\ UNCHANGED <<debug, cadence>>
    BY DEF ReloadBegins
  <1>2. /\ Len(queue) \in Nat \ {0} /\ Holder = queue[1] /\ Holder \in Mutator
        /\ queue \in Seq(Mutator)
    BY <1>1, HolderTyped DEF TableInv, QueueOK
  <1>3. m \in Mutator /\ m.todo = Holder.procs /\ m.begun /\ m.want = {}
          /\ Holder.procs \in SUBSET Process
    <2>1. Holder.want = {}
      BY <1>1, <1>2 DEF TableInv, QueueOK
    <2>2. Holder.procs \in SUBSET Process
      BY <1>2 DEF Mutator
    <2>3. m \in Mutator
      BY <1>2, <2>2 DEF Mutator
    <2>4. m.todo = Holder.procs /\ m.begun /\ m.want = Holder.want
      BY <1>2 DEF Mutator
    <2> QED BY <2>1, <2>2, <2>3, <2>4
  <1>4. owned' \in SUBSET Process /\ owned' # Unassigned
          /\ ProcessesToSchedule' = Holder.procs
    BY <1>1, <1>3, SchedulerAssumption DEF ProcessesToSchedule
  <1>5. /\ queue' \in Seq(Mutator)
        /\ \/ /\ Len(queue') = Len(queue) - 1
              /\ \A k \in 1..(Len(queue) - 1) : queue'[k] = queue[k + 1]
           \/ /\ Len(queue') = Len(queue) /\ queue'[1] = m
              /\ \A k \in 2..Len(queue) : queue'[k] = queue[k]
    <2> HIDE DEF m
    <2> QED BY <1>1, <1>2, <1>3, ContinueSeq
  <1>6. QueueOK'
    <2> HIDE DEF m
    <2>1. \A k \in 2..Len(queue) : ~queue[k].begun /\ queue[k].todo = {}
                                     /\ queue[k].want = {}
      BY <1>2 DEF QueueOK, TableInv
    <2>2. CASE /\ Len(queue') = Len(queue) - 1
               /\ \A k \in 1..(Len(queue) - 1) : queue'[k] = queue[k + 1]
      <3>1. ASSUME NEW k \in 1..Len(queue')
            PROVE  ~queue'[k].begun /\ queue'[k].todo = {} /\ queue'[k].want = {}
        <4>1. k + 1 \in 2..Len(queue) /\ queue'[k] = queue[k + 1]
          BY <1>2, <2>2, <3>1
        <4> QED BY <2>1, <4>1
      <3> QED BY <1>5, <3>1 DEF QueueOK
    <2>3. CASE /\ Len(queue') = Len(queue) /\ queue'[1] = m
               /\ \A k \in 2..Len(queue) : queue'[k] = queue[k]
      <3>1. m.todo \subseteq ProcessesToSchedule'
              /\ m.want \subseteq ProcessesToSchedule' \X Interval
        BY <1>3, <1>4
      <3>2. \A k \in 1..Len(queue) : k = 1 \/ k \in 2..Len(queue)
        BY <1>2
      <3> QED BY <1>2, <1>3, <1>4, <1>5, <2>1, <2>3, <3>1, <3>2 DEF QueueOK
    <2> QED BY <1>5, <2>2, <2>3
  <1> QED BY <1>1, <1>3, <1>4, <1>6 DEF TableInv

LEMMA TableReconcileBegins ==
  ASSUME TableInv, ReconcileBegins
  PROVE  TableInv'
  <1> DEFINE m == [Holder EXCEPT !.begun = TRUE,
                     !.todo = IF ~paused /\ running THEN ProcessesToSchedule
                              ELSE {}]
  <1>1. queue # <<>> /\ ~Holder.begun /\ Continue(m)
          /\ UNCHANGED <<debug, cadence, owned, jobs>>
    BY DEF ReconcileBegins
  <1>2. /\ Len(queue) \in Nat \ {0} /\ Holder = queue[1] /\ Holder \in Mutator
        /\ queue \in Seq(Mutator)
    BY <1>1, HolderTyped DEF TableInv, QueueOK
  <1>3. ProcessesToSchedule \subseteq Process
          /\ ProcessesToSchedule' = ProcessesToSchedule
    BY <1>1, SchedulerAssumption DEF ProcessesToSchedule, TableInv, DebugProcesses
  <1>4. m \in Mutator /\ m.todo \subseteq ProcessesToSchedule /\ m.begun
          /\ m.want = {}
    <2>1. Holder.want = {}
      BY <1>1, <1>2 DEF TableInv, QueueOK
    <2>2. m \in Mutator
      BY <1>2, <1>3 DEF Mutator
    <2>3. m.todo \subseteq ProcessesToSchedule /\ m.begun /\ m.want = Holder.want
      BY <1>2 DEF Mutator
    <2> QED BY <2>1, <2>2, <2>3
  <1>5. /\ queue' \in Seq(Mutator)
        /\ \/ /\ Len(queue') = Len(queue) - 1
              /\ \A k \in 1..(Len(queue) - 1) : queue'[k] = queue[k + 1]
           \/ /\ Len(queue') = Len(queue) /\ queue'[1] = m
              /\ \A k \in 2..Len(queue) : queue'[k] = queue[k]
    <2> HIDE DEF m
    <2> QED BY <1>1, <1>2, <1>4, ContinueSeq
  <1>6. QueueOK'
    <2> HIDE DEF m
    <2>1. \A k \in 2..Len(queue) : ~queue[k].begun /\ queue[k].todo = {}
                                     /\ queue[k].want = {}
      BY <1>2 DEF QueueOK, TableInv
    <2>2. CASE /\ Len(queue') = Len(queue) - 1
               /\ \A k \in 1..(Len(queue) - 1) : queue'[k] = queue[k + 1]
      <3>1. ASSUME NEW k \in 1..Len(queue')
            PROVE  ~queue'[k].begun /\ queue'[k].todo = {} /\ queue'[k].want = {}
        <4>1. k + 1 \in 2..Len(queue) /\ queue'[k] = queue[k + 1]
          BY <1>2, <2>2, <3>1
        <4> QED BY <2>1, <4>1
      <3> QED BY <1>5, <3>1 DEF QueueOK
    <2>3. CASE /\ Len(queue') = Len(queue) /\ queue'[1] = m
               /\ \A k \in 2..Len(queue) : queue'[k] = queue[k]
      <3>1. m.todo \subseteq ProcessesToSchedule'
              /\ m.want \subseteq ProcessesToSchedule' \X Interval
        BY <1>3, <1>4
      <3>2. \A k \in 1..Len(queue) : k = 1 \/ k \in 2..Len(queue)
        BY <1>2
      <3> QED BY <1>2, <1>3, <1>4, <1>5, <2>1, <2>3, <3>1, <3>2 DEF QueueOK
    <2> QED BY <1>5, <2>2, <2>3
  <1> QED BY <1>1, <1>3, <1>6 DEF TableInv

(* A read of p, by either coroutine.                                       *)
LEMMA TableReads ==
  ASSUME TableInv, NEW p \in Process, ReloadReads(p) \/ ReconcileReads(p)
  PROVE  TableInv' /\ ProcessesToSchedule' = ProcessesToSchedule
  <1> DEFINE m == IF Holder.by = "reload" THEN [Holder EXCEPT !.todo = @ \ {p}]
                  ELSE [Holder EXCEPT !.todo = Holder.todo \ {p},
                                      !.want = Holder.want \cup JobsOf(p)]
  <1>1. queue # <<>> /\ p \in Holder.todo /\ Continue(m)
          /\ UNCHANGED <<debug, cadence, owned>>
          /\ \/ jobs' = jobs
             \/ jobs' = jobs \cup JobsOf(p)
             \/ jobs' = Holder.want \cup JobsOf(p)
    BY DEF ReloadReads, ReconcileReads
  <1>2. /\ Len(queue) \in Nat \ {0} /\ Holder = queue[1] /\ Holder \in Mutator
        /\ queue \in Seq(Mutator)
    BY <1>1, HolderTyped DEF TableInv, QueueOK
  <1>3. ProcessesToSchedule \subseteq Process
          /\ ProcessesToSchedule' = ProcessesToSchedule
    BY <1>1, SchedulerAssumption DEF ProcessesToSchedule, TableInv, DebugProcesses
  <1>4. Holder.begun /\ Holder.todo \subseteq ProcessesToSchedule
          /\ Holder.want \subseteq ProcessesToSchedule \X Interval
    BY <1>1, <1>2 DEF TableInv, QueueOK
  <1>5. JobsOf(p) \subseteq ProcessesToSchedule \X Interval
    BY <1>1, <1>4 DEF JobsOf, TableInv
  <1>6. m \in Mutator /\ m.todo \subseteq ProcessesToSchedule /\ m.begun
          /\ m.want \subseteq ProcessesToSchedule \X Interval
    BY <1>2, <1>3, <1>4, <1>5 DEF Mutator
  <1>7. /\ queue' \in Seq(Mutator)
        /\ \/ /\ Len(queue') = Len(queue) - 1
              /\ \A k \in 1..(Len(queue) - 1) : queue'[k] = queue[k + 1]
           \/ /\ Len(queue') = Len(queue) /\ queue'[1] = m
              /\ \A k \in 2..Len(queue) : queue'[k] = queue[k]
    <2> HIDE DEF m
    <2> QED BY <1>1, <1>2, <1>6, ContinueSeq
  <1>8. QueueOK'
    <2> HIDE DEF m
    <2>1. \A k \in 2..Len(queue) : ~queue[k].begun /\ queue[k].todo = {}
                                     /\ queue[k].want = {}
      BY <1>2 DEF QueueOK, TableInv
    <2>2. CASE /\ Len(queue') = Len(queue) - 1
               /\ \A k \in 1..(Len(queue) - 1) : queue'[k] = queue[k + 1]
      <3>1. ASSUME NEW k \in 1..Len(queue')
            PROVE  ~queue'[k].begun /\ queue'[k].todo = {} /\ queue'[k].want = {}
        <4>1. k + 1 \in 2..Len(queue) /\ queue'[k] = queue[k + 1]
          BY <1>2, <2>2, <3>1
        <4> QED BY <2>1, <4>1
      <3> QED BY <1>7, <3>1 DEF QueueOK
    <2>3. CASE /\ Len(queue') = Len(queue) /\ queue'[1] = m
               /\ \A k \in 2..Len(queue) : queue'[k] = queue[k]
      BY <1>2, <1>3, <1>6, <1>7, <2>1, <2>3 DEF QueueOK
    <2> QED BY <1>7, <2>2, <2>3
  <1>9. jobs' \subseteq ProcessesToSchedule \X Interval
    BY <1>1, <1>4, <1>5 DEF TableInv
  <1> QED BY <1>1, <1>3, <1>8, <1>9 DEF TableInv

(* Every step is one of three kinds: it leaves the scheduler's state       *)
(* alone, it is a mutator at work, or it adds to or takes from the queue.  *)
tableVars == <<debug, cadence, owned, jobs, queue>>

LEMMA QuietSteps ==
  ASSUME \/ Connect \/ ConnectRetry \/ ConnectFails \/ BootStep \/ BootStepFails
         \/ StartScheduler \/ Drain \/ Leave \/ CloseClient
         \/ ZkSuspended \/ ZkLost \/ ZkConnected \/ RecoveryEnds
         \/ \E j \in Process \X Interval : JobStarts(j) \/ JobEnds(j)
         \/ UNCHANGED vars
  PROVE  UNCHANGED tableVars
  <1>1. CASE Connect \/ ConnectRetry \/ ConnectFails \/ BootStep \/ BootStepFails
    BY <1>1 DEF Connect, ConnectRetry, ConnectFails, BootStep, BootStepFails,
                schedVars, tableVars
  <1>2. CASE StartScheduler \/ Drain \/ Leave \/ CloseClient
    BY <1>2 DEF StartScheduler, Start, Drain, ShutdownDrain, Leave, CloseClient,
                schedVars, tableVars
  <1>3. CASE ZkSuspended \/ ZkLost \/ ZkConnected \/ RecoveryEnds
    BY <1>3 DEF ZkSuspended, ZkLost, ZkConnected, RecoveryEnds, schedRest,
                tableVars
  <1>4. CASE \E j \in Process \X Interval : JobStarts(j) \/ JobEnds(j)
    BY <1>4 DEF JobStarts, JobEnds, tableVars
  <1>5. CASE UNCHANGED vars
    BY <1>5 DEF vars, schedVars, tableVars
  <1> QED BY <1>1, <1>2, <1>3, <1>4, <1>5

(* What a step may do to the table, given that it keeps TableInv.          *)
TableMove ==
  \/ /\ ProcessesToSchedule' = ProcessesToSchedule
     /\ jobs' \subseteq ProcessesToSchedule \X Interval
  \/ ProcessesToSchedule' \subseteq Process /\ jobs' = {}

LEMMA TableStep ==
  ASSUME TableInv, [Next]_vars
  PROVE  TableInv' /\ TableMove
  <1> USE DEF TableMove
  <1>1. ASSUME UNCHANGED <<debug, owned, jobs>> PROVE TableMove
    BY <1>1 DEF TableInv, ProcessesToSchedule
  <1>2. CASE UNCHANGED tableVars
    BY <1>1, <1>2, TableSame DEF tableVars
  <1>3. CASE Terminate
    <2>1. UNCHANGED <<debug, cadence, owned, jobs>>
      BY <1>3 DEF Terminate, ShutdownBegin
    <2>2. CASE queue' = queue
      BY <1>1, <2>1, <2>2, TableSame
    <2>3. CASE \E n \in DOMAIN queue : queue' = Without(queue, n)
      <3>1. PICK n \in DOMAIN queue : queue' = Without(queue, n)
        BY <2>3
      <3>2. queue \in Seq(Mutator) /\ n \in 1..Len(queue)
        BY <3>1 DEF TableInv, QueueOK
      <3>3. /\ queue' \in Seq(Mutator) /\ Len(queue') = Len(queue) - 1
            /\ \A k \in 1..(Len(queue) - 1) :
                 queue'[k] = IF k < n THEN queue[k] ELSE queue[k + 1]
        BY <3>1, <3>2, WithoutSeq
      <3> QED BY <1>1, <2>1, <3>2, <3>3, TableDrop
    <2> QED BY <1>3, <2>2, <2>3 DEF Terminate, ShutdownBegin
  <1>4. CASE StopScheduler
    <2>1. UNCHANGED <<debug, cadence, owned, queue>> /\ (jobs' = jobs \/ jobs' = {})
      BY <1>4 DEF StopScheduler, ShutdownScheduler
    <2> QED BY <2>1 DEF TableInv, QueueOK, ProcessesToSchedule
  <1>5. CASE (\E ps \in SUBSET Process : ApplyAssignment(ps))
               \/ CallReconcile \/ LoopTick
    <2>1. UNCHANGED <<debug, cadence, owned, jobs>>
      BY <1>5 DEF ApplyAssignment, CallReconcile, LoopTick
    <2>2. \E by \in {"reload", "loop", "api"}, ps \in SUBSET Process :
            queue' = Append(queue, NewMutator(by, ps))
      BY <1>5 DEF ApplyAssignment, CallReload, CallReconcile, LoopTick
    <2> QED BY <1>1, <2>1, <2>2, TableAppend
  <1>6. CASE \E up \in BOOLEAN : MutatorFails(up)
    <2>1. UNCHANGED <<debug, cadence, owned, jobs>> /\ queue # <<>>
            /\ queue' = Tail(queue)
      BY <1>6 DEF MutatorFails
    <2>2. queue \in Seq(Mutator)
      BY DEF TableInv, QueueOK
    <2>3. /\ queue' \in Seq(Mutator) /\ Len(queue') = Len(queue) - 1
          /\ 1 \in 1..Len(queue)
          /\ \A k \in 1..(Len(queue) - 1) :
               queue'[k] = IF k < 1 THEN queue[k] ELSE queue[k + 1]
      BY <2>1, <2>2, TailSeq
    <2> QED BY <1>1, <2>1, <2>3, TableDrop
  <1>7. CASE EditProfiles
    <2>1. UNCHANGED <<debug, owned, jobs, queue>>
            /\ cadence' \in [Process -> SUBSET Interval]
      BY <1>7 DEF EditProfiles, TableInv
    <2> QED BY <1>1, <2>1 DEF TableInv, QueueOK, ProcessesToSchedule
  <1>8. CASE ReloadBegins
    BY <1>8, TableReloadBegins
  <1>9. CASE ReconcileBegins
    BY <1>1, <1>9, TableReconcileBegins DEF ReconcileBegins
  <1>10. CASE \E p \in Process : ReloadReads(p) \/ ReconcileReads(p)
    BY <1>10, TableReads DEF TableInv
  <1> QED
    <2>1. CASE PodSteps
      BY <2>1, <1>2, <1>3, <1>4, <1>5, QuietSteps DEF PodSteps
    <2>2. CASE SchedSteps
      <3>1. CASE \E j \in Process \X Interval : JobStarts(j) \/ JobEnds(j)
        BY <3>1, <1>2, QuietSteps
      <3>2. CASE MutatorFails("mongo" \in open)
        <4>1. ("mongo" \in open) \in BOOLEAN
          OBVIOUS
        <4> QED BY <3>2, <4>1, <1>6
      <3>3. CASE MutatorSteps
        BY <3>3, <1>8, <1>9, <1>10 DEF MutatorSteps
      <3> QED BY <2>2, <1>5, <1>7, <3>1, <3>2, <3>3 DEF SchedSteps
    <2>3. CASE UNCHANGED vars
      <3>1. UNCHANGED tableVars
        BY <2>3, QuietSteps
      <3> QED BY <3>1, <1>2
    <2> QED BY <2>1, <2>2, <2>3 DEF Next

LEMMA TableInvariance == Spec => []TableInv
  <1>1. TableInv /\ [Next]_vars => TableInv'
    BY TableStep
  <1> QED BY <1>1, TableInit, PTL DEF Spec

(* The job table of a pod implements JobTable: whatever reload, reconcile, *)
(* pauses and shutdown interleave at the awaits, a job belongs to a        *)
(* process the instance is responsible for and a change of responsibility  *)
(* starts from an empty table (jobs.py:87).                                *)
THEOREM TableImplemented == Spec => TableSpec
  <1>1. Init => Table!Init
    BY SchedulerAssumption
       DEF Init, SchedInit, Table!Init, ProcessesToSchedule, DebugProcesses
  <1>2. TableInv /\ [Next]_vars => [Table!Next]_(Table!vars)
    <2> SUFFICES ASSUME TableInv, [Next]_vars
                 PROVE  Table!Next
      OBVIOUS
    <2>1. TableMove
      BY TableStep
    <2>2. CASE /\ ProcessesToSchedule' = ProcessesToSchedule
               /\ jobs' \subseteq ProcessesToSchedule \X Interval
      BY <2>2 DEF Table!Next, Table!Register
    <2>3. CASE ProcessesToSchedule' \subseteq Process /\ jobs' = {}
      BY <2>3 DEF Table!Next, Table!Assign
    <2> QED BY <2>1, <2>2, <2>3 DEF TableMove
  <1> QED BY <1>1, <1>2, TableInvariance, PTL DEF Spec, TableSpec, Table!Spec

-----------------------------------------------------------------------------
(* The reload that waits last carries the assignment accepted last; when   *)
(* none waits, that assignment has been taken over.                        *)
Waiting(q, n) == q[n].by = "reload" /\ ~q[n].begun
LastWaiting(q, n) ==
  /\ n \in 1..Len(q) /\ Waiting(q, n) /\ q[n].procs = assigned
  /\ \A k \in 1..Len(q) : k > n => ~Waiting(q, k)
NoneWaits(q) == \A n \in 1..Len(q) : ~Waiting(q, n)

Latest ==
  \/ assigned = {}
  \/ owned = assigned /\ NoneWaits(queue)
  \/ \E n \in 1..Len(queue) : LastWaiting(queue, n)

(* A coroutine other than a waiting reload leaves the queue.               *)
LEMMA LatestDrop ==
  ASSUME Latest, UNCHANGED <<owned, assigned>>, Len(queue) \in Nat,
         NEW d \in 1..Len(queue), ~Waiting(queue, d),
         Len(queue') = Len(queue) - 1,
         \A k \in 1..(Len(queue) - 1) :
           queue'[k] = IF k < d THEN queue[k] ELSE queue[k + 1]
  PROVE  Latest'
  <1>1. ASSUME NEW k \in 1..Len(queue')
        PROVE  \/ k < d /\ k \in 1..Len(queue) /\ queue'[k] = queue[k]
               \/ k >= d /\ k + 1 \in 1..Len(queue) /\ queue'[k] = queue[k + 1]
    BY <1>1
  <1>2. CASE assigned = {}
    BY <1>2 DEF Latest
  <1>3. CASE owned = assigned /\ NoneWaits(queue)
    <2>1. NoneWaits(queue')
      BY <1>1, <1>3 DEF NoneWaits, Waiting
    <2> QED BY <1>3, <2>1 DEF Latest
  <1>4. CASE \E n \in 1..Len(queue) : LastWaiting(queue, n)
    <2>1. PICK n \in 1..Len(queue) : LastWaiting(queue, n)
      BY <1>4
    <2>2. n # d
      BY <2>1 DEF LastWaiting
    <2> DEFINE i == IF n < d THEN n ELSE n - 1
    <2>3. i \in 1..Len(queue') /\ queue'[i] = queue[n]
      BY <2>2
    <2>4. \A k \in 1..Len(queue') : k > i => ~Waiting(queue', k)
      <3> SUFFICES ASSUME NEW k \in 1..Len(queue'), k > i
                   PROVE  ~Waiting(queue', k)
        OBVIOUS
      <3>1. CASE k < d /\ k \in 1..Len(queue) /\ queue'[k] = queue[k]
        <4>1. k > n
          BY <2>2, <3>1
        <4> QED BY <2>1, <3>1, <4>1 DEF LastWaiting, Waiting
      <3>2. CASE k >= d /\ k + 1 \in 1..Len(queue) /\ queue'[k] = queue[k + 1]
        <4>1. k + 1 > n
          BY <2>2, <3>2
        <4> QED BY <2>1, <3>2, <4>1 DEF LastWaiting, Waiting
      <3> QED BY <1>1, <3>1, <3>2
    <2>5. /\ i \in 1..Len(queue') /\ Waiting(queue', i)
          /\ queue'[i].procs = assigned'
      BY <2>1, <2>3 DEF LastWaiting, Waiting
    <2> QED BY <2>4, <2>5 DEF Latest, LastWaiting
  <1> QED BY <1>2, <1>3, <1>4 DEF Latest

(* The head, not a waiting reload, goes on as something else that is none. *)
LEMMA LatestStay ==
  ASSUME Latest, UNCHANGED <<owned, assigned>>, Len(queue) \in Nat \ {0},
         ~Waiting(queue, 1), ~Waiting(queue', 1), Len(queue') = Len(queue),
         \A k \in 2..Len(queue) : queue'[k] = queue[k]
  PROVE  Latest'
  <1>1. \A k \in 1..Len(queue) : k = 1 \/ k \in 2..Len(queue)
    OBVIOUS
  <1>2. \A k \in 1..Len(queue) : Waiting(queue', k) <=> Waiting(queue, k)
    BY <1>1 DEF Waiting
  <1>3. CASE assigned = {}
    BY <1>3 DEF Latest
  <1>4. CASE owned = assigned /\ NoneWaits(queue)
    BY <1>2, <1>4 DEF Latest, NoneWaits
  <1>5. CASE \E n \in 1..Len(queue) : LastWaiting(queue, n)
    <2>1. PICK n \in 1..Len(queue) : LastWaiting(queue, n)
      BY <1>5
    <2>2. n \in 2..Len(queue)
      BY <1>1, <2>1 DEF LastWaiting
    <2>3. /\ n \in 1..Len(queue') /\ Waiting(queue', n)
          /\ queue'[n].procs = assigned'
          /\ \A k \in 1..Len(queue') : k > n => ~Waiting(queue', k)
      BY <1>2, <2>1, <2>2 DEF LastWaiting
    <2> QED BY <2>3 DEF Latest, LastWaiting
  <1> QED BY <1>3, <1>4, <1>5 DEF Latest

(* Something that is not a reload joins the queue.                         *)
LEMMA LatestAppend ==
  ASSUME TableInv, Latest, UNCHANGED <<owned, assigned>>,
         NEW by \in {"loop", "api"}, queue' = Append(queue, NewMutator(by, {}))
  PROVE  Latest'
  <1>1. queue \in Seq(Mutator) /\ Len(queue) \in Nat
    BY DEF TableInv, QueueOK
  <1>2. NewMutator(by, {}) \in Mutator /\ NewMutator(by, {}).by # "reload"
    BY NewMutatorTyped
  <1>3. /\ Len(queue') = Len(queue) + 1 /\ queue'[Len(queue) + 1].by # "reload"
        /\ \A k \in 1..Len(queue) : queue'[k] = queue[k]
    BY <1>1, <1>2, AppendSeq
  <1>4. \A k \in 1..Len(queue') : k = Len(queue) + 1 \/ k \in 1..Len(queue)
    BY <1>1, <1>3
  <1>5. \A k \in 1..Len(queue') :
          Waiting(queue', k) => k \in 1..Len(queue) /\ Waiting(queue, k)
    BY <1>3, <1>4 DEF Waiting
  <1>6. CASE assigned = {}
    BY <1>6 DEF Latest
  <1>7. CASE owned = assigned /\ NoneWaits(queue)
    BY <1>5, <1>7 DEF Latest, NoneWaits
  <1>8. CASE \E n \in 1..Len(queue) : LastWaiting(queue, n)
    <2>1. PICK n \in 1..Len(queue) : LastWaiting(queue, n)
      BY <1>8
    <2>2. /\ n \in 1..Len(queue') /\ Waiting(queue', n)
          /\ queue'[n].procs = assigned'
      BY <1>1, <1>3, <2>1 DEF LastWaiting, Waiting
    <2>3. \A k \in 1..Len(queue') : k > n => ~Waiting(queue', k)
      BY <1>5, <2>1 DEF LastWaiting
    <2> QED BY <2>2, <2>3 DEF Latest, LastWaiting
  <1> QED BY <1>6, <1>7, <1>8 DEF Latest

(* How a coroutine that holds the lock changes the queue.                  *)
LEMMA ContinueShape ==
  ASSUME TableInv, TableInv', queue # <<>>, NEW m, Continue(m)
  PROVE  \/ /\ Len(queue') = Len(queue) - 1
            /\ \A k \in 1..(Len(queue) - 1) : queue'[k] = queue[k + 1]
         \/ /\ Len(queue') = Len(queue) /\ queue'[1] = m
            /\ \A k \in 2..Len(queue) : queue'[k] = queue[k]
  <1>1. queue \in Seq(Mutator) /\ queue' \in Seq(Mutator)
    BY DEF TableInv, QueueOK
  <1>2. Len(queue) \in Nat \ {0} /\ DOMAIN queue = 1..Len(queue)
    BY <1>1, TailSeq
  <1>3. CASE m.todo = {}
    BY <1>1, <1>3, TailSeq DEF Continue
  <1>4. CASE m.todo # {}
    <2>1. queue' = [queue EXCEPT ![1] = m]
      BY <1>4 DEF Continue
    <2>2. DOMAIN queue' = 1..Len(queue)
      BY <1>2, <2>1
    <2>3. Len(queue') = Len(queue)
      BY <1>1, <1>2, <2>2
    <2>4. queue'[1] = m /\ \A k \in 2..Len(queue) : queue'[k] = queue[k]
      <3>1. 1 \in DOMAIN queue /\ \A k \in 2..Len(queue) : k \in DOMAIN queue /\ k # 1
        BY <1>2
      <3> QED BY <2>1, <3>1, Zenon
    <2> QED BY <2>3, <2>4
  <1> QED BY <1>3, <1>4

(* The holder, no waiting reload, goes on or leaves.                       *)
LEMMA LatestContinue ==
  ASSUME TableInv, TableInv', Latest, UNCHANGED <<owned, assigned>>,
         queue # <<>>, NEW m, Continue(m),
         Holder.by # "reload" \/ Holder.begun, m.by # "reload" \/ m.begun
  PROVE  Latest'
  <1>1. Len(queue) \in Nat \ {0} /\ Holder = queue[1]
    BY HolderTyped DEF TableInv
  <1>2. ~Waiting(queue, 1)
    BY <1>1 DEF Waiting
  <1>3. CASE /\ Len(queue') = Len(queue) - 1
             /\ \A k \in 1..(Len(queue) - 1) : queue'[k] = queue[k + 1]
    <2>1. /\ 1 \in 1..Len(queue)
          /\ \A k \in 1..(Len(queue) - 1) :
               queue'[k] = IF k < 1 THEN queue[k] ELSE queue[k + 1]
      BY <1>1, <1>3
    <2> QED BY <1>1, <1>2, <1>3, <2>1, LatestDrop
  <1>4. CASE /\ Len(queue') = Len(queue) /\ queue'[1] = m
             /\ \A k \in 2..Len(queue) : queue'[k] = queue[k]
    <2>1. ~Waiting(queue', 1)
      BY <1>4 DEF Waiting
    <2> QED BY <1>1, <1>2, <1>4, <2>1, LatestStay
  <1> QED BY <1>3, <1>4, ContinueShape

(* The assignment of a reload is taken over as soon as it has the lock.    *)
LEMMA LatestReload ==
  ASSUME TableInv, TableInv', Latest, ReloadBegins, assigned' = assigned
  PROVE  Latest'
  <1> DEFINE m == [Holder EXCEPT !.begun = TRUE, !.todo = Holder.procs]
  <1>1. queue # <<>> /\ Holder.by = "reload" /\ ~Holder.begun /\ Continue(m)
          /\ owned' = Holder.procs
    BY DEF ReloadBegins
  <1>2. Len(queue) \in Nat \ {0} /\ Holder = queue[1] /\ Holder \in Mutator
    BY <1>1, HolderTyped DEF TableInv
  <1>3. m.begun
    BY <1>2 DEF Mutator
  <1>4. CASE assigned = {}
    BY <1>4 DEF Latest
  <1>5. CASE \E n \in 1..Len(queue) : LastWaiting(queue, n)
    <2> HIDE DEF m
    <2>1. PICK n \in 1..Len(queue) : LastWaiting(queue, n)
      BY <1>5
    <2>2. \/ /\ Len(queue') = Len(queue) - 1
             /\ \A k \in 1..(Len(queue) - 1) : queue'[k] = queue[k + 1]
          \/ /\ Len(queue') = Len(queue) /\ queue'[1] = m
             /\ \A k \in 2..Len(queue) : queue'[k] = queue[k]
      BY <1>1, ContinueShape
    <2>3. \A k \in 1..Len(queue') : Waiting(queue', k) =>
            \/ k \in 2..Len(queue) /\ Len(queue') = Len(queue) /\ Waiting(queue, k)
            \/ /\ k + 1 \in 2..Len(queue) /\ Len(queue') = Len(queue) - 1
               /\ Waiting(queue, k + 1)
      <3>1. CASE /\ Len(queue') = Len(queue) - 1
                 /\ \A k \in 1..(Len(queue) - 1) : queue'[k] = queue[k + 1]
        BY <1>2, <3>1 DEF Waiting
      <3>2. CASE /\ Len(queue') = Len(queue) /\ queue'[1] = m
                 /\ \A k \in 2..Len(queue) : queue'[k] = queue[k]
        <4>1. \A k \in 1..Len(queue) : k = 1 \/ k \in 2..Len(queue)
          BY <1>2
        <4>2. ~Waiting(queue', 1)
          BY <1>3, <3>2 DEF Waiting
        <4>3. \A k \in 2..Len(queue) : Waiting(queue', k) => Waiting(queue, k)
          BY <3>2 DEF Waiting
        <4> QED BY <3>2, <4>1, <4>2, <4>3
      <3> QED BY <2>2, <3>1, <3>2
    <2>4. CASE n = 1
      <3>1. owned' = assigned'
        BY <1>1, <1>2, <2>1, <2>4 DEF LastWaiting
      <3>2. NoneWaits(queue')
        BY <1>2, <2>1, <2>3, <2>4 DEF NoneWaits, LastWaiting
      <3> QED BY <3>1, <3>2 DEF Latest
    <2>5. CASE n # 1
      <3> DEFINE i == IF Len(queue') = Len(queue) THEN n ELSE n - 1
      <3>1. i \in 1..Len(queue') /\ queue'[i] = queue[n]
        BY <1>2, <2>2, <2>5
      <3>2. \A k \in 1..Len(queue') : k > i => ~Waiting(queue', k)
        BY <1>2, <2>1, <2>3, <2>5 DEF LastWaiting
      <3>3. Waiting(queue', i) /\ queue'[i].procs = assigned'
        BY <2>1, <3>1 DEF LastWaiting, Waiting
      <3> QED BY <3>1, <3>2, <3>3 DEF Latest, LastWaiting
    <2> QED BY <2>4, <2>5
  <1>6. ~NoneWaits(queue)
    BY <1>1, <1>2 DEF NoneWaits, Waiting
  <1> QED BY <1>4, <1>5, <1>6 DEF Latest

(* A new assignment waits last.                                            *)
LEMMA LatestAssigned ==
  ASSUME TableInv, NEW ps \in SUBSET Process, ApplyAssignment(ps)
  PROVE  Latest'
  <1>1. queue \in Seq(Mutator) /\ Len(queue) \in Nat
    BY DEF TableInv, QueueOK
  <1>2. queue' = Append(queue, NewMutator("reload", ps)) /\ assigned' = ps
    BY DEF ApplyAssignment, CallReload
  <1>3. Len(queue') = Len(queue) + 1
          /\ queue'[Len(queue) + 1] = NewMutator("reload", ps)
    BY <1>1, <1>2, AppendSeq, NewMutatorTyped
  <1>4. /\ Len(queue) + 1 \in 1..Len(queue') /\ Waiting(queue', Len(queue) + 1)
        /\ queue'[Len(queue) + 1].procs = assigned'
        /\ \A k \in 1..Len(queue') : k > Len(queue) + 1 => ~Waiting(queue', k)
    BY <1>1, <1>2, <1>3, NewMutatorTyped DEF Waiting
  <1> QED BY <1>4 DEF Latest, LastWaiting

LEMMA LatestSame ==
  ASSUME Latest, UNCHANGED <<owned, queue>>, assigned' = assigned \/ assigned' = {}
  PROVE  Latest'
  BY DEF Latest, NoneWaits, LastWaiting, Waiting

LEMMA LatestStep ==
  ASSUME TableInv, Latest, [Next]_vars
  PROVE  Latest'
  <1>1. TableInv'
    BY TableStep
  <1>2. CASE \/ Connect \/ ConnectRetry \/ ConnectFails \/ BootStep \/ BootStepFails
             \/ StartScheduler \/ Drain \/ Leave \/ CloseClient
             \/ ZkSuspended \/ ZkLost \/ ZkConnected \/ RecoveryEnds
    <2>1. UNCHANGED tableVars
      BY <1>2, QuietSteps
    <2>2. assigned' = assigned \/ assigned' = {}
      BY <1>2 DEF Connect, ConnectRetry, ConnectFails, BootStep, BootStepFails,
                  StartScheduler, Drain, Leave, CloseClient, ZkSuspended, ZkLost,
                  ZkConnected, RecoveryEnds
    <2> QED BY <2>1, <2>2, LatestSame DEF tableVars
  <1>3. CASE Terminate
    <2>1. UNCHANGED <<owned, assigned>>
      BY <1>3 DEF Terminate, ShutdownBegin
    <2>2. CASE queue' = queue
      BY <2>1, <2>2, LatestSame
    <2>3. CASE \E n \in DOMAIN queue : queue[n].by = "loop"
                                         /\ queue' = Without(queue, n)
      <3>1. PICK n \in DOMAIN queue : queue[n].by = "loop"
                                        /\ queue' = Without(queue, n)
        BY <2>3
      <3>2. queue \in Seq(Mutator) /\ n \in 1..Len(queue) /\ Len(queue) \in Nat
        BY <3>1 DEF TableInv, QueueOK
      <3>3. /\ Len(queue') = Len(queue) - 1
            /\ \A k \in 1..(Len(queue) - 1) :
                 queue'[k] = IF k < n THEN queue[k] ELSE queue[k + 1]
        BY <3>1, <3>2, WithoutSeq
      <3>4. ~Waiting(queue, n)
        BY <3>1 DEF Waiting
      <3> QED BY <2>1, <3>2, <3>3, <3>4, LatestDrop
    <2> QED BY <1>3, <2>2, <2>3 DEF Terminate, ShutdownBegin
  <1>4. CASE StopScheduler \/ (EditProfiles /\ UNCHANGED podVars)
    BY <1>4, LatestSame DEF StopScheduler, ShutdownScheduler, EditProfiles, podVars
  <1>5. CASE \E ps \in SUBSET Process : ApplyAssignment(ps)
    BY <1>5, LatestAssigned
  <1>6. CASE (CallReconcile \/ LoopTick) /\ UNCHANGED podVars
    <2>1. UNCHANGED <<owned, assigned>>
      BY <1>6 DEF CallReconcile, LoopTick, podVars
    <2>2. \E by \in {"loop", "api"} : queue' = Append(queue, NewMutator(by, {}))
      BY <1>6 DEF CallReconcile, LoopTick
    <2> QED BY <2>1, <2>2, LatestAppend
  <1>7. CASE MutatorFails("mongo" \in open) /\ UNCHANGED podVars
    <2>1. UNCHANGED <<owned, assigned>> /\ queue # <<>> /\ Holder.begun
            /\ queue' = Tail(queue)
      BY <1>7 DEF MutatorFails, podVars
    <2>2. queue \in Seq(Mutator) /\ Holder = queue[1] /\ Len(queue) \in Nat
      BY <2>1, HolderTyped DEF TableInv, QueueOK
    <2>3. /\ Len(queue') = Len(queue) - 1 /\ 1 \in 1..Len(queue)
          /\ \A k \in 1..(Len(queue) - 1) :
               queue'[k] = IF k < 1 THEN queue[k] ELSE queue[k + 1]
      BY <2>1, <2>2, TailSeq
    <2>4. ~Waiting(queue, 1)
      BY <2>1, <2>2 DEF Waiting
    <2> QED BY <2>1, <2>2, <2>3, <2>4, LatestDrop
  <1>8. CASE ReloadBegins /\ UNCHANGED podVars
    BY <1>1, <1>8, LatestReload DEF podVars
  <1>9. CASE ReconcileBegins /\ UNCHANGED podVars
    <2> DEFINE m == [Holder EXCEPT !.begun = TRUE,
                       !.todo = IF ~paused /\ running THEN ProcessesToSchedule
                                ELSE {}]
    <2>1. UNCHANGED <<owned, assigned>> /\ queue # <<>>
            /\ Holder.by # "reload" /\ Continue(m)
      BY <1>9 DEF ReconcileBegins, podVars
    <2>2. m.by # "reload"
      BY <2>1, HolderTyped DEF TableInv, Mutator
    <2> HIDE DEF m
    <2> QED BY <1>1, <2>1, <2>2, LatestContinue
  <1>10. ASSUME NEW p \in Process, ReloadReads(p) \/ ReconcileReads(p),
                UNCHANGED podVars
         PROVE  Latest'
    <2>1. UNCHANGED <<owned, assigned>> /\ queue # <<>> /\ p \in Holder.todo
      BY <1>10 DEF ReloadReads, ReconcileReads, podVars
    <2>2. Holder \in Mutator /\ Holder = queue[1] /\ Len(queue) \in Nat \ {0}
      BY <2>1, HolderTyped DEF TableInv
    <2>3. Holder.begun
      BY <2>1, <2>2 DEF TableInv, QueueOK
    <2>4. CASE ReloadReads(p)
      <3> DEFINE m == [Holder EXCEPT !.todo = @ \ {p}]
      <3>1. Continue(m)
        BY <2>4 DEF ReloadReads
      <3>2. m.begun
        BY <2>2, <2>3 DEF Mutator
      <3> HIDE DEF m
      <3> QED BY <1>1, <2>1, <2>3, <3>1, <3>2, LatestContinue
    <2>5. CASE ReconcileReads(p)
      <3> DEFINE m == [Holder EXCEPT !.todo = Holder.todo \ {p},
                                     !.want = Holder.want \cup JobsOf(p)]
      <3>1. Continue(m)
        BY <2>5 DEF ReconcileReads
      <3>2. m.begun
        BY <2>2, <2>3 DEF Mutator
      <3> HIDE DEF m
      <3> QED BY <1>1, <2>1, <2>3, <3>1, <3>2, LatestContinue
    <2> QED BY <1>10, <2>4, <2>5
  <1>11. CASE UNCHANGED vars \/ ((\E j \in Process \X Interval :
                JobStarts(j) \/ JobEnds(j)) /\ UNCHANGED podVars)
    <2>1. UNCHANGED tableVars
      BY <1>11, QuietSteps
    <2> QED BY <1>11, <2>1, LatestSame DEF tableVars, vars, podVars
  <1> QED
    <2>1. CASE PodSteps
      BY <2>1, <1>2, <1>3, <1>4, <1>5 DEF PodSteps
    <2>2. CASE SchedSteps
      <3>1. CASE MutatorSteps
        BY <2>2, <3>1, <1>8, <1>9, <1>10 DEF SchedSteps, MutatorSteps
      <3> QED BY <2>2, <3>1, <1>4, <1>6, <1>7, <1>11 DEF SchedSteps
    <2> QED BY <2>1, <2>2, <1>11 DEF Next

(* When no assignment waits at the lock, the scheduler works for the last  *)
(* one the partition manager accepted (partition_manager.py:512-515),      *)
(* however many waited, failed half way or were overtaken by a reconcile.  *)
THEOREM LatestOwned == Spec => []OwnedIsLatest
  <1>1. Init => Latest
    BY DEF Init, Latest
  <1>2. TableInv /\ Latest /\ [Next]_vars => Latest'
    BY LatestStep
  <1>3. TableInv /\ Latest => OwnedIsLatest
    <2> SUFFICES ASSUME TableInv, Latest, assigned # {},
                        \A n \in DOMAIN queue : queue[n].by = "reload"
                                                  => queue[n].begun
                 PROVE  owned = assigned
      BY DEF OwnedIsLatest
    <2>1. DOMAIN queue = 1..Len(queue)
      BY DEF TableInv, QueueOK
    <2> QED BY <2>1 DEF Latest, LastWaiting, Waiting
  <1> QED BY <1>1, <1>2, <1>3, TableInvariance, PTL DEF Spec

-----------------------------------------------------------------------------
(* Start-up and shutdown.                                                  *)

LEMMA Names ==
  /\ Range(Clients) = {"es", "mongo", "redis", "email", "zk"}
  /\ Range(Boot) = {"es", "mongo", "redis", "email", "zk", "repos", "wire",
                    "members", "elect", "start", "serve"}
  <1>1. DOMAIN Clients = 1..5 /\ DOMAIN Boot = 1..11
    BY DEF Clients, Boot
  <1>2. \A n \in 1..5 : n = 1 \/ n = 2 \/ n = 3 \/ n = 4 \/ n = 5
    OBVIOUS
  <1>3. \A n \in 1..11 : n = 1 \/ n = 2 \/ n = 3 \/ n = 4 \/ n = 5 \/ n = 6
                           \/ n = 7 \/ n = 8 \/ n = 9 \/ n = 10 \/ n = 11
    OBVIOUS
  <1>4. Range(Clients) = {"es", "mongo", "redis", "email", "zk"}
    BY <1>1, <1>2 DEF Range, Clients
  <1>5. Range(Boot) = {"es", "mongo", "redis", "email", "zk", "repos", "wire",
                       "members", "elect", "start", "serve"}
    BY <1>1, <1>3 DEF Range, Boot
  <1> QED BY <1>4, <1>5

(* The step that follows the n-th one is the next that is not skipped.     *)
LEMMA AfterNth ==
  ASSUME NEW n \in 1..10, NEW k \in 1..11, k > n, ~Skipped(Boot[k]),
         \A x \in 1..11 : x > n /\ x < k => Skipped(Boot[x])
  PROVE  After(Boot[n]) = Boot[k]
  <1>1. DOMAIN Boot = 1..11
    BY DEF Boot
  <1>2. \A x \in 1..11 : Boot[x] = Boot[n] => x = n
    BY DEF Boot
  <1>3. (CHOOSE x \in DOMAIN Boot : Boot[x] = Boot[n]) = n
    BY <1>1, <1>2
  <1> DEFINE next == {x \in DOMAIN Boot : x > n /\ ~Skipped(Boot[x])}
  <1>4. k \in next /\ \A x \in next : k <= x
    BY <1>1
  <1>5. \A y \in next : (\A x \in next : y <= x) => y = k
    <2> SUFFICES ASSUME NEW y \in next, \A x \in next : y <= x
                 PROVE  y = k
      OBVIOUS
    <2>1. y <= k /\ k <= y /\ y \in Nat
      BY <1>1, <1>4
    <2> QED BY <2>1
  <1> HIDE DEF next
  <1>6. (CHOOSE y \in next : \A x \in next : y <= x) = k
    BY <1>4, <1>5
  <1> QED BY <1>3, <1>6 DEF After, next

LEMMA Afters ==
  ASSUME debug \in BOOLEAN
  PROVE  /\ After("es") = "mongo" /\ After("mongo") = "redis"
         /\ After("redis") = "email"
         /\ After("email") = IF debug THEN "repos" ELSE "zk"
         /\ After("zk") = "repos" /\ After("repos") = "wire"
         /\ After("wire") = IF debug THEN "start" ELSE "members"
         /\ ~debug => After("members") = "elect" /\ After("elect") = "start"
  <1>1. /\ Boot[1] = "es" /\ Boot[2] = "mongo" /\ Boot[3] = "redis"
        /\ Boot[4] = "email" /\ Boot[5] = "zk" /\ Boot[6] = "repos"
        /\ Boot[7] = "wire" /\ Boot[8] = "members" /\ Boot[9] = "elect"
        /\ Boot[10] = "start"
    BY DEF Boot
  <1>2. After(Boot[1]) = Boot[2]
    BY <1>1, AfterNth DEF Skipped
  <1>3. After(Boot[2]) = Boot[3]
    BY <1>1, AfterNth DEF Skipped
  <1>4. After(Boot[3]) = Boot[4]
    BY <1>1, AfterNth DEF Skipped
  <1>5. After(Boot[4]) = IF debug THEN Boot[6] ELSE Boot[5]
    <2>1. CASE debug
      BY <1>1, <2>1, AfterNth DEF Skipped
    <2>2. CASE ~debug
      BY <1>1, <2>2, AfterNth DEF Skipped
    <2> QED BY <2>1, <2>2
  <1>6. After(Boot[5]) = Boot[6]
    BY <1>1, AfterNth DEF Skipped
  <1>7. After(Boot[6]) = Boot[7]
    BY <1>1, AfterNth DEF Skipped
  <1>8. After(Boot[7]) = IF debug THEN Boot[10] ELSE Boot[8]
    <2>1. CASE debug
      <3>1. \A x \in 1..11 : x > 7 /\ x < 10 => x = 8 \/ x = 9
        OBVIOUS
      <3> QED BY <1>1, <2>1, <3>1, AfterNth DEF Skipped
    <2>2. CASE ~debug
      BY <1>1, <2>2, AfterNth DEF Skipped
    <2> QED BY <2>1, <2>2
  <1>9. ~debug => After(Boot[8]) = Boot[9] /\ After(Boot[9]) = Boot[10]
    BY <1>1, AfterNth DEF Skipped
  <1> QED BY <1>1, <1>2, <1>3, <1>4, <1>5, <1>6, <1>7, <1>8, <1>9

(* Which clients are open, and what runs, in each phase of the lifespan.   *)
Needed == {"es", "mongo", "redis", "email"} \cup (IF debug THEN {} ELSE {"zk"})
Working == {"repos", "wire", "members", "elect", "start", "serve", "shut",
            "stop", "drain", "leave"}

OrderInv ==
  /\ debug \in BOOLEAN
  /\ phase \in Range(Boot) \cup Ends
  /\ phase \in {"zk", "members", "elect"} => ~debug
  /\ phase = "mongo" => {"es"} \subseteq open
  /\ phase = "redis" => {"es", "mongo"} \subseteq open
  /\ phase = "email" => {"es", "mongo", "redis"} \subseteq open
  /\ phase = "zk" => {"es", "mongo", "redis", "email"} \subseteq open
  /\ phase \in Working => Needed \subseteq open
  /\ phase = "exited" => open = {}
  /\ aps \in BOOLEAN /\ (aps => phase \in {"serve", "stop"})
  /\ loopOn \in BOOLEAN /\ (loopOn => phase = "serve")
  /\ inflight # {} => phase \in {"serve", "stop", "drain"}

LEMMA OrderSame ==
  ASSUME OrderInv, UNCHANGED <<debug, phase, open, aps, loopOn, inflight>>
  PROVE  OrderInv'
  BY DEF OrderInv, Needed

LEMMA OrderStep ==
  ASSUME OrderInv, [Next]_vars
  PROVE  OrderInv'
  <1> DEFINE clients == {"es", "mongo", "redis", "email", "zk"}
  <1>0. /\ Range(Clients) = clients
        /\ Range(Boot) = clients \cup {"repos", "wire", "members", "elect",
                                       "start", "serve"}
    BY Names
  <1>1. CASE Connect
    <2>1. phase \in clients /\ open' = open \cup {phase} /\ phase' = After(phase)
            /\ UNCHANGED <<debug, aps, loopOn, inflight>>
      BY <1>0, <1>1 DEF Connect, schedVars
    <2>2. CASE phase = "es"
      BY <1>0, <2>1, <2>2, Afters DEF OrderInv, Working
    <2>3. CASE phase = "mongo"
      BY <1>0, <2>1, <2>3, Afters DEF OrderInv, Working
    <2>4. CASE phase = "redis"
      BY <1>0, <2>1, <2>4, Afters DEF OrderInv, Working
    <2>5. CASE phase = "email"
      BY <1>0, <2>1, <2>5, Afters DEF OrderInv, Working, Needed
    <2>6. CASE phase = "zk"
      BY <1>0, <2>1, <2>6, Afters DEF OrderInv, Working, Needed
    <2> QED BY <2>1, <2>2, <2>3, <2>4, <2>5, <2>6
  <1>2. CASE ConnectFails
    <2>1. phase' = "close" /\ UNCHANGED <<debug, aps, loopOn, inflight>>
            /\ phase \in {"es", "mongo", "redis", "email", "zk"}
      BY <1>2 DEF ConnectFails, EsUnreachable, RetriesExhausted,
                  EmailUnreachable, ZkUnreachable, schedVars
    <2> QED BY <2>1 DEF OrderInv, Working, Ends
  <1>3. CASE BootStep
    <2>1. phase \in {"repos", "wire", "members", "elect"} /\ phase' = After(phase)
            /\ UNCHANGED <<debug, open, aps, loopOn, inflight>>
      BY <1>3 DEF BootStep, schedVars
    <2>2. After(phase) \in {"wire", "members", "elect", "start"}
            /\ (After(phase) \in {"members", "elect"} => ~debug)
      BY <2>1, Afters DEF OrderInv
    <2> QED BY <1>0, <2>1, <2>2 DEF OrderInv, Working, Needed
  <1>4. CASE BootStepFails
    <2>1. phase \in {"repos", "members", "elect"} /\ phase' \in {"close", "shut"}
            /\ UNCHANGED <<debug, open, aps, loopOn, inflight>>
      BY <1>4 DEF BootStepFails, schedVars
    <2> QED BY <2>1 DEF OrderInv, Working, Needed, Ends
  <1>5. CASE StartScheduler
    <2>1. phase = "start" /\ phase' = "serve" /\ UNCHANGED <<debug, open, inflight>>
            /\ aps' \in BOOLEAN /\ loopOn' = ~debug
      BY <1>5 DEF StartScheduler, Start
    <2> QED BY <1>0, <2>1 DEF OrderInv, Working, Needed
  <1>6. CASE Terminate
    <2>1. phase \in {"serve", "shut"} /\ phase' = "stop" /\ loopOn' = FALSE
            /\ UNCHANGED <<debug, open, aps, inflight>>
      BY <1>6 DEF Terminate, ShutdownBegin
    <2> QED BY <2>1 DEF OrderInv, Working, Needed, Ends
  <1>7. CASE StopScheduler
    <2>1. phase = "stop" /\ phase' = "drain" /\ aps' = FALSE
            /\ UNCHANGED <<debug, open, loopOn, inflight>>
      BY <1>7 DEF StopScheduler, ShutdownScheduler
    <2> QED BY <2>1 DEF OrderInv, Working, Needed, Ends
  <1>8. CASE Drain
    <2>1. phase = "drain" /\ phase' = "leave" /\ inflight' = {}
            /\ UNCHANGED <<debug, open, aps, loopOn>>
      BY <1>8 DEF Drain, ShutdownDrain
    <2> QED BY <2>1 DEF OrderInv, Working, Needed, Ends
  <1>9. CASE Leave
    <2>1. phase = "leave" /\ phase' = "close"
            /\ UNCHANGED <<debug, open, aps, loopOn, inflight>>
      BY <1>9 DEF Leave, schedVars
    <2> QED BY <2>1 DEF OrderInv, Working, Ends
  <1>10. CASE CloseClient
    <2>1. phase = "close" /\ UNCHANGED <<debug, aps, loopOn, inflight>>
      BY <1>10 DEF CloseClient, schedVars
    <2>2. phase' = IF open' = {} THEN "exited" ELSE "close"
      BY <1>10 DEF CloseClient
    <2> QED BY <2>1, <2>2 DEF OrderInv, Working, Ends
  <1>11. CASE \/ ConnectRetry \/ ZkSuspended \/ ZkLost \/ ZkConnected \/ RecoveryEnds
              \/ \E ps \in SUBSET Process : ApplyAssignment(ps)
    <2>1. UNCHANGED <<debug, phase, open, aps, loopOn, inflight>>
      BY <1>11 DEF ConnectRetry, ZkSuspended, ZkLost, ZkConnected, RecoveryEnds,
                   ApplyAssignment, schedRest, schedVars
    <2> QED BY <2>1, OrderSame
  <1>12. CASE SchedSteps
    <2>1. UNCHANGED <<phase, open>>
      BY <1>12 DEF SchedSteps, podVars
    <2>2. CASE \E j \in Process \X Interval : JobStarts(j) \/ JobEnds(j)
      <3>1. UNCHANGED <<debug, aps, loopOn>> /\ (inflight' # {} => aps \/ inflight # {})
        BY <2>2 DEF JobStarts, JobEnds
      <3> QED BY <2>1, <3>1 DEF OrderInv, Needed
    <2>3. CASE \/ MutatorSteps \/ MutatorFails("mongo" \in open) \/ EditProfiles
               \/ CallReconcile \/ LoopTick
      <3>1. UNCHANGED <<debug, aps, loopOn, inflight>>
        BY <2>3 DEF MutatorSteps, ReloadBegins, ReconcileBegins, ReloadReads,
                    ReconcileReads, MutatorFails, EditProfiles, CallReconcile,
                    LoopTick
      <3> QED BY <2>1, <3>1, OrderSame
    <2> QED BY <1>12, <2>2, <2>3, Zenon DEF SchedSteps
  <1>13. CASE UNCHANGED vars
    BY <1>13, OrderSame DEF vars, schedVars, podVars
  <1> QED
    <2>1. CASE PodSteps
      BY <2>1, <1>1, <1>2, <1>3, <1>4, <1>5, <1>6, <1>7, <1>8, <1>9, <1>10,
         <1>11 DEF PodSteps
    <2> QED BY <2>1, <1>12, <1>13 DEF Next

LEMMA OrderInvariance == Spec => []OrderInv
  <1>1. Init => OrderInv
    BY Names DEF Init, SchedInit, OrderInv, Working
  <1>2. OrderInv /\ [Next]_vars => OrderInv'
    BY OrderStep
  <1> QED BY <1>1, <1>2, PTL DEF Spec

(* While a job runs, every client it may use is open, also when a          *)
(* reconnect resumes the jobs in the middle of the shutdown (main.py:197). *)
THEOREM JobsHaveClients == Spec => []NoJobWithoutClients
  <1>1. OrderInv => NoJobWithoutClients
    BY Names DEF OrderInv, NoJobWithoutClients, Working, Needed
  <1> QED BY <1>1, OrderInvariance, PTL

(* Whichever step of start-up fails, no client, job or loop outlives the   *)
(* pod (infra.py:95, main.py:197).                                         *)
THEOREM ExitIsClean == Spec => []NothingLeft
  <1>1. OrderInv => NothingLeft
    BY DEF OrderInv, NothingLeft
  <1> QED BY <1>1, OrderInvariance, PTL

-----------------------------------------------------------------------------
(* Types.  A recovery stands for a connection that came back, so no more   *)
(* of them run at once than connections were lost.                         *)
Away == IF zk \in {"suspended", "lost"} THEN 1 ELSE 0

FlagsOK == running \in BOOLEAN /\ paused \in BOOLEAN /\ lost \in BOOLEAN
BudgetOK == budget \in [edit : 0..MaxEdit, assign : 0..MaxAssign,
                        api : 0..MaxApi, fail : 0..MaxFail]
ClientsOK == open \subseteq Range(Clients) /\ tries \in 1..MaxTries
SetsOK == inflight \subseteq Process \X Interval /\ assigned \subseteq Process
FlapsOK ==
  /\ zk \in {"off", "connected", "suspended", "lost"}
  /\ recover \in Nat /\ flaps \in Nat /\ recover + Away + flaps <= MaxFlap

RestInv == FlagsOK /\ BudgetOK /\ ClientsOK /\ SetsOK /\ FlapsOK

LEMMA FlagsStep ==
  ASSUME FlagsOK, [Next]_vars PROVE FlagsOK'
  <1>1. CASE Connect \/ ConnectRetry \/ ConnectFails \/ BootStep \/ BootStepFails
             \/ StartScheduler \/ Leave \/ CloseClient
    BY <1>1 DEF FlagsOK, Connect, ConnectRetry, ConnectFails, BootStep,
                BootStepFails, StartScheduler, Start, Leave, CloseClient, schedVars
  <1>2. CASE Terminate \/ StopScheduler \/ Drain
    BY <1>2 DEF FlagsOK, Terminate, ShutdownBegin, StopScheduler,
                ShutdownScheduler, Drain, ShutdownDrain
  <1>3. CASE ZkSuspended \/ ZkLost \/ ZkConnected \/ RecoveryEnds
             \/ \E ps \in SUBSET Process : ApplyAssignment(ps)
    BY <1>3 DEF FlagsOK, ZkSuspended, ZkLost, ZkConnected, RecoveryEnds,
                ApplyAssignment, PauseAllJobs, ResumeJobsFor, schedRest
  <1>4. CASE SchedSteps
    BY <1>4 DEF FlagsOK, SchedSteps, podVars, MutatorSteps, ReloadBegins,
                ReconcileBegins, ReloadReads, ReconcileReads, MutatorFails,
                EditProfiles, CallReconcile, LoopTick, JobStarts, JobEnds
  <1>5. CASE UNCHANGED vars
    BY <1>5 DEF FlagsOK, vars, schedVars, podVars
  <1> QED BY <1>1, <1>2, <1>3, <1>4, <1>5 DEF Next, PodSteps

LEMMA BudgetStep ==
  ASSUME BudgetOK, [Next]_vars PROVE BudgetOK'
  <1>1. CASE Connect \/ ConnectRetry \/ ConnectFails \/ BootStep \/ BootStepFails
             \/ StartScheduler \/ Leave \/ CloseClient \/ UNCHANGED vars
    BY <1>1 DEF BudgetOK, Connect, ConnectRetry, ConnectFails, BootStep,
                BootStepFails, StartScheduler, Start, Leave, CloseClient,
                schedVars, vars
  <1>2. CASE Terminate \/ StopScheduler \/ Drain \/ ZkSuspended \/ ZkLost
             \/ ZkConnected \/ RecoveryEnds
    BY <1>2 DEF BudgetOK, Terminate, ShutdownBegin, StopScheduler,
                ShutdownScheduler, Drain, ShutdownDrain, ZkSuspended, ZkLost,
                ZkConnected, RecoveryEnds, schedRest
  <1>3. CASE \E ps \in SUBSET Process : ApplyAssignment(ps)
    <2>1. budget.assign > 0 /\ budget' = [budget EXCEPT !.assign = @ - 1]
      BY <1>3 DEF ApplyAssignment, CallReload
    <2> QED BY <2>1, SchedulerAssumption DEF BudgetOK
  <1>4. CASE CallReconcile
    <2>1. budget.api > 0 /\ budget' = [budget EXCEPT !.api = @ - 1]
      BY <1>4 DEF CallReconcile
    <2> QED BY <2>1, SchedulerAssumption DEF BudgetOK
  <1>5. CASE EditProfiles
    <2>1. budget.edit > 0 /\ budget' = [budget EXCEPT !.edit = @ - 1]
      BY <1>5 DEF EditProfiles
    <2> QED BY <2>1, SchedulerAssumption DEF BudgetOK
  <1>6. CASE MutatorFails("mongo" \in open)
    <2>1. \/ budget' = budget
          \/ budget.fail > 0 /\ budget' = [budget EXCEPT !.fail = @ - 1]
      BY <1>6 DEF MutatorFails
    <2> QED BY <2>1, SchedulerAssumption DEF BudgetOK
  <1>7. CASE MutatorSteps \/ LoopTick
             \/ \E j \in Process \X Interval : JobStarts(j) \/ JobEnds(j)
    BY <1>7 DEF BudgetOK, MutatorSteps, ReloadBegins, ReconcileBegins,
                ReloadReads, ReconcileReads, LoopTick, JobStarts, JobEnds
  <1>8. CASE SchedSteps
    BY <1>8, <1>4, <1>5, <1>6, <1>7, Zenon DEF SchedSteps
  <1> QED BY <1>1, <1>2, <1>3, <1>8 DEF Next, PodSteps

LEMMA ClientsStep ==
  ASSUME ClientsOK, [Next]_vars PROVE ClientsOK'
  <1>1. CASE Connect
    BY <1>1, PodAssumption DEF ClientsOK, Connect
  <1>2. CASE ConnectRetry
    BY <1>2, PodAssumption DEF ClientsOK, ConnectRetry
  <1>3. CASE ConnectFails
    <2>1. tries' = tries /\ (open' = open \/ open' \subseteq open \cup {"es", "email", "zk"})
      BY <1>3 DEF ConnectFails, EsUnreachable, RetriesExhausted, EmailUnreachable,
                  ZkUnreachable
    <2> QED BY <2>1, Names DEF ClientsOK
  <1>4. CASE CloseClient
    <2>1. tries' = tries /\ open' \subseteq open
      BY <1>4 DEF CloseClient
    <2> QED BY <2>1 DEF ClientsOK
  <1>5. CASE BootStep \/ BootStepFails \/ StartScheduler \/ Terminate
             \/ StopScheduler \/ Drain \/ Leave \/ ZkSuspended \/ ZkLost
             \/ ZkConnected \/ RecoveryEnds \/ SchedSteps \/ UNCHANGED vars
             \/ \E ps \in SUBSET Process : ApplyAssignment(ps)
    <2>1. UNCHANGED <<open, tries>>
      BY <1>5 DEF BootStep, BootStepFails, StartScheduler, Terminate,
                  StopScheduler, Drain, Leave, ZkSuspended, ZkLost, ZkConnected,
                  RecoveryEnds, SchedSteps, vars, podVars, ApplyAssignment
    <2> QED BY <2>1 DEF ClientsOK
  <1> QED BY <1>1, <1>2, <1>3, <1>4, <1>5 DEF Next, PodSteps

LEMMA SetsStep ==
  ASSUME SetsOK, [Next]_vars PROVE SetsOK'
  <1>1. CASE Connect \/ ConnectRetry \/ ConnectFails \/ BootStep \/ BootStepFails
             \/ StartScheduler \/ Leave \/ CloseClient \/ UNCHANGED vars
    BY <1>1 DEF SetsOK, Connect, ConnectRetry, ConnectFails, BootStep,
                BootStepFails, StartScheduler, Start, Leave, CloseClient,
                schedVars, podVars, vars
  <1>2. CASE Terminate \/ StopScheduler \/ Drain \/ ZkSuspended \/ ZkLost
             \/ ZkConnected \/ RecoveryEnds
    BY <1>2 DEF SetsOK, Terminate, ShutdownBegin, StopScheduler,
                ShutdownScheduler, Drain, ShutdownDrain, ZkSuspended, ZkLost,
                ZkConnected, RecoveryEnds, schedRest
  <1>3. CASE \E ps \in SUBSET Process : ApplyAssignment(ps)
    BY <1>3 DEF SetsOK, ApplyAssignment
  <1>4. CASE SchedSteps
    <2>1. assigned' = assigned
      BY <1>4 DEF SchedSteps, podVars
    <2>2. CASE \E j \in Process \X Interval : JobStarts(j) \/ JobEnds(j)
      BY <2>1, <2>2 DEF SetsOK, JobStarts, JobEnds
    <2>3. CASE \/ MutatorSteps \/ MutatorFails("mongo" \in open) \/ EditProfiles
               \/ CallReconcile \/ LoopTick
      BY <2>1, <2>3 DEF SetsOK, MutatorSteps, ReloadBegins, ReconcileBegins,
                        ReloadReads, ReconcileReads, MutatorFails, EditProfiles,
                        CallReconcile, LoopTick
    <2> QED BY <1>4, <2>2, <2>3, Zenon DEF SchedSteps
  <1> QED BY <1>1, <1>2, <1>3, <1>4 DEF Next, PodSteps

LEMMA FlapsStep ==
  ASSUME FlapsOK, [Next]_vars PROVE FlapsOK'
  <1> USE PodAssumption
  <1>1. CASE Connect
    BY <1>1 DEF FlapsOK, Away, Connect
  <1>2. CASE CloseClient
    <2>1. UNCHANGED <<recover, flaps>> /\ (zk' = zk \/ zk' = "off")
      BY <1>2 DEF CloseClient
    <2> QED BY <2>1 DEF FlapsOK, Away
  <1>3. CASE ZkSuspended
    BY <1>3 DEF FlapsOK, Away, ZkSuspended
  <1>4. CASE ZkLost
    BY <1>4 DEF FlapsOK, Away, ZkLost
  <1>5. CASE ZkConnected
    BY <1>5 DEF FlapsOK, Away, ZkConnected
  <1>6. CASE RecoveryEnds
    BY <1>6 DEF FlapsOK, Away, RecoveryEnds
  <1>7. CASE ConnectRetry \/ ConnectFails \/ BootStep \/ BootStepFails
             \/ StartScheduler \/ Terminate \/ StopScheduler \/ Drain \/ Leave
             \/ SchedSteps \/ UNCHANGED vars
             \/ \E ps \in SUBSET Process : ApplyAssignment(ps)
    <2>1. UNCHANGED <<zk, recover, flaps>>
      BY <1>7 DEF ConnectRetry, ConnectFails, BootStep, BootStepFails,
                  StartScheduler, Terminate, StopScheduler, Drain, Leave,
                  SchedSteps, vars, podVars, ApplyAssignment
    <2> QED BY <2>1 DEF FlapsOK, Away
  <1> QED BY <1>1, <1>2, <1>3, <1>4, <1>5, <1>6, <1>7 DEF Next, PodSteps

(* The variables of the pod and its scheduler keep their ranges; no more   *)
(* than MaxTries attempts to connect are made (infra.py).                  *)
THEOREM PodTypeCorrect == Spec => []TypeOK
  <1>1. Init => RestInv
    <2> SUFFICES ASSUME Init PROVE RestInv
      OBVIOUS
    <2>1. ClientsOK /\ SetsOK
      BY PodAssumption DEF Init, SchedInit, ClientsOK, SetsOK
    <2>2. FlagsOK
      BY DEF Init, SchedInit, FlagsOK
    <2>3. BudgetOK
      BY SchedulerAssumption DEF Init, SchedInit, BudgetOK
    <2>4. FlapsOK
      BY PodAssumption DEF Init, FlapsOK, Away
    <2> QED BY <2>1, <2>2, <2>3, <2>4 DEF RestInv
  <1>2. RestInv /\ [Next]_vars => RestInv'
    BY FlagsStep, BudgetStep, ClientsStep, SetsStep, FlapsStep DEF RestInv
  <1>3. TableInv /\ OrderInv /\ RestInv => TypeOK
    <2> SUFFICES ASSUME TableInv, OrderInv, RestInv
                 PROVE  TypeOK
      OBVIOUS
    <2>1. ProcessesToSchedule \subseteq Process
      BY SchedulerAssumption DEF ProcessesToSchedule, TableInv, DebugProcesses
    <2>2. jobs \subseteq Process \X Interval
      BY <2>1 DEF TableInv
    <2>3. SchedTypeOK
      BY <2>2 DEF SchedTypeOK, TableInv, QueueOK, OrderInv, RestInv, FlagsOK,
                  BudgetOK, SetsOK
    <2>4. recover \in 0..MaxFlap /\ flaps \in 0..MaxFlap
      BY PodAssumption DEF RestInv, FlapsOK, Away
    <2>5. PodTypeOK
      BY <2>4 DEF PodTypeOK, OrderInv, RestInv, FlagsOK, ClientsOK, SetsOK, FlapsOK
    <2> QED BY <2>3, <2>5 DEF TypeOK
  <1> QED BY <1>1, <1>2, <1>3, TableInvariance, OrderInvariance, PTL DEF Spec
=============================================================================
