------------------------- MODULE AnalysisScheduler --------------------------
(***************************************************************************)
(* AnalysisScheduler (scheduler/jobs): the table of interval jobs of one   *)
(* pod, the two coroutines that rewrite it (reload for a new assignment,   *)
(* reconcile for a new cadence) and the jobs in flight.                    *)
(*                                                                         *)
(* One action is what a coroutine does between two awaits on the event     *)
(* loop.  A coroutine awaits one Mongo read per process, so assignments,   *)
(* profile edits, pauses and shutdown land between its reads.              *)
(***************************************************************************)
EXTENDS Naturals, Sequences

CONSTANTS
  Process,     \* active processes of EQP_INFO
  Interval,    \* rule intervals, in minutes
  DebugNames,  \* settings.debug_processes; {}: every active process
  Unassigned,  \* _owned_processes is None
  MaxEdit,     \* bound: profile edits
  MaxAssign,   \* bound: assignments applied
  MaxApi,      \* bound: reconciles asked for over the API
  MaxFail      \* bound: failed Mongo reads

ASSUME SchedulerAssumption ==
  /\ DebugNames \subseteq Process
  /\ \A ps \in SUBSET Process : ps # Unassigned
  /\ MaxEdit \in Nat /\ MaxAssign \in Nat /\ MaxApi \in Nat /\ MaxFail \in Nat

VARIABLES
  debug,     \* settings.debug_read_only
  cadence,   \* Mongo: enabled rule intervals of each process
  running,   \* _running
  paused,    \* _paused
  aps,       \* APScheduler: it starts due jobs
  owned,     \* _owned_processes
  jobs,      \* APScheduler: registered (process, interval) jobs
  queue,     \* coroutines at _reconcile_lock, the first one holds it
  loopOn,    \* _reconcile_task is alive
  inflight,  \* _running_jobs
  budget     \* what is left of the bounds

schedVars == <<debug, cadence, running, paused, aps, owned, jobs, queue,
               loopOn, inflight, budget>>

-----------------------------------------------------------------------------
(* A coroutine that wants the lock or holds it: on whose behalf, the       *)
(* processes it has still to ask Mongo about and the jobs it found.        *)
Mutator == [by : {"reload", "loop", "api"}, procs : SUBSET Process,
            begun : BOOLEAN, todo : SUBSET Process,
            want : SUBSET (Process \X Interval)]

NewMutator(by, procs) ==
  [by |-> by, procs |-> procs, begun |-> FALSE, todo |-> {}, want |-> {}]

SchedTypeOK ==
  /\ debug \in BOOLEAN /\ cadence \in [Process -> SUBSET Interval]
  /\ running \in BOOLEAN /\ paused \in BOOLEAN /\ aps \in BOOLEAN
  /\ owned = Unassigned \/ owned \subseteq Process
  /\ jobs \subseteq Process \X Interval
  /\ queue \in Seq(Mutator)
  /\ loopOn \in BOOLEAN /\ inflight \subseteq Process \X Interval
  /\ budget \in [edit : 0..MaxEdit, assign : 0..MaxAssign,
                 api : 0..MaxApi, fail : 0..MaxFail]

SchedInit ==
  /\ debug \in BOOLEAN /\ cadence \in [Process -> SUBSET Interval]
  /\ running = FALSE /\ paused = FALSE /\ aps = FALSE
  /\ owned = Unassigned /\ jobs = {} /\ queue = <<>>
  /\ loopOn = FALSE /\ inflight = {}
  /\ budget = [edit |-> MaxEdit, assign |-> MaxAssign, api |-> MaxApi,
               fail |-> MaxFail]

-----------------------------------------------------------------------------
(* Life cycle.                                                             *)

(* start: a debug instance gets no periodic reconcile.                     *)
Start ==
  /\ aps' = TRUE /\ running' = TRUE /\ loopOn' = ~debug
  /\ UNCHANGED <<debug, cadence, paused, owned, jobs, queue, inflight, budget>>

PauseAllJobs == paused' = TRUE

(* resume_jobs_for: the list of processes it is given is only logged.      *)
ResumeJobsFor == paused' = FALSE

Without(s, n) == [k \in 1..(Len(s) - 1) |-> IF k < n THEN s[k] ELSE s[k + 1]]

(* shutdown up to the cancelled reconcile loop, which leaves the lock.     *)
ShutdownBegin ==
  /\ paused' = TRUE
  /\ loopOn' = FALSE
  /\ \/ \E n \in DOMAIN queue :
          queue[n].by = "loop" /\ queue' = Without(queue, n)
     \/ (\A n \in DOMAIN queue : queue[n].by # "loop") /\ queue' = queue
  /\ UNCHANGED <<debug, cadence, running, aps, owned, jobs, inflight, budget>>

(* shutdown up to the wait for the jobs in flight; APScheduler forgets its *)
(* jobs and starts none from here on.                                      *)
ShutdownScheduler ==
  /\ aps' = FALSE /\ running' = FALSE
  /\ jobs' = IF aps THEN {} ELSE jobs
  /\ UNCHANGED <<debug, cadence, paused, owned, queue, loopOn, inflight, budget>>

(* Mutant: the jobs that outlast the timeout are not cancelled.            *)
DrainWithoutCancel ==
  UNCHANGED schedVars

(* The rest of shutdown: what has not ended by the timeout is cancelled    *)
(* and awaited.                                                            *)
ShutdownDrain ==
  /\ inflight' = {}
  /\ UNCHANGED <<debug, cadence, running, paused, aps, owned, jobs, queue,
                 loopOn, budget>>

-----------------------------------------------------------------------------
(* Jobs.                                                                   *)

(* APScheduler starts a due job and _job_wrapper lets it through; one      *)
(* instance of a job runs at a time.                                       *)
JobStarts(j) ==
  /\ aps /\ ~paused /\ j \in jobs \ inflight
  /\ inflight' = inflight \cup {j}
  /\ UNCHANGED <<debug, cadence, running, paused, aps, owned, jobs, queue,
                 loopOn, budget>>

(* _job_wrapper ends: success, a failure that is counted, or cancellation. *)
JobEnds(j) ==
  /\ j \in inflight
  /\ inflight' = inflight \ {j}
  /\ UNCHANGED <<debug, cadence, running, paused, aps, owned, jobs, queue,
                 loopOn, budget>>

-----------------------------------------------------------------------------
(* The callers of the two mutators.                                        *)

(* Mutant: a reload that comes while another one waits is left out.        *)
CallReloadOnce(ps) ==
  /\ budget.assign > 0
  /\ budget' = [budget EXCEPT !.assign = @ - 1]
  /\ queue' = IF \E n \in DOMAIN queue : queue[n].by = "reload" THEN queue
              ELSE Append(queue, NewMutator("reload", ps))

(* _apply_assignment calls reload.                                         *)
CallReload(ps) ==
  /\ budget.assign > 0
  /\ budget' = [budget EXCEPT !.assign = @ - 1]
  /\ queue' = Append(queue, NewMutator("reload", ps))

(* POST /admin/scheduler/reload and the profile endpoints.                 *)
CallReconcile ==
  /\ budget.api > 0 /\ \A n \in DOMAIN queue : queue[n].by # "api"
  /\ budget' = [budget EXCEPT !.api = @ - 1]
  /\ queue' = Append(queue, NewMutator("api", {}))
  /\ UNCHANGED <<debug, cadence, running, paused, aps, owned, jobs, loopOn,
                 inflight>>

(* _reconcile_loop wakes up; it skips its turn while paused or stopped.    *)
LoopTick ==
  /\ loopOn /\ ~paused /\ running
  /\ \A n \in DOMAIN queue : queue[n].by # "loop"
  /\ queue' = Append(queue, NewMutator("loop", {}))
  /\ UNCHANGED <<debug, cadence, running, paused, aps, owned, jobs, loopOn,
                 inflight, budget>>

(* Somebody writes profiles: this pod or another one.                      *)
EditProfiles ==
  /\ budget.edit > 0
  /\ budget' = [budget EXCEPT !.edit = @ - 1]
  /\ \E p \in Process, s \in SUBSET Interval :
       s # cadence[p] /\ cadence' = [cadence EXCEPT ![p] = s]
  /\ UNCHANGED <<debug, running, paused, aps, owned, jobs, queue, loopOn,
                 inflight>>

-----------------------------------------------------------------------------
(* The mutators themselves.                                                *)

Holder == Head(queue)
JobsOf(p) == {p} \X cadence[p]

(* resolve_processes_for_debug.                                            *)
DebugProcesses == IF DebugNames = {} THEN Process ELSE DebugNames

(* _processes_to_schedule.                                                 *)
ProcessesToSchedule ==
  IF owned # Unassigned THEN owned
  ELSE IF debug THEN DebugProcesses ELSE {}

(* The coroutine goes on with its next read or leaves the lock.            *)
Continue(m) ==
  queue' = IF m.todo = {} THEN Tail(queue) ELSE [queue EXCEPT ![1] = m]

(* reload has the lock: the table is emptied and the processes are         *)
(* remembered before the first read.  It does not look at _running.        *)
ReloadBegins ==
  /\ queue # <<>> /\ Holder.by = "reload" /\ ~Holder.begun
  /\ jobs' = {} /\ owned' = Holder.procs
  /\ Continue([Holder EXCEPT !.begun = TRUE, !.todo = Holder.procs])
  /\ UNCHANGED <<debug, cadence, running, paused, aps, loopOn, inflight, budget>>

(* get_scheduling_intervals answers and the jobs of p are added.           *)
ReloadReads(p) ==
  /\ queue # <<>> /\ Holder.by = "reload" /\ p \in Holder.todo
  /\ jobs' = jobs \cup JobsOf(p)
  /\ Continue([Holder EXCEPT !.todo = @ \ {p}])
  /\ UNCHANGED <<debug, cadence, running, paused, aps, owned, loopOn, inflight,
                 budget>>

(* Mutant: reconcile plans while another mutator has the lock.             *)
ReconcileWithoutLock ==
  /\ queue # <<>> /\ Holder.by # "reload" /\ ~Holder.begun
  /\ LET go == ~paused /\ running
         todo == IF go THEN ProcessesToSchedule ELSE {}
         m == [Holder EXCEPT !.begun = TRUE, !.todo = todo]
     IN  queue' = IF todo = {} THEN Tail(queue) ELSE Append(Tail(queue), m)
  /\ UNCHANGED <<debug, cadence, running, paused, aps, owned, jobs, loopOn,
                 inflight, budget>>

(* reconcile has the lock: nothing to do while paused, stopped or without  *)
(* an assignment.  This is its only look at _paused and _running.          *)
ReconcileBegins ==
  /\ queue # <<>> /\ Holder.by # "reload" /\ ~Holder.begun
  /\ LET go == ~paused /\ running
     IN  Continue([Holder EXCEPT !.begun = TRUE,
                     !.todo = IF go THEN ProcessesToSchedule ELSE {}])
  /\ UNCHANGED <<debug, cadence, running, paused, aps, owned, jobs, loopOn,
                 inflight, budget>>

(* Mutant: reconcile only adds.                                            *)
ReconcileOnlyAdds(p) ==
  /\ queue # <<>> /\ Holder.by # "reload" /\ p \in Holder.todo
  /\ LET want == Holder.want \cup JobsOf(p)
         todo == Holder.todo \ {p}
     IN  /\ jobs' = IF todo = {} THEN jobs \cup want ELSE jobs
         /\ Continue([Holder EXCEPT !.todo = todo, !.want = want])
  /\ UNCHANGED <<debug, cadence, running, paused, aps, owned, loopOn, inflight,
                 budget>>

(* The same read in reconcile; after the last one the difference between   *)
(* the wanted jobs and the table is applied in one go.                     *)
ReconcileReads(p) ==
  /\ queue # <<>> /\ Holder.by # "reload" /\ p \in Holder.todo
  /\ LET want == Holder.want \cup JobsOf(p)
         todo == Holder.todo \ {p}
     IN  /\ jobs' = IF todo = {} THEN (jobs \ (jobs \ want)) \cup (want \ jobs)
                    ELSE jobs
         /\ Continue([Holder EXCEPT !.todo = todo, !.want = want])
  /\ UNCHANGED <<debug, cadence, running, paused, aps, owned, loopOn, inflight,
                 budget>>

(* A Mongo read raises: the coroutine ends where it is and frees the lock; *)
(* the loop logs the error and lives on.                                   *)
MutatorFails(mongoUp) ==
  /\ queue # <<>> /\ Holder.begun
  /\ \/ ~mongoUp /\ budget' = budget
     \/ /\ mongoUp /\ budget.fail > 0
        /\ budget' = [budget EXCEPT !.fail = @ - 1]
  /\ queue' = Tail(queue)
  /\ UNCHANGED <<debug, cadence, running, paused, aps, owned, jobs, loopOn,
                 inflight>>

MutatorSteps ==
  \/ ReloadBegins \/ ReconcileBegins
  \/ \E p \in Process : ReloadReads(p) \/ ReconcileReads(p)
=============================================================================
