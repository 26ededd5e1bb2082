------------------------------ MODULE JobTable ------------------------------
(***************************************************************************)
(* What AnalysisScheduler promises about its job table, whatever the       *)
(* coroutines that maintain it do: a job belongs to a process this         *)
(* instance is responsible for, a change of responsibility starts from an  *)
(* empty table, and a job carries an interval some profile asks for.       *)
(***************************************************************************)
CONSTANTS Process, Interval

VARIABLES mine,   \* processes this instance is responsible for
          table   \* registered (process, interval) jobs

vars == <<mine, table>>

Init == mine \subseteq Process /\ table = {}

(* An assignment arrives.                                                  *)
Assign(ps) == mine' = ps /\ table' = {}

(* Jobs are registered or dropped for the processes held now.              *)
Register == mine' = mine /\ table' \in SUBSET (mine \X Interval)

Next == (\E ps \in SUBSET Process : Assign(ps)) \/ Register

Spec == Init /\ [][Next]_vars
=============================================================================
