--------------------------- MODULE MCAnalysisLock ---------------------------
(***************************************************************************)
(* AnalysisLock for TLC: a job is an <<instance, process, interval>>.      *)
(***************************************************************************)
EXTENDS AnalysisLock

(* Two instances that both run jobs for the same two processes, as they do *)
(* while a redistribution is under way.                                    *)
CrossedTask == {<<i, p, 5>> : i \in 1..2, p \in 1..2}

(* One process, with two cadences on the first instance.                   *)
CadenceTask == {<<1, 1, 5>>, <<1, 1, 10>>, <<2, 1, 5>>}

HostOf == [t \in Task |-> t[1]]
TargetOf == [t \in Task |-> t[2]]
=============================================================================
