-------------------------- MODULE MCAlertDispatch ---------------------------
(* Two pods, two equipment of one model and one without, for TLC.  A group *)
(* mail with its escalation at one interval, a per-equipment mail at       *)
(* another; a disabled rule, a missing channel, an unprofiled equipment,   *)
(* a channel whose cooldown is 0.                                          *)
EXTENDS AlertDispatch

CONSTANTS p, q

Rule(id, iv, on, sev, ch) ==
  [id |-> id, interval |-> iv, enabled |-> on, severity |-> sev, notify |-> ch,
   proc |-> "main"]

Standard(n) ==
  [enabled |-> TRUE,
   rules |-> {Rule("warn", 5, TRUE, "WARNING", "team"),
              Rule("crit", 5, TRUE, "CRITICAL", "team")},
   notify |-> [team |-> [groupBy |-> "model", minutes |-> n]]]
Special(n) ==
  [enabled |-> TRUE,
   rules |-> {Rule("warn", 5, TRUE, "WARNING", "team"),
              Rule("mute", 5, FALSE, "WARNING", "team"),
              Rule("gone", 5, TRUE, "WARNING", "nobody")},
   notify |-> [team |-> [groupBy |-> "model", minutes |-> n]]]

MCPod == {p, q}
Faults(o, s, r, c, l, x) ==
  [outage |-> o, send |-> s, restart |-> r, clear |-> c, lose |-> l, raise |-> x]
MCScenario == {[debug |-> {}, left |-> Faults(1, 0, 1, 0, 0, FALSE)],
               [debug |-> {}, left |-> Faults(1, 0, 0, 1, 0, FALSE)],
               [debug |-> {}, left |-> Faults(0, 2, 0, 0, 0, TRUE)],
               [debug |-> {}, left |-> Faults(0, 0, 0, 0, 1, FALSE)],
               [debug |-> {q}, left |-> Faults(0, 0, 0, 0, 0, FALSE)]}
MCEqp == {"e1", "e2", "e3"}
MCInterval == {5}
MCModelOf == [e \in MCEqp |-> IF e = "e3" THEN NoModel ELSE "m1"]
MCProfileOf == [e1 |-> Standard(1), e2 |-> Special(0), e3 |-> NoProfile]

MCLongProfileOf == [e1 |-> Standard(1), e2 |-> Special(2), e3 |-> NoProfile]

(* Nothing but one outage: no cooldown is cleared by hand, and none is     *)
(* shorter than the life of a local entry.                                 *)
MCOutage == {[debug |-> {}, left |-> Faults(1, 0, 0, 0, 0, FALSE)]}
=============================================================================
