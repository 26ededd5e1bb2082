-------------------------- MODULE MCProfileStore ----------------------------
(* Three scopes, one above the other, one rule and one measure that may    *)
(* live in any of them, for TLC.                                           *)
EXTENDS ProfileStore, TLC

CONSTANTS p1, p2, ann, bob

MCScope == {<<"*", "*", "*">>, <<"etch", "*", "*">>, <<"etch", "m", "e1">>}
MCEquipment == {<<"etch", "m", "e1">>}
MCPod == {p1, p2}
MCClient == {ann, bob}

Rule(iv, on) == [interval |-> iv, enabled |-> on, notify |-> "team",
  when |-> {[measure |-> "cpu", fact |-> "max", op |-> ">="]}]
Measure(w) == [window |-> w, facts |-> {"max"}, proc |-> "@system"]
Overlay(on, ms, rs, ch) ==
  [enabled |-> on, measures |-> ms, rules |-> rs, notify |-> ch]

Root == <<"*", "*", "*">>
Base == Overlay(TRUE, "cpu" :> Measure(10), "hot" :> Rule(10, TRUE), "team" :> 30)
Mute(on) == Overlay(on, NoFunction, "hot" :> Rule(5, on), NoFunction)
MCStored == {NoFunction, Root :> Base,
             Root :> Base @@ <<"etch", "*", "*">> :> Mute(FALSE),
             Root :> Base @@ <<"etch", "m", "e1">> :> Mute(TRUE)}

MCEdit ==
  {[op |-> "create", body |-> Mute(TRUE)],
   [op |-> "create", body |-> [Mute(TRUE) EXCEPT !.enabled = FALSE]],
   [op |-> "replace",
    body |-> [Base EXCEPT !.enabled = FALSE, !.rules = "hot" :> Rule(5, TRUE),
                          !.measures = "cpu" :> Measure(5)]],
   [op |-> "delete"],
   [op |-> "add", part |-> "rules", id |-> "full", value |-> Rule(10, TRUE)],
   [op |-> "update", part |-> "rules", id |-> "hot", value |-> Rule(10, FALSE)],
   [op |-> "remove", part |-> "measures", id |-> "cpu"],
   [op |-> "put", part |-> "notify", id |-> "team", value |-> 60]}
=============================================================================
