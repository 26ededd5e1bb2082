------------------------- MODULE MCRuleEvaluation ---------------------------
(* Two equipments, a processor, two drives and a program, and rules of     *)
(* every kind, for TLC.                                                    *)
EXTENDS RuleEvaluation, TLC

Cpu == <<"cpu", "used">>
Disk(d) == <<"disk", d>>

S(e, pr, m, v) == [eqp |-> e, proc |-> pr, metric |-> m, value |-> v]
MCSample ==
  {S(1, "@system", Cpu, 0), S(1, "@system", Cpu, 6), S(2, "@system", Cpu, 12),
   S(1, "app", Cpu, 6), S(1, "app", Disk("c"), 6), S(1, "@system", Disk("c"), 6),
   S(1, "@system", Disk("d"), 3), S(1, "@system", Disk("d"), Null)}

F(type) == [type |-> type]
Spike(over, dir) == [type |-> "spike_count", over |-> over, direction |-> dir]
M(cat, metric, pr, w, x, facts) ==
  [category |-> cat, metric |-> metric, proc |-> pr, window |-> w,
   expand |-> x, facts |-> facts]
MCMeasure ==
  "cpu" :> M("cpu", "used", "@system", 1, FALSE,
             {F("max"), F("min"), F("avg"), Spike(6, "above"), F("delta")})
  @@ "disk" :> M("disk", "*", "@system", 2, TRUE, {F("last"), F("max")})
  @@ "each" :> M("cpu", "used", "*", 1, FALSE, {F("last")})
MCPattern == "used" :> {Cpu} @@ "*" :> {Disk("c"), Disk("d")}

C(m, f, op, v, q) == [measure |-> m, fact |-> f, op |-> op, value |-> v,
                      quantifier |-> q, count_min |-> 2]
R(id, sev, comb, when) ==
  [id |-> id, severity |-> sev, combine |-> comb, when |-> when]
MCTick ==
  {{R("avg", "WARNING", "AND", <<C("cpu", "avg", ">", 2, "any")>>),
    R("spike", "WARNING", "AND", <<C("cpu", "spike_count", ">=", 6, "any")>>),
    R("idle", "WARNING", "OR", <<C("cpu", "min", "==", 0, "any"),
                                 C("disk", "max", ">=", 3, "count"),
                                 C("cpu", "delta", ">", 0, "any")>>),
    R("full", "CRITICAL", "AND", <<C("disk", "last", "<=", 6, "all"),
                                   C("cpu", "max", "<=", 6, "any")>>),
    R("each", "CRITICAL", "AND", <<C("each", "last", "!=", 0, "any")>>)}}
=============================================================================
