--------------------------- MODULE ProfileCascade ---------------------------
(***************************************************************************)
(* The cascade of monitoring profiles (db/models, and the queries of       *)
(* db/repository): which scope documents cover an equipment, how they fold *)
(* into the effective profile it runs, when that profile is sound, and     *)
(* which job intervals a process needs.                                    *)
(*                                                                         *)
(* A body is what a document says: enabled, and its measures, rules and    *)
(* notify channels as functions from their ids.                            *)
(***************************************************************************)
EXTENDS Naturals, Sequences, FiniteSets

LOCAL INSTANCE Functions

CONSTANTS
  Scope,    \* triples <<process, model, equipment>>, "*" as a wildcard
  Absent    \* no document

-----------------------------------------------------------------------------
(* _specificity_rank and _rank.                                            *)
Rank(s) == IF s[1] = "*" THEN 0 ELSE IF s[2] = "*" THEN 1
           ELSE IF s[3] = "*" THEN 2 ELSE 3

(* _cascade_triples: the scopes whose documents s inherits from, s itself  *)
(* included, the broadest first.                                           *)
Cascade(s) ==
  SubSeq(<<<<"*", "*", "*">>, <<s[1], "*", "*">>, <<s[1], s[2], "*">>, s>>,
         1, Rank(s) + 1)

(* Wildcards from the right only: other scopes are never resolved.         *)
ASSUME ScopeAssumption == \A s \in Scope : Cascade(s)[Rank(s) + 1] = s

(* collect_scope_docs: the bodies found there, in the order of their rank, *)
(* Absent for a scope without a document.                                  *)
Collected(body, s) ==
  [n \in 1..(Rank(s) + 1) |->
     IF Cascade(s)[n] \in DOMAIN body THEN body[Cascade(s)[n]] ELSE Absent]

-----------------------------------------------------------------------------
NoFunction == [x \in {} |-> x]

(* A dictionary with the entries of another put on top.                    *)
Updated(old, new) == [x \in DOMAIN old \cup DOMAIN new |->
                        IF x \in DOMAIN new THEN new[x] ELSE old[x]]

Nothing ==
  [measures |-> NoFunction, rules |-> NoFunction, notify |-> NoFunction]

(* Mutant: one disabled document anywhere switches the whole profile off.  *)
FoldStepAndsEnabled(acc, d) ==
  [measures |-> Updated(acc.measures, d.measures),
   notify   |-> Updated(acc.notify, d.notify),
   rules    |-> LET all == Updated(acc.rules, d.rules)
                IN  [r \in DOMAIN all |->
                       [all[r] EXCEPT !.enabled = d.enabled /\ @]]]

(* One document on top of the broader ones: whole objects are replaced by  *)
(* id, and a rule carries the enabled flag of the document it came from.   *)
FoldStep(acc, d) ==
  [measures |-> Updated(acc.measures, d.measures),
   notify   |-> Updated(acc.notify, d.notify),
   rules    |-> Updated(acc.rules,
                  [r \in DOMAIN d.rules |->
                     [d.rules[r] EXCEPT !.enabled = d.enabled /\ @]])]

(* fold_profiles.                                                          *)
FoldProfiles(bodies) ==
  LET f[n \in 0..Len(bodies)] ==
        IF n = 0 THEN Nothing
        ELSE IF bodies[n] = Absent THEN f[n - 1]
        ELSE FoldStep(f[n - 1], bodies[n])
  IN  f[Len(bodies)]

(* resolve_profile without its cache.                                      *)
Effective(body, s) ==
  IF \A n \in 1..(Rank(s) + 1) : Collected(body, s)[n] = Absent THEN Absent
  ELSE LET f == FoldProfiles(Collected(body, s))
       IN  [enabled |-> \E r \in DOMAIN f.rules : f.rules[r].enabled,
            measures |-> f.measures, rules |-> f.rules, notify |-> f.notify]

Active(prof) == {r \in DOMAIN prof.rules : prof.rules[r].enabled}

-----------------------------------------------------------------------------
(* fact_catalog.ALLOWED_OPS, by kind of fact.                              *)
High == {">", ">="}
Low == {"<", "<="}
AllowedOps(fact) ==
  CASE fact \in {"max", "spike_count", "duration", "zscore"} -> High
    [] fact = "min" -> Low \cup {"=="}
    [] fact = "last" -> High \cup Low \cup {"==", "!="}
    [] fact = "delta" -> High \cup Low \cup {"!="}
    [] fact = "trend" -> {"trend=="}
    [] fact \in {"avg", "p50", "p90", "p95", "p99", "growth_rate", "moving_avg",
                 "baseline_dev"} -> High \cup Low

(* validate_effective finds nothing.  A condition names a measure, a fact  *)
(* and an operator.                                                        *)
Sound(f) ==
  \A r \in Range(f.rules) :
    /\ r.notify \in DOMAIN f.notify
    /\ \A c \in r.when :
         /\ c.measure \in DOMAIN f.measures
         /\ c.fact \in f.measures[c.measure].facts
         /\ c.op \in AllowedOps(c.fact)
         /\ r.interval <= f.measures[c.measure].window
    /\ Cardinality({f.measures[c.measure].proc : c \in r.when}) <= 1

(* Mutant: the intervals of the profile of the process as a whole.         *)
IntervalsOfProcessProfile(body, process) ==
  LET f == FoldProfiles(Collected(body, <<process, "*", "*">>))
  IN  {f.rules[r].interval : r \in Active(f)}

(* get_scheduling_intervals: enabled rules of enabled documents, at any    *)
(* scope of the process or of all processes.                               *)
SchedulingIntervals(body, process) ==
  UNION {{body[s].rules[r].interval : r \in Active(body[s])} :
         s \in {t \in DOMAIN body : t[1] \in {process, "*"} /\ body[t] # Absent
                                      /\ body[t].enabled}}
=============================================================================
