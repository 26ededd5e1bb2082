--------------------------- MODULE RuleEvaluation ---------------------------
(***************************************************************************)
(* From samples to breaches to the mail (analyzer/engine, es/queries,      *)
(* es/client, analyzer/es_parser, analyzer/threshold, analyzer/alert_      *)
(* builder, alert/body_renderer): one process whose equipment stores       *)
(* samples in one Elasticsearch index a day, and the analysis that         *)
(* aggregates them over a trailing window, decides the rules of a tick and *)
(* writes one mail per group.                                              *)
(*                                                                         *)
(* Values are whole numbers of a unit, Digit of which make the last digit  *)
(* a mail shows, fine enough for averages to be whole too.  Percentiles    *)
(* are left out: Elasticsearch approximates them.                          *)
(***************************************************************************)
EXTENDS Integers, Sequences, FiniteSets, FiniteSetsExt, SequencesExt

CONSTANTS
  Sample,      \* what equipment may report: [eqp, proc, metric, value]
  EqpIds,      \* the equipment that shares the effective profile
  Null,        \* no value
  Measure,     \* the measures of the profile, by id
  Tick,        \* sets of rules that share an interval
  Pattern,     \* fnmatch: the metrics a pattern stands for
  Digit, DayLen, PositiveTtl, NegativeTtl, RowLimit,
  Horizon,     \* bound: time
  MaxSample,   \* bound: samples
  MaxFail      \* bound: calls that lose Elasticsearch

ASSUME EvaluationAssumption ==
  /\ {Digit, DayLen, RowLimit, NegativeTtl} \subseteq Nat \ {0}
  /\ {PositiveTtl, Horizon, MaxSample, MaxFail} \subseteq Nat
  /\ Null \notin Int /\ EqpIds \subseteq Int
  /\ \A s \in Sample : s.value \in Int \cup {Null}

(* is_implemented: the other facts are accepted and skipped.               *)
Implemented == {"max", "min", "avg", "last", "spike_count"}

(* What the schema and validate_effective ask of a condition.              *)
IsCondition(c) ==
  /\ c.measure \in DOMAIN Measure
  /\ c.fact \in {f.type : f \in Measure[c.measure].facts}
  /\ c.fact \in Implemented =>
       c.op \in {">=", ">", "<=", "<", "==", "!="} /\ c.value \in Int
  /\ c.quantifier \in {"any", "all", "count"}
  /\ c.quantifier = "count" => c.count_min \in Nat \ {0}

(* What they ask of a measure: one fact of a type, and a metric without    *)
(* wildcards, hence one of its category, unless it is expanded.            *)
IsMeasure(m) ==
  /\ m.window \in Int /\ IsFiniteSet(m.facts)
  /\ \A f, g \in m.facts : f.type = g.type => f = g
  /\ m.expand \in BOOLEAN
  /\ ~m.expand => \A x, y \in Pattern[m.metric] : x[1] = y[1] => x = y

(* What they ask of a rule: conditions, all on one process dimension.      *)
IsRule(r) ==
  /\ DOMAIN r.when \subseteq Nat /\ IsFiniteSet(DOMAIN r.when)
  /\ DOMAIN r.when # {}
  /\ \A k \in DOMAIN r.when : IsCondition(r.when[k])
  /\ \A j, k \in DOMAIN r.when :
       Measure[r.when[j].measure].proc = Measure[r.when[k].measure].proc

ASSUME ProfileAssumption ==
  /\ \A id \in DOMAIN Measure : IsMeasure(Measure[id])
  /\ \A tick \in Tick : IsFiniteSet(tick) /\ \A r \in tick : IsRule(r)

(* What a measure selects: category and process name.  "*" is any process. *)
Selects(m, r) == r.metric[1] = m.category /\ m.proc \in {"*", r.proc}

(* The unit is fine enough for the averages of as many samples as there    *)
(* may be.                                                                 *)
ASSUME UnitAssumption ==
  \A id \in DOMAIN Measure, s \in Sample, n \in 1..MaxSample :
    (\E f \in Measure[id].facts : f.type = "avg") /\ Selects(Measure[id], s)
      => s.value = Null \/ s.value = n * (s.value \div n)

VARIABLES
  now,       \* time, in minutes
  rows,      \* Elasticsearch: samples with their time
  names,     \* _metric_names_positive and _negative: [found, until] by key
  report,    \* what an analysis of rows at this time found
  failedAt,  \* history: when a lookup of names last failed, or Null
  left       \* what is left of the bounds

vars == <<now, rows, names, report, failedAt, left>>

NoFunction == [x \in {} |-> x]
Silent == [tick |-> {}, ok |-> FALSE, breaches |-> {}]

Init ==
  /\ now = DayLen - 1 /\ rows = {}
  /\ names = NoFunction /\ report = Silent /\ failedAt = Null
  /\ left = [sample |-> MaxSample, fail |-> MaxFail]

-----------------------------------------------------------------------------
(* Elasticsearch and its queries.                                          *)

Day(t) == t \div DayLen

(* resolve_index_range: the index of the day the window starts on and the  *)
(* one of today.                                                           *)
ResolveIndexRange(m) == {Day(now - m.window), Day(now)}

Exists(days) == \A d \in days : \E r \in rows : Day(r.time) = d

(* The key get_metric_names caches under, and its terms aggregation.       *)
Key(m) == <<ResolveIndexRange(m), m.category, m.proc>>
Discovered(m) ==
  {r.metric : r \in {x \in rows : Day(x.time) \in ResolveIndexRange(m)
                                    /\ Selects(m, x)}}

(* The documents a search aggregates: build_metric_aggregation_query.      *)
Hits(m, metrics) ==
  {r \in rows : /\ Day(r.time) \in ResolveIndexRange(m)
                /\ now - m.window <= r.time /\ r.time <= now
                /\ Selects(m, r) /\ r.metric \in metrics /\ r.eqp \in EqpIds}

(* The buckets: by equipment, by process name if the measure says "*", and *)
(* by metric if it stands for several.                                     *)
Target(m, r) == <<r.eqp, IF m.proc = "*" THEN r.proc ELSE m.proc>>
Instance(m, r) == IF m.expand THEN r.metric ELSE "all"

(* agg_strategy, and what _read_fact finds in a bucket of documents.       *)
FactValue(f, bucket) ==
  LET vs == {r \in bucket : r.value # Null}
      values == {r.value : r \in vs}
  IN  CASE f.type = "spike_count" ->
             Digit * Cardinality({r \in vs : IF f.direction = "above"
                                             THEN r.value >= f.over
                                             ELSE r.value <= f.over})
        [] f.type = "last" ->
             (CHOOSE r \in bucket : \A x \in bucket : x.time <= r.time).value
        [] OTHER ->
             IF vs = {} THEN Null
             ELSE CASE f.type = "max" -> Max(values)
                    [] f.type = "min" -> Min(values)
                    [] f.type = "avg" ->
                         MapThenSumSet(LAMBDA r : r.value, vs)
                           \div Cardinality(vs)

(* _compute_measure and parse_metric_aggregation: one reading, a value or  *)
(* Null, per target, fact and instance.  None for facts of later phases.   *)
ComputeMeasure(id, metrics) ==
  LET m == Measure[id]
      hits == Hits(m, metrics)
  IN  {[measure |-> id, target |-> b[1], instance |-> b[2], fact |-> f.type,
        value |-> FactValue(f, {r \in hits : <<Target(m, r), Instance(m, r)>> = b})] :
       b \in {<<Target(m, r), Instance(m, r)>> : r \in hits},
       f \in {x \in m.facts : x.type \in Implemented}}

-----------------------------------------------------------------------------
(* Rules.                                                                  *)

(* op_compare.                                                             *)
OpCompare(v, op, t) ==
  /\ v # Null
  /\ CASE op = ">=" -> v >= t [] op = ">" -> v > t [] op = "<=" -> v <= t
       [] op = "<" -> v < t [] op = "==" -> v = t [] op = "!=" -> v # t

Passing(c, readings) == {x \in readings : OpCompare(x.value, c.op, c.value)}

(* evaluate_condition: the quantifier over the instances with a value.     *)
Passed(c, readings) ==
  LET n == Cardinality(Passing(c, readings))
      present == {x \in readings : x.value # Null}
  IN  CASE c.quantifier = "any" -> n >= 1
        [] c.quantifier = "all" -> present # {} /\ n = Cardinality(present)
        [] c.quantifier = "count" -> n >= c.count_min

(* Mutant: the largest value, whatever the operator.                       *)
WorstIsLargest(op, values) == Max(values)

(* _worst: any of the values for an operator without a direction.          *)
Worst(op, values) ==
  CASE op \in {">=", ">"} -> Max(values)
    [] op \in {"<=", "<"} -> Min(values)
    [] OTHER -> CHOOSE v \in values : TRUE

(* evaluate_rule for the readings of one target.  The breach names the     *)
(* first condition that passed.                                            *)
EvaluateRule(r, t, readings) ==
  LET of(n) == {x \in readings : x.target = t /\ x.measure = r.when[n].measure
                                   /\ x.fact = r.when[n].fact}
      passed == {n \in DOMAIN r.when : Passed(r.when[n], of(n))}
      first == Min(passed)
      c == r.when[first]
  IN  IF (r.combine = "AND" /\ passed # DOMAIN r.when) \/ passed = {} THEN {}
      ELSE {[rule |-> r, target |-> t, cond |-> first,
             value |-> Worst(c.op, {x.value : x \in Passing(c, of(first))})]}

(* _evaluate_bucket: each rule at each target with readings (nothing       *)
(* passes where its own measures have none).                               *)
MeasuresOf(r) == {c.measure : c \in Range(r.when)}
EvaluateBucket(tick, readings) ==
  UNION {EvaluateRule(r, t, readings) :
         r \in tick, t \in {x.target : x \in readings}}

-----------------------------------------------------------------------------
(* The mail of a group: a channel that groups by process.                  *)

(* _round_display: to the last digit shown, half away from zero.           *)
RoundDisplay(v) ==
  IF v >= 0 THEN (v + Digit \div 2) \div Digit
  ELSE -((Digit \div 2 - v) \div Digit)

(* Mutant: the lowest value first.                                         *)
BeforeUpward(a, b) ==
  \/ RoundDisplay(a.value) < RoundDisplay(b.value)
  \/ RoundDisplay(a.value) = RoundDisplay(b.value) /\ a.target[1] < b.target[1]

(* The sort key: one severity per group, so the value decides, then the    *)
(* equipment.                                                              *)
Before(a, b) ==
  \/ RoundDisplay(a.value) > RoundDisplay(b.value)
  \/ RoundDisplay(a.value) = RoundDisplay(b.value) /\ a.target[1] < b.target[1]

(* order_rows.                                                             *)
OrderRows(members) ==
  CHOOSE s \in SetToSeqs(members) :
    \A i, j \in DOMAIN s : i < j => ~Before(s[j], s[i])

(* _dispatch without its cooldown: members by process name and severity,   *)
(* represented by the equipment that comes first.                          *)
GroupKey(b) == <<b.target[2], b.rule.severity>>
Representative(members) ==
  CHOOSE b \in members : \A x \in members : b.target[1] <= x.target[1]

(* _expand_erb: the rows up to the limit.                                  *)
Expand(lines) ==
  SubSeq(lines, 1, IF Len(lines) < RowLimit THEN Len(lines) ELSE RowLimit)

(* build_alert_request: the headline of the representative, the table and  *)
(* the number of rows it leaves out.                                       *)
Mail(members) ==
  LET lines == OrderRows(members)
  IN  [head |-> Representative(members), shown |-> Expand(lines),
       remaining |-> Len(lines) - Len(Expand(lines))]

-----------------------------------------------------------------------------
(* Steps.                                                                  *)

(* An equipment reports, each metric at most once a minute.                *)
Store(s) ==
  /\ left.sample > 0 /\ left' = [left EXCEPT !.sample = @ - 1]
  /\ \A r \in rows :
       <<r.eqp, r.proc, r.metric, r.time>> # <<s.eqp, s.proc, s.metric, now>>
  /\ rows' = rows \cup {[eqp |-> s.eqp, proc |-> s.proc, metric |-> s.metric,
                         value |-> s.value, time |-> now]}
  /\ report' = Silent
  /\ UNCHANGED <<now, names, failedAt>>

Minute ==
  /\ now < Horizon /\ now' = now + 1 /\ report' = Silent
  /\ UNCHANGED <<rows, names, failedAt, left>>

(* Mutant: an entry that is read lives on.                                 *)
LiveForever(cache) == DOMAIN cache

(* Keys of a cache whose time is not up.                                   *)
Live(cache) == {k \in DOMAIN cache : now < cache[k].until}

(* get_metric_names for each measure of ms: what is not cached is looked   *)
(* up.  Where Elasticsearch does not answer (down), or an index is not     *)
(* there yet, it is cached for a shorter time that there is nothing.       *)
Asked(ms) == {m \in ms : m.expand /\ Key(m) \notin Live(names)}
Lost(ms, down) == {m \in Asked(ms) : down \/ ~Exists(ResolveIndexRange(m))}

(* What is cached afterwards.                                              *)
LookUp(ms, down) ==
  [k \in {Key(m) : m \in Asked(ms)} \cup Live(names) |->
     IF k \in Live(names) THEN names[k]
     ELSE LET m == CHOOSE x \in Asked(ms) : Key(x) = k
          IN  IF m \in Lost(ms, down)
                THEN [found |-> {}, until |-> now + NegativeTtl]
                ELSE [found |-> Discovered(m), until |-> now + PositiveTtl]]

(* resolve_metric_patterns.                                                *)
Resolved(m, cache) ==
  IF m.expand THEN cache[Key(m)].found \cap Pattern[m.metric]
  ELSE Pattern[m.metric]

(* The measures _compute_measure asks Elasticsearch for.                   *)
Computed(tick) ==
  {i \in UNION {MeasuresOf(r) : r \in tick} :
     \E f \in Measure[i].facts : f.type \in Implemented}

(* _do_analysis for the rules of a tick, one measure after the other.  A   *)
(* search that fails, because of a fault or for want of an index, ends the *)
(* tick: done are the measures it has come to.                             *)
Analyse(tick, fault) ==
  LET ids == Computed(tick)
  IN  /\ fault # "none" => left.fail > 0
      /\ left' = [left EXCEPT !.fail = IF fault = "none" THEN @ ELSE @ - 1]
      /\ \E done \in SUBSET ids :
           LET ms == {Measure[i] : i \in done}
               cache == LookUp(ms, fault = "names")
               searched == {m \in ms : Resolved(m, cache) # {}}
               lacking == {m \in searched : ~Exists(ResolveIndexRange(m))}
               ok == fault # "search" /\ lacking = {}
           IN  /\ fault = "names" => Asked(ms) # {}
               /\ IF ok THEN done = ids ELSE \E m \in searched : lacking \subseteq {m}
               /\ names' = cache
               /\ failedAt' = IF Lost(ms, fault = "names") # {} THEN now
                              ELSE failedAt
               /\ report' = [tick |-> tick, ok |-> ok, breaches |->
                    IF ~ok THEN {}
                    ELSE EvaluateBucket(tick, UNION
                           {ComputeMeasure(i, Resolved(Measure[i], cache)) : i \in ids})]
      /\ UNCHANGED <<now, rows>>

Next ==
  \/ \E s \in Sample : Store(s)
  \/ Minute
  \/ \E tick \in Tick, fault \in {"none", "names", "search"} :
       Analyse(tick, fault)

Spec == Init /\ [][Next]_vars

-----------------------------------------------------------------------------
(* Properties.                                                             *)

(* What a condition means, straight from the samples of the window: those  *)
(* of an instance of a measure at a target, and when they satisfy a fact.  *)
Window(m, t, i) ==
  {r \in rows : /\ now - m.window <= r.time /\ r.time <= now
                /\ Selects(m, r) /\ r.metric \in Pattern[m.metric]
                /\ r.eqp = t[1] /\ (m.proc = "*" => r.proc = t[2])
                /\ (m.expand => r.metric = i)}
Valued(rs) == {r \in rs : r.value # Null}
HasData(f, rs) ==
  CASE f.type = "spike_count" -> rs # {}
    [] f.type = "last" ->
         \E r \in Valued(rs) : \A x \in rs : x.time <= r.time
    [] OTHER -> f.type \in Implemented /\ Valued(rs) # {}
Means(f, op, v, rs) ==
  CASE f.type = "max" ->
         \E r \in rs : /\ OpCompare(r.value, op, v)
                       /\ \A x \in Valued(rs) : x.value <= r.value
    [] f.type = "min" ->
         \E r \in rs : /\ OpCompare(r.value, op, v)
                       /\ \A x \in Valued(rs) : r.value <= x.value
    [] f.type = "avg" ->
         OpCompare(MapThenSumSet(LAMBDA r : r.value - v, Valued(rs)), op, 0)
    [] f.type = "last" ->
         \E r \in rs : OpCompare(r.value, op, v) /\ \A x \in rs : x.time <= r.time
    [] f.type = "spike_count" ->
         LET edge == IF f.direction = "above" THEN ">=" ELSE "<="
         IN  OpCompare(Digit * Cardinality({r \in rs :
                                               OpCompare(r.value, edge, f.over)}),
                       op, v)

(* The instances of a measure an analysis cannot have overlooked: reported *)
(* where the measure looks for longer than names are cached, with no       *)
(* failed lookup lately.                                                   *)
Settled(m) ==
  IF failedAt # Null /\ now < failedAt + NegativeTtl THEN {}
  ELSE {x.metric : x \in {y \in rows : y.time <= now - PositiveTtl
                                        /\ Day(y.time) \in ResolveIndexRange(m)
                                        /\ Selects(m, y)}}

(* A condition, if the instances in new are taken into account as well.    *)
Holds(c, t, new) ==
  LET m == Measure[c.measure]
      f == CHOOSE x \in m.facts : x.type = c.fact
      inst == {i \in (IF m.expand THEN Settled(m) \cup new ELSE {"all"}) :
                 HasData(f, Window(m, t, i))}
      sat == {i \in inst : Means(f, c.op, c.value, Window(m, t, i))}
  IN  CASE c.quantifier = "any" -> sat # {}
        [] c.quantifier = "all" -> inst # {} /\ sat = inst
        [] c.quantifier = "count" -> Cardinality(sat) >= c.count_min
Fires(r, t, new) ==
  IF r.combine = "AND"
  THEN \A c \in Range(r.when) : Holds(c, t, new[c.measure])
  ELSE \E c \in Range(r.when) : Holds(c, t, new[c.measure])

Targets(r) == EqpIds \X UNION {LET p == Measure[c.measure].proc
                               IN  IF p = "*" THEN {x.proc : x \in rows} ELSE {p} :
                               c \in Range(r.when)}
Overlooked(id) ==
  IF Measure[id].expand
  THEN SUBSET ({x.metric : x \in {y \in rows : Selects(Measure[id], y)}}
                 \ Settled(Measure[id]))
  ELSE {{}}

(* engine.py:148: an analysis that ends finds a rule breached at exactly   *)
(* the targets where the samples of the window say so: across midnight,    *)
(* for every quantifier, with values missing.  Instances that appeared in  *)
(* the indexes within the time names are cached, or all after a failed     *)
(* lookup, may be overlooked, and nothing else.                            *)
FiresAsDefined ==
  report.ok => \A r \in report.tick :
    LET ids == MeasuresOf(r)
        breached == {b.target : b \in {x \in report.breaches : x.rule = r}}
    IN  \E new \in [ids -> UNION {Overlooked(id) : id \in ids}] :
          /\ \A id \in ids : new[id] \in Overlooked(id)
          /\ breached = {t \in Targets(r) : Fires(r, t, new)}

(* threshold.py:65: the value a breach reports breaches the threshold it   *)
(* is shown with, and no instance of the same target is further out.       *)
ReportsWorst ==
  \A b \in report.breaches :
    LET c == b.rule.when[b.cond]
        m == Measure[c.measure]
        f == CHOOSE x \in m.facts : x.type = c.fact
        further(v) == \/ c.op \in {">", ">="} /\ OpCompare(v, ">", b.value)
                      \/ c.op \in {"<", "<="} /\ OpCompare(v, "<", b.value)
    IN  /\ OpCompare(b.value, c.op, c.value)
        /\ \A i \in (IF m.expand THEN Settled(m) ELSE {"all"}) :
             HasData(f, Window(m, b.target, i))
               => ~further(FactValue(f, Window(m, b.target, i)))

HighSide(b) == b.rule.when[b.cond].op \in {">", ">="}

(* body_renderer.py:186: a table cut to its limit leaves out no breach of  *)
(* a high-side rule that is worse than one it shows, and counts the rest.  *)
CapKeepsWorst ==
  \A k \in {GroupKey(b) : b \in report.breaches} :
    LET members == {b \in report.breaches : GroupKey(b) = k}
        mail == Mail(members)
    IN  /\ Len(mail.shown) + mail.remaining = Cardinality(members)
        /\ (\A b \in members : HighSide(b)) =>
             \A b \in members \ Range(mail.shown), x \in Range(mail.shown) :
               RoundDisplay(b.value) <= RoundDisplay(x.value)

(* docs/resource-monitor-email-template-architecture.md:190: the values at *)
(* the head of a mail are those of the worst member of its group; said     *)
(* here of members that breach the same condition.                         *)
HeadlineIsWorst ==
  \A k \in {GroupKey(b) : b \in report.breaches} :
    LET members == {b \in report.breaches : GroupKey(b) = k}
        head == Mail(members).head
    IN  \A b \in members :
          (b.rule = head.rule /\ b.cond = head.cond /\ HighSide(b))
            => b.value <= head.value

(* queries.py:117: the indexes that are searched cover the window.         *)
IndexCoversWindow ==
  \A id \in DOMAIN Measure : \A t \in (now - Measure[id].window)..now :
    Day(t) \in ResolveIndexRange(Measure[id])
=============================================================================
