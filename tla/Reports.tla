------------------------------- MODULE Reports -------------------------------
(***************************************************************************)
(* What tools/lakehouse-rebuild derives from the events of one file        *)
(* together: reports, trace summaries, funnels, cohorts and retention, and *)
(* the versions of these outputs that a file publishes.                    *)
(*                                                                         *)
(* A batch is the sequence of the events of a file, definitions a set.     *)
(* The bucket_seconds that a result only repeats are left out.             *)
(***************************************************************************)
EXTENDS Extraction, FiniteSetsExt

Least(S) == CHOOSE x \in S : \A y \in S : x <= y
Greatest(S) == CHOOSE x \in S : \A y \in S : y <= x

-------------------------------------------------------------------------------
(* The rules, of one output each.                                          *)

OutputRule(d, o) ==
    [definition |-> d, report |-> StringExpr(o, "report_id", d.name), dimensions |-> Dimensions(o)]

\* report_metrics_from_output
DefaultMetrics == <<[name |-> "events", op |-> "count"], [name |-> "errors", op |-> "error_count"]>>
Metrics(o) ==
    LET stated == Entry(o, "metrics", <<>>)
        Known(m) == m.name # NoText /\ Entry(m, "op", "count") \in {"count", "error_count", "count_errors", "sum"}
        kept == KeptAt(stated, {i \in DOMAIN stated : Known(stated[i])})
    IN  IF kept = <<>> THEN DefaultMetrics ELSE kept

ReportRule(d, o) == OutputRule(d, o) @@ ("metrics" :> Metrics(o))
ReportRules(D) ==
    UNION {{ReportRule(d, o) : o \in GeneralizedOutputs(d.config, "report_results")} :
           d \in {x \in D : x.kind = "report" /\ x.mode \notin {"trace_summary", "retention"}}}

TraceRule(d, o) == OutputRule(d, o) @@ ("seconds" :> Entry(o, "bucket_seconds", 60))
TraceRules(D) ==
    UNION {{TraceRule(d, o) : o \in GeneralizedOutputs(d.config, "report_results")} :
           d \in {x \in D : x.kind = "report" /\ x.mode = "trace_summary"}}

States(o, names) == \A name \in names : IsStringExpr(Entry(o, name, Absent))

RetentionRule(d, o) ==
    OutputRule(d, o) @@
        [cohort |-> o.cohort_id, entity_type |-> o.entity_type, entity_id |-> o.entity_id,
         seconds |-> Entry(o, "retention_bucket_seconds", Entry(o, "bucket_seconds", 86400))]
RetentionRules(D) ==
    UNION {{RetentionRule(d, o) : o \in {p \in GeneralizedOutputs(d.config, "report_results") :
                                            States(p, {"cohort_id", "entity_type", "entity_id"})}} :
           d \in {x \in D : x.kind = "report" /\ x.mode = "retention"}}

CohortRule(d, o) ==
    [definition |-> d, cohort |-> StringExpr(o, "cohort_id", d.name),
     entity_type |-> o.entity_type, entity_id |-> o.entity_id]
CohortRules(D) ==
    UNION {{CohortRule(d, o) : o \in {p \in GeneralizedOutputs(d.config, "cohort_memberships") :
                                        States(p, {"entity_type", "entity_id"})}} :
           d \in {x \in D : x.kind = "cohort"}}

\* sequence_steps_from_output; the entry "segment" of an output is not read.
SequenceSteps(o) ==
    LET stated == Entry(o, "steps", <<>>)
    IN  KeptAt(stated, {i \in DOMAIN stated : stated[i].name # NoText})

SequenceRule(d, o) == OutputRule(d, o) @@ [entity_id |-> o.entity_id, steps |-> SequenceSteps(o)]
SequenceRules(D) ==
    UNION {{SequenceRule(d, o) : o \in {p \in GeneralizedOutputs(d.config, "sequence_report_results") :
                                            SequenceSteps(p) # <<>> /\ States(p, {"entity_id"})}} :
           d \in {x \in D : x.kind = "sequence"}}

-------------------------------------------------------------------------------
(* A hit is an event of the batch with a rule it is for.                   *)

Hits(rules, batch) ==
    {h \in {[rule |-> r, i |-> i, event |-> batch[i]] : r \in rules, i \in DOMAIN batch} :
        /\ Applies(h.rule.definition, h.event)
        /\ \A name \in DOMAIN h.rule \intersect {"report", "cohort", "entity_type", "entity_id"} :
                EvalString(h.event.data, h.rule[name]) # NoText}

Of(h, name) == EvalString(h.event.data, h.rule[name])
Split(h) == DimensionObject(h.event.data, h.rule.dimensions)

\* What the rows of a report are told apart by.
ReportKey(h, dimensions) ==
    [tenant |-> h.rule.definition.tenant, report |-> Of(h, "report"), version |-> h.rule.definition.version,
     bucket |-> MinuteBucket(h.event.at), dimensions |-> dimensions]

\* report_result_rows
Increment(m, data) ==
    LET op == Entry(m, "op", "count")
        value == Entry(m, "value", Absent)
    IN  CASE op \in {"error_count", "count_errors"} -> {IF IsError(data) THEN 1 ELSE 0}
          [] op = "sum"   -> IF IsNumberExpr(value) THEN EvalNumber(data, value) ELSE {}
          [] OTHER        -> {1}

Counted(h) ==
    (UNION {{[hit |-> h, place |-> k, name |-> h.rule.metrics[k].name, n |-> n] :
                n \in Increment(h.rule.metrics[k], h.event.data)} : k \in DOMAIN h.rule.metrics})
    \union {[hit |-> h, place |-> 0, name |-> "source_events", n |-> 1]}

ReportRows(D, batch) ==
    LET hits == Hits(ReportRules(D), batch)
        Key(h) == ReportKey(h, Split(h))
        Sums(key) ==
            LET counted == UNION {Counted(h) : h \in {x \in hits : Key(x) = key}}
            IN  [name \in {c.name : c \in counted} |->
                    MapThenSumSet(LAMBDA c : c.n, {c \in counted : c.name = name})]
    IN  {[key |-> key, metrics |-> Sums(key)] : key \in {Key(h) : h \in hits}}

\* trace_report_result_rows: the first event gives the dimensions, the first
\* without a parent the name and the service of the root.
TraceRows(D, batch) ==
    LET Top(h, name) == Text(Field(h.event.data, <<name>>))
        Time(h, name) == LET stated == NumberOf(Field(h.event.data, <<name>>))
                         IN  IF stated = {} THEN h.event.at ELSE CHOOSE n \in stated : TRUE
        hits == {h \in Hits(TraceRules(D), batch) : Top(h, "trace_id") # NoText}
        Group(h) == <<ReportKey(h, <<>>), Top(h, "trace_id"), h.rule.seconds>>
        First(S) == CHOOSE h \in S : \A x \in S : h.i <= x.i
        Root(S, as, name) ==
            LET roots == {h \in S : Top(h, "parent_span_id") = NoText /\ Top(h, name) # NoText}
            IN  IF roots = {} THEN <<>> ELSE as :> Top(First(roots), name)
        Row(S) ==
            LET h == First(S)
                own == ("trace_id" :> Top(h, "trace_id")) @@ Split(h)
                start == Least({Time(x, "start_time") : x \in S})
                end == Greatest({Time(x, "end_time") : x \in S})
                errors == Cardinality({x \in S : IsError(x.event.data)})
            IN  [key |-> ReportKey(h, own @@ Root(S, "root_name", "name") @@ Root(S, "root_service", "service")),
                 metrics |-> [duration |-> IF end < start THEN 0 ELSE end - start, errors |-> errors,
                              event_count |-> Cardinality(S), source_events |-> Cardinality(S)]]
    IN  {Row({h \in hits : Group(h) = g}) : g \in {Group(h) : h \in hits}}

-------------------------------------------------------------------------------
(* sequence_report_result_rows.                                            *)

\* Mutant: sorted by the step alone.
ReachedByStep(matches) ==
    LET Before(a, b) == a.step < b.step
    IN  FoldLeft(LAMBDA reached, m : IF m.step = reached + 1 THEN reached + 1 ELSE reached,
                 0, SetToSortSeq(matches, Before))

\* How far the matches [at, step], taken in order, come through the steps.
Reached(matches) ==
    LET Before(a, b) == a.at < b.at \/ (a.at = b.at /\ a.step < b.step)
    IN  FoldLeft(LAMBDA reached, m : IF m.step = reached + 1 THEN reached + 1 ELSE reached,
                 0, SetToSortSeq(matches, Before))

SequenceCounts(rules, hits) ==
    LET Key(h) == ReportKey(h, Split(h))
        MatchesOf(key, entity) ==
            UNION {{[at |-> h.event.at, step |-> k, of |-> h.i] :
                        k \in {s \in DOMAIN h.rule.steps :
                                Matches(h.event.data, Entry(h.rule.steps[s], "match", {}))}} :
                   h \in {x \in hits : Key(x) = key /\ Of(x, "entity_id") = entity}}
        Depths(key) == [entity \in {Of(h, "entity_id") : h \in {x \in hits : Key(x) = key}} |->
                            Reached(MatchesOf(key, entity))]
        Count(depths, k) == Cardinality({entity \in DOMAIN depths : depths[entity] >= k})
        \* The names are those of a rule whose report is the same without an event.
        Named(key) == {r \in rules :
                        /\ EvalString(Obj(<<>>), r.report) = key.report
                        /\ r.definition.version = key.version}
        Name(key, k) == LET names == {r.steps[k].name : r \in {x \in Named(key) : k \in DOMAIN x.steps}}
                        IN  IF names = {} THEN "step_" \o ToString(k - 1) ELSE CHOOSE name \in names : TRUE
        Row(key, depths, k) ==
            [key |-> key, step |-> k, name |-> Name(key, k), entities |-> Count(depths, k),
             conversions |-> Count(depths, IF Count(depths, k + 1) = 0 THEN k ELSE k + 1)]
        RowsFor(key, depths) == {Row(key, depths, k) : k \in 1..Greatest(Range(depths))}
    IN  UNION {RowsFor(key, Depths(key)) : key \in {Key(h) : h \in hits}}

SequenceRows(D, batch) == SequenceCounts(SequenceRules(D), Hits(SequenceRules(D), batch))

-------------------------------------------------------------------------------
(* Cohorts and retention.                                                  *)

Membership(h) == [tenant |-> h.rule.definition.tenant, cohort |-> Of(h, "cohort"),
                  entity_type |-> Of(h, "entity_type"), entity |-> Of(h, "entity_id")]

\* cohort_membership_rows
CohortCounts(hits) ==
    LET Key(h) == Membership(h) @@ ("version" :> h.rule.definition.version)
        Times(key) == {h.event.at : h \in {x \in hits : Key(x) = key}}
    IN  {[key |-> key, first_seen |-> Least(Times(key)), last_seen |-> Greatest(Times(key))] :
            key \in {Key(h) : h \in hits}}

CohortRows(D, batch) == CohortCounts(Hits(CohortRules(D), batch))

WithoutVersion(row) == [name \in DOMAIN row.key \ {"version"} |-> row.key[name]]

\* retention_memberships_for_rows: what is stored is only looked up for the
\* entities that have no membership in the batch.
LookedUp(stored, own, hits) ==
    {row \in stored : WithoutVersion(row) \in {Membership(h) : h \in hits} \ {WithoutVersion(m) : m \in own}}

\* retention_report_result_rows: of the versions of a membership one counts, and
\* the size of a cohort is the number of its memberships at hand.
Joined(h, known) ==
    LET rows == {row \in known : WithoutVersion(row) = Membership(h)}
    IN  IF rows = {} THEN {} ELSE {(CHOOSE row \in rows : TRUE).first_seen}

RetentionCounts(hits, known) ==
    LET Elapsed(h) == h.event.at - (CHOOSE joined \in Joined(h, known) : TRUE)
        Window(h) == Elapsed(h) \div (IF h.rule.seconds < 1 THEN 1 ELSE h.rule.seconds)
        Key(h) == ReportKey(h, ("retention_bucket" :> ToString(Window(h))) @@ Split(h))
        Members(h) == {row.key.entity : row \in {x \in known : /\ x.key.cohort = Of(h, "cohort")
                                                               /\ x.key.entity_type = Of(h, "entity_type")
                                                               /\ x.key.tenant = h.rule.definition.tenant}}
        Row(first, retained) ==
            [key |-> Key(first),
             metrics |-> [retained_users |-> retained, source_events |-> retained,
                          cohort_size |-> Cardinality(Members(first))]]
        RowOf(S) == Row(CHOOSE h \in S : \A x \in S : h.i <= x.i, Cardinality({Of(h, "entity_id") : h \in S}))
    IN  {RowOf({h \in hits : Key(h) = key}) : key \in {Key(h) : h \in hits}}

RetainedHits(hits, known) == {h \in hits : \E joined \in Joined(h, known) : joined <= h.event.at}

RetentionFrom(hits, known) == RetentionCounts(RetainedHits(hits, known), known)

RetentionWith(hits, own, stored) == RetentionFrom(hits, own \union LookedUp(stored, own, hits))

RetentionRows(D, batch, stored) == RetentionWith(Hits(RetentionRules(D), batch), CohortRows(D, batch), stored)

-------------------------------------------------------------------------------
\* materialized_output_versions: what a file tells of the outputs it wrote.
OutputVersions(reports, sequences, cohorts) ==
    LET Told(type, id, key, start, end) ==
            [target |-> <<type, key.tenant, id, key.version>>, start |-> start, end |-> end]
        told == {Told("report", row.key.report, row.key, row.key.bucket, row.key.bucket) @@ ("of" :> row) :
                    row \in reports}
                \union {Told("sequence", row.key.report, row.key, row.key.bucket, row.key.bucket) @@ ("of" :> row) :
                    row \in sequences}
                \union {Told("cohort", row.key.cohort, row.key, row.first_seen, row.last_seen) @@ ("of" :> row) :
                    row \in cohorts}
        Version(S) == [target |-> (CHOOSE x \in S : TRUE).target, rows |-> Cardinality(S),
                       start |-> Least({x.start : x \in S}), end |-> Greatest({x.end : x \in S})]
    IN  {Version({x \in told : x.target = target}) : target \in {x.target : x \in told}}
===============================================================================
