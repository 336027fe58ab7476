---------------------------- MODULE ServingTables ----------------------------
(***************************************************************************)
(* The serving tables that definitions fill, from the request that creates *)
(* a definition to the structured reads: apps/server accepts it and fills  *)
(* its tables from the events by SQL, tools/lakehouse-rebuild derives rows *)
(* from every file it loads, ClickHouse merges and aggregates them, and    *)
(* crates/read answers from them.                                          *)
(*                                                                         *)
(* Each table is a set of rows, each with the number of its insert.  That  *)
(* an insert of the materializer is tried again under its token, and when  *)
(* a watermark moves, is left to ServingMaterializer.                      *)
(***************************************************************************)
EXTENDS BackfillSql, DefinitionConfig, Reports, AlertRules

CONSTANTS Requests,       \* requests for a definition [kind, mode, name, config]
          Files,          \* files of the lakehouse
          BatchOf,        \* their events, a sequence for each
          TenantOf,       \* the tenant that asks
          Namespaces,     \* token namespaces of the materializer
          MaxDefinitions, MaxLoads, MaxBackfills

\* The lists of an output are JSON arrays.
IsList(x) == x \in Seq(Range(x))
ListsOf(o) ==
    {Entry(o, name, <<>>) : name \in {"steps", "dimensions"}}
    \union {s.dimensions : s \in Entry(o, "dimension_sets", {})}

ASSUME ListsAssumption ==
    \A q \in Requests : \A o \in Entry(q.config, "outputs", {}) : \A x \in ListsOf(o) : IsList(x)

ASSUME FilesAssumption ==
    \A file \in Files :
        IsList(BatchOf[file]) /\ \A e \in Range(BatchOf[file]) : e.data.t = "obj" /\ e.at \in Nat

VARIABLES definitions,    \* the active definitions, with their versions
          tableRows,      \* the rows of each table
          rolled,         \* the bag of what the aggregating tables have counted
          loads,          \* files loaded: [file, namespace, definitions]
          published,      \* the newest version told of each output
          inserts,        \* number of inserts
          filling,        \* the definition whose current states are not yet filled
          backfills,      \* number of backfills
          unfilled        \* whether a backfill ended between its two inserts

tablesVars == <<definitions, tableRows, rolled, loads, published, inserts, filling, backfills, unfilled>>

Nothing == [id |-> "nothing"]

TableNames == {"field_index", "event_measures", "measure_cube_points", "entity_state_updates",
           "entity_state_current", "report_results", "sequence_report_results", "cohort_memberships"}

-------------------------------------------------------------------------------
(* ClickHouse, external: what the engine of each table keeps.              *)

\* ORDER BY
Key(t, row) ==
    CASE t = "field_index" -> <<row.mode, row.field, row.value, row.at, row.event, row.source.id>>
      [] t = "event_measures" -> <<row.source, row.measure, row.dimension, row.at, row.event>>
      [] t = "measure_cube_points" -> <<row.source, row.measure, row.set, row.dimensions, row.at, row.event>>
      [] t = "entity_state_updates" ->
            <<row.entity_type, row.entity_id, row.state, row.at, row.event, row.source.id>>
      [] t = "entity_state_current" -> <<row.entity_type, row.entity_id, row.state>>
      [] t = "sequence_report_results" -> <<row.key, row.step>>
      [] OTHER -> <<row.key>>

\* Mutant: the engine of the current states has no version column.
NewerInsert(t, a, b) == a.insert >= b.insert

\* Of two rows with one key a merge keeps the later insert, and the newer state.
Newer(t, a, b) ==
    IF t = "entity_state_current" /\ a.row.at # b.row.at THEN a.row.at > b.row.at ELSE a.insert >= b.insert

Merged(t, kept) ==
    {a \in kept : \A b \in kept : Key(t, a.row) = Key(t, b.row) => Newer(t, a, b)}

\* The materialized views count every inserted row, and so do the metric rollups.
RollupKey(t, row) ==
    IF t = "event_measures"
    THEN [table |-> "measure_rollups", id |-> row.source.id, measure |-> row.measure, unit |-> row.unit,
          bucket |-> row.bucket, seconds |-> row.seconds, dimension |-> row.dimension]
    ELSE [table |-> "measure_cube_rollups", id |-> row.source.id, measure |-> row.measure, unit |-> row.unit,
          bucket |-> row.bucket, seconds |-> row.seconds, set |-> row.set, dimensions |-> row.dimensions]

Rolled(fresh) ==
    LET keys(t) == {RollupKey(t, row) : row \in fresh[t]}
        count(t, key) == Cardinality({row \in fresh[t] : RollupKey(t, row) = key})
        of(t) == [key \in keys(t) |-> count(t, key)]
    IN  of("event_measures") (+) of("measure_cube_points")

Insert(fresh) ==
    /\ inserts' = inserts + 1
    /\ tableRows' = [t \in TableNames |->
                        tableRows[t] \union {[row |-> row, insert |-> inserts + 1] : row \in fresh[t]}]

NoRows == [t \in TableNames |-> {}]

-------------------------------------------------------------------------------
(* What the materializer derives from a file.                              *)

OfKinds(D, kinds) == {d \in D : d.kind \in kinds}

\* from_records and the loops of materialize_rows.  The definitions of fields
\* come in the order of the query, which states none.
Derived(D, order, batch, stored) ==
    LET each(Rows(_, _), kinds) == UNION {Rows(d, e) : d \in OfKinds(D, kinds), e \in Range(batch)}
        updates == each(StateUpdateRows, {"state"})
    IN  [field_index |-> UNION {FieldIndexRows(order, e) : e \in Range(batch)},
         event_measures |-> each(EventMeasureRows, {"measure", "rollup"}),
         measure_cube_points |-> each(CubePointRows, {"measure", "rollup"}),
         entity_state_updates |-> updates,
         entity_state_current |-> updates,
         report_results |-> ReportRows(D, batch) \union TraceRows(D, batch) \union RetentionRows(D, batch, stored),
         sequence_report_results |-> SequenceRows(D, batch),
         cohort_memberships |-> CohortRows(D, batch)]

\* The metric rollups of a file, counted per event.
MetricCounts(D, batch) ==
    LET cells == UNION {{[of |-> i, key |-> row] : row \in MetricRollupRows(d, batch[i])} :
                        i \in DOMAIN batch, d \in OfKinds(D, {"metric_rollup"})}
    IN  [key \in {c.key : c \in cells} |-> Cardinality({c \in cells : c.key = key})]

-------------------------------------------------------------------------------
TablesInit ==
    /\ definitions = {}
    /\ tableRows = NoRows
    /\ rolled = EmptyBag
    /\ loads = {}
    /\ published = <<>>
    /\ inserts = 0
    /\ filling = Nothing
    /\ backfills = 0
    /\ unfilled = FALSE

\* create: the version is newer than that of every definition before it.
RecordOf(q, version) ==
    [tenant |-> TenantOf, id |-> q.id, version |-> version, name |-> q.name, kind |-> q.kind, mode |-> Mode(q),
     config |-> Normalized(q)]

Create(q) ==
    /\ Cardinality(definitions) < MaxDefinitions
    /\ Accepts(q)
    /\ \A d \in definitions : d.id # q.id
    /\ definitions' = definitions \union {RecordOf(q, Cardinality(definitions) + 1)}
    /\ UNCHANGED <<tableRows, rolled, loads, published, inserts, filling, backfills, unfilled>>

\* materialize_rows for a file and record_materialized_commit.
Newest(told) ==
    [target \in {SubSeq(v.target, 1, 3) : v \in told} |->
        Greatest({v.target[4] : v \in {x \in told : SubSeq(x.target, 1, 3) = target}})]

Store(fresh, counts) ==
    /\ Insert(fresh)
    /\ rolled' = rolled (+) Rolled(fresh) (+) counts
    /\ published' = Newest(OutputVersions(fresh.report_results, fresh.sequence_report_results,
                                          fresh.cohort_memberships)) @@ published

FieldOrders == SetToSeqs(OfKinds(definitions, {"field"}))

Load(file, namespace) ==
    LET stored == {x.row : x \in Merged("cohort_memberships", tableRows["cohort_memberships"])}
    IN  /\ Cardinality(loads) < MaxLoads
        /\ \A l \in loads : <<l.file, l.namespace>> # <<file, namespace>>
        /\ \E order \in FieldOrders :
            Store(Derived(definitions, order, BatchOf[file], stored), MetricCounts(definitions, BatchOf[file]))
        /\ loads' = loads \union {[file |-> file, namespace |-> namespace, definitions |-> definitions]}
        /\ UNCHANGED <<definitions, filling, backfills, unfilled>>

\* What the statements of a backfill find in the events table.
LoadedEvents == UNION {Range(BatchOf[l.file]) : l \in loads}

SqlRows(d, t) ==
    UNION {CASE t = "field_index" /\ d.kind = "field" -> SqlFieldRows(d, e)
             [] t = "event_measures" /\ d.kind \in {"measure", "rollup"} -> SqlMeasureRows(d, e)
             [] t = "measure_cube_points" /\ d.kind \in {"measure", "rollup"} -> SqlCubeRows(d, e)
             [] t = "entity_state_updates" /\ d.kind = "state" -> SqlStateRows(d, e)
             [] OTHER -> {} : e \in LoadedEvents}

\* backfill_definition, up to the first statement of a state.
Fill(fresh) ==
    /\ Insert(fresh)
    /\ rolled' = rolled (+) Rolled(fresh)

Backfill(d) ==
    /\ filling = Nothing
    /\ backfills < MaxBackfills
    /\ d.kind \in {"field", "measure", "rollup", "state"}
    /\ backfills' = backfills + 1
    /\ Fill([t \in TableNames |-> SqlRows(d, t)])
    /\ filling' = IF d.kind = "state" THEN d ELSE Nothing
    /\ UNCHANGED <<definitions, loads, published, unfilled>>

\* The second one: argMax and max over the events of every entity.
LatestOf(updates) ==
    LET same(a) == {b \in updates : Key("entity_state_current", b) = Key("entity_state_current", a)}
    IN  {a \in updates : \A b \in same(a) : b.at <= a.at}

BackfillCurrent ==
    /\ filling # Nothing
    /\ Insert([NoRows EXCEPT !["entity_state_current"] = LatestOf(SqlRows(filling, "entity_state_updates"))])
    /\ filling' = Nothing
    /\ UNCHANGED <<definitions, rolled, loads, published, backfills, unfilled>>

\* It fails, or the server ends before it: nothing tries again.
FailBackfill ==
    /\ filling # Nothing
    /\ filling' = Nothing
    /\ unfilled' = TRUE
    /\ UNCHANGED <<definitions, tableRows, rolled, loads, published, inserts, backfills>>

\* A background merge of a table.
Merge(t) ==
    /\ Merged(t, tableRows[t]) # tableRows[t]
    /\ tableRows' = [tableRows EXCEPT ![t] = Merged(t, @)]
    /\ UNCHANGED <<definitions, rolled, loads, published, inserts, filling, backfills, unfilled>>

TablesNext ==
    \/ \E q \in Requests : Create(q)
    \/ \E file \in Files, namespace \in Namespaces : Load(file, namespace)
    \/ \E d \in definitions : Backfill(d)
    \/ BackfillCurrent
    \/ FailBackfill
    \/ \E t \in TableNames : Merge(t)

TablesSpec == TablesInit /\ [][TablesNext]_tablesVars

-------------------------------------------------------------------------------
(* Structured reads.  None of them asks for FINAL.                         *)

\* states_query: argMax over the rows there are; an event may tie with another.
StateRead(t, entity) ==
    LET found == {x.row : x \in {y \in tableRows[t] : Key("entity_state_current", y.row) = entity}}
    IN  {[value |-> a.value, at |-> a.at] : a \in {b \in found : \A c \in found : c.at <= b.at}}

\* resolve_output_version: the version asked for, else the one told of last,
\* else the greatest in the table.
ResolvedVersion(type, id, requested) ==
    LET target == <<type, TenantOf, id>>
        t == IF type = "sequence" THEN "sequence_report_results" ELSE "report_results"
        stored == {x.row.key.version : x \in {y \in tableRows[t] : y.row.key.report = id}}
    IN  IF requested > 0 THEN requested
        ELSE IF target \in DOMAIN published THEN published[target]
        ELSE IF stored = {} THEN 0 ELSE Greatest(stored)

\* funnels_query sums the rows of a bucket, a segment and a step.
FunnelRead(report, bucket, dimensions, k, requested) ==
    LET version == ResolvedVersion("sequence", report, requested)
        found == {x \in tableRows["sequence_report_results"] :
                    /\ x.row.key.report = report /\ x.row.key.version = version
                    /\ x.row.key.bucket = bucket /\ x.row.key.dimensions = dimensions
                    /\ x.row.step = k}
    IN  MapThenSumSet(LAMBDA x : x.row.entities, found)

-------------------------------------------------------------------------------
(* Properties.                                                             *)

RulesOf(d) ==
    CASE d.kind = "field" -> FieldRules(d)
      [] d.kind \in {"measure", "rollup"} -> MeasureRules(d) \union CubeRules(d)
      [] d.kind = "metric_rollup" -> MetricRules(d)
      [] d.kind = "state" -> StateRules(d)
      [] d.kind = "cohort" -> CohortRules({d})
      [] d.kind = "sequence" -> SequenceRules({d})
      [] d.kind = "report" -> ReportRules({d}) \union TraceRules({d}) \union RetentionRules({d})

\* Whether an alert names a pattern that does not compile.
BadPattern(config) ==
    \/ "regex" \in DOMAIN config /\ ~Compiles(config.regex)
    \/ \E c \in Entry(config, "all", {}) \union Entry(config, "any", {}) :
            "pattern" \in DOMAIN c /\ ~Compiles(c.pattern)

\* What the server accepts the workers understand: the materializer has a rule
\* for every output of a definition, and the alert worker reads every alert but
\* for regular expressions, which the server does not compile.
\* (validate_generalized_output against the *_rules_from_record functions.)
AcceptedIsUnderstood ==
    LET alerts == {d.config : d \in OfKinds(definitions, {"alert"})}
    IN  /\ LoadAlertRules(alerts) = alerts \/ \E config \in alerts : BadPattern(config)
        /\ \A d \in {x \in definitions : x.kind \notin {"alert", "search"}} :
            IF General(d) THEN \A o \in d.config.outputs : RulesOf([d EXCEPT !.config.outputs = {o}]) # {}
            ELSE RulesOf(d) # {}

\* The paths that a definition names.
Inside(x) == IF x.t = "path" THEN {x.path} ELSE {}
Expressions == {"value", "field_name", "measure_name", "unit", "entity_type", "entity_id", "state_name"}
DimensionPaths(dimensions) == UNION {Inside(x.value) : x \in Range(dimensions)}
OutputPaths(o) ==
    (UNION {Inside(o[name]) : name \in Expressions \intersect DOMAIN o})
    \union DimensionPaths(Entry(o, "dimensions", <<>>))
    \union (UNION {DimensionPaths(s.dimensions) : s \in Entry(o, "dimension_sets", {})})
FlatPaths(config) == {Entry(config, name, <<>>) : name \in {"path", "entity_id_path", "dimension"}} \ {<<>>}
NamedPaths(d) ==
    {p.path : p \in Entry(d.config, "match", {})}
    \union (UNION {OutputPaths(o) : o \in Entry(d.config, "outputs", {})})
    \union FlatPaths(d.config)

\* A path means the same to both readers: nothing, or a scalar with a text.
Plain(data, path) ==
    LET found == ValueAtPath(data, path)
    IN  /\ found = Subcolumn(data, path)
        /\ found = Absent \/ Text(found) # NoText
        /\ found.t = "num" => found.n \in Numbers

\* The values that a predicate compares with have a text.
Textual(p) ==
    LET op == Entry(p, "op", "eq")
    IN  /\ op \in {"eq", "neq"} => Text(p.value) # NoText
        /\ op = "in" => \A i \in DOMAIN p.value.items : Text(p.value.items[i]) # NoText

SameReading(d, e) ==
    /\ \A path \in NamedPaths(d) \union {<<"is_error">>} : Plain(e.data, path)
    /\ Text(Field(e.data, <<"is_error">>)) \in {NoText, "true", "false", "1", "0"}
    /\ \A p \in Entry(d.config, "match", {}) : Textual(p)
    /\ d.kind = "field" /\ General(d) => \A o \in d.config.outputs : o.value.t = "path" => o.value.default = NoText
    /\ d.kind \in {"measure", "rollup"} /\ General(d) => "path" \notin DOMAIN d.config
    /\ ~General(d) => "match" \notin DOMAIN d.config
    /\ ~General(d) /\ "dimension" \in DOMAIN d.config => ValueAtPath(e.data, d.config.dimension) # Absent

Unbucketed(row) == [row EXCEPT !.bucket = 0]
WithoutBucket(S) == {Unbucketed(row) : row \in S}
WithoutSource(S) == {[row EXCEPT !.source = Nothing] : row \in WithoutBucket(S)}

\* Whatever the order in which the materializer got the definitions, the rows that
\* it gives d are the backfill's, and the backfill's rows are all there, for d or
\* for another definition that gives the same one.
FieldsMatch(d, e) ==
    \A order \in FieldOrders :
        LET stream == FieldIndexRows(order, e)
        IN  /\ WithoutBucket({row \in stream : row.source = Source(d)}) \subseteq WithoutBucket(SqlFieldRows(d, e))
            /\ WithoutSource(SqlFieldRows(d, e)) \subseteq WithoutSource(stream)

\* A backfill by SQL and the materializer give the same rows for an event that
\* both read alike, except for the start of the bucket, a minute in one and five
\* in the other, and for rows of a field that two definitions give: the
\* materializer keeps the first.  (backfill_generalized_* against
\* field_index_rows, event_measure_rows, measure_cube_point_rows and
\* entity_state_update_rows.)
BackfillMatchesStream ==
    \A d \in OfKinds(definitions, {"field", "measure", "rollup", "state"}), e \in LoadedEvents :
        SameReading(d, e) =>
            /\ d.kind = "field" => FieldsMatch(d, e)
            /\ d.kind \in {"measure", "rollup"} =>
                    /\ WithoutBucket(SqlMeasureRows(d, e)) = WithoutBucket(EventMeasureRows(d, e))
                    /\ WithoutBucket(SqlCubeRows(d, e)) = WithoutBucket(CubePointRows(d, e))
            /\ d.kind = "state" => SqlStateRows(d, e) = StateUpdateRows(d, e)

\* The current state of an entity is the latest of its history, whatever was
\* loaded, filled and merged in which order, unless a backfill ended between its
\* two inserts.  (states_query over entity_state_current and over
\* entity_state_updates, and the engines of both.)
CurrentAgreesWithHistory ==
    LET entities(t) == {Key("entity_state_current", x.row) : x \in tableRows[t]}
        known == entities("entity_state_current") \union entities("entity_state_updates")
        current(entity) == StateRead("entity_state_current", entity)
        history(entity) == StateRead("entity_state_updates", entity)
    IN  (filling = Nothing /\ ~unfilled) =>
            \A entity \in known :
                /\ current(entity) # {}
                /\ current(entity) \subseteq history(entity)

\* An entity came to step k when k events, in the order of their times, match
\* the steps up to it.
CameTo(hits, entity, k) ==
    LET own == {h \in hits : Of(h, "entity_id") = entity}
    IN  \E chain \in [1..k -> own] :
            /\ \A j \in 1..k :
                Matches(chain[j].event.data, Entry(chain[j].rule.steps[j], "match", {}))
            /\ \A i, j \in 1..k : i < j => chain[i].event.at <= chain[j].event.at

\* A funnel counts, for every step, the entities that came to it within a bucket,
\* where one load alone has the events of the bucket.  (sequence_report_result_rows
\* and funnels_query.)
FunnelsAreExact ==
    \A load \in loads :
        LET batch == BatchOf[load.file]
            buckets == {MinuteBucket(e.at) : e \in Range(batch)}
            alone == \A other \in loads \ {load} :
                        {MinuteBucket(e.at) : e \in Range(BatchOf[other.file])} \intersect buckets = {}
        IN  alone => \A rule \in SequenceRules(load.definitions) :
                LET hits == Hits({rule}, batch)
                    at(key) == {h \in hits : ReportKey(h, Split(h)) = key}
                IN  \A key \in {ReportKey(h, Split(h)) : h \in hits}, k \in DOMAIN rule.steps :
                        FunnelRead(key.report, key.bucket, key.dimensions, k, key.version)
                            = Cardinality({entity \in {Of(h, "entity_id") : h \in at(key)} :
                                            CameTo(at(key), entity, k)})
===============================================================================
