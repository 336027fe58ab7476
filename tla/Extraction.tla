------------------------------ MODULE Extraction ------------------------------
(***************************************************************************)
(* What tools/lakehouse-rebuild derives from one event: the rules of a     *)
(* definition, from its outputs or from the older flat form, and the rows  *)
(* they give for field_index, event_measures, measure_cube_points, the     *)
(* metric rollups and entity_state_updates.                                *)
(*                                                                         *)
(* A definition is [tenant, id, version, name, kind, mode, config]; of the *)
(* config and of an output only the entries that are there are in the      *)
(* domain of the record.                                                   *)
(***************************************************************************)
EXTENDS EventData

\* generalized_outputs: an output without a target is for every table.
GeneralizedOutputs(config, target) ==
    {o \in Entry(config, "outputs", {}) : Entry(o, "target", target) = target}

StringExpr(o, name, default) ==
    LET x == Entry(o, name, Absent) IN IF IsStringExpr(x) THEN x ELSE Str(default)

\* dimensions_from_output
Dimensions(o) ==
    LET stated == Entry(o, "dimensions", <<>>)
    IN  KeptAt(stated, {i \in DOMAIN stated : stated[i].name # NoText /\ IsStringExpr(stated[i].value)})

\* dimension_sets_from_output
DimensionSets(o) ==
    {s \in {[id |-> s.id, dimensions |-> Dimensions(s)] : s \in Entry(o, "dimension_sets", {})} :
        s.id # NoText /\ s.dimensions # <<>>}

Flat(config) == Entry(config, "path", <<>>) # <<>>

-------------------------------------------------------------------------------
(* The rules of a definition.                                              *)

FieldMode(mode) == IF mode = "lookup" THEN "lookup" ELSE "facet"

FieldRules(d) ==
    LET stated == {[field |-> StringExpr(o, "field_name", d.name), value |-> o.value,
                    mode |-> FieldMode(Entry(o, "mode", d.mode)), type |-> Entry(o, "value_type", "string")] :
                    o \in {p \in GeneralizedOutputs(d.config, "field_index") :
                            IsValueExpr(Entry(p, "value", Absent))}}
    IN  IF stated # {} THEN stated
        ELSE IF Flat(d.config)
             THEN {[field |-> Str(d.name), value |-> PathOf(d.config.path), mode |-> FieldMode(d.mode),
                    type |-> Entry(d.config, "value_type", "string")]}
             ELSE {}

Numeric(o) == IsNumberExpr(Entry(o, "value", Absent))

MeasureRule(o, d, dimensions) ==
    [measure |-> StringExpr(o, "measure_name", d.name), value |-> o.value,
     unit |-> StringExpr(o, "unit", NoText), dimensions |-> dimensions,
     seconds |-> Entry(o, "bucket_seconds", 300)]

MeasureRules(d) ==
    LET stated == {MeasureRule(o, d, Dimensions(o)) :
                    o \in {p \in GeneralizedOutputs(d.config, "event_measures") : Numeric(p)}}
        by == Entry(d.config, "dimension", <<>>)
        flat == [value |-> PathOf(d.config.path), unit |-> Str(Entry(d.config, "unit", NoText))]
    IN  IF stated # {} THEN stated
        ELSE IF Flat(d.config)
             THEN {MeasureRule(flat, d, IF by = <<>> THEN <<>> ELSE <<[name |-> Dotted(by), value |-> PathOf(by)]>>)}
             ELSE {}

\* measure_cube_rules_from_record: the target must be stated.
CubeRules(d) ==
    {[measure |-> StringExpr(o, "measure_name", d.name), value |-> o.value,
      unit |-> StringExpr(o, "unit", NoText), sets |-> DimensionSets(o),
      seconds |-> Entry(o, "bucket_seconds", 300)] :
        o \in {p \in GeneralizedOutputs(d.config, "measure_cube_rollups") :
                /\ d.kind = "measure" /\ d.mode = "cube"
                /\ "target" \in DOMAIN p /\ DimensionSets(p) # {} /\ Numeric(p)}}

MetricRules(d) ==
    {[metric |-> IF IsStringExpr(Entry(o, "metric_name", Absent)) THEN o.metric_name
                 ELSE StringExpr(o, "measure_name", d.name),
      kind |-> LET x == Entry(o, "metric_kind", Absent)
               IN  IF IsStringExpr(x) THEN x ELSE PathExpr(<<"metric_type">>, "counter"),
      value |-> o.value, unit |-> StringExpr(o, "unit", NoText), dimensions |-> Dimensions(o),
      seconds |-> Entry(o, "bucket_seconds", 60)] :
        o \in {p \in GeneralizedOutputs(d.config, "metric_rollups") : Numeric(p)}}

StateRules(d) ==
    LET required == {"entity_type", "entity_id", "value"}
        stated == {[entity_type |-> o.entity_type, entity_id |-> o.entity_id,
                    state |-> StringExpr(o, "state_name", d.name), value |-> o.value,
                    type |-> Entry(o, "value_type", "string")] :
                    o \in {p \in GeneralizedOutputs(d.config, "entity_state_updates") :
                            \A name \in required : IsStringExpr(Entry(p, name, Absent))}}
    IN  IF stated # {} THEN stated
        ELSE IF /\ Flat(d.config)
                /\ Entry(d.config, "entity_type", NoText) # NoText /\ Entry(d.config, "entity_id_path", <<>>) # <<>>
             THEN {[entity_type |-> Str(d.config.entity_type), entity_id |-> PathOf(d.config.entity_id_path),
                    state |-> Str(d.name), value |-> PathOf(d.config.path),
                    type |-> Entry(d.config, "value_type", "string")]}
             ELSE {}

-------------------------------------------------------------------------------
(* The rows of one event.                                                  *)

\* A rule is for the events of its tenant that match.
Applies(d, e) == Tenant(e.data) = d.tenant /\ Matches(e.data, Entry(d.config, "match", {}))

Source(d) == [id |-> d.id, version |-> d.version]

\* serde_json parses no deeper than this.
MaxNesting == 128

\* collect_field_index_rows: arrays are taken apart, also those inside them.
Scalars(v) ==
    LET items(x) == IF x.t = "arr" THEN Range(x.items) ELSE {x}
        opened[k \in Nat] == IF k = 0 THEN {v} ELSE UNION {items(x) : x \in opened[k - 1]}
    IN  IF v.t # "arr" THEN {v}
        ELSE opened[CHOOSE k \in 1..MaxNesting : \A x \in opened[k] : x.t # "arr"]

FieldIndexRow(d, e, mode, field, value, type, error, bucket) ==
    [mode |-> mode, field |-> field, value |-> value, type |-> type, error |-> error, source |-> Source(d),
     event |-> e.id, at |-> e.at, bucket |-> bucket, signal |-> Signal(e.data)]

\* The rows of one definition.  push_field_index_row skips an empty name or value.
FieldRowsOf(d, e) ==
    LET Rows(r) == {FieldIndexRow(d, e, r.mode, EvalString(e.data, r.field), Text(v), r.type,
                                  IsError(e.data), MinuteBucket(e.at)) :
                        v \in Scalars(EvalValue(e.data, r.value))}
    IN  IF ~Applies(d, e) THEN {}
        ELSE {row \in UNION {Rows(r) : r \in FieldRules(d)} : row.field # NoText /\ row.value # NoText}

\* Mutant: the key of what was seen is without the mode and the type.
TwinByText(a, b) == a.field = b.field /\ a.value = b.value

\* The dedupe_key of push_field_index_row.
Twin(a, b) == a.mode = b.mode /\ a.field = b.field /\ a.type = b.type /\ a.value = b.value

\* field_index_rows: of twins that several definitions give, the first is kept.
FieldIndexRows(order, e) ==
    LET seen(i) == UNION {FieldRowsOf(order[j], e) : j \in 1..(i - 1)}
    IN  UNION {{row \in FieldRowsOf(order[i], e) : \A other \in seen(i) : ~Twin(row, other)} :
                i \in DOMAIN order}

\* non_empty_dimensions
Filled(data, dimensions) ==
    LET cells == [i \in DOMAIN dimensions |->
                    [name |-> dimensions[i].name, value |-> EvalString(data, dimensions[i].value)]]
    IN  KeptAt(cells, {i \in DOMAIN cells : cells[i].value # NoText})

\* dimension_object: of two dimensions with one name the later counts.
DimensionObject(data, dimensions) ==
    FoldLeft(LAMBDA object, x : (x.name :> x.value) @@ object, <<>>, Filled(data, dimensions))

Unsplit == [name |-> NoText, value |-> NoText]

EventMeasureRow(d, e, measure, value, unit, seconds, cell, bucket) ==
    [measure |-> measure, value |-> value, unit |-> unit, seconds |-> seconds, dimension |-> cell,
     source |-> Source(d), event |-> e.id, at |-> e.at, bucket |-> bucket, signal |-> Signal(e.data)]

\* event_measure_rows: one row per dimension that has a value, else one without.
MeasureCells(data, dimensions) ==
    IF Filled(data, dimensions) = <<>> THEN {Unsplit} ELSE Range(Filled(data, dimensions))

EventMeasureRows(d, e) ==
    LET Rows(r) == {EventMeasureRow(d, e, EvalString(e.data, r.measure), n, EvalString(e.data, r.unit),
                                    r.seconds, cell, MinuteBucket(e.at)) :
                        n \in EvalNumber(e.data, r.value), cell \in MeasureCells(e.data, r.dimensions)}
    IN  IF ~Applies(d, e) THEN {}
        ELSE {row \in UNION {Rows(r) : r \in MeasureRules(d)} : row.measure # NoText}

CubePointRow(d, e, measure, value, unit, seconds, set, cells, bucket) ==
    [measure |-> measure, value |-> value, unit |-> unit, seconds |-> seconds, set |-> set, dimensions |-> cells,
     source |-> Source(d), event |-> e.id, at |-> e.at, bucket |-> bucket, signal |-> Signal(e.data)]

\* measure_cube_point_rows: a set of dimensions counts when all have a value.
CubePointRows(d, e) ==
    LET Complete(r) == {s \in r.sets : Len(Filled(e.data, s.dimensions)) = Len(s.dimensions)}
        Rows(r) == {CubePointRow(d, e, EvalString(e.data, r.measure), n, EvalString(e.data, r.unit), r.seconds,
                                 s.id, Filled(e.data, s.dimensions), MinuteBucket(e.at)) :
                        n \in EvalNumber(e.data, r.value), s \in Complete(r)}
    IN  IF ~Applies(d, e) THEN {}
        ELSE {row \in UNION {Rows(r) : r \in CubeRules(d)} : row.measure # NoText}

\* normalize_metric_kind
MetricKind(text) == IF text \in {"gauge", "histogram", "timing"} THEN text ELSE "counter"

\* metric_rollup_rows: every one counts one event.
MetricRollupRows(d, e) ==
    LET Table(kind) == CASE kind = "gauge" -> "gauges"
                         [] kind \in {"histogram", "timing"} -> "histograms"
                         [] OTHER -> "counters"
        Rows(r) == {[table |-> Table(MetricKind(EvalString(e.data, r.kind))),
                     metric |-> EvalString(e.data, r.metric), count |-> 1, sum |-> n,
                     unit |-> EvalString(e.data, r.unit), seconds |-> r.seconds,
                     dimensions |-> DimensionObject(e.data, r.dimensions), source |-> Source(d),
                     bucket |-> MinuteBucket(e.at)] : n \in EvalNumber(e.data, r.value)}
    IN  IF ~Applies(d, e) THEN {}
        ELSE {row \in UNION {Rows(r) : r \in MetricRules(d)} : row.metric # NoText}

StateRow(d, e, entity_type, entity_id, state, value, type) ==
    [entity_type |-> entity_type, entity_id |-> entity_id, state |-> state, value |-> value, type |-> type,
     at |-> e.at, event |-> e.id, signal |-> Signal(e.data), source |-> Source(d)]

\* entity_state_update_rows
StateUpdateRows(d, e) ==
    LET Row(r) == StateRow(d, e, EvalString(e.data, r.entity_type), EvalString(e.data, r.entity_id),
                           EvalString(e.data, r.state), EvalString(e.data, r.value), r.type)
    IN  IF ~Applies(d, e) THEN {}
        ELSE {row \in {Row(r) : r \in StateRules(d)} :
                NoText \notin {row.entity_type, row.entity_id, row.state, row.value}}
===============================================================================
