------------------------------ MODULE BackfillSql ------------------------------
(***************************************************************************)
(* The INSERT ... SELECT statements with which apps/server/definitions.rs  *)
(* fills field_index, event_measures, measure_cube_points and the state    *)
(* tables from the events table: the same rows as those of Extraction, by  *)
(* another reading of the definition and of the event.                     *)
(*                                                                         *)
(* ClickHouse is external: a subcolumn of the JSON data is found by its    *)
(* whole path, wherever the dots are, and toString of a missing one is ''. *)
(***************************************************************************)
EXTENDS Extraction

\* data.path and getSubcolumn(data, path): objects are no values.
Subcolumn(data, path) ==
    LET Enter(current, part) == IF current.t = "obj" THEN Field(current, <<part>>) ELSE Absent
        found == IF path \in DOMAIN data.f THEN data.f[path] ELSE FoldLeft(Enter, data, path)
    IN  IF found.t = "obj" THEN Absent ELSE found

\* value_expression, with one text for all arrays, and numeric_expression.
SqlValue(data, path) ==
    LET found == Subcolumn(data, path) IN IF found.t = "arr" THEN "[...]" ELSE Text(found)
SqlNumber(data, path) == {n \in Numbers : ToString(n) = SqlValue(data, path)}

\* string_sql_expr and number_sql_expr
SqlString(data, x) ==
    IF x.t # "path" THEN Text(x)
    ELSE IF SqlValue(data, x.path) = NoText THEN x.default ELSE SqlValue(data, x.path)
SqlAmount(data, x) == IF x.t = "path" THEN SqlNumber(data, x.path) ELSE NumberOf(x)

\* matcher_where_clause, a conjunct per predicate.
SqlPredicate(data, p) ==
    LET value == SqlValue(data, p.path)
        op == Entry(p, "op", "eq")
    IN  CASE op = "exists"    -> value # NoText
          [] op = "eq"        -> value = Text(p.value)
          [] op = "neq"       -> value # NoText /\ value # Text(p.value)
          [] op = "is_number" -> SqlNumber(data, p.path) # {}
          [] op = "in"        -> \E i \in DOMAIN p.value.items : value = Text(p.value.items[i])
          [] OTHER            -> FALSE

SqlWhere(d, e) ==
    /\ Tenant(e.data) = d.tenant
    /\ \A p \in Entry(d.config, "match", {}) : SqlPredicate(e.data, p)

\* error_expression
SqlError(data) ==
    \/ SqlValue(data, <<"is_error">>) \in {"1", "true"}
    \/ SqlValue(data, <<"span_status_code">>) = "error"
    \/ SqlValue(data, <<"event_type">>) \in ErrorTypes

\* toStartOfInterval(timestamp, INTERVAL 5 MINUTE)
SqlBucket(at) == at - (at % 300)

General(d) == "outputs" \in DOMAIN d.config
TenantOnly(d, e) == Tenant(e.data) = d.tenant

-------------------------------------------------------------------------------
(* field_index.  The matcher of the flat form is left out.                 *)

FieldRow(d, e, field, value, mode, type) ==
    FieldIndexRow(d, e, mode, field, value, type, SqlError(e.data), SqlBucket(e.at))

FlatFieldRows(d, e) ==
    {FieldRow(d, e, d.name, value, d.mode, Entry(d.config, "value_type", "string")) :
        value \in IF TenantOnly(d, e) THEN {SqlValue(e.data, d.config.path)} ELSE {}}

GeneralFieldRows(d, e) ==
    {FieldRow(d, e, o.field_name.s, SqlString(e.data, o.value), Entry(o, "mode", d.mode),
              Entry(o, "value_type", "string")) :
        o \in IF SqlWhere(d, e) THEN GeneralizedOutputs(d.config, "field_index") ELSE {}}

SqlFieldRows(d, e) ==
    {row \in IF General(d) THEN GeneralFieldRows(d, e) ELSE FlatFieldRows(d, e) : row.value # NoText}

-------------------------------------------------------------------------------
(* event_measures and measure_cube_points.                                 *)

MeasureRow(d, e, measure, n, unit, seconds, cell) ==
    EventMeasureRow(d, e, measure, n, unit, seconds, cell, SqlBucket(e.at))

\* The dimension of the flat form is named also when it is empty.
FlatMeasureRows(d, e) ==
    LET by == Entry(d.config, "dimension", <<>>)
        cell == IF by = <<>> THEN Unsplit ELSE [name |-> Dotted(by), value |-> SqlValue(e.data, by)]
    IN  {MeasureRow(d, e, d.name, n, Entry(d.config, "unit", NoText), 300, cell) :
            n \in IF TenantOnly(d, e) THEN SqlNumber(e.data, d.config.path) ELSE {}}

SqlDimensions(data, dimensions) ==
    [i \in DOMAIN dimensions |-> [name |-> dimensions[i].name, value |-> SqlString(data, dimensions[i].value)]]

\* A statement for each dimension, for the events that have it, and one for the
\* events without any.
SqlMeasureCells(data, dimensions) ==
    LET cells == Range(SqlDimensions(data, dimensions))
    IN  IF \A c \in cells : c.value = NoText THEN {Unsplit} ELSE {c \in cells : c.value # NoText}

GeneralMeasureRows(d, e) ==
    LET Rows(o) == {MeasureRow(d, e, SqlString(e.data, o.measure_name), n,
                               SqlString(e.data, Entry(o, "unit", Str(NoText))), Entry(o, "bucket_seconds", 300), cell) :
                        n \in SqlAmount(e.data, o.value),
                            cell \in SqlMeasureCells(e.data, Entry(o, "dimensions", <<>>))}
        outputs == IF SqlWhere(d, e) THEN GeneralizedOutputs(d.config, "event_measures") ELSE {}
    IN  {row \in UNION {Rows(o) : o \in outputs} : row.measure # NoText}

SqlMeasureRows(d, e) == IF General(d) THEN GeneralMeasureRows(d, e) ELSE FlatMeasureRows(d, e)

\* A statement for each set of dimensions, for the events that have all of it.
CubeOutputRows(d, e, o) ==
    LET Cells(s) == SqlDimensions(e.data, s.dimensions)
        Full(s) == \A i \in DOMAIN s.dimensions : Cells(s)[i].value # NoText
        rows == {CubePointRow(d, e, SqlString(e.data, o.measure_name), n,
                              SqlString(e.data, Entry(o, "unit", Str(NoText))), Entry(o, "bucket_seconds", 300),
                              s.id, Cells(s), SqlBucket(e.at)) :
                    n \in SqlAmount(e.data, o.value), s \in {x \in o.dimension_sets : Full(x)}}
    IN  {row \in rows : row.measure # NoText}

SqlCubeRows(d, e) ==
    UNION {CubeOutputRows(d, e, o) :
        o \in {x \in IF General(d) /\ SqlWhere(d, e) THEN GeneralizedOutputs(d.config, "measure_cube_rollups")
                     ELSE {} : "target" \in DOMAIN x}}

-------------------------------------------------------------------------------
(* entity_state_updates.                                                   *)

FlatStateRows(d, e) ==
    {StateRow(d, e, d.config.entity_type, SqlValue(e.data, d.config.entity_id_path), d.name, value,
              Entry(d.config, "value_type", "string")) :
        value \in IF TenantOnly(d, e) THEN {SqlValue(e.data, d.config.path)} ELSE {}}

GeneralStateRows(d, e) ==
    LET S(x) == SqlString(e.data, x)
    IN  {StateRow(d, e, S(o.entity_type), S(o.entity_id), S(o.state_name), S(o.value),
                  Entry(o, "value_type", "string")) :
            o \in IF SqlWhere(d, e) THEN GeneralizedOutputs(d.config, "entity_state_updates") ELSE {}}

SqlStateRows(d, e) ==
    {row \in IF General(d) THEN GeneralStateRows(d, e) ELSE FlatStateRows(d, e) :
        NoText \notin {row.entity_type, row.entity_id, row.state, row.value}}
===============================================================================
