---------------------------- MODULE DefinitionConfig ----------------------------
(***************************************************************************)
(* What apps/server/src/definitions.rs accepts in a definition: its kind   *)
(* and mode, the outputs and the matcher, the flat form without outputs,   *)
(* and the configurations of saved searches and alerts.                    *)
(*                                                                         *)
(* A request is [name, kind, mode, config].  Characters and lengths are    *)
(* left out: a path is valid when it has a part, a name when it is not     *)
(* empty.                                                                  *)
(***************************************************************************)
EXTENDS EventData

Modes == [field         |-> {"facet", "lookup"},
          measure       |-> {"measure", "cube"},
          rollup        |-> {"measure_rollup"},
          metric_rollup |-> {"managed"},
          state         |-> {"state_transition"},
          search        |-> {"saved"},
          report        |-> {"summary", "retention", "trace_summary"},
          sequence      |-> {"funnel"},
          cohort        |-> {"membership"},
          alert         |-> {"event_match"}]

DefaultMode == [field         |-> "facet",
                measure       |-> "measure",
                rollup        |-> "measure_rollup",
                metric_rollup |-> "managed",
                state         |-> "state_transition",
                search        |-> "saved",
                report        |-> "summary",
                sequence      |-> "funnel",
                cohort        |-> "membership",
                alert         |-> "event_match"]

\* normalized_mode
Mode(q) == IF q.mode # NoText \/ q.kind \notin DOMAIN Modes THEN q.mode ELSE DefaultMode[q.kind]

ValidPath(path) == path # <<>>
ValidName(name) == name # NoText
ValueTypes == {"string", "number", "bool"}

ValidString(x) == \/ x.t = "str" /\ x.s # NoText
                  \/ x.t \in {"num", "bool"}
                  \/ x.t = "path" /\ ValidPath(x.path)

ValidValue(x) == \/ x.t \in {"str", "num", "bool"}
                 \/ x.t = "path" /\ ValidPath(x.path)

ValidNumber(x) == IF x.t = "path" THEN ValidPath(x.path) ELSE NumberOf(x) # {}

Stated(o, name) == Entry(o, name, Absent)
Optional(o, name) == name \in DOMAIN o => ValidString(o[name])

ValidDimensions(dimensions) ==
    \A i \in DOMAIN dimensions : ValidName(dimensions[i].name) /\ ValidString(dimensions[i].value)

\* Sets are told apart by name, and so are the dimensions of each.
ValidDimensionSets(sets) ==
    /\ Cardinality(sets) \in 1..8
    /\ \A s, u \in sets : s.id = u.id => s = u
    /\ \A s \in sets :
        /\ ValidName(s.id)
        /\ "dimensions" \in DOMAIN s /\ Len(s.dimensions) \in 1..6
        /\ ValidDimensions(s.dimensions)
        /\ \A i, j \in DOMAIN s.dimensions : s.dimensions[i].name = s.dimensions[j].name => i = j

ValidMatch(match) ==
    \A p \in match :
        /\ ValidPath(p.path)
        /\ Entry(p, "op", "eq") \in {"exists", "is_number", "eq", "neq", "in"}
        /\ Entry(p, "op", "eq") \in {"eq", "neq"} => "value" \in DOMAIN p
        /\ Entry(p, "op", "eq") = "in" =>
                Stated(p, "value").t = "arr" /\ Stated(p, "value").items # <<>>

-------------------------------------------------------------------------------
(* validate_generalized_output, by kind.                                   *)

Target(o, target) == Entry(o, "target", target) = target

ValidField(mode, o) ==
    /\ Target(o, "field_index")
    /\ Stated(o, "field_name").t = "str" /\ ValidName(o.field_name.s)
    /\ ValidValue(Stated(o, "value"))
    /\ Entry(o, "mode", mode) \in {"facet", "lookup"}
    /\ Entry(o, "value_type", "string") \in ValueTypes

ValidMeasure(kind, mode, o) ==
    LET cube == Entry(o, "target", "event_measures") = "measure_cube_rollups"
    IN  /\ cube \/ Target(o, "event_measures")
        /\ cube => kind = "measure" /\ mode = "cube"
        /\ ValidString(Stated(o, "measure_name"))
        /\ ValidNumber(Stated(o, "value"))
        /\ Optional(o, "unit")
        /\ IF cube THEN ValidDimensionSets(Entry(o, "dimension_sets", {}))
           ELSE ValidDimensions(Entry(o, "dimensions", <<>>))

ValidMetric(o) ==
    /\ Target(o, "metric_rollups")
    /\ ValidString(Entry(o, "metric_name", Stated(o, "measure_name")))
    /\ ValidString(Stated(o, "metric_kind"))
    /\ ValidNumber(Stated(o, "value"))
    /\ Optional(o, "unit")
    /\ ValidDimensions(Entry(o, "dimensions", <<>>))

\* Mutant: the identifier of the entity may be left out.
ValidStateAnonymous(o) ==
    /\ Target(o, "entity_state_updates")
    /\ \A name \in {"entity_type", "state_name", "value"} : ValidString(Stated(o, name))
    /\ Entry(o, "value_type", "string") \in ValueTypes

ValidState(o) ==
    /\ Target(o, "entity_state_updates")
    /\ \A name \in {"entity_type", "entity_id", "state_name", "value"} : ValidString(Stated(o, name))
    /\ Entry(o, "value_type", "string") \in ValueTypes

ValidMetrics(metrics) ==
    /\ metrics # <<>>
    /\ \A i \in DOMAIN metrics :
        /\ ValidName(metrics[i].name)
        /\ Entry(metrics[i], "op", "count") \in {"count", "error_count", "count_errors", "sum"}
        /\ Entry(metrics[i], "op", "count") = "sum" => ValidNumber(Stated(metrics[i], "value"))

ValidReport(mode, o) ==
    /\ Target(o, "report_results")
    /\ Optional(o, "report_id")
    /\ ValidDimensions(Entry(o, "dimensions", <<>>))
    /\ mode = "retention" =>
            \A name \in {"cohort_id", "entity_type", "entity_id"} : ValidString(Stated(o, name))
    /\ mode = "summary" /\ "metrics" \in DOMAIN o => ValidMetrics(o.metrics)

ValidCohort(o) ==
    /\ Target(o, "cohort_memberships")
    /\ Optional(o, "cohort_id")
    /\ \A name \in {"entity_type", "entity_id"} : ValidString(Stated(o, name))

ValidSequence(o) ==
    /\ Target(o, "sequence_report_results")
    /\ Optional(o, "report_id")
    /\ ValidString(Stated(o, "entity_id"))
    /\ ValidDimensions(Entry(o, "dimensions", <<>>)) /\ ValidDimensions(Entry(o, "segment", <<>>))
    /\ Entry(o, "steps", <<>>) # <<>>
    /\ \A i \in DOMAIN o.steps : ValidName(o.steps[i].name) /\ ValidMatch(Entry(o.steps[i], "match", {}))

ValidOutput(kind, mode, o) ==
    CASE kind = "field"                 -> ValidField(mode, o)
      [] kind \in {"measure", "rollup"} -> ValidMeasure(kind, mode, o)
      [] kind = "metric_rollup"         -> ValidMetric(o)
      [] kind = "state"                 -> ValidState(o)
      [] kind = "report"                -> ValidReport(mode, o)
      [] kind = "cohort"                -> ValidCohort(o)
      [] kind = "sequence"              -> ValidSequence(o)
      [] OTHER                          -> FALSE

-------------------------------------------------------------------------------
(* The flat form, saved searches and alerts.                               *)

ValidFlat(kind, config) ==
    /\ ValidPath(Entry(config, "path", <<>>))
    /\ kind \in {"field", "state"} => Entry(config, "value_type", "string") \in ValueTypes
    /\ kind = "state" => /\ ValidName(Entry(config, "entity_type", NoText))
                         /\ ValidPath(Entry(config, "entity_id_path", <<>>))

ValidSearch(config) ==
    /\ Entry(config, "query", NoText) # NoText
    /\ Entry(config, "search_mode", "token") \in {"token", "prefix", "fuzzy", "phrase"}
    /\ "path" \in DOMAIN config => ValidPath(config.path)

\* A regular expression is not compiled here.
ValidCondition(c) ==
    LET op == Entry(c, "op", "eq")
    IN  /\ ValidPath(c.path)
        /\ \/ op \in {"exists", "not_exists", "is_number", "is_error"}
           \/ /\ op \in {"eq", "ne", "neq", "contains", "gt", "gte", "lt", "lte"}
              /\ "value" \in DOMAIN c
           \/ op = "regex" /\ Entry(c, "pattern", NoText) # NoText

ValidWebhook(w) ==
    /\ "url" \in DOMAIN w /\ w.url # NoText
    /\ Entry(w, "max_attempts", 5) \in 1..20

MaxDedupeSeconds == 86400

ValidAlert(config) ==
    /\ \A c \in Entry(config, "all", {}) \union Entry(config, "any", {}) : ValidCondition(c)
    /\ Entry(config, "severity", "warning") \in {"info", "warning", "critical"}
    /\ Entry(config, "dedupe_seconds", 60) <= MaxDedupeSeconds
    /\ "regex" \in DOMAIN config => config.regex # NoText
    /\ \A w \in Entry(config, "webhooks", {}) : ValidWebhook(w)

\* normalize_config
ValidConfig(kind, mode, config) ==
    IF "outputs" \in DOMAIN config
    THEN /\ ValidMatch(Entry(config, "match", {}))
         /\ config.outputs # {}
         /\ \A o \in config.outputs : ValidOutput(kind, mode, o)
    ELSE \/ kind \in {"field", "measure", "rollup", "state"} /\ ValidFlat(kind, config)
         \/ kind = "search" /\ ValidSearch(config)
         \/ kind = "alert" /\ ValidAlert(config)

\* What create accepts.
Accepts(q) ==
    /\ ValidName(q.name)
    /\ q.kind \in DOMAIN Modes
    /\ Mode(q) \in Modes[q.kind]
    /\ ValidConfig(q.kind, Mode(q), q.config)

WithDefault(o, name, value) ==
    [key \in DOMAIN o \union {name} |-> IF key \in DOMAIN o THEN o[key] ELSE value]

\* The entries that normalize_config fills in; the others default to the same
\* values wherever they are read.
Normalized(q) ==
    IF q.kind = "report" /\ Mode(q) = "retention"
    THEN [q.config EXCEPT !.outputs = {WithDefault(o, "retention_bucket_seconds", 86400) : o \in @}]
    ELSE q.config
===============================================================================
