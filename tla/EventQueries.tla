----------------------------- MODULE EventQueries -----------------------------
(***************************************************************************)
(* Filtering and grouping events: what crates/ingest indexes of an event,  *)
(* and how crates/read plans the filters and groups of an events query     *)
(* over the tables, for the list of EventList.                             *)
(*                                                                         *)
(* A path of a request is a sequence of keys in which "[]" enters an       *)
(* array.  Events are [id, at, data]; their identifiers are unique, so     *)
(* that `event_id IN (SELECT ...)' is a predicate of the event's own rows. *)
(***************************************************************************)
EXTENDS Extraction, EventList

CONSTANTS FieldOrder,          \* the order in which the materializer got the definitions
          Groupings,           \* requests for groups, without facets and text
          MaxKvRows,           \* rows of event_kv_index per event
          LongTexts,           \* strings too long for event_kv_index
          Fragments            \* pairs of texts of which the first is within the second

ASSUME OrderAssumption == FieldOrder \in SetToSeqs(FieldDefinitions)

-------------------------------------------------------------------------------
(* event_kv_index: one row per scalar, with the array element it is in.    *)

NoScope == [path |-> <<>>, index |-> -1]

RECURSIVE CollectKvIndexRows(_, _, _)
CollectKvIndexRows(path, v, scope) ==
    CASE v.t = "obj" -> UNION {CollectKvIndexRows(path \o key, v.f[key], scope) : key \in DOMAIN v.f}
      [] v.t = "arr" -> UNION {LET item == v.items[i] IN
            CASE item.t = "obj" -> CollectKvIndexRows(Append(path, "[]"), item, [path |-> path, index |-> i])
              [] item.t = "arr" -> CollectKvIndexRows(Append(path, "[]"), item, scope)
              [] OTHER          -> CollectKvIndexRows(path, item, scope) : i \in DOMAIN v.items}
      [] OTHER -> {[path |-> path, value |-> v, scope |-> scope]}

ScalarRows(e) == CollectKvIndexRows(<<>>, e.data, NoScope)

\* Long strings have no row, and the code keeps the first rows in the order of the keys.
KvIndexRows(e) ==
    LET short == {row \in ScalarRows(e) : Text(row.value) \notin LongTexts}
    IN  IF Cardinality(short) <= MaxKvRows THEN short
        ELSE CHOOSE kept \in SUBSET short : Cardinality(kept) = MaxKvRows

\* event_text_index: every text of the event, and its signal.
SearchTexts(e) == {Signal(e.data)} \union {Text(row.value) : row \in ScalarRows(e)}

Within(fragment, text) == fragment = text \/ <<fragment, text>> \in Fragments

-------------------------------------------------------------------------------
(* Facets [path, op, values, negated, join, scope].                        *)

NumericOps == {"gt", "gte", "lt", "lte"}
KvIndexOperators == {"eq", "exists", "in"} \union NumericOps

\* parse_bool_filter_value
BoolOf(text) ==
    (IF text \in {"true", "1"} THEN {TRUE} ELSE {}) \union (IF text \in {"false", "0"} THEN {FALSE} ELSE {})

\* exact_kv_value_predicate: one text may stand for values of several types.
Exactly(v, text) ==
    CASE v.t = "str"  -> v.s = text
      [] v.t = "num"  -> v.n \in NumberOf(Str(text))
      [] v.t = "bool" -> v.b \in BoolOf(text)
      [] OTHER        -> text = "null"

Compares(n, op, m) ==
    CASE op = "gt" -> n > m [] op = "gte" -> n >= m [] op = "lt" -> n < m [] OTHER -> n <= m

\* event_kv_value_predicate: of an eq without a value, and of an in, none or any may hold.
KvHolds(v, op, values) ==
    \/ op = "exists"
    \/ op \in {"eq", "in"} /\ \E text \in values : Exactly(v, text)
    \/ op \in NumericOps /\ v.t = "num" /\ \E text \in values, m \in Numbers :
            m \in NumberOf(Str(text)) /\ Compares(v.n, op, m)

\* facet_scope: the one stated, else the path up to its last array, each part
\* without the mark that ends it.
Marks(path) == {i \in DOMAIN path : path[i] = "[]"}
FacetScope(f) ==
    LET upto == SubSeq(f.path, 1, Max(Marks(f.path)))
        ends == {i \in Marks(upto) : i + 1 \notin Marks(upto)}
    IN  IF f.scope # <<>> THEN f.scope
        ELSE IF Marks(f.path) = {} \/ f.path[1] = "[]" THEN <<>>
        ELSE KeptAt(upto, DOMAIN upto \ ends)

KvClause(e, path, op, values, scope) ==
    \E row \in KvIndexRows(e) :
        /\ row.path = path
        /\ scope # <<>> => row.scope.path = scope
        /\ KvHolds(row.value, op, values)

\* Mutant: the subquery groups by event only.
UnscopedKvClause(e, scope, facets) ==
    \A f \in facets : \E row \in KvIndexRows(e) :
        row.scope.path = scope /\ row.path = f.path /\ KvHolds(row.value, f.op, f.values)

\* scoped_event_kv_index_clause: GROUP BY event, scope and index HAVING a row for each.
ScopedKvClause(e, scope, facets) ==
    \E index \in {row.scope.index : row \in KvIndexRows(e)} :
        \A f \in facets : \E row \in KvIndexRows(e) :
            /\ row.scope = [path |-> scope, index |-> index]
            /\ row.path = f.path
            /\ KvHolds(row.value, f.op, f.values)

-------------------------------------------------------------------------------
(* The catalog: fields that have an index of their own.                    *)

\* Two of the eleven, and four of the six: the others are alike.
LookupFields == {<<"user_id">>, <<"trace_id">>}
CoreRollupFields == {<<"signal">>, <<"event_type">>, <<"name">>, <<"is_error">>}

PromotedPaths(d) ==
    {d.name} \union {o.field_name.s : o \in {p \in GeneralizedOutputs(d.config, "field_index") :
                                                Entry(p, "field_name", Absent).t = "str"}}

PromotedFor(catalog, path) == {d \in catalog : Dotted(path) \in PromotedPaths(d)}

HasIndexedPath(catalog, path) == path \in LookupFields \/ PromotedFor(catalog, path) # {}

FieldRowsFor == [e \in AllEvents |-> FieldIndexRows(FieldOrder, e)]

\* field_values has a row per identifier, field_index the rows of the definitions:
\* those of the definitions promoted for the path count.
IndexedValues(catalog, path, e) ==
    LET sources == {Source(d) : d \in PromotedFor(catalog, path)}
    IN  IF path \in LookupFields THEN {Text(ValueAtPath(e.data, path))} \ {""}
        ELSE {row.value : row \in {r \in FieldRowsFor[e] :
                                    r.field = Dotted(path) /\ r.source \in sources}}

\* event_value_expression: signal is a column, and an array has a text as well.
RawValue(e, path) ==
    LET v == ValueAtPath(e.data, path)
    IN  IF path = <<"signal">> THEN Signal(e.data)
        ELSE IF v.t = "arr" THEN ToString(v.items) ELSE Text(v)

Routed(catalog, f) ==
    /\ FacetScope(f) = <<>> /\ Marks(f.path) = {}
    /\ ~f.negated /\ f.op \in {"eq", "in"}
    /\ HasIndexedPath(catalog, f.path)

\* facet_clause_with_path
FacetClause(catalog, f, e) ==
    IF Routed(catalog, f) THEN IndexedValues(catalog, f.path, e) \intersect f.values # {}
    ELSE IF f.op \in KvIndexOperators
         THEN KvClause(e, f.path, f.op, f.values, FacetScope(f)) # f.negated
         ELSE (\E text \in f.values : Within(text, RawValue(e, f.path))) # f.negated

\* filter_facets_expression: a facet joined by or starts a branch, in which
\* facets on elements of one array must hold of the same element.
Branches(facets) ==
    FoldLeft(LAMBDA branches, f :
                IF f.join = "or" /\ Last(branches) # {} THEN Append(branches, {f})
                ELSE [branches EXCEPT ![Len(branches)] = @ \union {f}],
             <<{}>>, facets)

BranchHolds(catalog, branch, e) ==
    LET scoped == {f \in branch : ~f.negated /\ f.op \in KvIndexOperators /\ FacetScope(f) # <<>>}
        Of(scope) == {f \in scoped : FacetScope(f) = scope}
    IN  /\ \A f \in branch \ scoped : FacetClause(catalog, f, e)
        /\ \A scope \in {FacetScope(f) : f \in scoped} :
                IF Cardinality(Of(scope)) > 1 THEN ScopedKvClause(e, scope, Of(scope))
                ELSE \A f \in Of(scope) : FacetClause(catalog, f, e)

FacetsHold(catalog, facets, e) ==
    \E branch \in Range(Branches(facets)) : BranchHolds(catalog, branch, e)

InRange(range, at) == range.from <= at /\ at <= range.to

\* EventPredicatePlan::new, what the list is to select by.
EventPredicate(catalog, q, e) ==
    /\ InRange(q.range, e.at)
    /\ q.group # <<>> /\ q.value # "" =>
            IF HasIndexedPath(catalog, q.group) THEN q.value \in IndexedValues(catalog, q.group, e)
            ELSE KvClause(e, q.group, "eq", {q.value}, <<>>)
    /\ FacetsHold(catalog, q.facets, e)
    /\ q.text # "" => \E text \in SearchTexts(e) : Within(q.text, text)

\* is_supported_path: a part is a name, with one mark at most.
Unsupported(path) ==
    path = <<>> \/ path[1] = "[]" \/ \E i \in Marks(path) : i + 1 \in Marks(path)

\* What the planner refuses: a path or a scope of another form, a number that is
\* none, and contains within an array.
RefusedPlan(q) ==
    \/ q.group # <<>> /\ q.value # "" /\ Unsupported(q.group)
    \/ \E f \in Range(q.facets) :
        \/ Unsupported(f.path)
        \/ f.scope # <<>> /\ Unsupported(f.scope)
        \/ f.op \in NumericOps /\ \A text \in f.values : NumberOf(Str(text)) = {}
        \/ f.op = "contains" /\ Marks(f.path) # {}

-------------------------------------------------------------------------------
(* Groups of events, their counts and the time of the latest.              *)

RollupError(data) ==
    \/ Field(data, <<"is_error">>) = Bool(TRUE)
    \/ \E n \in NumberOf(Field(data, <<"is_error">>)) : n # 0
    \/ Text(Field(data, <<"event_type">>)) \in ErrorTypes

CoreValue(e, field) ==
    CASE field = <<"is_error">> -> IF RollupError(e.data) THEN "1" ELSE "0"
      [] field = <<"signal">>   -> Signal(e.data)
      [] OTHER                  -> Text(Field(e.data, field))

\* The materialized view counts each event by second and by minute.
FieldRollups(e) ==
    {row \in {[field |-> field, value |-> CoreValue(e, field), seconds |-> s, bucket |-> e.at - (e.at % s)] :
                field \in CoreRollupFields, s \in {1, 60}} : row.value # ""}

\* Mutant: rows of every bucket size are added up.
AnyRollups(events, q, seconds) ==
    {<<row, e>> \in UNION {{<<row, e>> : row \in FieldRollups(e)} : e \in events} :
        row.field = q.group /\ InRange(q.range, row.bucket)}

Rollups(events, q, seconds) ==
    {<<row, e>> \in UNION {{<<row, e>> : row \in FieldRollups(e)} : e \in events} :
        row.field = q.group /\ row.seconds = seconds /\ InRange(q.range, row.bucket)}

Counts(cells) ==
    [value \in {cell.value : cell \in cells} |-> Cardinality({cell \in cells : cell.value = value})]

RollupGroups(events, q) == Counts({[value |-> r[1].value, of |-> r] : r \in Rollups(events, q, 60)})

IndexGroups(catalog, events, q) ==
    Counts(UNION {{[value |-> value, of |-> e] : value \in IndexedValues(catalog, q.group, e)} :
                    e \in {x \in events : InRange(q.range, x.at)}})

RawGroups(events, q) ==
    Counts({[value |-> RawValue(e, q.group), of |-> e] :
                e \in {x \in events : InRange(q.range, x.at) /\ RawValue(x, q.group) # ""}})

\* groups_query: an index without an answer is not the last word.
GroupsQuery(catalog, events, q) ==
    IF q.group \in CoreRollupFields THEN RollupGroups(events, q)
    ELSE IF HasIndexedPath(catalog, q.group) /\ DOMAIN IndexGroups(catalog, events, q) # {}
         THEN IndexGroups(catalog, events, q)
         ELSE RawGroups(events, q)

Grouped(q) == q.facets = <<>> /\ q.text = "" /\ q.group # <<>> /\ q.value # ""

\* summary_query: density of all events, the rollup by second, or a count of the events.
SummaryQuery(catalog, events, q) ==
    IF q.facets = <<>> /\ q.text = "" /\ q.group = <<>> /\ q.value = ""
    THEN Cardinality({e \in events : InRange(q.range, e.at)})
    ELSE IF Grouped(q) /\ q.group \in CoreRollupFields
         THEN Cardinality({r \in Rollups(events, q, 1) : r[1].value = q.value})
         ELSE Cardinality(Selected(catalog, events, q))

\* latest_query: the rollup knows the minute only.
LatestQuery(catalog, events, q) ==
    IF Grouped(q) /\ q.group \in CoreRollupFields
    THEN {r[1].bucket : r \in {x \in Rollups(events, q, 60) : x[1].value = q.value}}
    ELSE {e.at : e \in Selected(catalog, events, q)}

-------------------------------------------------------------------------------
(* The filters: what facets mean for the JSON of an event, whatever the    *)
(* tables they are looked up in.                                           *)

\* Where a path ends, and the scalars there; an array stands for its items.
Ends(v, path) ==
    LET Items(values) == UNION {Range(x.items) : x \in {y \in values : y.t = "arr"}}
        Enter(values, part) ==
            IF part = "[]" THEN {x \in Items(values) : x.t \in {"obj", "arr"}}
            ELSE {Field(x, <<part>>) : x \in {y \in values : y.t = "obj"}} \ {Absent}
    IN  FoldLeft(Enter, {v}, path)

Reached(v, path) ==
    {x \in Ends(v, path) \union UNION {Range(y.items) : y \in {z \in Ends(v, path) : z.t = "arr"}} :
        x.t \notin {"obj", "arr"}}

Means(v, path, f) == (\E x \in Reached(v, path) : KvHolds(x, f.op, f.values))

\* The innermost array a path enters.
ArrayOf(f) == SubSeq(f.path, 1, Max(Marks(f.path)) - 1)

\* Facets on the elements of one array hold of one of its elements.
ElementMeans(data, array, facets) ==
    \E x \in Ends(data, Append(array, "[]")) :
        \A f \in facets : Means(x, SubSeq(f.path, Len(array) + 2, Len(f.path)), f)

BranchMeans(data, branch) ==
    LET within == {f \in branch : ~f.negated /\ Marks(f.path) # {}}
    IN  /\ \A f \in branch \ within : Means(data, f.path, f) # f.negated
        /\ \A array \in {ArrayOf(f) : f \in within} :
                ElementMeans(data, array, {f \in within : ArrayOf(f) = array})

\* A text that stands for values of one type only.
Plain(text) == text \notin {"0", "1", "null"}

\* An event each of whose scalars has a row.
Indexed(e) == KvIndexRows(e) = ScalarRows(e)

Catalogs == {{}, promoted}

\* The index of a path stands for the path: every definition that is promoted
\* for it by name is, the rows they give it are those of the path and of nothing
\* else, and one of them gives them for every event.
Faithful(catalog, path) ==
    LET naming == PromotedFor(FieldDefinitions, path)
        rules(d) == {r \in FieldRules(d) : r.field = Str(Dotted(path))}
    IN  \/ path \in LookupFields
        \/ /\ naming \subseteq catalog
           /\ \A d \in naming : \A r \in rules(d) : r.value = PathOf(path)
           /\ \E d \in naming : rules(d) # {} /\ "match" \notin DOMAIN d.config

\* Whether an event passes the facets of a request depends on its JSON alone,
\* and not on the index the planner picks, and facets on the elements of an array
\* hold of a single element.  An event that is too large for event_kv_index may
\* be missed, but passes no facets that do not hold.  Which definitions are
\* promoted does not matter where the index of a promoted path stands for the
\* path; it does matter for a definition that has the name of another path than
\* its own, a matcher or a default, and for one of two that name one field.
\* Out of this are also texts that stand for values of several types, which an
\* index of texts and event_kv_index take differently, arrays within arrays, and
\* contains, which is about the text of the raw value.  (It is about the tables
\* only, and looked at while no list is open.)
FiltersMeanTheirFacets ==
    list.pages = <<>> =>
        \A q \in {x \in EventRequests : ~RefusedPlan(x)}, catalog \in Catalogs :
            LET facets == Range(q.facets)
                covered == \A f \in facets :
                            /\ f.op # "contains" /\ Cardinality(Marks(f.path)) < 2
                            /\ Routed(catalog, f) =>
                                    Faithful(catalog, f.path) /\ \A text \in f.values : Plain(text)
                Passes(e) == FacetsHold(catalog, q.facets, e)
                MeansIt(e) == \E branch \in Range(Branches(q.facets)) : BranchMeans(e.data, branch)
            IN  covered =>
                    \A e \in Stored :
                        IF Indexed(e) THEN Passes(e) = MeansIt(e)
                        ELSE (\A f \in facets : ~f.negated) /\ Passes(e) => MeansIt(e)

-------------------------------------------------------------------------------
(* The groups.                                                             *)

\* Fields whose value the rollup derives.
DerivedFields == {<<"signal">>, <<"is_error">>}

\* Requests whose groups the tables agree on: a rollup is asked for whole
\* minutes, an index stands for its path, and without one a field holds scalars.
Comparable(g, catalog) ==
    /\ g.group \in CoreRollupFields => g.range.from % 60 = 0 /\ g.range.to % 60 = 59
    /\ IF HasIndexedPath(catalog, g.group) THEN Faithful(catalog, g.group)
       ELSE \A e \in Stored : ValueAtPath(e.data, g.group).t # "arr"

\* What is listed as a group can be opened: for a group listed with its count,
\* from whatever table, the list of its events has as many events, the summary
\* gives the same count and the latest time is that of its last event, or for
\* a rollup of its minute.  Out of this are the values of signal and is_error,
\* which the rollup derives for events that do not carry them, and the paths of
\* which a promoted index is not that of the path.
GroupsListTheirEvents ==
    list.pages = <<>> /\ (\A e \in Stored : Indexed(e)) =>
        \A g \in Groupings, listing \in Catalogs, catalog \in Catalogs :
            Comparable(g, listing) /\ Comparable(g, catalog) /\ g.group \notin DerivedFields =>
                LET groups == GroupsQuery(listing, Stored, g)
                IN  \A value \in {v \in DOMAIN groups : Plain(v)} :
                        LET q == [g EXCEPT !.value = value]
                            selected == Selected(catalog, Stored, q)
                            last == CHOOSE e \in selected : \A x \in selected : x.at <= e.at
                        IN  /\ groups[value] = Cardinality(selected)
                            /\ SummaryQuery(catalog, Stored, q) = groups[value]
                            /\ Max(LatestQuery(catalog, Stored, q)) =
                                    IF q.group \in CoreRollupFields THEN MinuteBucket(last.at) ELSE last.at
===============================================================================
