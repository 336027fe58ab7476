---------------------------- MODULE MCServingTables ----------------------------
(***************************************************************************)
(* Six events in three files, two of which share a minute, and requests    *)
(* for definitions of every kind, well formed and not; three give one      *)
(* field.                                                                  *)
(***************************************************************************)
EXTENDS ServingTables, MCValues

\* The namespaces only tell loads of one file apart.
Symmetry == Permutations(Namespaces)

MCNumbers == {0, 1, 2, 3, 5, 7, 9}
MCRegexes == {"ok.*"}

P(name) == PathOf(<<name>>)
Event(id, at, data) == [id |-> id, at |-> at, data |-> Obj(data @@ (<<"tenant_id">> :> Str("t1")))]

Bought == Event("e1", 40, (<<"step">> :> Str("buy")) @@ (<<"user">> :> Str("u1")) @@ (<<"amount">> :> Num(5))
                          @@ (<<"plan">> :> Str("pro")) @@ (<<"is_error">> :> Bool(TRUE)))
Viewed == Event("e2", 10, (<<"step">> :> Str("view")) @@ (<<"user">> :> Str("u1")) @@ (<<"amount">> :> Str("7"))
                          @@ (<<"plan">> :> Str("")) @@ (<<"trace_id">> :> Str("x")))
Nested == Event("e3", 70, (<<"step">> :> Str("view")) @@ (<<"user">> :> Str("u1")) @@ (<<"amount">> :> Num(3))
                          @@ (<<"geo">> :> Obj(<<"city">> :> Str("rome"))) @@ (<<"plan">> :> Str("free")))
Tagged == Event("e4", 65, (<<"step">> :> Str("buy")) @@ (<<"user">> :> Str("u1")) @@ (<<"plan">> :> Arr(<<Str("a"), Arr(<<Str("b"), Null>>)>>))
                          @@ (<<"amount">> :> Num(2))
                          @@ (<<"geo">> :> Arr(<<Str("a"), Str("b")>>)) @@ (<<"city">> :> Str("root")))
Late   == Event("e5", 30, (<<"step">> :> Str("buy")) @@ (<<"user">> :> Str("u2")) @@ (<<"plan">> :> Str("max"))
                          @@ (<<"trace_id">> :> Str("x")) @@ (<<"end_time">> :> Num(9))
                          @@ (<<"parent_span_id">> :> Str("p")))
Other  == [Event("e6", 80, <<"user">> :> Str("u3")) EXCEPT !.data = Obj((<<"user">> :> Str("u3"))
                          @@ (<<"tenant_id">> :> Str("t2")))]

MCBatchOf == [f1 |-> <<Bought, Viewed>>, f2 |-> <<Nested, Tagged, Other>>, f3 |-> <<Late>>]

\* -- requests --
Request(id, kind, mode, config) == [id |-> id, name |-> id, kind |-> kind, mode |-> mode, config |-> config]
One(o) == [outputs |-> {o}]
When(step, o) == [outputs |-> {o}, match |-> {[path |-> <<"step">>, value |-> Str(step)]}]
By(name) == <<[name |-> name, value |-> P(name)]>>

MCRequests == Normal({
    Request("city", "field", "", [outputs |-> {[field_name |-> Str("city"), value |-> PathOf(<<"geo", "city">>)],
                                               [field_name |-> Str("plan"), value |-> P("plan"),
                                                value_type |-> "number"]}]),
    Request("plan", "field", "lookup", [path |-> <<"plan">>]),
    Request("again", "field", "lookup", One([field_name |-> Str("plan"), value |-> P("plan")])),
    Request("dynamic", "field", "facet", One([field_name |-> P("step"), value |-> P("plan")])),
    Request("spent", "measure", "", When("buy", [measure_name |-> Str("spent"), value |-> P("amount"),
                                                 unit |-> PathExpr(<<"currency">>, "usd"),
                                                 dimensions |-> By("plan") \o By("tier")])),
    Request("sum", "rollup", "", [path |-> <<"amount">>, dimension |-> <<"plan">>]),
    Request("cube", "measure", "cube", One([target |-> "measure_cube_rollups", measure_name |-> Str("spent"),
                                            value |-> P("amount"),
                                            dimension_sets |-> {[id |-> "s", dimensions |-> By("user")]}])),
    Request("flatcube", "measure", "measure", One([target |-> "measure_cube_rollups", measure_name |-> Str("spent"),
                                            value |-> P("amount"),
                                            dimension_sets |-> {[id |-> "s", dimensions |-> By("user")]}])),
    Request("metric", "metric_rollup", "", One([metric_name |-> Str("m"), metric_kind |-> PathExpr(<<"step">>, "gauge"),
                                                value |-> P("amount")])),
    Request("state", "state", "", One([entity_type |-> Str("user"), entity_id |-> P("user"),
                                       state_name |-> Str("plan"), value |-> P("plan")])),
    Request("flatstate", "state", "", [path |-> <<"plan">>, entity_type |-> "user", entity_id_path |-> <<"user">>]),
    Request("stateless", "state", "", One([entity_type |-> Str("user"), state_name |-> Str("plan"),
                                           value |-> P("plan")])),
    Request("report", "report", "", One([dimensions |-> By("plan"),
                                         metrics |-> <<[name |-> "n"], [name |-> "sum", op |-> "sum",
                                                                        value |-> P("amount")]>>])),
    Request("traces", "report", "trace_summary", One([dimensions |-> By("user")])),
    Request("back", "report", "retention", One([cohort_id |-> Str("buyers"), entity_type |-> Str("user"),
                                                entity_id |-> P("user")])),
    Request("buyers", "cohort", "", When("buy", [entity_type |-> Str("user"), entity_id |-> P("user")])),
    Request("funnel", "sequence", "", One([entity_id |-> P("user"), dimensions |-> <<>>,
        steps |-> <<[name |-> "view", match |-> {[path |-> <<"step">>, value |-> Str("view")]}],
                    [name |-> "buy", match |-> {[path |-> <<"step">>, value |-> Str("buy")]}],
                    [name |-> "any", match |-> {[path |-> <<"step">>, op |-> "in",
                                                 value |-> Arr(<<Str("buy"), Str("view")>>)]}]>>])),
    Request("nosteps", "sequence", "", One([entity_id |-> P("user"), steps |-> <<>>])),
    Request("alert", "alert", "", [all |-> {[path |-> <<"step">>, op |-> "regex", pattern |-> "ok.*"]},
                                   severity |-> "info", webhooks |-> {[url |-> "u"]}]),
    Request("broken", "alert", "", [any |-> {[path |-> <<"step">>, op |-> "regex", pattern |-> "("]}]),
    Request("loud", "alert", "", [severity |-> "loud"])})
===============================================================================
