---------------------------- MODULE MCEventQueries ----------------------------
(***************************************************************************)
(* Seven events in three files: events that share a time, values of every  *)
(* type, arrays of scalars, of objects and within each other, an event too *)
(* large for event_kv_index, and six field definitions to promote: two for *)
(* one field, one for a field of another name than its path, one named     *)
(* like a path that it does not read, one with a matcher and one with a    *)
(* default.                                                                *)
(***************************************************************************)
EXTENDS EventQueries, MCValues

MCNumbers == 0..9

Event(id, at, data) == [id |-> id, at |-> at, data |-> Obj(data @@ (<<"tenant_id">> :> Str("t")))]
K(name) == <<name>>
Item(sku, price) == Obj((K("sku") :> Str(sku)) @@ (K("price") :> Num(price)))

\* -- events --
Inner == Obj(K("parts") :> Arr(<<Obj(K("sku") :> Str("a"))>>))
Span == Event(1, 30, (K("event_type") :> Str("span")) @@ (K("name") :> Str("get")) @@ (K("user_id") :> Str("u1"))
                     @@ (K("plan") :> Str("pro")) @@ (K("n") :> Num(1)))
Sold == Event(2, 30, (K("name") :> Str("buy")) @@ (K("user_id") :> Str("u2")) @@ (K("plan") :> Str("5"))
                     @@ (K("items") :> Arr(<<Item("a", 1), Item("b", 5)>>)))
Same == Event(3, 30, (K("name") :> Str("buy")) @@ (K("items") :> Arr(<<Item("a", 5)>>)) @@ (K("plan") :> Num(5)))
Flag == Event(4, 65, (K("name") :> Str("get")) @@ (K("n") :> Bool(TRUE)) @@ (K("is_error") :> Bool(TRUE))
                     @@ (K("tags") :> Arr(<<Str("x"), Str("y")>>)) @@ (K("plan") :> Bool(TRUE)))
None == Event(5, 65, (K("event_type") :> Str("log")) @@ (K("n") :> Null) @@ (K("tags") :> Str("x"))
                     @@ (K("user_id") :> Num(7)) @@ (K("plan") :> Str("pro"))
                     @@ (K("items") :> Arr(<<Inner>>)))
Deep == Event(6, 130, (K("name") :> Str("long")) @@ (K("items") :> Arr(<<Arr(<<Str("a"), Item("a", 5)>>), Str("x")>>))
                     @@ (K("plan") :> Str("")))
Huge == Event(7, 65, (K("name") :> Str("get")) @@ (K("n") :> Num(5)) @@ (K("user_id") :> Str("u1"))
                     @@ (K("items") :> Arr(<<Item("a", 1), Item("b", 5), Item("c", 3)>>)) @@ (K("plan") :> Str("pro")))

MCBatchOf == [f1 |-> <<Span, Sold, Flag>>, f2 |-> <<Same, None>>, f3 |-> <<Deep, Huge>>]
MCLongTexts == {"long"}
MCFragments == {<<"ge", "get">>, <<"pa", "span">>}

Definition(id, config) ==
    [tenant |-> "t", id |-> id, version |-> 1, name |-> id, kind |-> "field", mode |-> "facet", config |-> config]
Output(name, value) == [outputs |-> {[field_name |-> Str(name), value |-> value]}]
PlanByPath == Definition("plan", [path |-> K("plan")])
PlanAgain == Definition("tier", Output("plan", PathOf(K("plan"))))
Labels == Definition("labels", Output("tags", PathOf(K("tags"))))
Misnamed == Definition("kind", [path |-> K("event_type")])
Matched == Definition("amount", [match |-> {[path |-> K("user_id"), op |-> "exists"]}]
                                    @@ Output("n", PathOf(K("n"))))
Defaulted == Definition("place", Output("region", PathExpr(K("region"), "eu")))
MCFieldOrder == <<PlanAgain, Labels, PlanByPath, Misnamed, Matched, Defaulted>>
MCFieldDefinitions == Normal({MCFieldOrder[i] : i \in DOMAIN MCFieldOrder})

\* -- requests --
Facet(path, op, values) ==
    [path |-> path, op |-> op, values |-> values, negated |-> FALSE, join |-> "and", scope |-> <<>>]
Not(f) == [f EXCEPT !.negated = TRUE]
Or(f) == [f EXCEPT !.join = "or"]
Sku(v) == Facet(<<"items", "[]", "sku">>, "eq", {v})
Price(op, v) == Facet(<<"items", "[]", "price">>, op, {v})

Always == [from |-> 0, to |-> 959]
All == [facets |-> <<>>, text |-> "", group |-> <<>>, value |-> "", range |-> Always, direction |-> "desc", limit |-> 2]
With(facets) == [All EXCEPT !.facets = facets]

MCRequests == Normal({
    All,
    [All EXCEPT !.direction = "asc"],
    [All EXCEPT !.direction = "asc", !.limit = 1, !.range = [from |-> 30, to |-> 65]],
    [All EXCEPT !.group = K("user_id"), !.value = "u1"],
    [All EXCEPT !.group = K("plan"), !.value = "pro"],
    [All EXCEPT !.text = "pa"],
    With(<<Sku("a"), [Price("gte", "5") EXCEPT !.scope = K("items")]>>),
    With(<<Sku("a"), Or(Price("gt", "4")), Facet(K("name"), "eq", {"buy"})>>),
    With(<<Not(Sku("a")), Facet(K("plan"), "in", {"pro", "5"})>>),
    With(<<Facet(K("plan"), "eq", {"true"})>>),
    With(<<Facet(K("n"), "eq", {"1"}), Or(Facet(K("n"), "in", {"null", "x"}))>>),
    With(<<Not(Facet(K("n"), "exists", {})), Facet(K("tags"), "eq", {"x"})>>),
    With(<<Not(Facet(K("tags"), "eq", {"x"})), Facet(K("n"), "lt", {"7"}), Or(Facet(K("user_id"), "eq", {"7"}))>>),
    With(<<Facet(<<"items", "[]">>, "eq", {"a"}), Or(Facet(K("n"), "lte", {"0"}))>>),
    With(<<Facet(K("plan"), "eq", {"1"})>>),
    With(<<Facet(<<"items", "[]", "parts", "[]", "sku">>, "eq", {"a"})>>),
    With(<<Facet(K("name"), "contains", {"ge"})>>),
    With(<<Facet(K("kind"), "eq", {"span"})>>),
    With(<<Facet(K("region"), "eq", {"eu"}), Or(Facet(K("n"), "eq", {"5"}))>>),
    With(<<Facet(K("n"), "gt", {"many"})>>),
    With(<<Facet(<<"items", "[]", "[]">>, "exists", {})>>),
    With(<<[Sku("a") EXCEPT !.scope = <<"[]">>]>>),
    [All EXCEPT !.group = <<"[]", "items">>, !.value = "a"]})

\* Lists of some of them are followed, through the promotions of two definitions.
Followed == {All, [All EXCEPT !.direction = "asc"],
             [All EXCEPT !.direction = "asc", !.limit = 1, !.range = [from |-> 30, to |-> 65]],
             [All EXCEPT !.group = K("plan"), !.value = "pro"],
             [All EXCEPT !.text = "pa"],
             With(<<Not(Sku("a")), Facet(K("plan"), "in", {"pro", "5"})>>),
             With(<<Facet(K("plan"), "eq", {"true"})>>),
             With(<<Not(Facet(K("n"), "exists", {})), Facet(K("tags"), "eq", {"x"})>>),
             With(<<Not(Facet(K("tags"), "eq", {"x"})), Facet(K("n"), "lt", {"7"}), Or(Facet(K("user_id"), "eq", {"7"}))>>)}
FollowedLists == list.pages # <<>> => list.request \in Followed /\ promoted \subseteq {PlanByPath, Labels}

MCGroupings ==
    {[All EXCEPT !.group = g] : g \in {K("event_type"), K("name"), K("user_id"), K("plan"), K("tags"), K("signal"), K("kind"), K("n")}}
        \union {[All EXCEPT !.group = K("name"), !.range = [from |-> 60, to |-> 119]],
                [All EXCEPT !.group = K("plan"), !.range = [from |-> 40, to |-> 99]]}

MCAnchors == Normal({[at |-> 65, id |-> 4], [at |-> 30, id |-> 0]})
===============================================================================
