------------------------------ MODULE EventData ------------------------------
(***************************************************************************)
(* The JSON of events and how tools/lakehouse-rebuild reads it: paths,     *)
(* texts, numbers, the expressions of a definition and its matcher.        *)
(*                                                                         *)
(* A path is the sequence of its parts.  A key of the top-level object is  *)
(* one too, as "a.b" may be a key; strings and numbers are themselves.     *)
(* An optional result is a set of at most one element.                     *)
(***************************************************************************)
EXTENDS Integers, FiniteSets, Sequences, SequencesExt, TLC

CONSTANT Numbers    \* the numbers of events, and those that a string is parsed for

\* The empty text, which is none.
NoText == ""

\* The text of a number is its own.
ASSUME NumbersAssumption ==
    /\ \A m, n \in Numbers : ToString(m) = ToString(n) => m = n
    /\ \A n \in Numbers :
        /\ ToString(n) \notin {NoText, "true", "false"}
        /\ ToString(n) = "0" => n = 0
        /\ ToString(n) = "1" => n = 1

Null == [t |-> "null"]
Bool(b) == [t |-> "bool", b |-> b]
Num(n) == [t |-> "num", n |-> n]
Str(s) == [t |-> "str", s |-> s]
Arr(items) == [t |-> "arr", items |-> items]
Obj(f) == [t |-> "obj", f |-> f]
Absent == [t |-> "absent"]

\* An object of a definition that stands for a path of the event.
PathExpr(path, default) == [t |-> "path", path |-> path, default |-> default]
PathOf(path) == PathExpr(path, NoText)

\* An entry of a map, and an optional entry of a definition.
Field(object, key) == IF key \in DOMAIN object.f THEN object.f[key] ELSE Absent
Entry(record, name, default) == IF name \in DOMAIN record THEN record[name] ELSE default

\* A list without the elements at other places than these, in its order.
KeptAt(list, places) ==
    [k \in 1..Cardinality(places) |->
        list[CHOOSE i \in places : Cardinality({j \in places : j <= i}) = k]]

\* value_at_path: a key that is the whole path comes first.  Where a part is
\* missing the next one is looked up in the event again.
ValueAtPath(data, path) ==
    LET Enter(current, part) ==
            CASE current.t = "obj"    -> Field(current, <<part>>)
              [] current.t = "absent" -> Field(data, <<part>>)
              [] OTHER                -> [t |-> "none"]
        found == FoldLeft(Enter, Absent, path)
    IN  IF path \in DOMAIN data.f THEN data.f[path]
        ELSE IF found.t = "none" THEN Absent ELSE found

\* string_value: only scalars have a text.
Text(v) ==
    CASE v.t = "str"  -> v.s
      [] v.t = "num"  -> ToString(v.n)
      [] v.t = "bool" -> IF v.b THEN "true" ELSE "false"
      [] OTHER        -> NoText

\* optional_number_value
NumberOf(v) ==
    CASE v.t = "num" -> {v.n}
      [] v.t = "str" -> {n \in Numbers : ToString(n) = v.s}
      [] OTHER       -> {}

\* The name of a path.
Dotted(path) == FoldLeft(LAMBDA name, part : IF name = NoText THEN part ELSE name \o "." \o part, NoText, path)

-------------------------------------------------------------------------------
(* string_expr_from_value, value_expr_from_value, number_expr_from_value,  *)
(* and what the expressions give for an event.                             *)

IsStringExpr(x) == x.t \in {"str", "num", "bool", "path"}
IsValueExpr(x) == x.t \in {"str", "num", "bool", "null", "arr", "path"}
IsNumberExpr(x) == x.t = "path" \/ NumberOf(x) # {}

EvalString(data, x) ==
    IF x.t # "path" THEN Text(x)
    ELSE LET text == Text(ValueAtPath(data, x.path)) IN IF text = NoText THEN x.default ELSE text

EvalValue(data, x) == IF x.t = "path" THEN ValueAtPath(data, x.path) ELSE x
EvalNumber(data, x) == NumberOf(EvalValue(data, x))

-------------------------------------------------------------------------------
(* Matchers: predicates [path, op, value], of which all must hold.         *)

\* json_values_equal: equal, or of the same text, as are all without one.
Equal(actual, expected) == actual = expected \/ Text(actual) = Text(expected)

Ops == {"exists", "eq", "neq", "is_number", "in"}

\* predicate_from_value drops what it does not understand.
Predicates(match) == {p \in match : p.path # <<>> /\ Entry(p, "op", "eq") \in Ops}

PredicateMatches(data, p) ==
    LET actual == ValueAtPath(data, p.path)
        expected == Entry(p, "value", Absent)
        op == Entry(p, "op", "eq")
    IN  /\ actual # Absent
        /\ op = "exists" => actual # Null
        /\ op = "eq" => expected # Absent /\ Equal(actual, expected)
        /\ op = "neq" => expected # Absent /\ ~Equal(actual, expected)
        /\ op = "is_number" => NumberOf(actual) # {}
        /\ op = "in" => /\ expected.t = "arr"
                        /\ \E i \in DOMAIN expected.items : Equal(actual, expected.items[i])

Matches(data, match) == \A p \in Predicates(match) : PredicateMatches(data, p)

-------------------------------------------------------------------------------
(* is_error_row, EventContext and minute_bucket.  An event is its          *)
(* identifier, its time in seconds and its data.                           *)

TruthyTexts == {"1", "true", "yes"}

Boolish(v) ==
    CASE v.t = "bool" -> v.b
      [] v.t = "num"  -> v.n > 0
      [] v.t = "str"  -> v.s \in TruthyTexts
      [] OTHER        -> FALSE

\* The event types that end with _error.
ErrorTypes == {"api_error"}

IsError(data) ==
    \/ Boolish(Field(data, <<"is_error">>))
    \/ Text(Field(data, <<"span_status_code">>)) = "error"
    \/ Text(Field(data, <<"event_type">>)) \in ErrorTypes

SignalForEventType(type) ==
    CASE type \in {"span", "span_start", "span_end"} -> "trace"
      [] type = "metric" -> "metric"
      [] type = "log" -> "log"
      [] type \in {"analytics", "track", "page", "screen", "identify", "group", "alias"} -> "analytics"
      [] OTHER -> "other"

Signal(data) ==
    LET stated == Text(Field(data, <<"signal">>))
    IN  IF stated # NoText THEN stated ELSE SignalForEventType(Text(Field(data, <<"event_type">>)))

Tenant(data) == Text(Field(data, <<"tenant_id">>))

MinuteBucket(at) == at - (at % 60)
===============================================================================
