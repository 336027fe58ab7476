------------------------------ MODULE AlertRules ------------------------------
(***************************************************************************)
(* How apps/alerts reads the configurations of alerts.  The worker takes   *)
(* the rules of all tenants or, when one of them cannot be read, none.     *)
(*                                                                         *)
(* A condition is [path, op, value, pattern]; Regexes are the patterns     *)
(* that compile.                                                           *)
(***************************************************************************)
EXTENDS EventData

CONSTANT Regexes

Compiles(pattern) == pattern \in Regexes

\* parse_condition looks at the pattern of a regular expression only.
ParsesCondition(c) ==
    /\ c.path # <<>>
    /\ Entry(c, "op", "eq") = "regex" => "pattern" \in DOMAIN c /\ Compiles(c.pattern)

\* AlertRule::try_from with parse_matcher and parse_notifications.
Parses(config) ==
    /\ \A c \in Entry(config, "all", {}) \union Entry(config, "any", {}) : ParsesCondition(c)
    /\ Entry(config, "severity", "warning") \in {"info", "warning", "critical"}
    /\ Entry(config, "regex", NoText) # NoText => Compiles(config.regex)
    /\ \A w \in Entry(config, "webhooks", {}) : Entry(w, "url", NoText) # NoText

\* load_alert_rules: the first error is the result.
LoadAlertRules(configs) == IF \A c \in configs : Parses(c) THEN configs ELSE {}

===============================================================================
