------------------------------ MODULE EventTable ------------------------------
(***************************************************************************)
(* What the lakehouse promises of its events table: a batch of rows is     *)
(* appended at most once, whole, it stays readable, and its writer is told *)
(* of success only afterwards.  Maintenance does not show here: compaction *)
(* is a stuttering step.                                                   *)
(***************************************************************************)
EXTENDS Naturals

CONSTANT Batches            \* source batches, nanotrace.source-batch-id

VARIABLES readable,         \* batches whose rows a scan returns
          answered          \* batches whose writer was answered with a commit

tableVars == <<readable, answered>>

Init == readable = {} /\ answered = {}

Append(b) ==
    /\ b \notin readable
    /\ readable' = readable \union {b}
    /\ UNCHANGED answered

Answer(b) ==
    /\ b \in readable
    /\ answered' = answered \union {b}
    /\ UNCHANGED readable

Next == \E b \in Batches : Append(b) \/ Answer(b)

Spec == Init /\ [][Next]_tableVars

===============================================================================
