------------------------------ MODULE MCAlerts ------------------------------
(***************************************************************************)
(* Instances of Alerts for TLC.                                            *)
(***************************************************************************)
EXTENDS Alerts, MCValues

M(r, k) == [rule |-> r, key |-> k]

\* A window as long as pruning retains, and a rule that suppresses nothing but prunes.
MCWindow == [r \in Rules |-> IF r = "slow" THEN 2 ELSE 0]

MCMessages ==
  Normal({<<M("quick", "a"), M("slow", "a")>>, <<M("slow", "a"), Failure>>})
=============================================================================
