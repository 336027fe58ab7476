----------------------------- MODULE MCApiKeys -----------------------------
(***************************************************************************)
(* Instances of ApiKeys for TLC: requests go to one of the servers, the    *)
(* others only refresh.                                                    *)
(***************************************************************************)
EXTENDS ApiKeys

MCHome == [h \in Handlers |-> "s1"]
MCOwner == [k \in Keys |-> "o1"]
============================================================================
