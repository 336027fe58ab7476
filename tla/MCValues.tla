------------------------------- MODULE MCValues -------------------------------
(***************************************************************************)
(* How the instances state constants whose elements are records and sets.  *)
(* TLC takes such elements into the actions of a specification before its  *)
(* workers start, and brings a record or a set to its normal form in place *)
(* when it is first compared: Normal(S), which is S, compares each element *)
(* before the workers share it.                                            *)
(***************************************************************************)

Normal(S) == {x \in S : x = x}
===============================================================================
