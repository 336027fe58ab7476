----------------------------- MODULE MCSidecar -----------------------------
(***************************************************************************)
(* An instance of Sidecar for TLC.                                         *)
(***************************************************************************)
EXTENDS Sidecar

\* Two of the larger events exceed the batch size, one of each does not.
MCSize == [e \in Events |-> IF e = 3 THEN 1 ELSE 2]
=============================================================================
