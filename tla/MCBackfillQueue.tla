-------------------------- MODULE MCBackfillQueue --------------------------
(***************************************************************************)
(* Instances of BackfillQueue for TLC.                                     *)
(***************************************************************************)
EXTENDS BackfillQueue

\* All the chunks belong to one job.
MCJobOf == [c \in Chunks |-> CHOOSE j \in Jobs : TRUE]
=============================================================================
