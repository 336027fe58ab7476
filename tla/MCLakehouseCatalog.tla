-------------------------- MODULE MCLakehouseCatalog --------------------------
(***************************************************************************)
(* Two processes with different table properties commit two batches and    *)
(* compact: three rows that need two files, one row, and a batch that does *)
(* not parse.                                                              *)
(***************************************************************************)
EXTENDS LakehouseCatalog, TLC

CONSTANTS p1, p2, b1, b2, b3

MCLines == (b1 :> <<"event", "blank", "event", "event">>)
        @@ (b2 :> <<"other", "event">>)
        @@ (b3 :> <<"event", "bad">>)

MCProps == (p1 :> "default") @@ (p2 :> "maintenance")
===============================================================================
