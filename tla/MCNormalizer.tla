---------------------------- MODULE MCNormalizer ----------------------------
(***************************************************************************)
(* Instances of Normalizer for TLC.                                        *)
(***************************************************************************)
EXTENDS Normalizer, MCValues

Good(defs) == [valid |-> TRUE, definitions |-> defs]
Bad == [valid |-> FALSE, definitions |-> {}]

\* What the ingest API publishes: a batch with a valid event that discovers
\* definitions and an invalid one, and a body that is not JSON.
MCWellFormed ==
  {[tenant |-> TRUE, body |-> <<Good(Definitions), Bad>>],
   [tenant |-> TRUE, body |-> <<>>]}

\* Another producer of the topic may omit the tenant header.
MCMessages == Normal(MCWellFormed \cup {[tenant |-> FALSE, body |-> <<Bad>>]})
=============================================================================
