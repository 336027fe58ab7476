--------------------------- MODULE OffsetContract ---------------------------
(***************************************************************************)
(* What a Kafka consumer of this repository promises about its committed   *)
(* offsets, whatever it does with a message.  The normalizer, the alert    *)
(* worker and the Tableflow materializer share one loop: receive, process, *)
(* commit on success, log and go on to the next message on an error.       *)
(*                                                                         *)
(* A message is settled when all its durable effects exist and abandoned   *)
(* when an attempt to process it returned an error.  A committed offset    *)
(* passes only messages of the two kinds.                                  *)
(***************************************************************************)
EXTENDS Naturals

CONSTANT Partitions      \* the partitions of the consumed topic

VARIABLES
  length,                \* length[p]: messages published to partition p
  settled,               \* messages whose durable effects all exist
  abandoned,             \* messages some attempt to process returned an error for
  committed              \* committed[p]: the offset the group resumes from

vars == <<length, settled, abandoned, committed>>

\* A message is a partition and an offset.
Published == UNION {{<<p, o>> : o \in 0 .. length[p] - 1} : p \in Partitions}

Init ==
  /\ length = [p \in Partitions |-> 0]
  /\ settled = {}
  /\ abandoned = {}
  /\ committed = [p \in Partitions |-> 0]

\* A message that asks for no effect is settled from the start.
Publish(p) ==
  /\ length' = [length EXCEPT ![p] = @ + 1]
  /\ settled' \in {settled, settled \cup {<<p, length[p]>>}}
  /\ UNCHANGED <<abandoned, committed>>

\* Progress on published messages; neither set ever shrinks.
Process ==
  /\ settled \subseteq settled'
  /\ abandoned \subseteq abandoned'
  /\ settled' \subseteq Published
  /\ abandoned' \subseteq Published
  /\ UNCHANGED <<length, committed>>

Commit(p) ==
  /\ committed'[p] \in 0 .. length[p]
  /\ committed' = [committed EXCEPT ![p] = committed'[p]]
  /\ \A o \in 0 .. committed'[p] - 1 : <<p, o>> \in settled \cup abandoned
  /\ UNCHANGED <<length, settled, abandoned>>

Next ==
  \/ \E p \in Partitions : Publish(p) \/ Commit(p)
  \/ Process

Spec == Init /\ [][Next]_vars
=============================================================================
