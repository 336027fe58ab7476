----------------------- MODULE MCServingMaterializer -----------------------
(***************************************************************************)
(* Instances of ServingMaterializer for TLC.                               *)
(***************************************************************************)
EXTENDS ServingMaterializer, MCValues

Batch(p, o) == [kind |-> "batch", snapshot |-> <<"kafka", p, o>>]

\* Batches of two raw partitions, a batch without events and a damaged record.
MCMessages ==
  Normal({
   Batch(0, 1), Batch(1, 0),
   [kind |-> "empty", snapshot |-> <<"kafka", 0, 2>>],
   [kind |-> "bad", snapshot |-> <<"kafka", 1, 2>>]})

Setting(writers, rebuildFrom, derived, remembered) ==
  [writers |-> writers, derived |-> derived, remembered |-> remembered,
   from |-> [w \in Writers |-> IF w = "rebuild" THEN rebuildFrom ELSE 0]]

\* The materializers of each source, and a rebuild of everything after a release or of the
\* raw events of the second commit on.
MCSeparate ==
  {Setting({"tableflow"}, 0, TRUE, 0),
   Setting({"incremental", "rebuild"}, 0, TRUE, 1),
   Setting({"incremental", "rebuild"}, 2, FALSE, 0)}
=============================================================================
