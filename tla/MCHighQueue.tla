----------------------------- MODULE MCHighQueue -----------------------------
(***************************************************************************)
(* HighQueue on small instances, with the invariant of its proofs and the  *)
(* bounded FIFO queue it implements (both of HighQueueInvariant).          *)
(***************************************************************************)
EXTENDS HighQueueInvariant, FiniteSets, TLC

Symmetry == Permutations(Producers)
=============================================================================
