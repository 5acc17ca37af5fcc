---------------------------- MODULE MCMemoryPool ----------------------------
(***************************************************************************)
(* MemoryPool on a small instance: two threads, four messages and three or *)
(* four blocks, as the memory is aligned.                                  *)
(***************************************************************************)
EXTENDS MemoryPool, TLC

\* Neither threads nor messages have an order.
Symmetry == Permutations(Threads) \cup Permutations(Messages)
=============================================================================
