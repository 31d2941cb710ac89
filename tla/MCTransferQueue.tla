-------------------------- MODULE MCTransferQueue ---------------------------
(* Finite instances of TransferQueue. *)
EXTENDS TransferQueue, TLC

CONSTANTS n1, n2, c1, c2, c3, tl, tq

Symmetry == Permutations(Names) \cup Permutations(Calls)

=============================================================================
