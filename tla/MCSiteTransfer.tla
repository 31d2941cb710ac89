--------------------------- MODULE MCSiteTransfer ---------------------------
(* Finite instances of SiteTransfer and of the backlog read beside it; the *)
(* cfg files choose the calls.                                             *)
EXTENDS SiteBacklog, TLC

CONSTANTS hu, ph, x1, x2, r1, p1, p2, c1, c2, c3

Symmetry == Permutations(Calls) \cup Permutations(Serials) \cup Permutations(Pcbs)

=============================================================================
