---------------------------- MODULE MCExactStats ----------------------------
(* Finite instances of ExactStats; the cfg files choose the requests. *)
EXTENDS ExactStats, TLC

CONSTANTS a, c, r1, r2, p1, f1

\* Connections a and c map to one file name, as "DWH.A" and "DWH_A" do.
MCFileOf == [n \in Conns |-> f1]

Ask(p, ns, res, unl, lock) ==
  [proc |-> p, conns |-> ns, resume |-> res, unlock |-> unl, lockedOnly |-> lock]

\* One connection, successive runs of one process.
Successive == {Ask(p1, {a}, res, TRUE, lock) : res \in BOOLEAN, lock \in BOOLEAN}

\* Two connections of one run that share a progress file.
TwoConnections == {Ask(p1, {a, c}, res, TRUE, FALSE) : res \in BOOLEAN}

Symmetry == Permutations(Runs)

=============================================================================
