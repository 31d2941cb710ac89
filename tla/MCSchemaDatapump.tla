-------------------------- MODULE MCSchemaDatapump --------------------------
(* Finite instances of SchemaDatapump. *)
EXTENDS SchemaDatapump, TLC

CONSTANTS c1, c2, s1, s2, x, y, target

Symmetry == Permutations(Calls) \cup Permutations(Schemas) \cup Permutations(Sources)

=============================================================================
