--------------------------- MODULE MCSchemaSqlCopy ---------------------------
(* Finite instances of SchemaSqlCopy. *)
EXTENDS SchemaSqlCopy, TLC

CONSTANTS c1, c2, c3, t1, t2, view, fk, trigger, grant, schema, connect, resource

Parent == [f \in Refs |-> t1]

Symmetry == Permutations(Calls)

=============================================================================
