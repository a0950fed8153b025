--------------------------- MODULE MCEntityStore ---------------------------
(* EntityStore for TLC: nodes and mutations are interchangeable.            *)
EXTENDS EntityStore, TLC

Symmetry == Permutations(Nodes) \cup Permutations(Mutations)
=============================================================================
