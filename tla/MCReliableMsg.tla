--------------------------- MODULE MCReliableMsg ---------------------------
(* Nodes are interchangeable, and so are messages before they have a number. *)
EXTENDS ReliableMsg, TLC

Perms == Permutations(Nodes) \cup Permutations(Msgs)
=============================================================================
