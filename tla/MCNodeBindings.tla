--------------------------- MODULE MCNodeBindings ---------------------------
(* NodeBindings with more node ids than the capacity, so that pool,        *)
(* reservation and legacy Workers compete for slots, and with enough       *)
(* generations for a Worker to be bound, recycled and bound again while    *)
(* identities of its first generation are still held.                      *)
EXTENDS NodeBindings, TLC

Symmetry == Permutations(Nodes) \cup Permutations(Topics)
=============================================================================
