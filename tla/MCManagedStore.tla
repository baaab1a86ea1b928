--------------------------- MODULE MCManagedStore ---------------------------
(* Two operators and two customers; one subject the seed lets be contacted, *)
(* one that only a later table protects, one of the neighbour tenant.       *)
EXTENDS ManagedStore, TLC

CONSTANTS op1, op2, brand, group

MCFold == [p \in {Marketing, Blank} |-> p]

MCSymmetry == Permutations({op1, op2}) \cup Permutations({brand, group})
=============================================================================
