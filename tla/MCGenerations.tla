--------------------------- MODULE MCGenerations ---------------------------
(* A small instance of Generations.                                         *)
EXTENDS Generations, TLC

CONSTANTS r1, r2, old, new

MCRequests == {r1, r2}
MCOne == {r1}
MCParts == {"Upstreams", "Answers"}
MCRules == {old, new}
Symmetry == Permutations(MCRequests) \cup Permutations(MCRules)
=============================================================================
