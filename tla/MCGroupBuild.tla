---------------------------- MODULE MCGroupBuild ----------------------------
(* Model-checking instance of GroupBuild.                                   *)
EXTENDS GroupBuild, TLC

Symmetry == Permutations(Workers) \cup Permutations(Contents)

=============================================================================
