---------------------------- MODULE MCSourceBuild ----------------------------
(* Model-checking instance of SourceBuild.                                  *)
EXTENDS SourceBuild, TLC

Symmetry == Permutations(Builds)

=============================================================================
