------------------------- MODULE MCRequestPipeline -------------------------
(* The instances on which TLC checks RequestPipeline.                      *)
EXTENDS RequestPipeline, TLC

CONSTANTS r1, r2, ann, bob

Symmetry == Permutations(Proc) \cup Permutations(Name)

=============================================================================
