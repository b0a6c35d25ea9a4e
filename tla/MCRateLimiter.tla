--------------------------- MODULE MCRateLimiter ---------------------------
(* The instance on which TLC checks RateLimiter.                           *)
EXTENDS RateLimiter, TLC

CONSTANTS s1, r1, r2

Symmetry == Permutations(Request)

=============================================================================
