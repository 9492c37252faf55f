--------------------------- MODULE MCRateLimiter ---------------------------
(***************************************************************************)
(* RateLimiter with the sizes of the .cfg file.                            *)
(***************************************************************************)
EXTENDS RateLimiter, TLC

\* The endpoints refill at one token a second, the global bucket at two.
MCRate == [l \in Labels |-> IF l = Global THEN 2 ELSE 1]

Symmetry == Permutations(Threads)
=============================================================================
