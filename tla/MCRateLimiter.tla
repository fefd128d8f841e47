--------------------------- MODULE MCRateLimiter ---------------------------
(* Small instances of RateLimiter for TLC. *)
EXTENDS RateLimiter, TLC

LimiterSymmetry == Permutations(IP) \cup Permutations(Req) \cup Permutations(Bucket)
=============================================================================
