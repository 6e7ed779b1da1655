--------------------------- MODULE RateLimiterMC ---------------------------
(***************************************************************************)
(* Small instances of RateLimiter: two tokens in three ticks, so that both *)
(* a fraction of a token and a whole one come together between requests.   *)
(***************************************************************************)
EXTENDS RateLimiter, TLC

CONSTANTS c1, c2

\* The limiter treats all clients alike.
ClientSymmetry == Permutations({c1, c2})
=============================================================================
