--------------------------- MODULE MCRedisLimiter ---------------------------
(* The requests of one client are interchangeable.                         *)
EXTENDS RedisLimiter, TLC

Symmetry == Permutations(Request)
=============================================================================
