--------------------------- MODULE MCRedisCompat ---------------------------
(***************************************************************************)
(* RedisCompat with two connections.                                       *)
(***************************************************************************)
EXTENDS RedisCompat, TLC

CONSTANTS c1, c2, s1, s2, f1, f2, m1, m2

Interchangeable == Permutations(Conns)

=============================================================================
