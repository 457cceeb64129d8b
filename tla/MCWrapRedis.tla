---------------------------- MODULE MCWrapRedis ----------------------------
(***************************************************************************)
(* WrapRedis with two threads and two mapped keys that share a document.   *)
(***************************************************************************)
EXTENDS WrapRedis, TLC

CONSTANTS t1, t2, k1, k2, r1, d1, v1, v2, i1

SharedId == [k \in Mapped |-> d1]

Interchangeable == Permutations(Threads) \cup Permutations(Vals) \cup Permutations(Mapped)

=============================================================================
