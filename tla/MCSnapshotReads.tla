-------------------------- MODULE MCSnapshotReads --------------------------
(***************************************************************************)
(* SnapshotReads with two keys, two documents and one or two readers.      *)
(***************************************************************************)
EXTENDS SnapshotReads, TLC

CONSTANTS k1, k2, d1, d2, r1, r2

Interchangeable == Permutations(Keys) \cup Permutations(Docs) \cup Permutations(Readers)

=============================================================================
