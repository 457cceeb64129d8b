------------------------------ MODULE MCDagDb ------------------------------
(***************************************************************************)
(* DagDb with two threads and two documents.                               *)
(***************************************************************************)
EXTENDS DagDb, TLC

CONSTANTS t1, t2, d1, d2

\* A put may lack the indexed field; the documents of a batch have it.
PutsAndFullBatches == {<< TRUE >>, << FALSE >>, << TRUE, TRUE >>}

Interchangeable == Permutations(Threads) \cup Permutations(Docs)

=============================================================================
