------------------------------ MODULE MCDaemon ------------------------------
(***************************************************************************)
(* Daemon with one database name and two request threads.                  *)
(***************************************************************************)
EXTENDS Daemon, TLC

CONSTANTS n1, t1, t2

Interchangeable == Permutations(Threads)

=============================================================================
