---------------------------- MODULE MCAofEngine ----------------------------
(***************************************************************************)
(* AofEngine on small instances: the constants of the runs over it.        *)
(***************************************************************************)
EXTENDS AofEngine, TLC

CONSTANTS u1, k1, k2, d1, d2, t1, bad, e1, f1, i1

MCClients == {u1, TTL, SNAPSHOT}
NoCauses  == {{}}
FirstOp   == {{}, {0}}

\* Keys are interchangeable, and so are the documents of one kind.
Interchangeable ==
  Permutations(Keys) \cup Permutations(Docs \ (Unhashable \cup TtlDocs \cup Texts \cup Unserialisable))

\* For the runs whose properties do not read the history variables.
WithoutHistory == <<mode, pc, then, log, mat, aof, page, snap, meta>>

=============================================================================
