--------------------------- MODULE SnapshotReads ---------------------------
(***************************************************************************)
(* Lock-free reads under the Sequencer: reader threads run                 *)
(* NEDB.execute pinned to committed_seq while the committer thread is      *)
(* inside apply_op.  The grain is what the interpreter lock leaves atomic: *)
(* one dict or list operation.  A document is told apart by the one value  *)
(* that queries ask for, which is also its one search token.               *)
(***************************************************************************)
EXTENDS Integers, Sequences, FiniteSets, FiniteSetsExt

CONSTANTS Keys, Docs, NIL,    \* NIL: a delete's tombstone
          Readers,
          MaxOps,             \* bound: ops in the log
          MaxBatch            \* ops between two publications of committed_seq

ASSUME ReadsAssumption == NIL \notin Docs /\ MaxOps \in Nat /\ MaxBatch \in Nat

VARIABLES
  ops,            \* the log: [key, val]
  v, seqs,        \* MVCCStore._v and _seqs, << >> for a key that is not in the dict
  inv,            \* Indexes.inv of one search field: (token, key) pairs
  committed_seq,
  batched,        \* ops applied since the last publication
  cpc,            \* the committer: "idle", or the step of apply_op it takes next
  rd              \* the readers

store == <<v, seqs, inv>>
vars  == <<ops, store, committed_seq, batched, cpc, rd>>

NoKey == NIL

Resting == [pc |-> "idle", kind |-> "scan", want |-> NIL, pin |-> -1,
            todo |-> {}, key |-> NoKey, at |-> 0, found |-> {}]

Init ==
  /\ ops = << >> /\ v = [k \in Keys |-> << >>] /\ seqs = [k \in Keys |-> << >>]
  /\ inv = {} /\ committed_seq = -1 /\ batched = 0 /\ cpc = "idle"
  /\ rd = [r \in Readers |-> Resting]

-----------------------------------------------------------------------------
(* The committer: _commit_batch around apply_op.                            *)

Current == ops[Len(ops)]
Old(k)  == IF v[k] = << >> THEN NIL ELSE v[k][Len(v[k])].val

LogOp(k, val) ==
  /\ cpc = "idle" /\ Len(ops) < MaxOps /\ batched < MaxBatch
  /\ ops' = Append(ops, [key |-> k, val |-> val])
  /\ cpc' = "unindex"
  /\ UNCHANGED <<store, committed_seq, batched, rd>>

\* indexes.remove(coll, key, old)
Unindex ==
  /\ cpc = "unindex"
  /\ inv' = inv \ {<<Old(Current.key), Current.key>>}
  /\ cpc' = "write1"
  /\ UNCHANGED <<ops, v, seqs, committed_seq, batched, rd>>

\* Mutant: the list of seqs is forgotten.
AppendChainOnly(list) ==
  /\ v' = IF list = "chain"
          THEN [v EXCEPT ![Current.key] = Append(@, [seq |-> Len(ops) - 1, val |-> Current.val])]
          ELSE v
  /\ UNCHANGED seqs

\* MVCCStore.put and delete append to _v, then to _seqs.
AppendTo(list) ==
  IF list = "chain"
  THEN /\ v' = [v EXCEPT ![Current.key] = Append(@, [seq |-> Len(ops) - 1, val |-> Current.val])]
       /\ UNCHANGED seqs
  ELSE /\ seqs' = [seqs EXCEPT ![Current.key] = Append(@, Len(ops) - 1)]
       /\ UNCHANGED v

Write1 == cpc = "write1" /\ AppendTo("chain") /\ cpc' = "write2"
          /\ UNCHANGED <<ops, inv, committed_seq, batched, rd>>

Write2 == cpc = "write2" /\ AppendTo("seqs") /\ cpc' = "index"
          /\ UNCHANGED <<ops, inv, committed_seq, batched, rd>>

\* Mutant: a document whose text is in the index already is not added again.
IndexOnce ==
  /\ cpc = "index"
  /\ inv' = IF Current.val = NIL \/ \E e \in inv : e[1] = Current.val THEN inv
            ELSE inv \cup {<<Current.val, Current.key>>}
  /\ cpc' = "idle" /\ batched' = batched + 1
  /\ UNCHANGED <<ops, v, seqs, committed_seq, rd>>

\* indexes.add(coll, key, doc), for a put
Index ==
  /\ cpc = "index"
  /\ inv' = IF Current.val = NIL THEN inv ELSE inv \cup {<<Current.val, Current.key>>}
  /\ cpc' = "idle" /\ batched' = batched + 1
  /\ UNCHANGED <<ops, v, seqs, committed_seq, rd>>

Publish ==
  /\ cpc = "idle" /\ batched > 0
  /\ committed_seq' = Len(ops) - 1 /\ batched' = 0
  /\ UNCHANGED <<ops, store, cpc, rd>>

-----------------------------------------------------------------------------
(* A reader: Sequencer.query and execute.                                   *)

LogHead == Len(ops) - 1               \* mutant: read at HEAD
Pinned == committed_seq             \* plan["as_of"]

Begin(r, kind, d) ==
  /\ rd[r].pc = "idle"
  /\ rd' = [rd EXCEPT ![r] = [Resting EXCEPT !.pc = "plan", !.kind = kind, !.want = d, !.pin = Pinned]]
  /\ UNCHANGED <<ops, store, committed_seq, batched, cpc>>

\* Candidate keys: every key of _v for a scan, the postings for a SEARCH.
Candidates(r) ==
  /\ rd[r].pc = "plan"
  /\ rd' = [rd EXCEPT ![r].pc = "next",
                      ![r].todo = IF rd[r].kind = "scan"
                                  THEN {k \in Keys : v[k] # << >>}
                                  ELSE {k \in Keys : <<rd[r].want, k>> \in inv}]
  /\ UNCHANGED <<ops, store, committed_seq, batched, cpc>>

\* MVCCStore.get(key, as_of): chain = self._v.get(key)
Fetch(r, k) ==
  /\ rd[r].pc = "next" /\ k \in rd[r].todo
  /\ rd' = [rd EXCEPT ![r].todo = @ \ {k},
                      ![r].key = k,
                      ![r].pc = IF v[k] = << >> THEN "next" ELSE "bisect"]
  /\ UNCHANGED <<ops, store, committed_seq, batched, cpc>>

\* bisect_right(self._seqs[key], as_of): KeyError when _seqs has no such key
Bisect(r) ==
  LET i == Cardinality({n \in 1..Len(seqs[rd[r].key]) : seqs[rd[r].key][n] <= rd[r].pin}) IN
  /\ rd[r].pc = "bisect"
  /\ rd' = [rd EXCEPT ![r].at = i,
                      ![r].pc = IF seqs[rd[r].key] = << >> THEN "raised"
                                ELSE IF i = 0 THEN "next" ELSE "load"]
  /\ UNCHANGED <<ops, store, committed_seq, batched, cpc>>

\* A scan keeps the document that passes the WHERE predicate; a SEARCH with an index keeps
\* every document that is there, for execute does not look for its terms again.
Kept(r, val) == IF rd[r].kind = "scan" THEN val = rd[r].want ELSE val # NIL

\* _, val = chain[i], and what execute asks of it
Load(r) ==
  /\ rd[r].pc = "load"
  /\ rd' = [rd EXCEPT ![r].pc = "next",
                      ![r].found = IF Kept(r, v[rd[r].key][rd[r].at].val)
                                   THEN @ \cup {rd[r].key} ELSE @]
  /\ UNCHANGED <<ops, store, committed_seq, batched, cpc>>

Finish(r) ==
  /\ rd[r].pc = "next" /\ rd[r].todo = {}
  /\ rd' = [rd EXCEPT ![r].pc = "done"]
  /\ UNCHANGED <<ops, store, committed_seq, batched, cpc>>

\* The thread is done with the rows, or with the exception.
Release(r) ==
  /\ rd[r].pc \in {"done", "raised"}
  /\ rd' = [rd EXCEPT ![r] = Resting]
  /\ UNCHANGED <<ops, store, committed_seq, batched, cpc>>

Read(r) ==
  \/ \E kind \in {"scan", "search"}, d \in Docs : Begin(r, kind, d)
  \/ Candidates(r) \/ (\E k \in Keys : Fetch(r, k)) \/ Bisect(r) \/ Load(r) \/ Finish(r) \/ Release(r)

Next ==
  \/ \E k \in Keys, val \in Docs \cup {NIL} : LogOp(k, val)
  \/ Unindex \/ Write1 \/ Write2 \/ Index \/ Publish
  \/ \E r \in Readers : Read(r)

Spec == Init /\ [][Next]_vars

-----------------------------------------------------------------------------
(* Properties.                                                              *)

\* The document the log gives key k as of seq s.
DocAsOf(k, s) ==
  LET w == {n \in 1..Len(ops) : n - 1 <= s /\ ops[n].key = k}
  IN  IF w = {} THEN NIL ELSE ops[Max(w)].val

Answer(r) == {k \in Keys : DocAsOf(k, rd[r].pin) = rd[r].want}

\* Snapshot isolation: a scan that runs while the committer writes returns exactly
\* the rows of the log up to the committed_seq it was pinned to.
ScansAreSnapshots ==
  \A r \in Readers : rd[r].pc = "done" /\ rd[r].kind = "scan" => rd[r].found = Answer(r)

\* SEARCH takes its candidates from the index at HEAD and only loads them as of the snapshot
\* (engine.py:565, 593): a document that it returns is in the snapshot, and a row that it
\* returns or misses wrongly is of a key that was written after the snapshot.
SearchesErrOnlyOnChanged ==
  \A r \in Readers : rd[r].pc = "done" /\ rd[r].kind = "search" =>
    /\ \A k \in rd[r].found : DocAsOf(k, rd[r].pin) # NIL
    /\ \A k \in Keys : (k \in rd[r].found) # (k \in Answer(r)) =>
         \E n \in 1..Len(ops) : n - 1 > rd[r].pin /\ ops[n].key = k

\* A reader raises only when it meets a key between the two halves of the key's very
\* first write; every other read that races a write succeeds.
RaisesOnlyOnFirstWrite ==
  [][\A r \in Readers :
       rd[r].pc # "raised" /\ rd'[r].pc = "raised" =>
         cpc = "write2" /\ rd[r].key = Current.key /\ Len(v[rd[r].key]) = 1]_vars

=============================================================================
