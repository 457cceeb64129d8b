---------------------------- MODULE Materialized ----------------------------
(***************************************************************************)
(* The state NEDB folds its log into: the MVCC store (store.py), the       *)
(* relations (relations.py), an equality and an ordered index on one field *)
(* (index.py) and the causal reverse index (engine.py), with apply_op,     *)
(* which folds one op into them.                                           *)
(***************************************************************************)
EXTENDS OpLog

CONSTANTS Keys,         \* document keys "coll:id" of one collection
          Docs,         \* documents, told apart by the value of the indexed field
          Unhashable,   \* the documents whose indexed field Python cannot hash (a list, a dict)
          Texts,        \* the documents whose indexed field is a str, the other hashable ones hold numbers
          Unserialisable, \* the documents json.dumps refuses (canon() takes them, by str)
          Edges,        \* (frm, rel, to) triples; no frm has a '|' in its name
          Files,        \* names of versioned files
          NIL           \* None: no such document, and a tombstone's value

ASSUME DocsAssumption ==
  /\ NIL \notin Docs /\ Unhashable \subseteq Docs /\ Unserialisable \subseteq Docs
  /\ Texts \subseteq Docs \ Unhashable

LIVE == -1              \* removed_seq = None: the edge is still there

\* MVCCStore.put, and MVCCStore.delete with the tombstone as value.
StorePut(store, key, val, seq) ==
  [store EXCEPT ![key] = Append(@, [seq |-> seq, val |-> val])]

\* MVCCStore.get without as_of: the last version of the chain.
Get(store, key) ==
  IF store[key] = << >> THEN NIL ELSE store[key][Len(store[key])].val

\* MVCCStore.get with as_of: bisect_right on the chain's (ascending) seqs.
GetAsOf(store, key, s) ==
  LET at == {j \in 1..Len(store[key]) : store[key][j].seq <= s}
  IN  IF at = {} THEN NIL ELSE store[key][Max(at)].val

\* Relations.link: nothing when the edge is live, else a new interval.
RelLink(rels, e, seq) ==
  IF \E j \in 1..Len(rels[e]) : rels[e][j].removed = LIVE
  THEN rels
  ELSE [rels EXCEPT ![e] = Append(@, [added |-> seq, removed |-> LIVE])]

\* Relations.unlink: close every live interval of the edge.
RelUnlink(rels, e, seq) ==
  [rels EXCEPT ![e] =
     [j \in 1..Len(rels[e]) |->
        IF rels[e][j].removed = LIVE
        THEN [rels[e][j] EXCEPT !.removed = seq] ELSE rels[e][j]]]

\* Relations._live without and with as_of.
Linked(rels, e) == \E j \in 1..Len(rels[e]) : rels[e][j].removed = LIVE

LinkedAsOf(rels, e, s) ==
  \E j \in 1..Len(rels[e]) :
     /\ rels[e][j].added <= s
     /\ rels[e][j].removed = LIVE \/ rels[e][j].removed > s

\* Indexes.add and Indexes.remove for one eq index, a set of (value, key) pairs.
IndexAdd(eq, indexed, key, doc) == IF indexed THEN eq \cup {<<doc, key>>} ELSE eq

IndexRemove(eq, indexed, key, doc) == IF indexed THEN eq \ {<<doc, key>>} ELSE eq

\* The ordered index is a sorted list of (value, key), which may repeat an entry:
\* how often it holds each.  Values that bisect cannot compare, lists and dicts,
\* are not put in.
NoneSorted == [p \in Docs \X Keys |-> 0]

SortAdd(sorted, p) == [sorted EXCEPT ![p] = @ + 1]

SortRemove(sorted, p) == [sorted EXCEPT ![p] = IF @ = 0 THEN 0 ELSE @ - 1]

\* bisect.insort compares a text with the numbers of the list, or a number with its
\* texts: TypeError.
Mixes(sorted, doc) ==
  /\ doc \notin Unhashable
  /\ \E p \in Docs \X Keys : sorted[p] > 0 /\ (p[1] \in Texts) # (doc \in Texts)

-----------------------------------------------------------------------------
(* apply_op.  Hashing an unhashable field raises TypeError: while the old   *)
(* document is taken out of the index, before the store is touched, or      *)
(* while the new one is put in, after it was.  Sorting in a value of the    *)
(* other type raises last, after the equality index was updated.            *)

Writes(o, key) == o.payload.op \in {"put", "delete"} /\ o.payload.on = key

RaisesOnOld(store, indexed, o) ==
  /\ indexed
  /\ o.payload.op \in {"put", "delete"}
  /\ Get(store, o.payload.on) \in Unhashable

RaisesOnNew(indexed, o) ==
  indexed /\ o.payload.op = "put" /\ o.payload.doc \in Unhashable

\* The ordered index without the old document of the op's key.
Unsorted(store, sorted, o) ==
  LET old == Get(store, o.payload.on)
  IN  IF old = NIL THEN sorted ELSE SortRemove(sorted, <<old, o.payload.on>>)

RaisesOnSort(store, sorted, o) ==
  o.payload.op = "put" /\ Mixes(Unsorted(store, sorted, o), o.payload.doc)

ApplyRaises(store, indexed, sorted, o) ==
  RaisesOnOld(store, indexed, o) \/ RaisesOnNew(indexed, o) \/ RaisesOnSort(store, sorted, o)

AppliedStore(store, indexed, o) ==
  IF o.payload.op \in {"put", "delete"} /\ ~RaisesOnOld(store, indexed, o)
  THEN StorePut(store, o.payload.on, o.payload.doc, o.seq)
  ELSE store

AppliedIndex(store, eq, indexed, o) ==
  IF o.payload.op \notin {"put", "delete"} \/ RaisesOnOld(store, indexed, o)
  THEN eq
  ELSE LET key  == o.payload.on
           old  == Get(store, key)
           rest == IF old = NIL THEN eq ELSE IndexRemove(eq, indexed, key, old)
       IN  IF o.payload.op = "delete" \/ RaisesOnNew(indexed, o)
           THEN rest
           ELSE IndexAdd(rest, indexed, key, o.payload.doc)

AppliedSorted(store, sorted, indexed, ordered, o) ==
  IF o.payload.op \notin {"put", "delete"} \/ RaisesOnOld(store, indexed, o)
  THEN sorted
  ELSE LET rest == Unsorted(store, sorted, o)
       IN  IF /\ ordered /\ o.payload.op = "put"
              /\ o.payload.doc \notin Unhashable /\ ~Mixes(rest, o.payload.doc)
           THEN SortAdd(rest, <<o.payload.doc, o.payload.on>>)
           ELSE rest

AppliedRels(rels, o) ==
  CASE o.payload.op = "link"   -> RelLink(rels, o.payload.on, o.seq)
    [] o.payload.op = "unlink" -> RelUnlink(rels, o.payload.on, o.seq)
    [] OTHER                   -> rels

\* Mutant: cause and effect exchanged.
AppliedEffects(store, cause_map, indexed, sorted, o) ==
  cause_map \cup {<<o.seq, cause>> : cause \in o.caused_by}

AppliedCauses(store, cause_map, indexed, sorted, o) ==
  IF ApplyRaises(store, indexed, sorted, o)
  THEN cause_map
  ELSE cause_map \cup {<<cause, o.seq>> : cause \in o.caused_by}

=============================================================================
