----------------------------- MODULE Documents -----------------------------
(***************************************************************************)
(* One collection of documents as queries see it: execute() with its index *)
(* and scan paths and TRACE, create_index, AutoIndexDB, and the statements *)
(* of sql.py.  Threads are threads that use one engine: a call reads, and  *)
(* then does its writes one after the other, with the writes of other      *)
(* threads between them.  A sequence number is a position in ops.          *)
(***************************************************************************)
EXTENDS Integers, Sequences, FiniteSets, SequencesExt

CONSTANTS Threads,
          Ids,          \* ids of the collection; a key is "coll:id"
          Fields,       \* the fields of documents besides _id and _caused_by
          Indexed,      \* the field that gets an index
          Numbers,
          Puts,         \* the documents a caller gives to put: [vals, own, causes]
          Threshold,    \* of AutoIndexDB
          NIL,
          MaxOps        \* bound

ASSUME DocumentsAssumption ==
  /\ Indexed \in Fields /\ "_id" \notin Fields /\ "_caused_by" \notin Fields
  /\ Numbers \subseteq Nat /\ Threshold \in Nat \ {0} /\ MaxOps \in Nat

VARIABLES
  ops,       \* the log: [do, id, doc, caused_by]
  store,     \* version chains: id -> sequence of [seq, val]
  config,    \* whether the field Indexed has an equality index
  eq,        \* the index: pairs <<value, id>>
  counts, created,   \* AutoIndexDB._counts and _created
  calls,     \* what each thread is at
  unfit      \* history: adding to or removing from the index raised TypeError

engine == <<ops, store, eq, unfit>>
auto   == <<counts, created>>
vars   == <<engine, config, auto, calls>>

\* Values are tagged: the types of Python, as far as comparisons tell them apart.
MISSING == <<"missing">>     \* the field is not there
Null    == <<"null">>
Num(n)  == <<"num", n>>
List(s) == <<"list">> \o s

IsList(v)   == v[1] = "list"
IsNum(v)    == v[1] = "num"
Elements(v) == {Num(n) : n \in Range(Tail(v))}

Doc(id, vals, causes) ==
  [f \in {"_id", "_caused_by"} \cup Fields |->
     CASE f = "_id" -> id [] f = "_caused_by" -> causes [] OTHER -> vals[f]]

Resting == [kind |-> "idle", writes |-> << >>]

Init ==
  /\ ops = << >> /\ store = [i \in Ids |-> << >>] /\ config = FALSE /\ eq = {} /\ unfit = FALSE
  /\ counts = 0 /\ created = FALSE
  /\ calls = [t \in Threads |-> Resting]

-----------------------------------------------------------------------------
(* Reads.                                                                   *)

\* MVCCStore.get with and without as_of
GetAt(id, s) ==
  LET upto == {i \in DOMAIN store[id] : store[id][i].seq <= s}
  IN  IF upto = {} THEN NIL ELSE store[id][CHOOSE i \in upto : \A j \in upto : j <= i].val

Get(id) == IF store[id] = << >> THEN NIL ELSE Last(store[id]).val

Live == {id \in Ids : Get(id) # NIL}

\* doc.get(f): None for a field that is not there.
Field(doc, f) == IF doc[f] = MISSING THEN Null ELSE doc[f]

\* query.cmp; comparing values of two types raises TypeError, which makes it FALSE.
Compare(a, op, b) ==
  CASE op = "="  -> a = b
    [] op = "!=" -> a # b
    [] OTHER     -> /\ IsNum(a) /\ IsNum(b)
                    /\ CASE op = "<" -> a[2] < b[2]   [] op = ">" -> a[2] > b[2]
                         [] op = "<=" -> a[2] <= b[2] [] op = ">=" -> a[2] >= b[2]

\* The candidates: from the equality index for a condition that has one, at HEAD only.
Candidates(where, s) ==
  LET keyed == {w \in where : w.op = "=" /\ w.f = Indexed /\ config}
  IN  IF s = Len(ops) /\ keyed # {}
      THEN LET w == CHOOSE x \in keyed : TRUE IN {id \in Ids : <<w.v, id>> \in eq}
      ELSE {id \in Ids : GetAt(id, s) # NIL}

Holds(doc, where) == \A w \in where : Compare(Field(doc, w.f), w.op, w.v)

\* execute(): candidates, then the predicate on the document of the time.
Execute(where, s) ==
  {id \in Candidates(where, s) : GetAt(id, s) # NIL /\ Holds(GetAt(id, s), where)}

\* The same answer without indexes.
Scan(where, s) == {id \in Ids : GetAt(id, s) # NIL /\ Holds(GetAt(id, s), where)}

\* Mutant: TRACE looks causes up at HEAD.
VersionNow(s) == Get(ops[s].id)

\* The document a cause refers to: the version that its op wrote.
VersionAt(s) == GetAt(ops[s].id, s)

\* The op a cause names, if its document can be had.
Written(s) == s \in DOMAIN ops /\ ops[s].do = "put" /\ VersionAt(s) # NIL

\* TRACE caused_by: the frontier loop, from documents to the ops that caused them.
TraceBack(doc) ==
  LET RECURSIVE walk(_, _)
      walk(frontier, visited) ==
        IF frontier = << >> THEN visited
        ELSE LET causes == Last(frontier)["_caused_by"] \ visited
                 docs   == SetToSeq({VersionAt(s) : s \in {c \in causes : Written(c)}})
             IN  walk(Front(frontier) \o docs, visited \cup causes)
  IN  {s \in walk(<<doc>>, {}) : Written(s)}

\* cause_map: which ops name s as a cause.
Effects(s) == {d \in DOMAIN ops : s \in ops[d].caused_by}

\* The last op that wrote the document's _id.
LastPut(doc) ==
  LET wrote == {s \in DOMAIN ops : ops[s].do = "put" /\ ops[s].id = doc["_id"]}
  IN  {s \in wrote : \A r \in wrote : r <= s}

\* TRACE caused_by REVERSE: breadth first, through documents that are still there.
TraceForward(doc) ==
  LET shown(d) == ops[d].do = "put" /\ Get(ops[d].id) # NIL
      RECURSIVE walk(_, _)
      walk(queue, visited) ==
        IF queue = << >> THEN visited
        ELSE LET fresh == Effects(Head(queue)) \ visited
             IN  walk(Tail(queue) \o SetToSeq({d \in fresh : shown(d)}), visited \cup fresh)
  IN  {d \in walk(SetToSeq(LastPut(doc)), {}) : shown(d)}

-----------------------------------------------------------------------------
(* Writes of the engine: one op each, applied as apply_op does.             *)

\* An equality index cannot hold a list: hashing it raises TypeError.
Unhashable(doc) == doc # NIL /\ config /\ IsList(doc[Indexed])

Entry(id, doc) == IF doc = NIL \/ doc[Indexed] = MISSING THEN {} ELSE {<<doc[Indexed], id>>}

\* put and delete (doc = NIL): the log takes the op, then the old document leaves the
\* index, the store gets the new one, and the index too.
WriteOp(id, doc, causes) ==
  LET old == Get(id) IN
  /\ Len(ops) < MaxOps
  /\ ops' = Append(ops, [do |-> IF doc = NIL THEN "delete" ELSE "put", id |-> id,
                         doc |-> doc, caused_by |-> causes])
  /\ unfit' = (unfit \/ Unhashable(old) \/ Unhashable(doc))
  /\ store' = IF Unhashable(old) THEN store
              ELSE [store EXCEPT ![id] = Append(@, [seq |-> Len(ops) + 1, val |-> doc])]
  /\ eq' = IF ~config \/ Unhashable(old) THEN eq
           ELSE (eq \ Entry(id, old)) \cup (IF Unhashable(doc) THEN {} ELSE Entry(id, doc))

\* Mutant: the index starts empty.
BackfillNothing(ids) == {}

\* create_index puts the documents there are into the index.
Backfill(ids) == UNION {Entry(id, Get(id)) : id \in ids}

\* NEDB.create_index for an equality index: a list stops it half way, with the index
\* registered.  (An ordered index is kept up but no query uses it.)
CreateIndex ==
  LET lists == {id \in Live : IsList(Get(id)[Indexed])} IN
  /\ config' = TRUE
  /\ \E ids \in (IF lists = {} THEN {Live} ELSE SUBSET (Live \ lists)) : eq' = eq \cup Backfill(ids)
  /\ unfit' = (unfit \/ lists # {})
  /\ UNCHANGED <<ops, store, calls>>

Index == CreateIndex /\ UNCHANGED auto

\* AutoIndexDB.query with an equality on the field.  When create_index raises, the index
\* is not recorded as created, and the next query tries again.
AutoQuery ==
  /\ ~created
  /\ counts' = IF counts < Threshold THEN counts + 1 ELSE counts
  /\ IF counts' >= Threshold
     THEN CreateIndex /\ created' = (\A id \in Live : ~IsList(Get(id)[Indexed]))
     ELSE UNCHANGED <<engine, config, created, calls>>

-----------------------------------------------------------------------------
(* Calls: what they read, and the writes they then do.                      *)

PutOf(id, doc)  == [id |-> id, doc |-> doc, causes |-> {}]
DeleteOf(id)    == [id |-> id, doc |-> NIL, causes |-> {}]

\* A call has read what it needs; it returns at once if it has nothing to write.
Starts(t, kind, writes) ==
  /\ calls[t] = Resting
  /\ Len(ops) + Len(writes) <= MaxOps
  /\ calls' = [calls EXCEPT ![t] = IF writes = << >> THEN Resting
                                   ELSE [kind |-> kind, writes |-> writes]]
  /\ UNCHANGED <<engine, config, auto>>

\* A call of one write that reads nothing first, from any thread.
Direct(id, doc, causes) == WriteOp(id, doc, causes) /\ UNCHANGED <<config, auto, calls>>

\* put(coll, id, doc, caused_by): a document keeps the _id it has (p.own), and _caused_by
\* in the document mirrors the op's.
Put(id, p) == Direct(id, Doc(IF p.own = NIL THEN id ELSE p.own, p.vals, p.causes), p.causes)

\* sql.py: INSERT puts the row, UPDATE merges into the row or into nothing, DELETE deletes.
SqlInsert(id, p) == Direct(id, Doc(id, p.vals, {}), {})

SqlDelete(id) == Direct(id, NIL, {})

SqlUpdate(t) ==
  \E id \in Ids, n \in Numbers :
    LET none == Doc(id, [f \in Fields |-> MISSING], {})
        row  == IF Get(id) = NIL THEN none ELSE Get(id)
    IN  Starts(t, "put", << PutOf(id, [row EXCEPT ![Indexed] = Num(n), !["_id"] = id]) >>)

\* The next write of a call; the last one is its return.  One that raises ends the call.
Step(t) ==
  /\ calls[t].writes # << >>
  /\ LET w == Head(calls[t].writes) IN
     /\ WriteOp(w.id, w.doc, w.causes)
     /\ calls' = [calls EXCEPT ![t] =
          IF Len(@.writes) = 1 \/ Unhashable(Get(w.id)) \/ Unhashable(w.doc)
          THEN Resting ELSE [@ EXCEPT !.writes = Tail(@)]]
  /\ UNCHANGED <<config, auto>>

-----------------------------------------------------------------------------
(* Properties.                                                              *)

\* Equalities on the indexed field, alone and with a second condition.
Wheres ==
  LET is(n) == [f |-> Indexed, op |-> "=", v |-> Num(n)]
  IN  {{is(n)} : n \in Numbers} \cup {{is(n), [f |-> f, op |-> "!=", v |-> Null]} : n \in Numbers, f \in Fields \ {Indexed}}

\* An index, declared or created by AutoIndexDB, before, between or after writes, never
\* changes the answer of a query at any sequence number, unless a list met the index or
\* the query asks for null, which the index has only where the field is there.
IndexesInvisible ==
  ~unfit => \A where \in Wheres, s \in 0..Len(ops) : Execute(where, s) = Scan(where, s)

\* TRACE and TRACE REVERSE agree: an op that TRACE REVERSE finds from a document, at any
\* number of steps, is one from whose document TRACE finds that document's op.
TraceBothWays ==
  ~unfit =>
    \A id \in Live : \A d \in TraceForward(Get(id)) : LastPut(Get(id)) \subseteq TraceBack(ops[d].doc)

=============================================================================
