----------------------------- MODULE AofEngine -----------------------------
(***************************************************************************)
(* The durable Python engine, NEDB(path) of python/nedb/engine.py with     *)
(* snapshot.py: every operation that changes the database, the append-only *)
(* file, checkpoints, crashes at any point, and opening the database       *)
(* again.  One process uses the engine, one call at a time (concurrent.py  *)
(* puts a committer thread in front of it: module Sequencer).              *)
(*                                                                         *)
(* DeferSync is the engine's _defer_sync: FALSE is embedded use, one fsync *)
(* per op; TRUE is the committer's use, one flush per batch.               *)
(***************************************************************************)
EXTENDS Materialized

CONSTANTS DeferSync,       \* _defer_sync
          Users,           \* the callers among Clients
          TTL, SNAPSHOT,   \* the clients "__ttl__" and "__snapshot__"
          TtlDocs,         \* documents that carry an _expires_at
          Causes,          \* the caused_by lists a caller may pass, {} for None
          ExplicitNonces,  \* the nonces a caller may choose itself
          Kinds,           \* the index kinds callers ask for; "unknown" is any that is none of nedb's
          Ends,            \* how a crash may leave the last line it cuts: "torn", "bare"
          FsyncMayFail,    \* whether fsync may raise
          Clock,           \* the times (ms) a checkpoint may read; a wall clock may also step back
          MaxOps,          \* bound: ops in the log
          MaxNonce,        \* bound: nonces of callers
          MaxCopies        \* bound: how often the ordered index repeats an entry

ASSUME EngineAssumption ==
  /\ DeferSync \in BOOLEAN /\ FsyncMayFail \in BOOLEAN
  /\ Clients = Users \cup {TTL, SNAPSHOT}
  /\ TtlDocs \subseteq Docs
  /\ ExplicitNonces \subseteq Nat /\ Clock \subseteq Nat
  /\ Causes \subseteq SUBSET Nat
  /\ Kinds \subseteq {"eq", "ordered", "unknown"}
  /\ Ends \subseteq {"torn", "bare"}
  /\ MaxOps \in Nat /\ MaxNonce \in Nat /\ MaxCopies \in Nat

VARIABLES
  mode,       \* "closed", "replaying" (_open is folding the log), "healed" (it has rewritten
              \* the log), "open", "failed" (_open raised)
  pc,         \* where the one call in progress is, "idle" between calls
  then,       \* where that call goes on after its fsync
  ops, last_nonce, idem, head,            \* OpLog
  nonce,                                  \* NEDB._nonce
  store, rels, eq, indexed, cause_map,    \* the materialized state; indexed: the eq index is configured
  sorted,     \* the ordered index
  others,     \* the configured kinds besides "eq": "ordered", "unknown"
  blobs,      \* BlobStore: how many versions of each file it holds
  pos,        \* how many ops _load has folded
  aof,        \* log.aof on disk
  page,       \* lines written to the file object and not yet fsynced
  snap,       \* snapshot.json: a set, empty or with the one snapshot
  meta,       \* meta.json: the kinds it lists; {"absent"} before there is one, {"torn"} truncated
  promised,   \* history: the ops whose caller was told they are durable
  glued       \* history: the lines without newline behind which a line was written since

log  == <<ops, last_nonce, idem, head, nonce>>
mat  == <<store, rels, eq, indexed, cause_map, sorted, others, blobs, pos>>
disk == <<aof, page, snap, meta, promised, glued>>
vars == <<mode, pc, then, log, mat, disk>>

-----------------------------------------------------------------------------
(* The append-only file: a sequence of lines [op, end].  A line ends in a   *)
(* newline ("nl"); a crash can leave the last one cut short ("torn") or     *)
(* whole without its newline ("bare").  The next append then continues a    *)
(* bare line, so that neither op of it decodes any more.                    *)

IsPrefixOf(s, t) == Len(s) <= Len(t) /\ \A i \in 1..Len(s) : s[i] = t[i]

Line(o) == [op |-> o, end |-> "nl"]

Lines(os) == [i \in 1..Len(os) |-> Line(os[i])]

Decodes(f, i) == f[i].end = "nl" \/ (f[i].end = "bare" /\ i = Len(f))

\* The ops _load reads before the first line it cannot decode.
Readable(f) == Max({n \in 0..Len(f) : \A i \in 1..n : Decodes(f, i)})

Decoded(f) == [i \in 1..Readable(f) |-> f[i].op]

Corrupt(f) == Readable(f) < Len(f)

\* The lines that another one continues.
Glued(f) == {i \in 1..(Len(f) - 1) : f[i].end = "bare"}

\* Mutant: self-repair takes one op too many with the corrupt entry.
OverRepaired(f) ==
  IF Corrupt(f) THEN SubSeq(Lines(Decoded(f)), 1, Readable(f) - 1) ELSE f

\* AOF self-repair: a corrupt file is rewritten from the ops before the damage.
Repaired(f) == IF Corrupt(f) THEN Lines(Decoded(f)) ELSE f

\* Mutant: the last buffered line is not written.
ShortFlushed == aof \o SubSeq(Lines(page), 1, Len(page) - 1)

\* The file after flush and fsync.
Flushed == aof \o Lines(page)

EmptyStore == [k \in Keys |-> << >>]
EmptyRels  == [e \in Edges |-> << >>]
NoBlobs    == [f \in Files |-> 0]

\* A process that holds no database: what a crash or close() leaves in memory.
Forget ==
  /\ ops' = << >> /\ head' = GENESIS
  /\ last_nonce' = LastNonces(<< >>) /\ idem' = IdemMap(<< >>) /\ nonce' = LastNonces(<< >>)
  /\ store' = EmptyStore /\ rels' = EmptyRels /\ eq' = {} /\ indexed' = FALSE
  /\ cause_map' = {} /\ sorted' = NoneSorted /\ others' = {} /\ blobs' = NoBlobs /\ pos' = 0
  /\ page' = << >> /\ pc' = "idle" /\ then' = "idle"

Init ==
  /\ mode = "closed" /\ pc = "idle" /\ then = "idle"
  /\ ops = << >> /\ head = GENESIS
  /\ last_nonce = LastNonces(<< >>) /\ idem = IdemMap(<< >>) /\ nonce = LastNonces(<< >>)
  /\ store = EmptyStore /\ rels = EmptyRels /\ eq = {} /\ indexed = FALSE
  /\ cause_map = {} /\ sorted = NoneSorted /\ others = {} /\ blobs = NoBlobs /\ pos = 0
  /\ aof = << >> /\ page = << >> /\ snap = {} /\ meta = {"absent"} /\ promised = << >> /\ glued = {}

-----------------------------------------------------------------------------
(* Mutations.  put, delete, link, unlink, put_file, lazy expiry and         *)
(* checkpoint all go through _log_append.                                   *)

Idle == mode = "open" /\ pc = "idle"

Payload(op, on, doc) == [op |-> op, on |-> on, doc |-> doc]

Known(k) == k # NoIdem /\ idem[k] # NoSeq

Stale(c, n) == n <= last_nonce[c]

\* apply_op on the in-memory state; it may raise and leave part of it done.
Apply(o) ==
  /\ store' = AppliedStore(store, indexed, o)
  /\ rels' = AppliedRels(rels, o)
  /\ eq' = AppliedIndex(store, eq, indexed, o)
  /\ cause_map' = AppliedCauses(store, cause_map, indexed, sorted, o)
  /\ sorted' = AppliedSorted(store, sorted, indexed, "ordered" \in others, o)

\* OpLog.append returns the original op (idempotency) or raises ReplayError:
\* nothing is logged.
NotAppended(c, n, k) ==
  /\ Known(k) \/ Stale(c, n)
  /\ UNCHANGED <<ops, last_nonce, idem, head, page, store, rels, eq, cause_map, sorted, pc, then>>

\* What OpLog.append does to the log when it accepts the op.
Accepted(o, k) ==
  /\ ~Known(k) /\ ~Stale(o.client, o.nonce)
  /\ Len(ops) < MaxOps
  /\ ops' = Append(ops, o)
  /\ last_nonce' = [last_nonce EXCEPT ![o.client] = o.nonce]
  /\ idem' = IF k = NoIdem THEN idem ELSE [idem EXCEPT ![k] = o.seq]
  /\ head' = o.hash

\* The op is in the log when json.dumps raises on its document: no line is written
\* and nothing is applied.
Unwritten(c, n, payload, causes, k) ==
  /\ payload.doc \in Unserialisable
  /\ Accepted(NewOp(ops, head, c, n, payload, causes, k), k)
  /\ UNCHANGED <<page, store, rels, eq, cause_map, sorted, pc, then>>

\* OpLog.append accepts the op and _log_append writes its line.  Per-op sync
\* fsyncs before the op is applied; with deferred sync it is applied at once.
Appended(c, n, payload, causes, k, next) ==
  LET o == NewOp(ops, head, c, n, payload, causes, k) IN
  /\ payload.doc \notin Unserialisable
  /\ Accepted(o, k)
  /\ page' = Append(page, o)
  /\ IF DeferSync
     THEN Apply(o) /\ pc' = (IF ApplyRaises(store, indexed, sorted, o) THEN "idle" ELSE next)
                   /\ UNCHANGED then
     ELSE pc' = "fsync" /\ then' = next /\ UNCHANGED <<store, rels, eq, cause_map, sorted>>

LogAppend(c, n, payload, causes, k, next) ==
  \/ NotAppended(c, n, k)
  \/ Unwritten(c, n, payload, causes, k)
  \/ Appended(c, n, payload, causes, k, next)

\* The nonce argument: None takes _next(client), which counts the attempt even
\* when the op is then refused; an explicit one leaves _nonce alone.
Nonce(c, n) ==
  /\ n <= MaxNonce
  /\ \/ n = nonce[c] + 1 /\ nonce' = [nonce EXCEPT ![c] = n]
     \/ n \in ExplicitNonces /\ UNCHANGED nonce

Mutate(payload, causes, k) ==
  \E c \in Users, n \in 1..MaxNonce :
     /\ Idle
     /\ Nonce(c, n)
     /\ LogAppend(c, n, payload, causes, k, "idle")
     /\ UNCHANGED <<mode, indexed, others, pos, aof, snap, meta, promised, glued>>

Put(key, doc, causes, k) ==
  Mutate(Payload("put", key, doc), causes, k) /\ UNCHANGED blobs

Delete(key, k) ==
  Mutate(Payload("delete", key, NIL), {}, k) /\ UNCHANGED blobs

Link(e) == Mutate(Payload("link", e, NIL), {}, NoIdem) /\ UNCHANGED blobs

Unlink(e) == Mutate(Payload("unlink", e, NIL), {}, NoIdem) /\ UNCHANGED blobs

\* put_file stores the bytes before it asks the log, whatever the log answers.
PutFile(f, k) ==
  /\ blobs[f] < MaxOps
  /\ blobs' = [blobs EXCEPT ![f] = @ + 1]
  /\ Mutate(Payload("put_file", f, blobs[f]), {}, k)

\* get() and sweep() delete a document whose TTL has passed (time is abstract:
\* it may have passed at any moment).  sweep() rewrites meta.json at the end.
Expire(key) ==
  /\ Idle
  /\ Get(store, key) \in TtlDocs
  /\ nonce[TTL] < MaxNonce
  /\ nonce' = [nonce EXCEPT ![TTL] = @ + 1]
  /\ \E next \in {"idle", "meta"} :
        LogAppend(TTL, nonce[TTL] + 1, Payload("delete", key, NIL), {}, NoIdem, next)
  /\ UNCHANGED <<mode, indexed, others, pos, blobs, aof, snap, meta, promised, glued>>

\* save_snapshot, first part: the checkpoint op, its nonce read off the clock.
Checkpoint ==
  /\ Idle
  /\ \E now \in Clock :
        LogAppend(SNAPSHOT, now, Payload("checkpoint", NIL, NIL), {}, NoIdem, "snapshot")
  /\ UNCHANGED <<mode, nonce, indexed, others, pos, blobs, aof, snap, meta, promised, glued>>

\* The flush and fsync at the end of a per-op synced _log_append, then apply_op.
Fsync ==
  LET o == ops[Len(ops)] IN
  /\ mode = "open" /\ pc = "fsync"
  /\ aof' = Flushed /\ page' = << >>
  /\ promised' = ops /\ glued' = Glued(aof')
  /\ Apply(o)
  /\ pc' = IF ApplyRaises(store, indexed, sorted, o) THEN "idle" ELSE then
  /\ UNCHANGED <<mode, then, log, indexed, others, pos, blobs, snap, meta>>

\* fsync raises, of the log or of the snapshot: the call fails after the op entered
\* the in-memory log.
FsyncFails ==
  /\ FsyncMayFail
  /\ mode = "open" /\ pc \in {"fsync", "snapshot", "snapflush"}
  /\ pc' = "idle"
  /\ UNCHANGED <<mode, then, log, mat, disk>>

\* save_snapshot, second part: HEAD versions, relations and index configuration,
\* written to a temporary file, fsynced and renamed.
SnapshotNow ==
  [seq     |-> ops[Len(ops)].seq,
   store   |-> [k \in Keys |->
                  IF store[k] = << >> THEN << >> ELSE <<store[k][Len(store[k])]>>],
   rels    |-> rels,
   indexed |-> indexed,
   others  |-> others,
   blobs   |-> blobs]

SnapshotRename ==
  /\ mode = "open" /\ pc = "snapshot"
  /\ snap' = {SnapshotNow}
  /\ pc' = "snapflush"
  /\ UNCHANGED <<mode, then, log, mat, aof, page, meta, promised, glued>>

\* save_snapshot, third part: db.flush().
SnapshotFlush ==
  /\ mode = "open" /\ pc = "snapflush"
  /\ aof' = Flushed /\ page' = << >>
  /\ promised' = ops /\ glued' = Glued(aof')
  /\ pc' = "idle"
  /\ UNCHANGED <<mode, then, log, mat, snap, meta>>

\* flush(): the committer's one fsync per batch.
Flush ==
  /\ Idle /\ page # << >>
  /\ aof' = Flushed /\ page' = << >>
  /\ promised' = ops /\ glued' = Glued(aof')
  /\ UNCHANGED <<mode, pc, then, log, mat, snap, meta>>

\* create_index: Indexes.ensure configures the index, then every document at HEAD is
\* put into every index of the collection, in dict order, until a value cannot be
\* hashed or sorted in (then meta.json is not reached).
NoPairs(st) == {}        \* mutant: nothing is backfilled

HeadPairs(st) == {<<Get(st, k), k>> : k \in {x \in Keys : Get(st, x) # NIL}}

\* The ordered index with the given documents in it once more.
SortedWith(bag, pairs) ==
  [p \in Docs \X Keys |-> IF p \in pairs /\ p[1] \notin Unhashable THEN bag[p] + 1 ELSE bag[p]]

\* No two entries that cannot be compared.
OneType(bag) ==
  \A p, q \in Docs \X Keys : bag[p] > 0 /\ bag[q] > 0 => ((p[1] \in Texts) <=> (q[1] \in Texts))

\* Putting these documents into the indexes configured by now raises nothing.
Fillable(pairs) ==
  /\ indexed' => \A p \in pairs : p[1] \notin Unhashable
  /\ "ordered" \in others' => OneType(SortedWith(sorted, pairs))

CreateIndex(kind) ==
  LET Backfill == HeadPairs(store) IN
  /\ Idle /\ kind # "unknown"
  /\ \A p \in Docs \X Keys : sorted[p] < MaxCopies
  /\ indexed' = (indexed \/ kind = "eq")
  /\ others' = others \cup ({kind} \ {"eq"})
  /\ \E done \in SUBSET Backfill :
       /\ Fillable(done)
       /\ sorted' = IF "ordered" \in others' THEN SortedWith(sorted, done) ELSE sorted
       /\ \/ /\ done = Backfill
             /\ eq' = (IF indexed' THEN eq \cup done ELSE eq)
             /\ pc' = "meta"
          \/ \E p \in Backfill \ done :
             /\ ~Fillable(done \cup {p})
             /\ eq' = (IF ~indexed' THEN eq
                       ELSE IF p[1] \in Unhashable THEN eq \cup done ELSE eq \cup done \cup {p})
             /\ pc' = "idle"
  /\ UNCHANGED <<mode, then, log, store, rels, cause_map, blobs, pos, disk>>

\* ensure() refuses a kind it does not know after it has configured it.
CreateUnknownIndex ==
  /\ Idle /\ "unknown" \in Kinds
  /\ others' = others \cup {"unknown"}
  /\ UNCHANGED <<mode, pc, then, log, store, rels, eq, indexed, cause_map, sorted, blobs, pos, disk>>

\* _persist_meta: open(.., "w") truncates meta.json, json.dump fills it.
MetaTruncate ==
  /\ mode = "open" /\ pc = "meta"
  /\ meta' = {"torn"} /\ pc' = "metawrite"
  /\ UNCHANGED <<mode, then, log, mat, aof, page, snap, promised, glued>>

MetaWrite ==
  /\ mode = "open" /\ pc = "metawrite"
  /\ meta' = others \cup (IF indexed THEN {"eq"} ELSE {}) /\ pc' = "idle"
  /\ UNCHANGED <<mode, then, log, mat, aof, page, snap, promised, glued>>

-----------------------------------------------------------------------------
(* Ending and beginning of a session.                                       *)

Close ==
  /\ Idle
  /\ mode' = "closed"
  /\ aof' = Flushed
  /\ promised' = ops /\ glued' = Glued(aof')
  /\ Forget
  /\ UNCHANGED <<snap, meta>>

\* The process dies: some lines of the page have reached the disk, the one
\* after them perhaps in part.
Crash ==
  /\ mode \in {"open", "replaying", "healed"}
  /\ mode' = "closed"
  /\ \E n \in 0..Len(page) :
       \/ aof' = aof \o Lines(SubSeq(page, 1, n))
       \/ /\ n < Len(page)
          /\ \E end \in Ends :
               aof' = aof \o Lines(SubSeq(page, 1, n)) \o << [op |-> page[n + 1], end |-> end] >>
  /\ glued' = glued \cup Glued(aof')
  /\ Forget
  /\ UNCHANGED <<snap, meta, promised>>

\* Mutant: load() does not restore the head.
LoadLogWithoutHead(os) ==
  /\ ops' = os /\ head' = GENESIS
  /\ last_nonce' = LastNonces(os) /\ idem' = IdemMap(os) /\ nonce' = LastNonces(os)

\* OpLog.load of the given ops, and the engine's nonce counters.
LoadLog(os) ==
  /\ ops' = os /\ head' = HeadOf(os)
  /\ last_nonce' = LastNonces(os) /\ idem' = IdemMap(os) /\ nonce' = LastNonces(os)

\* Reading meta.json configures the kinds it lists; it raises on one that ensure()
\* does not know, and on a truncated file.
MetaReadable == meta # {"torn"} /\ "unknown" \notin meta

\* _load without a snapshot: meta.json, then the readable prefix of the log; the
\* rest of a corrupt log is cut off on disk.
OpenFull ==
  /\ mode \in {"closed", "failed"} /\ snap = {} /\ MetaReadable
  /\ mode' = "replaying"
  /\ indexed' = ("eq" \in meta) /\ others' = meta \cap {"ordered"}
  /\ LoadLog(Decoded(aof))
  /\ aof' = Repaired(aof)
  /\ UNCHANGED <<pc, then, store, rels, eq, cause_map, sorted, blobs, pos,
                 page, snap, meta, promised, glued>>

\* Rehydrating the snapshot configures its indexes and puts every document it holds
\* into them.
Unloadable(s) ==
  \/ "unknown" \in s.others
  \/ s.indexed /\ \E k \in Keys : Get(s.store, k) \in Unhashable
  \/ "ordered" \in s.others /\ ~OneType(SortedWith(NoneSorted, HeadPairs(s.store)))

\* _load with a snapshot: its state, then every line of the log (meta.json is
\* not read, and nothing catches an undecodable line).
OpenSnapshot ==
  \E s \in snap :
  /\ mode \in {"closed", "failed"} /\ ~Corrupt(aof) /\ ~Unloadable(s)
  /\ mode' = "replaying"
  /\ indexed' = s.indexed /\ others' = s.others
  /\ store' = s.store /\ rels' = s.rels /\ blobs' = s.blobs
  /\ eq' = IF s.indexed THEN HeadPairs(s.store) ELSE {}
  /\ sorted' = IF "ordered" \in s.others THEN SortedWith(NoneSorted, HeadPairs(s.store))
                                         ELSE NoneSorted
  /\ LoadLog(Decoded(aof))
  /\ UNCHANGED <<pc, then, cause_map, pos, disk>>

\* Mutant: a missing meta.json is opened all the same.
OpenFailsWithoutMeta ==
  /\ mode \in {"closed", "failed"}
  /\ \/ snap = {} /\ (~MetaReadable \/ meta = {"absent"})
     \/ snap # {} /\ (Corrupt(aof) \/ \E s \in snap : Unloadable(s))
  /\ mode' = "failed"
  /\ UNCHANGED <<pc, then, log, mat, disk>>

\* _load raises before it folds anything: the database does not open.
OpenFails ==
  /\ mode \in {"closed", "failed"}
  /\ \/ snap = {} /\ ~MetaReadable
     \/ snap # {} /\ (Corrupt(aof) \/ \E s \in snap : Unloadable(s))
  /\ mode' = "failed"
  /\ UNCHANGED <<pc, then, log, mat, disk>>

SkippedOneMore(o) == \E s \in snap : o.seq <= s.seq + 1   \* mutant: off by one

\* One op of the fold; with a snapshot only the ops after its checkpoint.
Skipped(o) == \E s \in snap : o.seq <= s.seq

Replay ==
  LET o == ops[pos + 1] IN
  /\ mode = "replaying" /\ pos < Len(ops)
  /\ Skipped(o) \/ ~ApplyRaises(store, indexed, sorted, o)
  /\ pos' = pos + 1
  /\ IF Skipped(o) THEN UNCHANGED <<store, rels, eq, cause_map, sorted>> ELSE Apply(o)
  /\ UNCHANGED <<mode, pc, then, log, indexed, others, blobs, disk>>

\* apply_op raises inside the fold: the constructor raises.
ReplayRaises ==
  LET o == ops[pos + 1] IN
  /\ mode = "replaying" /\ pos < Len(ops)
  /\ ~Skipped(o) /\ ApplyRaises(store, indexed, sorted, o)
  /\ mode' = "failed"
  /\ Forget
  /\ UNCHANGED <<aof, snap, meta, promised, glued>>

\* The end of _open: _self_heal_if_needed finds the log in order, and the file is
\* opened for append.
FinishOpen ==
  /\ mode = "replaying" /\ pos = Len(ops) /\ SelfHeal(ops) = ops
  /\ mode' = "open"
  /\ UNCHANGED <<pc, then, log, mat, disk>>

\* Or it re-links the log and replaces the file,
Heal ==
  LET healed == SelfHeal(ops) IN
  /\ mode = "replaying" /\ pos = Len(ops) /\ healed # ops
  /\ mode' = "healed"
  /\ ops' = healed /\ head' = HeadOf(healed)
  /\ aof' = Lines(healed)
  /\ UNCHANGED <<pc, then, last_nonce, idem, nonce, mat, page, snap, meta, promised, glued>>

\* and removes the snapshot, which is of the old chain.
DropSnapshot ==
  /\ mode = "healed"
  /\ mode' = "open"
  /\ snap' = {}
  /\ UNCHANGED <<pc, then, log, mat, aof, page, meta, promised, glued>>

Next ==
  \/ \E key \in Keys, doc \in Docs, causes \in Causes, k \in IdemKeys \cup {NoIdem} :
        Put(key, doc, causes, k)
  \/ \E key \in Keys, k \in IdemKeys \cup {NoIdem} : Delete(key, k)
  \/ \E e \in Edges : Link(e) \/ Unlink(e)
  \/ \E f \in Files, k \in IdemKeys \cup {NoIdem} : PutFile(f, k)
  \/ \E key \in Keys : Expire(key)
  \/ Checkpoint \/ Fsync \/ FsyncFails \/ SnapshotRename \/ SnapshotFlush \/ Flush
  \/ \E kind \in Kinds : CreateIndex(kind)
  \/ CreateUnknownIndex \/ MetaTruncate \/ MetaWrite
  \/ Close \/ Crash
  \/ OpenFull \/ OpenSnapshot \/ OpenFails \/ Replay \/ ReplayRaises
  \/ FinishOpen \/ Heal \/ DropSnapshot

Spec == Init /\ [][Next]_vars

-----------------------------------------------------------------------------
(* Properties.                                                              *)

Payloads ==
  [op : {"put"}, on : Keys, doc : Docs]
    \cup [op : {"delete"}, on : Keys, doc : {NIL}]
    \cup [op : {"link", "unlink"}, on : Edges, doc : {NIL}]
    \cup [op : {"put_file"}, on : Files, doc : Nat]
    \cup [op : {"checkpoint"}, on : {NIL}, doc : {NIL}]

Bodies == [seq : Nat, client : Clients, nonce : Nat, payload : Payloads,
           caused_by : SUBSET Nat, idem : IdemKeys \cup {NoIdem}]

Ops == [seq : Nat, client : Clients, nonce : Nat, payload : Payloads,
        caused_by : SUBSET Nat, idem : IdemKeys \cup {NoIdem},
        prev_hash : Seq(Bodies), hash : Seq(Bodies)]

FileLines == [op : Ops, end : {"nl", "bare", "torn"}]

Chains == Seq([seq : Nat, val : Docs \cup {NIL}])

Intervals == Seq([added : Nat, removed : Nat \cup {LIVE}])

Snapshots == [seq : Nat, store : [Keys -> Chains], rels : [Edges -> Intervals],
              indexed : BOOLEAN, others : SUBSET {"ordered", "unknown"}, blobs : [Files -> Nat]]

\* The types of the engine's fields and files.
TypeOK ==
  /\ mode \in {"closed", "replaying", "healed", "open", "failed"}
  /\ pc \in {"idle", "fsync", "snapshot", "snapflush", "meta", "metawrite"}
  /\ then \in {"idle", "snapshot", "meta"}
  /\ ops \in Seq(Ops) /\ head \in Seq(Bodies)
  /\ last_nonce \in [Clients -> Nat] /\ nonce \in [Clients -> Nat]
  /\ idem \in [IdemKeys -> Nat \cup {NoSeq}]
  /\ store \in [Keys -> Chains] /\ rels \in [Edges -> Intervals]
  /\ eq \subseteq Docs \X Keys /\ indexed \in BOOLEAN
  /\ cause_map \subseteq Nat \X Nat /\ blobs \in [Files -> Nat] /\ pos \in Nat
  /\ sorted \in [Docs \X Keys -> Nat] /\ others \subseteq {"ordered", "unknown"}
  /\ aof \in Seq(FileLines) /\ page \in Seq(Ops)
  /\ snap \subseteq Snapshots /\ meta \subseteq {"absent", "torn", "eq", "ordered", "unknown"}
  /\ promised \in Seq(Ops) /\ glued \subseteq Nat

\* verify() holds of the log in memory and of the log on disk at every moment,
\* through crashes, self-repair and checkpoints; seq is an op's place in it, and
\* the head is the hash of the last op.
ChainVerifies ==
  /\ Verify(ops) /\ Verify(Decoded(aof))
  /\ head = HeadOf(ops)
  /\ \A i \in 1..Len(ops) : ops[i].seq = i - 1

\* The file is the log: while the database is open, what a restart would read
\* followed by what is still buffered is exactly the log in memory, unless a line was
\* written behind one that a crash had left without its newline.
FileIsLog == mode = "open" => ops = Decoded(aof) \o page \/ Glued(aof) # {}

\* Replay protection: the nonces of a client strictly increase along the log,
\* and last_nonce, also after a reload, is at least each of them, so that no
\* (client, nonce) pair is ever accepted twice.
ReplayProtection ==
  /\ \A i, j \in 1..Len(ops) :
        i < j /\ ops[i].client = ops[j].client => ops[i].nonce < ops[j].nonce
  /\ \A i \in 1..Len(ops) : ops[i].nonce <= last_nonce[ops[i].client]

\* Idempotency: a key is on at most one op of the log, and the table, also after
\* a reload, leads to that op.
Idempotent ==
  \A k \in IdemKeys :
    LET uses == {i \in 1..Len(ops) : ops[i].idem = k}
    IN  IF idem[k] = NoSeq THEN uses = {} ELSE uses = {idem[k] + 1}

\* A write whose caller was told it is durable stays readable on disk.  The code does
\* not keep that of a line that lost its newline in a crash and was continued by the
\* next append, nor of any line behind it: all of them are cut off at the next open,
\* although their callers were told that they are durable.
Durable ==
  \A i \in 1..Len(promised) :
    (\A g \in glued : i < g) => i <= Readable(aof) /\ aof[i].op = promised[i]

\* ops the log says wrote a key or an edge, up to and including seq s.
WritesTo(key, s)  == {i \in 1..Len(ops) : ops[i].seq <= s /\ Writes(ops[i], key)}
LinksOn(e, s) == {i \in 1..Len(ops) : /\ ops[i].seq <= s
                                      /\ ops[i].payload.op \in {"link", "unlink"}
                                      /\ ops[i].payload.on = e}

FoldedDoc(key, s) == LET w == WritesTo(key, s) IN IF w = {} THEN NIL ELSE ops[Max(w)].payload.doc

FoldedLink(e, s) == LET w == LinksOn(e, s) IN w # {} /\ ops[Max(w)].payload.op = "link"

Settled == mode = "open" /\ pc # "fsync"

\* State is a pure function of the log, after any mix of crashes, reopens and
\* checkpoints: at HEAD every document and every edge is what the last op on it says,
\* and a read AS OF any seq is the fold of the log truncated there.  A snapshot keeps
\* whole relation intervals and only the HEAD version of a document, so that AS OF holds
\* for documents from the last checkpoint on.
StateIsFold ==
  Settled =>
    /\ \A key \in Keys : Get(store, key) = FoldedDoc(key, Len(ops))
    /\ \A e \in Edges : Linked(rels, e) <=> FoldedLink(e, Len(ops))
    /\ \A s \in 0..(Len(ops) - 1) :
         /\ (\A sn \in snap : sn.seq <= s) =>
               \A key \in Keys : GetAsOf(store, key, s) = FoldedDoc(key, s)
         /\ \A e \in Edges : LinkedAsOf(rels, e, s) <=> FoldedLink(e, s)

\* execute() for WHERE field = v at HEAD: candidates from the equality index, or
\* from a scan of the keys, then the predicate on the loaded document.
IndexedQuery(v) == {k \in {p[2] : p \in {x \in eq : x[1] = v}} : Get(store, k) = v}
ScanQuery(v)    == {k \in {x \in Keys : Get(store, x) # NIL} : Get(store, k) = v}

\* An index that create_index acknowledged is there after every reopen, unless a
\* snapshot older than the index is what is reopened, and an equality query answered
\* from it and one answered by scanning agree.
IndexAgrees ==
  /\ Settled /\ indexed => \A v \in Docs \ Unhashable : IndexedQuery(v) = ScanQuery(v)
  /\ mode = "open" /\ pc = "idle" /\ "eq" \in meta /\ (\A sn \in snap : sn.indexed) => indexed

Declared(i) == {<<cause, ops[i].seq>> : cause \in ops[i].caused_by}

\* TRACE ... REVERSE finds no op that did not declare the cause, and every op since
\* the last checkpoint that did.
CausesComplete ==
  Settled =>
    /\ cause_map \subseteq UNION {Declared(i) : i \in 1..Len(ops)}
    /\ \A i \in 1..Len(ops) :
         (\A sn \in snap : ops[i].seq > sn.seq) => Declared(i) \subseteq cause_map

\* Self-heal repairs every chain that ops missing from the file have broken: an open
\* database verifies.
OpenVerifies == mode = "open" => Verify(ops)

\* The index kinds that the next open configures.
SavedKinds ==
  IF snap = {} THEN meta
  ELSE UNION {s.others \cup (IF s.indexed THEN {"eq"} ELSE {}) : s \in snap}

\* The database fails to open for one of five reasons only: meta.json was cut while
\* it was rewritten; the log has a damaged line and there is a snapshot; an index of
\* an unknown kind was saved, although the call that asked for it was refused; an
\* unhashable value was logged and there is an equality index; a text and a number
\* were logged and there is an ordered index.  Nothing else that crashes and failing
\* calls leave behind, and no damage to a log without a snapshot, keeps it from opening.
OpensUnlessDamaged ==
  LET logged == {aof[i].op.payload.doc : i \in 1..Readable(aof)} IN
  mode = "failed" =>
    \/ snap = {} /\ meta = {"torn"}
    \/ snap # {} /\ Corrupt(aof)
    \/ "unknown" \in SavedKinds
    \/ "eq" \in SavedKinds /\ logged \cap Unhashable # {}
    \/ "ordered" \in SavedKinds /\ logged \cap Texts # {}
                                /\ logged \cap (Docs \ (Texts \cup Unhashable)) # {}

\* A line of the append-only file that ends in its newline is there for ever: as
\* long as a reader gets to it, no repair, append or crash takes it out, changes it,
\* or keeps a reader from it.  (The file itself is rewritten, by self-repair and
\* self-heal; a last line without newline is lost to the next append.)
WholeLinesStay ==
  [][\A i \in 1..Readable(aof) :
        aof[i].end = "nl" => i <= Readable(aof') /\ aof'[i].op = aof[i].op]_vars

=============================================================================
