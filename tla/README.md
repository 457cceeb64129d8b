# Verification of aof-DB (NEDB)

NEDB is a small database whose source of truth is a hash-chained log of
operations. The state (documents, relations, indexes) is folded from the log; a
durable database writes the log to an append-only file and reads it back on
open. A committer thread in front of it lets a daemon serve many clients, over
HTTP, the Redis protocol and a MongoDB-like interface. A second engine, in Rust,
keeps immutable objects instead of a log. This directory holds TLA+ modules for
these parts, the TLC runs over them, and theorems checked by TLAPS. Paths below
are relative to `src/`; Python files without a directory are in
`src/python/nedb/`, Rust files without one in `src/rust/nedb-v2/src/`.

## 1. The system

| Component | State | Operations | Talks to | What is hard | Correct when |
|---|---|---|---|---|---|
| Operation log (`log.py`) | `ops`, `_last_nonce`, `_idem`, `_head` | `append`, `load`, `verify` | called by the engine | nonces and keys must survive reloads | the chain verifies; no nonce or key is accepted twice |
| Materialized state (`store.py`, `relations.py`, `index.py`) | version chains, relation intervals, eq/ordered/search indexes | `put`, `delete`, `get`, `link`, `unlink`, `add`, `remove` | `apply_op`; read by queries without a lock | reads during writes, exceptions half way | equals the fold of the log at every seq; an index agrees with a scan |
| Engine (`engine.py`) | the two above, `cause_map`, `_nonce`, the file object, `meta.json` | put, delete, link, unlink, put_file, expire/sweep, create_index, flush, close, open (load, repair, self-heal), execute | log, store, snapshot, crypto | crashes, failing fsync, exceptions after logging | acknowledged writes survive; the file is the log |
| Snapshots (`snapshot.py`) | `snapshot.json` | `save_snapshot`, `load_snapshot` | engine | three durable steps with crashes between them | a restart from it equals a full replay |
| Sequencer (`concurrent.py`) | queue, `_committed_seq`, `_closed`, batch | `_submit`, `_run`, `_commit_batch`, `close`; pinned reads | engine with `_defer_sync` | threads, group commit, close, join timeout | answered writes are durable and visible; every caller is answered |
| Daemon (`server.py`) | table of open databases, directories | create, open, drop, write, batch, mongo endpoint, checkpoint thread, shutdown | Sequencer; the mongo endpoint goes around it | check-then-act between request threads | one engine per log; answered writes survive |
| Encryption (`crypto.py`) | `key.enc`, key of the session | open with or without a key, per-line encryption, re-encryption of a plain log, rotation | engine, snapshots | stops between file replacements, a missing key | no op lost, nothing in clear text |
| Files, Merkle, proofs (`cascade.py`, `merkle.py`, `proof.py`) | chunks and recipes in memory and in snapshots | put_file, chunking, roots, file proofs, log proofs | engine, snapshots, daemon | bytes are not in the log; odd levels of a tree | versions read back as logged; a proof verifies for its own leaf or op only |
| Queries, SQL, auto index (`engine.py` `execute`, `query.py`, `sql.py`, `autoindex.py`) | query counts | WHERE, AS OF, TRACE; INSERT, UPDATE, DELETE; creation of indexes | engine | index path against scan path | an index changes no answer |
| MongoDB front end (`mongo.py`) | none of its own | insert, update, replace, upsert, delete, find | engine | read, compute, write in separate calls | find returns the matches; inserts are new; updates keep ids |
| Redis front end (`redis_compat.py`, `resp2.py`) | the connection's Sequencer | commands on strings, hashes, sets, lists | Sequencer | commands of several calls | behaves as one Redis does |
| Redis wrapper (`wrap_redis.py`, `backends/redis_backend.py`) | shadow switch, engine, Redis stream | intercepted commands, backfill, `r.nedb` calls, reload | Redis; engine or nedbd | two stores without a transaction | documents mirror Redis; the stream is a valid chain |
| Rust v1 core and bindings (`rust/crates/`) | as the Python engine, in memory | as the Python engine | - | - | same as Python |
| Rust v2 engine (`db.rs`, `index.rs`, `graph.rs`) | seq and head, id index with a write buffer, sorted indexes, edges, MANIFEST | put, put_batch, delete, flush, compact, create_sorted_index, warm and cold start | object store | concurrent writers, background flush, stale MANIFEST | the last call wins; history is linked; no reused seq; the head covers every write |
| Rust v2 segments (`store.rs`, `segment.rs`), migration (`migrate.rs`), daemon and queries (`server.rs`, `main.rs`, `nql.rs`) | segments, offsets | write, read, recover, compact, migrate | v2 engine | torn tails | every live object stays readable |
| Clients (`client/`) | none | HTTP calls | daemons | - | - |

`PROJECT.json` lists every component with its status, and under `hazards` the
places in this code that a test would hardly reach, each with the properties that
watch it.

## 2. The modules

| Module | Models |
|---|---|
| `OpLog` | `log.py` and the re-linking of `_self_heal_if_needed`, as operators on sequences of ops |
| `Materialized` | `store.py`, `relations.py`, one equality and one ordered index of `index.py`, and `apply_op` |
| `AofEngine` | the durable engine with its files: one action per operation and per durable step of an operation, crashes, opening |
| `CommitLog` | abstract: what the Sequencer promises its callers |
| `Sequencer` | `concurrent.py`: writers, committer, closer; refines `CommitLog` |
| `SnapshotReads` | lock-free pinned reads (scan and SEARCH) against the committer, one dict or list operation per step |
| `Daemon` | `server.py`: the Manager, request threads, RESP2 connections, checkpoint thread, shutdown, kill and restart |
| `RedisCompat` | `redis_compat.py`: commands as their reads and their calls of the Sequencer, beside a Redis |
| `Documents` | one collection: `execute` with index, scan and TRACE, `create_index`, `AutoIndexDB`, the statements of `sql.py` |
| `Mongo` | `mongo.py` over `Documents`: filters, updates and the calls of `Collection` |
| `WrapRedis` | `wrap_redis.py`: Redis, the shadow, the stream or nedbd |
| `Merkle` | pure: chunking, Merkle trees, the fold of op hashes |
| `AtRest` | `crypto.py` with the opening of `engine.py` and the snapshots: keys, files, temporary files, restarts; uses `Merkle` |
| `DagDb` | the Rust v2 engine: `db.rs` and `index.rs`, with the handlers' gate of `server.rs` |
| `MC...` | the instances for TLC |
| `BasicLemmas`, `AofEngineProofs`, `SequencerProofs`, `SnapshotReadsProofs`, `DaemonProofs`, `WrapRedisProofs`, `AtRestProofs`, `DagDbProofs` | lemmas and theorems |

`Mongo` extends `Documents`, which has the engine that it calls; `AtRest` extends
`Merkle`; `AofEngine` extends `Materialized` and `OpLog`. `Daemon` composes engines,
Sequencers, log files and request threads; it takes from `AofEngine` and `Sequencer`
what their theorems and runs show (a flush makes the batch durable, an answer
follows the flush) and keeps of an op its number only.

Each definition that models code is mapped to its lines in `PROJECT.json`. A
definition whose comment begins with "Mutant" is a plausible mistake in the
definition after it; under the mutant the run finds the property violated.

### AofEngine

One process uses the engine and makes one call at a time, so a call is a chain
of steps numbered by `pc`: `LogAppend` (accepted, deduplicated, refused, or
accepted and then unwritable), `Fsync` with `apply_op` behind it, and for a
checkpoint `SnapshotRename` and `SnapshotFlush`, for `create_index` and `sweep`
`MetaTruncate` and `MetaWrite`. A crash may come between any two. With
`DeferSync` an op is applied at once and only `Flush` syncs, which is the
committer's use of the engine.

* A hash is the sequence of the bodies it commits to, so hashing is injective
  and the chain's structure is exact; timestamps and evidence fields are left out.
* The file is a sequence of lines, each ended by a newline, cut short (`torn`) or
  whole but for the newline (`bare`). `page` holds lines written and not fsynced;
  a crash keeps any prefix of them and may cut the next line.
* Documents are told apart by the value of the one indexed field: a number, a text
  (`Texts`), or a list or dict (`Unhashable`), which makes the equality index raise.
  The ordered index raises on a text among numbers, and the other way round.
  `Unserialisable` documents pass the hash (`default=str`) and are refused by
  `json.dumps`. Names hold no `|`.
* An index kind is `"eq"`, `"ordered"`, or `"unknown"`, which `ensure()` refuses after it
  has put it into the configuration; `meta.json` and snapshots keep what is configured.
* Time is abstract: a TTL may have passed at any moment, and the clock that gives
  checkpoints their nonces may repeat or step back.
* `sweep` is a number of `Expire` steps of which any may be followed by the
  rewriting of `meta.json`.
* `_load` is `OpenFull` or `OpenSnapshot`, one `Replay` per op, and `FinishOpen`; or, when
  the chain does not verify, `Heal` and `DropSnapshot`, its two durable steps. `OpenFails`
  and `ReplayRaises` are its exceptions.
* `promised` and `glued` are history variables: the log at the last successful fsync, and
  the lines without newline behind which a line was written since.

### Sequencer and SnapshotReads

`Sequencer` has a program counter per writer thread, one for the committer and
one for the thread in `close()`; the engine behind it is reduced to its log, the
part written and the part fsynced. `ApplyOne` has the outcomes `AofEngine` shows a
call can have: logged, logged and flushed (a checkpoint), nothing to log, refused,
or an exception after the op was logged. `SnapshotReads` looks inside one batch:
the order of the writes of `apply_op` against the steps of `execute`. It takes the
two passes of `keys()` and the load loop together as one lookup per key, and does
not tell an empty list of seqs from a missing one. A scan keeps a row that passes WHERE;
a SEARCH keeps every candidate that has a document, as `execute` does not look for the
terms again (`Kept`).

### Daemon

A log file is an inode, because an engine keeps writing to the file it opened after
`rmtree` took its name away. A request is a chain of steps: the test of the table,
the opening, the registration, then its calls; another request, the checkpoint
thread or the shutdown may come between any two. The steps inside `OpLog.append`
are apart for the mongo endpoint, which calls the engine beside the committer.
Between two SELECTs a RESP2 connection keeps its database, as it keeps its handle.
`calm[n]` becomes false when an open or a drop of database `n` overlapped another.

### RedisCompat

A command is a list of parts; a part reads once and then sends its writes one at a time.
`ref` is the Redis that takes each part at once, at its last write; it is the Redis one
knows, in which DEL and FLUSHDB remove hashes and sets too and RENAME of a key to itself
does nothing. A row is `raced` when another connection wrote it between a part's read
and its last write, and `unlike` while it is what the code is known to leave
differently. A key is used for one kind of value.

### Documents and Mongo

A document maps two fields to a number, null, a list or nothing, and carries its
`_id` and causes. A call is a read, which computes a list of writes, and one step
per write; direct writes may come between. A filter is a set of conditions and how
they are combined, an update a sequence of operators. Values of two types compare
as in `query.py` and `mongo.py`.

### WrapRedis

One instance starts in-process or with nedbd. `Id` gives the document of a mapped key:
`extract_id` keeps what follows the last colon, so that keys may share one. A SET with
NX may store nothing and is shadowed all the same; a command that raises is not. A
put to nedbd is one request (`Serve`). In-process it has three steps, since nothing locks
the log: the head is read (`Link`), the op is appended and applied, which may raise
(`PutHeld`), and `XADD` takes the last op of the log at that moment (`Add`). Redis and
nedbd stay up; the process may stop anywhere, and then reloads the stream.

### AtRest and Merkle

A ciphertext is its key and its content. Opening, re-encryption, snapshot and
rotation are chains of durable steps with stops between them; `temps` holds the files that
are not yet renamed, `snapshot.json.tmp` and the rewritten log. Chunking runs on small
byte strings with a rolling hash of a few bits, so that cuts at the minimum, inside,
at the maximum and at the end all happen. A hash is the value hashed. `merkle_proof`
halves the index level by level, as the code does.

### DagDb

Threads put, put_batch and delete with a step per lock, file or buffer they touch.
The ticker, `flush_all` and `compact` are one maintenance job at a time, in steps
that collect, write and remove. An object is told apart by its number. `buf` over
`file` is the id index. A crash keeps the files and forgets the rest; a start with a
MANIFEST is warm, one without is a cold scan in four steps (the objects are read, seq is
set, the head is set, MANIFEST is written) during which the handlers refuse puts and let
deletes in. A document has the field of the sorted index or not (`has`); only `put` takes
the old version out of that index. Compaction sees a collection that has a directory
(`dir`). History variables record which documents were written by overlapping calls, which
pointers changed under a flush, and whether a restart found old numbers.

## 3. Runs

| Run | Checks | Instance |
|---|---|---|
| `engine_group` | `ChainVerifies`, `Idempotent`, `Durable`, `WholeLinesStay` | deferred sync, 1 key, 1 document, 1 idempotency key, failing fsyncs, torn lines and lines without newline, checkpoints, 3 ops |
| `engine_session` | `StateIsFold`, `IndexAgrees`, `CausesComplete` | all operations, per-op sync, 2 keys, TTL, causes, a file, an edge, checkpoints, restarts, 3 ops |
| `engine_faults` | `ReplayProtection`, `OpenVerifies`, `OpensUnlessDamaged` | 2 keys, 4 documents (a number, a text, an unhashable and an unwritable one), 3 index kinds, an explicit nonce, failing fsyncs, torn lines, checkpoints, 3 ops |
| `sequencer_faults` | `ReadYourWrites`, `ImplementsCommitLog` | 2 writers, 2 calls each, batches of 2, failing fsyncs, join timeouts |
| `sequencer_close` | `AckedDurable`, `CallsBeforeStopReturn`, `CloseReturns` | the same with close() at any moment, no faults, fair |
| `reads_scan` | `ScansAreSnapshots`, `SearchesErrOnlyOnChanged`, `RaisesOnlyOnFirstWrite` | 2 keys, 2 documents, 1 reader, 4 ops, batches of 2 |
| `daemon` | `AcknowledgedSurvive`, `CleanStopKeepsAll`, `OneWriter` | 1 name, 2 threads, 4 jobs of every kind, 2 ops, 3 engines, 1 restart |
| `redis` | `MatchesRedis`, `ListIsQueue` | 2 connections, 3 commands of 20 kinds, 1 reboot |
| `documents` | `IndexesInvisible`, `TraceBothWays`, `FindIsMatch`, `InsertsAreNew`, `UpdatesKeepIds` | 2 ids, 1 calling thread and direct writes, 8 filters, 2 updates, 3 ops |
| `wrap` | `Mirror`, `StreamVerifies`, `AckedPersisted` | 2 threads, 2 calls, 2 mapped keys that share a document and a raw one, backfill in batches of 2, 1 restart, both modes |
| `at_rest` | `KeysKeepTheLog`, `NoCleartext`, `FilesAsLogged`, `ProofsVerify` | 2 keys, 4 sessions, 1 rotation, an empty file and one of five chunks, 4 ops |
| `dag` | `LastCallWins`, `HistoryLinked`, `SeqsAreUnique`, `HeadCoversAll`, `SortedMissesNone` | 2 threads, 2 documents with and without the field, 3 calls or jobs, 1 crash |

Bounds. Three ops in the log are enough for an op before, at and after the damage, for a
checkpoint with an op on either side of it and for a cause with its effect. The number
of crashes and reopens of `AofEngine` is not bounded. `MaxNonce` bounds refused
attempts. `engine_group` has one key and one document, as its properties are about
lines; `engine_faults` compares states without the history variables, which its
properties do not read. Two keys with one document are the case of keys that share one;
with a document each they only meet in a batch of the backfill. Two writers with two
calls each fill a batch of two and leave intents behind; more writers only lengthen the
queue. A reader is independent of other readers, so one is enough. In `daemon`, four
jobs on two threads let two requests open one database while a third job drops it or
stops the daemon, and two ops tell a lost op from a reordered one. In `redis` and `dag`,
two overlapping calls and one that looks at what they left make three; every race that
the exceptions below name needs two calls. In `documents` one call in progress with
direct writes between its steps is the case of two calls as far as one of them can tell.
In `at_rest` four sessions are: without a key, with one, with none again, with the
other. Keys, threads, connections and interchangeable documents are symmetric.

The runs other than `engine_*` and `reads_scan` do not check deadlock: the numbers
of calls are bounded and all actors may be done.

Fairness (`FairSpec` of `Sequencer`): the committer thread and the thread in
`close()` run while they can, and a writer inside `_submit` goes on; the operating
system schedules runnable threads. Nothing forces anybody to call, and `join` is not
assumed to time out in `sequencer_close`, so `CloseReturns` does not rest on the
timeout. No other module states fairness: their properties are about safety.

### Exceptions

Some properties hold with an exception that the code makes necessary. Each is named
in the property and its comment, as narrow as a history variable of the module makes it.

* `StateIsFold` holds AS OF for documents from the last checkpoint on: a snapshot has
  the HEAD version of each key only, and a restart does not fold the older ops
  although it loads them. (`engine.py:375` says that `AS OF` remains valid.)
* `IndexAgrees` excepts indexes created after the last checkpoint: the snapshot path
  of `_load` returns before it reads `meta.json`.
* `CausesComplete` finds causes declared since the last checkpoint: `cause_map` is
  neither in the snapshot nor rebuilt from the ops before it.
* `Durable` excepts the ops at or behind a line that a crash left without its newline and
  another op was then written behind: the two no longer decode, and the next open cuts
  them. `WholeLinesStay` is about lines with their newline that a reader gets to.
* `OpensUnlessDamaged` names the five ways in which a database becomes unopenable:
  a crash inside `_persist_meta`, which truncates `meta.json` before it fills it; a
  torn line once there is a snapshot, as only the other path repairs the log
  (`engine.py:270` says "never crash on corruption"); an unhashable value in an indexed
  field, which is logged before the index raises; a text and a number in an ordered index,
  for the same reason; and an index of an unknown kind, which `ensure` configures before
  it refuses it.
* `OpenVerifies` is checked for ops without causes: `_self_heal_if_needed` rebuilds
  each op without its `caused_by`, which its hash covers, so a log with causes
  would not verify after it was healed. A healed log also keeps its gap in the
  seqs, so that the next op reuses a seq.
* `StateIsFold` and `IndexAgrees` are checked without failing fsyncs and unhashable
  values: a failed fsync leaves an op in the log that is not applied until a
  restart, and a `create_index` that raises half way leaves a partial index in use.
* `SearchesErrOnlyOnChanged` allows a pinned SEARCH to miss a row, or to return one that
  does not have the text, if its key was written after the snapshot.
* `RaisesOnlyOnFirstWrite` admits the `KeyError` of a reader between the two halves
  of a key's first write (`store.py:27-28`).
* `AcknowledgedSurvive`, `CleanStopKeepsAll` and `OneWriter` except names whose opens
  and drops overlapped, and an engine whose `append` two threads were in.
* `MatchesRedis` excepts raced rows, members that `_safe` encodes and, until they are set
  again, what RENAME of a key to itself, DEL and FLUSHDB leave unlike a Redis (`unlike`);
  `ListIsQueue` overlapping pops, and the order of a list after a reboot.
* `IndexesInvisible` and `FindIsMatch` except indexes that met a list, questions for
  null, and ids of documents that were put under another id than their own.
* `Mirror` excepts keys whose document another key or `r.nedb` puts too, commands other
  than a SET that stored what it was given, and lost, raising or overlapping shadows
  (`drift`). `StreamVerifies` excepts a failed XADD, an `apply_op` that raised on a logged
  op, a head that was read while another thread was between that and its XADD, an expiry
  and a repeated idempotent put (`slips`); `AckedPersisted` an XADD of another's op.
* `KeysKeepTheLog` and `FilesAsLogged` except a log with encrypted lines that was
  opened without a key; `FilesAsLogged` also versions that no snapshot held;
  `NoCleartext` a backfill that was cut, a rotation in a session without a key, and the
  temporary file of a keyless session that died before its `os.replace`, until a later
  session replaces it (`strewn`).
* The properties of `DagDb` except overlapping calls on one document, pointers that
  changed under a flush or compaction, pointers that a crash found unflushed, and
  restarts from a MANIFEST that was behind. A delete that comes in before a cold scan
  has set seq (`behind`) or between its list and its head (`headUnsure`) is excepted
  from `SeqsAreUnique`, `HistoryLinked` and `HeadCoversAll`; a delete at another moment
  of the scan is not. `SortedMissesNone` is about documents that have the field and
  about ORDER BY without LIMIT. A document is also excepted when a compaction takes its
  live set while its collection is in the write buffer only, or while a call has written
  the document's object and not yet moved its pointer (`Halfway`): the object is not
  live and is dropped. The proof of `HistoryLinked` needs this. Put, delete as far as
  the tombstone, compact, the removal of the pointer, put: the last version has no
  predecessor any more. That takes one event more than the `dag` run has; TLC confirms
  it with one document and four events.

## 4. Theorems

All are proved for every value of the constants, with the module's assumptions.

* `AofEngineProofs!TypeCorrect`. The invariant is `TypeOK` with two facts: a call
  that waits for its fsync or for its snapshot has an op in the log, since those
  steps read the last op, and no call is in progress unless the database is open.
* `AofEngineProofs`, on the log: `ChainCorrect`, `ReplayRefused`, `IdempotencyKept`. The
  three properties are not inductive: a crash forgets the log in memory, so what the
  file holds must be good. The invariant `LogInv` says that the log and the ops the
  file's lines were written from, damaged ones included, are each chained, numbered,
  with ascending nonces and single keys (`GoodLog`), that while the database is open the
  log is the file's ops followed by the page, and that the tables agree with the log.
  `GoodLog` is kept by prefixes (a crash, a repair) and by one more op with a fresh
  nonce and key. It follows that self-heal is never needed (`NothingToHeal`).
  Assumption: `Unserialisable = {}`: an unwritable document leaves the file without an
  op that the chain runs through. Then `AcknowledgedWritesSurvive`, `TheFileIsTheLog`
  and `AppendOnly`, under the same assumption and for crashes that take the newline only
  as well. The invariant adds `FileInv`: a database that is open or opening has no torn
  line (`Untorn`), and `Durable` itself. A bare line stays readable as long as it is the
  last; what is written behind it is what `glued` records.
* `AofEngineProofs`, on what the engine serves and on how it opens. The first three rest
  on `LogInv`, hence on `Unserialisable = {}`, and on `Unhashable = {}`, as an op or an
  index that raises half way is left partial. For the same reason the first two take the
  documents of one type (`OneKind`: all texts or none).
  - `IndexAndScanAgree`, nothing further. Invariant: every document at HEAD is in the
    index under its value (`IndexCovers`; the index may hold more, which the query
    filters out), the index is in use when `meta.json` and the snapshot name it
    (`IndexKept`), and a database that is not open holds nothing in memory (`Blank`).
  - `CausesAreComplete`, if fsync does not fail or syncs are deferred: an op whose own
    fsync failed is in the log and not applied until a restart. Invariant: `cause_map`
    has the causes of the ops applied so far since the last checkpoint (`CausesHold`).
    How far that is depends on the place in the call and in the replay (`Progress`).
  - `StateFoldsTheLog`, with per-op syncs and no failing fsync, for documents of any
    type and lines that lose their newline too; with deferred syncs a snapshot may be
    ahead of the log after a crash (section 5). The invariant `FoldInv` says that the
    chains and intervals in memory stand for the ops applied so far, those of the
    snapshot for the ops up to its seq, which the file still has, and that nothing waits
    in the page between calls. A chain stands for some ops (`ChainOf`) when its versions
    are ops on the key in their order and one is missing only if a later one is at or
    before a checkpoint. No fold is computed, so no induction over the log is needed.
  - `SelfHealRepairs`, for ops without causes and nothing else: unwritable documents,
    bare lines and failing fsyncs are allowed, so here self-heal has work to do.
    Invariant `HealInv`: each op, also on disk, has the hash of its own fields, which is
    what `_self_heal_if_needed` asks for before it re-links them.
  - `OpensUnlessForAReason`, with per-op syncs and nothing else. Invariant `LoadInv`:
    each version in memory and in the snapshot is of an op that the file gives to a
    reader, and so is each entry of an index during a replay (`ReplayedIndexes`), which
    is of a saved kind: a value that raises is one that the file holds.
* `SequencerProofs`: `TypeCorrect`; `CallersReadTheirWrites` from an invariant on
  the way of an intent (answered intents are done; done ones are published, failed
  or had nothing to log; the batch in hand is on its way); `AnsweredMeansDurable`,
  which adds that published ops are fsynced and that the file stays open while the
  committer runs, assuming that fsync does not fail and join does not give up.
  `SequencerIsCommitLog` proves the refinement of `CommitLog`, step by step and without
  assumptions. `OnceInv`: an intent is once in the queue, the batch or the log, its
  writer waits until it is woken, and what is logged and not published is the work of
  the batch in hand. Without it a step could commit to the abstract log twice.
* `SnapshotReadsProofs`: `SnapshotIsolation` (`ScansAreSnapshots`), `SearchIsSound`
  (`SearchesErrOnlyOnChanged`) and `RaisesSeldom` (`RaisesOnlyOnFirstWrite`), without
  assumptions beyond the module's. The invariant has three parts. `Store`: the chain of
  a key is its applied ops in their order, its list of seqs follows the chain but for
  the second half of the write in progress, and the document of a key that no op is at
  work on is in the index. `Posted`: a key is in the index under its document only, and
  under none while it is written. `ReaderInv`: what a scan has found are rows of its
  snapshot, what a SEARCH has found are documents of its snapshot that have the text or
  whose key was written after it; a row it has not found is still to be visited or, for
  SEARCH, its key was written after the snapshot. As later ops have seqs above the pin,
  no step of the committer disturbs it.
* `DagDbProofs` proves all five properties of `DagDb`, for any threads, documents,
  calls, maintenance jobs and crashes. The one assumption is the module's: the marks for
  "no version" and "no entry" are no version numbers. `NoSeqTwice` (`SeqInv`): the seqs
  of objects and of calls in progress are below the counter and different, as long as no
  delete took one before a cold scan had set the counter. `HeadIsComplete` (`HeadInv`):
  an object is in the head or its call will chain it, when no cold scan is to write the
  head yet, and the one call between reading the head and writing it read the present
  one. `TheLastCallWins` needs the most: each version belongs to one document
  (`OwnInv`), and of a document that is not `unsure` (`PointerInv`) one call at most is
  on it, its pointer is where the last call left it or where the call in progress moved
  it, its object is there, a flush holds the entry that the buffer has, and a compaction
  between its halves keeps the version. `HistoryIsLinked` is inductive with two more
  parts of it: the newest object is current, a tombstone or about to be current (`Tip`),
  and the object of a call is the newest (`Newest`). `OrderByMissesNone` (`SortInv`): a
  current version that has the field is in the sorted index, or `create_sorted_index` or
  a call will put it there.
* `DaemonProofs`: `AcknowledgedWritesSurvive` (`AcknowledgedSurvive`),
  `CleanStopKeepsAllWrites` (`CleanStopKeepsAll`) and `OneWriterPerDatabase`
  (`OneWriter`), for any database names (finitely many, and at least one), threads,
  requests, engines, files and restarts. None of the three is inductive. What they rest
  on is `Ordered(n)` of a calm database: one request at most is inside an open or a drop
  of it (`Solo`) and the table is as that request left it (`Steps`); every engine with
  an open file has the directory's file and is in the table, about to be registered or
  being closed (`Tabled`); an engine that a drop has closed is on its way out
  (`Leaving`); file and buffer together are the log (`Contents`). Around it: a log file
  belongs to one database and to the handles of it that refer to it (`Refs`, `Inodes`);
  the caller of an intent stays in its Sequencer's queue until it is woken, so that no
  join ends and no file is closed under it (`Queues`); an engine about to be registered
  is nobody else's (`Unshared`); a thread in `append` of an engine where no other is has
  read the head (`Chains`). A write about to be flushed is in the buffer or was flushed
  with another's (`Pending`), an answered mongo write in the log or in the buffer of an
  engine that is still to be closed (`Underway`). Exit keeps any prefix of one buffer
  per file and Boot makes everything new; `Restarted` has all of it at once.
* `WrapRedisProofs`: `MirrorsRedis` (`Mirror`), `StreamIsAChain` (`StreamVerifies`) and
  `AcknowledgedArePersisted` (`AckedPersisted`), for any keys, any assignment of
  documents to them, values, threads and numbers of calls, in-process and with nedbd.
  The invariant `WrapInv` has the three properties and says, beside types and shapes:
  log and stream are in the order in which the ops were made, and the stream has ops of
  the log only (`Streamed`); a value in a thread's hand is Redis's unless another
  command made it stale (`Fresh`); in-process every put has one document and is followed
  by its XADD (`OneByOne`); and as long as nothing slipped one thread at most is between
  the head it read and its XADD, that head is the log's, and the log is the stream but
  for that thread's op (`Chain`). `Mirror` is inductive with `Fresh`: a put takes every
  key of its document into `drift` but the one whose value it puts. `Doc(d)` is the
  value of the document's last op, by the largest position, and so needs no induction
  over the log.
* `AtRestProofs`, on the log: `NoKeyLosesTheLog` (`KeysKeepTheLog`) and
  `NothingInTheClear` (`NoCleartext`), without assumptions. The first needs `KeyFile`:
  `key.enc` holds one DEK at most and it is the session's, so that a log whose lines are
  plain or under that DEK decodes to the end and the self-repair of `_load` has nothing
  to cut. The second adds `Uniform`: the log is plain as a whole or encrypted as a whole
  (the backfill looks at the first line only), a session writes what the log has, and a
  plain snapshot is beside an encrypted log only while the backfill removes it; and
  `Temporary`: a temporary file is of the session that writes it or was left by one that
  died, and is plain only if that one had no key. Both need that `_load` finds the first
  line that does not decode, which is the least element of a set of positions.
* `AtRestProofs`, on the files: `FilesReadBack` (`FilesAsLogged`), for contents that are
  sequences of bytes of the Gear table (`AtRestAssumption`) and any sizes of chunks and
  hashes (`MerkleAssumption`). The invariant `FilesKept` says that a session that has
  read the log has the acknowledged ops in memory, that every version that one of them
  logged is stored under its number as the chunks of the bytes that were passed, and
  that a snapshot has the versions of the ops up to its seq. That the version reads back
  needs `ChunksRejoin`: for any data, the chunks put together are the data, wherever the
  rolling hash cuts, because a cut is where the chunk begins or later and inside the
  data (`CutFacts`), so that the chunks follow each other to the last byte
  (`ChunksCover`).
* `AtRestProofs`, on the proofs: `ProofsProve` (`ProofsVerify`). `Numbered` (the ops of
  the log and of the session are numbered from 0 on, a log that was cut included) and
  `Versions` (a version is a sequence of chunks, lost or not) are the invariant. The
  rest is about `Merkle` for lists of every length. A Merkle path and a folded head are
  both chains of hashes; equal ends of two chains of one shape have equal values all
  along (`ChainCommits`: a hash has one preimage), which makes a path verify for one
  leaf only and an op's proof for one op only. That a path verifies at all
  (`ProofVerifies`) is that the levels are a tower that ends in the root alone
  (`LevelsTower`: every level but the last has at least two nodes, and the next about
  half as many), and that at every level the value is the node with the halved index, an
  odd last node paired with itself (`AboveFacts`).
* These functions are recursive. Induction by a theorem of the library is out of the
  prover's reach, since these take the property as a parameter; the proofs take the least
  counterexample instead (`MinOfNaturals`), for what a function computes and also for its
  existence, which a recursive definition does not give by itself (`ChunksRecursion`,
  `LevelsRecursion`, `ProofRecursion`, `ChainExists`).
* `BasicLemmas` has what several of these need: largest and smallest elements of
  sets of numbers, and prefixes and appended sequences.

Only model-checked: `CallsBeforeStopReturn` and `CloseReturns` (liveness is out of the
prover's reach); the properties of `Documents` and `Mongo`, where TRACE walks the causes
with a recursive operator, which leaves a module without the prover's SMT backend, and
where updates are folds over operators; `MatchesRedis` and `ListIsQueue` of
`RedisCompat`, for which no inductive invariant is written yet: it must say of every
connection what its part read and what the others have written since, and `ListIsQueue`
rests on what a sort of the rows returns.

## 5. Where the code differs from its documents

Met while modelling. The models follow the code; the properties state what holds, and name
these cases where they would be violated by them. Those that contradict a sentence of the
code or its documents are quoted under `findings` in `PROJECT.json`.

Engine and Sequencer:

* A snapshot is renamed into place before the log is fsynced (`snapshot.py:141`). After
  a crash in between it is ahead of the log, and the state is not the fold of the log
  that `docs/SPEC.md:54` promises.
* A line that lost only its newline is continued by the next append
  (`engine.py:323`). Neither op decodes any more, and the next open cuts both and what is
  behind them, acknowledged writes that they are, and rewrites a file that
  `docs/reference.html:1025` calls "Never rewritten".
* `ensure` configures an index of an unknown kind before it refuses it (`index.py:37-46`;
  `server.py:347` passes any kind on). The next `meta.json` or snapshot has it, and every
  open raises. A text and a number in an ordered index raise after the op was logged
  (`index.py:56`), and again at every replay.
* A caller that passed the `_closed` test before `close()` may enqueue behind `_STOP`
  (`concurrent.py:88`) and waits for ever.
* A failing fsync of a batch is dropped (`concurrent.py:189`), and `_committed_seq`,
  "durably committed" by the comment at `concurrent.py:74`, moves on.
* SEARCH takes candidates from the index at HEAD (`engine.py:565`) and does not look for
  the terms again (`engine.py:593-597`), so a pinned SEARCH may miss a row of its
  snapshot or return one whose document there does not match (`concurrent.py:30-32` says
  "sees a consistent snapshot", `engine.py:587` "guarantees correctness regardless of
  index path").
* A caller that chooses its nonce leaves `_nonce` behind (`engine.py:393`), and later
  calls without one are refused until it has caught up. Checkpoints take the wall clock
  as nonce (`snapshot.py:72`): two in a millisecond, or after the clock was set back,
  are refused.
* Names with a `|` do not survive the relation keys of a snapshot (`snapshot.py:191`).

Daemon and front ends:

* The mongo endpoint writes beside the committer (`server.py:439`), which
  `concurrent.py:21` says owns all mutation.
* Redis commands of several calls are not atomic. `LPUSH` in separate calls is not
  last-in first-out, `RENAME k k` deletes the key, `FLUSHDB`, `DEL` and `EXISTS` see
  strings only (`examples/resp2_demo.sh:25` says "work exactly as expected"), members
  that `_safe` encodes cannot be removed, `_safe` is not injective (`redis_compat.py:50`
  says "collision-free"), a hash named `_kv` aliases the strings, and a list's order
  restarts with the machine's clock.
* A question for null on an indexed field misses documents without the field. A list
  leaves an equality index half created, which `mongo.py` then takes for lossless. An
  upsert overwrites silently, an update brings back a document deleted under it, and
  SQL UPDATE of a missing row creates it. Ordered indexes are maintained and never used.
  TRACE REVERSE stops at deleted documents. LIMIT comes before VALID AS OF.
* The wrapper gives keys that end alike behind their last colon one document
  (`wrap_redis.py:248-250`). It shadows `incr` with its delta, SETEX with its time to live
  (`wrap_redis.py:549-550`), and a SET with NX or XX or a SETNX also when it stored
  nothing (`wrap_redis.py:669-672`). MSET raises in the shadow, outside its `try`
  (`wrap_redis.py:525-529`).
* The wrapper persists the last op again after an idempotent repeat, drops the exception
  of a failing shadow XADD and of an `apply_op` that raised on a logged op, for which it
  then tries no XADD (`wrap_redis.py:565-566`), and lets two threads into
  `OpLog.append`, which has no lock. It does not persist lazy TTL deletes, loses the
  pending documents when a batch of the backfill fails, and passes no TTL to nedbd.

Encryption and proofs:

* Opening an encrypted log without its key takes every line for damage and truncates
  the log. `rewrap_key` in a session without a key makes a key for a log in clear text.
  A plain snapshot with chunks makes an open with a new key raise. The docstring at
  `engine.py:127` says "Checkpoints afterwards"; the code removes the old snapshot only.
* A keyless session that dies between the writing of `snapshot.json.tmp`, or of the
  rewritten log, and its `os.replace` leaves that file in clear text. A later open with
  a key neither encrypts nor removes it, and `meta.json` is never encrypted
  (`engine.py:111-112` says "so no cleartext survives on disk").
* The chunk lists `a b c` and `a b c c` have one Merkle root (`merkle.py:9` says it
  commits to the exact bytes).

Rust v2:

* The flush of the id index removes entries by key (`index.rs:221`), also one that was
  set again meanwhile. Two updates of the head may overlap (`db.rs:307`). MANIFEST may be
  behind after a crash, and the cold scan writes the largest seq (`db.rs:666`) where the
  warm start expects "the next-to-assign counter" (`db.rs:131`). `list_ids` reads the
  files first and the buffer second (`index.rs:299`), and so may miss an entry.
* The handler of DELETE does not wait for the cold scan (`server.rs:484-502`; `db.rs:46`
  says "Writes are held with 503"). Its tombstone may take a seq that is in use and be
  missing from the head that the scan writes.
* `compact` does not see a collection that is in the write buffer only (`db.rs:339`,
  `index.rs:359-366`) and drops its objects, which `db.rs:328` says it keeps.
* A sorted index leaves out the documents without the field (`db.rs:515-518`), which
  ORDER BY without an index returns first, and `put_batch` and `delete` leave old
  versions in it, which take the place of current ones under LIMIT (`index.rs:400` says
  "Remove a hash from the index (on overwrite/delete of a doc version)").
* The migration takes puts only (`migrate.rs:64`), and an encrypted line, which is JSON
  itself, for a plain one before it tries to decrypt it (`migrate.rs:105`).

## 6. Not modelled, and why

* Rust v1 core and bindings: the in-memory engine once more, single-threaded, and
  forwarding calls.
* Rust v2: the layout and recovery of segments (compaction is one step of `DagDb`), links
  and the graph of causes (files written once), one document twice in a batch (either
  version may win and nothing says which), flushers beside each other, the migration
  (one-time and single-threaded), the HTTP server and `nql.rs`.
* Parsers and formatting (`query.py`, `sql.py`, `resp2.py`): pure functions on text. Of
  them the comparison of values and the statements that write are modelled. ORDER BY,
  GROUP BY, TRAVERSE, VALID AS OF, projection, cursors and aggregation arrange or filter
  rows after the fact; dotted paths are left out.
* Authentication, the read-only endpoints and `--doctor` of the daemon: I/O.
* Ciphers and compression: a ciphertext is its key and its content.
* Two wrapper processes on one stream: each would continue its own chain.
* Log proofs of a log that self-heal left with a gap in its seqs; `AtRest` has no
  self-heal.
* Benchmarks, clients: no state of their own.

## 7. Plan

1. Proofs: `InsertsAreNew` and `UpdatesKeepIds`, which need the ids of documents only;
   `MatchesRedis`, from an invariant on the rows that no other connection wrote in
   between.
2. `SegmentStore`: append, recovery of a torn tail and compaction against writers, below
   `DagDb`.
3. An abstract versioned map that `DagDb` implements when calls do not overlap.
