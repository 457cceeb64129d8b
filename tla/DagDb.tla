------------------------------- MODULE DagDb -------------------------------
(***************************************************************************)
(* The Rust v2 engine (rust/nedb-v2, Db with its IdIndex) with one         *)
(* collection: documents are immutable objects that point to the version   *)
(* before them; the id index points to the current version, through a      *)
(* write buffer that a background ticker flushes to one file per document; *)
(* the running head and the next seq are cached in MANIFEST.  Threads of   *)
(* the server write concurrently, without a lock around a whole call.      *)
(* Maintenance (the ticker, flush_all, and compact of the packed store,    *)
(* which no code calls during a cold scan) is one job at a time.  The      *)
(* process may die at any point; what it wrote to files stays.             *)
(***************************************************************************)
EXTENDS Integers, Sequences, FiniteSets, FiniteSetsExt

CONSTANTS Threads, Docs,       \* Docs: the ids of documents
          NIL,                 \* no version; in the buffer, a tombstone
          NONE,                \* no entry in the buffer
          MaxEvents, MaxCrashes,  \* bounds: calls, jobs and indexes created; crashes
          Fields               \* which documents of a call may have the indexed field

ASSUME MarksAssumption == NIL \notin Nat /\ NONE \notin Nat /\ NIL # NONE

ASSUME FieldsAssumption == Fields \subseteq Seq(BOOLEAN)

VARIABLES
  up,         \* "down", "ready", or how far the cold scan is: "cold", "read", "numbered", "headed"
  thr,        \* calls in progress
  job,        \* the maintenance job in progress
  objects,    \* the objects in the store: [n, doc, seq, prev, del, has]; del: the tombstone of a
              \* delete; has: the document has the field that the sorted index is on
  listed,     \* the objects the cold scan has read
  file, buf,  \* IdIndex: the files, and write_buf
  dir,        \* whether the collection has its directory under indexes/
  sorted, fill,      \* one sorted index: the versions in it, and how far create_sorted_index is
  seq, head,  \* Db.seq and Db.head; a head is the set of the versions chained into it
  manifest, dirty,   \* MANIFEST, a set with at most one [seq, head]
  events, crashes, born,
  latest,     \* history: by document, the version that the last call that returned left
  unsure,     \* history: documents for which latest is not known
  behind,     \* history: a restart found a MANIFEST whose seq had been passed, or a delete took
              \* a seq before the cold scan had set it
  headUnsure  \* history: two updates of the head overlapped, a restart found an old head, or the
              \* cold scan wrote one without a delete that had come in

state == <<objects, listed, file, buf, dir, sorted, fill, seq, head, manifest, dirty>>
vars == <<up, thr, job, state, events, crashes, born, latest, unsure, behind, headUnsure>>

Resting == [pc |-> "idle", kind |-> "none", nodes |-> << >>, todo |-> {}, seen |-> {}]
NoJob == [pc |-> "idle", kind |-> "none", got |-> [d \in Docs |-> NONE], seq |-> 0, live |-> {}]

\* ids: what list_ids has found; missed: documents a flush moved from the buffer to their
\* files after list_ids read the files and before it read the buffer.
NoIndex == [pc |-> "none", ids |-> {}, missed |-> {}]

Init ==
  /\ up = "ready" /\ thr = [t \in Threads |-> Resting] /\ job = NoJob
  /\ objects = {} /\ listed = {} /\ dir = FALSE /\ file = [d \in Docs |-> NIL] /\ buf = [d \in Docs |-> NONE]
  /\ sorted = {} /\ fill = NoIndex /\ seq = 0 /\ head = {} /\ manifest = {} /\ dirty = FALSE
  /\ events = 0 /\ crashes = 0 /\ born = 0
  /\ latest = [d \in Docs |-> NIL] /\ unsure = {} /\ behind = FALSE /\ headUnsure = FALSE

-----------------------------------------------------------------------------
(* IdIndex                                                                  *)

\* IdIndex.get: the write buffer first, then the file.
Current(d) == IF buf[d] # NONE THEN buf[d] ELSE file[d]

Written(t) == {thr[t].nodes[i].doc : i \in DOMAIN thr[t].nodes}
Busy(d) == {t \in Threads : d \in Written(t)}

\* The pointer of a document changes while a flush holds an older one.
UnderFlush(d) == job.pc \in {"files", "clear"} /\ job.got[d] # NONE

SetPointer(d, n) ==
  /\ buf' = [buf EXCEPT ![d] = n]
  /\ unsure' = IF UnderFlush(d) THEN unsure \cup {d} ELSE unsure

-----------------------------------------------------------------------------
(* put, put_batch and delete                                                *)

\* Mutant: the batch reserves one seq too few.
ReservedShort(ds) == IF Len(ds) > 1 THEN Len(ds) - 1 ELSE Len(ds)

\* fetch_add: as many seqs as there are documents.
Reserved(ds) == Len(ds)

\* put of one document and put_batch of two begin with fetch_add, delete does it in its second
\* step.  The server lets puts in when the startup is over, and deletes at once.  Calls on one
\* document that overlap leave either version; so does a batch with one document twice, which
\* is left out.
Call(t, kind, ds, has) ==
  /\ up = "ready" \/ (kind = "delete" /\ up # "down")
  /\ thr[t].pc = "idle" /\ events < MaxEvents
  /\ events' = events + 1
  /\ seq' = IF kind = "delete" THEN seq ELSE seq + Reserved(ds)
  /\ thr' = [thr EXCEPT ![t] =
       [Resting EXCEPT !.pc = "prev", !.kind = kind,
          !.nodes = [i \in DOMAIN ds |-> [n |-> 0, doc |-> ds[i], prev |-> NIL,
                                        seq |-> IF kind = "delete" THEN 0 ELSE seq + i - 1,
                                        del |-> kind = "delete", has |-> has[i]]]]]
  /\ unsure' = unsure \cup {d \in {ds[i] : i \in DOMAIN ds} : Busy(d) # {}}
  /\ UNCHANGED <<up, listed, dir, job, objects, file, buf, sorted, fill, head, manifest, dirty, crashes, born,
                 latest, behind, headUnsure>>

\* Mutant: the version before is not looked up in the write buffer.
PreviousOnDisk(d) == file[d]

\* The version before, of every document of the call.
Previous(d) == Current(d)

\* id_index.get.  put takes the old version out of the sorted index, put_batch and delete
\* do not; delete of a document that is not there returns.
ReadPrev(t) ==
  LET olds == {Previous(d) : d \in Written(t)} IN
  /\ thr[t].pc = "prev"
  /\ thr' = [thr EXCEPT ![t] =
       IF thr[t].kind = "delete" /\ olds = {NIL} THEN Resting
       ELSE [@ EXCEPT !.nodes = [i \in DOMAIN thr[t].nodes |->
                                  [thr[t].nodes[i] EXCEPT !.prev = Previous(thr[t].nodes[i].doc)]],
                      !.pc = IF thr[t].kind = "delete" THEN "seq" ELSE "write"]]
  /\ sorted' = IF thr[t].kind = "put" THEN sorted \ olds ELSE sorted
  /\ UNCHANGED <<up, listed, dir, job, objects, file, buf, fill, seq, head, manifest, dirty, events, crashes,
                 born, latest, unsure, behind, headUnsure>>

TakeSeq(t) ==
  /\ thr[t].pc = "seq"
  /\ seq' = seq + 1
  /\ thr' = [thr EXCEPT ![t] = [@ EXCEPT !.pc = "write", !.nodes[1].seq = seq]]
  /\ behind' = (behind \/ up \in {"cold", "read"})
  /\ UNCHANGED <<up, listed, dir, job, objects, file, buf, sorted, fill, head, manifest, dirty, events, crashes,
                 born, latest, unsure, headUnsure>>

\* ObjectStore.write; a compaction that has its live set does not have the new object.
WriteObjects(t) ==
  LET nodes == [i \in DOMAIN thr[t].nodes |-> [thr[t].nodes[i] EXCEPT !.n = born + i]] IN
  /\ thr[t].pc = "write"
  /\ objects' = objects \cup {nodes[i] : i \in DOMAIN nodes}
  /\ born' = born + Len(nodes)
  /\ unsure' = IF job.pc = "drop" THEN unsure \cup Written(t) ELSE unsure
  /\ thr' = [thr EXCEPT ![t] = [@ EXCEPT !.nodes = nodes, !.todo = DOMAIN nodes,
                                  !.pc = IF thr[t].kind = "delete" THEN "read" ELSE "set"]]
  /\ UNCHANGED <<up, listed, dir, job, file, buf, sorted, fill, seq, head, manifest, dirty, events, crashes,
                 latest, behind, headUnsure>>

\* id_index.set, of the documents of a batch in any order.
SetOne(t, i) ==
  LET node == thr[t].nodes[i] IN
  /\ thr[t].pc = "set" /\ i \in thr[t].todo
  /\ SetPointer(node.doc, node.n)
  /\ thr' = [thr EXCEPT ![t] = [@ EXCEPT !.todo = thr[t].todo \ {i},
                                        !.pc = IF thr[t].todo = {i} THEN "sort" ELSE "set"]]
  /\ UNCHANGED <<up, listed, dir, job, objects, file, sorted, fill, seq, head, manifest, dirty, events, crashes,
                 born, latest, behind, headUnsure>>

\* Mutant: the new versions are not put in the sorted index.
SortedNot(t) == {}

\* The versions among these that have the indexed field.
WithField(os) == {o.n : o \in {x \in os : x.has}}

\* sorted_indexes.insert, if there is an index and the document has the field.
SortedNew(t) ==
  IF fill.pc # "none" THEN WithField({thr[t].nodes[i] : i \in DOMAIN thr[t].nodes}) ELSE {}

Sort(t) ==
  /\ thr[t].pc = "sort"
  /\ sorted' = sorted \cup SortedNew(t)
  /\ thr' = [thr EXCEPT ![t] = [@ EXCEPT !.pc = "read", !.todo = DOMAIN thr[t].nodes]]
  /\ UNCHANGED <<up, listed, dir, job, objects, file, buf, fill, seq, head, manifest, dirty, events, crashes,
                 born, latest, unsure, behind, headUnsure>>

\* update_head: the head is read under one lock ...
ReadHead(t) ==
  /\ thr[t].pc = "read"
  /\ thr' = [thr EXCEPT ![t] = [@ EXCEPT !.pc = "chain", !.seen = head]]
  /\ headUnsure' = (headUnsure \/ \E s \in Threads : thr[s].pc = "chain")
  /\ UNCHANGED <<up, job, state, events, crashes, born, latest, unsure, behind>>

Returned(t) == [d \in Docs |->
  IF d \in Written(t) THEN Max({thr[t].nodes[i].n : i \in {j \in DOMAIN thr[t].nodes : thr[t].nodes[j].doc = d}})
  ELSE latest[d]]

\* Mutant: a batch chains its last version only.
ChainedLast(t, i) == IF thr[t].todo = {i} THEN thr[t].seen \cup {thr[t].nodes[i].n} ELSE head

\* The head read before, chained with one version of the call.
Chained(t, i) == thr[t].seen \cup {thr[t].nodes[i].n}

\* ... and written under another, once for every version of the call.
Chain(t) ==
  LET i == Min(thr[t].todo) IN
  /\ thr[t].pc = "chain"
  /\ head' = Chained(t, i)
  /\ dirty' = TRUE
  /\ thr' = [thr EXCEPT ![t] =
       IF thr[t].todo # {i} THEN [@ EXCEPT !.pc = "read", !.todo = thr[t].todo \ {i}, !.seen = {}]
       ELSE IF thr[t].kind = "delete" THEN [@ EXCEPT !.pc = "remove"] ELSE Resting]
  /\ latest' = IF thr[t].todo = {i} /\ thr[t].kind # "delete" THEN Returned(t) ELSE latest
  /\ UNCHANGED <<up, listed, dir, job, objects, file, buf, sorted, fill, seq, manifest, events, crashes, born,
                 unsure, behind, headUnsure>>

\* Mutant: remove drops the buffered entry, and leaves the file.
RemovedEntry(d) == /\ buf' = [buf EXCEPT ![d] = NONE]
                   /\ unsure' = IF UnderFlush(d) THEN unsure \cup {d} ELSE unsure

\* id_index.remove: a tombstone in the write buffer.
Removed(d) == SetPointer(d, NIL)

Remove(t) ==
  LET d == thr[t].nodes[1].doc IN
  /\ thr[t].pc = "remove"
  /\ Removed(d)
  /\ latest' = [latest EXCEPT ![d] = NIL]
  /\ thr' = [thr EXCEPT ![t] = Resting]
  /\ UNCHANGED <<up, listed, dir, job, objects, file, sorted, fill, seq, head, manifest, dirty, events, crashes,
                 born, behind, headUnsure>>

\* create_sorted_index: ensure the index; list_ids reads the files, then the buffer; then
\* the current version of every document listed that has the field.
Ensure ==
  /\ up # "down" /\ fill.pc = "none" /\ events < MaxEvents
  /\ events' = events + 1
  /\ fill' = [fill EXCEPT !.pc = "buffer", !.ids = {d \in Docs : file[d] # NIL}]
  /\ UNCHANGED sorted

ListBuffer ==
  /\ fill.pc = "buffer"
  /\ fill' = [fill EXCEPT !.pc = "fill",
                          !.ids = {d \in Docs : buf[d] # NIL /\ (d \in fill.ids \/ buf[d] # NONE)}]
  /\ UNCHANGED <<sorted, events>>

FillOne(d) ==
  /\ fill.pc = "fill" /\ d \in fill.ids
  /\ sorted' = sorted \cup WithField({o \in objects : o.n = Current(d)})
  /\ fill' = [fill EXCEPT !.ids = @ \ {d}]
  /\ UNCHANGED events

CreateSortedIndex ==
  /\ Ensure \/ ListBuffer \/ \E d \in Docs : FillOne(d)
  /\ UNCHANGED <<up, listed, dir, thr, job, objects, file, buf, seq, head, manifest, dirty, crashes, born,
                 latest, unsure, behind, headUnsure>>

-----------------------------------------------------------------------------
(* Maintenance                                                              *)

\* flush_write_buf collects what the buffer holds.
Collect(kind) ==
  /\ up = "ready" \/ (kind # "compact" /\ up # "down")
  /\ job.pc = "idle" /\ events < MaxEvents
  /\ events' = events + 1
  /\ job' = [NoJob EXCEPT !.pc = "files", !.kind = kind, !.got = buf]
  /\ UNCHANGED <<up, thr, state, crashes, born, latest, unsure, behind, headUnsure>>

\* A pointer is written to its file, in a directory made for it; a tombstone removes the file.
Flushed == [d \in Docs |-> IF job.got[d] = NONE THEN file[d] ELSE job.got[d]]

WriteFiles ==
  /\ job.pc = "files"
  /\ file' = Flushed
  /\ dir' = (dir \/ \E d \in Docs : job.got[d] \notin {NONE, NIL})
  /\ job' = [job EXCEPT !.pc = "clear"]
  /\ UNCHANGED <<up, listed, thr, objects, buf, sorted, fill, seq, head, manifest, dirty, events, crashes,
                 born, latest, unsure, behind, headUnsure>>

\* The flushed entries are removed by key.
Clear ==
  /\ job.pc = "clear"
  /\ buf' = [d \in Docs |-> IF job.got[d] = NONE THEN buf[d] ELSE NONE]
  /\ job' = [job EXCEPT !.pc = "manifest", !.got = NoJob.got]
  /\ fill' = [fill EXCEPT !.missed =
       IF fill.pc = "buffer" THEN @ \cup {d \in Docs \ fill.ids : job.got[d] # NONE} ELSE @]
  /\ UNCHANGED <<up, listed, dir, thr, objects, file, sorted, seq, head, manifest, dirty, events, crashes, born,
                 latest, unsure, behind, headUnsure>>

\* flush_manifest reads seq, the ticker only if the head is dirty.
ReadSeq ==
  /\ job.pc = "manifest"
  /\ IF job.kind = "tick" /\ ~dirty
     THEN job' = NoJob /\ UNCHANGED dirty
     ELSE job' = [job EXCEPT !.pc = "rename", !.seq = seq] /\ dirty' = (dirty /\ job.kind # "tick")
  /\ UNCHANGED <<up, listed, dir, thr, objects, file, buf, sorted, fill, seq, head, manifest, events, crashes,
                 born, latest, unsure, behind, headUnsure>>

\* Then the head; MANIFEST is replaced.
WriteManifest ==
  /\ job.pc = "rename"
  /\ manifest' = {[seq |-> job.seq, head |-> head]}
  /\ job' = IF job.kind = "compact" THEN [job EXCEPT !.pc = "live"] ELSE NoJob
  /\ UNCHANGED <<up, listed, dir, thr, objects, file, buf, sorted, fill, seq, head, dirty, events, crashes,
                 born, latest, unsure, behind, headUnsure>>

\* A call that has written its object and not yet moved the pointer.
Halfway(t) == \/ thr[t].pc = "set"
              \/ thr[t].kind = "delete" /\ thr[t].pc \in {"read", "chain", "remove"}

\* collections() lists directories: a collection that is in the write buffer only has no
\* current versions for compact.
Visible(d) == dir

\* compact: the current versions it sees are live; the object of a call that is halfway is
\* not among them.
Live ==
  /\ job.pc = "live"
  /\ job' = [job EXCEPT !.pc = "drop", !.live = {Current(d) : d \in {x \in Docs : Visible(x)}}]
  /\ unsure' = unsure \cup (UNION {Written(t) : t \in {s \in Threads : Halfway(s)}})
                      \cup {d \in Docs : ~Visible(d) /\ Current(d) # NIL}
  /\ UNCHANGED <<up, thr, state, events, crashes, born, latest, behind, headUnsure>>

\* SegmentStore.compact: the live objects go to new segments, the old ones are deleted.
Kept == {o \in objects : o.n \in job.live}

Drop ==
  /\ job.pc = "drop"
  /\ objects' = Kept
  /\ job' = NoJob
  /\ UNCHANGED <<up, listed, dir, thr, file, buf, sorted, fill, seq, head, manifest, dirty, events, crashes,
                 born, latest, unsure, behind, headUnsure>>

-----------------------------------------------------------------------------
(* Stopping and starting                                                    *)

\* The process dies: the buffer, the indexes and the counters are gone.
Crash ==
  /\ up # "down" /\ crashes < MaxCrashes
  /\ crashes' = crashes + 1
  /\ up' = "down" /\ thr' = [t \in Threads |-> Resting] /\ job' = NoJob /\ listed' = {}
  /\ buf' = [d \in Docs |-> NONE] /\ sorted' = {} /\ fill' = NoIndex /\ dirty' = FALSE
  /\ seq' = 0 /\ head' = {}
  /\ unsure' = unsure \cup {d \in Docs : Busy(d) # {} \/ Current(d) # file[d]}
  /\ behind' = (behind \/ \E m \in manifest, o \in objects : m.head # {} /\ o.seq >= m.seq)
  /\ headUnsure' = (headUnsure \/ \E m \in manifest : ~({o.n : o \in objects} \subseteq m.head))
  /\ UNCHANGED <<objects, dir, file, manifest, events, born, latest>>

\* startup_rebuild with a MANIFEST whose head is not empty.
WarmStart ==
  /\ up = "down"
  /\ \E m \in manifest : m.head # {} /\ seq' = m.seq /\ head' = m.head
  /\ up' = "ready"
  /\ UNCHANGED <<thr, listed, dir, job, objects, file, buf, sorted, fill, manifest, dirty, events, crashes,
                 born, latest, unsure, behind, headUnsure>>

\* Without one: seq is 0 until the scan; an empty store needs none.
ColdStart ==
  /\ up = "down" /\ \A m \in manifest : m.head = {}
  /\ up' = IF objects = {} THEN "ready" ELSE "cold"
  /\ UNCHANGED <<thr, job, state, events, crashes, born, latest, unsure, behind, headUnsure>>

MaxSeq == Max({o.seq : o \in listed})

NextSeq == MaxSeq + 1

\* cold_scan_background_arc: the objects are listed and read,
ScanRead ==
  /\ up = "cold"
  /\ listed' = objects
  /\ up' = "read"
  /\ UNCHANGED <<thr, job, objects, dir, file, buf, sorted, fill, seq, head, manifest, dirty, events,
                 crashes, born, latest, unsure, behind, headUnsure>>

\* seq is set from them,
ScanSeq ==
  /\ up = "read"
  /\ seq' = NextSeq
  /\ up' = "numbered"
  /\ UNCHANGED <<thr, job, objects, listed, dir, file, buf, sorted, fill, head, manifest, dirty, events,
                 crashes, born, latest, unsure, behind, headUnsure>>

\* every version goes into an index that somebody has created, and the head is replaced,
ScanHead ==
  LET ns == {o.n : o \in listed} IN
  /\ up = "numbered"
  /\ sorted' = IF fill.pc # "none" THEN sorted \cup WithField(listed) ELSE sorted
  /\ head' = ns
  /\ headUnsure' = (objects # listed \/ \E t \in Threads : thr[t].pc = "chain")
  /\ up' = "headed"
  /\ UNCHANGED <<thr, job, objects, listed, dir, file, buf, fill, seq, manifest, dirty, events, crashes,
                 born, latest, unsure, behind>>

\* then MANIFEST, with the last seq where the next one belongs; then writes are let in.
ScanManifest ==
  /\ up = "headed"
  /\ manifest' = {[seq |-> MaxSeq, head |-> {o.n : o \in listed}]}
  /\ up' = "ready" /\ listed' = {}
  /\ UNCHANGED <<thr, job, objects, dir, file, buf, sorted, fill, seq, head, dirty, events, crashes,
                 born, latest, unsure, behind, headUnsure>>

Next ==
  \/ \E t \in Threads :
       \/ \E d \in Docs, has \in Fields : Len(has) = 1 /\ Call(t, "put", << d >>, has)
       \/ \E d \in Docs : Call(t, "delete", << d >>, << FALSE >>)
       \/ \E d, e \in Docs, has \in Fields :
            d # e /\ Len(has) = 2 /\ Call(t, "batch", << d, e >>, has)
       \/ TakeSeq(t) \/ ReadPrev(t) \/ WriteObjects(t) \/ \E i \in {1, 2} : SetOne(t, i)
       \/ Sort(t) \/ ReadHead(t) \/ Chain(t) \/ Remove(t)
  \/ CreateSortedIndex
  \/ \E kind \in {"tick", "flush_all", "compact"} : Collect(kind)
  \/ WriteFiles \/ Clear \/ ReadSeq \/ WriteManifest \/ Live \/ Drop
  \/ Crash \/ WarmStart \/ ColdStart \/ ScanRead \/ ScanSeq \/ ScanHead \/ ScanManifest

Spec == Init /\ [][Next]_vars

-----------------------------------------------------------------------------
(* Properties.                                                              *)

\* Between calls a document is what the last call on it that returned made it, in a running
\* process and after a crash, compactions included.  The code does not keep that of a document
\* on which calls overlapped, or whose pointer changed while a flush was between collecting
\* and removing it, or was not flushed before a crash; nor of one that a compaction did not
\* see, because a call on it was halfway or its collection was in the write buffer only.
LastCallWins ==
  up # "down" =>
    \A d \in Docs \ unsure : Busy(d) = {} =>
      /\ Current(d) = latest[d]
      /\ latest[d] # NIL => \E o \in objects : o.n = latest[d]

\* The history of a document is linked: a version points to the version before it, which has
\* a smaller seq, so that AS OF and TRACE find it, unless the version before is the tombstone
\* of a delete or the document is one of those above.  The seq may not be smaller once a
\* restart has found a MANIFEST that was behind (or that the cold scan wrote) or a delete
\* has come in before the cold scan had set seq.
HistoryLinked ==
  \A o, p \in objects :
    /\ o.doc = p.doc /\ o.doc \notin unsure /\ p.n < o.n /\ ~p.del
    /\ ~\E q \in objects : q.doc = o.doc /\ p.n < q.n /\ q.n < o.n
    => o.prev = p.n /\ (behind \/ p.seq < o.seq)

\* No two objects have one seq, deletes during a cold scan that come after its seq included,
\* unless a restart found a MANIFEST that was behind (or that the cold scan wrote) or a
\* delete came in before the cold scan had set seq.
SeqsAreUnique == ~behind => \A o, p \in objects : o.seq = p.seq => o = p

\* Between calls the head commits to every object in the store, unless two updates of it
\* overlapped, a restart found an old one, or a delete came in between the cold scan's
\* list of objects and its head.
HeadCoversAll ==
  up = "ready" /\ ~headUnsure /\ (\A t \in Threads : thr[t].pc = "idle") =>
    {o.n : o \in objects} \subseteq head

\* Once create_sorted_index has returned, ORDER BY without LIMIT misses no document that has
\* the field, whatever was written while it ran, unless a flush came between the two halves
\* of its list of documents.  (It leaves out the documents without the field, which ORDER BY
\* without an index puts first; and put_batch and delete leave old versions in the index,
\* so that with LIMIT old versions may take the place of current ones.)
SortedMissesNone ==
  up # "down" /\ fill.pc = "fill" /\ fill.ids = {} =>
    \A d \in Docs \ (unsure \cup fill.missed), o \in objects :
      Busy(d) = {} /\ o.n = Current(d) /\ o.has => o.n \in sorted

=============================================================================
