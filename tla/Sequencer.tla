----------------------------- MODULE Sequencer -----------------------------
(***************************************************************************)
(* The group-commit front end of python/nedb/concurrent.py: writer threads *)
(* that drop an intent on a queue and wait, the one committer thread that  *)
(* drains the queue in batches, and close().  The engine behind it         *)
(* (module AofEngine, with deferred sync) is reduced to its log, to the    *)
(* part of it written to the file, and to the part of that fsynced.        *)
(***************************************************************************)
EXTENDS Integers, Sequences, FiniteSets

CONSTANTS Writers,          \* threads that call put, delete, link, ... checkpoint
          MaxCalls,         \* bound: calls of each writer
          MaxBatch,         \* max_batch
          STOP,             \* the _STOP sentinel
          MayClose,         \* whether somebody calls close()
          FsyncMayFail,     \* whether flush() may raise
          JoinMayTimeOut    \* whether join(timeout=5) may give up

Intents == Writers \X (1..MaxCalls)

ASSUME SequencerAssumption ==
  /\ MaxCalls \in Nat /\ MaxBatch \in Nat \ {0}
  /\ STOP \notin Intents
  /\ {MayClose, FsyncMayFail, JoinMayTimeOut} \subseteq BOOLEAN

VARIABLES
  wpc,        \* each writer: "idle", "checked" (saw _closed unset), "waiting" (in done.wait())
  calls,      \* calls each writer has begun
  answered,   \* the intents whose writer has returned from _submit
  q,          \* the queue
  cpc,        \* the committer: "get", "drain", "apply", "publish", "wake", "exited"
  batch,      \* its batch
  bi,         \* how far through the batch it is
  saw_stop,   \* _commit_batch's saw_stop
  error,      \* the intents with an error
  noop,       \* the intents that succeeded without an op: create_index, a put whose
              \* idempotency key is known
  done,       \* the intents whose done event is set
  committed_seq,
  log,        \* the engine's op log: the intent each op came from
  written,    \* how many of its ops reached the file object
  durable,    \* how many of those are fsynced
  aof_open,   \* the engine's _aof is not None
  closed,     \* _closed
  clpc        \* the closer: "none", "stop", "join", "dbclose", "closed"

writers   == <<wpc, calls, answered>>
committer == <<cpc, batch, bi, saw_stop>>
engine    == <<log, written, durable, aof_open>>
vars == <<writers, q, committer, error, noop, done, committed_seq, engine, closed, clpc>>

Init ==
  /\ wpc = [w \in Writers |-> "idle"] /\ calls = [w \in Writers |-> 0] /\ answered = {}
  /\ q = << >>
  /\ cpc = "get" /\ batch = << >> /\ bi = 1 /\ saw_stop = FALSE
  /\ error = {} /\ noop = {} /\ done = {} /\ committed_seq = -1
  /\ log = << >> /\ written = 0 /\ durable = 0 /\ aof_open = TRUE
  /\ closed = FALSE /\ clpc = "none"

-----------------------------------------------------------------------------
(* _submit                                                                  *)

Current(w) == <<w, calls[w]>>

\* if self._closed: raise RuntimeError
Check(w) ==
  /\ wpc[w] = "idle" /\ calls[w] < MaxCalls
  /\ calls' = [calls EXCEPT ![w] = @ + 1]
  /\ wpc' = [wpc EXCEPT ![w] = IF closed THEN "idle" ELSE "checked"]
  /\ UNCHANGED <<answered, q, committer, error, noop, done, committed_seq, engine, closed, clpc>>

Enqueue(w) ==
  /\ wpc[w] = "checked"
  /\ q' = Append(q, Current(w))
  /\ wpc' = [wpc EXCEPT ![w] = "waiting"]
  /\ UNCHANGED <<calls, answered, committer, error, noop, done, committed_seq, engine, closed, clpc>>

\* intent.done.wait() returns; the result or the error goes to the caller.
Return(w) ==
  /\ wpc[w] = "waiting" /\ Current(w) \in done
  /\ wpc' = [wpc EXCEPT ![w] = "idle"]
  /\ answered' = answered \cup {Current(w)}
  /\ UNCHANGED <<calls, q, committer, error, noop, done, committed_seq, engine, closed, clpc>>

-----------------------------------------------------------------------------
(* _run and _commit_batch                                                   *)

PeekRest(s) == s          \* mutant: the intent stays on the queue

Rest(s) == Tail(s)

Get ==
  /\ cpc = "get" /\ q # << >>
  /\ q' = Rest(q)
  /\ IF Head(q) = STOP
     THEN cpc' = "exited" /\ UNCHANGED batch
     ELSE cpc' = "drain" /\ batch' = <<Head(q)>>
  /\ UNCHANGED <<writers, bi, saw_stop, error, noop, done, committed_seq, engine, closed, clpc>>

Room == Len(batch) < MaxBatch

Drain ==
  /\ cpc = "drain"
  /\ IF Room /\ q # << >>
     THEN batch' = Append(batch, Head(q)) /\ q' = Tail(q) /\ UNCHANGED cpc
     ELSE cpc' = "apply" /\ UNCHANGED <<batch, q>>
  /\ UNCHANGED <<writers, bi, saw_stop, error, noop, done, committed_seq, engine, closed, clpc>>

\* The op enters the log by a buffered write; once close() took the file away, in
\* memory only.
Log(i) ==
  /\ log' = Append(log, i)
  /\ written' = IF aof_open THEN Len(log) + 1 ELSE written

\* _apply_one: the engine logs an op, and a checkpoint's is flushed at once; it has
\* nothing to log; it refuses before it logs; or it raises after it logged.
ApplyOne(i) ==
  \/ Log(i) /\ UNCHANGED <<error, noop, durable>>
  \/ /\ Log(i) /\ durable' = (IF aof_open THEN Len(log) + 1 ELSE durable)
     /\ UNCHANGED <<error, noop>>
  \/ noop' = noop \cup {i} /\ UNCHANGED <<error, log, written, durable>>
  \/ error' = error \cup {i} /\ UNCHANGED <<noop, log, written, durable>>
  \/ error' = error \cup {i} /\ Log(i) /\ UNCHANGED <<noop, durable>>

Apply ==
  /\ cpc = "apply" /\ bi <= Len(batch)
  /\ bi' = bi + 1
  /\ \/ batch[bi] = STOP /\ saw_stop' = TRUE /\ UNCHANGED <<error, noop, log, written, durable>>
     \/ batch[bi] # STOP /\ ApplyOne(batch[bi]) /\ UNCHANGED saw_stop
  /\ UNCHANGED <<writers, q, cpc, batch, done, committed_seq, aof_open, closed, clpc>>

\* Mutant: the batch is not fsynced.
SkipFlush ==
  /\ cpc = "apply" /\ bi > Len(batch)
  /\ cpc' = "publish"
  /\ UNCHANGED <<writers, q, batch, bi, saw_stop, error, noop, done, committed_seq, engine, closed, clpc>>

\* db.flush(), which does nothing without a file; an exception is swallowed.
Flush ==
  /\ cpc = "apply" /\ bi > Len(batch)
  /\ cpc' = "publish"
  /\ durable' = IF aof_open THEN written ELSE durable
  /\ UNCHANGED <<writers, q, batch, bi, saw_stop, error, noop, done, committed_seq,
                 log, written, aof_open, closed, clpc>>

FlushFails ==
  /\ FsyncMayFail /\ aof_open
  /\ cpc = "apply" /\ bi > Len(batch)
  /\ cpc' = "publish"
  /\ UNCHANGED <<writers, q, batch, bi, saw_stop, error, noop, done, committed_seq, engine, closed, clpc>>

StaleSeq == Len(log) - 1 - Len(batch)    \* mutant: the seq before this batch

EngineSeq == Len(log) - 1                \* NEDB.seq

Publish ==
  /\ cpc = "publish"
  /\ committed_seq' = EngineSeq
  /\ cpc' = "wake" /\ bi' = 1
  /\ UNCHANGED <<writers, q, batch, saw_stop, error, noop, done, engine, closed, clpc>>

\* intent.done.set() for each of the batch in turn; then on to the next batch.
Wake ==
  /\ cpc = "wake" /\ bi <= Len(batch)
  /\ bi' = bi + 1
  /\ done' = done \cup ({batch[bi]} \ {STOP})
  /\ UNCHANGED <<writers, q, cpc, batch, saw_stop, error, noop, committed_seq, engine, closed, clpc>>

ExitAlways == "exited"          \* mutant: the committer leaves after one batch
NeverExit  == "get"             \* mutant: a _STOP inside a batch is forgotten

Afterwards == IF saw_stop THEN "exited" ELSE "get"

EndBatch ==
  /\ cpc = "wake" /\ bi > Len(batch)
  /\ batch' = << >> /\ bi' = 1
  /\ cpc' = Afterwards
  /\ UNCHANGED <<writers, q, saw_stop, error, noop, done, committed_seq, engine, closed, clpc>>

-----------------------------------------------------------------------------
(* close                                                                    *)

Close ==
  /\ MayClose /\ ~closed
  /\ closed' = TRUE /\ clpc' = "stop"
  /\ UNCHANGED <<writers, q, committer, error, noop, done, committed_seq, engine>>

PutStop ==
  /\ clpc = "stop"
  /\ q' = Append(q, STOP) /\ clpc' = "join"
  /\ UNCHANGED <<writers, committer, error, noop, done, committed_seq, engine, closed>>

Join ==
  /\ clpc = "join"
  /\ cpc = "exited" \/ JoinMayTimeOut
  /\ clpc' = "dbclose"
  /\ UNCHANGED <<writers, q, committer, error, noop, done, committed_seq, engine, closed>>

\* NEDB.close(): flush, fsync, _aof = None.
DbClose ==
  /\ clpc = "dbclose"
  /\ durable' = written /\ aof_open' = FALSE /\ clpc' = "closed"
  /\ UNCHANGED <<writers, q, committer, error, noop, done, committed_seq, log, written, closed>>

Committer == Get \/ Drain \/ Apply \/ Flush \/ FlushFails \/ Publish \/ Wake \/ EndBatch

Closer == PutStop \/ Join \/ DbClose

Next ==
  \/ \E w \in Writers : Check(w) \/ Enqueue(w) \/ Return(w)
  \/ Committer
  \/ Close \/ Closer

\* Every thread is scheduled: the committer runs while it has work, a writer
\* inside _submit goes on, and close() goes on.  Nobody has to call.
Fairness ==
  /\ WF_vars(Committer) /\ WF_vars(Closer)
  /\ \A w \in Writers : WF_vars(Enqueue(w)) /\ WF_vars(Return(w))

Spec == Init /\ [][Next]_vars

FairSpec == Spec /\ Fairness

-----------------------------------------------------------------------------
(* Properties.                                                              *)

\* The types of the Sequencer's fields; a batch never exceeds max_batch.
TypeOK ==
  /\ wpc \in [Writers -> {"idle", "checked", "waiting"}]
  /\ calls \in [Writers -> 0..MaxCalls] /\ answered \subseteq Intents
  /\ q \in Seq(Intents \cup {STOP}) /\ batch \in Seq(Intents \cup {STOP})
  /\ Len(batch) <= MaxBatch
  /\ cpc \in {"get", "drain", "apply", "publish", "wake", "exited"}
  /\ bi \in 1..(Len(batch) + 1) /\ saw_stop \in BOOLEAN
  /\ error \subseteq Intents /\ noop \subseteq Intents /\ done \subseteq Intents
  /\ committed_seq \in -1..(Len(log) - 1) /\ log \in Seq(Intents)
  /\ written \in 0..Len(log) /\ durable \in 0..written /\ aof_open \in BOOLEAN
  /\ closed \in BOOLEAN /\ clpc \in {"none", "stop", "join", "dbclose", "closed"}

\* The calls that returned without an error and had something to write.
Succeeded == answered \ (error \cup noop)

\* Read your writes: once a write returned without an error, the snapshot that
\* readers are pinned to (committed_seq) includes its op.
ReadYourWrites ==
  \A i \in Succeeded : \E n \in 1..(committed_seq + 1) : log[n] = i

\* A write that returned without an error is durable.
AckedDurable ==
  \A i \in Succeeded : \E n \in 1..durable : log[n] = i

\* The intent of a waiting writer is queued ahead of any _STOP, and no _STOP has
\* reached the committer.
AheadOfStop(w) ==
  /\ wpc[w] = "waiting" /\ cpc # "exited"
  /\ \A n \in 1..Len(batch) : batch[n] # STOP
  /\ \E n \in 1..Len(q) : q[n] = Current(w) /\ \A m \in 1..n : q[m] # STOP

\* close() strands nobody who was in the queue before it: such a call is answered.
CallsBeforeStopReturn == \A w \in Writers : AheadOfStop(w) ~> wpc[w] = "idle"

\* close() comes to an end even when join() has no time limit to rescue it.
CloseReturns == closed ~> clpc = "closed"

\* The abstract state: what is published is the log up to committed_seq, and an
\* intent is settled when that covers its batch.
Published == SubSeq(log, 1, committed_seq + 1)

InPublished == {Published[n] : n \in 1..Len(Published)}

Unpublished == {log[n] : n \in (committed_seq + 2)..Len(log)}

InBatch == {batch[n] : n \in 1..Len(batch)}

Settled == {i \in (error \cup noop) \ (Unpublished \cup InPublished) :
              ~ (cpc \in {"apply", "publish"} /\ i \in InBatch)}

Waiting == {<<w, calls[w]>> : w \in {x \in Writers : wpc[x] = "waiting"}}

Abstract == INSTANCE CommitLog WITH
  pending   <- Waiting \ (InPublished \cup Settled),
  committed <- Published,
  opless    <- Settled,
  answered  <- answered

\* The Sequencer implements the commit log.
ImplementsCommitLog == Abstract!Spec

=============================================================================
