----------------------------- MODULE WrapRedis -----------------------------
(***************************************************************************)
(* wrap_redis: the application's threads share one WrappedRedis.  A write  *)
(* command goes to Redis and is then shadowed into NEDB; backfill() copies *)
(* what Redis holds already; r.nedb.put writes to NEDB alone.  NEDB is an  *)
(* engine in the process whose ops are added to a Redis stream one by one, *)
(* or a nedbd server reached over HTTP.  Redis and nedbd stay up; the      *)
(* process may stop at any point, and calls to them may fail.              *)
(***************************************************************************)
EXTENDS Integers, Sequences, FiniteSets, SequencesExt

CONSTANTS Threads,
          Mapped,       \* keys that match a registered pattern
          Raw,          \* other keys
          Docs, Id,     \* documents of the collections; the document of each mapped key
          Vals,
          Idem,         \* idempotency keys
          NIL, OTHER_,  \* no document; a document that is not the value of a key
          Batch,        \* how many documents backfill() sends to nedbd at once
          MaxCalls, MaxRestarts   \* bounds

\* Keys of different lengths may share a document: extract_id keeps what follows the last colon.
ASSUME WrapAssumption ==
  /\ Batch \in Nat \ {0}
  /\ Id \in [Mapped -> Docs]
  /\ Mapped \cap Raw = {} /\ Docs \cap Raw = {} /\ {NIL, OTHER_} \cap Vals = {}

VARIABLES
  nedbd,       \* which of the two NEDBs it is
  redis,       \* the application's mapped keys
  log,         \* ops of the engine, or of the server: [n, prev, doc, val, idem, ttl]
  stream,      \* nedb:{db}:oplog
  shadow,      \* shadow_writes
  thr,
  calls, restarts,
  born,        \* ops made so far; n tells them apart, as their hashes do
  acked,       \* history: r.nedb.put calls that returned, by their op
  drift,       \* history: keys whose document is not known to be their value
  slips        \* history: what kept an op out of its place in the stream

Keys == Mapped \cup Raw

vars == <<nedbd, redis, log, stream, shadow, thr, calls, restarts, born, acked, drift, slips>>

Resting == [pc |-> "idle", cmd |-> "none", held |-> << >>, todo |-> {}, idem |-> NIL,
            ttl |-> FALSE, seen |-> 0, op |-> 0]

Init ==
  /\ nedbd \in BOOLEAN
  /\ redis \in [Mapped -> Vals \cup {NIL}]
  /\ log = << >> /\ stream = << >> /\ shadow = FALSE
  /\ thr = [t \in Threads |-> Resting]
  /\ calls = 0 /\ restarts = 0 /\ born = 0
  /\ acked = {} /\ drift = {k \in Mapped : redis[k] # NIL} /\ slips = {}

-----------------------------------------------------------------------------
(* The engine behind r.nedb.                                                *)

LastN(ops) == IF ops = << >> THEN 0 ELSE Last(ops).n

\* A key without a mapping has its own document in __redis_shadow__.
DocOf(k) == IF k \in Mapped THEN Id[k] ELSE k

KeysOf(docs) == {k \in Mapped : Id[k] \in docs}

\* What the log says a document is.
Doc(d) ==
  LET on == {i \in DOMAIN log : log[i].doc = d} IN IF on = {} THEN NIL ELSE log[Max(on)].val

\* OpLog.append of a run of puts, the first one on the head that was read.
Logged(items, head, idem, ttl) ==
  log \o [i \in DOMAIN items |->
            [n |-> born + i, prev |-> IF i = 1 THEN head ELSE born + i - 1,
             doc |-> DocOf(items[i].key), val |-> items[i].val, idem |-> idem, ttl |-> ttl]]

\* OpLog.verify
Verifies(ops) ==
  \A i \in DOMAIN ops : ops[i].prev = IF i = 1 THEN 0 ELSE ops[i - 1].n

\* The ops with an idempotency key.
Known(idem) == {o \in Range(log) : idem # NIL /\ o.idem = idem}

Item(k, v, stale) == [key |-> k, val |-> v, stale |-> stale]

\* What other threads hold of keys that were written in Redis is not their value any more.
Outdated(t, keys) ==
  [s \in Threads |->
     IF s = t THEN thr[s]
     ELSE LET held == thr[s].held IN
          [thr[s] EXCEPT !.held =
             [i \in DOMAIN held |-> [held[i] EXCEPT !.stale = @ \/ held[i].key \in keys]]]]

-----------------------------------------------------------------------------
(* Commands and their shadows.                                              *)

\* SET of a value stores it or, with NX or XX, nothing.  Other commands (INCR, SETEX, HSET,
\* DEL and RENAME of several keys, MSET ...) may change any keys.
Effect(cmd, k, v, to) ==
  cmd = "set" => \A x \in Mapped : to[x] = redis[x] \/ (x = k /\ to[x] = v)

\* WrappedRedis._intercepted: the command, on Redis; then the shadow of its first key, if it
\* is on, whatever the command did.  A command that raises (MSET on the way to its shadow)
\* has been carried out or not, and is not shadowed.
Command(t, cmd, k) ==
  /\ thr[t].pc = "idle" /\ calls < MaxCalls
  /\ calls' = calls + 1
  /\ \E v \in Vals, to \in [Mapped -> Vals \cup {NIL}], raises \in BOOLEAN :
       LET changed  == {x \in Mapped : to[x] # redis[x]}
           shadowed == shadow /\ ~raises
           stale    == k \notin Mapped \/ to[k] # v IN
       /\ Effect(cmd, k, v, to)
       /\ redis' = to
       /\ thr' = [Outdated(t, changed) EXCEPT ![t] =
            IF shadowed
            THEN [Resting EXCEPT !.pc = "put", !.cmd = cmd, !.held = << Item(k, v, stale) >>]
            ELSE Resting]
       /\ drift' = drift \cup (IF shadowed THEN changed \ {k} ELSE changed)
  /\ UNCHANGED <<nedbd, log, stream, shadow, restarts, born, acked, slips>>

\* Mutant: a document is merged into the one there is, also by SET.
ShadowMerged(cmd, item) ==
  IF Doc(DocOf(item.key)) # NIL THEN [item EXCEPT !.val = OTHER_] ELSE item

\* The document _shadow puts: the value for SET; for SETEX its time to live, for INCR its
\* argument, and for the other commands the old document with a note of the command,
\* deletions included.  A key that has no mapping gets a record of the command.
Shadow(cmd, item) ==
  IF cmd # "other" /\ item.key \in Mapped THEN item ELSE [item EXCEPT !.val = OTHER_]

Shadows(t) == [i \in DOMAIN thr[t].held |-> Shadow(thr[t].cmd, thr[t].held[i])]

\* No other put of the document is between its op and its store, and it cannot expire.
Settled(t, d) ==
  /\ \A s \in Threads \ {t} : thr[s].pc = "add" => \A i \in DOMAIN thr[s].held : DocOf(thr[s].held[i].key) # d
  /\ \A o \in Range(log) : o.doc = d => ~o.ttl

\* The keys whose document a put makes their value: the last of those that share it.
Exact(t) ==
  LET held == thr[t].held IN
  {held[i].key : i \in {j \in DOMAIN held :
     /\ thr[t].cmd \in {"set", "backfill"} /\ ~held[j].stale /\ held[j].key \in Mapped
     /\ \A m \in DOMAIN held : DocOf(held[m].key) = DocOf(held[j].key) => m <= j
     /\ Settled(t, DocOf(held[j].key))}}

DriftAfter(t, raises) ==
  (drift \cup KeysOf({DocOf(thr[t].held[i].key) : i \in DOMAIN thr[t].held}))
     \ (IF raises THEN {} ELSE Exact(t))

\* The key that a command changed in Redis and whose shadow is under way.
Shadowed(t) ==
  IF thr[t].pc \in {"put", "log"} /\ thr[t].cmd \in {"set", "other"}
  THEN {thr[t].held[i].key : i \in DOMAIN thr[t].held} \cap Mapped ELSE {}

\* Another thread is between the head it read and its XADD.
Overlap(t) == IF \E s \in Threads \ {t} : thr[s].pc \in {"log", "add"} THEN {"overlap"} ELSE {}

After(t) == IF thr[t].cmd = "backfill"
            THEN [thr[t] EXCEPT !.pc = "scan", !.held = << >>]
            ELSE Resting

\* A put to nedbd, one request.  It may raise when it has been carried out, with its answer
\* lost or an index failing on the value: swallowed, but by r.nedb.put.
Serve(t) ==
  /\ nedbd /\ thr[t].pc = "put"
  /\ \E raises \in BOOLEAN :
       LET known == Known(thr[t].idem) IN
       /\ IF known # {} THEN UNCHANGED <<log, born, drift>>
          ELSE /\ log' = Logged(Shadows(t), LastN(log), thr[t].idem, FALSE)
               /\ born' = born + Len(thr[t].held) /\ drift' = DriftAfter(t, raises)
       /\ acked' = IF thr[t].cmd # "nedb.put" \/ raises THEN acked
                   ELSE acked \cup {IF known = {} THEN born + 1 ELSE (CHOOSE o \in known : TRUE).n}
  /\ thr' = [thr EXCEPT ![t] = After(t)]
  /\ UNCHANGED <<nedbd, redis, stream, shadow, calls, restarts, slips>>

\* OpLog.append in the process, without a lock: a known idempotency key is found and nothing
\* logged, or the head is read ...
Link(t) ==
  LET known == Known(thr[t].idem) IN
  /\ ~nedbd /\ thr[t].pc = "put"
  /\ thr' = [thr EXCEPT ![t] =
       IF known = {} THEN [@ EXCEPT !.pc = "log", !.seen = LastN(log)]
       ELSE [@ EXCEPT !.pc = "add", !.op = (CHOOSE o \in known : TRUE).n]]
  /\ slips' = slips \cup Overlap(t) \cup (IF known = {} THEN {} ELSE {"repeated"})
  /\ UNCHANGED <<nedbd, redis, log, stream, shadow, calls, restarts, born, acked, drift>>

\* ... and the op is appended to it; then apply_op.  When that raises (an index on a value
\* it cannot take) the op stays and XADD is not tried.
PutHeld(t) ==
  /\ thr[t].pc = "log"
  /\ log' = Logged(Shadows(t), thr[t].seen, thr[t].idem, thr[t].ttl)
  /\ born' = born + Len(thr[t].held)
  /\ \E raises \in BOOLEAN :
       /\ drift' = DriftAfter(t, raises)
       /\ thr' = [thr EXCEPT ![t] = IF raises THEN After(t) ELSE [@ EXCEPT !.pc = "add", !.op = born + 1]]
       /\ slips' = slips \cup (IF raises THEN {"raised"} ELSE {})
  /\ UNCHANGED <<nedbd, redis, stream, shadow, calls, restarts, acked>>

\* A put raised with nothing logged: the request failed, the document cannot be written as
\* JSON, or another thread took its nonce.  backfill() drops the batch.
Dropped(t) ==
  /\ thr[t].pc \in {"put", "log"}
  /\ drift' = drift \cup Shadowed(t)
  /\ thr' = [thr EXCEPT ![t] = After(t)]
  /\ UNCHANGED <<nedbd, redis, log, stream, shadow, calls, restarts, born, acked, slips>>

\* Mutant: _persist_last_op swallows the error.
AddAlways(t) ==
  /\ thr[t].pc = "add"
  /\ \E added, raises \in BOOLEAN :
       /\ stream' = IF added THEN Append(stream, Last(log)) ELSE stream
       /\ slips' = slips \cup (IF added THEN {} ELSE {"failed"})
                         \cup (IF added /\ LastN(log) # thr[t].op THEN {"other op"} ELSE {})
       /\ acked' = IF thr[t].cmd = "nedb.put" THEN acked \cup {thr[t].op} ELSE acked
  /\ thr' = [thr EXCEPT ![t] = After(t)]
  /\ UNCHANGED <<nedbd, redis, log, shadow, calls, restarts, born, drift>>

\* _persist_last_op: XADD of the op that is the last one now, and PUBLISH.  An error of
\* either is swallowed by _shadow and by backfill(), and raised by r.nedb.put.
Add(t) ==
  /\ thr[t].pc = "add"
  /\ \E added, raises \in BOOLEAN :
       /\ added \/ raises
       /\ stream' = IF added THEN Append(stream, Last(log)) ELSE stream
       /\ slips' = slips \cup (IF added THEN {} ELSE {"failed"})
                         \cup (IF added /\ LastN(log) # thr[t].op THEN {"other op"} ELSE {})
       /\ acked' = IF ~raises /\ thr[t].cmd = "nedb.put" THEN acked \cup {thr[t].op} ELSE acked
  /\ thr' = [thr EXCEPT ![t] = After(t)]
  /\ UNCHANGED <<nedbd, redis, log, shadow, calls, restarts, born, drift>>

-----------------------------------------------------------------------------
(* r.nedb                                                                   *)

\* NEDBSurface.put of the document of a key, or delete (NIL).  NedBdProxy passes no ttl on.
NedbPut(t, k, v, i, ttl) ==
  /\ thr[t].pc = "idle" /\ calls < MaxCalls
  /\ calls' = calls + 1
  /\ thr' = [thr EXCEPT ![t] = [Resting EXCEPT !.pc = "put", !.cmd = "nedb.put",
       !.held = << Item(k, v, TRUE) >>, !.idem = i, !.ttl = ttl]]
  /\ UNCHANGED <<nedbd, redis, log, stream, shadow, restarts, born, acked, drift, slips>>

\* get() of a document whose time has passed logs its deletion; nothing persists that op.
Expire(k) ==
  /\ \E o \in Range(log) : o.doc = Id[k] /\ o.ttl
  /\ Doc(Id[k]) # NIL
  /\ log' = Logged(<< Item(k, NIL, TRUE) >>, LastN(log), NIL, FALSE) /\ born' = born + 1
  /\ drift' = drift \cup KeysOf({Id[k]})
  /\ slips' = slips \cup {"expiry"}
  /\ UNCHANGED <<nedbd, redis, stream, shadow, thr, calls, restarts, acked>>

\* backfill(): SCAN gives the keys.
Backfill(t) ==
  /\ thr[t].pc = "idle" /\ calls < MaxCalls
  /\ calls' = calls + 1
  /\ thr' = [thr EXCEPT ![t] = [Resting EXCEPT !.pc = "scan", !.cmd = "backfill", !.todo = Mapped]]
  /\ UNCHANGED <<nedbd, redis, log, stream, shadow, restarts, born, acked, drift, slips>>

\* Read the next key; put it at once, or when the batch for nedbd is full.
Import(t, k) ==
  LET held == IF redis[k] = NIL THEN thr[t].held
              ELSE Append(thr[t].held, Item(k, redis[k], FALSE)) IN
  /\ thr[t].pc = "scan" /\ k \in thr[t].todo
  /\ thr' = [thr EXCEPT ![t] = [@ EXCEPT !.todo = thr[t].todo \ {k}, !.held = held,
       !.pc = IF Len(held) >= (IF nedbd THEN Batch ELSE 1) THEN "put" ELSE "scan"]]
  /\ UNCHANGED <<nedbd, redis, log, stream, shadow, calls, restarts, born, acked, drift, slips>>

\* The rest of the batch, and the end.
EndScan(t) ==
  /\ thr[t].pc = "scan" /\ thr[t].todo = {}
  /\ thr' = [thr EXCEPT ![t] = IF @.held = << >> THEN Resting ELSE [@ EXCEPT !.pc = "put"]]
  /\ UNCHANGED <<nedbd, redis, log, stream, shadow, calls, restarts, born, acked, drift, slips>>

\* r.nedb.shadow_writes = True
Enable ==
  /\ ~shadow /\ shadow' = TRUE
  /\ UNCHANGED <<nedbd, redis, log, stream, thr, calls, restarts, born, acked, drift, slips>>

\* Mutant: the stream is read, but the log's head is not restored from it.
ReloadedHeadless(ops) == IF ops = << >> THEN ops ELSE Append(ops, [Last(ops) EXCEPT !.n = 0])

\* _reload: the ops of the stream.
Reloaded(ops) == ops

\* The process stops, and starts again with what the stream or nedbd has; shadow_writes is off.
Restart ==
  LET unsaved == {o.doc : o \in Range(log) \ Range(stream)} IN
  /\ restarts < MaxRestarts
  /\ restarts' = restarts + 1
  /\ log' = IF nedbd THEN log ELSE Reloaded(stream)
  /\ drift' = drift \cup (UNION {Shadowed(t) : t \in Threads})
                    \cup (IF nedbd THEN {} ELSE KeysOf(unsaved))
  /\ thr' = [t \in Threads |-> Resting] /\ shadow' = FALSE
  /\ UNCHANGED <<nedbd, redis, stream, calls, born, acked, slips>>

Next ==
  \/ \E t \in Threads :
       \/ \E k \in Keys, cmd \in {"set", "other"} : Command(t, cmd, k)
       \/ Serve(t) \/ Link(t) \/ PutHeld(t) \/ Dropped(t) \/ Add(t)
       \/ \E k \in Mapped, v \in Vals, i \in Idem : NedbPut(t, k, v, i, FALSE)
       \/ \E k \in Mapped, v \in Vals, ttl \in BOOLEAN : NedbPut(t, k, v, NIL, ttl /\ ~nedbd)
       \/ \E k \in Mapped : NedbPut(t, k, NIL, NIL, FALSE)
       \/ Backfill(t) \/ EndScan(t) \/ \E k \in Mapped : Import(t, k)
  \/ Enable \/ Restart \/ \E k \in Mapped : Expire(k)

Spec == Init /\ [][Next]_vars

-----------------------------------------------------------------------------
(* Properties.                                                              *)

\* Once a SET was shadowed or a key imported, the key's document is its value in Redis, across
\* restarts, or the shadow of a command on it is under way: as long as
\*   - the key is only SET, as a command's first key, with the shadow on;
\*   - SET stored what it was given, and no other thread wrote the key before the put;
\*   - no other key, nor r.nedb, puts to the same document, and it was given no time to live;
\*   - no put or add of it was lost, or raised, or met another put of the same document.
Mirror == \A k \in Mapped \ drift : Doc(Id[k]) = redis[k] \/ \E t \in Threads : k \in Shadowed(t)

\* The stream is a chain that verify() accepts after any stop of the process, unless an
\* XADD failed, apply_op raised on an op that was logged, a thread read the head of the log
\* while another was between that and its XADD, a document expired, or an idempotent put was
\* repeated.
StreamVerifies == slips = {} => Verifies(stream)

\* A put of r.nedb that returned is in the stream (or in nedbd's log) for the next start,
\* unless XADD ever took the op of another call in place of its own.
AckedPersisted ==
  "other op" \in slips \/ acked \subseteq {o.n : o \in Range(IF nedbd THEN log ELSE stream)}

=============================================================================
