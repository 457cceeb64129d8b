------------------------------- MODULE Daemon -------------------------------
(***************************************************************************)
(* nedbd, the threaded daemon (server.py): the Manager's table of open     *)
(* databases, request threads, RESP2 connections, the checkpoint thread,   *)
(* shutdown, kills and restarts.  A database is its directory's log file   *)
(* (an inode: an engine keeps writing to the one it opened, also after     *)
(* rmtree or a rewrite took the name away from it) and the engines,        *)
(* behind Sequencers, that were opened on it.  An op is told apart by its  *)
(* number; its hash is that number.  Batches hold one intent (Sequencer    *)
(* models larger ones), documents and snapshots are left to AofEngine.     *)
(***************************************************************************)
EXTENDS Integers, Sequences, FiniteSets, SequencesExt

CONSTANTS Names,
          Threads,            \* of jobs, of _checkpoint_loop, and the main thread
          Kinds,              \* what a thread may be asked to do
          MaxOps, MaxHandles, MaxInodes, MaxJobs, MaxBoots   \* bounds

ASSUME DaemonAssumption ==
  /\ IsFiniteSet(Names) /\ Names # {}
  /\ Kinds \subseteq {"put", "query", "create", "drop", "batch", "mongo", "resp2", "autosave", "stop"}

VARIABLES
  dir,        \* [Names -> inode of log.aof], 0 when there is none
  files,      \* the inodes' contents
  hs,         \* every Sequencer and its engine made so far
  opened,     \* Manager._open, 0 for a missing name
  rq,         \* what each thread is doing
  conn,       \* _Handler._rc: the Sequencer a RESP2 connection keeps
  nops,       \* ops made so far
  jobs, boots,
  main,       \* "serving", "stopping", "stopped" (cleanly) or "down"
  answered,   \* history: writes that returned without an error
  removed,    \* history: the writes in a log when rmtree took it
  calm        \* history: no open or drop of the name has overlapped another, or close_all

disk == <<dir, files>>
vars == <<disk, hs, opened, rq, conn, nops, jobs, boots, main, answered, removed, calm>>

GENESIS == 0

Idle == [pc |-> "idle", kind |-> "put", name |-> CHOOSE n \in Names : TRUE, h |-> 0,
         nonce |-> 0, op |-> [w |-> 0, seq |-> 0, prev |-> 0], todo |-> {}, size |-> 0]

Chained(ops) ==
  \A i \in 1..Len(ops) : ops[i].prev = IF i = 1 THEN GENESIS ELSE ops[i - 1].w

\* _self_heal_if_needed: link every op to the one before it.
Healed(ops) ==
  [i \in 1..Len(ops) |-> [ops[i] EXCEPT !.prev = IF i = 1 THEN GENESIS ELSE ops[i - 1].w]]

\* NEDB(path) and Sequencer(db) on inode i.
NewHandle(n, i, ops) ==
  [name |-> n, ino |-> i, ops |-> ops, head |-> IF ops = << >> THEN GENESIS ELSE Last(ops).w,
   nonce |-> Len(ops), last |-> Len(ops), buf |-> << >>, q |-> << >>,
   closed |-> FALSE, aof |-> TRUE, mixed |-> FALSE]

\* A daemon that has opened what its data directory holds: nothing, or some empty databases.
Init ==
  \E there \in SUBSET Names :
    LET order == SetToSeq(there) IN
    /\ dir = [n \in Names |-> IF n \in there THEN CHOOSE i \in DOMAIN order : order[i] = n ELSE 0]
    /\ files = [i \in DOMAIN order |-> << >>]
    /\ hs = [i \in DOMAIN order |-> NewHandle(order[i], i, << >>)]
    /\ opened = dir /\ rq = [t \in Threads |-> Idle]
    /\ conn = [t \in Threads |-> 0] /\ nops = 0 /\ jobs = 0 /\ boots = 0
    /\ main = "serving" /\ answered = {} /\ removed = {} /\ calm = [n \in Names |-> TRUE]

Up == main # "down"

Goto(t, pc) == rq' = [rq EXCEPT ![t].pc = pc]

\* checkpoint_all and close_all walk over the open databases.
Walks == {"autosave", "stop", "close"}

\* The request is answered, with a result or an error; checkpoint_all() goes on to the
\* next database.
Answer(t) == rq' = [rq EXCEPT ![t] = IF rq[t].kind \in Walks THEN [rq[t] EXCEPT !.pc = "next"] ELSE Idle]

\* A write returned: a batch goes on to its next (here: its second and last) op, and
\* create(), seeded, to summary(), which requires the database again.
Return(t) ==
  CASE rq[t].kind = "batch"  -> rq' = [rq EXCEPT ![t].kind = "put", ![t].pc = "submit"]
    [] rq[t].kind = "create" -> rq' = [rq EXCEPT ![t].kind = "query", ![t].pc = "exists"]
    [] OTHER                 -> Answer(t)

\* Some other request is inside open() past its test, or inside drop().
Busy(t, n) == \E u \in Threads \ {t} :
                rq[u].name = n /\ rq[u].pc \in {"load", "register", "close", "join", "del", "rmtree"}

Mark(t, n) == calm' = [calm EXCEPT ![n] = @ /\ ~Busy(t, n)]

\* The writes of an inode's log.
Written(i) == IF i = 0 THEN {} ELSE {files[i][j].w : j \in DOMAIN files[i]}

-----------------------------------------------------------------------------
(* Manager.exists, open, require and create.                                *)

Exists(n) == opened[n] # 0 \/ dir[n] # 0

\* _handle: a request arrives.  A RESP2 command opens its database without asking
\* whether it exists, and only when the connection has no handle yet (_get_rc).
Begin(t, kind, n) ==
  /\ Up /\ rq[t].pc = "idle" /\ jobs < MaxJobs /\ kind \notin Walks
  /\ kind = "resp2" /\ conn[t] # 0 => n = hs[conn[t]].name
  /\ jobs' = jobs + 1
  /\ rq' = [rq EXCEPT ![t] =
              [Idle EXCEPT !.kind = kind, !.name = n,
                           !.h = IF kind = "resp2" THEN conn[t] ELSE 0,
                           !.pc = IF kind = "resp2"
                                  THEN IF conn[t] = 0 THEN "open" ELSE "submit"
                                  ELSE "exists"]]
  /\ UNCHANGED <<disk, hs, opened, conn, nops, boots, main, answered, removed, calm>>

\* SELECT: the connection forgets its handle.
Select(t) ==
  /\ Up /\ rq[t].pc = "idle" /\ conn[t] # 0
  /\ conn' = [conn EXCEPT ![t] = 0]
  /\ UNCHANGED <<disk, hs, opened, rq, nops, jobs, boots, main, answered, removed, calm>>

\* require: 404; create: 409; drop: false.
CheckExists(t) ==
  /\ Up /\ rq[t].pc = "exists"
  /\ CASE rq[t].kind = "create" -> IF Exists(rq[t].name) THEN Answer(t) ELSE Goto(t, "open")
       [] rq[t].kind = "drop"   -> IF Exists(rq[t].name) THEN Goto(t, "close") ELSE Answer(t)
       [] OTHER                 -> IF Exists(rq[t].name) THEN Goto(t, "open") ELSE Answer(t)
  /\ UNCHANGED <<disk, hs, opened, conn, nops, jobs, boots, main, answered, removed, calm>>

\* Mutant: open() always makes a new engine.
OpenAgain(t) ==
  /\ Up /\ rq[t].pc = "open"
  /\ Goto(t, "load") /\ Mark(t, rq[t].name)
  /\ UNCHANGED <<disk, hs, opened, conn, nops, jobs, boots, main, answered, removed>>

\* if name not in self._open
OpenTest(t) ==
  /\ Up /\ rq[t].pc = "open"
  /\ IF opened[rq[t].name] = 0
     THEN Goto(t, "load") /\ Mark(t, rq[t].name)
     ELSE Goto(t, "lookup") /\ UNCHANGED calm
  /\ UNCHANGED <<disk, hs, opened, conn, nops, jobs, boots, main, answered, removed>>

\* The inode, contents and directory after NEDB(path): an existing log is read and,
\* when its chain is broken, relinked and renamed over by _rewrite_aof.
Opening(n) ==
  IF dir[n] = 0 THEN [ino |-> Len(files) + 1, ops |-> << >>]
  ELSE IF Chained(files[dir[n]]) THEN [ino |-> dir[n], ops |-> files[dir[n]]]
  ELSE [ino |-> Len(files) + 1, ops |-> Healed(files[dir[n]])]

Load(t) ==
  LET n == rq[t].name
      o == Opening(n)
  IN
  /\ Up /\ rq[t].pc = "load" /\ Len(hs) < MaxHandles /\ o.ino <= MaxInodes
  /\ dir' = [dir EXCEPT ![n] = o.ino]
  /\ files' = IF o.ino > Len(files) THEN Append(files, o.ops) ELSE files
  /\ hs' = Append(hs, NewHandle(n, o.ino, o.ops))
  /\ rq' = [rq EXCEPT ![t].h = Len(hs) + 1, ![t].pc = "register"]
  /\ UNCHANGED <<opened, conn, nops, jobs, boots, main, answered, removed, calm>>

\* self._open[name] = Sequencer(db)
Register(t) ==
  /\ Up /\ rq[t].pc = "register"
  /\ opened' = [opened EXCEPT ![rq[t].name] = rq[t].h]
  /\ Goto(t, "lookup")
  /\ UNCHANGED <<disk, hs, conn, nops, jobs, boots, main, answered, removed, calm>>

\* return self._open[name]: KeyError when a drop came between.
Lookup(t) ==
  LET h == opened[rq[t].name] IN
  /\ Up /\ rq[t].pc = "lookup"
  /\ IF h = 0 \/ rq[t].kind = "query" THEN Answer(t)
     ELSE rq' = [rq EXCEPT ![t].h = h,
                           ![t].pc = IF rq[t].kind = "mongo" THEN "nonce" ELSE "submit"]
  /\ conn' = IF h # 0 /\ rq[t].kind = "resp2" THEN [conn EXCEPT ![t] = h] ELSE conn
  /\ UNCHANGED <<disk, hs, opened, nops, jobs, boots, main, answered, removed, calm>>

-----------------------------------------------------------------------------
(* A write: _submit, the committer, and the mongo endpoint, which calls the *)
(* engine behind the Sequencer from its own thread.                         *)

\* _submit: an error when the Sequencer is closed, else the intent is queued (Sequencer
\* has the gap between the two, where a caller may hang).
Submit(t) ==
  LET h == rq[t].h IN
  /\ Up /\ rq[t].pc = "submit"
  /\ IF hs[h].closed THEN Answer(t) /\ UNCHANGED hs
     ELSE Goto(t, "nonce") /\ hs' = [hs EXCEPT ![h].q = Append(@, t)]
  /\ UNCHANGED <<disk, opened, conn, nops, jobs, boots, main, answered, removed, calm>>

\* POST .../mongo hands MongoCompat the engine itself, db.db.
Direct(t) == rq[t].kind = "mongo"

\* Whose turn it is: a mongo request's own thread, or the committer for the first intent.
Runs(t) == Direct(t) \/ (hs[rq[t].h].q # << >> /\ Head(hs[rq[t].h].q) = t)

InAppend(t, h) == rq[t].h = h /\ rq[t].pc \in {"read", "append"}

\* NEDB._next
TakeNonce(t) ==
  LET h == rq[t].h IN
  /\ Up /\ rq[t].pc = "nonce" /\ Runs(t)
  /\ hs' = [hs EXCEPT ![h].nonce = @ + 1,
                      ![h].mixed = @ \/ \E u \in Threads \ {t} : InAppend(u, h)]
  /\ rq' = [rq EXCEPT ![t].nonce = hs[h].nonce + 1, ![t].pc = "read"]
  /\ UNCHANGED <<disk, opened, conn, nops, jobs, boots, main, answered, removed, calm>>

\* OpLog.append up to the new record: ReplayError, or seq and head are read.
ReadHead(t) ==
  LET h == rq[t].h IN
  /\ Up /\ rq[t].pc = "read" /\ nops < MaxOps
  /\ IF rq[t].nonce <= hs[h].last
     THEN /\ UNCHANGED nops
          /\ IF Direct(t) THEN Answer(t) ELSE Goto(t, "failed")
     ELSE /\ nops' = nops + 1
          /\ rq' = [rq EXCEPT ![t].pc = "append",
                              ![t].op = [w |-> nops + 1, seq |-> Len(hs[h].ops), prev |-> hs[h].head]]
  /\ UNCHANGED <<disk, hs, opened, conn, jobs, boots, main, answered, removed, calm>>

\* The record enters the log and becomes the head, and _log_append writes its line,
\* if the file is still open.  _defer_sync: the line stays in the buffer.
AppendOp(t) ==
  LET h == rq[t].h
      o == rq[t].op
      written == [hs EXCEPT ![h].ops = Append(@, o), ![h].head = o.w, ![h].last = rq[t].nonce,
                            ![h].buf = IF hs[h].aof THEN Append(@, o) ELSE @]
  IN
  /\ Up /\ rq[t].pc = "append"
  /\ hs' = written
  /\ IF Direct(t)
     THEN /\ answered' = answered \cup {[w |-> o.w, name |-> rq[t].name, ino |-> hs[h].ino,
                                         mongo |-> TRUE, live |-> hs[h].aof /\ main = "serving"]}
          /\ Answer(t)
     ELSE Goto(t, "flush") /\ UNCHANGED answered
  /\ UNCHANGED <<disk, opened, conn, nops, jobs, boots, main, removed, calm>>

Flushed(h) ==
  files' = [files EXCEPT ![hs[h].ino] = IF hs[h].aof THEN @ \o hs[h].buf ELSE @]

\* Mutant: the batch's fsync is forgotten.
WakeUnflushed(t) ==
  LET h == rq[t].h IN
  /\ Up /\ rq[t].pc \in {"flush", "failed"}
  /\ hs' = [hs EXCEPT ![h].q = Tail(@)]
  /\ answered' = IF rq[t].pc = "failed" THEN answered
                 ELSE answered \cup {[w |-> rq[t].op.w, name |-> rq[t].name, ino |-> hs[h].ino,
                                      mongo |-> FALSE, live |-> hs[h].aof /\ main = "serving"]}
  /\ IF rq[t].pc = "failed" THEN Answer(t) ELSE Return(t)
  /\ UNCHANGED <<disk, opened, conn, nops, jobs, boots, main, removed, calm>>

\* _commit_batch: flush() writes out whatever is in the buffer, then the caller is
\* woken, with its result or its ReplayError.
FlushAndWake(t) ==
  LET h == rq[t].h IN
  /\ Up /\ rq[t].pc \in {"flush", "failed"}
  /\ Flushed(h) /\ UNCHANGED dir
  /\ hs' = [hs EXCEPT ![h].q = Tail(@), ![h].buf = << >>]
  /\ answered' = IF rq[t].pc = "failed" THEN answered
                 ELSE answered \cup {[w |-> rq[t].op.w, name |-> rq[t].name, ino |-> hs[h].ino,
                                      mongo |-> FALSE, live |-> hs[h].aof /\ main = "serving"]}
  /\ IF rq[t].pc = "failed" THEN Answer(t) ELSE Return(t)
  /\ UNCHANGED <<opened, conn, nops, jobs, boots, main, removed, calm>>

-----------------------------------------------------------------------------
(* Manager.drop, and the closing of one Sequencer, which close_all also     *)
(* calls.  join() is taken to last until the committer is done.             *)

Drained(h) == hs[h].q = << >>

\* if name in self._open: self._open[name].close(), which first stops the queue.
DropClose(t) ==
  LET h == opened[rq[t].name] IN
  /\ Up /\ rq[t].pc = "close"
  /\ Mark(t, rq[t].name)
  /\ IF h = 0 THEN Goto(t, "rmtree") /\ UNCHANGED hs
     ELSE /\ rq' = [rq EXCEPT ![t].h = h, ![t].pc = IF hs[h].closed THEN "del" ELSE "join"]
          /\ hs' = [hs EXCEPT ![h].closed = TRUE]
  /\ UNCHANGED <<disk, opened, conn, nops, jobs, boots, main, answered, removed>>

\* Mutant: the file is closed with lines in the buffer.
JoinUnflushed(t) ==
  LET h == rq[t].h IN
  /\ Up /\ rq[t].pc = "join" /\ Drained(h)
  /\ hs' = [hs EXCEPT ![h].aof = FALSE, ![h].buf = << >>]
  /\ Goto(t, IF rq[t].kind = "drop" THEN "del" ELSE "next")
  /\ UNCHANGED <<disk, opened, conn, nops, jobs, boots, main, answered, removed, calm>>

\* The committer has met _STOP: db.close() flushes and closes the file.
Join(t) ==
  LET h == rq[t].h IN
  /\ Up /\ rq[t].pc = "join" /\ Drained(h)
  /\ Flushed(h) /\ UNCHANGED dir
  /\ hs' = [hs EXCEPT ![h].aof = FALSE, ![h].buf = << >>]
  /\ Goto(t, IF rq[t].kind = "drop" THEN "del" ELSE "next")
  /\ UNCHANGED <<opened, conn, nops, jobs, boots, main, answered, removed, calm>>

\* del self._open[name]: KeyError when another drop was first.
Del(t) ==
  /\ Up /\ rq[t].pc = "del"
  /\ IF opened[rq[t].name] = 0 THEN Answer(t) ELSE Goto(t, "rmtree")
  /\ opened' = [opened EXCEPT ![rq[t].name] = 0]
  /\ UNCHANGED <<disk, hs, conn, nops, jobs, boots, main, answered, removed, calm>>

Rmtree(t) ==
  /\ Up /\ rq[t].pc = "rmtree"
  /\ dir' = [dir EXCEPT ![rq[t].name] = 0]
  /\ removed' = removed \cup Written(dir[rq[t].name])
  /\ Answer(t)
  /\ UNCHANGED <<files, hs, opened, conn, nops, jobs, boots, main, answered, calm>>

-----------------------------------------------------------------------------
(* checkpoint_all and close_all.  Both walk the dict itself: a key added or *)
(* removed meanwhile raises RuntimeError, which ends the checkpoint thread, *)
(* or the main thread's cleanup.                                            *)

OpenNames == {n \in Names : opened[n] # 0}

\* _checkpoint_loop wakes, or a signal ends serve_forever and main calls close_all.
Walk(t, kind) ==
  /\ main = "serving" /\ rq[t].pc = "idle" /\ kind \in Walks /\ jobs < MaxJobs
  /\ jobs' = jobs + 1
  /\ rq' = [rq EXCEPT ![t] = [Idle EXCEPT !.pc = "next", !.kind = kind,
                                          !.todo = OpenNames, !.size = Cardinality(OpenNames)]]
  /\ main' = IF kind = "stop" THEN "stopping" ELSE main
  /\ UNCHANGED <<disk, hs, opened, conn, nops, boots, answered, removed, calm>>

\* The next database of the walk: checkpoint() is a write like any other; close().
Visit(t, n) ==
  LET h == opened[n] IN
  /\ Up /\ rq[t].pc = "next" /\ n \in rq[t].todo /\ rq[t].size = Cardinality(OpenNames) /\ h # 0
  /\ IF rq[t].kind # "close"
     THEN /\ rq' = [rq EXCEPT ![t].todo = @ \ {n}, ![t].name = n, ![t].h = h, ![t].pc = "submit"]
          /\ UNCHANGED hs
     ELSE /\ rq' = [rq EXCEPT ![t].todo = @ \ {n}, ![t].name = n, ![t].h = h,
                              ![t].pc = IF hs[h].closed THEN "next" ELSE "join"]
          /\ hs' = [hs EXCEPT ![h].closed = TRUE]
  /\ UNCHANGED <<disk, opened, conn, nops, jobs, boots, main, answered, removed, calm>>

\* The walk is over, or raises.
Walked(t) ==
  LET whole == rq[t].todo = {} /\ rq[t].size = Cardinality(OpenNames) IN
  /\ Up /\ rq[t].pc = "next" /\ (rq[t].todo = {} \/ rq[t].size # Cardinality(OpenNames))
  /\ CASE ~whole \/ rq[t].kind = "autosave" -> rq' = [rq EXCEPT ![t] = Idle] /\ UNCHANGED <<opened, main>>
       [] whole /\ rq[t].kind = "stop" ->
            /\ rq' = [rq EXCEPT ![t] = [rq[t] EXCEPT !.kind = "close", !.todo = OpenNames]]
            /\ UNCHANGED <<opened, main>>
       [] OTHER -> /\ rq' = [rq EXCEPT ![t] = Idle] /\ opened' = [n \in Names |-> 0]
                   /\ main' = "stopped"
  /\ calm' = [n \in Names |-> calm[n] /\ (opened'[n] = opened[n] \/ hs[opened[n]].closed)]
  /\ UNCHANGED <<disk, hs, conn, nops, jobs, boots, answered, removed>>

-----------------------------------------------------------------------------
(* The end of the process, and the next one.                                *)

\* The main thread has returned, or the process is killed: what a buffer holds is lost,
\* or reached the file as far as Python had written it.
Exit ==
  /\ Up /\ boots < MaxBoots
  /\ main' = "down"
  /\ \E cut \in [DOMAIN hs -> 0..MaxOps] :
       /\ \A h \in DOMAIN hs : cut[h] <= Len(hs[h].buf)
       /\ \A h, g \in DOMAIN hs : h # g /\ hs[h].ino = hs[g].ino => cut[h] = 0 \/ cut[g] = 0
       /\ files' = [i \in DOMAIN files |->
                      IF \E h \in DOMAIN hs : hs[h].ino = i /\ cut[h] > 0
                      THEN LET h == CHOOSE h \in DOMAIN hs : hs[h].ino = i /\ cut[h] > 0
                           IN  files[i] \o SubSeq(hs[h].buf, 1, cut[h])
                      ELSE files[i]]
  /\ hs' = << >> /\ opened' = [n \in Names |-> 0]
  /\ rq' = [t \in Threads |-> Idle] /\ conn' = [t \in Threads |-> 0]
  /\ answered' = {[a EXCEPT !.live = FALSE] : a \in answered}
  /\ UNCHANGED <<dir, nops, jobs, boots, removed, calm>>

\* main: open every database that names() finds, before serving.
Boot ==
  LET found == {n \in Names : dir[n] # 0}
      order == SetToSeq(found)
      at(n) == CHOOSE i \in 1..Len(order) : order[i] = n
      fresh == SetToSeq({n \in found : ~Chained(files[dir[n]])})
      ino(n) == IF \E i \in 1..Len(fresh) : fresh[i] = n
                THEN Len(files) + (CHOOSE i \in 1..Len(fresh) : fresh[i] = n) ELSE dir[n]
  IN
  /\ main = "down" /\ Len(files) + Len(fresh) <= MaxInodes
  /\ main' = "serving" /\ boots' = boots + 1
  /\ files' = files \o [i \in 1..Len(fresh) |-> Healed(files[dir[fresh[i]]])]
  /\ dir' = [n \in Names |-> IF n \in found THEN ino(n) ELSE 0]
  /\ hs' = [i \in 1..Len(order) |-> NewHandle(order[i], ino(order[i]), Healed(files[dir[order[i]]]))]
  /\ opened' = [n \in Names |-> IF n \in found THEN at(n) ELSE 0]
  /\ UNCHANGED <<rq, conn, nops, jobs, answered, removed, calm>>

Serve(t) ==
  \/ \E kind \in Kinds, n \in Names : Begin(t, kind, n)
  \/ Select(t) \/ CheckExists(t) \/ OpenTest(t) \/ Load(t) \/ Register(t) \/ Lookup(t)
  \/ Submit(t) \/ TakeNonce(t) \/ ReadHead(t) \/ AppendOp(t) \/ FlushAndWake(t)
  \/ DropClose(t) \/ Join(t) \/ Del(t) \/ Rmtree(t)
  \/ (\E kind \in Kinds : Walk(t, kind)) \/ (\E n \in Names : Visit(t, n)) \/ Walked(t)

Next == (\E t \in Threads : Serve(t)) \/ Exit \/ Boot

Spec == Init /\ [][Next]_vars

-----------------------------------------------------------------------------
(* Properties.                                                              *)

\* What is left of an answered write: it is in the database's log, or was when a drop took it.
Kept(a) == a.w \in removed \cup Written(dir[a.name])

\* Every write that returned through a Sequencer is in the log of its database, or was in
\* it when a drop removed it, whatever else runs: stale RESP2 handles, the checkpoint
\* thread, mongo writers on the same engine, shutdown, kills and self-healing restarts;
\* as long as no open or drop of the name overlapped another, or close_all.
AcknowledgedSurvive ==
  \A a \in answered : ~a.mongo /\ calm[a.name] => Kept(a)

\* When the daemon stopped cleanly, the writes that the mongo endpoint answered before
\* the shutdown, and before a drop closed their engine, are on disk too, although
\* nothing fsynced them at the time (a drop that is still running may keep them back).
CleanStopKeepsAll ==
  main = "stopped" =>
    \A a \in answered :
      \/ Kept(a) \/ ~a.live \/ ~calm[a.name]
      \/ \E t \in Threads : rq[t].kind = "drop" /\ rq[t].name = a.name

\* While the daemon serves and opens and drops do not overlap, a database has one engine
\* that takes writes, it is the one in the table, and it writes to the file that the
\* directory names, which holds what a prefix of its log says.  The chain of an engine is
\* intact, unless a mongo request was inside append() together with another writer.
OneWriter ==
  \A h \in DOMAIN hs :
    LET n == hs[h].name
        alone == main = "serving" /\ calm[n]
    IN  /\ alone /\ ~hs[h].closed =>
             /\ hs[h].ino = dir[n]
             /\ opened[n] = h \/ \E t \in Threads : rq[t].pc = "register" /\ rq[t].h = h
        /\ ~hs[h].mixed =>
             /\ Chained(hs[h].ops)
             /\ hs[h].head = IF hs[h].ops = << >> THEN GENESIS ELSE Last(hs[h].ops).w
             /\ alone /\ dir[n] = hs[h].ino => IsPrefix(files[hs[h].ino], hs[h].ops)

=============================================================================
