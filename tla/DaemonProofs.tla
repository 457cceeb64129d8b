---------------------------- MODULE DaemonProofs ----------------------------
(***************************************************************************)
(* Theorems on Daemon, for any database names, threads and numbers of      *)
(* requests, restarts, engines and files: an engine's chain, one writer    *)
(* per database, and where the writes are that were answered.              *)
(***************************************************************************)
EXTENDS Daemon, BasicLemmas, FiniteSetTheorems

-----------------------------------------------------------------------------
(* The inductive invariant.                                                 *)

Ops == [w : Nat, seq : Nat, prev : Nat]

Handles == [name : Names, ino : Nat, ops : Seq(Ops), head : Nat, nonce : Nat, last : Nat,
            buf : Seq(Ops), q : Seq(Threads), closed : BOOLEAN, aof : BOOLEAN, mixed : BOOLEAN]

Requests == [pc : {"idle", "exists", "open", "load", "register", "lookup", "submit", "nonce",
                   "read", "append", "flush", "failed", "close", "join", "del", "rmtree", "next"},
             kind : {"put", "query", "create", "drop", "batch", "mongo", "resp2",
                     "autosave", "stop", "close"},
             name : Names, h : Nat, nonce : Nat, op : Ops, todo : SUBSET Names, size : Nat]

Answers == [w : Nat, name : Names, ino : Nat, mongo : BOOLEAN, live : BOOLEAN]

TypeInv ==
  /\ files \in Seq(Seq(Ops)) /\ dir \in [Names -> Nat]
  /\ hs \in Seq(Handles) /\ opened \in [Names -> Nat]
  /\ rq \in [Threads -> Requests] /\ conn \in [Threads -> Nat]
  /\ nops \in Nat
  /\ main \in {"serving", "stopping", "stopped", "down"}
  /\ answered \in SUBSET Answers
  /\ calm \in [Names -> BOOLEAN]

\* A request at one of these has a Sequencer of its database in hand.
Holding == {"register", "submit", "nonce", "read", "append", "flush", "failed", "join"}

Refs ==
  /\ \A n \in Names : dir[n] <= Len(files)
  /\ \A n \in Names : opened[n] # 0 => opened[n] \in 1..Len(hs) /\ hs[opened[n]].name = n
  /\ \A t \in Threads : conn[t] # 0 => conn[t] \in 1..Len(hs)
  /\ \A t \in Threads : rq[t].pc \in Holding => rq[t].h \in 1..Len(hs) /\ hs[rq[t].h].name = rq[t].name
  /\ \A h \in 1..Len(hs) : hs[h].ino \in 1..Len(files)
  /\ main = "down" =>
       /\ hs = << >> /\ \A n \in Names : opened[n] = 0
       /\ \A t \in Threads : rq[t] = Idle /\ conn[t] = 0

\* A log file belongs to one database.
Inodes ==
  /\ \A n, m \in Names : dir[n] = dir[m] /\ dir[n] # 0 => n = m
  /\ \A h \in 1..Len(hs), n \in Names : hs[h].ino = dir[n] => hs[h].name = n

HeadOf(ops) == IF ops = << >> THEN GENESIS ELSE Last(ops).w

\* As long as no two were inside append() together, the one that is has read the head.
Chains ==
  \A h \in 1..Len(hs) : ~hs[h].mixed =>
    /\ Chained(hs[h].ops) /\ hs[h].head = HeadOf(hs[h].ops)
    /\ \A t, u \in Threads : InAppend(t, h) /\ InAppend(u, h) => t = u
    /\ \A t \in Threads : rq[t].pc = "append" /\ rq[t].h = h => rq[t].op.prev = hs[h].head

Committing == {"read", "append", "flush", "failed"}

InQueue(t, q) == \E i \in 1..Len(q) : q[i] = t
First(t, q)   == q # << >> /\ q[1] = t

\* An intent stays in the queue until its caller is woken, so that the file of the engine
\* is open as long as the queue has intents.
Queues ==
  /\ \A t \in Threads : ~Direct(t) =>
       /\ rq[t].pc = "nonce" => InQueue(t, hs[rq[t].h].q)
       /\ rq[t].pc \in Committing => First(t, hs[rq[t].h].q)
  /\ \A t \in Threads : rq[t].pc \in {"flush", "failed"} => ~Direct(t)
  /\ \A t \in Threads : rq[t].pc = "join" => hs[rq[t].h].closed
  /\ \A h \in 1..Len(hs) : ~hs[h].aof => hs[h].closed /\ hs[h].q = << >>

\* What a thread at one of drop()'s or close_all()'s steps was asked to do.
Closers ==
  /\ \A t \in Threads : rq[t].pc \in {"close", "del", "rmtree"} => rq[t].kind = "drop"
  /\ \A t \in Threads : rq[t].pc = "join" => rq[t].kind \in {"drop", "close"}
  /\ \A t \in Threads : rq[t].pc = "next" => rq[t].kind \in Walks
  /\ \A t, u \in Threads : rq[t].kind \in {"stop", "close"} /\ rq[u].kind \in {"stop", "close"} => t = u
  /\ \A t \in Threads : rq[t].kind \in {"stop", "close"} => main = "stopping"

\* An engine that open() has not put into the table is nobody else's.
Unshared ==
  \A t \in Threads : rq[t].pc = "register" =>
    /\ hs[rq[t].h].buf = << >>
    /\ \A n \in Names : opened[n] # rq[t].h
    /\ \A u \in Threads : conn[u] # rq[t].h
    /\ \A u \in Threads : rq[u].pc \in Holding /\ rq[u].h = rq[t].h => u = t

\* Inside open() or drop(), past its test.
Critical == {"load", "register", "join", "del", "rmtree"}

At(t, n, pcs) == rq[t].name = n /\ rq[t].pc \in pcs

\* At most one request is at such a step of a calm database.
Solo(n) == \A t, u \in Threads : At(t, n, Critical) /\ At(u, n, Critical) => t = u

\* What that request knows of the table.
StepsAt(t, n) ==
  /\ At(t, n, {"load", "register", "rmtree"}) => opened[n] = 0
  /\ At(t, n, {"join"}) => opened[n] \in {0, rq[t].h}
  /\ At(t, n, {"del"}) => opened[n] = 0 \/ ~hs[opened[n]].aof
  /\ At(t, n, {"join", "del"}) /\ main = "serving" => opened[n] # 0

Steps(n) == \A t \in Threads : StepsAt(t, n)

\* Every engine with an open file is in the table, about to enter it, or being closed, and
\* its file is the database's.
Tabled(n) ==
  \A h \in 1..Len(hs) : hs[h].name = n /\ hs[h].aof =>
    /\ hs[h].ino = dir[n]
    /\ ~hs[h].closed => opened[n] = h \/ \E t \in Threads : rq[t].pc = "register" /\ rq[t].h = h
    /\ hs[h].closed => \E t \in Threads : rq[t].pc = "join" /\ rq[t].h = h

\* While the daemon serves, an engine whose file is closed and still the database's is one
\* that a drop is about to remove.
Leaving(n) ==
  main = "serving" =>
    \A h \in 1..Len(hs) : hs[h].ino = dir[n] /\ ~hs[h].aof =>
      \E t \in Threads : At(t, n, {"del", "rmtree"})

Begins(s, l) == Len(s) <= Len(l) /\ \A i \in 1..Len(s) : s[i] = l[i]

\* The file and the buffer are the log.
Contents(n) ==
  \A h \in 1..Len(hs) : hs[h].ino = dir[n] =>
    /\ hs[h].aof => hs[h].ops = files[hs[h].ino] \o hs[h].buf
    /\ ~hs[h].aof /\ main = "serving" => Begins(files[hs[h].ino], hs[h].ops)

Ordered(n) == Solo(n) /\ Steps(n) /\ Tabled(n) /\ Leaving(n) /\ Contents(n)

Calmly == \A n \in Names : calm[n] => Ordered(n)

\* The writes of a run of ops.
Writes(s) == {s[j].w : j \in 1..Len(s)}

Buffered(h) == Writes(hs[h].buf)

\* A write about to be flushed is in the buffer, or another's flush took it along.
Pending ==
  \A t \in Threads : rq[t].pc = "flush" =>
    rq[t].op.w \in Buffered(rq[t].h) \cup Written(hs[rq[t].h].ino)

\* A mongo write that is not kept yet is in the buffer of an engine with an open file; after
\* close_all, of one that a drop is closing.
InBuffer(w, n) ==
  \E h \in 1..Len(hs) :
    /\ hs[h].name = n /\ hs[h].aof /\ w \in Buffered(h)
    /\ main = "stopped" => \E t \in Threads : rq[t].pc = "join" /\ rq[t].h = h /\ rq[t].kind = "drop"

Underway == \A a \in answered : a.live /\ calm[a.name] => Kept(a) \/ InBuffer(a.w, a.name)

DaemonInv ==
  /\ TypeInv /\ Refs /\ Inodes /\ Chains /\ Queues /\ Closers /\ Unshared
  /\ Calmly /\ Pending /\ AcknowledgedSurvive /\ Underway

-----------------------------------------------------------------------------
(* Runs of ops.                                                             *)

LEMMA AppendOps ==
  ASSUME NEW s \in Seq(Ops), NEW o \in Ops
  PROVE  /\ Append(s, o) \in Seq(Ops) /\ Len(Append(s, o)) = Len(s) + 1
         /\ Append(s, o) # << >>
         /\ \A i \in 1..Len(s) : Append(s, o)[i] = s[i]
         /\ Append(s, o)[Len(s) + 1] = o
         /\ HeadOf(Append(s, o)) = o.w
         /\ Writes(Append(s, o)) = Writes(s) \cup {o.w}
<1>. DEFINE a == Append(s, o)
<1>0. Len(s) \in Nat
  BY LenProperties
<1>1. /\ a \in Seq(Ops) /\ Len(a) = Len(s) + 1
      /\ \A i \in 1..Len(s) : a[i] = s[i]
      /\ a[Len(s) + 1] = o
  BY AppendProperties
<1>. HIDE DEF a
<1>2. a # << >>
  BY <1>0, <1>1, EmptySeq
<1>3. HeadOf(a) = o.w
  BY <1>1, <1>2 DEF HeadOf, Last
<1>4. 1..(Len(s) + 1) = 1..Len(s) \cup {Len(s) + 1}
  BY <1>0
<1>5. \A i \in 1..Len(a) : (i \in 1..Len(s) /\ a[i] = s[i]) \/ a[i] = o
  BY <1>1, <1>4
<1>6. \A i \in 1..Len(s) : i \in 1..Len(a) /\ a[i] = s[i]
  BY <1>1, <1>4
<1>7. Len(s) + 1 \in 1..Len(a) /\ a[Len(s) + 1] = o
  BY <1>1, <1>4
<1>8. Writes(a) \subseteq Writes(s) \cup {o.w}
  BY <1>5, Zenon DEF Writes
<1>9. Writes(s) \subseteq Writes(a)
  BY <1>6, Zenon DEF Writes
<1>10. o.w \in Writes(a)
  BY <1>7, Zenon DEF Writes
<1>. QED
  BY <1>1, <1>2, <1>3, <1>8, <1>9, <1>10 DEF a

LEMMA ConcatOps ==
  ASSUME NEW s \in Seq(Ops), NEW u \in Seq(Ops)
  PROVE  /\ s \o u \in Seq(Ops) /\ Writes(s \o u) = Writes(s) \cup Writes(u)
         /\ Begins(s, s \o u)
<1>. DEFINE a == s \o u
<1>0. Len(s) \in Nat /\ Len(u) \in Nat
  BY LenProperties
<1>1. /\ a \in Seq(Ops) /\ Len(a) = Len(s) + Len(u)
      /\ \A i \in 1..(Len(s) + Len(u)) : a[i] = IF i <= Len(s) THEN s[i] ELSE u[i - Len(s)]
  BY ConcatProperties
<1>. HIDE DEF a
<1>2. \A i \in 1..Len(s) : i \in 1..(Len(s) + Len(u)) /\ a[i] = s[i]
  BY <1>0, <1>1
<1>3. ASSUME NEW i \in 1..Len(u)
      PROVE  Len(s) + i \in 1..(Len(s) + Len(u)) /\ a[Len(s) + i] = u[i]
  <2>1. /\ Len(s) + i \in 1..(Len(s) + Len(u)) /\ ~(Len(s) + i <= Len(s))
        /\ (Len(s) + i) - Len(s) = i
    BY <1>0
  <2>. QED
    BY <1>1, <2>1
<1>4. ASSUME NEW i \in 1..(Len(s) + Len(u))
      PROVE  \/ i \in 1..Len(s) /\ a[i] = s[i]
             \/ i - Len(s) \in 1..Len(u) /\ a[i] = u[i - Len(s)]
  BY <1>0, <1>1
<1>5. Writes(a) \subseteq Writes(s) \cup Writes(u)
  BY <1>1, <1>4 DEF Writes
<1>6. Writes(s) \subseteq Writes(a) /\ Writes(u) \subseteq Writes(a)
  <2>1. \A i \in 1..Len(s) : i \in 1..Len(a) /\ a[i] = s[i]
    BY <1>1, <1>2
  <2>2. \A i \in 1..Len(u) : \E j \in 1..Len(a) : a[j] = u[i]
    BY <1>1, <1>3
  <2>. QED
    BY <2>1, <2>2 DEF Writes
<1>7. Len(s) <= Len(a)
  BY <1>0, <1>1
<1>. QED
  BY <1>1, <1>2, <1>5, <1>6, <1>7 DEF a, Begins

LEMMA HealedOps ==
  ASSUME NEW s \in Seq(Ops)
  PROVE  /\ Healed(s) \in Seq(Ops) /\ Chained(Healed(s)) /\ Writes(Healed(s)) = Writes(s)
         /\ Chained(s) => Healed(s) = s
<1>0. Len(s) \in Nat /\ DOMAIN s = 1..Len(s)
  BY LenProperties
<1>1. \A i \in 1..Len(s) : s[i] \in Ops
  BY ElementOfSeq
<1>. DEFINE p(i) == IF i = 1 THEN GENESIS ELSE s[i - 1].w
            e(i) == [s[i] EXCEPT !.prev = p(i)]
            h    == [i \in 1..Len(s) |-> e(i)]
<1>2. ASSUME NEW i \in 1..Len(s) PROVE p(i) \in Nat
  <2>1. CASE i = 1
    BY <2>1 DEF GENESIS
  <2>2. CASE i # 1
    <3>1. i - 1 \in 1..Len(s)
      BY <1>0, <2>2
    <3>. QED
      BY <1>1, <2>2, <3>1 DEF Ops
  <2>. QED
    BY <2>1, <2>2
<1>3. ASSUME NEW i \in 1..Len(s) PROVE e(i) \in Ops /\ e(i).w = s[i].w /\ e(i).prev = p(i)
  <2>1. p(i) \in Nat /\ s[i] \in Ops
    BY <1>1, <1>2
  <2>. HIDE DEF p
  <2>. QED
    BY <2>1 DEF Ops
<1>4. Healed(s) = h
  BY DEF Healed
<1>5. h \in [1..Len(s) -> Ops] /\ \A i \in 1..Len(s) : h[i].w = s[i].w /\ h[i].prev = p(i)
  <2>. HIDE DEF e
  <2>. QED
    BY <1>3
<1>. HIDE DEF h
<1>6. h \in Seq(Ops) /\ Len(h) = Len(s)
  <2>1. h \in Seq(Ops)
    BY <1>0, <1>5, SeqDef
  <2>2. Len(h) \in Nat /\ DOMAIN h = 1..Len(h) /\ DOMAIN h = 1..Len(s)
    BY <2>1, <1>5, LenProperties
  <2>3. \A a, b \in Nat : 1..a = 1..b => a = b
    OBVIOUS
  <2>4. Len(h) = Len(s)
    BY <1>0, <2>2, <2>3
  <2>. QED
    BY <2>1, <2>4
<1>7. Chained(h)
  <2>. SUFFICES ASSUME NEW i \in 1..Len(s) PROVE h[i].prev = IF i = 1 THEN GENESIS ELSE h[i - 1].w
    BY <1>6 DEF Chained
  <2>1. i # 1 => i - 1 \in 1..Len(s)
    BY <1>0
  <2>. QED
    BY <1>5, <2>1
<1>8. Writes(h) = Writes(s)
  BY <1>5, <1>6 DEF Writes
<1>9. ASSUME Chained(s) PROVE h = s
  <2>1. ASSUME NEW i \in 1..Len(s) PROVE h[i] = s[i]
    <3>1. s[i].prev = p(i) /\ s[i] \in Ops
      BY <1>1, <1>9 DEF Chained
    <3>2. h[i] = e(i)
      BY DEF h
    <3>3. [s[i] EXCEPT !.prev = s[i].prev] = s[i]
      BY <3>1 DEF Ops
    <3>. HIDE DEF p
    <3>. QED
      BY <3>1, <3>2, <3>3
  <2>. QED
    BY <1>0, <1>5, <2>1
<1>. QED
  BY <1>4, <1>6, <1>7, <1>8, <1>9

LEMMA NewHandleFacts ==
  ASSUME NEW n \in Names, NEW i \in Nat, NEW ops \in Seq(Ops), NEW e, e = NewHandle(n, i, ops)
  PROVE  /\ e \in Handles /\ e.name = n /\ e.ino = i /\ e.ops = ops /\ e.head = HeadOf(ops)
         /\ e.buf = << >> /\ e.q = << >> /\ ~e.closed /\ e.aof /\ ~e.mixed
<1>1. Len(ops) \in Nat /\ << >> \in Seq(Ops) /\ << >> \in Seq(Threads)
  BY LenProperties, EmptySeq
<1>2. HeadOf(ops) \in Nat
  <2>1. CASE ops = << >>
    BY <2>1 DEF HeadOf, GENESIS
  <2>2. CASE ops # << >>
    <3>1. Len(ops) \in 1..Len(ops)
      BY <2>2, EmptySeq
    <3>2. ops[Len(ops)] \in Ops
      BY <3>1, ElementOfSeq
    <3>. QED
      BY <2>2, <3>2 DEF HeadOf, Last, Ops
  <2>. QED
    BY <2>1, <2>2
<1>3. PICK x, y, z : x = HeadOf(ops) /\ y = << >> /\ z = Len(ops)
  OBVIOUS
<1>4. e =
        [name |-> n, ino |-> i, ops |-> ops, head |-> x, nonce |-> z, last |-> z, buf |-> y, q |-> y,
         closed |-> FALSE, aof |-> TRUE, mixed |-> FALSE]
  BY <1>3, Zenon DEF NewHandle, HeadOf
<1>5. x \in Nat /\ z \in Nat /\ y \in Seq(Ops) /\ y \in Seq(Threads)
  BY <1>1, <1>2, <1>3
<1>. QED
  BY <1>3, <1>4, <1>5 DEF Handles

-----------------------------------------------------------------------------
(* What the steps do, field by field.                                       *)

SameRq(t) == \A u \in Threads : u # t => rq'[u] = rq[u]

SameHs(h) == Len(hs') = Len(hs) /\ \A g \in 1..Len(hs) : g # h => hs'[g] = hs[g]

\* Its name, Sequencer, kind and op stay.
SameJob(t) ==
  rq'[t].name = rq[t].name /\ rq'[t].h = rq[t].h /\ rq'[t].kind = rq[t].kind /\ rq'[t].op = rq[t].op

\* A thread that is not at any step of a request, or at the next database of a walk.
Rests(t) ==
  \/ rq'[t].pc = "idle" /\ rq'[t].kind = "put"
  \/ rq'[t].pc = "next" /\ rq'[t].kind = rq[t].kind /\ rq[t].kind \in Walks

LEMMA IdleFacts ==
  /\ Idle \in Requests /\ Idle.pc = "idle" /\ Idle.kind = "put" /\ Idle.h = 0
<1>1. (CHOOSE n \in Names : TRUE) \in Names
  BY DaemonAssumption
<1>. QED
  BY <1>1 DEF Idle, Requests, Ops

LEMMA SetRq ==
  ASSUME TypeInv, NEW t \in Threads, NEW e \in Requests, rq' = [rq EXCEPT ![t] = e]
  PROVE  rq' \in [Threads -> Requests] /\ SameRq(t) /\ rq'[t] = e
  BY DEF TypeInv, SameRq

LEMMA GotoFacts ==
  ASSUME TypeInv, NEW t \in Threads, NEW pc,
         pc \in {"open", "close", "load", "lookup", "nonce", "failed", "flush", "rmtree", "del", "next"},
         Goto(t, pc)
  PROVE  /\ rq' \in [Threads -> Requests] /\ SameRq(t)
         /\ rq'[t].pc = pc /\ SameJob(t)
<1>0. PICK r : r = rq[t] /\ r \in Requests
  BY DEF TypeInv
<1>. DEFINE e == [r EXCEPT !.pc = pc]
<1>1. rq' = [rq EXCEPT ![t] = e]
  BY <1>0, Zenon DEF Goto
<1>2. /\ e \in Requests /\ e.pc = pc /\ e.name = r.name /\ e.h = r.h /\ e.kind = r.kind /\ e.op = r.op
  BY <1>0 DEF Requests
<1>. HIDE DEF e
<1>. QED
  BY <1>0, <1>1, <1>2, SetRq DEF SameJob

LEMMA AnswerFacts ==
  ASSUME TypeInv, NEW t \in Threads, Answer(t)
  PROVE  rq' \in [Threads -> Requests] /\ SameRq(t) /\ Rests(t)
<1>1. CASE rq[t].kind \in Walks
  <2>1. Goto(t, "next")
    BY <1>1, Zenon DEF Answer, Goto
  <2>. QED
    BY <1>1, <2>1, GotoFacts DEF Rests, SameJob
<1>2. CASE rq[t].kind \notin Walks
  BY <1>2, IdleFacts DEF TypeInv, Answer, SameRq, Rests
<1>. QED
  BY <1>1, <1>2

LEMMA ReturnFacts ==
  ASSUME TypeInv, NEW t \in Threads, Return(t)
  PROVE  /\ rq' \in [Threads -> Requests] /\ SameRq(t)
         /\ \/ Rests(t)
            \/ rq'[t].pc = "submit" /\ rq'[t].kind = "put" /\ rq'[t].name = rq[t].name /\ rq'[t].h = rq[t].h
            \/ rq'[t].pc = "exists" /\ rq'[t].kind = "query"
<1>0. PICK r : r = rq[t] /\ r \in Requests
  BY DEF TypeInv
<1>1. CASE rq[t].kind = "batch"
  <2>. DEFINE e == [r EXCEPT !.kind = "put", !.pc = "submit"]
  <2>1. rq' = [rq EXCEPT ![t] = e]
    BY <1>0, <1>1, Zenon DEF Return
  <2>2. e \in Requests /\ e.kind = "put" /\ e.pc = "submit" /\ e.name = r.name /\ e.h = r.h
    BY <1>0 DEF Requests
  <2>. HIDE DEF e
  <2>. QED
    BY <1>0, <2>1, <2>2, SetRq
<1>2. CASE rq[t].kind = "create"
  <2>. DEFINE e == [r EXCEPT !.kind = "query", !.pc = "exists"]
  <2>1. rq' = [rq EXCEPT ![t] = e]
    <3>1. rq[t].kind # "batch"
      BY <1>2
    <3>. QED
      BY <1>0, <1>2, <3>1, Zenon DEF Return
  <2>2. e \in Requests /\ e.kind = "query" /\ e.pc = "exists"
    BY <1>0 DEF Requests
  <2>. HIDE DEF e
  <2>. QED
    BY <2>1, <2>2, SetRq
<1>3. CASE rq[t].kind \notin {"batch", "create"}
  BY <1>3, AnswerFacts DEF Return
<1>. QED
  BY <1>1, <1>2, <1>3

LEMMA BeginFacts ==
  ASSUME TypeInv, NEW t \in Threads, NEW kind \in Kinds, NEW n \in Names, Begin(t, kind, n)
  PROVE  /\ rq' \in [Threads -> Requests] /\ SameRq(t) /\ main # "down"
         /\ rq'[t].kind = kind /\ kind \notin Walks /\ rq'[t].name = n
         /\ \/ rq'[t].pc \in {"exists", "open"}
            \/ rq'[t].pc = "submit" /\ conn[t] # 0 /\ rq'[t].h = conn[t] /\ n = hs[conn[t]].name
         /\ UNCHANGED <<dir, files, hs, opened, conn, nops, main, answered, removed, calm>>
<1>1. Idle \in Requests /\ kind \in {"put", "query", "create", "drop", "batch", "mongo", "resp2", "autosave", "stop"}
  BY IdleFacts, DaemonAssumption
<1>2. PICK c, i : c = conn[t] /\ c \in Nat /\ i = Idle
  BY DEF TypeInv
<1>3. /\ main # "down" /\ kind \notin Walks /\ (kind = "resp2" /\ c # 0 => n = hs[c].name)
      /\ UNCHANGED <<dir, files, hs, opened, conn, nops, main, answered, removed, calm>>
  BY <1>2 DEF Begin, Up, disk
<1>. DEFINE h  == IF kind = "resp2" THEN c ELSE 0
            pc == IF kind = "resp2" THEN IF c = 0 THEN "open" ELSE "submit" ELSE "exists"
            e  == [i EXCEPT !.kind = kind, !.name = n, !.h = h, !.pc = pc]
<1>4. /\ h \in Nat /\ pc \in {"exists", "open", "submit"}
      /\ pc = "submit" => kind = "resp2" /\ c # 0 /\ h = c
  BY <1>2
<1>5. rq' = [rq EXCEPT ![t] = e]
  BY <1>2, Zenon DEF Begin
<1>. HIDE DEF h, pc
<1>6. e \in Requests /\ e.kind = kind /\ e.name = n /\ e.h = h /\ e.pc = pc
  BY <1>1, <1>2, <1>4 DEF Requests
<1>. HIDE DEF e
<1>7. /\ e \in Requests /\ e.kind = kind /\ e.name = n
      /\ e.pc \in {"exists", "open"} \/ (e.pc = "submit" /\ conn[t] # 0 /\ e.h = conn[t] /\ n = hs[conn[t]].name)
  BY <1>2, <1>3, <1>4, <1>6
<1>. QED
  BY <1>3, <1>5, <1>7, SetRq

LEMMA SelectFacts ==
  ASSUME TypeInv, NEW t \in Threads, Select(t)
  PROVE  /\ conn' \in [Threads -> Nat] /\ conn'[t] = 0 /\ main # "down"
         /\ \A u \in Threads : u # t => conn'[u] = conn[u]
         /\ UNCHANGED <<dir, files, hs, opened, rq, nops, main, answered, removed, calm>>
  BY DEF TypeInv, Select, Up, disk

LEMMA CheckExistsFacts ==
  ASSUME TypeInv, NEW t \in Threads, CheckExists(t)
  PROVE  /\ rq' \in [Threads -> Requests] /\ SameRq(t) /\ main # "down"
         /\ \/ Rests(t)
            \/ rq'[t].pc = "open" /\ SameJob(t)
            \/ rq'[t].pc = "close" /\ SameJob(t) /\ rq[t].kind = "drop"
         /\ UNCHANGED <<dir, files, hs, opened, conn, nops, main, answered, removed, calm>>
<1>1. /\ Answer(t) \/ Goto(t, "open") \/ (Goto(t, "close") /\ rq[t].kind = "drop")
      /\ main # "down"
      /\ UNCHANGED <<dir, files, hs, opened, conn, nops, main, answered, removed, calm>>
  BY DEF CheckExists, Up, disk
<1>. QED
  BY <1>1, AnswerFacts, GotoFacts

\* What Mark leaves calm is calm, and the database of the request only with no other at it.
Marks(t) ==
  /\ calm' \in [Names -> BOOLEAN]
  /\ \A n \in Names : calm'[n] => calm[n]
  /\ calm'[rq[t].name] => ~Busy(t, rq[t].name)

LEMMA MarkFacts ==
  ASSUME TypeInv, NEW t \in Threads, Mark(t, rq[t].name)
  PROVE  Marks(t)
<1>1. rq[t].name \in Names
  BY DEF TypeInv, Requests
<1>. DEFINE b == ~Busy(t, rq[t].name)
<1>2. calm' = [calm EXCEPT ![rq[t].name] = @ /\ b] /\ b \in BOOLEAN
  BY DEF Mark, Busy
<1>. HIDE DEF b
<1>3. calm' \in [Names -> BOOLEAN] /\ (\A n \in Names : calm'[n] => calm[n]) /\ (calm'[rq[t].name] => b)
  BY <1>1, <1>2 DEF TypeInv
<1>. QED
  BY <1>3 DEF Marks, b

LEMMA OpenTestFacts ==
  ASSUME TypeInv, NEW t \in Threads, OpenTest(t)
  PROVE  /\ rq' \in [Threads -> Requests] /\ SameRq(t) /\ SameJob(t) /\ main # "down"
         /\ \/ rq'[t].pc = "load" /\ opened[rq[t].name] = 0 /\ Marks(t)
            \/ rq'[t].pc = "lookup" /\ calm' = calm
         /\ UNCHANGED <<dir, files, hs, opened, conn, nops, main, answered, removed>>
<1>1. /\ \/ Goto(t, "load") /\ Mark(t, rq[t].name) /\ opened[rq[t].name] = 0
         \/ Goto(t, "lookup") /\ calm' = calm
      /\ main # "down"
      /\ UNCHANGED <<dir, files, hs, opened, conn, nops, main, answered, removed>>
  BY DEF OpenTest, Up, disk
<1>. QED
  BY <1>1, GotoFacts, MarkFacts

LEMMA LookupFacts ==
  ASSUME TypeInv, NEW t \in Threads, Lookup(t)
  PROVE  /\ rq' \in [Threads -> Requests] /\ SameRq(t) /\ main # "down"
         /\ conn' \in [Threads -> Nat]
         /\ \A u \in Threads : u # t => conn'[u] = conn[u]
         /\ conn'[t] # conn[t] => conn'[t] = opened[rq[t].name]
         /\ \/ Rests(t)
            \/ /\ rq'[t].pc \in {"nonce", "submit"} /\ rq'[t].name = rq[t].name
               /\ rq'[t].h = opened[rq[t].name] /\ opened[rq[t].name] # 0 /\ rq'[t].kind = rq[t].kind
               /\ rq'[t].pc = "nonce" => rq[t].kind = "mongo"
         /\ UNCHANGED <<dir, files, hs, opened, nops, main, answered, removed, calm>>
<1>. DEFINE h == opened[rq[t].name]
<1>0. h \in Nat
  BY DEF TypeInv, Requests
<1>1. /\ \/ Answer(t)
         \/ /\ h # 0
            /\ rq' = [rq EXCEPT ![t].h = h, ![t].pc = IF rq[t].kind = "mongo" THEN "nonce" ELSE "submit"]
      /\ main # "down"
      /\ conn' = conn \/ conn' = [conn EXCEPT ![t] = h]
      /\ UNCHANGED <<dir, files, hs, opened, nops, main, answered, removed, calm>>
  BY DEF Lookup, Up, disk
<1>. HIDE DEF h
<1>2. /\ conn' \in [Threads -> Nat]
      /\ \A u \in Threads : u # t => conn'[u] = conn[u]
      /\ conn'[t] # conn[t] => conn'[t] = h
  BY <1>0, <1>1 DEF TypeInv
<1>3. CASE Answer(t)
  BY <1>1, <1>2, <1>3, AnswerFacts DEF h
<1>4. CASE ~Answer(t)
  <2>1. /\ rq' \in [Threads -> Requests] /\ SameRq(t)
        /\ rq'[t].pc \in {"nonce", "submit"} /\ rq'[t].name = rq[t].name
        /\ rq'[t].h = h /\ h # 0 /\ rq'[t].kind = rq[t].kind
        /\ rq'[t].pc = "nonce" => rq[t].kind = "mongo"
    <3>0. PICK r : r = rq[t] /\ r \in Requests
      BY DEF TypeInv
    <3>. DEFINE pc == IF r.kind = "mongo" THEN "nonce" ELSE "submit"
                e  == [r EXCEPT !.h = h, !.pc = pc]
    <3>1. rq' = [rq EXCEPT ![t] = e] /\ h # 0
      BY <1>1, <1>4, <3>0, Zenon
    <3>3. pc \in {"nonce", "submit"} /\ (pc = "nonce" => r.kind = "mongo")
      OBVIOUS
    <3>. HIDE DEF pc
    <3>2. e \in Requests /\ e.h = h /\ e.pc = pc /\ e.name = r.name /\ e.kind = r.kind
      BY <1>0, <3>0, <3>3 DEF Requests
    <3>. HIDE DEF e
    <3>. QED
      BY <3>0, <3>1, <3>2, <3>3, SetRq
  <2>. QED
    BY <1>1, <1>2, <2>1 DEF h
<1>. QED
  BY <1>3, <1>4

LEMMA SetHs ==
  ASSUME TypeInv, NEW h \in 1..Len(hs), NEW e \in Handles, hs' = [hs EXCEPT ![h] = e]
  PROVE  hs' \in Seq(Handles) /\ SameHs(h) /\ hs'[h] = e
<1>. QED
  BY ExceptSeq, LenProperties DEF TypeInv, SameHs

\* A Sequencer keeps its database and file, its log, ...
SameFile(h) == hs'[h].name = hs[h].name /\ hs'[h].ino = hs[h].ino
SameLog(h)  == hs'[h].ops = hs[h].ops /\ hs'[h].head = hs[h].head /\ hs'[h].mixed = hs[h].mixed
SameOpen(h) == hs'[h].closed = hs[h].closed /\ hs'[h].aof = hs[h].aof

LEMMA HandleType ==
  ASSUME TypeInv, NEW h \in 1..Len(hs)
  PROVE  hs[h] \in Handles
  BY ElementOfSeq DEF TypeInv

\* The Sequencer in a request's hand.
LEMMA InHand ==
  ASSUME TypeInv, Refs, NEW t \in Threads, rq[t].pc \in Holding
  PROVE  /\ rq[t].h \in 1..Len(hs) /\ hs[rq[t].h] \in Handles /\ hs[rq[t].h].name = rq[t].name
         /\ rq[t] \in Requests
<1>1. rq[t].h \in 1..Len(hs) /\ hs[rq[t].h].name = rq[t].name
  BY DEF Refs
<1>. QED
  BY <1>1, ElementOfSeq DEF TypeInv

LEMMA RegisterFacts ==
  ASSUME TypeInv, NEW t \in Threads, Register(t)
  PROVE  /\ rq' \in [Threads -> Requests] /\ SameRq(t) /\ SameJob(t) /\ main # "down"
         /\ rq[t].pc = "register" /\ rq'[t].pc = "lookup"
         /\ opened' \in [Names -> Nat] /\ opened'[rq[t].name] = rq[t].h
         /\ \A n \in Names : n # rq[t].name => opened'[n] = opened[n]
         /\ UNCHANGED <<dir, files, hs, conn, nops, main, answered, removed, calm>>
<1>1. rq[t].h \in Nat /\ rq[t].name \in Names
  BY DEF TypeInv, Requests
<1>2. /\ rq[t].pc = "register" /\ Goto(t, "lookup") /\ opened' = [opened EXCEPT ![rq[t].name] = rq[t].h]
      /\ main # "down"
      /\ UNCHANGED <<dir, files, hs, conn, nops, main, answered, removed, calm>>
  BY DEF Register, Up, disk
<1>3. /\ opened' \in [Names -> Nat] /\ opened'[rq[t].name] = rq[t].h
      /\ \A n \in Names : n # rq[t].name => opened'[n] = opened[n]
  BY <1>1, <1>2 DEF TypeInv
<1>. QED
  BY <1>2, <1>3, GotoFacts

LEMMA SubmitFacts ==
  ASSUME TypeInv, Refs, NEW t \in Threads, Submit(t)
  PROVE  LET h == rq[t].h IN
         /\ rq' \in [Threads -> Requests] /\ SameRq(t) /\ main # "down"
         /\ hs' \in Seq(Handles)
         /\ \/ Rests(t) /\ hs' = hs
            \/ /\ rq'[t].pc = "nonce" /\ SameJob(t) /\ ~hs[h].closed
               /\ SameHs(h) /\ SameFile(h) /\ SameLog(h) /\ SameOpen(h)
               /\ hs'[h].buf = hs[h].buf /\ hs'[h].q = Append(hs[h].q, t)
         /\ UNCHANGED <<dir, files, opened, conn, nops, main, answered, removed, calm>>
<1>. DEFINE h == rq[t].h
<1>0. h \in 1..Len(hs) /\ hs[h] \in Handles
  BY InHand DEF Submit, Holding
<1>1. /\ main # "down"
      /\ UNCHANGED <<dir, files, opened, conn, nops, main, answered, removed, calm>>
      /\ hs \in Seq(Handles)
  BY DEF Submit, Up, disk, TypeInv
<1>2. CASE hs[h].closed
  <2>1. Answer(t) /\ hs' = hs
    BY <1>2 DEF Submit
  <2>. QED
    BY <1>1, <2>1, AnswerFacts
<1>3. CASE ~hs[h].closed
  <2>0. PICK g : g = hs[h] /\ g \in Handles
    BY <1>0
  <2>. DEFINE e == [g EXCEPT !.q = Append(g.q, t)]
  <2>1. Goto(t, "nonce") /\ hs' = [hs EXCEPT ![h] = e]
    BY <1>3, <2>0, Zenon DEF Submit
  <2>2. g.q \in Seq(Threads) /\ Append(g.q, t) \in Seq(Threads)
    BY <2>0, AppendProperties DEF Handles
  <2>3. /\ e \in Handles /\ e.name = g.name /\ e.ino = g.ino /\ e.ops = g.ops /\ e.head = g.head
        /\ e.mixed = g.mixed /\ e.closed = g.closed /\ e.aof = g.aof /\ e.buf = g.buf
        /\ e.q = Append(g.q, t)
    BY <2>0, <2>2 DEF Handles
  <2>. HIDE DEF e
  <2>4. hs' \in Seq(Handles) /\ SameHs(h) /\ hs'[h] = e
    <3>. HIDE DEF h
    <3>. QED
      BY <1>0, <2>1, <2>3, SetHs
  <2>. QED
    BY <1>1, <1>3, <2>0, <2>1, <2>3, <2>4, GotoFacts DEF SameFile, SameLog, SameOpen
<1>. QED
  BY <1>2, <1>3

LEMMA TakeNonceFacts ==
  ASSUME TypeInv, Refs, NEW t \in Threads, TakeNonce(t)
  PROVE  LET h == rq[t].h IN
         /\ rq' \in [Threads -> Requests] /\ SameRq(t) /\ main # "down"
         /\ rq[t].pc = "nonce" /\ rq'[t].pc = "read" /\ SameJob(t)
         /\ Direct(t) \/ (hs[h].q # << >> /\ hs[h].q[1] = t)
         /\ hs' \in Seq(Handles) /\ SameHs(h) /\ SameFile(h) /\ SameOpen(h)
         /\ hs'[h].ops = hs[h].ops /\ hs'[h].head = hs[h].head
         /\ hs'[h].buf = hs[h].buf /\ hs'[h].q = hs[h].q
         /\ ~hs'[h].mixed => ~hs[h].mixed /\ \A u \in Threads \ {t} : ~InAppend(u, h)
         /\ UNCHANGED <<dir, files, opened, conn, nops, main, answered, removed, calm>>
<1>. DEFINE h == rq[t].h
            b == \E u \in Threads \ {t} : InAppend(u, h)
<1>0. h \in 1..Len(hs) /\ hs[h] \in Handles /\ rq[t] \in Requests
  BY InHand DEF TakeNonce, Holding
<1>1. /\ main # "down" /\ rq[t].pc = "nonce"
      /\ Direct(t) \/ (hs[h].q # << >> /\ hs[h].q[1] = t)
      /\ UNCHANGED <<dir, files, opened, conn, nops, main, answered, removed, calm>>
  BY DEF TakeNonce, Runs, Up, disk
<1>2. PICK g : g = hs[h] /\ g \in Handles
  BY <1>0
<1>3. PICK r : r = rq[t] /\ r \in Requests
  BY <1>0
<1>. DEFINE e == [g EXCEPT !.nonce = g.nonce + 1, !.mixed = g.mixed \/ b]
            d == [r EXCEPT !.nonce = g.nonce + 1, !.pc = "read"]
<1>4. hs' = [hs EXCEPT ![h] = e]
  BY <1>2, Zenon DEF TakeNonce
<1>5. rq' = [rq EXCEPT ![t] = d]
  BY <1>2, <1>3, Zenon DEF TakeNonce
<1>6. g.nonce + 1 \in Nat /\ (g.mixed \/ b) \in BOOLEAN
  BY <1>2 DEF Handles, InAppend
<1>7. /\ e \in Handles /\ e.name = g.name /\ e.ino = g.ino /\ e.ops = g.ops /\ e.head = g.head
      /\ e.closed = g.closed /\ e.aof = g.aof /\ e.buf = g.buf /\ e.q = g.q
      /\ ~e.mixed => ~g.mixed /\ ~b
  <2>. HIDE DEF b
  <2>. QED
    BY <1>2, <1>6 DEF Handles
<1>8. /\ d \in Requests /\ d.pc = "read" /\ d.name = r.name /\ d.h = r.h /\ d.kind = r.kind /\ d.op = r.op
  BY <1>3, <1>6 DEF Requests
<1>. HIDE DEF e, d, b
<1>9. hs' \in Seq(Handles) /\ SameHs(h) /\ hs'[h] = e
  <2>. HIDE DEF h
  <2>. QED
    BY <1>0, <1>4, <1>7, SetHs
<1>10. rq' \in [Threads -> Requests] /\ SameRq(t) /\ rq'[t] = d
  BY <1>5, <1>8, SetRq
<1>. QED
  BY <1>1, <1>2, <1>3, <1>7, <1>8, <1>9, <1>10 DEF SameFile, SameOpen, SameJob, b

LEMMA ReadHeadFacts ==
  ASSUME TypeInv, Refs, NEW t \in Threads, ReadHead(t)
  PROVE  LET h == rq[t].h IN
         /\ rq' \in [Threads -> Requests] /\ SameRq(t) /\ main # "down"
         /\ rq[t].pc = "read" /\ nops' \in Nat
         /\ \/ Rests(t)
            \/ rq'[t].pc = "failed" /\ SameJob(t) /\ ~Direct(t)
            \/ /\ rq'[t].pc = "append" /\ rq'[t].h = rq[t].h /\ rq'[t].name = rq[t].name
               /\ rq'[t].kind = rq[t].kind /\ rq'[t].op.prev = hs[h].head
         /\ UNCHANGED <<dir, files, hs, opened, conn, main, answered, removed, calm>>
<1>. DEFINE h == rq[t].h
<1>0. h \in 1..Len(hs) /\ hs[h] \in Handles /\ rq[t] \in Requests
  BY InHand DEF ReadHead, Holding
<1>1. /\ main # "down" /\ rq[t].pc = "read"
      /\ UNCHANGED <<dir, files, hs, opened, conn, main, answered, removed, calm>>
      /\ nops \in Nat
  BY DEF ReadHead, Up, disk, TypeInv
<1>2. CASE rq[t].nonce <= hs[h].last
  <2>1. nops' = nops /\ (Answer(t) \/ (Goto(t, "failed") /\ ~Direct(t)))
    BY <1>2 DEF ReadHead
  <2>. QED
    BY <1>1, <2>1, AnswerFacts, GotoFacts
<1>3. CASE ~(rq[t].nonce <= hs[h].last)
  <2>1. PICK o : o = [w |-> nops + 1, seq |-> Len(hs[h].ops), prev |-> hs[h].head]
    OBVIOUS
  <2>2. o \in Ops /\ o.prev = hs[h].head
    <3>1. hs[h].ops \in Seq(Ops) /\ hs[h].head \in Nat
      BY <1>0 DEF Handles
    <3>2. Len(hs[h].ops) \in Nat
      BY <3>1, LenProperties
    <3>. QED
      BY <1>1, <2>1, <3>1, <3>2 DEF Ops
  <2>3. PICK r : r = rq[t] /\ r \in Requests
    BY <1>0
  <2>. DEFINE d == [r EXCEPT !.pc = "append", !.op = o]
  <2>4. rq' = [rq EXCEPT ![t] = d] /\ nops' = nops + 1
    BY <1>3, <2>1, <2>3, Zenon DEF ReadHead
  <2>5. d \in Requests /\ d.pc = "append" /\ d.h = r.h /\ d.name = r.name /\ d.kind = r.kind /\ d.op = o
    BY <2>2, <2>3 DEF Requests
  <2>. HIDE DEF d
  <2>6. rq' \in [Threads -> Requests] /\ SameRq(t) /\ rq'[t] = d
    BY <2>4, <2>5, SetRq
  <2>. QED
    BY <1>1, <2>2, <2>3, <2>4, <2>5, <2>6
<1>. QED
  BY <1>2, <1>3

\* What a write's return leaves in the history.
Noted(t, mongo) ==
  [w |-> rq[t].op.w, name |-> rq[t].name, ino |-> hs[rq[t].h].ino,
   mongo |-> mongo, live |-> hs[rq[t].h].aof /\ main = "serving"]

LEMMA NotedFacts ==
  ASSUME TypeInv, Refs, NEW t \in Threads, rq[t].pc \in Holding, NEW mongo \in BOOLEAN
  PROVE  LET a == Noted(t, mongo) IN
         /\ a \in Answers /\ a.w = rq[t].op.w /\ a.name = rq[t].name /\ a.mongo = mongo
         /\ a.live => hs[rq[t].h].aof /\ main = "serving"
<1>1. /\ hs[rq[t].h].ino \in Nat /\ hs[rq[t].h].aof \in BOOLEAN
      /\ rq[t].op.w \in Nat /\ rq[t].name \in Names
  BY InHand DEF Handles, Requests, Ops
<1>. QED
  BY <1>1 DEF Noted, Answers

LEMMA AppendOpFacts ==
  ASSUME TypeInv, Refs, NEW t \in Threads, AppendOp(t)
  PROVE  LET h == rq[t].h
             o == rq[t].op IN
         /\ rq' \in [Threads -> Requests] /\ SameRq(t) /\ main # "down"
         /\ rq[t].pc = "append" /\ o \in Ops
         /\ hs' \in Seq(Handles) /\ SameHs(h) /\ SameFile(h) /\ SameOpen(h)
         /\ hs'[h].mixed = hs[h].mixed /\ hs'[h].q = hs[h].q
         /\ hs'[h].ops = Append(hs[h].ops, o) /\ hs'[h].head = o.w
         /\ hs'[h].buf = IF hs[h].aof THEN Append(hs[h].buf, o) ELSE hs[h].buf
         /\ \/ Direct(t) /\ Rests(t) /\ answered' = answered \cup {Noted(t, TRUE)}
            \/ ~Direct(t) /\ rq'[t].pc = "flush" /\ SameJob(t) /\ answered' = answered
         /\ UNCHANGED <<dir, files, opened, conn, nops, main, removed, calm>>
<1>. DEFINE h == rq[t].h
            o == rq[t].op
<1>0. h \in 1..Len(hs) /\ hs[h] \in Handles /\ rq[t] \in Requests
  BY InHand DEF AppendOp, Holding
<1>1. /\ main # "down" /\ rq[t].pc = "append" /\ o \in Ops
      /\ UNCHANGED <<dir, files, opened, conn, nops, main, removed, calm>>
  BY <1>0 DEF AppendOp, Up, disk, Requests
<1>2. PICK g : g = hs[h] /\ g \in Handles
  BY <1>0
<1>. DEFINE b == IF g.aof THEN Append(g.buf, o) ELSE g.buf
            e == [g EXCEPT !.ops = Append(g.ops, o), !.head = o.w, !.last = rq[t].nonce, !.buf = b]
<1>3. hs' = [hs EXCEPT ![h] = e]
  BY <1>2, Zenon DEF AppendOp
<1>4. Append(g.ops, o) \in Seq(Ops) /\ Append(g.buf, o) \in Seq(Ops) /\ g.buf \in Seq(Ops)
  BY <1>1, <1>2, AppendProperties DEF Handles
<1>5. o.w \in Nat /\ rq[t].nonce \in Nat /\ b \in Seq(Ops)
  BY <1>0, <1>1, <1>4 DEF Ops, Requests
<1>6. /\ e \in Handles /\ e.name = g.name /\ e.ino = g.ino /\ e.ops = Append(g.ops, o) /\ e.head = o.w
      /\ e.closed = g.closed /\ e.aof = g.aof /\ e.buf = b /\ e.q = g.q /\ e.mixed = g.mixed
  <2>. DEFINE l == Append(g.ops, o)
              x == o.w
              y == rq[t].nonce
  <2>1. l \in Seq(Ops) /\ b \in Seq(Ops) /\ x \in Nat /\ y \in Nat
    BY <1>4, <1>5
  <2>. DEFINE k == [g EXCEPT !.ops = l, !.head = x]
  <2>2. e = [k EXCEPT !.last = y, !.buf = b]
    BY Zenon
  <2>. HIDE DEF b, l, x, y, o, e
  <2>3. /\ k \in Handles /\ k.name = g.name /\ k.ino = g.ino /\ k.ops = l /\ k.head = x
        /\ k.closed = g.closed /\ k.aof = g.aof /\ k.q = g.q /\ k.mixed = g.mixed
    BY <1>2, <2>1 DEF Handles
  <2>. HIDE DEF k
  <2>4. /\ e \in Handles /\ e.name = k.name /\ e.ino = k.ino /\ e.ops = k.ops /\ e.head = k.head
        /\ e.closed = k.closed /\ e.aof = k.aof /\ e.buf = b /\ e.q = k.q /\ e.mixed = k.mixed
    BY <2>1, <2>2, <2>3 DEF Handles
  <2>. QED
    BY <2>3, <2>4 DEF l, x
<1>. HIDE DEF e
<1>7. hs' \in Seq(Handles) /\ SameHs(h) /\ hs'[h] = e
  <2>. HIDE DEF h, b, o
  <2>. QED
    BY <1>0, <1>3, <1>6, SetHs
<1>8. /\ SameFile(h) /\ SameOpen(h) /\ hs'[h].mixed = hs[h].mixed /\ hs'[h].q = hs[h].q
      /\ hs'[h].ops = Append(hs[h].ops, o) /\ hs'[h].head = o.w
      /\ hs'[h].buf = IF hs[h].aof THEN Append(hs[h].buf, o) ELSE hs[h].buf
  BY <1>2, <1>6, <1>7 DEF SameFile, SameOpen
<1>9. CASE Direct(t)
  <2>1. Answer(t) /\ answered' = answered \cup {Noted(t, TRUE)}
    BY <1>9, Zenon DEF AppendOp, Noted
  <2>. QED
    BY <1>1, <1>7, <1>8, <1>9, <2>1, AnswerFacts
<1>10. CASE ~Direct(t)
  <2>1. Goto(t, "flush") /\ answered' = answered
    BY <1>10, Zenon DEF AppendOp
  <2>. QED
    BY <1>1, <1>7, <1>8, <1>10, <2>1, GotoFacts
<1>. QED
  BY <1>9, <1>10

\* flush(): the file gets what the buffer holds, if it is open.
LEMMA FlushedFacts ==
  ASSUME TypeInv, Refs, NEW h \in 1..Len(hs), Flushed(h)
  PROVE  /\ files' \in Seq(Seq(Ops)) /\ Len(files') = Len(files)
         /\ \A i \in 1..Len(files) : i # hs[h].ino => files'[i] = files[i]
         /\ files'[hs[h].ino] = IF hs[h].aof THEN files[hs[h].ino] \o hs[h].buf ELSE files[hs[h].ino]
<1>. DEFINE i == hs[h].ino
            f == IF hs[h].aof THEN files[i] \o hs[h].buf ELSE files[i]
<1>1. i \in 1..Len(files) /\ files \in Seq(Seq(Ops))
  BY DEF Refs, TypeInv
<1>2. files[i] \in Seq(Ops)
  BY <1>1, ElementOfSeq
<1>3. hs[h].buf \in Seq(Ops)
  BY HandleType DEF Handles
<1>4. f \in Seq(Ops)
  BY <1>2, <1>3, ConcatOps
<1>5. files' = [files EXCEPT ![i] = f]
  BY DEF Flushed
<1>. HIDE DEF i, f
<1>6. files' \in Seq(Seq(Ops)) /\ Len(files') = Len(files) /\ \A j \in 1..Len(files) : files'[j] = IF j = i THEN f ELSE files[j]
  BY <1>1, <1>4, <1>5, ExceptSeq
<1>. QED
  BY <1>1, <1>6 DEF i, f

LEMMA FlushAndWakeFacts ==
  ASSUME TypeInv, Refs, Queues, NEW t \in Threads, FlushAndWake(t)
  PROVE  LET h == rq[t].h IN
         /\ rq' \in [Threads -> Requests] /\ SameRq(t) /\ main # "down"
         /\ rq[t].pc \in {"flush", "failed"} /\ Flushed(h)
         /\ ~Direct(t) /\ hs[h].q # << >> /\ hs[h].q[1] = t
         /\ hs' \in Seq(Handles) /\ SameHs(h) /\ SameFile(h) /\ SameOpen(h) /\ SameLog(h)
         /\ hs'[h].q = Tail(hs[h].q) /\ hs'[h].buf = << >>
         /\ \/ Rests(t)
            \/ rq'[t].pc = "submit" /\ rq'[t].kind = "put" /\ rq'[t].name = rq[t].name /\ rq'[t].h = rq[t].h
            \/ rq'[t].pc = "exists" /\ rq'[t].kind = "query"
         /\ \/ rq[t].pc = "failed" /\ answered' = answered
            \/ rq[t].pc = "flush" /\ answered' = answered \cup {Noted(t, FALSE)}
         /\ UNCHANGED <<dir, opened, conn, nops, main, removed, calm>>
<1>. DEFINE h == rq[t].h
<1>0. h \in 1..Len(hs) /\ hs[h] \in Handles /\ rq[t] \in Requests
  BY InHand DEF FlushAndWake, Holding
<1>1. /\ main # "down" /\ rq[t].pc \in {"flush", "failed"} /\ Flushed(h)
      /\ UNCHANGED <<dir, opened, conn, nops, main, removed, calm>>
      /\ (rq[t].pc = "failed" /\ Answer(t)) \/ (rq[t].pc # "failed" /\ Return(t))
      /\ \/ rq[t].pc = "failed" /\ answered' = answered
         \/ rq[t].pc = "flush" /\ answered' = answered \cup {Noted(t, FALSE)}
  BY DEF FlushAndWake, Up, Noted
<1>2. PICK g : g = hs[h] /\ g \in Handles
  BY <1>0
<1>. DEFINE e == [g EXCEPT !.q = Tail(g.q), !.buf = << >>]
<1>3. hs' = [hs EXCEPT ![h] = e]
  BY <1>2, Zenon DEF FlushAndWake
<1>4. /\ ~Direct(t) /\ hs[h].q # << >> /\ hs[h].q[1] = t
  BY <1>1 DEF Queues, Committing, First
<1>6. /\ hs' \in Seq(Handles) /\ SameHs(h) /\ SameFile(h) /\ SameOpen(h) /\ SameLog(h)
      /\ hs'[h].q = Tail(hs[h].q) /\ hs'[h].buf = << >>
  <2>1. g.q \in Seq(Threads)
    BY <1>2 DEF Handles
  <2>2. Tail(g.q) \in Seq(Threads) /\ << >> \in Seq(Ops)
    BY <2>1, <1>2, <1>4, HeadTailProperties, EmptySeq
  <2>3. /\ e \in Handles /\ e.name = g.name /\ e.ino = g.ino /\ e.ops = g.ops /\ e.head = g.head
        /\ e.mixed = g.mixed /\ e.closed = g.closed /\ e.aof = g.aof /\ e.buf = << >>
        /\ e.q = Tail(g.q)
    <3>. DEFINE x == Tail(g.q)
                y == << >>
    <3>1. x \in Seq(Threads) /\ y \in Seq(Ops) /\ e = [g EXCEPT !.q = x, !.buf = y]
      BY <2>2
    <3>. HIDE DEF x, y, e
    <3>2. /\ e \in Handles /\ e.name = g.name /\ e.ino = g.ino /\ e.ops = g.ops /\ e.head = g.head
          /\ e.mixed = g.mixed /\ e.closed = g.closed /\ e.aof = g.aof /\ e.buf = y
          /\ e.q = x
      BY <1>2, <3>1 DEF Handles
    <3>. QED
      BY <3>2 DEF x, y
  <2>. HIDE DEF e
  <2>4. hs' \in Seq(Handles) /\ SameHs(h) /\ hs'[h] = e
    <3>. HIDE DEF h
    <3>. QED
      BY <1>0, <1>3, <2>3, SetHs
  <2>. QED
    BY <1>2, <2>3, <2>4 DEF SameFile, SameOpen, SameLog
<1>5. /\ rq' \in [Threads -> Requests] /\ SameRq(t)
      /\ \/ Rests(t)
         \/ rq'[t].pc = "submit" /\ rq'[t].kind = "put" /\ rq'[t].name = rq[t].name /\ rq'[t].h = rq[t].h
         \/ rq'[t].pc = "exists" /\ rq'[t].kind = "query"
  BY <1>1, AnswerFacts, ReturnFacts
<1>. QED
  BY <1>1, <1>2, <1>4, <1>5, <1>6

\* Sequencer.close() begins: no more intents.
Closes(h) ==
  /\ hs' \in Seq(Handles) /\ SameHs(h) /\ SameFile(h) /\ SameLog(h)
  /\ hs'[h].buf = hs[h].buf /\ hs'[h].q = hs[h].q /\ hs'[h].aof = hs[h].aof
  /\ hs'[h].closed = TRUE

LEMMA ClosesFacts ==
  ASSUME TypeInv, NEW h \in 1..Len(hs), hs' = [hs EXCEPT ![h].closed = TRUE]
  PROVE  Closes(h)
<1>1. PICK g : g = hs[h] /\ g \in Handles
  BY HandleType
<1>. DEFINE e == [g EXCEPT !.closed = TRUE]
<1>2. hs' = [hs EXCEPT ![h] = e]
  BY <1>1, Zenon
<1>3. /\ e \in Handles /\ e.name = g.name /\ e.ino = g.ino /\ e.ops = g.ops /\ e.head = g.head
      /\ e.mixed = g.mixed /\ e.closed = TRUE /\ e.aof = g.aof /\ e.buf = g.buf /\ e.q = g.q
  BY <1>1 DEF Handles
<1>. HIDE DEF e
<1>4. hs' \in Seq(Handles) /\ SameHs(h) /\ hs'[h] = e
  BY <1>2, <1>3, SetHs
<1>. QED
  BY <1>1, <1>3, <1>4 DEF Closes, SameFile, SameLog

LEMMA DropCloseFacts ==
  ASSUME TypeInv, Refs, NEW t \in Threads, DropClose(t)
  PROVE  LET h == opened[rq[t].name] IN
         /\ rq' \in [Threads -> Requests] /\ SameRq(t) /\ main # "down"
         /\ rq[t].pc = "close" /\ Marks(t) /\ rq'[t].name = rq[t].name /\ rq'[t].kind = rq[t].kind
         /\ \/ h = 0 /\ rq'[t].pc = "rmtree" /\ hs' = hs
            \/ /\ h \in 1..Len(hs) /\ rq'[t].h = h /\ Closes(h)
               /\ rq'[t].pc = IF hs[h].closed THEN "del" ELSE "join"
         /\ UNCHANGED <<dir, files, opened, conn, nops, main, answered, removed>>
<1>. DEFINE h == opened[rq[t].name]
<1>0. h \in Nat /\ rq[t] \in Requests /\ (h # 0 => h \in 1..Len(hs))
  BY DEF TypeInv, Requests, Refs
<1>1. /\ main # "down" /\ rq[t].pc = "close" /\ Mark(t, rq[t].name)
      /\ UNCHANGED <<dir, files, opened, conn, nops, main, answered, removed>>
  BY DEF DropClose, Up, disk
<1>2. Marks(t)
  BY <1>1, MarkFacts
<1>3. CASE h = 0
  <2>1. Goto(t, "rmtree") /\ hs' = hs
    BY <1>3 DEF DropClose
  <2>. QED
    BY <1>1, <1>2, <1>3, <2>1, GotoFacts DEF SameJob
<1>4. CASE h # 0
  <2>0. PICK r : r = rq[t] /\ r \in Requests
    BY <1>0
  <2>. DEFINE pc == IF hs[h].closed THEN "del" ELSE "join"
              d  == [r EXCEPT !.h = h, !.pc = pc]
  <2>1. rq' = [rq EXCEPT ![t] = d] /\ hs' = [hs EXCEPT ![h].closed = TRUE]
    BY <1>4, <2>0, Zenon DEF DropClose
  <2>2. d \in Requests /\ d.h = h /\ d.pc = pc /\ d.name = r.name /\ d.kind = r.kind
    <3>1. h \in Nat /\ pc \in {"del", "join"}
      BY <1>0
    <3>. HIDE DEF h, pc
    <3>. QED
      BY <2>0, <3>1 DEF Requests
  <2>3. Closes(h) /\ h \in 1..Len(hs)
    <3>1. h \in 1..Len(hs) /\ hs' = [hs EXCEPT ![h].closed = TRUE]
      BY <1>0, <1>4, <2>1
    <3>. HIDE DEF h
    <3>. QED
      BY <3>1, ClosesFacts
  <2>. HIDE DEF d
  <2>4. rq' \in [Threads -> Requests] /\ SameRq(t) /\ rq'[t] = d
    BY <2>1, <2>2, SetRq
  <2>. QED
    BY <1>1, <1>2, <2>0, <2>2, <2>3, <2>4
<1>. QED
  BY <1>3, <1>4

LEMMA JoinFacts ==
  ASSUME TypeInv, Refs, NEW t \in Threads, Join(t)
  PROVE  LET h == rq[t].h IN
         /\ rq' \in [Threads -> Requests] /\ SameRq(t) /\ main # "down"
         /\ rq[t].pc = "join" /\ Flushed(h) /\ hs[h].q = << >>
         /\ hs' \in Seq(Handles) /\ SameHs(h) /\ SameFile(h) /\ SameLog(h)
         /\ hs'[h].q = hs[h].q /\ hs'[h].closed = hs[h].closed
         /\ hs'[h].buf = << >> /\ hs'[h].aof = FALSE
         /\ rq'[t].pc = (IF rq[t].kind = "drop" THEN "del" ELSE "next") /\ SameJob(t)
         /\ UNCHANGED <<dir, opened, conn, nops, main, answered, removed, calm>>
<1>. DEFINE h == rq[t].h
<1>0. h \in 1..Len(hs) /\ hs[h] \in Handles
  BY InHand DEF Join, Holding
<1>1. /\ main # "down" /\ rq[t].pc = "join" /\ Flushed(h) /\ hs[h].q = << >>
      /\ UNCHANGED <<dir, opened, conn, nops, main, answered, removed, calm>>
      /\ Goto(t, IF rq[t].kind = "drop" THEN "del" ELSE "next")
  BY Zenon DEF Join, Up, Drained
<1>2. PICK g : g = hs[h] /\ g \in Handles
  BY <1>0
<1>. DEFINE y == << >>
            e == [g EXCEPT !.aof = FALSE, !.buf = y]
<1>3. hs' = [hs EXCEPT ![h] = e]
  BY <1>2, Zenon DEF Join
<1>4. y \in Seq(Ops)
  BY EmptySeq
<1>5. /\ e \in Handles /\ e.name = g.name /\ e.ino = g.ino /\ e.ops = g.ops /\ e.head = g.head
      /\ e.mixed = g.mixed /\ e.closed = g.closed /\ e.aof = FALSE /\ e.buf = y /\ e.q = g.q
  <2>. HIDE DEF y
  <2>. QED
    BY <1>2, <1>4 DEF Handles
<1>. HIDE DEF e
<1>6. hs' \in Seq(Handles) /\ SameHs(h) /\ hs'[h] = e
  <2>. HIDE DEF h
  <2>. QED
    BY <1>0, <1>3, <1>5, SetHs
<1>7. /\ rq' \in [Threads -> Requests] /\ SameRq(t) /\ SameJob(t)
      /\ rq'[t].pc = IF rq[t].kind = "drop" THEN "del" ELSE "next"
  BY <1>1, GotoFacts
<1>. QED
  BY <1>1, <1>2, <1>5, <1>6, <1>7 DEF SameFile, SameLog

LEMMA DelFacts ==
  ASSUME TypeInv, NEW t \in Threads, Del(t)
  PROVE  /\ rq' \in [Threads -> Requests] /\ SameRq(t) /\ main # "down" /\ rq[t].pc = "del"
         /\ opened' \in [Names -> Nat] /\ opened'[rq[t].name] = 0
         /\ \A n \in Names : n # rq[t].name => opened'[n] = opened[n]
         /\ \/ opened[rq[t].name] = 0 /\ Rests(t)
            \/ rq'[t].pc = "rmtree" /\ SameJob(t)
         /\ UNCHANGED <<dir, files, hs, conn, nops, main, answered, removed, calm>>
<1>1. rq[t].name \in Names
  BY DEF TypeInv, Requests
<1>2. /\ main # "down" /\ rq[t].pc = "del" /\ opened' = [opened EXCEPT ![rq[t].name] = 0]
      /\ UNCHANGED <<dir, files, hs, conn, nops, main, answered, removed, calm>>
      /\ (opened[rq[t].name] = 0 /\ Answer(t)) \/ Goto(t, "rmtree")
  BY DEF Del, Up, disk
<1>3. /\ opened' \in [Names -> Nat] /\ opened'[rq[t].name] = 0
      /\ \A n \in Names : n # rq[t].name => opened'[n] = opened[n]
  BY <1>1, <1>2 DEF TypeInv
<1>. QED
  BY <1>2, <1>3, AnswerFacts, GotoFacts

LEMMA RmtreeFacts ==
  ASSUME TypeInv, NEW t \in Threads, Rmtree(t)
  PROVE  /\ rq' \in [Threads -> Requests] /\ SameRq(t) /\ main # "down" /\ rq[t].pc = "rmtree"
         /\ dir' \in [Names -> Nat] /\ dir'[rq[t].name] = 0
         /\ \A n \in Names : n # rq[t].name => dir'[n] = dir[n]
         /\ Rests(t) /\ removed' = removed \cup Written(dir[rq[t].name])
         /\ UNCHANGED <<files, hs, opened, conn, nops, main, answered, calm>>
<1>1. rq[t].name \in Names
  BY DEF TypeInv, Requests
<1>2. /\ main # "down" /\ rq[t].pc = "rmtree" /\ dir' = [dir EXCEPT ![rq[t].name] = 0]
      /\ removed' = removed \cup Written(dir[rq[t].name])
      /\ UNCHANGED <<files, hs, opened, conn, nops, main, answered, calm>>
      /\ Answer(t)
  BY DEF Rmtree, Up
<1>3. /\ dir' \in [Names -> Nat] /\ dir'[rq[t].name] = 0
      /\ \A n \in Names : n # rq[t].name => dir'[n] = dir[n]
  BY <1>1, <1>2 DEF TypeInv
<1>. QED
  BY <1>2, <1>3, AnswerFacts

LEMMA WalkFacts ==
  ASSUME TypeInv, NEW t \in Threads, NEW kind \in Kinds, Walk(t, kind)
  PROVE  /\ rq' \in [Threads -> Requests] /\ SameRq(t) /\ main = "serving"
         /\ rq'[t].pc = "next" /\ rq'[t].kind = kind /\ kind \in {"autosave", "stop"}
         /\ main' = IF kind = "stop" THEN "stopping" ELSE main
         /\ UNCHANGED <<dir, files, hs, opened, conn, nops, answered, removed, calm>>
<1>1. kind \in {"autosave", "stop"}
  BY DaemonAssumption DEF Walk, Walks
<1>2. OpenNames \in SUBSET Names /\ Cardinality(OpenNames) \in Nat
  <2>1. OpenNames \in SUBSET Names
    BY DEF OpenNames
  <2>2. IsFiniteSet(OpenNames)
    BY <2>1, DaemonAssumption, FS_Subset
  <2>. QED
    BY <2>1, <2>2, FS_CardinalityType
<1>3. /\ main = "serving"
      /\ main' = IF kind = "stop" THEN "stopping" ELSE main
      /\ UNCHANGED <<dir, files, hs, opened, conn, nops, answered, removed, calm>>
  BY DEF Walk, disk
<1>4. PICK x, y : x = OpenNames /\ y = Cardinality(OpenNames)
  OBVIOUS
<1>5. PICK r : r = Idle /\ r \in Requests
  BY IdleFacts
<1>. DEFINE k == [r EXCEPT !.pc = "next", !.kind = kind]
            d == [k EXCEPT !.todo = x, !.size = y]
<1>6. rq' = [rq EXCEPT ![t] = d]
  BY <1>4, <1>5, Zenon DEF Walk
<1>7. k \in Requests /\ k.pc = "next" /\ k.kind = kind
  BY <1>1, <1>5 DEF Requests
<1>. HIDE DEF k
<1>8. d \in Requests /\ d.pc = k.pc /\ d.kind = k.kind
  BY <1>2, <1>4, <1>7 DEF Requests
<1>. HIDE DEF d
<1>9. rq' \in [Threads -> Requests] /\ SameRq(t) /\ rq'[t] = d
  BY <1>6, <1>8, SetRq
<1>. QED
  BY <1>1, <1>3, <1>7, <1>8, <1>9

LEMMA VisitFacts ==
  ASSUME TypeInv, Refs, NEW t \in Threads, NEW n \in Names, Visit(t, n)
  PROVE  LET h == opened[n] IN
         /\ rq' \in [Threads -> Requests] /\ SameRq(t) /\ main # "down" /\ rq[t].pc = "next"
         /\ h \in 1..Len(hs) /\ rq'[t].name = n /\ rq'[t].h = h /\ rq'[t].kind = rq[t].kind
         /\ \/ rq'[t].pc = "submit" /\ hs' = hs
            \/ /\ rq[t].kind = "close" /\ Closes(h)
               /\ rq'[t].pc = IF hs[h].closed THEN "next" ELSE "join"
         /\ UNCHANGED <<dir, files, opened, conn, nops, main, answered, removed, calm>>
<1>. DEFINE h  == opened[n]
            pc == IF rq[t].kind # "close" THEN "submit" ELSE IF hs[h].closed THEN "next" ELSE "join"
<1>1. /\ main # "down" /\ rq[t].pc = "next" /\ h # 0
      /\ UNCHANGED <<dir, files, opened, conn, nops, main, answered, removed, calm>>
  BY DEF Visit, Up, disk
<1>2. h \in Nat /\ h \in 1..Len(hs) /\ pc \in {"submit", "next", "join"}
  BY <1>1 DEF TypeInv, Refs
<1>3. PICK r : r = rq[t] /\ r \in Requests
  BY DEF TypeInv
<1>. DEFINE x == r.todo \ {n}
            k == [r EXCEPT !.todo = x, !.name = n]
            d == [k EXCEPT !.h = h, !.pc = pc]
<1>4. rq' = [rq EXCEPT ![t] = d]
  <2>1. CASE rq[t].kind # "close"
    <3>1. pc = "submit"
      BY <2>1
    <3>. HIDE DEF pc
    <3>. QED
      BY <1>3, <2>1, <3>1, Zenon DEF Visit
  <2>2. CASE rq[t].kind = "close"
    <3>1. pc = IF hs[h].closed THEN "next" ELSE "join"
      BY <2>2
    <3>. HIDE DEF pc
    <3>. QED
      BY <1>3, <2>2, <3>1, Zenon DEF Visit
  <2>. QED
    BY <2>1, <2>2
<1>5. k \in Requests /\ k.name = n /\ k.kind = r.kind
  <2>1. x \in SUBSET Names
    BY <1>3 DEF Requests
  <2>. HIDE DEF x
  <2>. QED
    BY <1>3, <2>1 DEF Requests
<1>6. d \in Requests /\ d.h = h /\ d.pc = pc /\ d.name = k.name /\ d.kind = k.kind
  <2>. HIDE DEF k, pc, h
  <2>. QED
    BY <1>2, <1>5 DEF Requests
<1>7. rq' \in [Threads -> Requests] /\ SameRq(t) /\ rq'[t] = d
  <2>. HIDE DEF d
  <2>. QED
    BY <1>4, <1>6, SetRq
<1>8. /\ rq'[t].pc = pc /\ rq'[t].name = n /\ rq'[t].h = h /\ rq'[t].kind = rq[t].kind
  <2>. HIDE DEF d, k, pc, h
  <2>. QED
    BY <1>3, <1>5, <1>6, <1>7
<1>9. CASE rq[t].kind # "close"
  <2>1. hs' = hs
    BY <1>9 DEF Visit
  <2>. QED
    BY <1>1, <1>2, <1>7, <1>8, <1>9, <2>1
<1>10. CASE rq[t].kind = "close"
  <2>1. hs' = [hs EXCEPT ![h].closed = TRUE]
    BY <1>10, Zenon DEF Visit
  <2>2. Closes(h)
    <3>. HIDE DEF h
    <3>. QED
      BY <1>2, <2>1, ClosesFacts
  <2>. QED
    BY <1>1, <1>2, <1>7, <1>8, <1>10, <2>2
<1>. QED
  BY <1>9, <1>10

LEMMA WalkedFacts ==
  ASSUME TypeInv, Refs, Closers, NEW t \in Threads, Walked(t)
  PROVE  /\ rq' \in [Threads -> Requests] /\ SameRq(t) /\ main # "down" /\ rq[t].pc = "next"
         /\ calm' \in [Names -> BOOLEAN] /\ \A n \in Names : calm'[n] => calm[n]
         /\ \/ /\ \/ rq'[t].pc = "idle" /\ rq'[t].kind = "put"
                  \/ rq'[t].pc = "next" /\ rq'[t].kind = "close" /\ rq[t].kind = "stop"
               /\ opened' = opened /\ main' = main
            \/ /\ rq'[t].pc = "idle" /\ rq'[t].kind = "put" /\ rq[t].kind = "close"
               /\ opened' = [n \in Names |-> 0] /\ main' = "stopped"
               /\ \A n \in Names : calm'[n] /\ opened[n] # 0 => hs[opened[n]].closed
         /\ UNCHANGED <<dir, files, hs, conn, nops, answered, removed>>
<1>1. /\ main # "down" /\ rq[t].pc = "next" /\ rq[t].kind \in Walks
      /\ UNCHANGED <<dir, files, hs, conn, nops, answered, removed>>
  BY DEF Walked, Up, disk, Closers
<1>2. PICK r : r = rq[t] /\ r \in Requests
  BY DEF TypeInv
<1>3. PICK x : x = OpenNames /\ x \in SUBSET Names
  BY DEF OpenNames
<1>. DEFINE d == [r EXCEPT !.kind = "close", !.todo = x]
<1>4. \/ rq' = [rq EXCEPT ![t] = Idle] /\ opened' = opened /\ main' = main
      \/ rq' = [rq EXCEPT ![t] = d] /\ opened' = opened /\ main' = main /\ rq[t].kind = "stop"
      \/ /\ rq' = [rq EXCEPT ![t] = Idle] /\ opened' = [n \in Names |-> 0] /\ main' = "stopped"
         /\ rq[t].kind = "close"
  <2>. DEFINE whole == rq[t].todo = {} /\ rq[t].size = Cardinality(OpenNames)
  <2>1. CASE ~whole \/ rq[t].kind = "autosave"
    BY <2>1, Zenon DEF Walked
  <2>2. CASE whole /\ rq[t].kind = "stop"
    <3>1. rq[t].kind # "autosave"
      BY <2>2
    <3>. QED
      BY <1>2, <1>3, <2>2, <3>1, Zenon DEF Walked
  <2>3. CASE whole /\ rq[t].kind = "close"
    <3>1. rq[t].kind # "autosave" /\ rq[t].kind # "stop"
      BY <2>3
    <3>. QED
      BY <2>3, <3>1, Zenon DEF Walked
  <2>. QED
    BY <1>1, <2>1, <2>2, <2>3 DEF Walks
<1>5. d \in Requests /\ d.kind = "close" /\ d.pc = r.pc
  BY <1>2, <1>3 DEF Requests
<1>. HIDE DEF d
<1>6. ASSUME NEW e \in Requests, rq' = [rq EXCEPT ![t] = e]
      PROVE  rq' \in [Threads -> Requests] /\ SameRq(t) /\ rq'[t] = e
  BY <1>6, SetRq
<1>7. /\ calm' \in [Names -> BOOLEAN] /\ \A n \in Names : calm'[n] => calm[n]
      /\ \A n \in Names : calm'[n] => opened'[n] = opened[n] \/ hs[opened[n]].closed
  BY DEF Walked, TypeInv
<1>8. CASE rq' = [rq EXCEPT ![t] = Idle] /\ opened' = opened /\ main' = main
  BY <1>1, <1>6, <1>7, <1>8, IdleFacts
<1>9. CASE rq' = [rq EXCEPT ![t] = d] /\ opened' = opened /\ main' = main /\ rq[t].kind = "stop"
  BY <1>1, <1>2, <1>5, <1>6, <1>7, <1>9
<1>10. CASE /\ rq' = [rq EXCEPT ![t] = Idle] /\ opened' = [n \in Names |-> 0] /\ main' = "stopped"
            /\ rq[t].kind = "close"
  BY <1>1, <1>6, <1>7, <1>10, IdleFacts
<1>. QED
  BY <1>4, <1>8, <1>9, <1>10

\* open(): the engine reads the database's log, or the one that it made or relinked.
LEMMA LoadFacts ==
  ASSUME TypeInv, Refs, NEW t \in Threads, Load(t)
  PROVE  LET n == rq[t].name
             k == Len(hs) + 1
             i == dir'[n] IN
         /\ rq' \in [Threads -> Requests] /\ SameRq(t) /\ main # "down" /\ rq[t].pc = "load"
         /\ rq'[t].pc = "register" /\ rq'[t].h = k /\ rq'[t].name = n /\ rq'[t].kind = rq[t].kind
         /\ dir' \in [Names -> Nat] /\ \A m \in Names : m # n => dir'[m] = dir[m]
         /\ files' \in Seq(Seq(Ops)) /\ \A j \in 1..Len(files) : files'[j] = files[j]
         /\ \/ i = dir[n] /\ i # 0 /\ files' = files
            \/ /\ i = Len(files) + 1 /\ Len(files') = Len(files) + 1
               /\ dir[n] # 0 => Writes(files'[i]) = Writes(files[dir[n]])
         /\ hs' \in Seq(Handles) /\ Len(hs') = k /\ \A g \in 1..Len(hs) : hs'[g] = hs[g]
         /\ hs'[k].name = n /\ hs'[k].ino = i /\ hs'[k].ops = files'[i]
         /\ hs'[k].head = HeadOf(files'[i]) /\ Chained(files'[i])
         /\ hs'[k].buf = << >> /\ hs'[k].q = << >>
         /\ ~hs'[k].closed /\ hs'[k].aof /\ ~hs'[k].mixed
         /\ UNCHANGED <<opened, conn, nops, main, answered, removed, calm>>
<1>. DEFINE n == rq[t].name
            k == Len(hs) + 1
            o == Opening(n)
<1>0. n \in Names /\ Len(hs) \in Nat /\ Len(files) \in Nat /\ dir[n] \in Nat /\ dir[n] <= Len(files)
  BY LenProperties DEF TypeInv, Requests, Refs
<1>1. /\ main # "down" /\ rq[t].pc = "load"
      /\ dir' = [dir EXCEPT ![n] = o.ino]
      /\ files' = IF o.ino > Len(files) THEN Append(files, o.ops) ELSE files
      /\ hs' = Append(hs, NewHandle(n, o.ino, o.ops))
      /\ UNCHANGED <<opened, conn, nops, main, answered, removed, calm>>
  BY Zenon DEF Load, Up
<1>2. dir[n] # 0 => dir[n] \in 1..Len(files) /\ files[dir[n]] \in Seq(Ops)
  <2>1. dir[n] # 0 => dir[n] \in 1..Len(files)
    BY <1>0
  <2>. QED
    BY <2>1, ElementOfSeq DEF TypeInv
<1>3. /\ o.ops \in Seq(Ops) /\ Chained(o.ops)
      /\ \/ o.ino = dir[n] /\ dir[n] # 0 /\ o.ops = files[dir[n]]
         \/ o.ino = Len(files) + 1 /\ (dir[n] # 0 => Writes(o.ops) = Writes(files[dir[n]]))
  <2>1. CASE dir[n] = 0
    <3>1. o.ino = Len(files) + 1 /\ o.ops = << >>
      BY <2>1 DEF Opening
    <3>2. << >> \in Seq(Ops) /\ Chained(<< >>)
      BY EmptySeq DEF Chained
    <3>. QED
      BY <2>1, <3>1, <3>2
  <2>2. CASE dir[n] # 0 /\ Chained(files[dir[n]])
    <3>1. o.ino = dir[n] /\ o.ops = files[dir[n]]
      BY <2>2 DEF Opening
    <3>. QED
      BY <1>2, <2>2, <3>1
  <2>3. CASE dir[n] # 0 /\ ~Chained(files[dir[n]])
    <3>1. o.ino = Len(files) + 1 /\ o.ops = Healed(files[dir[n]])
      BY <2>3 DEF Opening
    <3>. QED
      BY <1>2, <2>3, <3>1, HealedOps
  <2>. QED
    BY <2>1, <2>2, <2>3
<1>. HIDE DEF o
<1>4. o.ino \in Nat
  BY <1>0, <1>3
<1>5. dir' \in [Names -> Nat] /\ dir'[n] = o.ino /\ \A m \in Names : m # n => dir'[m] = dir[m]
  <2>. HIDE DEF n
  <2>. QED
    BY <1>0, <1>1, <1>4 DEF TypeInv
<1>6. /\ files' \in Seq(Seq(Ops)) /\ files'[o.ino] = o.ops
      /\ \A j \in 1..Len(files) : files'[j] = files[j]
      /\ \/ o.ino = dir[n] /\ o.ino # 0 /\ files' = files
         \/ /\ o.ino = Len(files) + 1 /\ Len(files') = Len(files) + 1
            /\ dir[n] # 0 => Writes(o.ops) = Writes(files[dir[n]])
  <2>1. CASE o.ino = Len(files) + 1
    <3>1. files' = Append(files, o.ops)
      BY <1>0, <1>1, <2>1
    <3>2. /\ Append(files, o.ops) \in Seq(Seq(Ops)) /\ Len(Append(files, o.ops)) = Len(files) + 1
          /\ Append(files, o.ops)[Len(files) + 1] = o.ops
          /\ \A j \in 1..Len(files) : Append(files, o.ops)[j] = files[j]
      BY <1>3, AppendProperties DEF TypeInv
    <3>3. ~(o.ino = dir[n])
      BY <1>0, <2>1
    <3>. QED
      BY <1>3, <2>1, <3>1, <3>2, <3>3
  <2>2. CASE o.ino # Len(files) + 1
    <3>1. files' = files
      BY <1>0, <1>1, <1>3, <2>2
    <3>. QED
      BY <1>3, <2>2, <3>1 DEF TypeInv
  <2>. QED
    BY <2>1, <2>2
<1>7. PICK e : e = NewHandle(n, o.ino, o.ops)
  OBVIOUS
<1>8. /\ e \in Handles /\ e.name = n /\ e.ino = o.ino /\ e.ops = o.ops /\ e.head = HeadOf(o.ops)
      /\ e.buf = << >> /\ e.q = << >> /\ ~e.closed /\ e.aof /\ ~e.mixed
  <2>1. n \in Names /\ o.ino \in Nat /\ o.ops \in Seq(Ops)
    BY <1>0, <1>3, <1>4
  <2>. HIDE DEF n
  <2>. QED
    BY <1>7, <2>1, NewHandleFacts
<1>9. hs' \in Seq(Handles) /\ Len(hs') = k /\ hs'[k] = e /\ \A g \in 1..Len(hs) : hs'[g] = hs[g]
  BY <1>1, <1>7, <1>8, AppendProperties DEF TypeInv
<1>10. PICK r : r = rq[t] /\ r \in Requests
  BY DEF TypeInv
<1>. DEFINE d == [r EXCEPT !.h = k, !.pc = "register"]
<1>11. rq' = [rq EXCEPT ![t] = d]
  BY <1>10, Zenon DEF Load
<1>12. d \in Requests /\ d.pc = "register" /\ d.h = k /\ d.name = r.name /\ d.kind = r.kind
  <2>1. k \in Nat
    BY <1>0
  <2>. HIDE DEF k
  <2>. QED
    BY <1>10, <2>1 DEF Requests
<1>. HIDE DEF d
<1>13. rq' \in [Threads -> Requests] /\ SameRq(t) /\ rq'[t] = d
  BY <1>11, <1>12, SetRq
<1>. QED
  BY <1>1, <1>3, <1>5, <1>6, <1>8, <1>9, <1>10, <1>12, <1>13

\* SetToSeq lists a finite set.
LEMMA SetToSeqFacts ==
  ASSUME NEW S, IsFiniteSet(S)
  PROVE  LET s == SetToSeq(S) IN
         /\ s \in Seq(S) /\ Len(s) \in Nat /\ s \in [1..Len(s) -> S]
         /\ \A i, j \in 1..Len(s) : s[i] = s[j] => i = j
         /\ \A x \in S : \E i \in 1..Len(s) : s[i] = x
<1>. DEFINE c == Cardinality(S)
            s == SetToSeq(S)
<1>1. c \in Nat /\ ExistsBijection(1..c, S)
  BY FS_CardinalityType
<1>2. \E f \in [1..c -> S] : IsInjective(f)
  BY <1>1 DEF ExistsBijection, Bijection, Injection
<1>3. s \in [1..c -> S] /\ IsInjective(s)
  BY <1>2, Zenon DEF SetToSeq
<1>4. s \in Injection(1..c, S)
  BY <1>3 DEF Injection
<1>5. IsFiniteSet(1..c) /\ Cardinality(1..c) = c
  BY <1>1, FS_Interval
<1>6. s \in Surjection(1..c, S)
  <2>. HIDE DEF s
  <2>. QED
    BY <1>4, <1>5, FS_Injection
<1>. HIDE DEF s
<1>7. s \in Seq(S) /\ Len(s) = c
  <2>1. s \in Seq(S)
    BY <1>1, <1>3, SeqDef
  <2>2. Len(s) \in Nat /\ DOMAIN s = 1..Len(s) /\ DOMAIN s = 1..c
    BY <1>3, <2>1, LenProperties
  <2>3. \A a, b \in Nat : 1..a = 1..b => a = b
    OBVIOUS
  <2>. QED
    BY <1>1, <2>1, <2>2, <2>3
<1>. QED
  BY <1>1, <1>3, <1>6, <1>7 DEF IsInjective, Surjection, s

LEMMA ExitFacts ==
  ASSUME TypeInv, Refs, Exit
  PROVE  /\ files' \in Seq(Seq(Ops)) /\ Len(files') = Len(files)
         /\ \A i \in 1..Len(files) : Writes(files[i]) \subseteq Writes(files'[i])
         /\ hs' = << >> /\ opened' = [n \in Names |-> 0] /\ main' = "down"
         /\ rq' = [t \in Threads |-> Idle] /\ conn' = [t \in Threads |-> 0]
         /\ answered' \in SUBSET Answers
         /\ \A b \in answered' : ~b.live /\ \E a \in answered : a.w = b.w /\ a.name = b.name /\ a.mongo = b.mongo
         /\ UNCHANGED <<dir, nops, removed, calm>>
<1>1. /\ hs' = << >> /\ opened' = [n \in Names |-> 0] /\ main' = "down"
      /\ rq' = [t \in Threads |-> Idle] /\ conn' = [t \in Threads |-> 0]
      /\ answered' = {[a EXCEPT !.live = FALSE] : a \in answered}
      /\ UNCHANGED <<dir, nops, removed, calm>>
  BY DEF Exit
<1>2. ASSUME NEW a \in answered
      PROVE  LET b == [a EXCEPT !.live = FALSE] IN
             b \in Answers /\ ~b.live /\ a.w = b.w /\ a.name = b.name /\ a.mongo = b.mongo
  BY DEF TypeInv, Answers
<1>3. /\ answered' \in SUBSET Answers
      /\ \A b \in answered' : ~b.live /\ \E a \in answered : a.w = b.w /\ a.name = b.name /\ a.mongo = b.mongo
  <2>1. ASSUME NEW b \in answered'
        PROVE  /\ b \in Answers /\ ~b.live
               /\ \E a \in answered : a.w = b.w /\ a.name = b.name /\ a.mongo = b.mongo
    <3>1. PICK a \in answered : b = [a EXCEPT !.live = FALSE]
      BY <1>1, <2>1
    <3>. QED
      BY <1>2, <3>1
  <2>. QED
    BY <2>1
<1>4. PICK cut \in [DOMAIN hs -> 0..MaxOps] :
        /\ \A h \in DOMAIN hs : cut[h] <= Len(hs[h].buf)
        /\ files' = [i \in DOMAIN files |->
                      IF \E h \in DOMAIN hs : hs[h].ino = i /\ cut[h] > 0
                      THEN LET h == CHOOSE h \in DOMAIN hs : hs[h].ino = i /\ cut[h] > 0
                           IN  files[i] \o SubSeq(hs[h].buf, 1, cut[h])
                      ELSE files[i]]
  BY Zenon DEF Exit
<1>5. /\ DOMAIN hs = 1..Len(hs) /\ DOMAIN files = 1..Len(files) /\ Len(files) \in Nat
      /\ \A i \in 1..Len(files) : files[i] \in Seq(Ops)
  BY LenProperties, ElementOfSeq DEF TypeInv
<1>6. ASSUME NEW i \in 1..Len(files)
      PROVE  files'[i] \in Seq(Ops) /\ Writes(files[i]) \subseteq Writes(files'[i])
  <2>1. CASE \E h \in DOMAIN hs : hs[h].ino = i /\ cut[h] > 0
    <3>. DEFINE h == CHOOSE h \in DOMAIN hs : hs[h].ino = i /\ cut[h] > 0
                b == SubSeq(hs[h].buf, 1, cut[h])
    <3>1. h \in DOMAIN hs
      BY <2>1, Zenon
    <3>2. files'[i] = files[i] \o b
      BY <1>4, <1>5, <2>1, Zenon
    <3>. HIDE DEF h
    <3>3. hs[h].buf \in Seq(Ops) /\ cut[h] \in 0..MaxOps /\ cut[h] <= Len(hs[h].buf)
      BY <1>4, <1>5, <3>1, HandleType DEF Handles
    <3>4. Len(hs[h].buf) \in Nat
      BY <3>3, LenProperties
    <3>5. \A j \in 1..cut[h] : j \in 1..Len(hs[h].buf)
      BY <3>3, <3>4
    <3>6. \A j \in 1..cut[h] : hs[h].buf[j] \in Ops
      BY <3>3, <3>5, ElementOfSeq
    <3>7. b \in Seq(Ops)
      BY <3>3, <3>6, SubSeqProperties
    <3>. HIDE DEF b
    <3>. QED
      BY <1>5, <3>2, <3>7, ConcatOps
  <2>2. CASE ~ \E h \in DOMAIN hs : hs[h].ino = i /\ cut[h] > 0
    <3>1. files'[i] = files[i]
      BY <1>4, <1>5, <2>2, Zenon
    <3>. QED
      BY <1>5, <3>1
  <2>. QED
    BY <2>1, <2>2
<1>7. files' \in Seq(Seq(Ops)) /\ Len(files') = Len(files)
  <2>1. files' = [i \in 1..Len(files) |-> files'[i]]
    BY <1>4, <1>5, Zenon
  <2>0. \A i \in 1..Len(files) : files'[i] \in Seq(Ops)
    BY <1>6
  <2>2. files' \in [1..Len(files) -> Seq(Ops)]
    BY <2>0, <2>1, Zenon
  <2>6. Len(files) \in Nat
    BY <1>5
  <2>3. files' \in Seq(Seq(Ops))
    BY <2>2, <2>6, SeqDef
  <2>4. Len(files') \in Nat /\ DOMAIN files' = 1..Len(files') /\ DOMAIN files' = 1..Len(files)
    BY <2>2, <2>3, LenProperties
  <2>5. \A a, b \in Nat : 1..a = 1..b => a = b
    OBVIOUS
  <2>. QED
    BY <1>5, <2>3, <2>4, <2>5
<1>. QED
  BY <1>1, <1>3, <1>6, <1>7

\* A daemon that has opened every database it found, and serves.
Restarted ==
  /\ \A h \in 1..Len(hs) :
       /\ opened[hs[h].name] = h /\ hs[h].ino = dir[hs[h].name] /\ hs[h].ino \in 1..Len(files)
       /\ hs[h].ops = files[hs[h].ino] /\ Chained(hs[h].ops) /\ hs[h].head = HeadOf(hs[h].ops)
       /\ hs[h].buf = << >> /\ hs[h].q = << >>
       /\ ~hs[h].closed /\ hs[h].aof /\ ~hs[h].mixed
  /\ \A n \in Names : opened[n] # 0 => opened[n] \in 1..Len(hs) /\ hs[opened[n]].name = n
  /\ \A n \in Names : dir[n] <= Len(files)
  /\ \A n, m \in Names : dir[n] = dir[m] /\ dir[n] # 0 => n = m
  /\ \A t \in Threads : rq[t] = Idle /\ conn[t] = 0
  /\ main = "serving"

\* A sequence of n elements of S.
LEMMA Listed ==
  ASSUME NEW S, NEW n \in Nat, NEW f \in [1..n -> S]
  PROVE  f \in Seq(S) /\ Len(f) = n
<1>1. f \in Seq(S)
  BY SeqDef
<1>2. Len(f) \in Nat /\ DOMAIN f = 1..Len(f) /\ DOMAIN f = 1..n
  BY <1>1, LenProperties
<1>3. \A a, b \in Nat : 1..a = 1..b => a = b
  OBVIOUS
<1>. QED
  BY <1>1, <1>2, <1>3

LEMMA InitFacts == Init => TypeInv /\ Restarted /\ answered = {}
<1>. SUFFICES ASSUME Init PROVE TypeInv /\ Restarted /\ answered = {}
  OBVIOUS
<1>1. PICK there \in SUBSET Names :
        LET order == SetToSeq(there) IN
        /\ dir = [n \in Names |-> IF n \in there THEN CHOOSE i \in DOMAIN order : order[i] = n ELSE 0]
        /\ files = [i \in DOMAIN order |-> << >>]
        /\ hs = [i \in DOMAIN order |-> NewHandle(order[i], i, << >>)]
        /\ opened = dir
  BY Zenon DEF Init
<1>2. /\ rq = [t \in Threads |-> Idle]
      /\ conn = [t \in Threads |-> 0] /\ nops = 0
      /\ main = "serving" /\ answered = {} /\ calm = [n \in Names |-> TRUE]
  BY DEF Init
<1>. DEFINE o == SetToSeq(there)
            c == Len(o)
<1>3. IsFiniteSet(there)
  BY DaemonAssumption, FS_Subset
<1>4. /\ c \in Nat /\ o \in [1..c -> there]
      /\ \A i, j \in 1..c : o[i] = o[j] => i = j
      /\ \A x \in there : \E i \in 1..c : o[i] = x
  BY <1>3, SetToSeqFacts
<1>. HIDE DEF o, c
<1>5. DOMAIN o = 1..c
  BY <1>4
<1>6. /\ files = [i \in DOMAIN o |-> << >>]
      /\ hs = [i \in DOMAIN o |-> NewHandle(o[i], i, << >>)]
      /\ opened = dir
      /\ dir = [n \in Names |-> IF n \in there THEN CHOOSE i \in DOMAIN o : o[i] = n ELSE 0]
  BY <1>1, Zenon DEF o
<1>7. ASSUME NEW n \in there PROVE dir[n] \in 1..c /\ o[dir[n]] = n
  <2>1. dir[n] = CHOOSE i \in DOMAIN o : o[i] = n
    BY <1>6, Zenon
  <2>2. \E i \in DOMAIN o : o[i] = n
    BY <1>4, <1>5
  <2>3. dir[n] \in DOMAIN o /\ o[dir[n]] = n
    BY <2>1, <2>2, Zenon
  <2>. QED
    BY <1>5, <2>3
<1>8. \A n \in Names : n \notin there => dir[n] = 0
  BY <1>6
<1>9. dir \in [Names -> Nat]
  <2>1. ASSUME NEW n \in Names PROVE dir[n] \in Nat
    <3>1. CASE n \in there
      BY <1>4, <1>7, <3>1
    <3>2. CASE n \notin there
      BY <1>8, <3>2
    <3>. QED
      BY <3>1, <3>2
  <2>2. dir = [n \in Names |-> dir[n]]
    <3>. DEFINE v(n) == IF n \in there THEN CHOOSE i \in DOMAIN o : o[i] = n ELSE 0
    <3>1. dir = [n \in Names |-> v(n)]
      BY <1>6, Zenon
    <3>. HIDE DEF v
    <3>. QED
      BY <3>1
  <2>. QED
    BY <2>1, <2>2
<1>10. << >> \in Seq(Ops) /\ Chained(<< >>)
  BY EmptySeq DEF Chained
<1>11. files \in Seq(Seq(Ops)) /\ Len(files) = c /\ \A i \in 1..c : files[i] = << >>
  <2>1. files \in [1..c -> Seq(Ops)] /\ \A i \in 1..c : files[i] = << >>
    BY <1>5, <1>6, <1>10
  <2>. QED
    BY <1>4, <2>1, Listed
<1>12. ASSUME NEW i \in 1..c
       PROVE  /\ hs[i] \in Handles /\ hs[i].name = o[i] /\ hs[i].ino = i /\ hs[i].ops = << >>
              /\ hs[i].head = HeadOf(<< >>) /\ hs[i].buf = << >> /\ hs[i].q = << >>
              /\ ~hs[i].closed /\ hs[i].aof /\ ~hs[i].mixed
  <2>1. PICK ops : ops = << >> /\ ops \in Seq(Ops)
    BY <1>10
  <2>2. o[i] \in Names /\ i \in Nat
    BY <1>4
  <2>3. hs[i] = NewHandle(o[i], i, ops)
    <3>1. i \in DOMAIN o
      BY <1>5
    <3>. QED
      BY <1>6, <2>1, <3>1, Zenon
  <2>4. PICK n, e : n = o[i] /\ e = hs[i]
    OBVIOUS
  <2>5. n \in Names /\ e = NewHandle(n, i, ops)
    BY <2>2, <2>3, <2>4
  <2>6. /\ e \in Handles /\ e.name = n /\ e.ino = i /\ e.ops = ops /\ e.head = HeadOf(ops)
        /\ e.buf = << >> /\ e.q = << >> /\ ~e.closed /\ e.aof /\ ~e.mixed
    <3>1. ops \in Seq(Ops) /\ i \in Nat
      BY <2>1, <2>2
    <3>. QED
      BY <2>5, <3>1, NewHandleFacts
  <2>. QED
    BY <2>1, <2>4, <2>6
<1>13. hs \in Seq(Handles) /\ Len(hs) = c
  <2>1. hs = [i \in 1..c |-> hs[i]]
    <3>. DEFINE v(i) == NewHandle(o[i], i, << >>)
    <3>1. hs = [i \in DOMAIN o |-> v(i)]
      BY <1>6, Zenon
    <3>. HIDE DEF v
    <3>. QED
      BY <1>5, <3>1
  <2>2. hs \in [1..c -> Handles]
    BY <1>12, <2>1
  <2>. QED
    BY <1>4, <2>2, Listed
<1>14. ASSUME NEW i \in 1..c PROVE o[i] \in there /\ dir[o[i]] = i
  BY <1>4, <1>7
<1>15. TypeInv
  BY <1>2, <1>6, <1>9, <1>11, <1>13, IdleFacts DEF TypeInv
<1>16. \A n \in Names : dir[n] # 0 => dir[n] \in 1..c /\ o[dir[n]] = n
  BY <1>7, <1>8
<1>17. \A n \in Names : dir[n] <= c
  BY <1>4, <1>16
<1>18. Restarted
  <2>1. ASSUME NEW h \in 1..Len(hs)
        PROVE  /\ opened[hs[h].name] = h /\ hs[h].ino = dir[hs[h].name] /\ hs[h].ino \in 1..Len(files)
               /\ hs[h].ops = files[hs[h].ino] /\ Chained(hs[h].ops) /\ hs[h].head = HeadOf(hs[h].ops)
               /\ hs[h].buf = << >> /\ hs[h].q = << >>
               /\ ~hs[h].closed /\ hs[h].aof /\ ~hs[h].mixed
    <3>0. h \in 1..c
      BY <1>13
    <3>1. dir[o[h]] = h /\ opened = dir
      BY <1>6, <1>14, <3>0
    <3>2. files[h] = << >>
      BY <1>11, <3>0
    <3>3. /\ hs[h].name = o[h] /\ hs[h].ino = h /\ hs[h].ops = << >>
          /\ hs[h].head = HeadOf(<< >>) /\ hs[h].buf = << >> /\ hs[h].q = << >>
          /\ ~hs[h].closed /\ hs[h].aof /\ ~hs[h].mixed
      BY <1>12, <3>0
    <3>4. hs[h].ino \in 1..Len(files) /\ hs[h].ops = files[hs[h].ino]
      BY <1>11, <3>0, <3>2, <3>3
    <3>5. Chained(hs[h].ops) /\ hs[h].head = HeadOf(hs[h].ops)
      BY <1>10, <3>3
    <3>. QED
      BY <3>1, <3>3, <3>4, <3>5
  <2>2. \A n, m \in Names : dir[n] = dir[m] /\ dir[n] # 0 => n = m
    BY <1>16
  <2>3. \A n \in Names : opened[n] # 0 => opened[n] \in 1..Len(hs) /\ hs[opened[n]].name = n
    <3>1. \A n \in Names : dir[n] # 0 => dir[n] \in 1..Len(hs) /\ hs[dir[n]].name = n
      BY <1>12, <1>13, <1>16
    <3>2. opened = dir
      BY <1>6
    <3>. QED
      BY <3>1, <3>2
  <2>. QED
    BY <1>2, <1>11, <1>17, <2>1, <2>2, <2>3 DEF Restarted
<1>. QED
  BY <1>2, <1>15, <1>18

\* The log that a restart finds is the log that it opens, relinked where the chain is broken.
LEMMA BootFacts ==
  ASSUME TypeInv, Refs, Inodes, Boot
  PROVE  /\ TypeInv' /\ Restarted'
         /\ \A n \in Names : dir[n] = 0 => dir'[n] = 0
         /\ \A n \in Names : dir[n] # 0 => dir'[n] # 0 /\ Writes(files'[dir'[n]]) = Writes(files[dir[n]])
         /\ UNCHANGED <<rq, conn, nops, answered, removed, calm>>
<1>. DEFINE found  == {n \in Names : dir[n] # 0}
            broken == {n \in found : ~Chained(files[dir[n]])}
            order  == SetToSeq(found)
            fresh  == SetToSeq(broken)
            at(n)  == CHOOSE i \in 1..Len(order) : order[i] = n
            new(n) == CHOOSE i \in 1..Len(fresh) : fresh[i] = n
            ino(n) == IF \E i \in 1..Len(fresh) : fresh[i] = n THEN Len(files) + new(n) ELSE dir[n]
            heal(n) == Healed(files[dir[n]])
            more   == [i \in 1..Len(fresh) |-> heal(fresh[i])]
<1>1. /\ main = "down" /\ main' = "serving"
      /\ files' = files \o more
      /\ dir' = [n \in Names |-> IF n \in found THEN ino(n) ELSE 0]
      /\ hs' = [i \in 1..Len(order) |-> NewHandle(order[i], ino(order[i]), heal(order[i]))]
      /\ opened' = [n \in Names |-> IF n \in found THEN at(n) ELSE 0]
      /\ UNCHANGED <<rq, conn, nops, answered, removed, calm>>
  BY Zenon DEF Boot
<1>2. found \subseteq Names /\ broken \subseteq found /\ IsFiniteSet(found) /\ IsFiniteSet(broken)
  <2>1. found \subseteq Names /\ broken \subseteq found
    OBVIOUS
  <2>. HIDE DEF found, broken
  <2>2. IsFiniteSet(found)
    BY <2>1, DaemonAssumption, FS_Subset
  <2>3. IsFiniteSet(broken)
    BY <2>1, <2>2, FS_Subset
  <2>. QED
    BY <2>1, <2>2, <2>3
<1>3. ASSUME NEW n \in found
      PROVE  /\ n \in Names /\ dir[n] \in 1..Len(files) /\ files[dir[n]] \in Seq(Ops)
             /\ heal(n) \in Seq(Ops) /\ Chained(heal(n)) /\ Writes(heal(n)) = Writes(files[dir[n]])
             /\ n \notin broken => heal(n) = files[dir[n]]
  <2>1. n \in Names /\ dir[n] \in Nat /\ dir[n] # 0 /\ dir[n] <= Len(files) /\ Len(files) \in Nat
    BY LenProperties DEF TypeInv, Refs
  <2>2. dir[n] \in 1..Len(files)
    BY <2>1
  <2>3. files[dir[n]] \in Seq(Ops)
    BY <2>2, ElementOfSeq DEF TypeInv
  <2>. QED
    BY <2>1, <2>2, <2>3, HealedOps
<1>4. \A n, m \in found : dir[n] = dir[m] => n = m
  BY DEF Inodes
<1>5. \A n \in Names : dir[n] # 0 <=> n \in found
  OBVIOUS
<1>. HIDE DEF found, broken
<1>6. /\ Len(order) \in Nat /\ order \in [1..Len(order) -> found]
      /\ \A i, j \in 1..Len(order) : order[i] = order[j] => i = j
      /\ \A x \in found : \E i \in 1..Len(order) : order[i] = x
  BY <1>2, SetToSeqFacts
<1>7. /\ Len(fresh) \in Nat /\ fresh \in [1..Len(fresh) -> broken]
      /\ \A i, j \in 1..Len(fresh) : fresh[i] = fresh[j] => i = j
      /\ \A x \in broken : \E i \in 1..Len(fresh) : fresh[i] = x
  BY <1>2, SetToSeqFacts
<1>. HIDE DEF order, fresh
<1>8. ASSUME NEW n \in found PROVE at(n) \in 1..Len(order) /\ order[at(n)] = n
  BY <1>6, Zenon
<1>9. ASSUME NEW n \in broken
      PROVE  new(n) \in 1..Len(fresh) /\ fresh[new(n)] = n /\ ino(n) = Len(files) + new(n)
  <2>1. \E i \in 1..Len(fresh) : fresh[i] = n
    BY <1>7
  <2>. QED
    BY <2>1, Zenon
<1>10. ASSUME NEW n \in found, n \notin broken PROVE ino(n) = dir[n]
  <2>1. ~ \E i \in 1..Len(fresh) : fresh[i] = n
    BY <1>7, <1>10
  <2>. QED
    BY <2>1, Zenon
<1>. HIDE DEF at, new, ino, heal
<1>11. more \in Seq(Seq(Ops)) /\ Len(more) = Len(fresh) /\ \A i \in 1..Len(fresh) : more[i] = heal(fresh[i])
  <2>1. more \in [1..Len(fresh) -> Seq(Ops)] /\ \A i \in 1..Len(fresh) : more[i] = heal(fresh[i])
    BY <1>2, <1>3, <1>7
  <2>. HIDE DEF more
  <2>. QED
    BY <1>7, <2>1, Listed
<1>. HIDE DEF more
<1>12. /\ files' \in Seq(Seq(Ops)) /\ Len(files') = Len(files) + Len(fresh) /\ Len(files) \in Nat
       /\ \A i \in 1..(Len(files) + Len(fresh)) :
            files'[i] = IF i <= Len(files) THEN files[i] ELSE more[i - Len(files)]
  <2>1. files \in Seq(Seq(Ops)) /\ Len(files) \in Nat
    BY LenProperties DEF TypeInv
  <2>2. more \in Seq(Seq(Ops)) /\ Len(more) = Len(fresh)
    BY <1>11
  <2>3. /\ files \o more \in Seq(Seq(Ops)) /\ Len(files \o more) = Len(files) + Len(more)
        /\ \A i \in 1..(Len(files) + Len(more)) :
             (files \o more)[i] = IF i <= Len(files) THEN files[i] ELSE more[i - Len(files)]
    BY <2>1, <2>2, ConcatProperties
  <2>4. files' = files \o more
    BY <1>1
  <2>. QED
    BY <2>1, <2>2, <2>3, <2>4
<1>13. ASSUME NEW n \in found
       PROVE  ino(n) \in 1..Len(files') /\ files'[ino(n)] = heal(n)
  <2>1. CASE n \in broken
    <3>. DEFINE x == new(n)
    <3>1. x \in 1..Len(fresh) /\ fresh[x] = n /\ ino(n) = Len(files) + x
      BY <1>9, <2>1
    <3>. HIDE DEF x
    <3>2. /\ Len(files) + x \in 1..(Len(files) + Len(fresh)) /\ ~(Len(files) + x <= Len(files))
          /\ (Len(files) + x) - Len(files) = x
      BY <1>7, <1>12, <3>1
    <3>. QED
      BY <1>11, <1>12, <3>1, <3>2
  <2>2. CASE n \notin broken
    <3>1. ino(n) = dir[n] /\ dir[n] \in 1..Len(files) /\ heal(n) = files[dir[n]]
      BY <1>3, <1>10, <2>2
    <3>2. dir[n] <= Len(files) /\ dir[n] \in 1..(Len(files) + Len(fresh))
      BY <1>7, <1>12, <3>1
    <3>. QED
      BY <1>12, <3>1, <3>2
  <2>. QED
    BY <2>1, <2>2
<1>14. ASSUME NEW n \in found, NEW m \in found, ino(n) = ino(m) PROVE n = m
  <2>1. \A x \in broken : new(x) \in 1..Len(fresh) /\ fresh[new(x)] = x /\ ino(x) = Len(files) + new(x)
    BY <1>9
  <2>2. \A x \in found : x \notin broken => ino(x) = dir[x] /\ dir[x] \in 1..Len(files)
    BY <1>3, <1>10
  <2>3. CASE n \in broken /\ m \in broken
    <3>1. new(n) = new(m)
      <4>1. new(n) \in Nat /\ new(m) \in Nat /\ Len(files) + new(n) = Len(files) + new(m)
        BY <1>14, <2>1, <2>3
      <4>. QED
        BY <1>12, <4>1
    <3>. QED
      BY <2>1, <2>3, <3>1
  <2>4. ASSUME NEW x \in broken, NEW y \in found, y \notin broken PROVE ino(x) # ino(y)
    <3>1. new(x) \in 1..Len(fresh) /\ ino(x) = Len(files) + new(x)
      BY <2>1
    <3>2. ino(y) \in 1..Len(files)
      BY <2>2, <2>4
    <3>3. \A i \in 1..Len(fresh), j \in 1..Len(files) : Len(files) + i # j
      BY <1>7, <1>12
    <3>. QED
      BY <3>1, <3>2, <3>3
  <2>5. n \in broken <=> m \in broken
    BY <1>14, <2>4
  <2>6. CASE n \notin broken /\ m \notin broken
    BY <1>4, <1>14, <2>2, <2>6
  <2>. QED
    BY <2>3, <2>5, <2>6
<1>15. /\ dir' \in [Names -> Nat] /\ \A n \in found : dir'[n] = ino(n)
       /\ \A n \in Names : n \notin found => dir'[n] = 0
  BY <1>1, <1>2, <1>13
<1>16. /\ opened' \in [Names -> Nat] /\ \A n \in found : opened'[n] = at(n)
       /\ \A n \in Names : n \notin found => opened'[n] = 0
  BY <1>1, <1>2, <1>8
<1>17. ASSUME NEW i \in 1..Len(order)
       PROVE  /\ hs'[i] \in Handles /\ hs'[i].name = order[i] /\ hs'[i].ino = ino(order[i])
              /\ hs'[i].ops = heal(order[i]) /\ hs'[i].head = HeadOf(heal(order[i]))
              /\ hs'[i].buf = << >> /\ hs'[i].q = << >>
              /\ ~hs'[i].closed /\ hs'[i].aof /\ ~hs'[i].mixed
  <2>1. order[i] \in found
    BY <1>6
  <2>2. order[i] \in Names /\ ino(order[i]) \in Nat /\ heal(order[i]) \in Seq(Ops)
    BY <1>3, <1>13, <2>1
  <2>3. hs'[i] = NewHandle(order[i], ino(order[i]), heal(order[i]))
    BY <1>1, Zenon
  <2>. QED
    BY <2>2, <2>3, NewHandleFacts
<1>18. hs' \in Seq(Handles) /\ Len(hs') = Len(order)
  <2>1. hs' = [i \in 1..Len(order) |-> hs'[i]]
    BY <1>1, Zenon
  <2>2. hs' \in [1..Len(order) -> Handles]
    BY <1>17, <2>1
  <2>. QED
    BY <1>6, <2>2, Listed
<1>19. TypeInv'
  BY <1>1, <1>12, <1>15, <1>16, <1>18 DEF TypeInv
<1>20. Restarted'
  <2>1. ASSUME NEW h \in 1..Len(hs')
        PROVE  /\ opened'[hs'[h].name] = h /\ hs'[h].ino = dir'[hs'[h].name] /\ hs'[h].ino \in 1..Len(files')
               /\ hs'[h].ops = files'[hs'[h].ino] /\ Chained(hs'[h].ops) /\ hs'[h].head = HeadOf(hs'[h].ops)
               /\ hs'[h].buf = << >> /\ hs'[h].q = << >>
               /\ ~hs'[h].closed /\ hs'[h].aof /\ ~hs'[h].mixed
    <3>0. h \in 1..Len(order)
      BY <1>18
    <3>1. order[h] \in found
      BY <1>6, <3>0
    <3>2. at(order[h]) = h
      BY <1>6, <1>8, <3>0, <3>1
    <3>3. opened'[order[h]] = h /\ dir'[order[h]] = ino(order[h])
      BY <1>15, <1>16, <3>1, <3>2
    <3>4. Chained(heal(order[h])) /\ ino(order[h]) \in 1..Len(files') /\ files'[ino(order[h])] = heal(order[h])
      BY <1>3, <1>13, <3>1
    <3>. QED
      BY <1>17, <3>0, <3>3, <3>4
  <2>2. ASSUME NEW n \in Names, opened'[n] # 0 PROVE opened'[n] \in 1..Len(hs') /\ hs'[opened'[n]].name = n
    <3>1. n \in found
      BY <1>16, <2>2
    <3>2. opened'[n] = at(n) /\ at(n) \in 1..Len(order) /\ order[at(n)] = n
      BY <1>8, <1>16, <3>1
    <3>. QED
      BY <1>17, <1>18, <3>2
  <2>3. ASSUME NEW n \in Names PROVE dir'[n] <= Len(files')
    <3>1. CASE n \in found
      BY <1>13, <1>15, <3>1
    <3>2. CASE n \notin found
      BY <1>7, <1>12, <1>15, <3>2
    <3>. QED
      BY <3>1, <3>2
  <2>4. ASSUME NEW n \in Names, NEW m \in Names, dir'[n] = dir'[m], dir'[n] # 0 PROVE n = m
    <3>1. n \in found /\ m \in found
      BY <1>15, <2>4
    <3>. QED
      BY <1>14, <1>15, <2>4, <3>1
  <2>5. \A t \in Threads : rq'[t] = Idle /\ conn'[t] = 0
    BY <1>1 DEF Refs
  <2>. QED
    BY <1>1, <2>1, <2>2, <2>3, <2>4, <2>5 DEF Restarted
<1>21. ASSUME NEW n \in Names, dir[n] # 0
       PROVE  dir'[n] # 0 /\ Writes(files'[dir'[n]]) = Writes(files[dir[n]])
  <2>1. n \in found
    BY <1>5, <1>21
  <2>2. dir'[n] = ino(n) /\ ino(n) \in 1..Len(files') /\ files'[ino(n)] = heal(n)
    BY <1>13, <1>15, <2>1
  <2>. QED
    BY <1>3, <2>1, <2>2
<1>22. \A n \in Names : dir[n] = 0 => dir'[n] = 0
  BY <1>5, <1>15
<1>. QED
  BY <1>1, <1>19, <1>20, <1>21, <1>22

-----------------------------------------------------------------------------
(* Types and references.                                                    *)

LEMMA RestartedInv ==
  TypeInv /\ Restarted => Refs /\ Inodes /\ Chains /\ Queues /\ Closers /\ Unshared /\ Calmly /\ Pending
<1>. SUFFICES ASSUME TypeInv, Restarted
              PROVE  Refs /\ Inodes /\ Chains /\ Queues /\ Closers /\ Unshared /\ Calmly /\ Pending
  OBVIOUS
<1>1. \A t \in Threads : rq[t].pc = "idle" /\ rq[t].kind = "put"
  BY IdleFacts DEF Restarted
<1>2. \A h \in 1..Len(hs) : hs[h].name \in Names /\ hs[h].buf \in Seq(Ops) /\ hs[h].ops \in Seq(Ops)
  BY HandleType DEF Handles
<1>3. Refs
  <2>1. \A h \in 1..Len(hs) : hs[h].ino \in 1..Len(files)
    BY DEF Restarted
  <2>. QED
    BY <1>1, <2>1 DEF Refs, Restarted, Holding
<1>4. Inodes
  <2>1. ASSUME NEW h \in 1..Len(hs), NEW n \in Names, hs[h].ino = dir[n] PROVE hs[h].name = n
    <3>1. dir[hs[h].name] = dir[n] /\ hs[h].ino \in 1..Len(files) /\ hs[h].name \in Names
      BY <1>2, <2>1 DEF Restarted
    <3>2. dir[hs[h].name] # 0
      BY <2>1, <3>1
    <3>. QED
      BY <3>1, <3>2 DEF Restarted
  <2>. QED
    BY <2>1 DEF Inodes, Restarted
<1>5. Chains
  BY <1>1 DEF Chains, Restarted, InAppend
<1>6. Queues /\ Closers /\ Unshared /\ Pending
  BY <1>1 DEF Queues, Closers, Unshared, Pending, Restarted, Committing
<1>7. ASSUME NEW n \in Names PROVE Solo(n) /\ Steps(n) /\ Tabled(n) /\ Leaving(n) /\ Contents(n)
  <2>1. Solo(n) /\ Steps(n)
    BY <1>1 DEF Solo, Steps, StepsAt, At, Critical
  <2>2. Tabled(n) /\ Leaving(n)
    BY <1>2 DEF Tabled, Leaving, Restarted
  <2>3. Contents(n)
    <3>1. ASSUME NEW h \in 1..Len(hs) PROVE hs[h].aof /\ hs[h].ops = files[hs[h].ino] \o hs[h].buf
      <4>1. hs[h].aof /\ hs[h].ops = files[hs[h].ino] /\ hs[h].buf = << >> /\ hs[h].ops \in Seq(Ops)
        BY <1>2 DEF Restarted
      <4>. QED
        BY <4>1, ConcatEmptySeq
    <3>. QED
      BY <3>1 DEF Contents
  <2>. QED
    BY <2>1, <2>2, <2>3
<1>8. Calmly
  BY <1>7 DEF Calmly, Ordered
<1>. QED
  BY <1>3, <1>4, <1>5, <1>6, <1>8

LEMMA TypeStep ==
  ASSUME TypeInv, Refs, Inodes, Queues, Closers, Next
  PROVE  TypeInv'
<1>1. ASSUME NEW t \in Threads, NEW kind \in Kinds, NEW n \in Names, Begin(t, kind, n) PROVE TypeInv'
  BY <1>1, BeginFacts DEF TypeInv
<1>2. ASSUME NEW t \in Threads, Select(t) PROVE TypeInv'
  BY <1>2, SelectFacts DEF TypeInv
<1>3. ASSUME NEW t \in Threads, CheckExists(t) PROVE TypeInv'
  BY <1>3, CheckExistsFacts DEF TypeInv
<1>4. ASSUME NEW t \in Threads, OpenTest(t) PROVE TypeInv'
  BY <1>4, OpenTestFacts DEF TypeInv, Marks
<1>5. ASSUME NEW t \in Threads, Load(t) PROVE TypeInv'
  BY <1>5, LoadFacts DEF TypeInv
<1>6. ASSUME NEW t \in Threads, Register(t) PROVE TypeInv'
  BY <1>6, RegisterFacts DEF TypeInv
<1>7. ASSUME NEW t \in Threads, Lookup(t) PROVE TypeInv'
  BY <1>7, LookupFacts DEF TypeInv
<1>8. ASSUME NEW t \in Threads, Submit(t) PROVE TypeInv'
  BY <1>8, SubmitFacts DEF TypeInv
<1>9. ASSUME NEW t \in Threads, TakeNonce(t) PROVE TypeInv'
  BY <1>9, TakeNonceFacts DEF TypeInv
<1>10. ASSUME NEW t \in Threads, ReadHead(t) PROVE TypeInv'
  BY <1>10, ReadHeadFacts DEF TypeInv
<1>11. ASSUME NEW t \in Threads, AppendOp(t) PROVE TypeInv'
  <2>1. answered' \in SUBSET Answers
    <3>1. Noted(t, TRUE) \in Answers
      <4>1. rq[t].pc \in Holding
        BY <1>11 DEF AppendOp, Holding
      <4>. QED
        BY <4>1, NotedFacts
    <3>2. answered' \subseteq answered \cup {Noted(t, TRUE)}
      BY <1>11, AppendOpFacts
    <3>. QED
      BY <3>1, <3>2 DEF TypeInv
  <2>. QED
    BY <1>11, <2>1, AppendOpFacts DEF TypeInv
<1>12. ASSUME NEW t \in Threads, FlushAndWake(t) PROVE TypeInv'
  <2>1. rq[t].h \in 1..Len(hs) /\ Flushed(rq[t].h) /\ dir' = dir
    BY <1>12, InHand, FlushAndWakeFacts DEF FlushAndWake, Holding
  <2>2. files' \in Seq(Seq(Ops)) /\ Len(files') = Len(files)
    BY <2>1, FlushedFacts
  <2>3. answered' \in SUBSET Answers
    <3>1. Noted(t, FALSE) \in Answers
      <4>1. rq[t].pc \in Holding
        BY <1>12 DEF FlushAndWake, Holding
      <4>. QED
        BY <4>1, NotedFacts
    <3>2. answered' \subseteq answered \cup {Noted(t, FALSE)}
      BY <1>12, FlushAndWakeFacts
    <3>3. answered \subseteq Answers
      BY DEF TypeInv
    <3>. QED
      BY <3>1, <3>2, <3>3
  <2>4. /\ rq' \in [Threads -> Requests] /\ hs' \in Seq(Handles)
        /\ UNCHANGED <<opened, conn, nops, main, calm>>
    BY <1>12, FlushAndWakeFacts
  <2>. QED
    BY <2>1, <2>2, <2>3, <2>4 DEF TypeInv
<1>13. ASSUME NEW t \in Threads, DropClose(t) PROVE TypeInv'
  <2>1. hs' = hs \/ hs' \in Seq(Handles)
    BY <1>13, DropCloseFacts DEF Closes
  <2>2. /\ rq' \in [Threads -> Requests] /\ calm' \in [Names -> BOOLEAN]
        /\ UNCHANGED <<dir, files, opened, conn, nops, main, answered>>
    BY <1>13, DropCloseFacts DEF Marks
  <2>. QED
    BY <2>1, <2>2 DEF TypeInv
<1>14. ASSUME NEW t \in Threads, Join(t) PROVE TypeInv'
  <2>1. rq[t].h \in 1..Len(hs) /\ Flushed(rq[t].h) /\ dir' = dir
    BY <1>14, InHand, JoinFacts DEF Join, Holding
  <2>2. files' \in Seq(Seq(Ops)) /\ Len(files') = Len(files)
    BY <2>1, FlushedFacts
  <2>. QED
    BY <1>14, <2>2, JoinFacts DEF TypeInv
<1>15. ASSUME NEW t \in Threads, Del(t) PROVE TypeInv'
  BY <1>15, DelFacts DEF TypeInv
<1>16. ASSUME NEW t \in Threads, Rmtree(t) PROVE TypeInv'
  BY <1>16, RmtreeFacts DEF TypeInv
<1>17. ASSUME NEW t \in Threads, NEW kind \in Kinds, Walk(t, kind) PROVE TypeInv'
  BY <1>17, WalkFacts DEF TypeInv
<1>18. ASSUME NEW t \in Threads, NEW n \in Names, Visit(t, n) PROVE TypeInv'
  <2>1. hs' = hs \/ hs' \in Seq(Handles)
    BY <1>18, VisitFacts DEF Closes
  <2>2. rq' \in [Threads -> Requests] /\ UNCHANGED <<dir, files, opened, conn, nops, main, answered, calm>>
    BY <1>18, VisitFacts
  <2>. QED
    BY <2>1, <2>2 DEF TypeInv
<1>19. ASSUME NEW t \in Threads, Walked(t) PROVE TypeInv'
  BY <1>19, WalkedFacts DEF TypeInv
<1>20. ASSUME Exit PROVE TypeInv'
  <2>1. hs' \in Seq(Handles)
    BY <1>20, EmptySeq DEF Exit
  <2>2. opened' \in [Names -> Nat] /\ conn' \in [Threads -> Nat] /\ rq' \in [Threads -> Requests]
    BY <1>20, ExitFacts, IdleFacts
  <2>3. /\ files' \in Seq(Seq(Ops)) /\ main' = "down" /\ answered' \in SUBSET Answers
        /\ UNCHANGED <<dir, nops, calm>>
    BY <1>20, ExitFacts
  <2>. QED
    BY <2>1, <2>2, <2>3 DEF TypeInv
<1>21. ASSUME Boot PROVE TypeInv'
  BY <1>21, BootFacts DEF TypeInv
<1>. QED
  BY <1>1, <1>2, <1>3, <1>4, <1>5, <1>6, <1>7, <1>8, <1>9, <1>10, <1>11, <1>12, <1>13, <1>14, <1>15, <1>16, <1>17, <1>18, <1>19, <1>20, <1>21 DEF Next, Serve

\* The Sequencers keep their databases and files.
SameNames ==
  /\ Len(hs') = Len(hs)
  /\ \A g \in 1..Len(hs) : hs'[g].name = hs[g].name /\ hs'[g].ino = hs[g].ino

\* The table, the connections and the request's hand hold Sequencers that there are.
LEMMA RefsFrame ==
  ASSUME TypeInv, Refs, NEW t \in Threads, SameRq(t), SameNames,
         main # "down", main' # "down", Len(files') = Len(files),
         \A n \in Names : dir'[n] <= Len(files),
         \A n \in Names : opened'[n] # 0 => opened'[n] \in 1..Len(hs) /\ hs[opened'[n]].name = n,
         \A u \in Threads : conn'[u] # 0 => conn'[u] \in 1..Len(hs),
         rq'[t].pc \in Holding => rq'[t].h \in 1..Len(hs) /\ hs[rq'[t].h].name = rq'[t].name
  PROVE  Refs'
<1>1. ASSUME NEW u \in Threads, rq'[u].pc \in Holding
      PROVE  rq'[u].h \in 1..Len(hs) /\ hs[rq'[u].h].name = rq'[u].name
  <2>1. CASE u = t
    BY <1>1, <2>1
  <2>2. CASE u # t
    <3>1. rq'[u] = rq[u]
      BY <2>2 DEF SameRq
    <3>. QED
      BY <1>1, <3>1 DEF Refs
  <2>. QED
    BY <2>1, <2>2
<1>2. \A h \in 1..Len(hs) : hs[h].ino \in 1..Len(files)
  BY DEF Refs
<1>3. Len(hs') = Len(hs)
  BY DEF SameNames
<1>4. \A g \in 1..Len(hs) : hs'[g].name = hs[g].name /\ hs'[g].ino = hs[g].ino
  BY DEF SameNames
<1>. QED
  BY <1>1, <1>2, <1>3, <1>4 DEF Refs

LEMMA OneHandle ==
  ASSUME NEW h, SameHs(h), SameFile(h)
  PROVE  SameNames
  BY DEF SameHs, SameFile, SameNames

LEMMA RefsNow ==
  ASSUME TypeInv, Refs
  PROVE  /\ \A n \in Names : dir[n] <= Len(files)
         /\ \A n \in Names : opened[n] # 0 => opened[n] \in 1..Len(hs) /\ hs[opened[n]].name = n
         /\ \A u \in Threads : conn[u] # 0 => conn[u] \in 1..Len(hs)
         /\ \A u \in Threads : rq[u].name \in Names
  BY DEF Refs, TypeInv, Requests

LEMMA RefsStep ==
  ASSUME TypeInv, Refs, Inodes, Queues, Closers, TypeInv', Next
  PROVE  Refs'
<1>1. ASSUME NEW t \in Threads, NEW kind \in Kinds, NEW n \in Names, Begin(t, kind, n) PROVE Refs'
  <2>1. SameNames
    BY <1>1, BeginFacts DEF SameNames
  <2>2. SameRq(t) /\ main # "down" /\ main' # "down" /\ Len(files') = Len(files)
    BY <1>1, BeginFacts
  <2>3. /\ \A m \in Names : dir'[m] <= Len(files)
        /\ \A m \in Names : opened'[m] # 0 => opened'[m] \in 1..Len(hs) /\ hs[opened'[m]].name = m
        /\ \A u \in Threads : conn'[u] # 0 => conn'[u] \in 1..Len(hs)
    BY <1>1, RefsNow, BeginFacts
  <2>4. rq'[t].pc \in Holding => rq'[t].h \in 1..Len(hs) /\ hs[rq'[t].h].name = rq'[t].name
    BY <1>1, RefsNow, BeginFacts DEF Holding, SameJob, Rests
  <2>. QED
    BY <2>1, <2>2, <2>3, <2>4, RefsFrame
<1>2. ASSUME NEW t \in Threads, Select(t) PROVE Refs'
  BY <1>2, SelectFacts DEF Refs
<1>3. ASSUME NEW t \in Threads, CheckExists(t) PROVE Refs'
  <2>1. SameNames
    BY <1>3, CheckExistsFacts DEF SameNames
  <2>2. SameRq(t) /\ main # "down" /\ main' # "down" /\ Len(files') = Len(files)
    BY <1>3, CheckExistsFacts
  <2>3. /\ \A m \in Names : dir'[m] <= Len(files)
        /\ \A m \in Names : opened'[m] # 0 => opened'[m] \in 1..Len(hs) /\ hs[opened'[m]].name = m
        /\ \A u \in Threads : conn'[u] # 0 => conn'[u] \in 1..Len(hs)
    BY <1>3, RefsNow, CheckExistsFacts
  <2>4. rq'[t].pc \in Holding => rq'[t].h \in 1..Len(hs) /\ hs[rq'[t].h].name = rq'[t].name
    BY <1>3, RefsNow, CheckExistsFacts DEF Holding, SameJob, Rests
  <2>. QED
    BY <2>1, <2>2, <2>3, <2>4, RefsFrame
<1>4. ASSUME NEW t \in Threads, OpenTest(t) PROVE Refs'
  <2>1. SameNames
    BY <1>4, OpenTestFacts DEF SameNames
  <2>2. SameRq(t) /\ main # "down" /\ main' # "down" /\ Len(files') = Len(files)
    BY <1>4, OpenTestFacts
  <2>3. /\ \A m \in Names : dir'[m] <= Len(files)
        /\ \A m \in Names : opened'[m] # 0 => opened'[m] \in 1..Len(hs) /\ hs[opened'[m]].name = m
        /\ \A u \in Threads : conn'[u] # 0 => conn'[u] \in 1..Len(hs)
    BY <1>4, RefsNow, OpenTestFacts
  <2>4. rq'[t].pc \in Holding => rq'[t].h \in 1..Len(hs) /\ hs[rq'[t].h].name = rq'[t].name
    BY <1>4, RefsNow, OpenTestFacts DEF Holding, SameJob, Rests
  <2>. QED
    BY <2>1, <2>2, <2>3, <2>4, RefsFrame
<1>5. ASSUME NEW t \in Threads, Load(t) PROVE Refs'
  <2>. DEFINE k == Len(hs) + 1
              m == rq[t].name
  <2>0. Len(hs) \in Nat /\ Len(files) \in Nat /\ m \in Names
    BY LenProperties, RefsNow DEF TypeInv
  <2>1. /\ Len(hs') = k /\ hs'[k].name = m /\ hs'[k].ino = dir'[m]
        /\ \A g \in 1..Len(hs) : hs'[g] = hs[g]
        /\ rq'[t].h = k /\ rq'[t].name = m /\ SameRq(t) /\ main' # "down"
        /\ opened' = opened /\ conn' = conn
    BY <1>5, LoadFacts
  <2>2. /\ Len(files') \in Nat /\ Len(files) <= Len(files') /\ dir'[m] \in 1..Len(files')
        /\ \A n \in Names : n # m => dir'[n] = dir[n]
    <3>1. \/ dir'[m] = dir[m] /\ dir'[m] # 0 /\ files' = files
          \/ dir'[m] = Len(files) + 1 /\ Len(files') = Len(files) + 1
      BY <1>5, LoadFacts
    <3>2. dir[m] \in Nat /\ dir[m] <= Len(files)
      BY <2>0, RefsNow DEF TypeInv
    <3>3. \A n \in Names : n # m => dir'[n] = dir[n]
      BY <1>5, LoadFacts
    <3>. QED
      BY <2>0, <3>1, <3>2, <3>3
  <2>3. \A n \in Names : dir'[n] <= Len(files')
    <3>1. \A n \in Names : dir[n] \in Nat /\ dir[n] <= Len(files)
      BY RefsNow DEF TypeInv
    <3>. QED
      BY <2>0, <2>2, <3>1
  <2>4. \A h \in 1..Len(hs') : h \in 1..Len(hs) \/ h = k
    BY <2>0, <2>1
  <2>5. 1..Len(hs) \subseteq 1..Len(hs') /\ k \in 1..Len(hs')
    BY <2>0, <2>1
  <2>6. 1..Len(files) \subseteq 1..Len(files')
    BY <2>0, <2>2
  <2>. HIDE DEF k, m
  <2>7. \A h \in 1..Len(hs') : hs'[h].ino \in 1..Len(files')
    BY <2>1, <2>2, <2>4, <2>6 DEF Refs
  <2>8. \A u \in Threads : rq'[u].pc \in Holding =>
          rq'[u].h \in 1..Len(hs') /\ hs'[rq'[u].h].name = rq'[u].name
    BY <2>1, <2>5 DEF Refs, SameRq
  <2>9. /\ \A n \in Names : opened'[n] # 0 => opened'[n] \in 1..Len(hs') /\ hs'[opened'[n]].name = n
        /\ \A u \in Threads : conn'[u] # 0 => conn'[u] \in 1..Len(hs')
    BY <2>1, <2>5 DEF Refs
  <2>. QED
    BY <2>1, <2>3, <2>7, <2>8, <2>9 DEF Refs
<1>6. ASSUME NEW t \in Threads, Register(t) PROVE Refs'
  <2>1. SameNames
    BY <1>6, RegisterFacts DEF SameNames
  <2>2. SameRq(t) /\ main # "down" /\ main' # "down" /\ Len(files') = Len(files)
    BY <1>6, RegisterFacts
  <2>3. /\ \A m \in Names : dir'[m] <= Len(files)
        /\ \A m \in Names : opened'[m] # 0 => opened'[m] \in 1..Len(hs) /\ hs[opened'[m]].name = m
        /\ \A u \in Threads : conn'[u] # 0 => conn'[u] \in 1..Len(hs)
    BY <1>6, RefsNow, RegisterFacts, InHand DEF Holding
  <2>4. rq'[t].pc \in Holding => rq'[t].h \in 1..Len(hs) /\ hs[rq'[t].h].name = rq'[t].name
    BY <1>6, RefsNow, RegisterFacts DEF Holding, SameJob, Rests
  <2>. QED
    BY <2>1, <2>2, <2>3, <2>4, RefsFrame
<1>7. ASSUME NEW t \in Threads, Lookup(t) PROVE Refs'
  <2>1. SameNames
    BY <1>7, LookupFacts DEF SameNames
  <2>2. SameRq(t) /\ main # "down" /\ main' # "down" /\ Len(files') = Len(files)
    BY <1>7, LookupFacts
  <2>3. /\ \A m \in Names : dir'[m] <= Len(files)
        /\ \A m \in Names : opened'[m] # 0 => opened'[m] \in 1..Len(hs) /\ hs[opened'[m]].name = m
        /\ \A u \in Threads : conn'[u] # 0 => conn'[u] \in 1..Len(hs)
    BY <1>7, RefsNow, LookupFacts
  <2>4. rq'[t].pc \in Holding => rq'[t].h \in 1..Len(hs) /\ hs[rq'[t].h].name = rq'[t].name
    BY <1>7, RefsNow, LookupFacts DEF Holding, SameJob, Rests
  <2>. QED
    BY <2>1, <2>2, <2>3, <2>4, RefsFrame
<1>8. ASSUME NEW t \in Threads, Submit(t) PROVE Refs'
  <2>1. SameNames
    BY <1>8, SubmitFacts, OneHandle DEF SameNames
  <2>2. SameRq(t) /\ main # "down" /\ main' # "down" /\ Len(files') = Len(files)
    BY <1>8, SubmitFacts
  <2>3. /\ \A m \in Names : dir'[m] <= Len(files)
        /\ \A m \in Names : opened'[m] # 0 => opened'[m] \in 1..Len(hs) /\ hs[opened'[m]].name = m
        /\ \A u \in Threads : conn'[u] # 0 => conn'[u] \in 1..Len(hs)
    BY <1>8, RefsNow, SubmitFacts
  <2>4. rq'[t].pc \in Holding => rq'[t].h \in 1..Len(hs) /\ hs[rq'[t].h].name = rq'[t].name
    BY <1>8, RefsNow, SubmitFacts, InHand DEF Holding, SameJob, Rests, Submit
  <2>. QED
    BY <2>1, <2>2, <2>3, <2>4, RefsFrame
<1>9. ASSUME NEW t \in Threads, TakeNonce(t) PROVE Refs'
  <2>1. SameNames
    BY <1>9, TakeNonceFacts, OneHandle
  <2>2. SameRq(t) /\ main # "down" /\ main' # "down" /\ Len(files') = Len(files)
    BY <1>9, TakeNonceFacts
  <2>3. /\ \A m \in Names : dir'[m] <= Len(files)
        /\ \A m \in Names : opened'[m] # 0 => opened'[m] \in 1..Len(hs) /\ hs[opened'[m]].name = m
        /\ \A u \in Threads : conn'[u] # 0 => conn'[u] \in 1..Len(hs)
    BY <1>9, RefsNow, TakeNonceFacts
  <2>4. rq'[t].pc \in Holding => rq'[t].h \in 1..Len(hs) /\ hs[rq'[t].h].name = rq'[t].name
    BY <1>9, RefsNow, TakeNonceFacts, InHand DEF Holding, SameJob, Rests
  <2>. QED
    BY <2>1, <2>2, <2>3, <2>4, RefsFrame
<1>10. ASSUME NEW t \in Threads, ReadHead(t) PROVE Refs'
  <2>1. SameNames
    BY <1>10, ReadHeadFacts DEF SameNames
  <2>2. SameRq(t) /\ main # "down" /\ main' # "down" /\ Len(files') = Len(files)
    BY <1>10, ReadHeadFacts
  <2>3. /\ \A m \in Names : dir'[m] <= Len(files)
        /\ \A m \in Names : opened'[m] # 0 => opened'[m] \in 1..Len(hs) /\ hs[opened'[m]].name = m
        /\ \A u \in Threads : conn'[u] # 0 => conn'[u] \in 1..Len(hs)
    BY <1>10, RefsNow, ReadHeadFacts
  <2>4. rq'[t].pc \in Holding => rq'[t].h \in 1..Len(hs) /\ hs[rq'[t].h].name = rq'[t].name
    BY <1>10, RefsNow, ReadHeadFacts, InHand DEF Holding, SameJob, Rests
  <2>. QED
    BY <2>1, <2>2, <2>3, <2>4, RefsFrame
<1>11. ASSUME NEW t \in Threads, AppendOp(t) PROVE Refs'
  <2>1. SameNames
    BY <1>11, AppendOpFacts, OneHandle
  <2>2. SameRq(t) /\ main # "down" /\ main' # "down" /\ Len(files') = Len(files)
    BY <1>11, AppendOpFacts
  <2>3. /\ \A m \in Names : dir'[m] <= Len(files)
        /\ \A m \in Names : opened'[m] # 0 => opened'[m] \in 1..Len(hs) /\ hs[opened'[m]].name = m
        /\ \A u \in Threads : conn'[u] # 0 => conn'[u] \in 1..Len(hs)
    BY <1>11, RefsNow, AppendOpFacts
  <2>4. rq'[t].pc \in Holding => rq'[t].h \in 1..Len(hs) /\ hs[rq'[t].h].name = rq'[t].name
    <3>1. rq[t].h \in 1..Len(hs) /\ hs[rq[t].h].name = rq[t].name
      BY <1>11, InHand DEF AppendOp, Holding
    <3>2. Rests(t) \/ SameJob(t)
      BY <1>11, AppendOpFacts
    <3>3. Rests(t) => rq'[t].pc \notin Holding
      BY DEF Rests, Holding
    <3>. QED
      BY <3>1, <3>2, <3>3 DEF SameJob
  <2>. QED
    BY <2>1, <2>2, <2>3, <2>4, RefsFrame
<1>12. ASSUME NEW t \in Threads, FlushAndWake(t) PROVE Refs'
  <2>1. SameNames
    BY <1>12, FlushAndWakeFacts, OneHandle
  <2>2. SameRq(t) /\ main # "down" /\ main' # "down" /\ Len(files') = Len(files)
    BY <1>12, FlushAndWakeFacts, InHand, FlushedFacts DEF Holding
  <2>3. /\ \A m \in Names : dir'[m] <= Len(files)
        /\ \A m \in Names : opened'[m] # 0 => opened'[m] \in 1..Len(hs) /\ hs[opened'[m]].name = m
        /\ \A u \in Threads : conn'[u] # 0 => conn'[u] \in 1..Len(hs)
    <3>1. dir' = dir /\ opened' = opened /\ conn' = conn
      BY <1>12, FlushAndWakeFacts
    <3>. QED
      BY <3>1, RefsNow
  <2>4. rq'[t].pc \in Holding => rq'[t].h \in 1..Len(hs) /\ hs[rq'[t].h].name = rq'[t].name
    <3>1. rq'[t].pc \in Holding => rq'[t].name = rq[t].name /\ rq'[t].h = rq[t].h
      BY <1>12, FlushAndWakeFacts DEF Holding, Rests
    <3>2. rq[t].pc \in Holding
      BY <1>12 DEF FlushAndWake, Holding
    <3>. QED
      BY <3>1, <3>2, InHand
  <2>. QED
    BY <2>1, <2>2, <2>3, <2>4, RefsFrame
<1>13. ASSUME NEW t \in Threads, DropClose(t) PROVE Refs'
  <2>1. SameNames
    BY <1>13, DropCloseFacts, OneHandle DEF SameNames, Closes
  <2>2. SameRq(t) /\ main # "down" /\ main' # "down" /\ Len(files') = Len(files)
    BY <1>13, DropCloseFacts
  <2>3. /\ \A m \in Names : dir'[m] <= Len(files)
        /\ \A m \in Names : opened'[m] # 0 => opened'[m] \in 1..Len(hs) /\ hs[opened'[m]].name = m
        /\ \A u \in Threads : conn'[u] # 0 => conn'[u] \in 1..Len(hs)
    BY <1>13, RefsNow, DropCloseFacts
  <2>4. rq'[t].pc \in Holding => rq'[t].h \in 1..Len(hs) /\ hs[rq'[t].h].name = rq'[t].name
    BY <1>13, RefsNow, DropCloseFacts DEF Holding, SameJob, Rests
  <2>. QED
    BY <2>1, <2>2, <2>3, <2>4, RefsFrame
<1>14. ASSUME NEW t \in Threads, Join(t) PROVE Refs'
  <2>1. SameNames
    BY <1>14, JoinFacts, OneHandle
  <2>2. SameRq(t) /\ main # "down" /\ main' # "down" /\ Len(files') = Len(files)
    BY <1>14, JoinFacts, InHand, FlushedFacts DEF Holding
  <2>3. /\ \A m \in Names : dir'[m] <= Len(files)
        /\ \A m \in Names : opened'[m] # 0 => opened'[m] \in 1..Len(hs) /\ hs[opened'[m]].name = m
        /\ \A u \in Threads : conn'[u] # 0 => conn'[u] \in 1..Len(hs)
    BY <1>14, RefsNow, JoinFacts
  <2>4. rq'[t].pc \in Holding => rq'[t].h \in 1..Len(hs) /\ hs[rq'[t].h].name = rq'[t].name
    BY <1>14, RefsNow, JoinFacts, InHand DEF Holding, SameJob, Rests
  <2>. QED
    BY <2>1, <2>2, <2>3, <2>4, RefsFrame
<1>15. ASSUME NEW t \in Threads, Del(t) PROVE Refs'
  <2>1. SameNames
    BY <1>15, DelFacts DEF SameNames
  <2>2. SameRq(t) /\ main # "down" /\ main' # "down" /\ Len(files') = Len(files)
    BY <1>15, DelFacts
  <2>3. /\ \A m \in Names : dir'[m] <= Len(files)
        /\ \A m \in Names : opened'[m] # 0 => opened'[m] \in 1..Len(hs) /\ hs[opened'[m]].name = m
        /\ \A u \in Threads : conn'[u] # 0 => conn'[u] \in 1..Len(hs)
    BY <1>15, RefsNow, DelFacts
  <2>4. rq'[t].pc \in Holding => rq'[t].h \in 1..Len(hs) /\ hs[rq'[t].h].name = rq'[t].name
    BY <1>15, RefsNow, DelFacts DEF Holding, SameJob, Rests
  <2>. QED
    BY <2>1, <2>2, <2>3, <2>4, RefsFrame
<1>16. ASSUME NEW t \in Threads, Rmtree(t) PROVE Refs'
  <2>1. SameNames
    BY <1>16, RmtreeFacts DEF SameNames
  <2>2. SameRq(t) /\ main # "down" /\ main' # "down" /\ Len(files') = Len(files)
    BY <1>16, RmtreeFacts
  <2>3. /\ \A m \in Names : dir'[m] <= Len(files)
        /\ \A m \in Names : opened'[m] # 0 => opened'[m] \in 1..Len(hs) /\ hs[opened'[m]].name = m
        /\ \A u \in Threads : conn'[u] # 0 => conn'[u] \in 1..Len(hs)
    <3>1. opened' = opened /\ conn' = conn /\ \A m \in Names : dir'[m] = dir[m] \/ dir'[m] = 0
      BY <1>16, RmtreeFacts
    <3>2. Len(files) \in Nat
      BY LenProperties DEF TypeInv
    <3>. QED
      BY <3>1, <3>2, RefsNow
  <2>4. rq'[t].pc \in Holding => rq'[t].h \in 1..Len(hs) /\ hs[rq'[t].h].name = rq'[t].name
    BY <1>16, RefsNow, RmtreeFacts DEF Holding, SameJob, Rests
  <2>. QED
    BY <2>1, <2>2, <2>3, <2>4, RefsFrame
<1>17. ASSUME NEW t \in Threads, NEW kind \in Kinds, Walk(t, kind) PROVE Refs'
  <2>1. SameNames
    BY <1>17, WalkFacts DEF SameNames
  <2>2. SameRq(t) /\ main # "down" /\ main' # "down" /\ Len(files') = Len(files)
    BY <1>17, WalkFacts
  <2>3. /\ \A m \in Names : dir'[m] <= Len(files)
        /\ \A m \in Names : opened'[m] # 0 => opened'[m] \in 1..Len(hs) /\ hs[opened'[m]].name = m
        /\ \A u \in Threads : conn'[u] # 0 => conn'[u] \in 1..Len(hs)
    BY <1>17, RefsNow, WalkFacts
  <2>4. rq'[t].pc \in Holding => rq'[t].h \in 1..Len(hs) /\ hs[rq'[t].h].name = rq'[t].name
    BY <1>17, RefsNow, WalkFacts DEF Holding, SameJob, Rests
  <2>. QED
    BY <2>1, <2>2, <2>3, <2>4, RefsFrame
<1>18. ASSUME NEW t \in Threads, NEW n \in Names, Visit(t, n) PROVE Refs'
  <2>1. SameNames
    BY <1>18, VisitFacts, OneHandle DEF SameNames, Closes
  <2>2. SameRq(t) /\ main # "down" /\ main' # "down" /\ Len(files') = Len(files)
    BY <1>18, VisitFacts
  <2>3. /\ \A m \in Names : dir'[m] <= Len(files)
        /\ \A m \in Names : opened'[m] # 0 => opened'[m] \in 1..Len(hs) /\ hs[opened'[m]].name = m
        /\ \A u \in Threads : conn'[u] # 0 => conn'[u] \in 1..Len(hs)
    BY <1>18, RefsNow, VisitFacts
  <2>4. rq'[t].pc \in Holding => rq'[t].h \in 1..Len(hs) /\ hs[rq'[t].h].name = rq'[t].name
    BY <1>18, RefsNow, VisitFacts DEF Holding, SameJob, Rests
  <2>. QED
    BY <2>1, <2>2, <2>3, <2>4, RefsFrame
<1>19. ASSUME NEW t \in Threads, Walked(t) PROVE Refs'
  <2>1. SameNames
    BY <1>19, WalkedFacts DEF SameNames
  <2>2. SameRq(t) /\ main # "down" /\ main' # "down" /\ Len(files') = Len(files)
    BY <1>19, WalkedFacts
  <2>3. /\ \A m \in Names : dir'[m] <= Len(files)
        /\ \A m \in Names : opened'[m] # 0 => opened'[m] \in 1..Len(hs) /\ hs[opened'[m]].name = m
        /\ \A u \in Threads : conn'[u] # 0 => conn'[u] \in 1..Len(hs)
    BY <1>19, RefsNow, WalkedFacts
  <2>4. rq'[t].pc \in Holding => rq'[t].h \in 1..Len(hs) /\ hs[rq'[t].h].name = rq'[t].name
    BY <1>19, RefsNow, WalkedFacts DEF Holding, SameJob, Rests
  <2>. QED
    BY <2>1, <2>2, <2>3, <2>4, RefsFrame
<1>20. ASSUME Exit PROVE Refs'
  <2>1. hs' = << >> /\ 1..Len(hs') = {}
    BY <1>20, ExitFacts
  <2>2. /\ \A n \in Names : opened'[n] = 0 /\ dir'[n] <= Len(files')
        /\ \A u \in Threads : rq'[u] = Idle /\ conn'[u] = 0 /\ rq'[u].pc \notin Holding
    BY <1>20, ExitFacts, RefsNow, IdleFacts DEF Holding
  <2>. QED
    BY <2>1, <2>2 DEF Refs
<1>21. ASSUME Boot PROVE Refs'
  BY <1>21, BootFacts, RestartedInv, PTL
<1>. QED
  BY <1>1, <1>2, <1>3, <1>4, <1>5, <1>6, <1>7, <1>8, <1>9, <1>10, <1>11, <1>12, <1>13, <1>14, <1>15, <1>16, <1>17, <1>18, <1>19, <1>20, <1>21 DEF Next, Serve

-----------------------------------------------------------------------------
(* Closers and queues.                                                      *)

LEMMA ClosersFrame ==
  ASSUME TypeInv, Closers, NEW t \in Threads, SameRq(t), main' = main,
         rq'[t].pc \in {"close", "del", "rmtree"} => rq'[t].kind = "drop",
         rq'[t].pc = "join" => rq'[t].kind \in {"drop", "close"},
         rq'[t].pc = "next" => rq'[t].kind \in Walks,
         rq'[t].kind \in {"stop", "close"} => rq[t].kind \in {"stop", "close"}
  PROVE  Closers'
  BY DEF Closers, SameRq

LEMMA ClosersStep ==
  ASSUME TypeInv, Refs, Inodes, Queues, Closers, TypeInv', Next
  PROVE  Closers'
<1>1. ASSUME NEW t \in Threads, NEW kind \in Kinds, NEW n \in Names, Begin(t, kind, n) PROVE Closers'
  BY <1>1, BeginFacts, ClosersFrame DEF Walks
<1>2. ASSUME NEW t \in Threads, Select(t) PROVE Closers'
  BY <1>2, SelectFacts DEF Closers, SameRq, SameJob, Rests, Walks
<1>3. ASSUME NEW t \in Threads, CheckExists(t) PROVE Closers'
  BY <1>3, CheckExistsFacts DEF Closers, SameRq, SameJob, Rests, Walks
<1>4. ASSUME NEW t \in Threads, OpenTest(t) PROVE Closers'
  BY <1>4, OpenTestFacts DEF Closers, SameRq, SameJob, Rests, Walks
<1>5. ASSUME NEW t \in Threads, Load(t) PROVE Closers'
  <2>1. /\ SameRq(t) /\ main' = main
        /\ rq'[t].pc = "register" /\ rq'[t].kind = rq[t].kind
    BY <1>5, LoadFacts DEF SameJob, Rests, Closers, Walks
  <2>. QED
    BY <2>1, ClosersFrame DEF Closers
<1>6. ASSUME NEW t \in Threads, Register(t) PROVE Closers'
  BY <1>6, RegisterFacts DEF Closers, SameRq, SameJob, Rests, Walks
<1>7. ASSUME NEW t \in Threads, Lookup(t) PROVE Closers'
  BY <1>7, LookupFacts DEF Closers, SameRq, SameJob, Rests, Walks
<1>8. ASSUME NEW t \in Threads, Submit(t) PROVE Closers'
  BY <1>8, SubmitFacts DEF Closers, SameRq, SameJob, Rests, Walks
<1>9. ASSUME NEW t \in Threads, TakeNonce(t) PROVE Closers'
  BY <1>9, TakeNonceFacts DEF Closers, SameRq, SameJob, Rests, Walks
<1>10. ASSUME NEW t \in Threads, ReadHead(t) PROVE Closers'
  BY <1>10, ReadHeadFacts DEF Closers, SameRq, SameJob, Rests, Walks
<1>11. ASSUME NEW t \in Threads, AppendOp(t) PROVE Closers'
  <2>1. /\ SameRq(t) /\ main' = main
        /\ \/ rq'[t].kind = "put" /\ rq'[t].pc = "idle"
           \/ rq'[t].pc = "next" /\ rq'[t].kind = rq[t].kind /\ rq[t].kind \in Walks
           \/ rq'[t].pc = "flush" /\ rq'[t].kind = rq[t].kind
    BY <1>11, AppendOpFacts DEF SameJob, Rests, Closers, Walks
  <2>. QED
    BY <2>1, ClosersFrame DEF Closers
<1>12. ASSUME NEW t \in Threads, FlushAndWake(t) PROVE Closers'
  <2>1. /\ SameRq(t) /\ main' = main
        /\ \/ rq'[t].kind \in {"put", "query"} /\ rq'[t].pc \in {"idle", "submit", "exists"}
           \/ rq'[t].pc = "next" /\ rq'[t].kind = rq[t].kind /\ rq[t].kind \in Walks
    BY <1>12, FlushAndWakeFacts DEF SameJob, Rests, Closers, Walks
  <2>. QED
    BY <2>1, ClosersFrame DEF Closers
<1>13. ASSUME NEW t \in Threads, DropClose(t) PROVE Closers'
  BY <1>13, DropCloseFacts DEF Closers, SameRq, SameJob, Rests, Walks
<1>14. ASSUME NEW t \in Threads, Join(t) PROVE Closers'
  <2>1. /\ SameRq(t) /\ main' = main
        /\ rq'[t].pc = (IF rq[t].kind = "drop" THEN "del" ELSE "next") /\ rq'[t].kind = rq[t].kind /\ rq[t].pc = "join"
    BY <1>14, JoinFacts DEF SameJob, Rests, Closers, Walks
  <2>. QED
    BY <2>1, ClosersFrame DEF Closers, Walks
<1>15. ASSUME NEW t \in Threads, Del(t) PROVE Closers'
  BY <1>15, DelFacts DEF Closers, SameRq, SameJob, Rests, Walks
<1>16. ASSUME NEW t \in Threads, Rmtree(t) PROVE Closers'
  BY <1>16, RmtreeFacts DEF Closers, SameRq, SameJob, Rests, Walks
<1>17. ASSUME NEW t \in Threads, NEW kind \in Kinds, Walk(t, kind) PROVE Closers'
  BY <1>17, WalkFacts DEF Closers, SameRq, SameJob, Rests, Walks
<1>18. ASSUME NEW t \in Threads, NEW n \in Names, Visit(t, n) PROVE Closers'
  BY <1>18, VisitFacts DEF Closers, SameRq, SameJob, Rests, Walks
<1>19. ASSUME NEW t \in Threads, Walked(t) PROVE Closers'
  BY <1>19, WalkedFacts DEF Closers, SameRq, SameJob, Rests, Walks
<1>20. ASSUME Exit PROVE Closers'
  BY <1>20, ExitFacts, IdleFacts DEF Closers
<1>21. ASSUME Boot PROVE Closers'
  BY <1>21, BootFacts, RestartedInv, PTL
<1>. QED
  BY <1>1, <1>2, <1>3, <1>4, <1>5, <1>6, <1>7, <1>8, <1>9, <1>10, <1>11, <1>12, <1>13, <1>14, <1>15, <1>16, <1>17, <1>18, <1>19, <1>20, <1>21 DEF Next, Serve

LEMMA AppendQueue ==
  ASSUME NEW q \in Seq(Threads), NEW t \in Threads
  PROVE  /\ InQueue(t, Append(q, t))
         /\ \A u \in Threads : InQueue(u, q) => InQueue(u, Append(q, t))
         /\ \A u \in Threads : First(u, q) => First(u, Append(q, t))
<1>. DEFINE a == Append(q, t)
<1>0. Len(q) \in Nat
  BY LenProperties
<1>1. /\ a \in Seq(Threads) /\ Len(a) = Len(q) + 1 /\ a[Len(q) + 1] = t
      /\ \A i \in 1..Len(q) : a[i] = q[i]
  BY AppendProperties
<1>. HIDE DEF a
<1>2. Len(q) + 1 \in 1..Len(a) /\ 1..Len(q) \subseteq 1..Len(a) /\ Len(a) # 0
  BY <1>0, <1>1
<1>3. a # << >>
  BY <1>2, EmptySeq
<1>4. q # << >> => 1 \in 1..Len(q)
  BY <1>0, EmptySeq
<1>. QED
  BY <1>1, <1>2, <1>3, <1>4 DEF InQueue, First, a

LEMMA TailQueue ==
  ASSUME NEW q \in Seq(Threads), NEW t \in Threads, First(t, q), NEW u \in Threads, u # t
  PROVE  /\ InQueue(u, q) => InQueue(u, Tail(q))
         /\ ~First(u, q)
<1>1. q # << >> /\ q[1] = t /\ Len(q) \in Nat
  BY LenProperties DEF First
<1>2. /\ Tail(q) \in Seq(Threads) /\ Len(Tail(q)) = Len(q) - 1
      /\ \A i \in 1..Len(Tail(q)) : Tail(q)[i] = q[i + 1]
  BY <1>1, HeadTailProperties
<1>3. ASSUME NEW i \in 1..Len(q), q[i] = u PROVE InQueue(u, Tail(q))
  <2>1. i # 1
    BY <1>1, <1>3
  <2>2. i - 1 \in 1..Len(Tail(q)) /\ (i - 1) + 1 = i
    BY <1>1, <1>2, <2>1
  <2>. QED
    BY <1>2, <1>3, <2>2 DEF InQueue
<1>. QED
  BY <1>1, <1>3 DEF InQueue, First

LEMMA QueuesFrame ==
  ASSUME TypeInv, Refs, Queues, NEW t \in Threads, SameRq(t), Len(hs') = Len(hs),
         \A g \in 1..Len(hs) : ~hs'[g].aof => hs'[g].closed /\ hs'[g].q = << >>,
         \A g \in 1..Len(hs) : \A u \in Threads : u # t =>
           /\ InQueue(u, hs[g].q) => InQueue(u, hs'[g].q)
           /\ First(u, hs[g].q) => First(u, hs'[g].q),
         \A g \in 1..Len(hs) : hs[g].closed => hs'[g].closed,
         rq'[t].pc = "join" => hs'[rq'[t].h].closed,
         rq'[t].kind # "mongo" /\ rq'[t].pc = "nonce" => InQueue(t, hs'[rq'[t].h].q),
         rq'[t].kind # "mongo" /\ rq'[t].pc \in Committing => First(t, hs'[rq'[t].h].q),
         rq'[t].pc \in {"flush", "failed"} => rq'[t].kind # "mongo"
  PROVE  Queues'
<1>1. ASSUME NEW u \in Threads, rq'[u].kind # "mongo"
      PROVE  /\ rq'[u].pc = "nonce" => InQueue(u, hs'[rq'[u].h].q)
             /\ rq'[u].pc \in Committing => First(u, hs'[rq'[u].h].q)
  <2>1. CASE u = t
    BY <1>1, <2>1
  <2>2. CASE u # t
    <3>1. rq'[u] = rq[u]
      BY <2>2 DEF SameRq
    <3>2. rq[u].pc \in Holding => rq[u].h \in 1..Len(hs)
      BY DEF Refs
    <3>. QED
      BY <1>1, <2>2, <3>1, <3>2 DEF Queues, Holding, Committing, Direct
  <2>. QED
    BY <2>1, <2>2
<1>2. \A u \in Threads : rq'[u].pc \in {"flush", "failed"} => rq'[u].kind # "mongo"
  BY DEF Queues, SameRq, Direct
<1>3. ASSUME NEW u \in Threads, rq'[u].pc = "join" PROVE hs'[rq'[u].h].closed
  <2>1. CASE u = t
    BY <1>3, <2>1
  <2>2. CASE u # t
    <3>1. rq'[u] = rq[u]
      BY <2>2 DEF SameRq
    <3>2. rq[u].h \in 1..Len(hs)
      BY <1>3, <3>1 DEF Refs, Holding
    <3>. QED
      BY <1>3, <3>1, <3>2 DEF Queues
  <2>. QED
    BY <2>1, <2>2
<1>. QED
  BY <1>1, <1>2, <1>3 DEF Queues, Direct

LEMMA QueuesNow ==
  ASSUME Queues
  PROVE  \A g \in 1..Len(hs) : ~hs[g].aof => hs[g].closed /\ hs[g].q = << >>
  BY DEF Queues

\* A step that leaves the Sequencers alone.
LEMMA QueuesIdle ==
  ASSUME TypeInv, Refs, Queues, NEW t \in Threads, SameRq(t), hs' = hs,
         rq'[t].pc \notin Committing, rq'[t].pc # "join", rq'[t].pc = "nonce" => rq'[t].kind = "mongo"
  PROVE  Queues'
  BY QueuesFrame, QueuesNow DEF Committing

LEMMA QueuesStep ==
  ASSUME TypeInv, Refs, Inodes, Queues, Closers, Calmly, TypeInv', Next
  PROVE  Queues'
<1>1. ASSUME NEW t \in Threads, NEW kind \in Kinds, NEW n \in Names, Begin(t, kind, n) PROVE Queues'
  BY <1>1, BeginFacts, QueuesIdle DEF Committing, Rests
<1>2. ASSUME NEW t \in Threads, Select(t) PROVE Queues'
  BY <1>2, SelectFacts DEF Queues, Direct
<1>3. ASSUME NEW t \in Threads, CheckExists(t) PROVE Queues'
  BY <1>3, CheckExistsFacts, QueuesIdle DEF Committing, Rests
<1>4. ASSUME NEW t \in Threads, OpenTest(t) PROVE Queues'
  BY <1>4, OpenTestFacts, QueuesIdle DEF Committing, Rests
<1>5. ASSUME NEW t \in Threads, Load(t) PROVE Queues'
  <2>. DEFINE k == Len(hs) + 1
  <2>1. /\ Len(hs') = k /\ hs'[k].aof /\ \A g \in 1..Len(hs) : hs'[g] = hs[g]
        /\ SameRq(t) /\ rq'[t].pc = "register" /\ Len(hs) \in Nat
    BY <1>5, LoadFacts, LenProperties DEF TypeInv
  <2>2. \A h \in 1..Len(hs') : h \in 1..Len(hs) \/ h = k
    BY <2>1
  <2>3. \A u \in Threads : rq[u].pc \in Holding => rq[u].h \in 1..Len(hs)
    BY DEF Refs
  <2>. HIDE DEF k
  <2>4. \A h \in 1..Len(hs') : ~hs'[h].aof => hs'[h].closed /\ hs'[h].q = << >>
    BY <2>1, <2>2, QueuesNow
  <2>5. ASSUME NEW u \in Threads
        PROVE  /\ rq'[u].kind # "mongo" /\ rq'[u].pc = "nonce" => InQueue(u, hs'[rq'[u].h].q)
               /\ rq'[u].kind # "mongo" /\ rq'[u].pc \in Committing => First(u, hs'[rq'[u].h].q)
               /\ rq'[u].pc \in {"flush", "failed"} => rq'[u].kind # "mongo"
               /\ rq'[u].pc = "join" => hs'[rq'[u].h].closed
    <3>1. CASE u = t
      BY <2>1, <3>1 DEF Committing
    <3>2. CASE u # t
      <4>1. rq'[u] = rq[u]
        BY <2>1, <3>2 DEF SameRq
      <4>. QED
        BY <2>1, <2>3, <4>1 DEF Queues, Holding, Committing, Direct
    <3>. QED
      BY <3>1, <3>2
  <2>. QED
    BY <2>4, <2>5 DEF Queues, Direct
<1>6. ASSUME NEW t \in Threads, Register(t) PROVE Queues'
  BY <1>6, RegisterFacts, QueuesIdle DEF Committing, Rests
<1>7. ASSUME NEW t \in Threads, Lookup(t) PROVE Queues'
  BY <1>7, LookupFacts, QueuesIdle DEF Committing, Rests
<1>8. ASSUME NEW t \in Threads, Submit(t) PROVE Queues'
  <2>1. CASE Rests(t) /\ hs' = hs
    BY <1>8, <2>1, SubmitFacts, QueuesIdle DEF Committing, Rests
  <2>2. CASE ~(Rests(t) /\ hs' = hs)
    <3>. DEFINE h == rq[t].h
    <3>0. h \in 1..Len(hs) /\ hs[h].q \in Seq(Threads)
      BY <1>8, InHand DEF Submit, Holding, Handles
    <3>1. /\ SameRq(t) /\ Len(hs') = Len(hs) /\ \A g \in 1..Len(hs) : g # h => hs'[g] = hs[g]
      BY <1>8, <2>2, SubmitFacts DEF SameHs
    <3>2. /\ hs'[h].q = Append(hs[h].q, t) /\ ~hs[h].closed
          /\ hs'[h].closed = hs[h].closed /\ hs'[h].aof = hs[h].aof
          /\ rq'[t].pc = "nonce" /\ rq'[t].h = h
      BY <1>8, <2>2, SubmitFacts DEF SameOpen, SameJob, Direct, Committing, Rests
    <3>. HIDE DEF h
    <3>3. \A g \in 1..Len(hs) : ~hs'[g].aof => hs'[g].closed /\ hs'[g].q = << >>
      BY <3>0, <3>1, <3>2, QueuesNow
    <3>6. \A g \in 1..Len(hs) : hs[g].closed => hs'[g].closed
      BY <3>0, <3>1, <3>2
    <3>4. \A g \in 1..Len(hs) : \A u \in Threads : u # t =>
            /\ InQueue(u, hs[g].q) => InQueue(u, hs'[g].q)
            /\ First(u, hs[g].q) => First(u, hs'[g].q)
      BY <3>0, <3>1, <3>2, AppendQueue
    <3>5. /\ rq'[t].kind # "mongo" /\ rq'[t].pc = "nonce" => InQueue(t, hs'[rq'[t].h].q)
          /\ rq'[t].kind # "mongo" /\ rq'[t].pc \in Committing => First(t, hs'[rq'[t].h].q)
          /\ rq'[t].pc \in {"flush", "failed"} => rq'[t].kind # "mongo"
      BY <3>0, <3>2, AppendQueue DEF Committing, First
    <3>. QED
      BY <3>1, <3>2, <3>3, <3>4, <3>5, <3>6, QueuesFrame
  <2>. QED
    BY <2>1, <2>2
<1>9. ASSUME NEW t \in Threads, TakeNonce(t) PROVE Queues'
  <2>. DEFINE h == rq[t].h
  <2>0. h \in 1..Len(hs) /\ hs[h].q \in Seq(Threads)
    BY <1>9, InHand DEF TakeNonce, Holding, Handles
  <2>1. /\ SameRq(t) /\ Len(hs') = Len(hs) /\ \A g \in 1..Len(hs) : g # h => hs'[g] = hs[g]
    BY <1>9, TakeNonceFacts DEF SameHs
  <2>2. /\ hs'[h].q = hs[h].q /\ hs'[h].closed = hs[h].closed /\ hs'[h].aof = hs[h].aof
        /\ rq'[t].pc = "read" /\ rq'[t].h = h
        /\ rq'[t].kind # "mongo" => hs[h].q # << >> /\ hs[h].q[1] = t
    BY <1>9, TakeNonceFacts DEF SameOpen, SameJob, Direct, Committing, Rests
  <2>. HIDE DEF h
  <2>3. \A g \in 1..Len(hs) : ~hs'[g].aof => hs'[g].closed /\ hs'[g].q = << >>
    BY <2>0, <2>1, <2>2, QueuesNow
  <2>6. \A g \in 1..Len(hs) : hs[g].closed => hs'[g].closed
    BY <2>0, <2>1, <2>2
  <2>4. \A g \in 1..Len(hs) : \A u \in Threads : u # t =>
          /\ InQueue(u, hs[g].q) => InQueue(u, hs'[g].q)
          /\ First(u, hs[g].q) => First(u, hs'[g].q)
    BY <2>0, <2>1, <2>2
  <2>5. /\ rq'[t].kind # "mongo" /\ rq'[t].pc = "nonce" => InQueue(t, hs'[rq'[t].h].q)
        /\ rq'[t].kind # "mongo" /\ rq'[t].pc \in Committing => First(t, hs'[rq'[t].h].q)
        /\ rq'[t].pc \in {"flush", "failed"} => rq'[t].kind # "mongo"
    BY <2>0, <2>2 DEF Committing, First
  <2>. QED
    BY <2>1, <2>2, <2>3, <2>4, <2>5, <2>6, QueuesFrame
<1>10. ASSUME NEW t \in Threads, ReadHead(t) PROVE Queues'
  <2>1. /\ SameRq(t) /\ hs' = hs
        /\ \/ rq'[t].pc \in {"idle", "next"}
           \/ /\ rq'[t].pc \in {"failed", "append"} /\ rq'[t].h = rq[t].h /\ rq'[t].kind = rq[t].kind
              /\ rq'[t].pc = "failed" => rq[t].kind # "mongo"
        /\ rq[t].pc = "read"
    BY <1>10, ReadHeadFacts DEF Rests, SameJob, Direct
  <2>2. rq[t].kind # "mongo" => First(t, hs[rq[t].h].q)
    BY <2>1 DEF Queues, Committing, Direct
  <2>. QED
    BY <2>1, <2>2, QueuesFrame, QueuesNow DEF Committing
<1>11. ASSUME NEW t \in Threads, AppendOp(t) PROVE Queues'
  <2>. DEFINE h == rq[t].h
  <2>0. h \in 1..Len(hs) /\ hs[h].q \in Seq(Threads)
    BY <1>11, InHand DEF AppendOp, Holding, Handles
  <2>1. /\ SameRq(t) /\ Len(hs') = Len(hs) /\ \A g \in 1..Len(hs) : g # h => hs'[g] = hs[g]
    BY <1>11, AppendOpFacts DEF SameHs
  <2>2. /\ hs'[h].q = hs[h].q /\ hs'[h].closed = hs[h].closed /\ hs'[h].aof = hs[h].aof
        /\ rq'[t].pc \in {"idle", "next"} \/ (rq'[t].pc = "flush" /\ rq'[t].h = h /\ rq'[t].kind # "mongo" /\ First(t, hs[h].q))
    BY <1>11, AppendOpFacts DEF Queues, SameOpen, SameJob, Direct, Committing, Rests
  <2>. HIDE DEF h
  <2>3. \A g \in 1..Len(hs) : ~hs'[g].aof => hs'[g].closed /\ hs'[g].q = << >>
    BY <2>0, <2>1, <2>2, QueuesNow
  <2>6. \A g \in 1..Len(hs) : hs[g].closed => hs'[g].closed
    BY <2>0, <2>1, <2>2
  <2>4. \A g \in 1..Len(hs) : \A u \in Threads : u # t =>
          /\ InQueue(u, hs[g].q) => InQueue(u, hs'[g].q)
          /\ First(u, hs[g].q) => First(u, hs'[g].q)
    BY <2>0, <2>1, <2>2
  <2>5. /\ rq'[t].kind # "mongo" /\ rq'[t].pc = "nonce" => InQueue(t, hs'[rq'[t].h].q)
        /\ rq'[t].kind # "mongo" /\ rq'[t].pc \in Committing => First(t, hs'[rq'[t].h].q)
        /\ rq'[t].pc \in {"flush", "failed"} => rq'[t].kind # "mongo"
    BY <2>0, <2>2 DEF Committing, First
  <2>. QED
    BY <2>1, <2>2, <2>3, <2>4, <2>5, <2>6, QueuesFrame
<1>12. ASSUME NEW t \in Threads, FlushAndWake(t) PROVE Queues'
  <2>. DEFINE h == rq[t].h
  <2>0. h \in 1..Len(hs) /\ hs[h].q \in Seq(Threads)
    BY <1>12, InHand DEF FlushAndWake, Holding, Handles
  <2>1. /\ SameRq(t) /\ Len(hs') = Len(hs) /\ \A g \in 1..Len(hs) : g # h => hs'[g] = hs[g]
    BY <1>12, FlushAndWakeFacts DEF SameHs
  <2>2. /\ hs'[h].q = Tail(hs[h].q) /\ hs'[h].closed = hs[h].closed /\ hs'[h].aof = hs[h].aof
        /\ rq'[t].pc \in {"idle", "next", "submit", "exists"} /\ First(t, hs[h].q)
    BY <1>12, FlushAndWakeFacts DEF First, SameOpen, SameJob, Direct, Committing, Rests
  <2>. HIDE DEF h
  <2>3. \A g \in 1..Len(hs) : ~hs'[g].aof => hs'[g].closed /\ hs'[g].q = << >>
    BY <2>0, <2>1, <2>2, QueuesNow DEF First
  <2>6. \A g \in 1..Len(hs) : hs[g].closed => hs'[g].closed
    BY <2>0, <2>1, <2>2
  <2>4. \A g \in 1..Len(hs) : \A u \in Threads : u # t =>
          /\ InQueue(u, hs[g].q) => InQueue(u, hs'[g].q)
          /\ First(u, hs[g].q) => First(u, hs'[g].q)
    BY <2>0, <2>1, <2>2, TailQueue
  <2>5. /\ rq'[t].kind # "mongo" /\ rq'[t].pc = "nonce" => InQueue(t, hs'[rq'[t].h].q)
        /\ rq'[t].kind # "mongo" /\ rq'[t].pc \in Committing => First(t, hs'[rq'[t].h].q)
        /\ rq'[t].pc \in {"flush", "failed"} => rq'[t].kind # "mongo"
    BY <2>0, <2>2 DEF Committing, First
  <2>. QED
    BY <2>1, <2>2, <2>3, <2>4, <2>5, <2>6, QueuesFrame
<1>13. ASSUME NEW t \in Threads, DropClose(t) PROVE Queues'
  <2>. DEFINE h == opened[rq[t].name]
  <2>1. CASE rq'[t].pc = "rmtree" /\ hs' = hs
    BY <1>13, <2>1, DropCloseFacts, QueuesIdle DEF Committing
  <2>2. CASE Closes(h) /\ h \in 1..Len(hs)
    <3>1. /\ SameRq(t) /\ rq'[t].pc \notin Committing /\ rq'[t].pc # "nonce" /\ rq'[t].h = h
      BY <1>13, <2>2, DropCloseFacts DEF Committing
    <3>2. /\ Len(hs') = Len(hs) /\ \A g \in 1..Len(hs) : g # h => hs'[g] = hs[g]
          /\ hs'[h].q = hs[h].q /\ hs'[h].aof = hs[h].aof /\ hs'[h].closed = TRUE
      BY <2>2 DEF Closes, SameHs
    <3>. HIDE DEF h
    <3>3. \A g \in 1..Len(hs) :
            /\ hs'[g].q = hs[g].q /\ (hs[g].closed => hs'[g].closed)
            /\ ~hs'[g].aof => hs'[g].closed /\ hs'[g].q = << >>
      BY <2>2, <3>2, QueuesNow
    <3>. QED
      BY <3>1, <3>2, <3>3, QueuesFrame DEF Committing
  <2>. QED
    BY <1>13, <2>1, <2>2, DropCloseFacts
<1>14. ASSUME NEW t \in Threads, Join(t) PROVE Queues'
  <2>. DEFINE h == rq[t].h
  <2>0. h \in 1..Len(hs) /\ hs[h].q \in Seq(Threads)
    BY <1>14, InHand DEF Join, Holding, Handles
  <2>1. /\ SameRq(t) /\ Len(hs') = Len(hs) /\ \A g \in 1..Len(hs) : g # h => hs'[g] = hs[g]
    BY <1>14, JoinFacts DEF SameHs
  <2>2. /\ hs'[h].q = hs[h].q /\ hs[h].q = << >> /\ hs'[h].closed = hs[h].closed
        /\ rq'[t].pc \in {"del", "next"} /\ hs[h].closed
    BY <1>14, JoinFacts DEF Queues, SameOpen, SameJob, Direct, Committing, Rests
  <2>. HIDE DEF h
  <2>3. \A g \in 1..Len(hs) : ~hs'[g].aof => hs'[g].closed /\ hs'[g].q = << >>
    BY <2>0, <2>1, <2>2, QueuesNow
  <2>6. \A g \in 1..Len(hs) : hs[g].closed => hs'[g].closed
    BY <2>0, <2>1, <2>2
  <2>4. \A g \in 1..Len(hs) : \A u \in Threads : u # t =>
          /\ InQueue(u, hs[g].q) => InQueue(u, hs'[g].q)
          /\ First(u, hs[g].q) => First(u, hs'[g].q)
    BY <2>0, <2>1, <2>2
  <2>5. /\ rq'[t].kind # "mongo" /\ rq'[t].pc = "nonce" => InQueue(t, hs'[rq'[t].h].q)
        /\ rq'[t].kind # "mongo" /\ rq'[t].pc \in Committing => First(t, hs'[rq'[t].h].q)
        /\ rq'[t].pc \in {"flush", "failed"} => rq'[t].kind # "mongo"
    BY <2>0, <2>2 DEF Committing, First
  <2>. QED
    BY <2>1, <2>2, <2>3, <2>4, <2>5, <2>6, QueuesFrame
<1>15. ASSUME NEW t \in Threads, Del(t) PROVE Queues'
  BY <1>15, DelFacts, QueuesIdle DEF Committing, Rests
<1>16. ASSUME NEW t \in Threads, Rmtree(t) PROVE Queues'
  BY <1>16, RmtreeFacts, QueuesIdle DEF Committing, Rests
<1>17. ASSUME NEW t \in Threads, NEW kind \in Kinds, Walk(t, kind) PROVE Queues'
  BY <1>17, WalkFacts, QueuesIdle DEF Committing, Rests
<1>18. ASSUME NEW t \in Threads, NEW n \in Names, Visit(t, n) PROVE Queues'
  <2>. DEFINE h == opened[n]
  <2>1. CASE rq'[t].pc = "submit" /\ hs' = hs
    BY <1>18, <2>1, VisitFacts, QueuesIdle DEF Committing
  <2>2. CASE Closes(h) /\ h \in 1..Len(hs)
    <3>1. /\ SameRq(t) /\ rq'[t].pc \notin Committing /\ rq'[t].pc # "nonce" /\ rq'[t].h = h
      BY <1>18, <2>2, VisitFacts DEF Committing
    <3>2. /\ Len(hs') = Len(hs) /\ \A g \in 1..Len(hs) : g # h => hs'[g] = hs[g]
          /\ hs'[h].q = hs[h].q /\ hs'[h].aof = hs[h].aof /\ hs'[h].closed = TRUE
      BY <2>2 DEF Closes, SameHs
    <3>. HIDE DEF h
    <3>3. \A g \in 1..Len(hs) :
            /\ hs'[g].q = hs[g].q /\ (hs[g].closed => hs'[g].closed)
            /\ ~hs'[g].aof => hs'[g].closed /\ hs'[g].q = << >>
      BY <2>2, <3>2, QueuesNow
    <3>. QED
      BY <3>1, <3>2, <3>3, QueuesFrame DEF Committing
  <2>. QED
    BY <1>18, <2>1, <2>2, VisitFacts
<1>19. ASSUME NEW t \in Threads, Walked(t) PROVE Queues'
  BY <1>19, WalkedFacts, QueuesIdle DEF Committing, Rests
<1>20. ASSUME Exit PROVE Queues'
  <2>1. hs' = << >> /\ 1..Len(hs') = {} /\ \A u \in Threads : rq'[u].pc = "idle"
    BY <1>20, ExitFacts, IdleFacts
  <2>. QED
    BY <2>1 DEF Queues, Committing
<1>21. ASSUME Boot PROVE Queues'
  BY <1>21, BootFacts, RestartedInv, PTL
<1>. QED
  BY <1>1, <1>2, <1>3, <1>4, <1>5, <1>6, <1>7, <1>8, <1>9, <1>10, <1>11, <1>12, <1>13, <1>14, <1>15, <1>16, <1>17, <1>18, <1>19, <1>20, <1>21 DEF Next, Serve

-----------------------------------------------------------------------------
(* Files.                                                                   *)

LEMMA InodesFrame ==
  ASSUME TypeInv, Refs, Inodes, SameNames, \A n \in Names : dir'[n] = dir[n] \/ dir'[n] = 0
  PROVE  Inodes'
<1>1. \A h \in 1..Len(hs) : hs[h].ino # 0
  BY DEF Refs
<1>. QED
  BY <1>1 DEF Inodes, SameNames

LEMMA InodesStep ==
  ASSUME TypeInv, Refs, Inodes, Queues, Closers, TypeInv', Next
  PROVE  Inodes'
<1>1. ASSUME NEW t \in Threads, NEW kind \in Kinds, NEW n \in Names, Begin(t, kind, n) PROVE Inodes'
  BY <1>1, BeginFacts, InodesFrame DEF SameNames
<1>2. ASSUME NEW t \in Threads, Select(t) PROVE Inodes'
  BY <1>2, SelectFacts, InodesFrame DEF SameNames
<1>3. ASSUME NEW t \in Threads, CheckExists(t) PROVE Inodes'
  BY <1>3, CheckExistsFacts, InodesFrame DEF SameNames
<1>4. ASSUME NEW t \in Threads, OpenTest(t) PROVE Inodes'
  BY <1>4, OpenTestFacts, InodesFrame DEF SameNames
<1>5. ASSUME NEW t \in Threads, Load(t) PROVE Inodes'
  <2>. DEFINE n == rq[t].name
              k == Len(hs) + 1
  <2>0. Len(hs) \in Nat /\ Len(files) \in Nat /\ n \in Names
    BY RefsNow, LenProperties DEF TypeInv
  <2>1. /\ Len(hs') = k /\ hs'[k].name = n /\ hs'[k].ino = dir'[n]
        /\ \A g \in 1..Len(hs) : hs'[g] = hs[g]
        /\ \A m \in Names : m # n => dir'[m] = dir[m]
        /\ (dir'[n] = dir[n] /\ dir[n] # 0) \/ dir'[n] = Len(files) + 1
    BY <1>5, LoadFacts
  <2>2. \A h \in 1..Len(hs') : h \in 1..Len(hs) \/ h = k
    BY <2>0, <2>1
  <2>3. /\ \A h \in 1..Len(hs) : hs[h].ino <= Len(files) /\ hs[h].ino # 0
        /\ \A m \in Names : dir[m] <= Len(files)
        /\ ~(Len(files) + 1 <= Len(files)) /\ Len(files) + 1 # 0
    BY <2>0 DEF Refs
  <2>. HIDE DEF n, k
  <2>4. \A m, p \in Names : dir'[m] = dir'[p] /\ dir'[m] # 0 => m = p
    BY <2>0, <2>1, <2>3 DEF Inodes
  <2>5. ASSUME NEW h \in 1..Len(hs'), NEW m \in Names, hs'[h].ino = dir'[m] PROVE hs'[h].name = m
    <3>1. CASE h = k
      <4>1. dir'[n] = dir'[m] /\ dir'[n] # 0
        BY <2>1, <2>3, <2>5, <3>1
      <4>. QED
        BY <2>0, <2>1, <2>4, <3>1, <4>1
    <3>2. CASE h \in 1..Len(hs)
      <4>1. hs'[h] = hs[h] /\ hs[h].ino = dir'[m]
        BY <2>1, <2>5, <3>2
      <4>2. dir'[m] = dir[m]
        BY <2>1, <2>3, <3>2, <4>1
      <4>. QED
        BY <3>2, <4>1, <4>2 DEF Inodes
    <3>. QED
      BY <2>2, <3>1, <3>2
  <2>. QED
    BY <2>4, <2>5 DEF Inodes
<1>6. ASSUME NEW t \in Threads, Register(t) PROVE Inodes'
  BY <1>6, RegisterFacts, InodesFrame DEF SameNames
<1>7. ASSUME NEW t \in Threads, Lookup(t) PROVE Inodes'
  BY <1>7, LookupFacts, InodesFrame DEF SameNames
<1>8. ASSUME NEW t \in Threads, Submit(t) PROVE Inodes'
  <2>1. SameNames
    BY <1>8, SubmitFacts, OneHandle DEF SameNames
  <2>2. \A m \in Names : dir'[m] = dir[m]
    BY <1>8, SubmitFacts
  <2>. QED
    BY <2>1, <2>2, InodesFrame
<1>9. ASSUME NEW t \in Threads, TakeNonce(t) PROVE Inodes'
  <2>1. SameNames
    BY <1>9, TakeNonceFacts, OneHandle DEF SameNames
  <2>2. \A m \in Names : dir'[m] = dir[m]
    BY <1>9, TakeNonceFacts
  <2>. QED
    BY <2>1, <2>2, InodesFrame
<1>10. ASSUME NEW t \in Threads, ReadHead(t) PROVE Inodes'
  BY <1>10, ReadHeadFacts, InodesFrame DEF SameNames
<1>11. ASSUME NEW t \in Threads, AppendOp(t) PROVE Inodes'
  <2>1. SameNames
    BY <1>11, AppendOpFacts, OneHandle DEF SameNames
  <2>2. \A m \in Names : dir'[m] = dir[m]
    BY <1>11, AppendOpFacts
  <2>. QED
    BY <2>1, <2>2, InodesFrame
<1>12. ASSUME NEW t \in Threads, FlushAndWake(t) PROVE Inodes'
  <2>1. SameNames
    BY <1>12, FlushAndWakeFacts, OneHandle DEF SameNames
  <2>2. \A m \in Names : dir'[m] = dir[m]
    BY <1>12, FlushAndWakeFacts
  <2>. QED
    BY <2>1, <2>2, InodesFrame
<1>13. ASSUME NEW t \in Threads, DropClose(t) PROVE Inodes'
  <2>1. SameNames
    BY <1>13, DropCloseFacts, OneHandle DEF SameNames, Closes
  <2>2. \A m \in Names : dir'[m] = dir[m]
    BY <1>13, DropCloseFacts
  <2>. QED
    BY <2>1, <2>2, InodesFrame
<1>14. ASSUME NEW t \in Threads, Join(t) PROVE Inodes'
  <2>1. SameNames
    BY <1>14, JoinFacts, OneHandle DEF SameNames
  <2>2. \A m \in Names : dir'[m] = dir[m]
    BY <1>14, JoinFacts
  <2>. QED
    BY <2>1, <2>2, InodesFrame
<1>15. ASSUME NEW t \in Threads, Del(t) PROVE Inodes'
  BY <1>15, DelFacts, InodesFrame DEF SameNames
<1>16. ASSUME NEW t \in Threads, Rmtree(t) PROVE Inodes'
  BY <1>16, RmtreeFacts, InodesFrame DEF SameNames
<1>17. ASSUME NEW t \in Threads, NEW kind \in Kinds, Walk(t, kind) PROVE Inodes'
  BY <1>17, WalkFacts, InodesFrame DEF SameNames
<1>18. ASSUME NEW t \in Threads, NEW n \in Names, Visit(t, n) PROVE Inodes'
  <2>1. SameNames
    BY <1>18, VisitFacts, OneHandle DEF SameNames, Closes
  <2>2. \A m \in Names : dir'[m] = dir[m]
    BY <1>18, VisitFacts
  <2>. QED
    BY <2>1, <2>2, InodesFrame
<1>19. ASSUME NEW t \in Threads, Walked(t) PROVE Inodes'
  BY <1>19, WalkedFacts, InodesFrame DEF SameNames
<1>20. ASSUME Exit PROVE Inodes'
  <2>1. hs' = << >> /\ 1..Len(hs') = {} /\ dir' = dir
    BY <1>20, ExitFacts
  <2>. QED
    BY <2>1 DEF Inodes
<1>21. ASSUME Boot PROVE Inodes'
  BY <1>21, BootFacts, RestartedInv, PTL
<1>. QED
  BY <1>1, <1>2, <1>3, <1>4, <1>5, <1>6, <1>7, <1>8, <1>9, <1>10, <1>11, <1>12, <1>13, <1>14, <1>15, <1>16, <1>17, <1>18, <1>19, <1>20, <1>21 DEF Next, Serve

-----------------------------------------------------------------------------
(* Engines on their way into the table.                                     *)

\* A Sequencer that the table or a connection has, or that the request has in hand.
Within(t, h) ==
  \/ \E n \in Names : opened[n] = h
  \/ \E u \in Threads : conn[u] = h
  \/ rq[t].pc \in Holding /\ rq[t].h = h

LEMMA UnsharedFrame ==
  ASSUME TypeInv, Refs, Unshared, NEW t \in Threads, SameRq(t), rq'[t].pc # "register",
         rq'[t].pc \in Holding => Within(t, rq'[t].h),
         \A n \in Names : opened'[n] = 0 \/ Within(t, opened'[n]),
         \A u \in Threads : conn'[u] = 0 \/ Within(t, conn'[u]),
         \A g \in 1..Len(hs) : hs'[g].buf = hs[g].buf \/ hs'[g].buf = << >> \/ Within(t, g)
  PROVE  Unshared'
<1>. SUFFICES ASSUME NEW u \in Threads, rq'[u].pc = "register"
              PROVE  /\ hs'[rq'[u].h].buf = << >>
                     /\ \A n \in Names : opened'[n] # rq'[u].h
                     /\ \A v \in Threads : conn'[v] # rq'[u].h
                     /\ \A v \in Threads : rq'[v].pc \in Holding /\ rq'[v].h = rq'[u].h => v = u
  BY DEF Unshared
<1>1. u # t /\ rq'[u] = rq[u] /\ rq[u].pc = "register" /\ rq[u].h \in 1..Len(hs) /\ rq[u].h # 0
  BY DEF SameRq, Refs, Holding
<1>2. /\ hs[rq[u].h].buf = << >>
      /\ \A n \in Names : opened[n] # rq[u].h
      /\ \A v \in Threads : conn[v] # rq[u].h
      /\ \A v \in Threads : rq[v].pc \in Holding /\ rq[v].h = rq[u].h => v = u
  BY <1>1 DEF Unshared
<1>3. ~Within(t, rq[u].h)
  BY <1>1, <1>2 DEF Within
<1>4. \A v \in Threads : v # t => rq'[v] = rq[v]
  BY DEF SameRq
<1>. QED
  BY <1>1, <1>2, <1>3, <1>4

LEMMA UnsharedStep ==
  ASSUME TypeInv, Refs, Inodes, Queues, Closers, Unshared, TypeInv', Next
  PROVE  Unshared'
<1>1. ASSUME NEW t \in Threads, NEW kind \in Kinds, NEW n \in Names, Begin(t, kind, n) PROVE Unshared'
  <2>1. SameRq(t) /\ rq'[t].pc # "register"
    BY <1>1, BeginFacts
  <2>2. rq'[t].pc \in Holding => Within(t, rq'[t].h)
    BY <1>1, BeginFacts DEF Within, Holding
  <2>3. /\ \A m \in Names : opened'[m] = 0 \/ Within(t, opened'[m])
        /\ \A u \in Threads : conn'[u] = 0 \/ Within(t, conn'[u])
    BY <1>1, BeginFacts DEF Within
  <2>. QED
    BY <1>1, <2>1, <2>2, <2>3, BeginFacts, UnsharedFrame
<1>2. ASSUME NEW t \in Threads, Select(t) PROVE Unshared'
  <2>1. /\ conn'[t] = 0 /\ \A u \in Threads : u # t => conn'[u] = conn[u]
        /\ opened' = opened /\ rq' = rq /\ hs' = hs
    BY <1>2, SelectFacts
  <2>2. \A u \in Threads : rq[u].pc = "register" => rq[u].h # 0
    BY DEF Refs, Holding
  <2>. QED
    BY <2>1, <2>2 DEF Unshared
<1>3. ASSUME NEW t \in Threads, CheckExists(t) PROVE Unshared'
  <2>1. SameRq(t) /\ rq'[t].pc # "register"
    BY <1>3, CheckExistsFacts DEF Rests
  <2>2. rq'[t].pc \in Holding => Within(t, rq'[t].h)
    BY <1>3, CheckExistsFacts, RefsNow DEF Within, Holding, Rests, SameJob
  <2>3. /\ \A m \in Names : opened'[m] = 0 \/ Within(t, opened'[m])
        /\ \A u \in Threads : conn'[u] = 0 \/ Within(t, conn'[u])
    BY <1>3, CheckExistsFacts, RefsNow DEF Within, Holding
  <2>4. Len(hs') = Len(hs) /\ \A g \in 1..Len(hs) : hs'[g].buf = hs[g].buf \/ hs'[g].buf = << >> \/ Within(t, g)
    BY <1>3, CheckExistsFacts DEF Within, Holding, SameHs, Closes
  <2>. QED
    BY <2>1, <2>2, <2>3, <2>4, UnsharedFrame
<1>4. ASSUME NEW t \in Threads, OpenTest(t) PROVE Unshared'
  <2>1. SameRq(t) /\ rq'[t].pc # "register"
    BY <1>4, OpenTestFacts DEF Rests
  <2>2. rq'[t].pc \in Holding => Within(t, rq'[t].h)
    BY <1>4, OpenTestFacts, RefsNow DEF Within, Holding, Rests, SameJob
  <2>3. /\ \A m \in Names : opened'[m] = 0 \/ Within(t, opened'[m])
        /\ \A u \in Threads : conn'[u] = 0 \/ Within(t, conn'[u])
    BY <1>4, OpenTestFacts, RefsNow DEF Within, Holding
  <2>4. Len(hs') = Len(hs) /\ \A g \in 1..Len(hs) : hs'[g].buf = hs[g].buf \/ hs'[g].buf = << >> \/ Within(t, g)
    BY <1>4, OpenTestFacts DEF Within, Holding, SameHs, Closes
  <2>. QED
    BY <2>1, <2>2, <2>3, <2>4, UnsharedFrame
<1>5. ASSUME NEW t \in Threads, Load(t) PROVE Unshared'
  <2>. DEFINE k == Len(hs) + 1
  <2>0. Len(hs) \in Nat /\ k \notin 1..Len(hs)
    BY LenProperties DEF TypeInv
  <2>1. /\ \A g \in 1..Len(hs) : hs'[g] = hs[g]
        /\ SameRq(t) /\ rq'[t].pc = "register" /\ rq'[t].h = k /\ hs'[k].buf = << >>
        /\ opened' = opened /\ conn' = conn
    BY <1>5, LoadFacts
  <2>2. /\ \A m \in Names : opened[m] = 0 \/ opened[m] \in 1..Len(hs)
        /\ \A u \in Threads : conn[u] = 0 \/ conn[u] \in 1..Len(hs)
        /\ \A u \in Threads : rq[u].pc \in Holding => rq[u].h \in 1..Len(hs)
        /\ k # 0
    BY <2>0 DEF Refs
  <2>. HIDE DEF k
  <2>3. ASSUME NEW u \in Threads, rq'[u].pc = "register"
        PROVE  /\ hs'[rq'[u].h].buf = << >>
               /\ \A m \in Names : opened'[m] # rq'[u].h
               /\ \A v \in Threads : conn'[v] # rq'[u].h
               /\ \A v \in Threads : rq'[v].pc \in Holding /\ rq'[v].h = rq'[u].h => v = u
    <3>1. CASE u = t
      BY <2>0, <2>1, <2>2, <3>1 DEF SameRq
    <3>2. CASE u # t
      <4>1. rq'[u] = rq[u] /\ rq[u].h \in 1..Len(hs) /\ rq[u].pc = "register"
        BY <2>1, <2>2, <2>3, <3>2 DEF SameRq, Holding
      <4>2. /\ hs[rq[u].h].buf = << >>
            /\ \A m \in Names : opened[m] # rq[u].h
            /\ \A v \in Threads : conn[v] # rq[u].h
            /\ \A v \in Threads : rq[v].pc \in Holding /\ rq[v].h = rq[u].h => v = u
        BY <4>1 DEF Unshared
      <4>3. rq'[t].h # rq[u].h
        BY <2>0, <2>1, <4>1
      <4>4. \A v \in Threads : v # t => rq'[v] = rq[v]
        BY <2>1 DEF SameRq
      <4>. QED
        BY <2>1, <4>1, <4>2, <4>3, <4>4
    <3>. QED
      BY <3>1, <3>2
  <2>. QED
    BY <2>3 DEF Unshared
<1>6. ASSUME NEW t \in Threads, Register(t) PROVE Unshared'
  <2>1. SameRq(t) /\ rq'[t].pc # "register"
    BY <1>6, RegisterFacts DEF Rests
  <2>2. rq'[t].pc \in Holding => Within(t, rq'[t].h)
    BY <1>6, RegisterFacts, RefsNow DEF Within, Holding, Rests, SameJob
  <2>3. /\ \A m \in Names : opened'[m] = 0 \/ Within(t, opened'[m])
        /\ \A u \in Threads : conn'[u] = 0 \/ Within(t, conn'[u])
    BY <1>6, RegisterFacts, RefsNow DEF Within, Holding
  <2>4. Len(hs') = Len(hs) /\ \A g \in 1..Len(hs) : hs'[g].buf = hs[g].buf \/ hs'[g].buf = << >> \/ Within(t, g)
    BY <1>6, RegisterFacts DEF Within, Holding, SameHs, Closes
  <2>. QED
    BY <2>1, <2>2, <2>3, <2>4, UnsharedFrame
<1>7. ASSUME NEW t \in Threads, Lookup(t) PROVE Unshared'
  <2>1. SameRq(t) /\ rq'[t].pc # "register"
    BY <1>7, LookupFacts DEF Rests
  <2>2. rq'[t].pc \in Holding => Within(t, rq'[t].h)
    BY <1>7, LookupFacts, RefsNow DEF Within, Holding, Rests, SameJob
  <2>3. /\ \A m \in Names : opened'[m] = 0 \/ Within(t, opened'[m])
        /\ \A u \in Threads : conn'[u] = 0 \/ Within(t, conn'[u])
    BY <1>7, LookupFacts, RefsNow DEF Within, Holding
  <2>4. Len(hs') = Len(hs) /\ \A g \in 1..Len(hs) : hs'[g].buf = hs[g].buf \/ hs'[g].buf = << >> \/ Within(t, g)
    BY <1>7, LookupFacts DEF Within, Holding, SameHs, Closes
  <2>. QED
    BY <2>1, <2>2, <2>3, <2>4, UnsharedFrame
<1>8. ASSUME NEW t \in Threads, Submit(t) PROVE Unshared'
  <2>1. SameRq(t) /\ rq'[t].pc # "register"
    BY <1>8, SubmitFacts DEF Rests
  <2>2. rq'[t].pc \in Holding => Within(t, rq'[t].h)
    BY <1>8, SubmitFacts, RefsNow DEF Within, Holding, Rests, SameJob, Submit
  <2>3. /\ \A m \in Names : opened'[m] = 0 \/ Within(t, opened'[m])
        /\ \A u \in Threads : conn'[u] = 0 \/ Within(t, conn'[u])
    BY <1>8, SubmitFacts, RefsNow DEF Within, Holding
  <2>4. Len(hs') = Len(hs) /\ \A g \in 1..Len(hs) : hs'[g].buf = hs[g].buf \/ hs'[g].buf = << >> \/ Within(t, g)
    BY <1>8, SubmitFacts DEF Within, Holding, SameHs, Closes, Submit
  <2>. QED
    BY <2>1, <2>2, <2>3, <2>4, UnsharedFrame
<1>9. ASSUME NEW t \in Threads, TakeNonce(t) PROVE Unshared'
  <2>1. SameRq(t) /\ rq'[t].pc # "register"
    BY <1>9, TakeNonceFacts DEF Rests
  <2>2. rq'[t].pc \in Holding => Within(t, rq'[t].h)
    BY <1>9, TakeNonceFacts, RefsNow DEF Within, Holding, Rests, SameJob, TakeNonce
  <2>3. /\ \A m \in Names : opened'[m] = 0 \/ Within(t, opened'[m])
        /\ \A u \in Threads : conn'[u] = 0 \/ Within(t, conn'[u])
    BY <1>9, TakeNonceFacts, RefsNow DEF Within, Holding
  <2>4. Len(hs') = Len(hs) /\ \A g \in 1..Len(hs) : hs'[g].buf = hs[g].buf \/ hs'[g].buf = << >> \/ Within(t, g)
    BY <1>9, TakeNonceFacts DEF Within, Holding, SameHs, Closes, TakeNonce
  <2>. QED
    BY <2>1, <2>2, <2>3, <2>4, UnsharedFrame
<1>10. ASSUME NEW t \in Threads, ReadHead(t) PROVE Unshared'
  <2>1. SameRq(t) /\ rq'[t].pc # "register"
    BY <1>10, ReadHeadFacts DEF Rests
  <2>2. rq'[t].pc \in Holding => Within(t, rq'[t].h)
    BY <1>10, ReadHeadFacts, RefsNow DEF Within, Holding, Rests, SameJob, ReadHead
  <2>3. /\ \A m \in Names : opened'[m] = 0 \/ Within(t, opened'[m])
        /\ \A u \in Threads : conn'[u] = 0 \/ Within(t, conn'[u])
    BY <1>10, ReadHeadFacts, RefsNow DEF Within, Holding
  <2>4. Len(hs') = Len(hs) /\ \A g \in 1..Len(hs) : hs'[g].buf = hs[g].buf \/ hs'[g].buf = << >> \/ Within(t, g)
    BY <1>10, ReadHeadFacts DEF Within, Holding, SameHs, Closes, ReadHead
  <2>. QED
    BY <2>1, <2>2, <2>3, <2>4, UnsharedFrame
<1>11. ASSUME NEW t \in Threads, AppendOp(t) PROVE Unshared'
  <2>1. SameRq(t) /\ rq'[t].pc # "register"
    BY <1>11, AppendOpFacts DEF Rests
  <2>2. rq'[t].pc \in Holding => Within(t, rq'[t].h)
    BY <1>11, AppendOpFacts, RefsNow DEF Within, Holding, Rests, SameJob, AppendOp
  <2>3. /\ \A m \in Names : opened'[m] = 0 \/ Within(t, opened'[m])
        /\ \A u \in Threads : conn'[u] = 0 \/ Within(t, conn'[u])
    BY <1>11, AppendOpFacts, RefsNow DEF Within, Holding
  <2>4. Len(hs') = Len(hs) /\ \A g \in 1..Len(hs) : hs'[g].buf = hs[g].buf \/ hs'[g].buf = << >> \/ Within(t, g)
    BY <1>11, AppendOpFacts DEF Within, Holding, SameHs, Closes, AppendOp
  <2>. QED
    BY <2>1, <2>2, <2>3, <2>4, UnsharedFrame
<1>12. ASSUME NEW t \in Threads, FlushAndWake(t) PROVE Unshared'
  <2>1. SameRq(t) /\ rq'[t].pc # "register"
    BY <1>12, FlushAndWakeFacts DEF Rests
  <2>2. rq'[t].pc \in Holding => Within(t, rq'[t].h)
    BY <1>12, FlushAndWakeFacts, RefsNow DEF Within, Holding, Rests, SameJob, FlushAndWake
  <2>3. /\ \A m \in Names : opened'[m] = 0 \/ Within(t, opened'[m])
        /\ \A u \in Threads : conn'[u] = 0 \/ Within(t, conn'[u])
    BY <1>12, FlushAndWakeFacts, RefsNow DEF Within, Holding
  <2>4. Len(hs') = Len(hs) /\ \A g \in 1..Len(hs) : hs'[g].buf = hs[g].buf \/ hs'[g].buf = << >> \/ Within(t, g)
    BY <1>12, FlushAndWakeFacts DEF Within, Holding, SameHs, Closes, FlushAndWake
  <2>. QED
    BY <2>1, <2>2, <2>3, <2>4, UnsharedFrame
<1>13. ASSUME NEW t \in Threads, DropClose(t) PROVE Unshared'
  <2>1. SameRq(t) /\ rq'[t].pc # "register"
    BY <1>13, DropCloseFacts DEF Rests
  <2>2. rq'[t].pc \in Holding => Within(t, rq'[t].h)
    BY <1>13, DropCloseFacts, RefsNow DEF Within, Holding, Rests, SameJob
  <2>3. /\ \A m \in Names : opened'[m] = 0 \/ Within(t, opened'[m])
        /\ \A u \in Threads : conn'[u] = 0 \/ Within(t, conn'[u])
    BY <1>13, DropCloseFacts, RefsNow DEF Within, Holding
  <2>4. Len(hs') = Len(hs) /\ \A g \in 1..Len(hs) : hs'[g].buf = hs[g].buf \/ hs'[g].buf = << >> \/ Within(t, g)
    BY <1>13, DropCloseFacts DEF Within, Holding, SameHs, Closes
  <2>. QED
    BY <2>1, <2>2, <2>3, <2>4, UnsharedFrame
<1>14. ASSUME NEW t \in Threads, Join(t) PROVE Unshared'
  <2>1. SameRq(t) /\ rq'[t].pc # "register"
    BY <1>14, JoinFacts DEF Rests
  <2>2. rq'[t].pc \in Holding => Within(t, rq'[t].h)
    BY <1>14, JoinFacts, RefsNow DEF Within, Holding, Rests, SameJob, Join
  <2>3. /\ \A m \in Names : opened'[m] = 0 \/ Within(t, opened'[m])
        /\ \A u \in Threads : conn'[u] = 0 \/ Within(t, conn'[u])
    BY <1>14, JoinFacts, RefsNow DEF Within, Holding
  <2>4. Len(hs') = Len(hs) /\ \A g \in 1..Len(hs) : hs'[g].buf = hs[g].buf \/ hs'[g].buf = << >> \/ Within(t, g)
    BY <1>14, JoinFacts DEF Within, Holding, SameHs, Closes, Join
  <2>. QED
    BY <2>1, <2>2, <2>3, <2>4, UnsharedFrame
<1>15. ASSUME NEW t \in Threads, Del(t) PROVE Unshared'
  <2>1. SameRq(t) /\ rq'[t].pc # "register"
    BY <1>15, DelFacts DEF Rests
  <2>2. rq'[t].pc \in Holding => Within(t, rq'[t].h)
    BY <1>15, DelFacts, RefsNow DEF Within, Holding, Rests, SameJob
  <2>3. /\ \A m \in Names : opened'[m] = 0 \/ Within(t, opened'[m])
        /\ \A u \in Threads : conn'[u] = 0 \/ Within(t, conn'[u])
    BY <1>15, DelFacts, RefsNow DEF Within, Holding
  <2>4. Len(hs') = Len(hs) /\ \A g \in 1..Len(hs) : hs'[g].buf = hs[g].buf \/ hs'[g].buf = << >> \/ Within(t, g)
    BY <1>15, DelFacts DEF Within, Holding, SameHs, Closes
  <2>. QED
    BY <2>1, <2>2, <2>3, <2>4, UnsharedFrame
<1>16. ASSUME NEW t \in Threads, Rmtree(t) PROVE Unshared'
  <2>1. SameRq(t) /\ rq'[t].pc # "register"
    BY <1>16, RmtreeFacts DEF Rests
  <2>2. rq'[t].pc \in Holding => Within(t, rq'[t].h)
    BY <1>16, RmtreeFacts, RefsNow DEF Within, Holding, Rests, SameJob
  <2>3. /\ \A m \in Names : opened'[m] = 0 \/ Within(t, opened'[m])
        /\ \A u \in Threads : conn'[u] = 0 \/ Within(t, conn'[u])
    BY <1>16, RmtreeFacts, RefsNow DEF Within, Holding
  <2>4. Len(hs') = Len(hs) /\ \A g \in 1..Len(hs) : hs'[g].buf = hs[g].buf \/ hs'[g].buf = << >> \/ Within(t, g)
    BY <1>16, RmtreeFacts DEF Within, Holding, SameHs, Closes
  <2>. QED
    BY <2>1, <2>2, <2>3, <2>4, UnsharedFrame
<1>17. ASSUME NEW t \in Threads, NEW kind \in Kinds, Walk(t, kind) PROVE Unshared'
  <2>1. SameRq(t) /\ rq'[t].pc # "register"
    BY <1>17, WalkFacts DEF Rests
  <2>2. rq'[t].pc \in Holding => Within(t, rq'[t].h)
    BY <1>17, WalkFacts, RefsNow DEF Within, Holding, Rests, SameJob
  <2>3. /\ \A m \in Names : opened'[m] = 0 \/ Within(t, opened'[m])
        /\ \A u \in Threads : conn'[u] = 0 \/ Within(t, conn'[u])
    BY <1>17, WalkFacts, RefsNow DEF Within, Holding
  <2>4. Len(hs') = Len(hs) /\ \A g \in 1..Len(hs) : hs'[g].buf = hs[g].buf \/ hs'[g].buf = << >> \/ Within(t, g)
    BY <1>17, WalkFacts DEF Within, Holding, SameHs, Closes
  <2>. QED
    BY <2>1, <2>2, <2>3, <2>4, UnsharedFrame
<1>18. ASSUME NEW t \in Threads, NEW n \in Names, Visit(t, n) PROVE Unshared'
  <2>1. SameRq(t) /\ rq'[t].pc # "register"
    BY <1>18, VisitFacts DEF Rests
  <2>2. rq'[t].pc \in Holding => Within(t, rq'[t].h)
    BY <1>18, VisitFacts, RefsNow DEF Within, Holding, Rests, SameJob
  <2>3. /\ \A m \in Names : opened'[m] = 0 \/ Within(t, opened'[m])
        /\ \A u \in Threads : conn'[u] = 0 \/ Within(t, conn'[u])
    BY <1>18, VisitFacts, RefsNow DEF Within, Holding
  <2>4. \A g \in 1..Len(hs) : hs'[g].buf = hs[g].buf \/ hs'[g].buf = << >> \/ Within(t, g)
    <3>1. hs' = hs \/ Closes(opened[n])
      BY <1>18, VisitFacts
    <3>2. Closes(opened[n]) => \A g \in 1..Len(hs) : hs'[g].buf = hs[g].buf
      BY DEF Closes, SameHs
    <3>. QED
      BY <3>1, <3>2
  <2>. QED
    BY <2>1, <2>2, <2>3, <2>4, UnsharedFrame
<1>19. ASSUME NEW t \in Threads, Walked(t) PROVE Unshared'
  <2>1. SameRq(t) /\ rq'[t].pc # "register"
    BY <1>19, WalkedFacts DEF Rests
  <2>2. rq'[t].pc \in Holding => Within(t, rq'[t].h)
    BY <1>19, WalkedFacts, RefsNow DEF Within, Holding, Rests, SameJob
  <2>3. /\ \A m \in Names : opened'[m] = 0 \/ Within(t, opened'[m])
        /\ \A u \in Threads : conn'[u] = 0 \/ Within(t, conn'[u])
    BY <1>19, WalkedFacts, RefsNow DEF Within, Holding
  <2>4. Len(hs') = Len(hs) /\ \A g \in 1..Len(hs) : hs'[g].buf = hs[g].buf \/ hs'[g].buf = << >> \/ Within(t, g)
    BY <1>19, WalkedFacts DEF Within, Holding, SameHs, Closes
  <2>. QED
    BY <2>1, <2>2, <2>3, <2>4, UnsharedFrame
<1>20. ASSUME Exit PROVE Unshared'
  BY <1>20, ExitFacts, IdleFacts DEF Unshared
<1>21. ASSUME Boot PROVE Unshared'
  BY <1>21, BootFacts, RestartedInv, PTL
<1>. QED
  BY <1>1, <1>2, <1>3, <1>4, <1>5, <1>6, <1>7, <1>8, <1>9, <1>10, <1>11, <1>12, <1>13, <1>14, <1>15, <1>16, <1>17, <1>18, <1>19, <1>20, <1>21 DEF Next, Serve

-----------------------------------------------------------------------------
(* Chains.                                                                  *)

LEMMA AppendChained ==
  ASSUME NEW s \in Seq(Ops), NEW o \in Ops, Chained(s), o.prev = HeadOf(s)
  PROVE  Chained(Append(s, o))
<1>. DEFINE a == Append(s, o)
<1>0. Len(s) \in Nat
  BY LenProperties
<1>1. /\ Len(a) = Len(s) + 1 /\ \A i \in 1..Len(s) : a[i] = s[i]
      /\ a[Len(s) + 1] = o
  BY AppendOps
<1>. HIDE DEF a
<1>. SUFFICES ASSUME NEW i \in 1..(Len(s) + 1) PROVE a[i].prev = IF i = 1 THEN GENESIS ELSE a[i - 1].w
  BY <1>1 DEF Chained, a
<1>2. CASE i \in 1..Len(s)
  <2>1. i # 1 => i - 1 \in 1..Len(s)
    BY <1>0, <1>2
  <2>. QED
    BY <1>1, <1>2, <2>1 DEF Chained
<1>3. CASE i = Len(s) + 1
  <2>1. CASE s = << >>
    <3>1. Len(s) = 0 /\ i = 1
      BY <1>3, <2>1, EmptySeq
    <3>2. o.prev = GENESIS
      BY <2>1 DEF HeadOf
    <3>. QED
      BY <1>1, <1>3, <3>1, <3>2
  <2>2. CASE s # << >>
    <3>1. Len(s) # 0
      BY <2>2, EmptySeq
    <3>2. i # 1 /\ i - 1 = Len(s) /\ Len(s) \in 1..Len(s)
      BY <1>0, <1>3, <3>1
    <3>3. o.prev = s[Len(s)].w
      BY <2>2 DEF HeadOf, Last
    <3>. QED
      BY <1>1, <1>3, <3>2, <3>3
  <2>. QED
    BY <2>1, <2>2
<1>. QED
  BY <1>0, <1>2, <1>3

LEMMA ChainsFrame ==
  ASSUME TypeInv, Chains, NEW t \in Threads, SameRq(t), Len(hs') = Len(hs),
         \A g \in 1..Len(hs) : SameLog(g), rq'[t].pc \notin {"read", "append"}
  PROVE  Chains'
  BY DEF Chains, SameLog, SameRq, InAppend

LEMMA ChainsStep ==
  ASSUME TypeInv, Refs, Inodes, Queues, Closers, Chains, TypeInv', Next
  PROVE  Chains'
<1>1. ASSUME NEW t \in Threads, NEW kind \in Kinds, NEW n \in Names, Begin(t, kind, n) PROVE Chains'
  <2>1. SameRq(t) /\ Len(hs') = Len(hs) /\ \A g \in 1..Len(hs) : SameLog(g)
    BY <1>1, BeginFacts DEF SameHs, SameLog, Closes
  <2>2. rq'[t].pc \notin {"read", "append"}
    BY <1>1, BeginFacts DEF Rests
  <2>. QED
    BY <2>1, <2>2, ChainsFrame
<1>2. ASSUME NEW t \in Threads, Select(t) PROVE Chains'
  BY <1>2, SelectFacts DEF Chains, InAppend
<1>3. ASSUME NEW t \in Threads, CheckExists(t) PROVE Chains'
  <2>1. SameRq(t) /\ Len(hs') = Len(hs) /\ \A g \in 1..Len(hs) : SameLog(g)
    BY <1>3, CheckExistsFacts DEF SameHs, SameLog, Closes
  <2>2. rq'[t].pc \notin {"read", "append"}
    BY <1>3, CheckExistsFacts DEF Rests
  <2>. QED
    BY <2>1, <2>2, ChainsFrame
<1>4. ASSUME NEW t \in Threads, OpenTest(t) PROVE Chains'
  <2>1. SameRq(t) /\ Len(hs') = Len(hs) /\ \A g \in 1..Len(hs) : SameLog(g)
    BY <1>4, OpenTestFacts DEF SameHs, SameLog, Closes
  <2>2. rq'[t].pc \notin {"read", "append"}
    BY <1>4, OpenTestFacts DEF Rests
  <2>. QED
    BY <2>1, <2>2, ChainsFrame
<1>5. ASSUME NEW t \in Threads, Load(t) PROVE Chains'
  <2>. DEFINE k == Len(hs) + 1
  <2>0. Len(hs) \in Nat /\ k \notin 1..Len(hs)
    BY LenProperties DEF TypeInv
  <2>1. /\ Len(hs') = k /\ \A g \in 1..Len(hs) : hs'[g] = hs[g]
        /\ SameRq(t) /\ rq'[t].pc = "register"
        /\ Chained(hs'[k].ops) /\ hs'[k].head = HeadOf(hs'[k].ops)
    BY <1>5, LoadFacts
  <2>2. \A h \in 1..Len(hs') : h \in 1..Len(hs) \/ h = k
    BY <2>0, <2>1
  <2>. HIDE DEF k
  <2>3. ASSUME NEW u \in Threads, rq'[u].pc \in {"read", "append"}
        PROVE  u # t /\ rq'[u] = rq[u] /\ rq'[u].h \in 1..Len(hs) /\ rq'[u].h # k
    <3>1. u # t /\ rq'[u] = rq[u]
      BY <2>1, <2>3 DEF SameRq
    <3>2. rq[u].h \in 1..Len(hs)
      BY <2>3, <3>1 DEF Refs, Holding
    <3>. QED
      BY <2>0, <3>1, <3>2
  <2>4. ASSUME NEW h \in 1..Len(hs'), ~hs'[h].mixed
        PROVE  /\ Chained(hs'[h].ops) /\ hs'[h].head = HeadOf(hs'[h].ops)
               /\ \A u, v \in Threads : /\ rq'[u].h = h /\ rq'[u].pc \in {"read", "append"}
                                       /\ rq'[v].h = h /\ rq'[v].pc \in {"read", "append"} => u = v
               /\ \A u \in Threads : rq'[u].pc = "append" /\ rq'[u].h = h => rq'[u].op.prev = hs'[h].head
    <3>1. CASE h = k
      BY <2>1, <2>3, <3>1
    <3>2. CASE h \in 1..Len(hs)
      BY <2>1, <2>3, <2>4, <3>2 DEF Chains, InAppend
    <3>. QED
      BY <2>2, <3>1, <3>2
  <2>. QED
    BY <2>4 DEF Chains, InAppend
<1>6. ASSUME NEW t \in Threads, Register(t) PROVE Chains'
  <2>1. SameRq(t) /\ Len(hs') = Len(hs) /\ \A g \in 1..Len(hs) : SameLog(g)
    BY <1>6, RegisterFacts DEF SameHs, SameLog, Closes
  <2>2. rq'[t].pc \notin {"read", "append"}
    BY <1>6, RegisterFacts DEF Rests
  <2>. QED
    BY <2>1, <2>2, ChainsFrame
<1>7. ASSUME NEW t \in Threads, Lookup(t) PROVE Chains'
  <2>1. SameRq(t) /\ Len(hs') = Len(hs) /\ \A g \in 1..Len(hs) : SameLog(g)
    BY <1>7, LookupFacts DEF SameHs, SameLog, Closes
  <2>2. rq'[t].pc \notin {"read", "append"}
    BY <1>7, LookupFacts DEF Rests
  <2>. QED
    BY <2>1, <2>2, ChainsFrame
<1>8. ASSUME NEW t \in Threads, Submit(t) PROVE Chains'
  <2>1. SameRq(t) /\ Len(hs') = Len(hs) /\ \A g \in 1..Len(hs) : SameLog(g)
    BY <1>8, SubmitFacts DEF SameHs, SameLog, Closes
  <2>2. rq'[t].pc \notin {"read", "append"}
    BY <1>8, SubmitFacts DEF Rests
  <2>. QED
    BY <2>1, <2>2, ChainsFrame
<1>9. ASSUME NEW t \in Threads, TakeNonce(t) PROVE Chains'
  <2>. DEFINE h == rq[t].h
  <2>1. /\ SameRq(t) /\ Len(hs') = Len(hs) /\ \A g \in 1..Len(hs) : g # h => hs'[g] = hs[g]
        /\ hs'[h].ops = hs[h].ops /\ hs'[h].head = hs[h].head
        /\ rq'[t].pc = "read" /\ rq'[t].h = h /\ rq[t].pc = "nonce"
    BY <1>9, TakeNonceFacts DEF SameHs, SameJob
  <2>2. ~hs'[h].mixed => ~hs[h].mixed /\ \A u \in Threads \ {t} : ~InAppend(u, h)
    BY <1>9, TakeNonceFacts
  <2>. HIDE DEF h
  <2>3. ASSUME NEW g \in 1..Len(hs'), ~hs'[g].mixed
        PROVE  /\ Chained(hs'[g].ops) /\ hs'[g].head = HeadOf(hs'[g].ops)
               /\ \A u, v \in Threads : /\ rq'[u].h = g /\ rq'[u].pc \in {"read", "append"}
                                       /\ rq'[v].h = g /\ rq'[v].pc \in {"read", "append"} => u = v
               /\ \A u \in Threads : rq'[u].pc = "append" /\ rq'[u].h = g => rq'[u].op.prev = hs'[g].head
    <3>1. CASE g = h
      BY <2>1, <2>2, <2>3, <3>1 DEF Chains, InAppend, SameRq
    <3>2. CASE g # h
      BY <2>1, <2>3, <3>2 DEF Chains, InAppend, SameRq
    <3>. QED
      BY <3>1, <3>2
  <2>. QED
    BY <2>3 DEF Chains, InAppend
<1>10. ASSUME NEW t \in Threads, ReadHead(t) PROVE Chains'
  <2>. DEFINE h == rq[t].h
  <2>1. /\ SameRq(t) /\ hs' = hs /\ rq[t].pc = "read"
        /\ \/ rq'[t].pc \notin {"read", "append"}
           \/ rq'[t].pc = "append" /\ rq'[t].h = h /\ rq'[t].op.prev = hs[h].head
    BY <1>10, ReadHeadFacts DEF Rests
  <2>. HIDE DEF h
  <2>3. ASSUME NEW g \in 1..Len(hs), ~hs[g].mixed
        PROVE  /\ \A u, v \in Threads : /\ rq'[u].h = g /\ rq'[u].pc \in {"read", "append"}
                                       /\ rq'[v].h = g /\ rq'[v].pc \in {"read", "append"} => u = v
               /\ \A u \in Threads : rq'[u].pc = "append" /\ rq'[u].h = g => rq'[u].op.prev = hs[g].head
    <3>1. \A u, v \in Threads : InAppend(u, g) /\ InAppend(v, g) => u = v
      BY <2>3 DEF Chains
    <3>2. \A u \in Threads : rq[u].pc = "append" /\ rq[u].h = g => rq[u].op.prev = hs[g].head
      BY <2>3 DEF Chains
    <3>. QED
      BY <2>1, <3>1, <3>2 DEF InAppend, SameRq, h
  <2>. QED
    BY <2>1, <2>3 DEF Chains, InAppend
<1>11. ASSUME NEW t \in Threads, AppendOp(t) PROVE Chains'
  <2>. DEFINE h == rq[t].h
              o == rq[t].op
  <2>0. h \in 1..Len(hs) /\ hs[h].ops \in Seq(Ops) /\ o \in Ops
    BY <1>11, InHand, AppendOpFacts DEF AppendOp, Holding, Handles
  <2>1. /\ SameRq(t) /\ Len(hs') = Len(hs) /\ \A g \in 1..Len(hs) : g # h => hs'[g] = hs[g]
        /\ hs'[h].mixed = hs[h].mixed /\ hs'[h].ops = Append(hs[h].ops, o) /\ hs'[h].head = o.w
        /\ rq[t].pc = "append" /\ rq'[t].pc \notin {"read", "append"}
    BY <1>11, AppendOpFacts DEF SameHs, Rests
  <2>2. ~hs[h].mixed =>
          /\ Chained(hs[h].ops) /\ o.prev = HeadOf(hs[h].ops)
          /\ \A u \in Threads : InAppend(u, h) => u = t
    BY <2>0, <2>1 DEF Chains, InAppend
  <2>. HIDE DEF h, o
  <2>3. ASSUME NEW g \in 1..Len(hs'), ~hs'[g].mixed
        PROVE  /\ Chained(hs'[g].ops) /\ hs'[g].head = HeadOf(hs'[g].ops)
               /\ \A u, v \in Threads : /\ rq'[u].h = g /\ rq'[u].pc \in {"read", "append"}
                                       /\ rq'[v].h = g /\ rq'[v].pc \in {"read", "append"} => u = v
               /\ \A u \in Threads : rq'[u].pc = "append" /\ rq'[u].h = g => rq'[u].op.prev = hs'[g].head
    <3>1. CASE g = h
      <4>1. ~hs[h].mixed
        BY <2>1, <2>3, <3>1
      <4>2. Chained(Append(hs[h].ops, o)) /\ HeadOf(Append(hs[h].ops, o)) = o.w
        BY <2>0, <2>2, <4>1, AppendChained, AppendOps
      <4>3. \A u \in Threads : ~(rq'[u].h = h /\ rq'[u].pc \in {"read", "append"})
        BY <2>1, <2>2, <4>1 DEF InAppend, SameRq
      <4>. QED
        BY <2>1, <3>1, <4>2, <4>3
    <3>2. CASE g # h
      BY <2>1, <2>3, <3>2 DEF Chains, InAppend, SameRq
    <3>. QED
      BY <3>1, <3>2
  <2>. QED
    BY <2>3 DEF Chains, InAppend
<1>12. ASSUME NEW t \in Threads, FlushAndWake(t) PROVE Chains'
  <2>1. SameRq(t) /\ Len(hs') = Len(hs) /\ \A g \in 1..Len(hs) : SameLog(g)
    BY <1>12, FlushAndWakeFacts DEF SameHs, SameLog, Closes
  <2>2. rq'[t].pc \notin {"read", "append"}
    BY <1>12, FlushAndWakeFacts DEF Rests
  <2>. QED
    BY <2>1, <2>2, ChainsFrame
<1>13. ASSUME NEW t \in Threads, DropClose(t) PROVE Chains'
  <2>1. SameRq(t) /\ Len(hs') = Len(hs) /\ \A g \in 1..Len(hs) : SameLog(g)
    BY <1>13, DropCloseFacts DEF SameHs, SameLog, Closes
  <2>2. rq'[t].pc \notin {"read", "append"}
    BY <1>13, DropCloseFacts DEF Rests
  <2>. QED
    BY <2>1, <2>2, ChainsFrame
<1>14. ASSUME NEW t \in Threads, Join(t) PROVE Chains'
  <2>1. SameRq(t) /\ Len(hs') = Len(hs) /\ \A g \in 1..Len(hs) : SameLog(g)
    BY <1>14, JoinFacts DEF SameHs, SameLog, Closes
  <2>2. rq'[t].pc \notin {"read", "append"}
    BY <1>14, JoinFacts DEF Rests
  <2>. QED
    BY <2>1, <2>2, ChainsFrame
<1>15. ASSUME NEW t \in Threads, Del(t) PROVE Chains'
  <2>1. SameRq(t) /\ Len(hs') = Len(hs) /\ \A g \in 1..Len(hs) : SameLog(g)
    BY <1>15, DelFacts DEF SameHs, SameLog, Closes
  <2>2. rq'[t].pc \notin {"read", "append"}
    BY <1>15, DelFacts DEF Rests
  <2>. QED
    BY <2>1, <2>2, ChainsFrame
<1>16. ASSUME NEW t \in Threads, Rmtree(t) PROVE Chains'
  <2>1. SameRq(t) /\ Len(hs') = Len(hs) /\ \A g \in 1..Len(hs) : SameLog(g)
    BY <1>16, RmtreeFacts DEF SameHs, SameLog, Closes
  <2>2. rq'[t].pc \notin {"read", "append"}
    BY <1>16, RmtreeFacts DEF Rests
  <2>. QED
    BY <2>1, <2>2, ChainsFrame
<1>17. ASSUME NEW t \in Threads, NEW kind \in Kinds, Walk(t, kind) PROVE Chains'
  <2>1. SameRq(t) /\ Len(hs') = Len(hs) /\ \A g \in 1..Len(hs) : SameLog(g)
    BY <1>17, WalkFacts DEF SameHs, SameLog, Closes
  <2>2. rq'[t].pc \notin {"read", "append"}
    BY <1>17, WalkFacts DEF Rests
  <2>. QED
    BY <2>1, <2>2, ChainsFrame
<1>18. ASSUME NEW t \in Threads, NEW n \in Names, Visit(t, n) PROVE Chains'
  <2>1. SameRq(t) /\ Len(hs') = Len(hs) /\ \A g \in 1..Len(hs) : SameLog(g)
    BY <1>18, VisitFacts DEF SameHs, SameLog, Closes
  <2>2. rq'[t].pc \notin {"read", "append"}
    BY <1>18, VisitFacts DEF Rests
  <2>. QED
    BY <2>1, <2>2, ChainsFrame
<1>19. ASSUME NEW t \in Threads, Walked(t) PROVE Chains'
  <2>1. SameRq(t) /\ Len(hs') = Len(hs) /\ \A g \in 1..Len(hs) : SameLog(g)
    BY <1>19, WalkedFacts DEF SameHs, SameLog, Closes
  <2>2. rq'[t].pc \notin {"read", "append"}
    BY <1>19, WalkedFacts DEF Rests
  <2>. QED
    BY <2>1, <2>2, ChainsFrame
<1>20. ASSUME Exit PROVE Chains'
  <2>1. hs' = << >> /\ 1..Len(hs') = {}
    BY <1>20, ExitFacts
  <2>. QED
    BY <2>1 DEF Chains
<1>21. ASSUME Boot PROVE Chains'
  BY <1>21, BootFacts, RestartedInv, PTL
<1>. QED
  BY <1>1, <1>2, <1>3, <1>4, <1>5, <1>6, <1>7, <1>8, <1>9, <1>10, <1>11, <1>12, <1>13, <1>14, <1>15, <1>16, <1>17, <1>18, <1>19, <1>20, <1>21 DEF Next, Serve

-----------------------------------------------------------------------------
(* What a file holds stays, until a drop takes it.                          *)

Grows ==
  /\ Len(files) <= Len(files')
  /\ \A i \in 1..Len(files) : Writes(files[i]) \subseteq Writes(files'[i])

LEMMA FlushedGrows ==
  ASSUME TypeInv, Refs, NEW h \in 1..Len(hs), Flushed(h)
  PROVE  /\ Grows
         /\ hs[h].aof => Buffered(h) \subseteq Writes(files'[hs[h].ino])
<1>0. Len(files) \in Nat /\ \A i \in 1..Len(files) : files[i] \in Seq(Ops)
  BY LenProperties, ElementOfSeq DEF TypeInv
<1>1. hs[h].ino \in 1..Len(files) /\ hs[h].buf \in Seq(Ops)
  BY HandleType DEF Refs, Handles
<1>2. /\ Len(files') = Len(files)
      /\ \A i \in 1..Len(files) : i # hs[h].ino => files'[i] = files[i]
      /\ files'[hs[h].ino] = IF hs[h].aof THEN files[hs[h].ino] \o hs[h].buf ELSE files[hs[h].ino]
  BY FlushedFacts
<1>3. Writes(files[hs[h].ino] \o hs[h].buf) = Writes(files[hs[h].ino]) \cup Writes(hs[h].buf)
  BY <1>0, <1>1, ConcatOps
<1>4. /\ Writes(files[hs[h].ino]) \subseteq Writes(files'[hs[h].ino])
      /\ hs[h].aof => Writes(hs[h].buf) \subseteq Writes(files'[hs[h].ino])
  BY <1>2, <1>3
<1>5. \A i \in 1..Len(files) : Writes(files[i]) \subseteq Writes(files'[i])
  BY <1>2, <1>4
<1>. QED
  BY <1>0, <1>2, <1>4, <1>5 DEF Grows, Buffered

LEMMA NothingLost ==
  ASSUME TypeInv
  PROVE  Len(files) \in Nat /\ Len(files) <= Len(files) /\ (files' = files => Grows)
  BY LenProperties DEF TypeInv, Grows

LEMMA GrowsStep ==
  ASSUME TypeInv, Refs, Inodes, Queues, Closers, Next, ~Boot
  PROVE  Grows
<1>1. ASSUME NEW t \in Threads, NEW kind \in Kinds, NEW n \in Names, Begin(t, kind, n) PROVE Grows
  BY <1>1, BeginFacts, NothingLost
<1>2. ASSUME NEW t \in Threads, Select(t) PROVE Grows
  BY <1>2, SelectFacts, NothingLost
<1>3. ASSUME NEW t \in Threads, CheckExists(t) PROVE Grows
  BY <1>3, CheckExistsFacts, NothingLost
<1>4. ASSUME NEW t \in Threads, OpenTest(t) PROVE Grows
  BY <1>4, OpenTestFacts, NothingLost
<1>5. ASSUME NEW t \in Threads, Load(t) PROVE Grows
  <2>1. /\ \A i \in 1..Len(files) : files'[i] = files[i]
        /\ Len(files') = Len(files) \/ Len(files') = Len(files) + 1
    BY <1>5, LoadFacts
  <2>. QED
    BY <2>1, NothingLost DEF Grows
<1>6. ASSUME NEW t \in Threads, Register(t) PROVE Grows
  BY <1>6, RegisterFacts, NothingLost
<1>7. ASSUME NEW t \in Threads, Lookup(t) PROVE Grows
  BY <1>7, LookupFacts, NothingLost
<1>8. ASSUME NEW t \in Threads, Submit(t) PROVE Grows
  BY <1>8, SubmitFacts, NothingLost
<1>9. ASSUME NEW t \in Threads, TakeNonce(t) PROVE Grows
  BY <1>9, TakeNonceFacts, NothingLost
<1>10. ASSUME NEW t \in Threads, ReadHead(t) PROVE Grows
  BY <1>10, ReadHeadFacts, NothingLost
<1>11. ASSUME NEW t \in Threads, AppendOp(t) PROVE Grows
  BY <1>11, AppendOpFacts, NothingLost
<1>12. ASSUME NEW t \in Threads, FlushAndWake(t) PROVE Grows
  <2>1. rq[t].h \in 1..Len(hs) /\ Flushed(rq[t].h)
    BY <1>12, InHand, FlushAndWakeFacts DEF Holding, FlushAndWake
  <2>. QED
    BY <2>1, FlushedGrows
<1>13. ASSUME NEW t \in Threads, DropClose(t) PROVE Grows
  BY <1>13, DropCloseFacts, NothingLost
<1>14. ASSUME NEW t \in Threads, Join(t) PROVE Grows
  <2>1. rq[t].h \in 1..Len(hs) /\ Flushed(rq[t].h)
    BY <1>14, InHand, JoinFacts DEF Holding, Join
  <2>. QED
    BY <2>1, FlushedGrows
<1>15. ASSUME NEW t \in Threads, Del(t) PROVE Grows
  BY <1>15, DelFacts, NothingLost
<1>16. ASSUME NEW t \in Threads, Rmtree(t) PROVE Grows
  BY <1>16, RmtreeFacts, NothingLost
<1>17. ASSUME NEW t \in Threads, NEW kind \in Kinds, Walk(t, kind) PROVE Grows
  BY <1>17, WalkFacts, NothingLost
<1>18. ASSUME NEW t \in Threads, NEW n \in Names, Visit(t, n) PROVE Grows
  BY <1>18, VisitFacts, NothingLost
<1>19. ASSUME NEW t \in Threads, Walked(t) PROVE Grows
  BY <1>19, WalkedFacts, NothingLost
<1>20. ASSUME Exit PROVE Grows
  BY <1>20, ExitFacts, NothingLost DEF Grows
<1>. QED
  BY <1>1, <1>2, <1>3, <1>4, <1>5, <1>6, <1>7, <1>8, <1>9, <1>10, <1>11, <1>12, <1>13, <1>14, <1>15, <1>16, <1>17, <1>18, <1>19, <1>20 DEF Next, Serve

\* What is in a database's log, or was when a drop took it.
Saved(n) == removed \cup Written(dir[n])

LEMMA SavedNow ==
  ASSUME TypeInv, Refs, NEW n \in Names
  PROVE  /\ dir[n] = 0 => Saved(n) = removed
         /\ dir[n] # 0 => dir[n] \in 1..Len(files) /\ Saved(n) = removed \cup Writes(files[dir[n]])
<1>1. dir[n] \in Nat /\ dir[n] <= Len(files) /\ Len(files) \in Nat
  BY LenProperties DEF TypeInv, Refs
<1>2. dir[n] = 0 => Saved(n) = removed
  BY DEF Saved, Written
<1>3. ASSUME dir[n] # 0 PROVE dir[n] \in 1..Len(files) /\ Saved(n) = removed \cup Writes(files[dir[n]])
  <2>1. dir[n] \in 1..Len(files)
    BY <1>1, <1>3
  <2>2. files[dir[n]] \in Seq(Ops)
    BY <2>1, ElementOfSeq DEF TypeInv
  <2>3. DOMAIN files[dir[n]] = 1..Len(files[dir[n]])
    BY <2>2, LenProperties
  <2>. QED
    BY <1>3, <2>1, <2>3 DEF Saved, Written, Writes
<1>. QED
  BY <1>2, <1>3

LEMMA SavedNext ==
  ASSUME TypeInv', Refs', NEW n \in Names
  PROVE  /\ dir'[n] = 0 => Saved(n)' = removed'
         /\ dir'[n] # 0 => dir'[n] \in 1..Len(files') /\ Saved(n)' = removed' \cup Writes(files'[dir'[n]])
<1>1. dir'[n] \in Nat /\ dir'[n] <= Len(files') /\ Len(files') \in Nat
  BY LenProperties DEF TypeInv, Refs
<1>2. dir'[n] = 0 => Saved(n)' = removed'
  BY DEF Saved, Written
<1>3. ASSUME dir'[n] # 0 PROVE dir'[n] \in 1..Len(files') /\ Saved(n)' = removed' \cup Writes(files'[dir'[n]])
  <2>1. dir'[n] \in 1..Len(files')
    BY <1>1, <1>3
  <2>2. files'[dir'[n]] \in Seq(Ops)
    BY <2>1, ElementOfSeq DEF TypeInv
  <2>3. DOMAIN files'[dir'[n]] = 1..Len(files'[dir'[n]])
    BY <2>2, LenProperties
  <2>. QED
    BY <1>3, <2>1, <2>3 DEF Saved, Written, Writes
<1>. QED
  BY <1>2, <1>3

LEMMA SavedFrame ==
  ASSUME TypeInv, Refs, TypeInv', Refs', Grows, NEW n \in Names, dir'[n] = dir[n], removed \subseteq removed'
  PROVE  Saved(n) \subseteq Saved(n)'
  BY SavedNow, SavedNext DEF Grows

LEMMA SavedServe ==
  ASSUME TypeInv, Refs, Inodes, Queues, Closers, TypeInv', Refs', Grows, NEW m \in Names, NEW s \in Threads, Serve(s)
  PROVE  Saved(m) \subseteq Saved(m)'
<1>1. ASSUME NEW t \in Threads, NEW kind \in Kinds, NEW n \in Names, Begin(t, kind, n) PROVE Saved(m) \subseteq Saved(m)'
  <2>1. dir'[m] = dir[m] /\ removed' = removed
    BY <1>1, BeginFacts
  <2>. QED
    BY <2>1, SavedFrame
<1>2. ASSUME NEW t \in Threads, Select(t) PROVE Saved(m) \subseteq Saved(m)'
  <2>1. dir'[m] = dir[m] /\ removed' = removed
    BY <1>2, SelectFacts
  <2>. QED
    BY <2>1, SavedFrame
<1>3. ASSUME NEW t \in Threads, CheckExists(t) PROVE Saved(m) \subseteq Saved(m)'
  <2>1. dir'[m] = dir[m] /\ removed' = removed
    BY <1>3, CheckExistsFacts
  <2>. QED
    BY <2>1, SavedFrame
<1>4. ASSUME NEW t \in Threads, OpenTest(t) PROVE Saved(m) \subseteq Saved(m)'
  <2>1. dir'[m] = dir[m] /\ removed' = removed
    BY <1>4, OpenTestFacts
  <2>. QED
    BY <2>1, SavedFrame
<1>5. ASSUME NEW t \in Threads, Load(t) PROVE Saved(m) \subseteq Saved(m)'
  <2>1. \/ dir'[m] = dir[m] /\ removed' = removed
        \/ dir[m] = 0 /\ removed' = removed
        \/ dir'[m] = Len(files) + 1 /\ removed' = removed /\ Writes(files'[dir'[m]]) = Writes(files[dir[m]])
    BY <1>5, LoadFacts
  <2>3. CASE dir'[m] = dir[m] /\ removed' = removed
    BY <2>3, SavedFrame
  <2>4. CASE dir[m] = 0 /\ removed' = removed
    BY <2>4, SavedNow, SavedNext
  <2>5. CASE dir'[m] = Len(files) + 1 /\ removed' = removed /\ Writes(files'[dir'[m]]) = Writes(files[dir[m]])
    <3>1. dir'[m] # 0
      BY <2>5, LenProperties DEF TypeInv
    <3>. QED
      BY <2>5, <3>1, SavedNow, SavedNext
  <2>. QED
    BY <2>1, <2>3, <2>4, <2>5
<1>6. ASSUME NEW t \in Threads, Register(t) PROVE Saved(m) \subseteq Saved(m)'
  <2>1. dir'[m] = dir[m] /\ removed' = removed
    BY <1>6, RegisterFacts
  <2>. QED
    BY <2>1, SavedFrame
<1>7. ASSUME NEW t \in Threads, Lookup(t) PROVE Saved(m) \subseteq Saved(m)'
  <2>1. dir'[m] = dir[m] /\ removed' = removed
    BY <1>7, LookupFacts
  <2>. QED
    BY <2>1, SavedFrame
<1>8. ASSUME NEW t \in Threads, Submit(t) PROVE Saved(m) \subseteq Saved(m)'
  <2>1. dir'[m] = dir[m] /\ removed' = removed
    BY <1>8, SubmitFacts
  <2>. QED
    BY <2>1, SavedFrame
<1>9. ASSUME NEW t \in Threads, TakeNonce(t) PROVE Saved(m) \subseteq Saved(m)'
  <2>1. dir'[m] = dir[m] /\ removed' = removed
    BY <1>9, TakeNonceFacts
  <2>. QED
    BY <2>1, SavedFrame
<1>10. ASSUME NEW t \in Threads, ReadHead(t) PROVE Saved(m) \subseteq Saved(m)'
  <2>1. dir'[m] = dir[m] /\ removed' = removed
    BY <1>10, ReadHeadFacts
  <2>. QED
    BY <2>1, SavedFrame
<1>11. ASSUME NEW t \in Threads, AppendOp(t) PROVE Saved(m) \subseteq Saved(m)'
  <2>1. dir'[m] = dir[m] /\ removed' = removed
    BY <1>11, AppendOpFacts
  <2>. QED
    BY <2>1, SavedFrame
<1>12. ASSUME NEW t \in Threads, FlushAndWake(t) PROVE Saved(m) \subseteq Saved(m)'
  <2>1. dir'[m] = dir[m] /\ removed' = removed
    BY <1>12, FlushAndWakeFacts
  <2>. QED
    BY <2>1, SavedFrame
<1>13. ASSUME NEW t \in Threads, DropClose(t) PROVE Saved(m) \subseteq Saved(m)'
  <2>1. dir'[m] = dir[m] /\ removed' = removed
    BY <1>13, DropCloseFacts
  <2>. QED
    BY <2>1, SavedFrame
<1>14. ASSUME NEW t \in Threads, Join(t) PROVE Saved(m) \subseteq Saved(m)'
  <2>1. dir'[m] = dir[m] /\ removed' = removed
    BY <1>14, JoinFacts
  <2>. QED
    BY <2>1, SavedFrame
<1>15. ASSUME NEW t \in Threads, Del(t) PROVE Saved(m) \subseteq Saved(m)'
  <2>1. dir'[m] = dir[m] /\ removed' = removed
    BY <1>15, DelFacts
  <2>. QED
    BY <2>1, SavedFrame
<1>16. ASSUME NEW t \in Threads, Rmtree(t) PROVE Saved(m) \subseteq Saved(m)'
  <2>1. /\ removed' = removed \cup Written(dir[rq[t].name]) /\ files' = files
        /\ m = rq[t].name \/ dir'[m] = dir[m]
    BY <1>16, RmtreeFacts
  <2>2. CASE m = rq[t].name
    BY <2>1, <2>2 DEF Saved
  <2>3. CASE dir'[m] = dir[m]
    BY <2>1, <2>3, SavedFrame
  <2>. QED
    BY <2>1, <2>2, <2>3
<1>17. ASSUME NEW t \in Threads, NEW kind \in Kinds, Walk(t, kind) PROVE Saved(m) \subseteq Saved(m)'
  <2>1. dir'[m] = dir[m] /\ removed' = removed
    BY <1>17, WalkFacts
  <2>. QED
    BY <2>1, SavedFrame
<1>18. ASSUME NEW t \in Threads, NEW n \in Names, Visit(t, n) PROVE Saved(m) \subseteq Saved(m)'
  <2>1. dir'[m] = dir[m] /\ removed' = removed
    BY <1>18, VisitFacts
  <2>. QED
    BY <2>1, SavedFrame
<1>19. ASSUME NEW t \in Threads, Walked(t) PROVE Saved(m) \subseteq Saved(m)'
  <2>1. dir'[m] = dir[m] /\ removed' = removed
    BY <1>19, WalkedFacts
  <2>. QED
    BY <2>1, SavedFrame
<1>. QED
  BY <1>1, <1>2, <1>3, <1>4, <1>5, <1>6, <1>7, <1>8, <1>9, <1>10, <1>11, <1>12, <1>13, <1>14, <1>15, <1>16, <1>17, <1>18, <1>19 DEF Serve

\* No step loses what is in the log of a database, but for a drop, which is remembered.
LEMMA SavedStep ==
  ASSUME TypeInv, Refs, Inodes, Queues, Closers, TypeInv', Refs', Next, NEW m \in Names
  PROVE  Saved(m) \subseteq Saved(m)'
<1>1. CASE Boot
  <2>1. /\ dir[m] = 0 => dir'[m] = 0
        /\ dir[m] # 0 => dir'[m] # 0 /\ Writes(files'[dir'[m]]) = Writes(files[dir[m]])
        /\ removed' = removed
    BY <1>1, BootFacts
  <2>. QED
    BY <2>1, SavedNow, SavedNext
<1>2. CASE ~Boot
  <2>1. Grows
    BY <1>2, GrowsStep
  <2>2. CASE Exit
    <3>1. dir' = dir /\ removed' = removed
      BY <2>2, ExitFacts
    <3>. QED
      BY <2>1, <3>1, SavedFrame
  <2>3. CASE \E t \in Threads : Serve(t)
    BY <2>1, <2>3, SavedServe
  <2>. QED
    BY <1>2, <2>2, <2>3 DEF Next
<1>. QED
  BY <1>1, <1>2

-----------------------------------------------------------------------------
(* A write on its way to the file.                                          *)

LEMMA WrittenNow == ASSUME TypeInv PROVE \A i \in 1..Len(files) : Written(i) = Writes(files[i])
<1>. SUFFICES ASSUME NEW i \in 1..Len(files) PROVE Written(i) = Writes(files[i])
  OBVIOUS
<1>1. files[i] \in Seq(Ops) /\ i # 0
  BY ElementOfSeq, LenProperties DEF TypeInv
<1>2. DOMAIN files[i] = 1..Len(files[i])
  BY <1>1, LenProperties
<1>. QED
  BY <1>1, <1>2 DEF Written, Writes

LEMMA WrittenNext == ASSUME TypeInv' PROVE \A i \in 1..Len(files') : Written(i)' = Writes(files'[i])
<1>. SUFFICES ASSUME NEW i \in 1..Len(files') PROVE Written(i)' = Writes(files'[i])
  OBVIOUS
<1>1. files'[i] \in Seq(Ops) /\ i # 0
  BY ElementOfSeq, LenProperties DEF TypeInv
<1>2. DOMAIN files'[i] = 1..Len(files'[i])
  BY <1>1, LenProperties
<1>. QED
  BY <1>1, <1>2 DEF Written, Writes

LEMMA PendingFrame ==
  ASSUME TypeInv, Refs, Queues, Pending, TypeInv', Refs', Grows, NEW t \in Threads, SameRq(t),
         rq'[t].pc = "flush" => rq'[t].op.w \in Writes(hs'[rq'[t].h].buf),
         \A g \in 1..Len(hs) : hs'[g].ino = hs[g].ino,
         \A g \in 1..Len(hs) :
           \/ hs[g].q = << >>
           \/ Buffered(g) \subseteq Writes(hs'[g].buf) \cup Writes(files'[hs[g].ino])
  PROVE  Pending'
<1>1. ASSUME NEW u \in Threads, rq'[u].pc = "flush"
      PROVE  rq'[u].op.w \in Writes(hs'[rq'[u].h].buf) \cup Writes(files'[hs'[rq'[u].h].ino])
  <2>1. CASE u = t
    BY <1>1, <2>1
  <2>2. CASE u # t
    <3>1. rq'[u] = rq[u] /\ rq[u].pc = "flush"
      BY <1>1, <2>2 DEF SameRq
    <3>. DEFINE g == rq[u].h
                i == hs[g].ino
    <3>2. g \in 1..Len(hs) /\ i \in 1..Len(files) /\ hs'[g].ino = i
      BY <3>1 DEF Refs, Holding
    <3>3. hs[g].q # << >>
      BY <3>1 DEF Queues, Committing, First, Direct
    <3>4. rq[u].op.w \in Buffered(g) \cup Writes(files[i])
      BY <3>1, <3>2, WrittenNow DEF Pending
    <3>5. Writes(files[i]) \subseteq Writes(files'[i])
      BY <3>2 DEF Grows
    <3>. HIDE DEF g, i
    <3>6. rq[u].op.w \in Writes(hs'[g].buf) \cup Writes(files'[hs[g].ino])
      BY <3>2, <3>3, <3>4, <3>5 DEF i
    <3>. QED
      BY <3>1, <3>2, <3>6 DEF g, i
  <2>. QED
    BY <2>1, <2>2
<1>2. \A u \in Threads : rq'[u].pc = "flush" => hs'[rq'[u].h].ino \in 1..Len(files')
  BY DEF Refs, Holding
<1>3. \A i \in 1..Len(files') : Written(i)' = Writes(files'[i])
  BY WrittenNext
<1>4. ASSUME NEW u \in Threads, rq'[u].pc = "flush"
      PROVE  (rq[u].op.w \in Buffered(rq[u].h) \cup Written(hs[rq[u].h].ino))'
  <2>1. PICK i \in 1..Len(files') : i = hs'[rq'[u].h].ino
    BY <1>2, <1>4
  <2>2. Written(i)' = Writes(files'[i])
    BY <1>3
  <2>3. Written(hs[rq[u].h].ino)' = Writes(files'[i])
    BY <2>1, <2>2 DEF Written
  <2>. QED
    BY <1>1, <1>4, <2>1, <2>3 DEF Buffered
<1>. QED
  BY <1>4 DEF Pending

LEMMA PendingServe ==
  ASSUME TypeInv, Refs, Inodes, Queues, Closers, Pending, TypeInv', Refs', Grows, NEW s \in Threads, Serve(s)
  PROVE  Pending'
<1>1. ASSUME NEW t \in Threads, NEW kind \in Kinds, NEW n \in Names, Begin(t, kind, n) PROVE Pending'
  <2>1. /\ SameRq(t) /\ rq'[t].pc # "flush"
        /\ \A g \in 1..Len(hs) : hs'[g].ino = hs[g].ino
    BY <1>1, BeginFacts DEF Rests, SameHs, SameFile, Closes
  <2>2. \A g \in 1..Len(hs) : hs'[g].buf = hs[g].buf
    BY <1>1, BeginFacts DEF SameHs, Closes
  <2>. QED
    BY <2>1, <2>2, PendingFrame DEF Buffered
<1>2. ASSUME NEW t \in Threads, Select(t) PROVE Pending'
  <2>1. rq' = rq /\ hs' = hs /\ files' = files
    BY <1>2, SelectFacts
  <2>. QED
    BY <2>1 DEF Pending, Written, Buffered
<1>3. ASSUME NEW t \in Threads, CheckExists(t) PROVE Pending'
  <2>1. /\ SameRq(t) /\ rq'[t].pc # "flush"
        /\ \A g \in 1..Len(hs) : hs'[g].ino = hs[g].ino
    BY <1>3, CheckExistsFacts DEF Rests, SameHs, SameFile, Closes
  <2>2. \A g \in 1..Len(hs) : hs'[g].buf = hs[g].buf
    BY <1>3, CheckExistsFacts DEF SameHs, Closes
  <2>. QED
    BY <2>1, <2>2, PendingFrame DEF Buffered
<1>4. ASSUME NEW t \in Threads, OpenTest(t) PROVE Pending'
  <2>1. /\ SameRq(t) /\ rq'[t].pc # "flush"
        /\ \A g \in 1..Len(hs) : hs'[g].ino = hs[g].ino
    BY <1>4, OpenTestFacts DEF Rests, SameHs, SameFile, Closes
  <2>2. \A g \in 1..Len(hs) : hs'[g].buf = hs[g].buf
    BY <1>4, OpenTestFacts DEF SameHs, Closes
  <2>. QED
    BY <2>1, <2>2, PendingFrame DEF Buffered
<1>5. ASSUME NEW t \in Threads, Load(t) PROVE Pending'
  <2>1. /\ SameRq(t) /\ rq'[t].pc # "flush"
        /\ \A g \in 1..Len(hs) : hs'[g].ino = hs[g].ino
    BY <1>5, LoadFacts DEF Rests, SameHs, SameFile, Closes
  <2>2. \A g \in 1..Len(hs) : hs'[g].buf = hs[g].buf
    BY <1>5, LoadFacts DEF SameHs, Closes
  <2>. QED
    BY <2>1, <2>2, PendingFrame DEF Buffered
<1>6. ASSUME NEW t \in Threads, Register(t) PROVE Pending'
  <2>1. /\ SameRq(t) /\ rq'[t].pc # "flush"
        /\ \A g \in 1..Len(hs) : hs'[g].ino = hs[g].ino
    BY <1>6, RegisterFacts DEF Rests, SameHs, SameFile, Closes
  <2>2. \A g \in 1..Len(hs) : hs'[g].buf = hs[g].buf
    BY <1>6, RegisterFacts DEF SameHs, Closes
  <2>. QED
    BY <2>1, <2>2, PendingFrame DEF Buffered
<1>7. ASSUME NEW t \in Threads, Lookup(t) PROVE Pending'
  <2>1. /\ SameRq(t) /\ rq'[t].pc # "flush"
        /\ \A g \in 1..Len(hs) : hs'[g].ino = hs[g].ino
    BY <1>7, LookupFacts DEF Rests, SameHs, SameFile, Closes
  <2>2. \A g \in 1..Len(hs) : hs'[g].buf = hs[g].buf
    BY <1>7, LookupFacts DEF SameHs, Closes
  <2>. QED
    BY <2>1, <2>2, PendingFrame DEF Buffered
<1>8. ASSUME NEW t \in Threads, Submit(t) PROVE Pending'
  <2>1. /\ SameRq(t) /\ rq'[t].pc # "flush"
        /\ \A g \in 1..Len(hs) : hs'[g].ino = hs[g].ino
    BY <1>8, SubmitFacts DEF Rests, SameHs, SameFile, Closes
  <2>2. \A g \in 1..Len(hs) : hs'[g].buf = hs[g].buf
    BY <1>8, SubmitFacts DEF SameHs, Closes
  <2>. QED
    BY <2>1, <2>2, PendingFrame DEF Buffered
<1>9. ASSUME NEW t \in Threads, TakeNonce(t) PROVE Pending'
  <2>1. /\ SameRq(t) /\ rq'[t].pc # "flush"
        /\ \A g \in 1..Len(hs) : hs'[g].ino = hs[g].ino
    BY <1>9, TakeNonceFacts DEF Rests, SameHs, SameFile, Closes
  <2>2. \A g \in 1..Len(hs) : hs'[g].buf = hs[g].buf
    BY <1>9, TakeNonceFacts DEF SameHs, Closes
  <2>. QED
    BY <2>1, <2>2, PendingFrame DEF Buffered
<1>10. ASSUME NEW t \in Threads, ReadHead(t) PROVE Pending'
  <2>1. /\ SameRq(t) /\ rq'[t].pc # "flush"
        /\ \A g \in 1..Len(hs) : hs'[g].ino = hs[g].ino
    BY <1>10, ReadHeadFacts DEF Rests, SameHs, SameFile, Closes
  <2>2. \A g \in 1..Len(hs) : hs'[g].buf = hs[g].buf
    BY <1>10, ReadHeadFacts DEF SameHs, Closes
  <2>. QED
    BY <2>1, <2>2, PendingFrame DEF Buffered
<1>11. ASSUME NEW t \in Threads, AppendOp(t) PROVE Pending'
  <2>. DEFINE h == rq[t].h
              o == rq[t].op
  <2>0. h \in 1..Len(hs) /\ hs[h].buf \in Seq(Ops) /\ o \in Ops
    BY <1>11, InHand, AppendOpFacts DEF AppendOp, Holding, Handles
  <2>1. /\ SameRq(t) /\ Len(hs') = Len(hs) /\ \A g \in 1..Len(hs) : g # h => hs'[g] = hs[g]
        /\ hs'[h].ino = hs[h].ino
    BY <1>11, AppendOpFacts DEF SameHs, SameFile
  <2>2. /\ hs'[h].buf = IF hs[h].aof THEN Append(hs[h].buf, o) ELSE hs[h].buf
        /\ rq[t].pc = "append"
        /\ \/ rq'[t].pc # "flush"
           \/ rq'[t].pc = "flush" /\ rq'[t].h = h /\ rq'[t].op = o /\ ~Direct(t)
    BY <1>11, AppendOpFacts DEF Rests, SameJob
  <2>3. ~Direct(t) => hs[h].aof
    BY <2>0, <2>2 DEF Queues, Committing, First
  <2>4. Writes(Append(hs[h].buf, o)) = Writes(hs[h].buf) \cup {o.w}
    BY <2>0, AppendOps
  <2>. HIDE DEF h, o
  <2>5. rq'[t].pc = "flush" => rq'[t].op.w \in Writes(hs'[rq'[t].h].buf)
    BY <2>2, <2>3, <2>4
  <2>6. \A g \in 1..Len(hs) : Buffered(g) \subseteq Writes(hs'[g].buf)
    BY <2>0, <2>1, <2>2, <2>4 DEF Buffered
  <2>. QED
    BY <2>0, <2>1, <2>5, <2>6, PendingFrame
<1>12. ASSUME NEW t \in Threads, FlushAndWake(t) PROVE Pending'
  <2>. DEFINE h == rq[t].h
  <2>0. h \in 1..Len(hs) /\ Flushed(h)
    BY <1>12, InHand, FlushAndWakeFacts DEF FlushAndWake, Holding
  <2>1. /\ SameRq(t) /\ rq'[t].pc # "flush"
        /\ Len(hs') = Len(hs) /\ \A g \in 1..Len(hs) : g # h => hs'[g] = hs[g]
        /\ hs'[h].ino = hs[h].ino
    BY <1>12, FlushAndWakeFacts DEF SameHs, SameFile, Rests
  <2>2. hs[h].q = << >> \/ hs[h].aof
    BY <1>12, <2>0, FlushAndWakeFacts DEF Queues, Committing, First
  <2>3. hs[h].aof => Buffered(h) \subseteq Writes(files'[hs[h].ino])
    BY <2>0, FlushedGrows
  <2>. HIDE DEF h
  <2>4. \A g \in 1..Len(hs) :
          \/ hs[g].q = << >>
          \/ Buffered(g) \subseteq Writes(hs'[g].buf) \cup Writes(files'[hs[g].ino])
    BY <2>0, <2>1, <2>2, <2>3 DEF Buffered
  <2>. QED
    BY <2>0, <2>1, <2>4, PendingFrame
<1>13. ASSUME NEW t \in Threads, DropClose(t) PROVE Pending'
  <2>1. /\ SameRq(t) /\ rq'[t].pc # "flush"
        /\ \A g \in 1..Len(hs) : hs'[g].ino = hs[g].ino
    BY <1>13, DropCloseFacts DEF Rests, SameHs, SameFile, Closes
  <2>2. \A g \in 1..Len(hs) : hs'[g].buf = hs[g].buf
    BY <1>13, DropCloseFacts DEF SameHs, Closes
  <2>. QED
    BY <2>1, <2>2, PendingFrame DEF Buffered
<1>14. ASSUME NEW t \in Threads, Join(t) PROVE Pending'
  <2>. DEFINE h == rq[t].h
  <2>0. h \in 1..Len(hs) /\ Flushed(h)
    BY <1>14, InHand, JoinFacts DEF Join, Holding
  <2>1. /\ SameRq(t) /\ rq'[t].pc # "flush"
        /\ Len(hs') = Len(hs) /\ \A g \in 1..Len(hs) : g # h => hs'[g] = hs[g]
        /\ hs'[h].ino = hs[h].ino
    BY <1>14, JoinFacts DEF SameHs, SameFile, Rests
  <2>2. hs[h].q = << >> \/ hs[h].aof
    BY <1>14, <2>0, JoinFacts DEF Queues, Committing, First
  <2>3. hs[h].aof => Buffered(h) \subseteq Writes(files'[hs[h].ino])
    BY <2>0, FlushedGrows
  <2>. HIDE DEF h
  <2>4. \A g \in 1..Len(hs) :
          \/ hs[g].q = << >>
          \/ Buffered(g) \subseteq Writes(hs'[g].buf) \cup Writes(files'[hs[g].ino])
    BY <2>0, <2>1, <2>2, <2>3 DEF Buffered
  <2>. QED
    BY <2>0, <2>1, <2>4, PendingFrame
<1>15. ASSUME NEW t \in Threads, Del(t) PROVE Pending'
  <2>1. /\ SameRq(t) /\ rq'[t].pc # "flush"
        /\ \A g \in 1..Len(hs) : hs'[g].ino = hs[g].ino
    BY <1>15, DelFacts DEF Rests, SameHs, SameFile, Closes
  <2>2. \A g \in 1..Len(hs) : hs'[g].buf = hs[g].buf
    BY <1>15, DelFacts DEF SameHs, Closes
  <2>. QED
    BY <2>1, <2>2, PendingFrame DEF Buffered
<1>16. ASSUME NEW t \in Threads, Rmtree(t) PROVE Pending'
  <2>1. /\ SameRq(t) /\ rq'[t].pc # "flush"
        /\ \A g \in 1..Len(hs) : hs'[g].ino = hs[g].ino
    BY <1>16, RmtreeFacts DEF Rests, SameHs, SameFile, Closes
  <2>2. \A g \in 1..Len(hs) : hs'[g].buf = hs[g].buf
    BY <1>16, RmtreeFacts DEF SameHs, Closes
  <2>. QED
    BY <2>1, <2>2, PendingFrame DEF Buffered
<1>17. ASSUME NEW t \in Threads, NEW kind \in Kinds, Walk(t, kind) PROVE Pending'
  <2>1. /\ SameRq(t) /\ rq'[t].pc # "flush"
        /\ \A g \in 1..Len(hs) : hs'[g].ino = hs[g].ino
    BY <1>17, WalkFacts DEF Rests, SameHs, SameFile, Closes
  <2>2. \A g \in 1..Len(hs) : hs'[g].buf = hs[g].buf
    BY <1>17, WalkFacts DEF SameHs, Closes
  <2>. QED
    BY <2>1, <2>2, PendingFrame DEF Buffered
<1>18. ASSUME NEW t \in Threads, NEW n \in Names, Visit(t, n) PROVE Pending'
  <2>1. /\ SameRq(t) /\ rq'[t].pc # "flush"
        /\ \A g \in 1..Len(hs) : hs'[g].ino = hs[g].ino
    BY <1>18, VisitFacts DEF Rests, SameHs, SameFile, Closes
  <2>2. \A g \in 1..Len(hs) : hs'[g].buf = hs[g].buf
    BY <1>18, VisitFacts DEF SameHs, Closes
  <2>. QED
    BY <2>1, <2>2, PendingFrame DEF Buffered
<1>19. ASSUME NEW t \in Threads, Walked(t) PROVE Pending'
  <2>1. /\ SameRq(t) /\ rq'[t].pc # "flush"
        /\ \A g \in 1..Len(hs) : hs'[g].ino = hs[g].ino
    BY <1>19, WalkedFacts DEF Rests, SameHs, SameFile, Closes
  <2>2. \A g \in 1..Len(hs) : hs'[g].buf = hs[g].buf
    BY <1>19, WalkedFacts DEF SameHs, Closes
  <2>. QED
    BY <2>1, <2>2, PendingFrame DEF Buffered
<1>. QED
  BY <1>1, <1>2, <1>3, <1>4, <1>5, <1>6, <1>7, <1>8, <1>9, <1>10, <1>11, <1>12, <1>13, <1>14, <1>15, <1>16, <1>17, <1>18, <1>19 DEF Serve

LEMMA PendingStep ==
  ASSUME TypeInv, Refs, Inodes, Queues, Closers, Pending, TypeInv', Refs', Next
  PROVE  Pending'
<1>1. CASE Boot
  BY <1>1, BootFacts, RestartedInv, PTL
<1>2. CASE Exit
  BY <1>2, ExitFacts, IdleFacts DEF Pending
<1>3. CASE ~Boot /\ \E t \in Threads : Serve(t)
  BY <1>3, GrowsStep, PendingServe
<1>. QED
  BY <1>1, <1>2, <1>3 DEF Next

-----------------------------------------------------------------------------
(* Calm databases: where their open engines are.                            *)

LEMMA WhereOpen ==
  ASSUME TypeInv, Refs, NEW n \in Names, Ordered(n), NEW h \in 1..Len(hs), hs[h].name = n, hs[h].aof
  PROVE  /\ hs[h].ino = dir[n]
         /\ opened[n] = h \/ \E u \in Threads : At(u, n, {"register", "join"}) /\ rq[u].h = h
         /\ hs[h].closed => \E u \in Threads : At(u, n, {"join"}) /\ rq[u].h = h
         /\ ~hs[h].closed => opened[n] = h \/ \E u \in Threads : At(u, n, {"register"}) /\ rq[u].h = h
<1>1. \A u \in Threads : rq[u].pc \in {"register", "join"} /\ rq[u].h = h => rq[u].name = n
  BY DEF Refs, Holding
<1>2. /\ hs[h].ino = dir[n]
      /\ ~hs[h].closed => opened[n] = h \/ \E t \in Threads : rq[t].pc = "register" /\ rq[t].h = h
      /\ hs[h].closed => \E t \in Threads : rq[t].pc = "join" /\ rq[t].h = h
  BY DEF Ordered, Tabled
<1>. QED
  BY <1>1, <1>2 DEF At

\* A request inside open() before the load, or inside drop() after the close, finds no
\* engine of its database with an open file.
LEMMA NoneOpen ==
  ASSUME TypeInv, Refs, NEW n \in Names, Ordered(n), NEW t \in Threads, At(t, n, {"load", "del", "rmtree"}),
         NEW h \in 1..Len(hs), hs[h].name = n
  PROVE  ~hs[h].aof
<1>. SUFFICES ASSUME hs[h].aof PROVE FALSE
  OBVIOUS
<1>1. opened[n] # h
  <2>1. h # 0
    OBVIOUS
  <2>. QED
    BY <2>1 DEF Ordered, Steps, StepsAt, At
<1>2. PICK u \in Threads : At(u, n, {"register", "join"})
  BY <1>1, WhereOpen
<1>3. At(u, n, Critical) /\ At(t, n, Critical) /\ u # t
  BY <1>2 DEF At, Critical
<1>. QED
  BY <1>3 DEF Ordered, Solo

LEMMA OneOpen ==
  ASSUME TypeInv, Refs, NEW n \in Names, Ordered(n),
         NEW g \in 1..Len(hs), hs[g].name = n, hs[g].aof,
         NEW h \in 1..Len(hs), hs[h].name = n, hs[h].aof
  PROVE  g = h
<1>0. g # 0 /\ h # 0
  OBVIOUS
<1>1. ASSUME NEW x \in {g, h}, NEW y \in {g, h}, opened[n] = x,
             NEW u \in Threads, At(u, n, {"register", "join"}), rq[u].h = y
      PROVE  x = y
  BY <1>0, <1>1 DEF Ordered, Steps, StepsAt, At
<1>2. ASSUME NEW u \in Threads, At(u, n, {"register", "join"}), rq[u].h = g,
             NEW v \in Threads, At(v, n, {"register", "join"}), rq[v].h = h
      PROVE  g = h
  <2>1. At(u, n, Critical) /\ At(v, n, Critical)
    BY <1>2 DEF At, Critical
  <2>. QED
    BY <1>2, <2>1 DEF Ordered, Solo
<1>3. /\ opened[n] = g \/ \E u \in Threads : At(u, n, {"register", "join"}) /\ rq[u].h = g
      /\ opened[n] = h \/ \E u \in Threads : At(u, n, {"register", "join"}) /\ rq[u].h = h
  BY WhereOpen
<1>. QED
  BY <1>1, <1>2, <1>3

\* While the daemon serves, an open engine is the only one on the database's file.
LEMMA OnlyOpen ==
  ASSUME TypeInv, Refs, Inodes, NEW n \in Names, Ordered(n),
         NEW h \in 1..Len(hs), hs[h].name = n, hs[h].aof,
         NEW g \in 1..Len(hs), hs[g].ino = dir[n], hs[g].aof \/ main = "serving"
  PROVE  g = h
<1>1. hs[g].name = n
  BY DEF Inodes
<1>2. CASE hs[g].aof
  BY <1>1, <1>2, OneOpen
<1>3. CASE ~hs[g].aof /\ main = "serving"
  <2>1. PICK t \in Threads : At(t, n, {"del", "rmtree"})
    BY <1>3 DEF Ordered, Leaving
  <2>2. At(t, n, {"load", "del", "rmtree"})
    BY <2>1 DEF At
  <2>. QED
    BY <2>2, NoneOpen
<1>. QED
  BY <1>2, <1>3

\* The Sequencers of n are the ones there were.
Old(n) ==
  \A g \in 1..Len(hs') : hs'[g].name = n =>
    g \in 1..Len(hs) /\ hs[g].name = n /\ hs'[g].ino = hs[g].ino

LEMMA SoloFrame ==
  ASSUME TypeInv, NEW t \in Threads, SameRq(t), NEW n \in Names, Solo(n),
         rq'[t].name = n /\ rq'[t].pc \in Critical =>
           At(t, n, Critical) \/ \A u \in Threads : u # t => ~At(u, n, Critical)
  PROVE  Solo(n)'
  BY DEF Solo, At, SameRq

LEMMA StepsFrame ==
  ASSUME TypeInv, Refs, NEW t \in Threads, SameRq(t), NEW n \in Names, Steps(n),
         opened'[n] = opened[n], main' = "serving" => main = "serving",
         \A g \in 1..Len(hs) : ~hs[g].aof => ~hs'[g].aof, StepsAt(t, n)'
  PROVE  Steps(n)'
<1>1. opened[n] # 0 => opened[n] \in 1..Len(hs)
  BY RefsNow
<1>2. ASSUME NEW u \in Threads PROVE StepsAt(u, n)'
  <2>1. CASE u = t
    BY <2>1
  <2>2. CASE u # t
    <3>1. rq'[u] = rq[u] /\ StepsAt(u, n)
      BY <2>2 DEF SameRq, Steps
    <3>. QED
      BY <1>1, <3>1 DEF StepsAt, At
  <2>. QED
    BY <2>1, <2>2
<1>. QED
  BY <1>2 DEF Steps

LEMMA TabledFrame ==
  ASSUME TypeInv, Refs, NEW t \in Threads, SameRq(t), NEW n \in Names, Tabled(n),
         dir'[n] = dir[n], opened'[n] = opened[n], Old(n),
         \A g \in 1..Len(hs) : hs[g].name = n =>
           /\ hs'[g].aof => hs[g].aof
           /\ hs[g].closed => hs'[g].closed
           /\ hs'[g].closed => hs[g].closed \/ (rq'[t].pc = "join" /\ rq'[t].h = g),
         ~At(t, n, {"register", "join"})
  PROVE  Tabled(n)'
<1>. SUFFICES ASSUME NEW h \in 1..Len(hs'), hs'[h].name = n, hs'[h].aof
              PROVE  /\ hs'[h].ino = dir'[n]
                     /\ ~hs'[h].closed => opened'[n] = h \/ \E u \in Threads : rq'[u].pc = "register" /\ rq'[u].h = h
                     /\ hs'[h].closed => \E u \in Threads : rq'[u].pc = "join" /\ rq'[u].h = h
  BY DEF Tabled
<1>1. h \in 1..Len(hs) /\ hs[h].name = n /\ hs'[h].ino = hs[h].ino
  BY DEF Old
<1>2. /\ hs[h].ino = dir[n]
      /\ ~hs[h].closed => opened[n] = h \/ \E u \in Threads : rq[u].pc = "register" /\ rq[u].h = h
      /\ hs[h].closed => \E u \in Threads : rq[u].pc = "join" /\ rq[u].h = h
  BY <1>1 DEF Tabled
<1>3. \A u \in Threads : rq[u].pc \in {"register", "join"} /\ rq[u].h = h => rq'[u] = rq[u]
  <2>1. \A u \in Threads : rq[u].pc \in {"register", "join"} /\ rq[u].h = h => rq[u].name = n
    BY <1>1 DEF Refs, Holding
  <2>. QED
    BY <2>1 DEF SameRq, At
<1>4. /\ hs[h].closed => hs'[h].closed
      /\ hs'[h].closed => hs[h].closed \/ (rq'[t].pc = "join" /\ rq'[t].h = h)
  BY <1>1
<1>. QED
  BY <1>1, <1>2, <1>3, <1>4

LEMMA LeavingFrame ==
  ASSUME TypeInv, Refs, Inodes', NEW t \in Threads, SameRq(t), NEW n \in Names, Leaving(n),
         dir'[n] = dir[n], main' = "serving" => main = "serving", Old(n),
         \A g \in 1..Len(hs) : hs[g].name = n /\ hs[g].aof => hs'[g].aof,
         At(t, n, {"del", "rmtree"}) => rq'[t].name = n /\ rq'[t].pc \in {"del", "rmtree"}
  PROVE  Leaving(n)'
<1>. SUFFICES ASSUME main' = "serving", NEW h \in 1..Len(hs'), hs'[h].ino = dir'[n], ~hs'[h].aof
              PROVE  \E u \in Threads : rq'[u].name = n /\ rq'[u].pc \in {"del", "rmtree"}
  BY DEF Leaving, At
<1>1. hs'[h].name = n
  BY DEF Inodes
<1>2. h \in 1..Len(hs) /\ hs[h].name = n /\ hs[h].ino = dir[n] /\ ~hs[h].aof
  BY <1>1 DEF Old
<1>3. PICK u \in Threads : At(u, n, {"del", "rmtree"})
  BY <1>2 DEF Leaving
<1>. QED
  BY <1>3 DEF SameRq, At

LEMMA ContentsFrame ==
  ASSUME TypeInv, Refs, Inodes', NEW n \in Names, Contents(n),
         dir'[n] = dir[n], main' = "serving" => main = "serving", Old(n),
         \A g \in 1..Len(hs) : hs[g].name = n =>
           hs'[g].aof = hs[g].aof /\ hs'[g].ops = hs[g].ops /\ hs'[g].buf = hs[g].buf,
         dir[n] # 0 => files'[dir[n]] = files[dir[n]]
  PROVE  Contents(n)'
<1>. SUFFICES ASSUME NEW h \in 1..Len(hs'), hs'[h].ino = dir'[n]
              PROVE  /\ hs'[h].aof => hs'[h].ops = files'[hs'[h].ino] \o hs'[h].buf
                     /\ ~hs'[h].aof /\ main' = "serving" => Begins(files'[hs'[h].ino], hs'[h].ops)
  BY DEF Contents
<1>1. hs'[h].name = n
  BY DEF Inodes
<1>2. h \in 1..Len(hs) /\ hs[h].name = n /\ hs[h].ino = dir[n]
  BY <1>1 DEF Old
<1>3. dir[n] # 0 /\ files'[dir[n]] = files[dir[n]]
  BY <1>2 DEF Refs
<1>4. /\ hs[h].aof => hs[h].ops = files[hs[h].ino] \o hs[h].buf
      /\ ~hs[h].aof /\ main = "serving" => Begins(files[hs[h].ino], hs[h].ops)
  BY <1>2 DEF Contents
<1>. QED
  BY <1>2, <1>3, <1>4

\* Nothing of n but the request's own place changes.
Still(n) ==
  /\ dir'[n] = dir[n] /\ opened'[n] = opened[n] /\ Old(n)
  /\ \A g \in 1..Len(hs) : hs[g].name = n => hs'[g].aof = hs[g].aof /\ hs'[g].closed = hs[g].closed
  /\ \A g \in 1..Len(hs) : hs'[g].aof = hs[g].aof \/ ~hs'[g].aof

Quiet(n) ==
  /\ Still(n) /\ \A g \in 1..Len(hs) : hs[g].name = n => hs'[g].ops = hs[g].ops /\ hs'[g].buf = hs[g].buf
  /\ dir[n] # 0 => files'[dir[n]] = files[dir[n]]

\* The request is not at a step that counts for n, before and after.
Elsewhere(t, n) == ~At(t, n, Critical) /\ ~(rq'[t].name = n /\ rq'[t].pc \in Critical)

LEMMA StillElsewhere ==
  ASSUME TypeInv, Refs, Inodes', NEW t \in Threads, SameRq(t), NEW n \in Names, Ordered(n),
         main' = "serving" => main = "serving", Still(n), Elsewhere(t, n)
  PROVE  Solo(n)' /\ Steps(n)' /\ Tabled(n)' /\ Leaving(n)'
<1>0. Solo(n) /\ Steps(n) /\ Tabled(n) /\ Leaving(n)
  BY DEF Ordered
<1>1. Solo(n)'
  BY <1>0, SoloFrame DEF Elsewhere
<1>2. StepsAt(t, n)'
  BY DEF Elsewhere, StepsAt, At, Critical
<1>3. Steps(n)'
  BY <1>0, <1>2, StepsFrame DEF Still
<1>4. ~At(t, n, {"register", "join"}) /\ ~At(t, n, {"del", "rmtree"})
  BY DEF Elsewhere, At, Critical
<1>5. Tabled(n)'
  BY <1>0, <1>4, TabledFrame DEF Still
<1>6. Leaving(n)'
  BY <1>0, <1>4, LeavingFrame DEF Still
<1>. QED
  BY <1>1, <1>3, <1>5, <1>6

LEMMA QuietElsewhere ==
  ASSUME TypeInv, Refs, Inodes', NEW t \in Threads, SameRq(t), NEW n \in Names, Ordered(n),
         main' = "serving" => main = "serving", Quiet(n), Elsewhere(t, n)
  PROVE  Ordered(n)'
<1>1. Contents(n)'
  BY ContentsFrame DEF Ordered, Quiet, Still
<1>. QED
  BY <1>1, StillElsewhere DEF Ordered, Quiet

\* A step of a request that is not inside open() or drop().
LEMMA PlainOrders ==
  ASSUME TypeInv, Refs, Inodes', NEW t \in Threads, SameRq(t), NEW n \in Names, Ordered(n),
         main' = "serving" => main = "serving", rq[t].pc \notin Critical, rq'[t].pc \notin Critical,
         dir' = dir, opened' = opened, files' = files, SameNames,
         \A g \in 1..Len(hs) : SameOpen(g) /\ hs'[g].ops = hs[g].ops /\ hs'[g].buf = hs[g].buf
  PROVE  Ordered(n)'
<1>1. Elsewhere(t, n)
  BY DEF Elsewhere, At
<1>2. Quiet(n)
  BY DEF Quiet, Still, Old, SameNames, SameOpen
<1>. QED
  BY <1>1, <1>2, QuietElsewhere

LEMMA OpenTestOrders ==
  ASSUME TypeInv, Refs, Inodes, Queues, Closers, Inodes', NEW t \in Threads, OpenTest(t),
         NEW n \in Names, Ordered(n), calm'[n]
  PROVE  Ordered(n)'
<1>1. /\ SameRq(t) /\ SameJob(t) /\ hs' = hs /\ dir' = dir /\ files' = files /\ opened' = opened /\ main' = main
      /\ \/ rq'[t].pc = "load" /\ opened[rq[t].name] = 0 /\ Marks(t)
         \/ rq'[t].pc = "lookup"
      /\ rq[t].pc = "open"
  BY OpenTestFacts DEF OpenTest
<1>2. Quiet(n)
  BY <1>1 DEF Quiet, Still, Old
<1>3. CASE rq'[t].pc = "lookup" \/ rq[t].name # n
  <2>1. Elsewhere(t, n)
    BY <1>1, <1>3 DEF Elsewhere, At, Critical, SameJob
  <2>. QED
    BY <1>1, <1>2, <2>1, QuietElsewhere
<1>4. CASE rq'[t].pc = "load" /\ rq[t].name = n
  <2>1. opened[n] = 0 /\ \A u \in Threads : u # t => ~At(u, n, Critical)
    BY <1>1, <1>4 DEF Marks, Busy, At, Critical
  <2>2. Solo(n)'
    BY <1>1, <2>1, SoloFrame DEF Ordered
  <2>3. StepsAt(t, n)'
    BY <1>1, <1>4, <2>1 DEF StepsAt, At
  <2>4. Steps(n)'
    BY <1>1, <2>3, StepsFrame DEF Ordered
  <2>5. ~At(t, n, {"register", "join"}) /\ ~At(t, n, {"del", "rmtree"})
    BY <1>1 DEF At
  <2>6. Tabled(n)'
    BY <1>1, <1>2, <2>5, TabledFrame DEF Ordered, Quiet, Still
  <2>7. Leaving(n)'
    BY <1>1, <1>2, <2>5, LeavingFrame DEF Ordered, Quiet, Still
  <2>8. Contents(n)'
    BY <1>1, <1>2, ContentsFrame DEF Ordered, Quiet, Still
  <2>. QED
    BY <2>2, <2>4, <2>6, <2>7, <2>8 DEF Ordered
<1>. QED
  BY <1>1, <1>3, <1>4

LEMMA RegisterOrders ==
  ASSUME TypeInv, Refs, Inodes, Queues, Closers, Inodes', NEW t \in Threads, Register(t),
         NEW n \in Names, Ordered(n), calm'[n]
  PROVE  Ordered(n)'
<1>1. /\ SameRq(t) /\ SameJob(t) /\ hs' = hs /\ dir' = dir /\ files' = files /\ main' = main
      /\ rq[t].pc = "register" /\ rq'[t].pc = "lookup"
      /\ opened'[rq[t].name] = rq[t].h
      /\ n # rq[t].name => opened'[n] = opened[n]
  BY RegisterFacts
<1>2. CASE rq[t].name # n
  <2>1. Quiet(n)
    BY <1>1, <1>2 DEF Quiet, Still, Old
  <2>2. Elsewhere(t, n)
    BY <1>1, <1>2 DEF Elsewhere, At, Critical, SameJob
  <2>. QED
    BY <1>1, <2>1, <2>2, QuietElsewhere
<1>3. CASE rq[t].name = n
  <2>0. At(t, n, Critical) /\ opened[n] = 0
    BY <1>1, <1>3 DEF At, Critical, Ordered, Steps, StepsAt
  <2>1. \A u \in Threads : u # t => ~At(u, n, Critical)
    BY <2>0 DEF Ordered, Solo
  <2>2. Solo(n)'
    BY <1>1, <2>1, SoloFrame DEF Ordered
  <2>3. \A u \in Threads : ~(rq'[u].name = n /\ rq'[u].pc \in Critical)
    BY <1>1, <2>1 DEF SameRq, At, Critical
  <2>4. Steps(n)'
    BY <2>3 DEF Steps, StepsAt, At, Critical
  <2>5. ASSUME NEW g \in 1..Len(hs), hs[g].name = n, hs[g].aof
        PROVE  hs[g].ino = dir[n] /\ g = rq[t].h /\ ~hs[g].closed
    <3>1. g # 0 /\ \A u \in Threads : At(u, n, {"register", "join"}) => u = t
      BY <2>1 DEF At, Critical
    <3>2. /\ hs[g].ino = dir[n]
          /\ opened[n] = g \/ \E u \in Threads : At(u, n, {"register", "join"}) /\ rq[u].h = g
          /\ hs[g].closed => \E u \in Threads : At(u, n, {"join"}) /\ rq[u].h = g
      BY <2>5, WhereOpen
    <3>3. g = rq[t].h
      BY <2>0, <3>1, <3>2
    <3>4. \A u \in Threads : ~At(u, n, {"join"})
      BY <1>1, <3>1 DEF At
    <3>. QED
      BY <3>2, <3>3, <3>4
  <2>6. Tabled(n)'
    BY <1>1, <1>3, <2>5 DEF Tabled
  <2>7. Old(n) /\ ~At(t, n, {"del", "rmtree"})
    BY <1>1 DEF Old, At
  <2>8. Leaving(n)'
    BY <1>1, <2>7, LeavingFrame DEF Ordered
  <2>9. Contents(n)'
    BY <1>1, <2>7, ContentsFrame DEF Ordered
  <2>. QED
    BY <2>2, <2>4, <2>6, <2>8, <2>9 DEF Ordered
<1>. QED
  BY <1>2, <1>3

LEMMA DelOrders ==
  ASSUME TypeInv, Refs, Inodes, Queues, Closers, Inodes', NEW t \in Threads, Del(t),
         NEW n \in Names, Ordered(n), calm'[n]
  PROVE  Ordered(n)'
<1>1. /\ SameRq(t) /\ hs' = hs /\ dir' = dir /\ files' = files /\ main' = main
      /\ rq[t].pc = "del" /\ opened'[rq[t].name] = 0
      /\ n # rq[t].name => opened'[n] = opened[n]
      /\ \/ opened[rq[t].name] = 0 /\ rq'[t].pc \notin Critical
         \/ rq'[t].pc = "rmtree" /\ rq'[t].name = rq[t].name
  BY DelFacts DEF Rests, SameJob, Critical
<1>2. CASE rq[t].name # n
  <2>1. Quiet(n)
    BY <1>1, <1>2 DEF Quiet, Still, Old
  <2>2. Elsewhere(t, n)
    BY <1>1, <1>2 DEF Elsewhere, At
  <2>. QED
    BY <1>1, <2>1, <2>2, QuietElsewhere
<1>3. CASE rq[t].name = n
  <2>0. At(t, n, Critical) /\ At(t, n, {"load", "del", "rmtree"})
    BY <1>1, <1>3 DEF At, Critical
  <2>1. \A u \in Threads : u # t => ~At(u, n, Critical)
    BY <2>0 DEF Ordered, Solo
  <2>2. Solo(n)'
    BY <1>1, <2>1, SoloFrame DEF Ordered
  <2>3. \A u \in Threads : rq'[u].name = n /\ rq'[u].pc \in Critical => rq'[u].pc = "rmtree"
    BY <1>1, <2>1 DEF SameRq, At
  <2>4. Steps(n)'
    BY <1>1, <1>3, <2>3 DEF Steps, StepsAt, At, Critical
  <2>5. \A g \in 1..Len(hs) : hs[g].name = n => ~hs[g].aof
    BY <2>0, NoneOpen
  <2>6. Tabled(n)'
    BY <1>1, <2>5 DEF Tabled
  <2>7. main = "serving" => opened[n] # 0
    BY <1>1, <1>3 DEF Ordered, Steps, StepsAt, At
  <2>8. Leaving(n)'
    BY <1>1, <1>3, <2>7 DEF Leaving, At
  <2>9. Contents(n)'
    BY <1>1, ContentsFrame DEF Ordered, Old
  <2>. QED
    BY <2>2, <2>4, <2>6, <2>8, <2>9 DEF Ordered
<1>. QED
  BY <1>2, <1>3

LEMMA RmtreeOrders ==
  ASSUME TypeInv, Refs, Inodes, Queues, Closers, Inodes', NEW t \in Threads, Rmtree(t),
         NEW n \in Names, Ordered(n), calm'[n]
  PROVE  Ordered(n)'
<1>1. /\ SameRq(t) /\ hs' = hs /\ opened' = opened /\ files' = files /\ main' = main
      /\ rq[t].pc = "rmtree" /\ dir'[rq[t].name] = 0
      /\ n # rq[t].name => dir'[n] = dir[n]
      /\ rq'[t].pc \notin Critical
  BY RmtreeFacts DEF Rests, Critical
<1>2. CASE rq[t].name # n
  <2>1. Quiet(n)
    BY <1>1, <1>2 DEF Quiet, Still, Old
  <2>2. Elsewhere(t, n)
    BY <1>1, <1>2 DEF Elsewhere, At
  <2>. QED
    BY <1>1, <2>1, <2>2, QuietElsewhere
<1>3. CASE rq[t].name = n
  <2>0. At(t, n, Critical) /\ At(t, n, {"load", "del", "rmtree"})
    BY <1>1, <1>3 DEF At, Critical
  <2>1. \A u \in Threads : u # t => ~At(u, n, Critical)
    BY <2>0 DEF Ordered, Solo
  <2>2. Solo(n)'
    BY <1>1, <2>1, SoloFrame DEF Ordered
  <2>3. \A u \in Threads : ~(rq'[u].name = n /\ rq'[u].pc \in Critical)
    BY <1>1, <2>1 DEF SameRq, At
  <2>4. Steps(n)'
    BY <2>3 DEF Steps, StepsAt, At, Critical
  <2>5. \A g \in 1..Len(hs) : hs[g].name = n => ~hs[g].aof
    BY <2>0, NoneOpen
  <2>6. Tabled(n)'
    BY <1>1, <2>5 DEF Tabled
  <2>7. \A g \in 1..Len(hs) : hs[g].ino # dir'[n]
    BY <1>1, <1>3 DEF Refs
  <2>8. Leaving(n)' /\ Contents(n)'
    BY <1>1, <2>7 DEF Leaving, Contents
  <2>. QED
    BY <2>2, <2>4, <2>6, <2>8 DEF Ordered
<1>. QED
  BY <1>2, <1>3

LEMMA LoadDir ==
  ASSUME TypeInv, Refs, NEW t \in Threads, Load(t)
  PROVE  files' \in Seq(Seq(Ops)) /\ dir'[rq[t].name] \in 1..Len(files')
<1>1. Len(files) \in Nat /\ rq[t].name \in Names
  BY LenProperties, RefsNow DEF TypeInv
<1>2. dir[rq[t].name] # 0 => dir[rq[t].name] \in 1..Len(files)
  BY <1>1, SavedNow
<1>3. /\ files' \in Seq(Seq(Ops))
      /\ \/ dir'[rq[t].name] = dir[rq[t].name] /\ dir[rq[t].name] # 0 /\ files' = files
         \/ dir'[rq[t].name] = Len(files) + 1 /\ Len(files') = Len(files) + 1
  BY LoadFacts
<1>. QED
  BY <1>1, <1>2, <1>3

LEMMA LoadOrders ==
  ASSUME TypeInv, Refs, Inodes, Queues, Closers, Inodes', NEW t \in Threads, Load(t),
         NEW n \in Names, Ordered(n), calm'[n]
  PROVE  Ordered(n)'
<1>. DEFINE k == Len(hs) + 1
<1>0. Len(hs) \in Nat /\ Len(files) \in Nat /\ k \notin 1..Len(hs) /\ k \in 1..k
  BY LenProperties DEF TypeInv
<1>1. /\ SameRq(t) /\ opened' = opened /\ main' = main
      /\ rq[t].pc = "load" /\ rq'[t].pc = "register" /\ rq'[t].name = rq[t].name /\ rq'[t].h = k
      /\ \A j \in 1..Len(files) : files'[j] = files[j]
      /\ Len(hs') = k /\ \A g \in 1..Len(hs) : hs'[g] = hs[g]
      /\ hs'[k].name = rq[t].name
  BY LoadFacts
<1>2. /\ n # rq[t].name => dir'[n] = dir[n]
      /\ n = rq[t].name => dir'[n] = dir[n] \/ dir'[n] = Len(files) + 1
      /\ n = rq[t].name => hs'[k].ino = dir'[n] /\ hs'[k].ops = files'[dir'[n]]
      /\ hs'[k].buf = << >> /\ ~hs'[k].closed /\ hs'[k].aof
  BY LoadFacts
<1>3. \A h \in 1..Len(hs') : h \in 1..Len(hs) \/ h = k
  BY <1>0, <1>1
<1>4. /\ \A g \in 1..Len(hs) : hs[g].ino <= Len(files)
      /\ ~(Len(files) + 1 <= Len(files))
      /\ dir[n] # 0 => dir[n] \in 1..Len(files)
  BY <1>0, SavedNow DEF Refs
<1>. HIDE DEF k
<1>5. CASE rq[t].name # n
  <2>1. Old(n)
    BY <1>1, <1>3, <1>5 DEF Old
  <2>2. Quiet(n)
    BY <1>1, <1>2, <1>4, <1>5, <2>1 DEF Quiet, Still
  <2>3. Elsewhere(t, n)
    BY <1>1, <1>5 DEF Elsewhere, At
  <2>. QED
    BY <1>1, <2>2, <2>3, QuietElsewhere
<1>6. CASE rq[t].name = n
  <2>0. At(t, n, Critical) /\ At(t, n, {"load", "del", "rmtree"}) /\ opened[n] = 0
    BY <1>1, <1>6 DEF At, Critical, Ordered, Steps, StepsAt
  <2>1. \A u \in Threads : u # t => ~At(u, n, Critical)
    BY <2>0 DEF Ordered, Solo
  <2>2. Solo(n)'
    BY <1>1, <2>1, SoloFrame DEF Ordered
  <2>3. \A u \in Threads : rq'[u].name = n /\ rq'[u].pc \in Critical => rq'[u].pc = "register"
    BY <1>1, <2>1 DEF SameRq, At
  <2>4. Steps(n)'
    BY <1>1, <2>0, <2>3 DEF Steps, StepsAt, At, Critical
  <2>5. \A g \in 1..Len(hs) : hs[g].name = n => ~hs[g].aof
    BY <2>0, NoneOpen
  <2>6. Tabled(n)'
    BY <1>1, <1>2, <1>3, <1>6, <2>5 DEF Tabled
  <2>7. ASSUME NEW g \in 1..Len(hs), hs[g].ino = dir'[n], main = "serving" PROVE FALSE
    <3>1. hs[g].ino = dir[n]
      BY <1>2, <1>4, <1>6, <2>7
    <3>2. hs[g].name = n
      BY <3>1 DEF Inodes
    <3>3. \E u \in Threads : At(u, n, {"del", "rmtree"})
      BY <2>5, <2>7, <3>1, <3>2 DEF Ordered, Leaving
    <3>. QED
      BY <1>1, <2>1, <3>3 DEF At, Critical
  <2>8. Leaving(n)'
    BY <1>1, <1>2, <1>3, <2>7 DEF Leaving
  <2>9. hs'[k].ops = files'[hs'[k].ino] \o hs'[k].buf
    <3>1. dir'[n] \in 1..Len(files') /\ files' \in Seq(Seq(Ops))
      BY <1>0, <1>6, LoadDir
    <3>2. files'[dir'[n]] \in Seq(Ops)
      BY <3>1, ElementOfSeq
    <3>3. files'[dir'[n]] \o << >> = files'[dir'[n]]
      BY <3>2, ConcatEmptySeq
    <3>. QED
      BY <1>2, <1>6, <3>3
  <2>10. ASSUME NEW g \in 1..Len(hs), hs'[g].ino = dir'[n] PROVE ~hs'[g].aof
    <3>1. hs'[g].name = n
      BY <1>0, <1>1, <2>10 DEF Inodes
    <3>. QED
      BY <1>1, <2>5, <3>1
  <2>11. Contents(n)'
    BY <1>1, <1>2, <1>3, <2>7, <2>9, <2>10 DEF Contents
  <2>. QED
    BY <2>2, <2>4, <2>6, <2>8, <2>11 DEF Ordered
<1>. QED
  BY <1>5, <1>6

LEMMA AppendContents ==
  ASSUME NEW s \in Seq(Ops), NEW b \in Seq(Ops), NEW o \in Ops
  PROVE  s \o Append(b, o) = Append(s \o b, o)
<1>1. <<o>> \in Seq(Ops)
  OBVIOUS
<1>2. Append(b, o) = b \o <<o>>
  BY AppendIsConcat
<1>3. s \o b \in Seq(Ops)
  BY ConcatOps
<1>4. Append(s \o b, o) = (s \o b) \o <<o>>
  BY <1>3, AppendIsConcat
<1>5. s \o (b \o <<o>>) = (s \o b) \o <<o>>
  BY <1>1, ConcatAssociative
<1>. QED
  BY <1>2, <1>4, <1>5

LEMMA AppendBegins ==
  ASSUME NEW s \in Seq(Ops), NEW l \in Seq(Ops), NEW o \in Ops, Begins(s, l)
  PROVE  Begins(s, Append(l, o))
<1>. DEFINE a == Append(l, o)
<1>1. Len(s) \in Nat /\ Len(l) \in Nat
  BY LenProperties
<1>2. Len(a) = Len(l) + 1 /\ \A i \in 1..Len(l) : a[i] = l[i]
  BY AppendOps
<1>. HIDE DEF a
<1>3. Len(s) <= Len(l) /\ \A i \in 1..Len(s) : s[i] = l[i]
  BY DEF Begins
<1>4. Len(s) <= Len(a) /\ \A i \in 1..Len(s) : i \in 1..Len(l)
  BY <1>1, <1>2, <1>3
<1>. QED
  BY <1>2, <1>3, <1>4 DEF Begins, a

LEMMA AppendOpOrders ==
  ASSUME TypeInv, Refs, Inodes, Queues, Closers, Inodes', NEW t \in Threads, AppendOp(t),
         NEW n \in Names, Ordered(n), calm'[n]
  PROVE  Ordered(n)'
<1>. DEFINE h == rq[t].h
            o == rq[t].op
<1>0. h \in 1..Len(hs) /\ hs[h].name = rq[t].name /\ hs[h].ops \in Seq(Ops) /\ hs[h].buf \in Seq(Ops) /\ o \in Ops
  BY InHand, AppendOpFacts DEF AppendOp, Holding, Handles
<1>1. /\ SameRq(t) /\ SameHs(h) /\ SameFile(h) /\ SameOpen(h)
      /\ hs'[h].ops = Append(hs[h].ops, o)
      /\ hs'[h].buf = IF hs[h].aof THEN Append(hs[h].buf, o) ELSE hs[h].buf
  BY AppendOpFacts
<1>2. /\ rq[t].pc \notin Critical /\ rq'[t].pc \notin Critical
      /\ dir' = dir /\ files' = files /\ opened' = opened /\ main' = main
  BY AppendOpFacts DEF Critical, Rests
<1>. HIDE DEF h, o
<1>3. SameNames
  BY <1>1, OneHandle
<1>4. Elsewhere(t, n) /\ Still(n)
  BY <1>1, <1>2, <1>3 DEF Elsewhere, At, Still, Old, SameNames, SameHs, SameOpen
<1>5. Solo(n)' /\ Steps(n)' /\ Tabled(n)' /\ Leaving(n)'
  BY <1>1, <1>2, <1>4, StillElsewhere
<1>6. ASSUME NEW g \in 1..Len(hs), hs[g].ino = dir[n]
      PROVE  /\ hs'[g].aof => hs'[g].ops = files[hs[g].ino] \o hs'[g].buf
             /\ ~hs'[g].aof /\ main = "serving" => Begins(files[hs[g].ino], hs'[g].ops)
  <2>1. /\ hs[g].aof => hs[g].ops = files[hs[g].ino] \o hs[g].buf
        /\ ~hs[g].aof /\ main = "serving" => Begins(files[hs[g].ino], hs[g].ops)
    BY <1>6 DEF Ordered, Contents
  <2>2. CASE g # h
    BY <1>1, <2>1, <2>2 DEF SameHs
  <2>3. CASE g = h
    <3>1. files[hs[h].ino] \in Seq(Ops)
      BY <1>0, ElementOfSeq DEF Refs, TypeInv
    <3>2. hs'[h].aof = hs[h].aof
      BY <1>1 DEF SameOpen
    <3>3. hs[h].aof => hs'[h].ops = files[hs[h].ino] \o hs'[h].buf
      <4>1. files[hs[h].ino] \o Append(hs[h].buf, o) = Append(files[hs[h].ino] \o hs[h].buf, o)
        BY <1>0, <3>1, AppendContents
      <4>. QED
        BY <1>1, <2>1, <2>3, <4>1, Zenon
    <3>4. ~hs[h].aof /\ main = "serving" => Begins(files[hs[h].ino], hs'[h].ops)
      BY <1>0, <1>1, <2>1, <2>3, <3>1, AppendBegins
    <3>. QED
      BY <2>3, <3>2, <3>3, <3>4
  <2>. QED
    BY <2>2, <2>3
<1>7. Contents(n)'
  BY <1>2, <1>3, <1>6 DEF Contents, SameNames
<1>. QED
  BY <1>5, <1>7 DEF Ordered

\* A flush of the engine of n that has its file open: the file is its log.
LEMMA FlushedContents ==
  ASSUME TypeInv, Refs, Inodes, NEW n \in Names, Ordered(n), NEW h \in 1..Len(hs), Flushed(h),
         hs[h].name = n, hs[h].aof
  PROVE  /\ hs[h].ino = dir[n] /\ files'[dir[n]] = hs[h].ops /\ hs[h].ops \in Seq(Ops)
         /\ Begins(hs[h].ops, hs[h].ops) /\ hs[h].ops = hs[h].ops \o << >>
         /\ \A g \in 1..Len(hs) : hs[g].ino = dir[n] => g = h \/ (~hs[g].aof /\ main # "serving")
<1>1. hs[h].ino = dir[n]
  BY WhereOpen
<1>2. hs[h].ops = files[dir[n]] \o hs[h].buf
  BY <1>1 DEF Ordered, Contents
<1>3. files'[dir[n]] = files[dir[n]] \o hs[h].buf
  BY <1>1, FlushedFacts
<1>4. hs[h].ops \in Seq(Ops)
  BY HandleType DEF Handles
<1>5. hs[h].ops = hs[h].ops \o << >>
  BY <1>4, ConcatEmptySeq
<1>6. Begins(hs[h].ops, hs[h].ops)
  BY <1>4, LenProperties DEF Begins
<1>7. \A g \in 1..Len(hs) : hs[g].ino = dir[n] => g = h \/ (~hs[g].aof /\ main # "serving")
  BY OnlyOpen
<1>. QED
  BY <1>1, <1>2, <1>3, <1>4, <1>5, <1>6, <1>7

\* A flush does not touch the files of other databases, or without an open file anything.
LEMMA FlushedQuiet ==
  ASSUME TypeInv, Refs, Inodes, NEW n \in Names, NEW h \in 1..Len(hs), Flushed(h), hs[h].name # n \/ ~hs[h].aof
  PROVE  dir[n] # 0 => files'[dir[n]] = files[dir[n]]
<1>1. dir[n] # 0 => dir[n] \in 1..Len(files)
  BY SavedNow
<1>2. hs[h].ino = dir[n] => hs[h].name = n
  BY DEF Inodes
<1>. QED
  BY <1>1, <1>2, FlushedFacts

LEMMA FlushAndWakeOrders ==
  ASSUME TypeInv, Refs, Inodes, Queues, Closers, Inodes', NEW t \in Threads, FlushAndWake(t),
         NEW n \in Names, Ordered(n), calm'[n]
  PROVE  Ordered(n)'
<1>. DEFINE h == rq[t].h
<1>0. h \in 1..Len(hs) /\ hs[h].name = rq[t].name /\ rq[t].pc \in {"flush", "failed"}
  BY InHand DEF FlushAndWake, Holding
<1>1. /\ SameRq(t) /\ SameHs(h) /\ SameFile(h) /\ SameOpen(h) /\ SameLog(h) /\ hs'[h].buf = << >>
      /\ Flushed(h) /\ hs[h].q # << >>
  BY FlushAndWakeFacts
<1>2. /\ rq'[t].pc \notin Critical /\ dir' = dir /\ opened' = opened /\ main' = main
  BY FlushAndWakeFacts DEF Critical, Rests
<1>. HIDE DEF h
<1>3. hs[h].aof
  BY <1>0, <1>1, QueuesNow
<1>4. SameNames
  BY <1>1, OneHandle
<1>5. Elsewhere(t, n) /\ Still(n)
  BY <1>0, <1>1, <1>2, <1>4 DEF Elsewhere, At, Critical, Still, Old, SameNames, SameHs, SameOpen
<1>6. Solo(n)' /\ Steps(n)' /\ Tabled(n)' /\ Leaving(n)'
  BY <1>1, <1>2, <1>5, StillElsewhere
<1>7. CASE hs[h].name # n
  <2>1. dir[n] # 0 => files'[dir[n]] = files[dir[n]]
    BY <1>0, <1>1, <1>7, FlushedQuiet
  <2>2. \A g \in 1..Len(hs) : hs[g].name = n => hs'[g] = hs[g]
    BY <1>1, <1>7 DEF SameHs
  <2>3. Contents(n)'
    BY <1>2, <1>5, <2>1, <2>2, ContentsFrame DEF Ordered, Still
  <2>. QED
    BY <1>6, <2>3 DEF Ordered
<1>8. CASE hs[h].name = n
  <2>1. /\ hs[h].ino = dir[n] /\ files'[dir[n]] = hs[h].ops /\ hs[h].ops = hs[h].ops \o << >>
        /\ \A g \in 1..Len(hs) : hs[g].ino = dir[n] => g = h \/ (~hs[g].aof /\ main # "serving")
    BY <1>0, <1>1, <1>3, <1>8, FlushedContents
  <2>2. /\ hs'[h].ops = hs[h].ops /\ hs'[h].ino = hs[h].ino /\ hs'[h].aof = hs[h].aof
        /\ \A g \in 1..Len(hs) : g # h => hs'[g] = hs[g]
    BY <1>1 DEF SameLog, SameFile, SameOpen, SameHs
  <2>3. hs'[h].ops = files'[hs'[h].ino] \o hs'[h].buf
    BY <1>1, <2>1, <2>2
  <2>4. ASSUME NEW g \in 1..Len(hs), hs'[g].ino = dir'[n]
        PROVE  /\ hs'[g].aof => hs'[g].ops = files'[hs'[g].ino] \o hs'[g].buf
               /\ ~hs'[g].aof /\ main' = "serving" => Begins(files'[hs'[g].ino], hs'[g].ops)
    <3>1. CASE g = h
      BY <1>3, <2>2, <2>3, <3>1
    <3>2. CASE g # h
      BY <1>2, <2>1, <2>2, <2>4, <3>2
    <3>. QED
      BY <3>1, <3>2
  <2>5. Contents(n)'
    BY <1>4, <2>4 DEF Contents, SameNames
  <2>. QED
    BY <1>6, <2>5 DEF Ordered
<1>. QED
  BY <1>7, <1>8

LEMMA JoinOrders ==
  ASSUME TypeInv, Refs, Inodes, Queues, Closers, Inodes', NEW t \in Threads, Join(t),
         NEW n \in Names, Ordered(n), calm'[n]
  PROVE  Ordered(n)'
<1>. DEFINE h == rq[t].h
<1>0. /\ h \in 1..Len(hs) /\ hs[h].name = rq[t].name /\ rq[t].pc = "join" /\ hs[h].closed
      /\ rq[t].kind \in {"drop", "close"} /\ (rq[t].kind = "close" => main = "stopping")
  BY InHand DEF Join, Holding, Queues, Closers
<1>1. /\ SameRq(t) /\ SameHs(h) /\ SameFile(h) /\ SameLog(h) /\ hs'[h].buf = << >>
      /\ hs'[h].aof = FALSE /\ hs'[h].closed = hs[h].closed /\ Flushed(h)
  BY JoinFacts
<1>2. /\ dir' = dir /\ opened' = opened /\ main' = main
      /\ rq'[t].pc = (IF rq[t].kind = "drop" THEN "del" ELSE "next") /\ rq'[t].name = rq[t].name
  BY JoinFacts DEF SameJob
<1>. HIDE DEF h
<1>3. SameNames
  BY <1>1, OneHandle
<1>4. Old(n) /\ \A g \in 1..Len(hs) : g # h => hs'[g] = hs[g]
  BY <1>1, <1>3 DEF Old, SameNames, SameHs
<1>5. CASE hs[h].name # n
  <2>1. dir[n] # 0 => files'[dir[n]] = files[dir[n]]
    BY <1>0, <1>1, <1>5, FlushedQuiet
  <2>2. Quiet(n)
    BY <1>1, <1>2, <1>4, <1>5, <2>1 DEF Quiet, Still
  <2>3. Elsewhere(t, n)
    BY <1>0, <1>2, <1>5 DEF Elsewhere, At
  <2>. QED
    BY <1>1, <1>2, <2>2, <2>3, QuietElsewhere
<1>6. CASE hs[h].name = n
  <2>1. At(t, n, Critical) /\ opened[n] \in {0, h}
    BY <1>0, <1>6 DEF At, Critical, Ordered, Steps, StepsAt, h
  <2>2. main = "serving" => opened[n] # 0
    BY <1>0, <1>6 DEF At, Critical, Ordered, Steps, StepsAt, h
  <2>3. Solo(n)'
    BY <1>1, <2>1, SoloFrame DEF Ordered
  <2>4. StepsAt(t, n)'
    BY <1>0, <1>1, <1>2, <2>1, <2>2 DEF StepsAt, At
  <2>5. \A g \in 1..Len(hs) : ~hs[g].aof => ~hs'[g].aof
    BY <1>1, <1>4
  <2>6. Steps(n)'
    BY <1>1, <1>2, <2>4, <2>5, StepsFrame DEF Ordered
  <2>7. ASSUME NEW g \in 1..Len(hs), hs'[g].name = n, hs'[g].aof
        PROVE  /\ hs'[g].ino = dir'[n]
               /\ ~hs'[g].closed => opened'[n] = g \/ \E u \in Threads : rq'[u].pc = "register" /\ rq'[u].h = g
               /\ hs'[g].closed => \E u \in Threads : rq'[u].pc = "join" /\ rq'[u].h = g
    <3>1. g # h /\ hs'[g] = hs[g]
      BY <1>1, <1>4, <2>7
    <3>2. /\ hs[g].ino = dir[n]
          /\ ~hs[g].closed => opened[n] = g \/ \E u \in Threads : rq[u].pc = "register" /\ rq[u].h = g
          /\ hs[g].closed => \E u \in Threads : rq[u].pc = "join" /\ rq[u].h = g
      BY <2>7, <3>1 DEF Ordered, Tabled
    <3>3. \A u \in Threads : rq[u].h = g => rq'[u] = rq[u]
      BY <1>1, <3>1 DEF SameRq, h
    <3>. QED
      BY <1>2, <3>1, <3>2, <3>3
  <2>8. Tabled(n)'
    BY <1>3, <2>7 DEF Tabled, SameNames
  <2>9. main' = "serving" => rq'[t].pc = "del" /\ rq'[t].name = n
    BY <1>0, <1>2, <1>6
  <2>10. Leaving(n)'
    BY <2>9 DEF Leaving, At
  <2>11. Contents(n)'
    <3>1. CASE ~hs[h].aof
      <4>1. dir[n] # 0 => files'[dir[n]] = files[dir[n]]
        BY <1>0, <1>1, <3>1, FlushedQuiet
      <4>2. ASSUME NEW g \in 1..Len(hs), hs'[g].ino = dir'[n]
            PROVE  /\ hs'[g].aof => hs'[g].ops = files'[hs'[g].ino] \o hs'[g].buf
                   /\ ~hs'[g].aof /\ main' = "serving" => Begins(files'[hs'[g].ino], hs'[g].ops)
        <5>1. hs[g].ino = dir[n] /\ dir[n] # 0 /\ hs'[g].ino = dir[n]
          BY <1>2, <1>3, <4>2 DEF SameNames, Refs
        <5>2. /\ hs[g].aof => hs[g].ops = files[dir[n]] \o hs[g].buf
              /\ ~hs[g].aof /\ main = "serving" => Begins(files[dir[n]], hs[g].ops)
          BY <5>1 DEF Ordered, Contents
        <5>3. hs'[g].ops = hs[g].ops /\ (hs'[g].aof => hs[g].aof /\ hs'[g].buf = hs[g].buf) /\ (hs[g].aof => hs'[g].aof)
          BY <1>1, <1>4, <3>1 DEF SameLog
        <5>. QED
          BY <1>2, <4>1, <5>1, <5>2, <5>3
      <4>. QED
        BY <1>3, <4>2 DEF Contents, SameNames
    <3>2. CASE hs[h].aof
      <4>1. /\ hs[h].ino = dir[n] /\ files'[dir[n]] = hs[h].ops /\ Begins(hs[h].ops, hs[h].ops)
            /\ \A g \in 1..Len(hs) : hs[g].ino = dir[n] => g = h \/ (~hs[g].aof /\ main # "serving")
        BY <1>0, <1>1, <1>6, <3>2, FlushedContents
      <4>2. hs'[h].ops = hs[h].ops /\ hs'[h].ino = hs[h].ino
        BY <1>1 DEF SameLog, SameFile
      <4>3. ASSUME NEW g \in 1..Len(hs), hs'[g].ino = dir'[n]
            PROVE  /\ hs'[g].aof => hs'[g].ops = files'[hs'[g].ino] \o hs'[g].buf
                   /\ ~hs'[g].aof /\ main' = "serving" => Begins(files'[hs'[g].ino], hs'[g].ops)
        <5>1. CASE g = h
          BY <1>1, <4>1, <4>2, <5>1
        <5>2. CASE g # h
          BY <1>2, <1>4, <4>1, <4>3, <5>2
        <5>. QED
          BY <5>1, <5>2
      <4>. QED
        BY <1>3, <4>3 DEF Contents, SameNames
    <3>. QED
      BY <3>1, <3>2
  <2>. QED
    BY <2>3, <2>6, <2>8, <2>10, <2>11 DEF Ordered
<1>. QED
  BY <1>5, <1>6

LEMMA ClosesFrame ==
  ASSUME TypeInv, NEW h \in 1..Len(hs), Closes(h), NEW n \in Names
  PROVE  /\ Old(n) /\ SameNames
         /\ \A g \in 1..Len(hs) :
              /\ hs'[g].aof = hs[g].aof /\ hs'[g].ops = hs[g].ops /\ hs'[g].buf = hs[g].buf
              /\ hs[g].closed => hs'[g].closed
              /\ hs'[g].closed => hs[g].closed \/ g = h
<1>1. /\ Len(hs') = Len(hs) /\ \A g \in 1..Len(hs) : g # h => hs'[g] = hs[g]
      /\ hs'[h].name = hs[h].name /\ hs'[h].ino = hs[h].ino /\ hs'[h].ops = hs[h].ops
      /\ hs'[h].aof = hs[h].aof /\ hs'[h].buf = hs[h].buf /\ hs'[h].closed = TRUE
  BY DEF Closes, SameHs, SameFile, SameLog
<1>. QED
  BY <1>1 DEF Old, SameNames

\* close() of a Sequencer of n, by a request that goes on to join(), to del or to the next
\* database of its walk.
LEMMA ClosingOrders ==
  ASSUME TypeInv, Refs, Inodes', NEW t \in Threads, SameRq(t), NEW n \in Names, Ordered(n),
         NEW h \in 1..Len(hs), Closes(h), opened' = opened, dir' = dir, files' = files, main' = main,
         rq[t].pc \notin Critical,
         hs[h].closed \/ (rq'[t].pc = "join" /\ rq'[t].h = h),
         rq'[t].name = n /\ rq'[t].pc \in Critical => \A u \in Threads : u # t => ~At(u, n, Critical),
         StepsAt(t, n)'
  PROVE  Ordered(n)'
<1>1. /\ Old(n)
      /\ \A g \in 1..Len(hs) :
           /\ hs'[g].aof = hs[g].aof /\ hs'[g].ops = hs[g].ops /\ hs'[g].buf = hs[g].buf
           /\ hs[g].closed => hs'[g].closed
           /\ hs'[g].closed => hs[g].closed \/ g = h
  BY ClosesFrame
<1>2. Solo(n)'
  BY SoloFrame DEF Ordered
<1>3. Steps(n)'
  BY <1>1, StepsFrame DEF Ordered
<1>4. ~At(t, n, {"register", "join"}) /\ ~At(t, n, {"del", "rmtree"})
  BY DEF At, Critical
<1>5. \A g \in 1..Len(hs) : hs'[g].closed => hs[g].closed \/ (rq'[t].pc = "join" /\ rq'[t].h = g)
  BY <1>1
<1>6. Tabled(n)'
  BY <1>1, <1>4, <1>5, TabledFrame DEF Ordered
<1>7. Leaving(n)'
  BY <1>1, <1>4, LeavingFrame DEF Ordered
<1>8. Contents(n)'
  BY <1>1, ContentsFrame DEF Ordered
<1>. QED
  BY <1>2, <1>3, <1>6, <1>7, <1>8 DEF Ordered

LEMMA DropCloseOrders ==
  ASSUME TypeInv, Refs, Inodes, Queues, Closers, Inodes', NEW t \in Threads, DropClose(t),
         NEW n \in Names, Ordered(n), calm'[n]
  PROVE  Ordered(n)'
<1>. DEFINE m == rq[t].name
            h == opened[m]
<1>1. /\ SameRq(t) /\ opened' = opened /\ dir' = dir /\ files' = files /\ main' = main
      /\ rq[t].pc = "close" /\ Marks(t) /\ rq'[t].name = m
  BY DropCloseFacts
<1>2. \/ h = 0 /\ rq'[t].pc = "rmtree" /\ hs' = hs
      \/ /\ h \in 1..Len(hs) /\ hs[h].name = m /\ rq'[t].h = h /\ Closes(h)
         /\ rq'[t].pc = IF hs[h].closed THEN "del" ELSE "join"
  BY DropCloseFacts, RefsNow
<1>3. m = n => \A u \in Threads : u # t => ~At(u, n, Critical)
  BY <1>1 DEF Marks, Busy, At, Critical
<1>4. rq[t].pc \notin Critical
  BY <1>1 DEF Critical
<1>. HIDE DEF m
<1>5. CASE h = 0 /\ rq'[t].pc = "rmtree" /\ hs' = hs
  <2>1. Quiet(n)
    BY <1>1, <1>5 DEF Quiet, Still, Old
  <2>2. CASE m # n
    <3>1. Elsewhere(t, n)
      BY <1>1, <1>4, <2>2 DEF Elsewhere, At
    <3>. QED
      BY <1>1, <2>1, <3>1, QuietElsewhere
  <2>3. CASE m = n
    <3>1. Solo(n)'
      BY <1>1, <1>3, <2>3, SoloFrame DEF Ordered
    <3>2. StepsAt(t, n)'
      BY <1>1, <1>5, <2>3 DEF StepsAt, At
    <3>3. Steps(n)'
      BY <1>1, <1>5, <3>2, StepsFrame DEF Ordered
    <3>4. ~At(t, n, {"register", "join"}) /\ ~At(t, n, {"del", "rmtree"})
      BY <1>1 DEF At
    <3>5. Tabled(n)'
      BY <1>1, <1>5, <2>1, <3>4, TabledFrame DEF Ordered, Quiet, Still
    <3>6. Leaving(n)'
      BY <1>1, <1>5, <2>1, <3>4, LeavingFrame DEF Ordered, Quiet, Still
    <3>7. Contents(n)'
      BY <1>1, <1>5, <2>1, ContentsFrame DEF Ordered, Quiet, Still
    <3>. QED
      BY <3>1, <3>3, <3>5, <3>6, <3>7 DEF Ordered
  <2>. QED
    BY <2>2, <2>3
<1>6. CASE /\ h \in 1..Len(hs) /\ hs[h].name = m /\ rq'[t].h = h /\ Closes(h)
           /\ rq'[t].pc = IF hs[h].closed THEN "del" ELSE "join"
  <2>1. rq'[t].name = n /\ rq'[t].pc \in Critical => \A u \in Threads : u # t => ~At(u, n, Critical)
    BY <1>1, <1>3
  <2>2. hs[h].closed \/ (rq'[t].pc = "join" /\ rq'[t].h = h)
    BY <1>6
  <2>3. m = n /\ hs[h].closed => ~hs[h].aof
    <3>. SUFFICES ASSUME m = n, hs[h].closed, hs[h].aof PROVE FALSE
      OBVIOUS
    <3>1. PICK u \in Threads : At(u, n, {"join"})
      BY <1>6, WhereOpen
    <3>2. u # t /\ At(u, n, Critical)
      BY <1>1, <3>1 DEF At, Critical
    <3>. QED
      BY <1>3, <3>2
  <2>4. hs'[h].aof = hs[h].aof /\ h # 0
    BY <1>6 DEF Closes
  <2>5. StepsAt(t, n)'
    BY <1>1, <1>6, <2>3, <2>4 DEF StepsAt, At
  <2>. HIDE DEF h
  <2>. QED
    BY <1>1, <1>4, <1>6, <2>1, <2>2, <2>5, ClosingOrders
<1>. QED
  BY <1>2, <1>5, <1>6

LEMMA VisitOrders ==
  ASSUME TypeInv, Refs, Inodes, Queues, Closers, Inodes', NEW t \in Threads, NEW m \in Names, Visit(t, m),
         NEW n \in Names, Ordered(n)
  PROVE  Ordered(n)'
<1>. DEFINE h == opened[m]
<1>1. /\ SameRq(t) /\ opened' = opened /\ dir' = dir /\ files' = files /\ main' = main
      /\ rq[t].pc = "next" /\ rq'[t].name = m /\ rq'[t].h = h /\ h \in 1..Len(hs) /\ hs[h].name = m
  BY VisitFacts, RefsNow
<1>2. \/ rq'[t].pc = "submit" /\ hs' = hs
      \/ /\ rq[t].kind = "close" /\ Closes(h)
         /\ rq'[t].pc = IF hs[h].closed THEN "next" ELSE "join"
  BY VisitFacts
<1>3. rq[t].pc \notin Critical /\ h # 0
  BY <1>1 DEF Critical
<1>4. CASE rq'[t].pc = "submit" /\ hs' = hs
  <2>1. rq'[t].pc \notin Critical
    BY <1>4 DEF Critical
  <2>. QED
    BY <1>1, <1>3, <1>4, <2>1, PlainOrders DEF SameNames, SameOpen
<1>5. CASE /\ rq[t].kind = "close" /\ Closes(h)
           /\ rq'[t].pc = IF hs[h].closed THEN "next" ELSE "join"
  <2>1. main # "serving"
    BY <1>5 DEF Closers
  <2>2. hs[h].closed \/ (rq'[t].pc = "join" /\ rq'[t].h = h)
    BY <1>1, <1>5
  <2>3. ASSUME rq'[t].name = n, rq'[t].pc \in Critical, NEW u \in Threads, At(u, n, Critical) PROVE FALSE
    <3>1. m = n /\ ~hs[h].closed
      BY <1>1, <1>5, <2>3 DEF Critical
    <3>2. hs[h].aof
      BY <1>1, <3>1, QueuesNow
    <3>3. rq[u].pc \in {"load", "register", "rmtree", "join", "del"} /\ StepsAt(u, n)
      BY <2>3 DEF At, Critical, Ordered, Steps
    <3>4. At(u, n, {"join"}) /\ opened[n] = rq[u].h
      BY <1>3, <2>3, <3>1, <3>2, <3>3 DEF StepsAt, At
    <3>5. hs[h].closed
      BY <3>1, <3>4 DEF Queues, At
    <3>. QED
      BY <3>1, <3>5
  <2>4. rq'[t].name = n /\ rq'[t].pc \in Critical => \A u \in Threads : u # t => ~At(u, n, Critical)
    BY <2>3
  <2>5. StepsAt(t, n)'
    BY <1>1, <1>5, <2>1 DEF StepsAt, At
  <2>. HIDE DEF h
  <2>. QED
    BY <1>1, <1>3, <1>5, <2>2, <2>4, <2>5, ClosingOrders
<1>. QED
  BY <1>2, <1>4, <1>5

LEMMA WalkedOrders ==
  ASSUME TypeInv, Refs, Inodes, Queues, Closers, Inodes', NEW t \in Threads, Walked(t),
         NEW n \in Names, Ordered(n), calm'[n]
  PROVE  Ordered(n)'
<1>1. /\ SameRq(t) /\ dir' = dir /\ files' = files /\ hs' = hs /\ rq[t].pc = "next"
      /\ rq'[t].pc \in {"idle", "next"}
      /\ \/ opened' = opened /\ main' = main
         \/ /\ opened'[n] = 0 /\ main' = "stopped"
            /\ opened[n] # 0 => hs[opened[n]].closed
  BY WalkedFacts
<1>2. rq[t].pc \notin Critical /\ rq'[t].pc \notin Critical
  BY <1>1 DEF Critical
<1>3. CASE opened' = opened /\ main' = main
  BY <1>1, <1>2, <1>3, PlainOrders DEF SameNames, SameOpen
<1>4. CASE /\ opened'[n] = 0 /\ main' = "stopped"
           /\ opened[n] # 0 => hs[opened[n]].closed
  <2>1. Solo(n)'
    BY <1>1, <1>2, SoloFrame DEF Ordered
  <2>2. Steps(n)'
    BY <1>4 DEF Steps, StepsAt, At
  <2>3. ASSUME NEW h \in 1..Len(hs), hs[h].name = n, hs[h].aof
        PROVE  /\ hs[h].ino = dir[n]
               /\ ~hs[h].closed => \E u \in Threads : rq'[u].pc = "register" /\ rq'[u].h = h
               /\ hs[h].closed => \E u \in Threads : rq'[u].pc = "join" /\ rq'[u].h = h
    <3>1. /\ hs[h].ino = dir[n]
          /\ ~hs[h].closed => opened[n] = h \/ \E u \in Threads : rq[u].pc = "register" /\ rq[u].h = h
          /\ hs[h].closed => \E u \in Threads : rq[u].pc = "join" /\ rq[u].h = h
      BY <2>3 DEF Ordered, Tabled
    <3>2. opened[n] = h => hs[h].closed
      BY <1>4
    <3>. QED
      BY <1>1, <3>1, <3>2 DEF SameRq
  <2>4. Tabled(n)'
    BY <1>1, <2>3 DEF Tabled
  <2>5. Leaving(n)'
    BY <1>4 DEF Leaving
  <2>6. Contents(n)'
    BY <1>1, <1>4, ContentsFrame DEF Ordered, Old
  <2>. QED
    BY <2>1, <2>2, <2>4, <2>5, <2>6 DEF Ordered
<1>. QED
  BY <1>1, <1>3, <1>4

LEMMA CalmlyStep ==
  ASSUME TypeInv, Refs, Inodes, Queues, Closers, Calmly, Inodes', Next
  PROVE  Calmly'
<1>1. ASSUME NEW t \in Threads, NEW kind \in Kinds, NEW n \in Names, Begin(t, kind, n) PROVE Calmly'
  <2>1. SameRq(t) /\ dir' = dir /\ opened' = opened /\ files' = files /\ calm' = calm
    BY <1>1, BeginFacts DEF SameRq
  <2>2. main' = "serving" => main = "serving"
    BY <1>1, BeginFacts
  <2>3. rq[t].pc \notin Critical /\ rq'[t].pc \notin Critical
    BY <1>1, BeginFacts DEF Begin, Critical, Rests
  <2>4. SameNames
    BY <1>1, BeginFacts, OneHandle DEF SameNames
  <2>5. \A g \in 1..Len(hs) : SameOpen(g) /\ hs'[g].ops = hs[g].ops /\ hs'[g].buf = hs[g].buf
    BY <1>1, BeginFacts DEF SameHs, SameOpen, SameLog
  <2>. QED
    BY <2>1, <2>2, <2>3, <2>4, <2>5, PlainOrders DEF Calmly
<1>2. ASSUME NEW t \in Threads, Select(t) PROVE Calmly'
  <2>1. SameRq(t) /\ dir' = dir /\ opened' = opened /\ files' = files /\ calm' = calm
    BY <1>2, SelectFacts DEF SameRq
  <2>2. main' = "serving" => main = "serving"
    BY <1>2, SelectFacts
  <2>3. rq[t].pc \notin Critical /\ rq'[t].pc \notin Critical
    BY <1>2, SelectFacts DEF Select, Critical, Rests
  <2>4. SameNames
    BY <1>2, SelectFacts, OneHandle DEF SameNames
  <2>5. \A g \in 1..Len(hs) : SameOpen(g) /\ hs'[g].ops = hs[g].ops /\ hs'[g].buf = hs[g].buf
    BY <1>2, SelectFacts DEF SameHs, SameOpen, SameLog
  <2>. QED
    BY <2>1, <2>2, <2>3, <2>4, <2>5, PlainOrders DEF Calmly
<1>3. ASSUME NEW t \in Threads, CheckExists(t) PROVE Calmly'
  <2>1. SameRq(t) /\ dir' = dir /\ opened' = opened /\ files' = files /\ calm' = calm
    BY <1>3, CheckExistsFacts DEF SameRq
  <2>2. main' = "serving" => main = "serving"
    BY <1>3, CheckExistsFacts
  <2>3. rq[t].pc \notin Critical /\ rq'[t].pc \notin Critical
    BY <1>3, CheckExistsFacts DEF CheckExists, Critical, Rests
  <2>4. SameNames
    BY <1>3, CheckExistsFacts, OneHandle DEF SameNames
  <2>5. \A g \in 1..Len(hs) : SameOpen(g) /\ hs'[g].ops = hs[g].ops /\ hs'[g].buf = hs[g].buf
    BY <1>3, CheckExistsFacts DEF SameHs, SameOpen, SameLog
  <2>. QED
    BY <2>1, <2>2, <2>3, <2>4, <2>5, PlainOrders DEF Calmly
<1>4. ASSUME NEW t \in Threads, OpenTest(t) PROVE Calmly'
  <2>1. \A m \in Names : calm'[m] => calm[m]
    BY <1>4, OpenTestFacts DEF Marks
  <2>. QED
    BY <1>4, <2>1, OpenTestOrders DEF Calmly
<1>5. ASSUME NEW t \in Threads, Load(t) PROVE Calmly'
  <2>1. \A m \in Names : calm'[m] => calm[m]
    BY <1>5, LoadFacts
  <2>. QED
    BY <1>5, <2>1, LoadOrders DEF Calmly
<1>6. ASSUME NEW t \in Threads, Register(t) PROVE Calmly'
  <2>1. \A m \in Names : calm'[m] => calm[m]
    BY <1>6, RegisterFacts
  <2>. QED
    BY <1>6, <2>1, RegisterOrders DEF Calmly
<1>7. ASSUME NEW t \in Threads, Lookup(t) PROVE Calmly'
  <2>1. SameRq(t) /\ dir' = dir /\ opened' = opened /\ files' = files /\ calm' = calm
    BY <1>7, LookupFacts DEF SameRq
  <2>2. main' = "serving" => main = "serving"
    BY <1>7, LookupFacts
  <2>3. rq[t].pc \notin Critical /\ rq'[t].pc \notin Critical
    BY <1>7, LookupFacts DEF Lookup, Critical, Rests
  <2>4. SameNames
    BY <1>7, LookupFacts, OneHandle DEF SameNames
  <2>5. \A g \in 1..Len(hs) : SameOpen(g) /\ hs'[g].ops = hs[g].ops /\ hs'[g].buf = hs[g].buf
    BY <1>7, LookupFacts DEF SameHs, SameOpen, SameLog
  <2>. QED
    BY <2>1, <2>2, <2>3, <2>4, <2>5, PlainOrders DEF Calmly
<1>8. ASSUME NEW t \in Threads, Submit(t) PROVE Calmly'
  <2>1. SameRq(t) /\ dir' = dir /\ opened' = opened /\ files' = files /\ calm' = calm
    BY <1>8, SubmitFacts DEF SameRq
  <2>2. main' = "serving" => main = "serving"
    BY <1>8, SubmitFacts
  <2>3. rq[t].pc \notin Critical /\ rq'[t].pc \notin Critical
    BY <1>8, SubmitFacts DEF Submit, Critical, Rests
  <2>4. SameNames
    BY <1>8, SubmitFacts, OneHandle DEF SameNames
  <2>5. \A g \in 1..Len(hs) : SameOpen(g) /\ hs'[g].ops = hs[g].ops /\ hs'[g].buf = hs[g].buf
    BY <1>8, SubmitFacts DEF SameHs, SameOpen, SameLog
  <2>. QED
    BY <2>1, <2>2, <2>3, <2>4, <2>5, PlainOrders DEF Calmly
<1>9. ASSUME NEW t \in Threads, TakeNonce(t) PROVE Calmly'
  <2>1. SameRq(t) /\ dir' = dir /\ opened' = opened /\ files' = files /\ calm' = calm
    BY <1>9, TakeNonceFacts DEF SameRq
  <2>2. main' = "serving" => main = "serving"
    BY <1>9, TakeNonceFacts
  <2>3. rq[t].pc \notin Critical /\ rq'[t].pc \notin Critical
    BY <1>9, TakeNonceFacts DEF TakeNonce, Critical, Rests
  <2>4. SameNames
    BY <1>9, TakeNonceFacts, OneHandle DEF SameNames
  <2>5. \A g \in 1..Len(hs) : SameOpen(g) /\ hs'[g].ops = hs[g].ops /\ hs'[g].buf = hs[g].buf
    BY <1>9, TakeNonceFacts DEF SameHs, SameOpen, SameLog
  <2>. QED
    BY <2>1, <2>2, <2>3, <2>4, <2>5, PlainOrders DEF Calmly
<1>10. ASSUME NEW t \in Threads, ReadHead(t) PROVE Calmly'
  <2>1. SameRq(t) /\ dir' = dir /\ opened' = opened /\ files' = files /\ calm' = calm
    BY <1>10, ReadHeadFacts DEF SameRq
  <2>2. main' = "serving" => main = "serving"
    BY <1>10, ReadHeadFacts
  <2>3. rq[t].pc \notin Critical /\ rq'[t].pc \notin Critical
    BY <1>10, ReadHeadFacts DEF ReadHead, Critical, Rests
  <2>4. SameNames
    BY <1>10, ReadHeadFacts, OneHandle DEF SameNames
  <2>5. \A g \in 1..Len(hs) : SameOpen(g) /\ hs'[g].ops = hs[g].ops /\ hs'[g].buf = hs[g].buf
    BY <1>10, ReadHeadFacts DEF SameHs, SameOpen, SameLog
  <2>. QED
    BY <2>1, <2>2, <2>3, <2>4, <2>5, PlainOrders DEF Calmly
<1>11. ASSUME NEW t \in Threads, AppendOp(t) PROVE Calmly'
  <2>1. \A m \in Names : calm'[m] => calm[m]
    BY <1>11, AppendOpFacts
  <2>. QED
    BY <1>11, <2>1, AppendOpOrders DEF Calmly
<1>12. ASSUME NEW t \in Threads, FlushAndWake(t) PROVE Calmly'
  <2>1. \A m \in Names : calm'[m] => calm[m]
    BY <1>12, FlushAndWakeFacts
  <2>. QED
    BY <1>12, <2>1, FlushAndWakeOrders DEF Calmly
<1>13. ASSUME NEW t \in Threads, DropClose(t) PROVE Calmly'
  <2>1. \A m \in Names : calm'[m] => calm[m]
    BY <1>13, DropCloseFacts DEF Marks
  <2>. QED
    BY <1>13, <2>1, DropCloseOrders DEF Calmly
<1>14. ASSUME NEW t \in Threads, Join(t) PROVE Calmly'
  <2>1. \A m \in Names : calm'[m] => calm[m]
    BY <1>14, JoinFacts
  <2>. QED
    BY <1>14, <2>1, JoinOrders DEF Calmly
<1>15. ASSUME NEW t \in Threads, Del(t) PROVE Calmly'
  <2>1. \A m \in Names : calm'[m] => calm[m]
    BY <1>15, DelFacts
  <2>. QED
    BY <1>15, <2>1, DelOrders DEF Calmly
<1>16. ASSUME NEW t \in Threads, Rmtree(t) PROVE Calmly'
  <2>1. \A m \in Names : calm'[m] => calm[m]
    BY <1>16, RmtreeFacts
  <2>. QED
    BY <1>16, <2>1, RmtreeOrders DEF Calmly
<1>17. ASSUME NEW t \in Threads, NEW kind \in Kinds, Walk(t, kind) PROVE Calmly'
  <2>1. SameRq(t) /\ dir' = dir /\ opened' = opened /\ files' = files /\ calm' = calm
    BY <1>17, WalkFacts DEF SameRq
  <2>2. main' = "serving" => main = "serving"
    BY <1>17, WalkFacts
  <2>3. rq[t].pc \notin Critical /\ rq'[t].pc \notin Critical
    BY <1>17, WalkFacts DEF Walk, Critical, Rests
  <2>4. SameNames
    BY <1>17, WalkFacts, OneHandle DEF SameNames
  <2>5. \A g \in 1..Len(hs) : SameOpen(g) /\ hs'[g].ops = hs[g].ops /\ hs'[g].buf = hs[g].buf
    BY <1>17, WalkFacts DEF SameHs, SameOpen, SameLog
  <2>. QED
    BY <2>1, <2>2, <2>3, <2>4, <2>5, PlainOrders DEF Calmly
<1>18. ASSUME NEW t \in Threads, NEW n \in Names, Visit(t, n) PROVE Calmly'
  BY <1>18, VisitFacts, VisitOrders DEF Calmly
<1>19. ASSUME NEW t \in Threads, Walked(t) PROVE Calmly'
  <2>1. \A m \in Names : calm'[m] => calm[m]
    BY <1>19, WalkedFacts
  <2>. QED
    BY <1>19, <2>1, WalkedOrders DEF Calmly
<1>20. ASSUME Exit PROVE Calmly'
  <2>1. /\ hs' = << >> /\ 1..Len(hs') = {} /\ main' = "down" /\ \A m \in Names : opened'[m] = 0
        /\ \A u \in Threads : rq'[u].pc = "idle"
    BY <1>20, ExitFacts, IdleFacts
  <2>2. ASSUME NEW m \in Names PROVE Ordered(m)'
    <3>1. Solo(m)' /\ Steps(m)'
      BY <2>1 DEF Solo, Steps, StepsAt, At, Critical
    <3>2. Tabled(m)' /\ Leaving(m)' /\ Contents(m)'
      BY <2>1 DEF Tabled, Leaving, Contents
    <3>. QED
      BY <3>1, <3>2 DEF Ordered
  <2>. QED
    BY <2>2 DEF Calmly
<1>21. ASSUME Boot PROVE Calmly'
  BY <1>21, BootFacts, RestartedInv, PTL
<1>. QED
  BY <1>1, <1>2, <1>3, <1>4, <1>5, <1>6, <1>7, <1>8, <1>9, <1>10, <1>11, <1>12, <1>13, <1>14, <1>15, <1>16, <1>17, <1>18, <1>19, <1>20, <1>21 DEF Next, Serve

-----------------------------------------------------------------------------
(* Answered writes.                                                         *)

CalmShrinks == \A n \in Names : calm'[n] => calm[n]

\* Which steps answer a write.
AnswersGrow ==
  \/ answered' = answered
  \/ \E t \in Threads : AppendOp(t) /\ answered' = answered \cup {Noted(t, TRUE)}
  \/ \E t \in Threads : FlushAndWake(t) /\ rq[t].pc = "flush" /\ answered' = answered \cup {Noted(t, FALSE)}
  \/ Exit

LEMMA AnswersStep ==
  ASSUME TypeInv, Refs, Inodes, Queues, Closers, Next
  PROVE  CalmShrinks /\ AnswersGrow
<1>1. ASSUME NEW t \in Threads, NEW kind \in Kinds, NEW n \in Names, Begin(t, kind, n) PROVE CalmShrinks /\ AnswersGrow
  <2>1. CalmShrinks
    BY <1>1, BeginFacts DEF CalmShrinks
  <2>2. answered' = answered
    BY <1>1, BeginFacts
  <2>. QED
    BY <2>1, <2>2 DEF AnswersGrow
<1>2. ASSUME NEW t \in Threads, Select(t) PROVE CalmShrinks /\ AnswersGrow
  <2>1. CalmShrinks
    BY <1>2, SelectFacts DEF CalmShrinks
  <2>2. answered' = answered
    BY <1>2, SelectFacts
  <2>. QED
    BY <2>1, <2>2 DEF AnswersGrow
<1>3. ASSUME NEW t \in Threads, CheckExists(t) PROVE CalmShrinks /\ AnswersGrow
  <2>1. CalmShrinks
    BY <1>3, CheckExistsFacts DEF CalmShrinks
  <2>2. answered' = answered
    BY <1>3, CheckExistsFacts
  <2>. QED
    BY <2>1, <2>2 DEF AnswersGrow
<1>4. ASSUME NEW t \in Threads, OpenTest(t) PROVE CalmShrinks /\ AnswersGrow
  <2>1. CalmShrinks
    BY <1>4, OpenTestFacts DEF CalmShrinks, Marks
  <2>2. answered' = answered
    BY <1>4, OpenTestFacts
  <2>. QED
    BY <2>1, <2>2 DEF AnswersGrow
<1>5. ASSUME NEW t \in Threads, Load(t) PROVE CalmShrinks /\ AnswersGrow
  <2>1. CalmShrinks
    BY <1>5, LoadFacts DEF CalmShrinks
  <2>2. answered' = answered
    BY <1>5, LoadFacts
  <2>. QED
    BY <2>1, <2>2 DEF AnswersGrow
<1>6. ASSUME NEW t \in Threads, Register(t) PROVE CalmShrinks /\ AnswersGrow
  <2>1. CalmShrinks
    BY <1>6, RegisterFacts DEF CalmShrinks
  <2>2. answered' = answered
    BY <1>6, RegisterFacts
  <2>. QED
    BY <2>1, <2>2 DEF AnswersGrow
<1>7. ASSUME NEW t \in Threads, Lookup(t) PROVE CalmShrinks /\ AnswersGrow
  <2>1. CalmShrinks
    BY <1>7, LookupFacts DEF CalmShrinks
  <2>2. answered' = answered
    BY <1>7, LookupFacts
  <2>. QED
    BY <2>1, <2>2 DEF AnswersGrow
<1>8. ASSUME NEW t \in Threads, Submit(t) PROVE CalmShrinks /\ AnswersGrow
  <2>1. CalmShrinks
    BY <1>8, SubmitFacts DEF CalmShrinks
  <2>2. answered' = answered
    BY <1>8, SubmitFacts
  <2>. QED
    BY <2>1, <2>2 DEF AnswersGrow
<1>9. ASSUME NEW t \in Threads, TakeNonce(t) PROVE CalmShrinks /\ AnswersGrow
  <2>1. CalmShrinks
    BY <1>9, TakeNonceFacts DEF CalmShrinks
  <2>2. answered' = answered
    BY <1>9, TakeNonceFacts
  <2>. QED
    BY <2>1, <2>2 DEF AnswersGrow
<1>10. ASSUME NEW t \in Threads, ReadHead(t) PROVE CalmShrinks /\ AnswersGrow
  <2>1. CalmShrinks
    BY <1>10, ReadHeadFacts DEF CalmShrinks
  <2>2. answered' = answered
    BY <1>10, ReadHeadFacts
  <2>. QED
    BY <2>1, <2>2 DEF AnswersGrow
<1>11. ASSUME NEW t \in Threads, AppendOp(t) PROVE CalmShrinks /\ AnswersGrow
  <2>1. CalmShrinks
    BY <1>11, AppendOpFacts DEF CalmShrinks
  <2>2. answered' = answered \/ answered' = answered \cup {Noted(t, TRUE)}
    BY <1>11, AppendOpFacts
  <2>. QED
    BY <1>11, <2>1, <2>2 DEF AnswersGrow
<1>12. ASSUME NEW t \in Threads, FlushAndWake(t) PROVE CalmShrinks /\ AnswersGrow
  <2>1. CalmShrinks
    BY <1>12, FlushAndWakeFacts DEF CalmShrinks
  <2>2. answered' = answered \/ (rq[t].pc = "flush" /\ answered' = answered \cup {Noted(t, FALSE)})
    BY <1>12, FlushAndWakeFacts
  <2>. QED
    BY <1>12, <2>1, <2>2 DEF AnswersGrow
<1>13. ASSUME NEW t \in Threads, DropClose(t) PROVE CalmShrinks /\ AnswersGrow
  <2>1. CalmShrinks
    BY <1>13, DropCloseFacts DEF CalmShrinks, Marks
  <2>2. answered' = answered
    BY <1>13, DropCloseFacts
  <2>. QED
    BY <2>1, <2>2 DEF AnswersGrow
<1>14. ASSUME NEW t \in Threads, Join(t) PROVE CalmShrinks /\ AnswersGrow
  <2>1. CalmShrinks
    BY <1>14, JoinFacts DEF CalmShrinks
  <2>2. answered' = answered
    BY <1>14, JoinFacts
  <2>. QED
    BY <2>1, <2>2 DEF AnswersGrow
<1>15. ASSUME NEW t \in Threads, Del(t) PROVE CalmShrinks /\ AnswersGrow
  <2>1. CalmShrinks
    BY <1>15, DelFacts DEF CalmShrinks
  <2>2. answered' = answered
    BY <1>15, DelFacts
  <2>. QED
    BY <2>1, <2>2 DEF AnswersGrow
<1>16. ASSUME NEW t \in Threads, Rmtree(t) PROVE CalmShrinks /\ AnswersGrow
  <2>1. CalmShrinks
    BY <1>16, RmtreeFacts DEF CalmShrinks
  <2>2. answered' = answered
    BY <1>16, RmtreeFacts
  <2>. QED
    BY <2>1, <2>2 DEF AnswersGrow
<1>17. ASSUME NEW t \in Threads, NEW kind \in Kinds, Walk(t, kind) PROVE CalmShrinks /\ AnswersGrow
  <2>1. CalmShrinks
    BY <1>17, WalkFacts DEF CalmShrinks
  <2>2. answered' = answered
    BY <1>17, WalkFacts
  <2>. QED
    BY <2>1, <2>2 DEF AnswersGrow
<1>18. ASSUME NEW t \in Threads, NEW n \in Names, Visit(t, n) PROVE CalmShrinks /\ AnswersGrow
  <2>1. CalmShrinks
    BY <1>18, VisitFacts DEF CalmShrinks
  <2>2. answered' = answered
    BY <1>18, VisitFacts
  <2>. QED
    BY <2>1, <2>2 DEF AnswersGrow
<1>19. ASSUME NEW t \in Threads, Walked(t) PROVE CalmShrinks /\ AnswersGrow
  <2>1. CalmShrinks
    BY <1>19, WalkedFacts DEF CalmShrinks
  <2>2. answered' = answered
    BY <1>19, WalkedFacts
  <2>. QED
    BY <2>1, <2>2 DEF AnswersGrow
<1>20. ASSUME Exit PROVE CalmShrinks /\ AnswersGrow
  BY <1>20, ExitFacts DEF CalmShrinks, AnswersGrow
<1>21. ASSUME Boot PROVE CalmShrinks /\ AnswersGrow
  BY <1>21, BootFacts DEF CalmShrinks, AnswersGrow
<1>22. ASSUME NEW t \in Threads, Serve(t) PROVE CalmShrinks /\ AnswersGrow
  BY <1>1, <1>2, <1>3, <1>4, <1>5, <1>6, <1>7, <1>8, <1>9, <1>10, <1>11, <1>12, <1>13, <1>14, <1>15,
     <1>16, <1>17, <1>18, <1>19, <1>22, Zenon DEF Serve
<1>. QED
  BY <1>20, <1>21, <1>22 DEF Next

\* What an engine of a calm database flushes is saved.
LEMMA FlushedSaved ==
  ASSUME TypeInv, Refs, TypeInv', Refs', NEW n \in Names, Ordered(n),
         NEW h \in 1..Len(hs), hs[h].name = n, hs[h].aof, Flushed(h), dir' = dir
  PROVE  Buffered(h) \subseteq Saved(n)' /\ Written(hs[h].ino) \subseteq Saved(n)'
<1>1. hs[h].ino = dir[n] /\ dir[n] # 0 /\ hs[h].ino \in 1..Len(files)
  <2>1. hs[h].ino = dir[n]
    BY WhereOpen
  <2>2. hs[h].ino \in 1..Len(files) /\ 0 \notin 1..Len(files)
    BY DEF Refs
  <2>. QED
    BY <2>1, <2>2, Zenon
<1>2. Written(hs[h].ino) = Writes(files[hs[h].ino])
  BY <1>1, WrittenNow
<1>3. /\ Writes(files[hs[h].ino]) \subseteq Writes(files'[hs[h].ino])
      /\ Buffered(h) \subseteq Writes(files'[hs[h].ino])
  BY <1>1, FlushedGrows DEF Grows
<1>4. Saved(n)' = removed' \cup Writes(files'[dir'[n]])
  BY <1>1, SavedNext
<1>. QED
  BY <1>1, <1>2, <1>3, <1>4

\* A write that FlushAndWake answers is saved.
LEMMA FlushSaves ==
  ASSUME TypeInv, Refs, Inodes, Queues, Pending, TypeInv', Refs', NEW t \in Threads, FlushAndWake(t),
         rq[t].pc = "flush", NEW n \in Names, n = rq[t].name, Ordered(n), NEW w, w = rq[t].op.w
  PROVE  w \in Saved(n)'
<1>0. PICK h \in 1..Len(hs) : h = rq[t].h /\ hs[h].name = n
  BY InHand DEF Holding
<1>1. Flushed(h) /\ hs[h].q # << >> /\ dir' = dir
  BY <1>0, FlushAndWakeFacts
<1>2. hs[h].aof
  BY <1>0, <1>1, QueuesNow
<1>3. w \in Buffered(h) \cup Written(hs[h].ino)
  BY <1>0 DEF Pending
<1>4. Buffered(h) \subseteq Saved(n)' /\ Written(hs[h].ino) \subseteq Saved(n)'
  BY <1>0, <1>1, <1>2, FlushedSaved
<1>. QED
  BY <1>3, <1>4

LEMMA SurviveStep ==
  ASSUME TypeInv, Refs, Inodes, Queues, Closers, Calmly, Pending, AcknowledgedSurvive, TypeInv', Refs', Next
  PROVE  AcknowledgedSurvive'
<1>1. CalmShrinks /\ AnswersGrow
  BY AnswersStep
<1>2. ASSUME NEW a \in answered, ~a.mongo, calm'[a.name] PROVE Kept(a)'
  <2>1. a.name \in Names
    BY DEF TypeInv, Answers
  <2>2. a.w \in Saved(a.name)
    BY <1>1, <1>2, <2>1 DEF CalmShrinks, AcknowledgedSurvive, Kept, Saved
  <2>3. a.w \in Saved(a.name)'
    BY <2>1, <2>2, SavedStep
  <2>. QED
    BY <2>3 DEF Kept, Saved
<1>3. CASE answered' = answered
  BY <1>2, <1>3 DEF AcknowledgedSurvive
<1>4. ASSUME NEW t \in Threads, AppendOp(t), answered' = answered \cup {Noted(t, TRUE)}
      PROVE  AcknowledgedSurvive'
  <2>1. Noted(t, TRUE).mongo = TRUE
    BY <1>4, NotedFacts DEF AppendOp, Holding
  <2>. QED
    BY <1>2, <1>4, <2>1 DEF AcknowledgedSurvive
<1>5. ASSUME NEW t \in Threads, FlushAndWake(t), rq[t].pc = "flush", answered' = answered \cup {Noted(t, FALSE)}
      PROVE  AcknowledgedSurvive'
  <2>0. PICK b : b = Noted(t, FALSE)
    OBVIOUS
  <2>1. b.w = rq[t].op.w /\ b.name = rq[t].name /\ b.name \in Names
    BY <1>5, <2>0, NotedFacts, RefsNow DEF Holding
  <2>2. calm'[b.name] => b.w \in Saved(b.name)'
    BY <1>1, <1>5, <2>1, FlushSaves DEF CalmShrinks, Calmly
  <2>3. calm'[b.name] => Kept(b)'
    BY <2>2 DEF Kept, Saved
  <2>4. ASSUME NEW a \in answered', ~a.mongo, calm'[a.name] PROVE Kept(a)'
    <3>1. CASE a \in answered
      BY <1>2, <2>4, <3>1
    <3>2. CASE a = b
      BY <2>3, <2>4, <3>2
    <3>. QED
      BY <1>5, <2>0, <2>4, <3>1, <3>2
  <2>. QED
    BY <2>4 DEF AcknowledgedSurvive
<1>6. CASE Exit
  <2>1. \A b \in answered' : \E a \in answered : a.w = b.w /\ a.name = b.name /\ a.mongo = b.mongo
    BY <1>6, ExitFacts
  <2>2. \A a \in answered : ~a.mongo /\ calm'[a.name] => a.w \in Saved(a.name)'
    BY <1>2 DEF Kept, Saved
  <2>3. ASSUME NEW b \in answered', ~b.mongo, calm'[b.name] PROVE b.w \in Saved(b.name)'
    <3>1. PICK a \in answered : a.w = b.w /\ a.name = b.name /\ a.mongo = b.mongo
      BY <2>1
    <3>2. a.w \in Saved(a.name)'
      BY <2>2, <2>3, <3>1
    <3>. QED
      BY <3>1, <3>2 DEF Saved
  <2>. QED
    BY <2>3 DEF AcknowledgedSurvive, Kept, Saved
<1>. QED
  BY <1>1, <1>3, <1>4, <1>5, <1>6 DEF AnswersGrow

-----------------------------------------------------------------------------
(* Mongo writes.                                                            *)

LEMMA NoWrites == Writes(<< >>) = {}
<1>1. Len(<< >>) = 0 /\ 1..0 = {}
  OBVIOUS
<1>. QED
  BY <1>1 DEF Writes

LEMMA BufferFrame ==
  ASSUME NEW n \in Names, NEW t \in Threads, SameRq(t), NEW h \in 1..Len(hs), hs[h].name = n, hs[h].aof,
         NEW w \in Buffered(h),
         main = "stopped" => \E u \in Threads : rq[u].pc = "join" /\ rq[u].h = h /\ rq[u].kind = "drop",
         h \in 1..Len(hs'), hs'[h].name = hs[h].name, hs'[h].aof = hs[h].aof,
         Buffered(h) \subseteq Writes(hs'[h].buf), main' = "stopped" => main = "stopped",
         ~(rq[t].pc = "join" /\ rq[t].h = h)
  PROVE  InBuffer(w, n)'
<1>1. main' = "stopped" => \E u \in Threads : rq'[u].pc = "join" /\ rq'[u].h = h /\ rq'[u].kind = "drop"
  BY DEF SameRq
<1>. QED
  BY <1>1 DEF InBuffer, Buffered

LEMMA InBufferServe ==
  ASSUME TypeInv, Refs, Inodes, Queues, Closers, Unshared, TypeInv', Refs', NEW s \in Threads, Serve(s),
         NEW n \in Names, Ordered(n), calm'[n], NEW w, InBuffer(w, n)
  PROVE  w \in Saved(n)' \/ InBuffer(w, n)'
<1>0. PICK h \in 1..Len(hs) :
        /\ hs[h].name = n /\ hs[h].aof /\ w \in Buffered(h)
        /\ main = "stopped" => \E t \in Threads : rq[t].pc = "join" /\ rq[t].h = h /\ rq[t].kind = "drop"
  BY DEF InBuffer
<1>1. ASSUME NEW t \in Threads, NEW kind \in Kinds, NEW m \in Names, Begin(t, kind, m) PROVE w \in Saved(n)' \/ InBuffer(w, n)'
  <2>1. SameRq(t) /\ rq[t].pc # "join"
    BY <1>1, BeginFacts DEF SameRq, Begin
  <2>2. main' = "stopped" => main = "stopped"
    BY <1>1, BeginFacts
  <2>3. /\ h \in 1..Len(hs') /\ hs'[h].name = hs[h].name /\ hs'[h].aof = hs[h].aof /\ hs'[h].buf = hs[h].buf
    BY <1>1, <1>0, BeginFacts DEF SameHs, SameFile, SameOpen, Closes
  <2>. QED
    BY <1>0, <2>1, <2>2, <2>3, BufferFrame DEF Buffered
<1>2. ASSUME NEW t \in Threads, Select(t) PROVE w \in Saved(n)' \/ InBuffer(w, n)'
  <2>1. SameRq(t) /\ rq[t].pc # "join"
    BY <1>2, SelectFacts DEF SameRq, Select
  <2>2. main' = "stopped" => main = "stopped"
    BY <1>2, SelectFacts
  <2>3. /\ h \in 1..Len(hs') /\ hs'[h].name = hs[h].name /\ hs'[h].aof = hs[h].aof /\ hs'[h].buf = hs[h].buf
    BY <1>2, <1>0, SelectFacts DEF SameHs, SameFile, SameOpen, Closes
  <2>. QED
    BY <1>0, <2>1, <2>2, <2>3, BufferFrame DEF Buffered
<1>3. ASSUME NEW t \in Threads, CheckExists(t) PROVE w \in Saved(n)' \/ InBuffer(w, n)'
  <2>1. SameRq(t) /\ rq[t].pc # "join"
    BY <1>3, CheckExistsFacts DEF SameRq, CheckExists
  <2>2. main' = "stopped" => main = "stopped"
    BY <1>3, CheckExistsFacts
  <2>3. /\ h \in 1..Len(hs') /\ hs'[h].name = hs[h].name /\ hs'[h].aof = hs[h].aof /\ hs'[h].buf = hs[h].buf
    BY <1>3, <1>0, CheckExistsFacts DEF SameHs, SameFile, SameOpen, Closes
  <2>. QED
    BY <1>0, <2>1, <2>2, <2>3, BufferFrame DEF Buffered
<1>4. ASSUME NEW t \in Threads, OpenTest(t) PROVE w \in Saved(n)' \/ InBuffer(w, n)'
  <2>1. SameRq(t) /\ rq[t].pc # "join"
    BY <1>4, OpenTestFacts DEF SameRq, OpenTest
  <2>2. main' = "stopped" => main = "stopped"
    BY <1>4, OpenTestFacts
  <2>3. /\ h \in 1..Len(hs') /\ hs'[h].name = hs[h].name /\ hs'[h].aof = hs[h].aof /\ hs'[h].buf = hs[h].buf
    BY <1>4, <1>0, OpenTestFacts DEF SameHs, SameFile, SameOpen, Closes
  <2>. QED
    BY <1>0, <2>1, <2>2, <2>3, BufferFrame DEF Buffered
<1>5. ASSUME NEW t \in Threads, Load(t) PROVE w \in Saved(n)' \/ InBuffer(w, n)'
  <2>1. SameRq(t) /\ rq[t].pc # "join" /\ main' = main
    BY <1>5, LoadFacts
  <2>2. Len(hs') = Len(hs) + 1 /\ \A g \in 1..Len(hs) : hs'[g] = hs[g]
    BY <1>5, LoadFacts
  <2>3. h \in 1..Len(hs') /\ hs'[h] = hs[h]
    BY <1>0, <2>2, LenProperties DEF TypeInv
  <2>. QED
    BY <1>0, <2>1, <2>3, BufferFrame DEF Buffered
<1>6. ASSUME NEW t \in Threads, Register(t) PROVE w \in Saved(n)' \/ InBuffer(w, n)'
  <2>1. SameRq(t) /\ rq[t].pc # "join"
    BY <1>6, RegisterFacts DEF SameRq, Register
  <2>2. main' = "stopped" => main = "stopped"
    BY <1>6, RegisterFacts
  <2>3. /\ h \in 1..Len(hs') /\ hs'[h].name = hs[h].name /\ hs'[h].aof = hs[h].aof /\ hs'[h].buf = hs[h].buf
    BY <1>6, <1>0, RegisterFacts DEF SameHs, SameFile, SameOpen, Closes
  <2>. QED
    BY <1>0, <2>1, <2>2, <2>3, BufferFrame DEF Buffered
<1>7. ASSUME NEW t \in Threads, Lookup(t) PROVE w \in Saved(n)' \/ InBuffer(w, n)'
  <2>1. SameRq(t) /\ rq[t].pc # "join"
    BY <1>7, LookupFacts DEF SameRq, Lookup
  <2>2. main' = "stopped" => main = "stopped"
    BY <1>7, LookupFacts
  <2>3. /\ h \in 1..Len(hs') /\ hs'[h].name = hs[h].name /\ hs'[h].aof = hs[h].aof /\ hs'[h].buf = hs[h].buf
    BY <1>7, <1>0, LookupFacts DEF SameHs, SameFile, SameOpen, Closes
  <2>. QED
    BY <1>0, <2>1, <2>2, <2>3, BufferFrame DEF Buffered
<1>8. ASSUME NEW t \in Threads, Submit(t) PROVE w \in Saved(n)' \/ InBuffer(w, n)'
  <2>1. SameRq(t) /\ rq[t].pc # "join"
    BY <1>8, SubmitFacts DEF SameRq, Submit
  <2>2. main' = "stopped" => main = "stopped"
    BY <1>8, SubmitFacts
  <2>3. /\ h \in 1..Len(hs') /\ hs'[h].name = hs[h].name /\ hs'[h].aof = hs[h].aof /\ hs'[h].buf = hs[h].buf
    BY <1>8, <1>0, SubmitFacts DEF SameHs, SameFile, SameOpen, Closes
  <2>. QED
    BY <1>0, <2>1, <2>2, <2>3, BufferFrame DEF Buffered
<1>9. ASSUME NEW t \in Threads, TakeNonce(t) PROVE w \in Saved(n)' \/ InBuffer(w, n)'
  <2>1. SameRq(t) /\ rq[t].pc # "join"
    BY <1>9, TakeNonceFacts DEF SameRq, TakeNonce
  <2>2. main' = "stopped" => main = "stopped"
    BY <1>9, TakeNonceFacts
  <2>3. /\ h \in 1..Len(hs') /\ hs'[h].name = hs[h].name /\ hs'[h].aof = hs[h].aof /\ hs'[h].buf = hs[h].buf
    BY <1>9, <1>0, TakeNonceFacts DEF SameHs, SameFile, SameOpen, Closes
  <2>. QED
    BY <1>0, <2>1, <2>2, <2>3, BufferFrame DEF Buffered
<1>10. ASSUME NEW t \in Threads, ReadHead(t) PROVE w \in Saved(n)' \/ InBuffer(w, n)'
  <2>1. SameRq(t) /\ rq[t].pc # "join"
    BY <1>10, ReadHeadFacts DEF SameRq, ReadHead
  <2>2. main' = "stopped" => main = "stopped"
    BY <1>10, ReadHeadFacts
  <2>3. /\ h \in 1..Len(hs') /\ hs'[h].name = hs[h].name /\ hs'[h].aof = hs[h].aof /\ hs'[h].buf = hs[h].buf
    BY <1>10, <1>0, ReadHeadFacts DEF SameHs, SameFile, SameOpen, Closes
  <2>. QED
    BY <1>0, <2>1, <2>2, <2>3, BufferFrame DEF Buffered
<1>11. ASSUME NEW t \in Threads, AppendOp(t) PROVE w \in Saved(n)' \/ InBuffer(w, n)'
  <2>. DEFINE k == rq[t].h
              o == rq[t].op
  <2>0. k \in 1..Len(hs) /\ hs[k].buf \in Seq(Ops) /\ o \in Ops
    BY <1>11, InHand, AppendOpFacts DEF AppendOp, Holding, Handles
  <2>1. /\ SameRq(t) /\ rq[t].pc # "join" /\ main' = main
        /\ SameHs(k) /\ SameFile(k) /\ SameOpen(k)
        /\ hs'[k].buf = IF hs[k].aof THEN Append(hs[k].buf, o) ELSE hs[k].buf
    BY <1>11, AppendOpFacts
  <2>2. Writes(Append(hs[k].buf, o)) = Writes(hs[k].buf) \cup {o.w}
    BY <2>0, AppendOps
  <2>. HIDE DEF k, o
  <2>3. h \in 1..Len(hs') /\ hs'[h].name = hs[h].name /\ hs'[h].aof = hs[h].aof
    BY <1>0, <2>1 DEF SameHs, SameFile, SameOpen
  <2>4. Buffered(h) \subseteq Writes(hs'[h].buf)
    BY <1>0, <2>1, <2>2 DEF SameHs, Buffered
  <2>. QED
    BY <1>0, <2>1, <2>3, <2>4, BufferFrame
<1>12. ASSUME NEW t \in Threads, FlushAndWake(t) PROVE w \in Saved(n)' \/ InBuffer(w, n)'
  <2>. DEFINE k == rq[t].h
  <2>0. k \in 1..Len(hs) /\ Flushed(k)
    BY <1>12, InHand, FlushAndWakeFacts DEF FlushAndWake, Holding
  <2>1. /\ SameRq(t) /\ main' = main /\ dir' = dir /\ SameHs(k)
    BY <1>12, FlushAndWakeFacts
  <2>2. CASE h = k
    BY <1>0, <2>0, <2>1, <2>2, FlushedSaved
  <2>3. CASE h # k
    <3>1. h \in 1..Len(hs') /\ hs'[h] = hs[h]
      BY <1>0, <2>1, <2>3 DEF SameHs
    <3>. QED
      BY <1>0, <2>1, <2>3, <3>1, BufferFrame DEF Buffered
  <2>. QED
    BY <2>2, <2>3
<1>13. ASSUME NEW t \in Threads, DropClose(t) PROVE w \in Saved(n)' \/ InBuffer(w, n)'
  <2>1. SameRq(t) /\ rq[t].pc # "join"
    BY <1>13, DropCloseFacts DEF SameRq, DropClose
  <2>2. main' = "stopped" => main = "stopped"
    BY <1>13, DropCloseFacts
  <2>3. /\ h \in 1..Len(hs') /\ hs'[h].name = hs[h].name /\ hs'[h].aof = hs[h].aof /\ hs'[h].buf = hs[h].buf
    BY <1>13, <1>0, DropCloseFacts DEF SameHs, SameFile, SameOpen, Closes
  <2>. QED
    BY <1>0, <2>1, <2>2, <2>3, BufferFrame DEF Buffered
<1>14. ASSUME NEW t \in Threads, Join(t) PROVE w \in Saved(n)' \/ InBuffer(w, n)'
  <2>. DEFINE k == rq[t].h
  <2>0. k \in 1..Len(hs) /\ Flushed(k)
    BY <1>14, InHand, JoinFacts DEF Join, Holding
  <2>1. /\ SameRq(t) /\ main' = main /\ dir' = dir /\ SameHs(k)
    BY <1>14, JoinFacts
  <2>2. CASE h = k
    BY <1>0, <2>0, <2>1, <2>2, FlushedSaved
  <2>3. CASE h # k
    <3>1. h \in 1..Len(hs') /\ hs'[h] = hs[h]
      BY <1>0, <2>1, <2>3 DEF SameHs
    <3>. QED
      BY <1>0, <2>1, <2>3, <3>1, BufferFrame DEF Buffered
  <2>. QED
    BY <2>2, <2>3
<1>15. ASSUME NEW t \in Threads, Del(t) PROVE w \in Saved(n)' \/ InBuffer(w, n)'
  <2>1. SameRq(t) /\ rq[t].pc # "join"
    BY <1>15, DelFacts DEF SameRq, Del
  <2>2. main' = "stopped" => main = "stopped"
    BY <1>15, DelFacts
  <2>3. /\ h \in 1..Len(hs') /\ hs'[h].name = hs[h].name /\ hs'[h].aof = hs[h].aof /\ hs'[h].buf = hs[h].buf
    BY <1>15, <1>0, DelFacts DEF SameHs, SameFile, SameOpen, Closes
  <2>. QED
    BY <1>0, <2>1, <2>2, <2>3, BufferFrame DEF Buffered
<1>16. ASSUME NEW t \in Threads, Rmtree(t) PROVE w \in Saved(n)' \/ InBuffer(w, n)'
  <2>1. SameRq(t) /\ rq[t].pc # "join"
    BY <1>16, RmtreeFacts DEF SameRq, Rmtree
  <2>2. main' = "stopped" => main = "stopped"
    BY <1>16, RmtreeFacts
  <2>3. /\ h \in 1..Len(hs') /\ hs'[h].name = hs[h].name /\ hs'[h].aof = hs[h].aof /\ hs'[h].buf = hs[h].buf
    BY <1>16, <1>0, RmtreeFacts DEF SameHs, SameFile, SameOpen, Closes
  <2>. QED
    BY <1>0, <2>1, <2>2, <2>3, BufferFrame DEF Buffered
<1>17. ASSUME NEW t \in Threads, NEW kind \in Kinds, Walk(t, kind) PROVE w \in Saved(n)' \/ InBuffer(w, n)'
  <2>1. SameRq(t) /\ rq[t].pc # "join"
    BY <1>17, WalkFacts DEF SameRq, Walk
  <2>2. main' = "stopped" => main = "stopped"
    BY <1>17, WalkFacts
  <2>3. /\ h \in 1..Len(hs') /\ hs'[h].name = hs[h].name /\ hs'[h].aof = hs[h].aof /\ hs'[h].buf = hs[h].buf
    BY <1>17, <1>0, WalkFacts DEF SameHs, SameFile, SameOpen, Closes
  <2>. QED
    BY <1>0, <2>1, <2>2, <2>3, BufferFrame DEF Buffered
<1>18. ASSUME NEW t \in Threads, NEW m \in Names, Visit(t, m) PROVE w \in Saved(n)' \/ InBuffer(w, n)'
  <2>1. SameRq(t) /\ rq[t].pc # "join"
    BY <1>18, VisitFacts DEF SameRq, Visit
  <2>2. main' = "stopped" => main = "stopped"
    BY <1>18, VisitFacts
  <2>4. hs' = hs \/ (opened[m] \in 1..Len(hs) /\ Closes(opened[m]))
    BY <1>18, VisitFacts
  <2>3. /\ h \in 1..Len(hs') /\ hs'[h].name = hs[h].name /\ hs'[h].aof = hs[h].aof /\ hs'[h].buf = hs[h].buf
    BY <1>0, <2>4 DEF SameHs, SameFile, Closes
  <2>. QED
    BY <1>0, <2>1, <2>2, <2>3, BufferFrame DEF Buffered
<1>19. ASSUME NEW t \in Threads, Walked(t) PROVE w \in Saved(n)' \/ InBuffer(w, n)'
  <2>1. /\ SameRq(t) /\ hs' = hs /\ rq[t].pc = "next"
        /\ \/ main' = main
           \/ /\ rq[t].kind = "close"
              /\ calm'[n] /\ opened[n] # 0 => hs[opened[n]].closed
    BY <1>19, WalkedFacts
  <2>2. CASE main' = main
    BY <1>0, <2>1, <2>2, BufferFrame DEF Buffered
  <2>3. CASE rq[t].kind = "close" /\ (opened[n] # 0 => hs[opened[n]].closed)
    <3>1. /\ hs[h].closed => \E u \in Threads : At(u, n, {"join"}) /\ rq[u].h = h
          /\ ~hs[h].closed => opened[n] = h \/ \E u \in Threads : At(u, n, {"register"}) /\ rq[u].h = h
      BY <1>0, WhereOpen
    <3>2. ASSUME NEW u \in Threads, At(u, n, {"register"}), rq[u].h = h PROVE FALSE
      <4>1. hs[h].buf = << >>
        BY <3>2 DEF Unshared, At
      <4>2. Buffered(h) = {}
        BY <4>1, NoWrites DEF Buffered
      <4>. QED
        BY <1>0, <4>2
    <3>3. h # 0
      BY <1>0
    <3>4. PICK u \in Threads : At(u, n, {"join"}) /\ rq[u].h = h
      BY <2>3, <3>1, <3>2, <3>3
    <3>5. u # t /\ rq[u].pc = "join"
      BY <2>1, <3>4 DEF At
    <3>6. rq[u].kind = "drop"
      BY <2>3, <3>5 DEF Closers
    <3>7. rq'[u] = rq[u]
      BY <2>1, <3>5 DEF SameRq
    <3>. QED
      BY <1>0, <2>1, <3>4, <3>5, <3>6, <3>7 DEF InBuffer, Buffered
  <2>. QED
    BY <2>1, <2>2, <2>3
<1>. QED
  BY <1>1, <1>2, <1>3, <1>4, <1>5, <1>6, <1>7, <1>8, <1>9, <1>10, <1>11, <1>12, <1>13, <1>14, <1>15, <1>16, <1>17, <1>18, <1>19 DEF Serve

LEMMA UnderwayStep ==
  ASSUME TypeInv, Refs, Inodes, Queues, Closers, Unshared, Calmly, Pending, Underway, TypeInv', Refs', Next
  PROVE  Underway'
<1>1. CalmShrinks /\ AnswersGrow
  BY AnswersStep
<1>2. CASE Exit
  BY <1>2, ExitFacts DEF Underway
<1>3. ASSUME ~Exit, NEW a \in answered, a.live, calm'[a.name] PROVE Kept(a)' \/ InBuffer(a.w, a.name)'
  <2>1. a.name \in Names /\ calm[a.name] /\ Ordered(a.name)
    BY <1>1, <1>3 DEF TypeInv, Answers, CalmShrinks, Calmly
  <2>2. a.w \in Saved(a.name) \/ InBuffer(a.w, a.name)
    BY <1>3, <2>1 DEF Underway, Kept, Saved
  <2>3. a.w \in Saved(a.name) => a.w \in Saved(a.name)'
    BY <2>1, SavedStep
  <2>4. CASE InBuffer(a.w, a.name)
    <3>1. ~Boot
      <4>1. PICK h : h \in 1..Len(hs)
        BY <2>4 DEF InBuffer
      <4>2. hs # << >>
        BY <4>1
      <4>. QED
        BY <4>2 DEF Boot, Refs
    <3>2. PICK t \in Threads : Serve(t)
      BY <1>3, <3>1 DEF Next
    <3>. QED
      <4>1. a.w \in Saved(a.name)' \/ InBuffer(a.w, a.name)'
        BY <1>3, <2>1, <2>4, <3>2, InBufferServe
      <4>. QED
        BY <4>1 DEF Kept, Saved
  <2>. QED
    BY <2>2, <2>3, <2>4 DEF Kept, Saved
<1>4. CASE ~Exit /\ answered' = answered
  BY <1>3, <1>4 DEF Underway
<1>5. ASSUME ~Exit, NEW t \in Threads, AppendOp(t), answered' = answered \cup {Noted(t, TRUE)}
      PROVE  Underway'
  <2>. DEFINE o == rq[t].op
  <2>6. PICK b, h : b = Noted(t, TRUE) /\ h = rq[t].h
    OBVIOUS
  <2>0. /\ h \in 1..Len(hs) /\ hs[h].name = rq[t].name /\ hs[h].buf \in Seq(Ops) /\ o \in Ops
    BY <1>5, <2>6, InHand, AppendOpFacts DEF AppendOp, Holding, Handles
  <2>1. /\ b.w = o.w /\ b.name = rq[t].name
        /\ b.live => hs[h].aof /\ main = "serving"
    BY <1>5, <2>6, NotedFacts DEF AppendOp, Holding
  <2>2. /\ main' = main /\ SameHs(h) /\ SameFile(h) /\ SameOpen(h)
        /\ hs'[h].buf = IF hs[h].aof THEN Append(hs[h].buf, o) ELSE hs[h].buf
    BY <1>5, <2>6, AppendOpFacts
  <2>3. o.w \in Writes(Append(hs[h].buf, o))
    BY <2>0, AppendOps
  <2>. HIDE DEF o
  <2>4. ASSUME b.live PROVE InBuffer(b.w, b.name)'
    <3>1. hs[h].aof /\ main' = "serving"
      BY <2>1, <2>2, <2>4
    <3>2. h \in 1..Len(hs') /\ hs'[h].name = b.name /\ hs'[h].aof
      BY <2>0, <2>1, <2>2, <3>1 DEF SameHs, SameFile, SameOpen
    <3>3. b.w \in Writes(hs'[h].buf)
      BY <2>1, <2>2, <2>3, <3>1
    <3>. QED
      BY <3>1, <3>2, <3>3 DEF InBuffer, Buffered
  <2>5. ASSUME NEW a \in answered', a.live, calm'[a.name] PROVE Kept(a)' \/ InBuffer(a.w, a.name)'
    <3>1. CASE a \in answered
      BY <1>3, <1>5, <2>5, <3>1
    <3>2. CASE a = b
      BY <2>4, <2>5, <3>2
    <3>. QED
      BY <1>5, <2>5, <2>6, <3>1, <3>2
  <2>. QED
    BY <2>5 DEF Underway
<1>6. ASSUME ~Exit, NEW t \in Threads, FlushAndWake(t), rq[t].pc = "flush", answered' = answered \cup {Noted(t, FALSE)}
      PROVE  Underway'
  <2>0. PICK b : b = Noted(t, FALSE)
    OBVIOUS
  <2>1. b.w = rq[t].op.w /\ b.name = rq[t].name /\ b.name \in Names
    BY <1>6, <2>0, NotedFacts, RefsNow DEF Holding
  <2>2. calm'[b.name] => b.w \in Saved(b.name)'
    BY <1>1, <1>6, <2>1, FlushSaves DEF CalmShrinks, Calmly
  <2>3. calm'[b.name] => Kept(b)'
    BY <2>2 DEF Kept, Saved
  <2>4. ASSUME NEW a \in answered', a.live, calm'[a.name] PROVE Kept(a)' \/ InBuffer(a.w, a.name)'
    <3>1. CASE a \in answered
      BY <1>3, <1>6, <2>4, <3>1
    <3>2. CASE a = b
      BY <2>3, <2>4, <3>2
    <3>. QED
      BY <1>6, <2>0, <2>4, <3>1, <3>2
  <2>. QED
    BY <2>4 DEF Underway
<1>. QED
  BY <1>1, <1>2, <1>4, <1>5, <1>6 DEF AnswersGrow

-----------------------------------------------------------------------------
(* The theorems.                                                            *)

LEMMA Stutter == DaemonInv /\ UNCHANGED vars => DaemonInv'
<1>. SUFFICES ASSUME DaemonInv, UNCHANGED vars PROVE DaemonInv'
  OBVIOUS
<1>0. /\ dir' = dir /\ files' = files /\ hs' = hs /\ opened' = opened /\ rq' = rq /\ conn' = conn
      /\ nops' = nops /\ main' = main /\ answered' = answered /\ removed' = removed /\ calm' = calm
  BY DEF vars, disk
<1>1. TypeInv' /\ Refs' /\ Inodes'
  BY <1>0 DEF DaemonInv, TypeInv, Refs, Inodes
<1>2. Chains'
  BY <1>0 DEF DaemonInv, Chains, InAppend
<1>3. Queues' /\ Closers' /\ Unshared'
  BY <1>0 DEF DaemonInv, Queues, Direct, Closers, Unshared
<1>4. \A n \in Names : Ordered(n)' = Ordered(n)
  BY <1>0 DEF Ordered, Solo, Steps, StepsAt, Tabled, Leaving, Contents, At
<1>5. Calmly'
  BY <1>0, <1>4 DEF DaemonInv, Calmly
<1>6. Pending'
  BY <1>0 DEF DaemonInv, Pending, Buffered, Written
<1>7. AcknowledgedSurvive'
  BY <1>0 DEF DaemonInv, AcknowledgedSurvive, Kept, Written
<1>8. Underway'
  BY <1>0 DEF DaemonInv, Underway, Kept, Written, InBuffer, Buffered
<1>. QED
  BY <1>1, <1>2, <1>3, <1>5, <1>6, <1>7, <1>8 DEF DaemonInv

\* The inductive invariant of the daemon, from its first start on.
THEOREM DaemonInvariant == Spec => []DaemonInv
<1>1. Init => DaemonInv
  <2>. SUFFICES ASSUME Init PROVE DaemonInv
    OBVIOUS
  <2>1. TypeInv /\ Restarted /\ answered = {}
    BY InitFacts
  <2>. QED
    BY <2>1, RestartedInv DEF DaemonInv, AcknowledgedSurvive, Underway
<1>2. DaemonInv /\ [Next]_vars => DaemonInv'
  <2>. SUFFICES ASSUME DaemonInv, Next PROVE DaemonInv'
    BY Stutter
  <2>0. /\ TypeInv /\ Refs /\ Inodes /\ Chains /\ Queues /\ Closers /\ Unshared
        /\ Calmly /\ Pending /\ AcknowledgedSurvive /\ Underway
    BY DEF DaemonInv
  <2>1. TypeInv'
    BY <2>0, TypeStep
  <2>2. Refs' /\ Inodes' /\ Closers'
    BY <2>0, <2>1, RefsStep, InodesStep, ClosersStep
  <2>3. Chains' /\ Queues' /\ Unshared'
    BY <2>0, <2>1, ChainsStep, QueuesStep, UnsharedStep
  <2>4. Calmly' /\ Pending'
    BY <2>0, <2>1, <2>2, CalmlyStep, PendingStep
  <2>5. AcknowledgedSurvive' /\ Underway'
    BY <2>0, <2>1, <2>2, SurviveStep, UnderwayStep
  <2>. QED
    BY <2>1, <2>2, <2>3, <2>4, <2>5 DEF DaemonInv
<1>. QED
  BY <1>1, <1>2, PTL DEF Spec

\* A write that a Sequencer answered is in its database's log, or was when a drop removed
\* it: across checkpoints, stale RESP2 handles, mongo writers, kills and restarts, for any
\* number of threads and databases.
THEOREM AcknowledgedWritesSurvive == Spec => []AcknowledgedSurvive
<1>1. DaemonInv => AcknowledgedSurvive
  BY DEF DaemonInv
<1>. QED
  BY <1>1, DaemonInvariant, PTL

\* After close_all, every mongo write of the run is in its database's log, unless a drop
\* that is still running has it in hand.
THEOREM CleanStopKeepsAllWrites == Spec => []CleanStopKeepsAll
<1>1. DaemonInv => CleanStopKeepsAll
  <2>. SUFFICES ASSUME DaemonInv, main = "stopped", NEW a \in answered, a.live, calm[a.name]
                PROVE  Kept(a) \/ \E t \in Threads : rq[t].kind = "drop" /\ rq[t].name = a.name
    BY DEF CleanStopKeepsAll
  <2>1. CASE Kept(a)
    BY <2>1
  <2>2. CASE InBuffer(a.w, a.name)
    <3>1. PICK h \in 1..Len(hs) :
            hs[h].name = a.name /\ \E t \in Threads : rq[t].pc = "join" /\ rq[t].h = h /\ rq[t].kind = "drop"
      BY <2>2 DEF InBuffer
    <3>2. PICK t \in Threads : rq[t].pc = "join" /\ rq[t].h = h /\ rq[t].kind = "drop"
      BY <3>1
    <3>3. rq[t].name = a.name
      BY <3>1, <3>2 DEF DaemonInv, Refs, Holding
    <3>. QED
      BY <3>2, <3>3
  <2>. QED
    BY <2>1, <2>2 DEF DaemonInv, Underway
<1>. QED
  BY <1>1, DaemonInvariant, PTL

LEMMA BeginsIsPrefix ==
  ASSUME NEW s \in Seq(Ops), NEW l \in Seq(Ops), Begins(s, l)
  PROVE  IsPrefix(s, l)
<1>1. Len(s) \in Nat /\ Len(l) \in Nat /\ Len(s) <= Len(l)
  BY LenProperties DEF Begins
<1>2. \A i \in 1..Len(s) : s[i] = l[i] /\ i \in 1..Len(l)
  BY <1>1 DEF Begins
<1>3. SubSeq(s, 1, Len(s)) = SubSeq(l, 1, Len(s))
  BY <1>1, <1>2
<1>. QED
  BY <1>1, <1>3 DEF IsPrefix

\* One engine writes to a database, it is the one in the table, its file is the directory's
\* and holds the beginning of its log; its chain is whole unless two were inside append()
\* together.
THEOREM OneWriterPerDatabase == Spec => []OneWriter
<1>1. DaemonInv => OneWriter
  <2>. SUFFICES ASSUME DaemonInv PROVE OneWriter
    OBVIOUS
  <2>0. hs \in Seq(Handles) /\ files \in Seq(Seq(Ops)) /\ DOMAIN hs = 1..Len(hs)
    BY LenProperties DEF DaemonInv, TypeInv
  <2>1. ASSUME NEW h \in 1..Len(hs)
        PROVE  /\ hs[h] \in Handles /\ hs[h].name \in Names /\ hs[h].ops \in Seq(Ops)
               /\ hs[h].buf \in Seq(Ops) /\ files[hs[h].ino] \in Seq(Ops)
    <3>1. hs[h] \in Handles /\ hs[h].ino \in 1..Len(files)
      BY <2>0, ElementOfSeq DEF DaemonInv, Refs
    <3>2. files[hs[h].ino] \in Seq(Ops)
      BY <2>0, <3>1, ElementOfSeq
    <3>. QED
      BY <3>1, <3>2 DEF Handles
  <2>2. ASSUME NEW h \in 1..Len(hs), calm[hs[h].name], ~hs[h].closed
        PROVE  /\ hs[h].ino = dir[hs[h].name]
               /\ opened[hs[h].name] = h \/ \E t \in Threads : rq[t].pc = "register" /\ rq[t].h = h
    <3>1. hs[h].aof
      BY <2>2 DEF DaemonInv, Queues
    <3>2. Tabled(hs[h].name)
      BY <2>1, <2>2 DEF DaemonInv, Calmly, Ordered
    <3>. QED
      BY <2>2, <3>1, <3>2 DEF Tabled
  <2>3. ASSUME NEW h \in 1..Len(hs), ~hs[h].mixed
        PROVE  /\ Chained(hs[h].ops)
               /\ hs[h].head = IF hs[h].ops = << >> THEN GENESIS ELSE Last(hs[h].ops).w
    BY <2>3 DEF DaemonInv, Chains, HeadOf
  <2>4. ASSUME NEW h \in 1..Len(hs), main = "serving", calm[hs[h].name], dir[hs[h].name] = hs[h].ino
        PROVE  IsPrefix(files[hs[h].ino], hs[h].ops)
    <3>1. Contents(hs[h].name)
      BY <2>1, <2>4 DEF DaemonInv, Calmly, Ordered
    <3>2. Begins(files[hs[h].ino], hs[h].ops)
      <4>1. CASE hs[h].aof
        <5>1. hs[h].ops = files[hs[h].ino] \o hs[h].buf
          BY <2>4, <3>1, <4>1 DEF Contents
        <5>. QED
          BY <2>1, <5>1, ConcatOps
      <4>2. CASE ~hs[h].aof
        BY <2>4, <3>1, <4>2 DEF Contents
      <4>. QED
        BY <4>1, <4>2
    <3>. QED
      BY <2>1, <3>2, BeginsIsPrefix
  <2>. QED
    BY <2>0, <2>2, <2>3, <2>4 DEF OneWriter
<1>. QED
  BY <1>1, DaemonInvariant, PTL

=============================================================================
