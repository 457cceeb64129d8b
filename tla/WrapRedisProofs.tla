-------------------------- MODULE WrapRedisProofs --------------------------
(***************************************************************************)
(* Theorems on WrapRedis, for any threads, keys, values, batch size and    *)
(* number of calls and restarts: what the shadow mirrors, what the stream  *)
(* holds, and what a put that returned can rely on.                        *)
(***************************************************************************)
EXTENDS WrapRedis, BasicLemmas

-----------------------------------------------------------------------------
(* The inductive invariant.                                                 *)

Values == Vals \cup {NIL, OTHER_}
Items  == [key : Keys, val : Values, stale : BOOLEAN]
Ops    == [n : Nat, prev : Nat, doc : Docs \cup Raw, val : Values, idem : Idem \cup {NIL}, ttl : BOOLEAN]
Calls  == [pc : {"idle", "put", "log", "add", "scan"},
           cmd : {"none", "set", "other", "backfill", "nedb.put"},
           held : Seq(Items), todo : SUBSET Keys, idem : Idem \cup {NIL}, ttl : BOOLEAN,
           seen : Nat, op : Nat]

TypeInv ==
  /\ nedbd \in BOOLEAN /\ shadow \in BOOLEAN
  /\ redis \in [Mapped -> Values]
  /\ log \in Seq(Ops) /\ stream \in Seq(Ops)
  /\ thr \in [Threads -> Calls]
  /\ born \in Nat

\* What a thread has in hand: one document of a command, or a batch of different keys
\* that the scan is done with.
Held(c) ==
  /\ c.pc = "idle" => c = Resting
  /\ c.pc \in {"put", "log"} => c.held # << >>
  /\ c.pc = "scan" => c.cmd = "backfill"
  /\ c.cmd # "backfill" => Len(c.held) <= 1
  /\ c.idem # NIL => c.cmd = "nedb.put"
  /\ \A i \in 1..Len(c.held) : c.held[i].key \notin c.todo
  /\ \A i, j \in 1..Len(c.held) : c.held[i].key = c.held[j].key => i = j

Shapes == \A t \in Threads : Held(thr[t])

\* With an engine in the process backfill() puts one document at a time, and an op is added
\* to the stream after each put.
OneByOne ==
  \A t \in Threads :
    /\ thr[t].pc \in {"log", "add"} => ~nedbd
    /\ thr[t].pc = "add" => log # << >>
    /\ ~nedbd => /\ thr[t].pc \in {"put", "log"} => Len(thr[t].held) = 1
                 /\ thr[t].pc = "scan" => thr[t].held = << >>

\* The ops are in the order in which they were made; one may be there more than once.
Ordered(ops, b) ==
  /\ \A i \in 1..Len(ops) : ops[i].n <= b
  /\ \A i, j \in 1..Len(ops) : i < j => ops[i].n <= ops[j].n
  /\ \A i, j \in 1..Len(ops) : ops[i].n = ops[j].n => ops[i] = ops[j]

\* The stream has only ops of the log.
Streamed ==
  /\ Ordered(log, born) /\ Ordered(stream, born)
  /\ \A i \in 1..Len(stream) : \E j \in 1..Len(log) : log[j] = stream[i]

\* A document in hand is its key's value in Redis, unless the key was written meanwhile.
Fresh ==
  \A t \in Threads : \A i \in 1..Len(thr[t].held) :
    ~thr[t].held[i].stale => thr[t].held[i].key \in Mapped /\ thr[t].held[i].val = redis[thr[t].held[i].key]

\* As long as nothing slipped, at most one thread is in append or about to add its op; the
\* head it read is the head, and the stream is the log but for the op that it is to add.
Chain ==
  slips = {} /\ ~nedbd =>
    /\ Verifies(log) /\ Verifies(stream)
    /\ \A s, t \in Threads : thr[s].pc \in {"log", "add"} /\ thr[t].pc \in {"log", "add"} => s = t
    /\ (\A t \in Threads : thr[t].pc # "add") => log = stream
    /\ \A t \in Threads : thr[t].pc = "log" => thr[t].seen = LastN(log)
    /\ \A t \in Threads : thr[t].pc = "add" =>
         /\ Len(log) = Len(stream) + 1 /\ thr[t].op = log[Len(log)].n
         /\ \A i \in 1..Len(stream) : stream[i] = log[i]

WrapInv ==
  TypeInv /\ Shapes /\ OneByOne /\ Streamed /\ Fresh /\ Mirror /\ Chain
  /\ StreamVerifies /\ AckedPersisted

-----------------------------------------------------------------------------
(* What an append does to the log.                                          *)

\* The i-th op of a run of puts, numbered from born + 1; the first one is linked to the
\* head that was read.
Made(item, head, idem, ttl, i) ==
  [n |-> born + i, prev |-> IF i = 1 THEN head ELSE born + i - 1,
   doc |-> DocOf(item.key), val |-> item.val, idem |-> idem, ttl |-> ttl]

\* Every key has a document.
LEMMA DocOfKey == \A k \in Keys : DocOf(k) \in Docs \cup Raw
BY WrapAssumption DEF DocOf, Keys

\* The last op of a log has a number.
LEMMA LastNIsNat ==
  ASSUME TypeInv
  PROVE  LastN(log) \in Nat
<1>1. CASE log = << >>
  BY <1>1 DEF LastN
<1>2. CASE log # << >>
  <2>1. log[Len(log)] \in Ops
    BY <1>2, EmptySeq, ElementOfSeq DEF TypeInv
  <2>. QED
    BY <2>1, <1>2 DEF LastN, Last, Ops
<1>. QED
  BY <1>1, <1>2

\* The ops of a run of puts follow the log.
LEMMA LoggedFacts ==
  ASSUME TypeInv, NEW items \in Seq(Items), NEW head \in Nat,
         NEW idem \in Idem \cup {NIL}, NEW ttl \in BOOLEAN
  PROVE  /\ Logged(items, head, idem, ttl) \in Seq(Ops)
         /\ Len(Logged(items, head, idem, ttl)) = Len(log) + Len(items)
         /\ \A i \in 1..Len(log) : Logged(items, head, idem, ttl)[i] = log[i]
         /\ \A i \in 1..Len(items) :
              Logged(items, head, idem, ttl)[Len(log) + i] = Made(items[i], head, idem, ttl, i)
<1>. DEFINE m == Len(items)
            l == Logged(items, head, idem, ttl)
<1>0. /\ m \in Nat /\ DOMAIN items = 1..m
      /\ \A i \in 1..m : DocOf(items[i].key) \in Docs \cup Raw /\ items[i].val \in Values
  <2>1. m \in Nat /\ items \in [1..m -> Items]
    BY LenProperties
  <2>2. \A i \in 1..m : items[i].key \in Keys /\ items[i].val \in Values
    BY <2>1 DEF Items
  <2>. QED
    BY <2>1, <2>2, DocOfKey
<1>. HIDE DEF m
<1>. DEFINE e(i) == Made(items[i], head, idem, ttl, i)
            f == [i \in 1..m |-> e(i)]
<1>2. \A i \in 1..m : e(i) \in Ops
  BY <1>0 DEF Ops, TypeInv, Made
<1>3. f \in Seq(Ops) /\ Len(f) = m
  <2>1. f \in [1..m -> Ops]
    BY <1>2
  <2>. HIDE DEF f
  <2>2. f \in Seq(Ops)
    BY <1>0, <2>1, SeqDef
  <2>. QED
    BY <1>0, <2>1, <2>2, LenProperties
<1>4. \A i \in 1..m : f[i] = e(i)
  OBVIOUS
<1>5. l = log \o f
  BY <1>0 DEF Logged, Made
<1>. HIDE DEF f
<1>6. /\ log \o f \in Seq(Ops)
      /\ Len(log \o f) = Len(log) + m
      /\ \A i \in 1..Len(log) + m : (log \o f)[i] = IF i <= Len(log) THEN log[i] ELSE f[i - Len(log)]
  BY <1>0, <1>3, ConcatProperties DEF TypeInv
<1>7. Len(log) \in Nat
  BY LenProperties DEF TypeInv
<1>8. \A i \in 1..m : (log \o f)[Len(log) + i] = e(i)
  <2>. TAKE i \in 1..m
  <2>1. Len(log) + i \in 1..Len(log) + m /\ ~(Len(log) + i <= Len(log)) /\ (Len(log) + i) - Len(log) = i
    BY <1>0, <1>7
  <2>. HIDE DEF e
  <2>. QED
    BY <1>6, <2>1, <1>4
<1>9. \A i \in 1..Len(log) : (log \o f)[i] = log[i]
  BY <1>0, <1>6, <1>7
<1>. QED
  BY <1>5, <1>6, <1>8, <1>9 DEF m

\* What a log says a document is.
DocIn(ops, k) ==
  LET on == {i \in DOMAIN ops : ops[i].doc = k} IN IF on = {} THEN NIL ELSE ops[Max(on)].val

\* A document is what the last op on it says, and one with an op has a last one.
LEMMA DocFacts ==
  ASSUME NEW ops \in Seq(Ops), NEW k
  PROVE  /\ (\A i \in 1..Len(ops) : ops[i].doc # k) => DocIn(ops, k) = NIL
         /\ \A i \in 1..Len(ops) :
              ops[i].doc = k /\ (\A j \in 1..Len(ops) : j > i => ops[j].doc # k)
                => DocIn(ops, k) = ops[i].val
         /\ \A i \in 1..Len(ops) : ops[i].doc = k =>
              \E l \in i..Len(ops) :
                ops[l].doc = k /\ \A j \in 1..Len(ops) : j > l => ops[j].doc # k
<1>. DEFINE on == {i \in 1..Len(ops) : ops[i].doc = k}
<1>1. Len(ops) \in Nat /\ DOMAIN ops = 1..Len(ops)
  BY LenProperties
<1>2. DocIn(ops, k) = IF on = {} THEN NIL ELSE ops[Max(on)].val
  BY <1>1 DEF DocIn
<1>3. on # {} => Max(on) \in on /\ \A y \in on : Max(on) >= y
  <2>1. on \subseteq Nat /\ \A y \in on : y <= Len(ops)
    BY <1>1
  <2>. HIDE DEF on
  <2>. QED
    BY <1>1, <2>1, MaxOfNaturals
<1>4. ASSUME NEW i \in 1..Len(ops), ops[i].doc = k, \A j \in 1..Len(ops) : j > i => ops[j].doc # k
      PROVE  DocIn(ops, k) = ops[i].val
  <2>1. i \in on /\ \A y \in on : y <= i
    BY <1>1, <1>4
  <2>2. Max(on) = i
    <3>. DEFINE x == Max(on)
    <3>1. x \in on /\ x >= i
      BY <2>1, <1>3
    <3>2. x \in Nat /\ i \in Nat
      BY <3>1, <1>1
    <3>3. x <= i
      BY <2>1, <3>1
    <3>. HIDE DEF x
    <3>4. x = i
      BY <3>1, <3>2, <3>3
    <3>. QED
      BY <3>4 DEF x
  <2>. QED
    BY <1>2, <2>1, <2>2
<1>5. ASSUME NEW i \in 1..Len(ops), ops[i].doc = k
      PROVE  \E l \in i..Len(ops) : ops[l].doc = k /\ \A j \in 1..Len(ops) : j > l => ops[j].doc # k
  <2>1. i \in on
    BY <1>5
  <2>2. Max(on) \in i..Len(ops) /\ ops[Max(on)].doc = k
    BY <1>1, <1>3, <2>1
  <2>3. \A j \in 1..Len(ops) : j > Max(on) => ops[j].doc # k
    BY <1>1, <1>3, <2>1
  <2>. HIDE DEF on
  <2>. QED
    BY <2>2, <2>3
<1>6. (\A i \in 1..Len(ops) : ops[i].doc # k) => DocIn(ops, k) = NIL
  BY <1>2
<1>. HIDE DEF on
<1>7. \A i \in 1..Len(ops) :
        ops[i].doc = k /\ (\A j \in 1..Len(ops) : j > i => ops[j].doc # k)
          => DocIn(ops, k) = ops[i].val
  BY <1>4
<1>8. \A i \in 1..Len(ops) : ops[i].doc = k =>
        \E l \in i..Len(ops) : ops[l].doc = k /\ \A j \in 1..Len(ops) : j > l => ops[j].doc # k
  BY <1>5
<1>. QED
  BY <1>6, <1>7, <1>8

\* The last op of a document says what it is.
LEMMA DocOfLast ==
  ASSUME NEW ops \in Seq(Ops), NEW k, NEW i \in 1..Len(ops), ops[i].doc = k,
         \A j \in 1..Len(ops) : j > i => ops[j].doc # k
  PROVE  DocIn(ops, k) = ops[i].val
BY DocFacts

\* A longer log: the documents that the new ops are not on stay.
LEMMA DocUntouched ==
  ASSUME NEW ops \in Seq(Ops), NEW l \in Seq(Ops), Len(l) >= Len(ops),
         \A i \in 1..Len(ops) : l[i] = ops[i], NEW k,
         \A i \in 1..Len(l) : i > Len(ops) => l[i].doc # k
  PROVE  DocIn(l, k) = DocIn(ops, k)
<1>1. Len(ops) \in Nat /\ Len(l) \in Nat
  BY LenProperties
<1>2. CASE \A i \in 1..Len(ops) : ops[i].doc # k
  <2>1. \A i \in 1..Len(l) : l[i].doc # k
    BY <1>1, <1>2
  <2>. QED
    BY <2>1, <1>2, DocFacts
<1>3. CASE \E i \in 1..Len(ops) : ops[i].doc = k
  <2>1. PICK i \in 1..Len(ops) : ops[i].doc = k
    BY <1>3
  <2>2. \A y \in 1..Len(ops) : ops[y].doc = k =>
           \E x \in y..Len(ops) : ops[x].doc = k /\ \A j \in 1..Len(ops) : j > x => ops[j].doc # k
    BY DocFacts, Zenon
  <2>3. PICK x \in i..Len(ops) : ops[x].doc = k /\ \A j \in 1..Len(ops) : j > x => ops[j].doc # k
    BY <2>1, <2>2
  <2>4. x \in 1..Len(ops) /\ x \in 1..Len(l) /\ l[x] = ops[x]
    BY <1>1
  <2>5. \A j \in 1..Len(l) : j > x => l[j].doc # k
    BY <1>1, <2>3
  <2>6. DocIn(ops, k) = ops[x].val
    BY <2>3, <2>4, DocFacts
  <2>7. DocIn(l, k) = l[x].val
    <3>1. l \in Seq(Ops) /\ x \in 1..Len(l) /\ l[x].doc = k
      BY <1>1, <2>3, <2>4
    <3>. QED
      BY <2>5, <3>1, DocOfLast
  <2>. QED
    BY <2>4, <2>6, <2>7
<1>. QED
  BY <1>2, <1>3

\* Doc is DocIn of the log, before and after a step.
LEMMA DocIsDocIn ==
  \A k : Doc(k) = DocIn(log, k) /\ Doc(k)' = DocIn(log', k)
BY DEF Doc, DocIn

\* The ops that a run of puts logs are on the documents of its items, and leave
\* the log ordered.
LEMMA LogGrows ==
  ASSUME TypeInv, Streamed, NEW items \in Seq(Items), NEW head \in Nat,
         NEW idem \in Idem \cup {NIL}, NEW ttl \in BOOLEAN,
         log' = Logged(items, head, idem, ttl), born' = born + Len(items), stream' = stream
  PROVE  /\ log' \in Seq(Ops) /\ born' \in Nat /\ Streamed'
         /\ Len(log') = Len(log) + Len(items)
         /\ \A i \in 1..Len(log) : log'[i] = log[i]
         /\ \A i \in 1..Len(items) : log'[Len(log) + i].n = born + i
         /\ \A k : (\A i \in 1..Len(items) : DocOf(items[i].key) # k) => DocIn(log', k) = DocIn(log, k)
         /\ \A i \in 1..Len(items) :
              (\A j \in 1..Len(items) : DocOf(items[j].key) = DocOf(items[i].key) => j <= i)
                => DocIn(log', DocOf(items[i].key)) = items[i].val
         /\ Len(items) = 1 /\ head = LastN(log) /\ Verifies(log) => Verifies(log')
<1>. DEFINE m == Len(items)
<1>0. m \in Nat
  BY LenProperties
<1>1. /\ log' \in Seq(Ops) /\ Len(log') = Len(log) + m
      /\ \A i \in 1..Len(log) : log'[i] = log[i]
      /\ \A i \in 1..m : log'[Len(log) + i] = Made(items[i], head, idem, ttl, i)
  BY LoggedFacts
<1>. HIDE DEF m
<1>b. born' = born + m
  BY DEF m
<1>a. \A i \in 1..m : /\ log'[Len(log) + i].n = born + i
                      /\ log'[Len(log) + i].prev = IF i = 1 THEN head ELSE born + i - 1
                      /\ log'[Len(log) + i].doc = DocOf(items[i].key)
                      /\ log'[Len(log) + i].val = items[i].val
  <2>. TAKE i \in 1..m
  <2>1. log'[Len(log) + i] = Made(items[i], head, idem, ttl, i)
    BY <1>1
  <2>. QED
    BY <2>1 DEF Made
<1>2. Len(log) \in Nat /\ Len(log') \in Nat /\ born \in Nat /\ Len(stream) \in Nat
  BY <1>1, LenProperties DEF TypeInv
<1>3. \A i \in 1..Len(log') : i > Len(log) => i - Len(log) \in 1..m /\ i = Len(log) + (i - Len(log))
  BY <1>0, <1>1, <1>2
<1>4. \A i \in 1..Len(log') : i > Len(log) =>
         log'[i].n = born + (i - Len(log)) /\ log'[i].doc = DocOf(items[i - Len(log)].key)
  BY <1>a, <1>3
<1>5. \A i \in 1..Len(log) : log'[i] = log[i] /\ i \in 1..Len(log')
  BY <1>0, <1>1, <1>2
<1>6. \A i \in 1..Len(log') : log'[i].n \in Nat
  <2>1. log' \in [1..Len(log') -> Ops]
    BY <1>1, LenProperties
  <2>. QED
    BY <2>1 DEF Ops
<1>7. Ordered(log', born')
  <2>0. Ordered(log, born)
    BY DEF Streamed
  <2>1. \A i \in 1..Len(log') : log'[i].n <= born'
    <3>. TAKE i \in 1..Len(log')
    <3>1. CASE i > Len(log)
      BY <1>0, <1>b, <1>1, <1>2, <1>4, <3>1
    <3>2. CASE i <= Len(log)
      <4>1. i \in 1..Len(log)
        BY <1>2, <3>2
      <4>. QED
        BY <4>1, <1>0, <1>b, <1>2, <1>5, <1>6, <2>0 DEF Ordered
    <3>. QED
      BY <1>2, <3>1, <3>2
  <2>2. \A i \in 1..Len(log) : log[i].n <= born
    BY <2>0 DEF Ordered
  <2>3. ASSUME NEW i \in 1..Len(log'), NEW j \in 1..Len(log'), j > Len(log), i < j
        PROVE  log'[i].n < log'[j].n
    <3>1. log'[j].n = born + (j - Len(log))
      BY <1>4, <2>3
    <3>2. CASE i > Len(log)
      <4>1. log'[i].n = born + (i - Len(log))
        BY <1>4, <3>2
      <4>. QED
        BY <4>1, <3>1, <2>3, <1>2
    <3>3. CASE i <= Len(log)
      <4>1. i \in 1..Len(log)
        BY <1>2, <3>3
      <4>2. log'[i].n <= born
        BY <4>1, <2>2, <1>5
      <4>. QED
        BY <4>2, <3>1, <2>3, <1>2, <1>6
    <3>. QED
      BY <1>2, <3>2, <3>3
  <2>4. \A i, j \in 1..Len(log') : i < j => log'[i].n <= log'[j].n
    <3>. TAKE i, j \in 1..Len(log')
    <3>1. CASE j > Len(log)
      BY <2>3, <3>1, <1>6
    <3>2. CASE j <= Len(log) /\ i < j
      <4>1. i \in 1..Len(log) /\ j \in 1..Len(log)
        BY <1>2, <3>2
      <4>. QED
        BY <4>1, <1>5, <2>0, <3>2 DEF Ordered
    <3>. QED
      BY <1>2, <3>1, <3>2
  <2>5. \A i, j \in 1..Len(log') : log'[i].n = log'[j].n => log'[i] = log'[j]
    <3>. SUFFICES ASSUME NEW i \in 1..Len(log'), NEW j \in 1..Len(log'), log'[i].n = log'[j].n
                  PROVE  log'[i] = log'[j]
      OBVIOUS
    <3>1. CASE i = j
      BY <3>1
    <3>2. CASE i < j
      <4>1. ~(j > Len(log))
        BY <3>2, <2>3, <1>6
      <4>2. i \in 1..Len(log) /\ j \in 1..Len(log)
        BY <1>2, <3>2, <4>1
      <4>. QED
        BY <4>2, <1>5, <2>0 DEF Ordered
    <3>3. CASE j < i
      <4>1. ~(i > Len(log))
        BY <3>3, <2>3, <1>6
      <4>2. i \in 1..Len(log) /\ j \in 1..Len(log)
        BY <1>2, <3>3, <4>1
      <4>. QED
        BY <4>2, <1>5, <2>0 DEF Ordered
    <3>. QED
      BY <3>1, <3>2, <3>3, <1>2
  <2>. QED
    BY <2>1, <2>4, <2>5 DEF Ordered
<1>8. Streamed'
  <2>1. Ordered(stream, born')
    <3>1. \A i \in 1..Len(stream) : stream[i].n \in Nat
      <4>1. stream \in [1..Len(stream) -> Ops]
        BY LenProperties DEF TypeInv
      <4>. QED
        BY <4>1 DEF Ops
    <3>. QED
      BY <3>1, <1>0, <1>b, <1>2 DEF Streamed, Ordered
  <2>2. \A i \in 1..Len(stream) : \E j \in 1..Len(log') : log'[j] = stream[i]
    BY <1>5 DEF Streamed
  <2>. QED
    BY <1>7, <2>1, <2>2 DEF Streamed
<1>9. ASSUME NEW k, \A i \in 1..m : DocOf(items[i].key) # k
      PROVE  DocIn(log', k) = DocIn(log, k)
  <2>1. \A i \in 1..Len(log') : i > Len(log) => log'[i].doc # k
    BY <1>3, <1>4, <1>9
  <2>2. Len(log') >= Len(log) /\ log \in Seq(Ops)
    BY <1>0, <1>1, <1>2 DEF TypeInv
  <2>3. log' \in Seq(Ops) /\ \A i \in 1..Len(log) : log'[i] = log[i]
    BY <1>1
  <2>. QED
    BY <2>1, <2>2, <2>3, DocUntouched, Zenon
<1>10. ASSUME NEW i \in 1..m, \A j \in 1..m : DocOf(items[j].key) = DocOf(items[i].key) => j <= i
       PROVE  DocIn(log', DocOf(items[i].key)) = items[i].val
  <2>1. Len(log) + i \in 1..Len(log') /\ Len(log) + i > Len(log)
    BY <1>0, <1>1, <1>2
  <2>2. log'[Len(log) + i].doc = DocOf(items[i].key) /\ log'[Len(log) + i].val = items[i].val
    BY <1>a
  <2>3. \A j \in 1..Len(log') : j > Len(log) + i => log'[j].doc # DocOf(items[i].key)
    <3>. SUFFICES ASSUME NEW j \in 1..Len(log'), j > Len(log) + i, log'[j].doc = DocOf(items[i].key) PROVE FALSE
      OBVIOUS
    <3>1. j - Len(log) \in 1..m /\ DocOf(items[j - Len(log)].key) = DocOf(items[i].key)
      BY <1>2, <1>3, <1>4
    <3>2. j - Len(log) <= i
      BY <3>1, <1>10
    <3>. QED
      BY <3>2, <1>2
  <2>4. DocIn(log', DocOf(items[i].key)) = log'[Len(log) + i].val
    <3>1. log' \in Seq(Ops)
      BY <1>1
    <3>2. \A k : \A x \in 1..Len(log') :
            log'[x].doc = k /\ (\A j \in 1..Len(log') : j > x => log'[j].doc # k)
              => DocIn(log', k) = log'[x].val
      BY <3>1, DocFacts, Zenon
    <3>. QED
      BY <2>1, <2>2, <2>3, <3>2
  <2>. QED
    BY <2>2, <2>4
<1>11. ASSUME m = 1, head = LastN(log), Verifies(log)
       PROVE  Verifies(log')
  <2>1. DOMAIN log = 1..Len(log) /\ DOMAIN log' = 1..Len(log')
    BY <1>1, LenProperties DEF TypeInv
  <2>2. \A i \in 1..Len(log) : log[i].prev = IF i = 1 THEN 0 ELSE log[i - 1].n
    BY <1>11, <2>1 DEF Verifies
  <2>3. log'[Len(log) + 1].prev = LastN(log)
    BY <1>a, <1>11
  <2>4. LastN(log) = IF Len(log) + 1 = 1 THEN 0 ELSE log[(Len(log) + 1) - 1].n
    <3>1. log = << >> <=> Len(log) = 0
      BY EmptySeq DEF TypeInv
    <3>2. (Len(log) + 1) - 1 = Len(log) /\ (Len(log) + 1 = 1 <=> Len(log) = 0)
      BY <1>2
    <3>. QED
      BY <3>1, <3>2 DEF LastN, Last
  <2>5. ASSUME NEW i \in 1..Len(log')
        PROVE  log'[i].prev = IF i = 1 THEN 0 ELSE log'[i - 1].n
    <3>1. CASE i \in 1..Len(log)
      <4>1. i # 1 => i - 1 \in 1..Len(log)
        BY <1>2, <3>1
      <4>. QED
        BY <3>1, <4>1, <2>2, <1>5
    <3>2. CASE i = Len(log) + 1
      <4>1. i # 1 => i - 1 \in 1..Len(log)
        BY <1>2, <3>2
      <4>. QED
        BY <3>2, <4>1, <2>3, <2>4, <1>5
    <3>. QED
      BY <3>1, <3>2, <1>1, <1>2, <1>11
  <2>. QED
    BY <2>1, <2>5 DEF Verifies
<1>12. born' \in Nat
  BY <1>0, <1>b, <1>2
<1>13. \A i \in 1..m : log'[Len(log) + i].n = born + i
  BY <1>a
<1>. QED
  BY <1>1, <1>8, <1>9, <1>10, <1>11, <1>12, <1>13 DEF m

-----------------------------------------------------------------------------
(* What a step of one thread does to the threads.                           *)

\* The other threads keep what they have; the one that moves may leave or enter a put.
LEMMA OneThread ==
  ASSUME TypeInv, Shapes, OneByOne, NEW t \in Threads, NEW c \in Calls, Held(c),
         thr' = [thr EXCEPT ![t] = c], nedbd' = nedbd, log # << >> => log' # << >>,
         c.pc \in {"log", "add"} => ~nedbd, c.pc = "add" => log' # << >>,
         ~nedbd => (c.pc \in {"put", "log"} => Len(c.held) = 1) /\ (c.pc = "scan" => c.held = << >>)
  PROVE  /\ thr' \in [Threads -> Calls] /\ Shapes' /\ OneByOne'
         /\ thr'[t] = c /\ \A s \in Threads : s # t => thr'[s] = thr[s]
<1>1. thr' \in [Threads -> Calls] /\ thr'[t] = c /\ \A s \in Threads : s # t => thr'[s] = thr[s]
  BY DEF TypeInv
<1>2. Shapes'
  <2>. SUFFICES ASSUME NEW s \in Threads PROVE Held(thr'[s])
    BY DEF Shapes, Held
  <2>. QED
    BY <1>1 DEF Shapes
<1>3. OneByOne'
  <2>. SUFFICES ASSUME NEW s \in Threads
                PROVE  /\ thr'[s].pc \in {"log", "add"} => ~nedbd
                       /\ thr'[s].pc = "add" => log' # << >>
                       /\ ~nedbd => /\ thr'[s].pc \in {"put", "log"} => Len(thr'[s].held) = 1
                                    /\ thr'[s].pc = "scan" => thr'[s].held = << >>
    BY DEF OneByOne
  <2>1. CASE s = t
    BY <2>1, <1>1
  <2>2. CASE s # t
    BY <2>2, <1>1 DEF OneByOne
  <2>. QED
    BY <2>1, <2>2
<1>. QED
  BY <1>1, <1>2, <1>3

\* A document in hand stays fresh when Redis does not change.
LEMMA FreshKept ==
  ASSUME Fresh, NEW t \in Threads, redis' = redis,
         \A s \in Threads : s # t => thr'[s] = thr[s],
         \A i \in 1..Len(thr'[t].held) : ~thr'[t].held[i].stale =>
           thr'[t].held[i].key \in Mapped /\ thr'[t].held[i].val = redis[thr'[t].held[i].key]
  PROVE  Fresh'
<1>. SUFFICES ASSUME NEW s \in Threads, NEW i \in 1..Len(thr'[s].held), ~thr'[s].held[i].stale
              PROVE  thr'[s].held[i].key \in Mapped /\ thr'[s].held[i].val = redis[thr'[s].held[i].key]
  BY DEF Fresh
<1>1. CASE s = t
  BY <1>1
<1>2. CASE s # t
  BY <1>2 DEF Fresh
<1>. QED
  BY <1>1, <1>2

\* The chain is kept by a step that adds nothing to the log or the stream, by which no thread
\* comes to add or ceases to, and none comes to append.
LEMMA ChainKept ==
  ASSUME Chain, log' = log, stream' = stream, nedbd' = nedbd, slips \subseteq slips',
         \A s \in Threads : /\ thr'[s].pc = "add" <=> thr[s].pc = "add"
                            /\ thr[s].pc = "add" => thr'[s].op = thr[s].op
                            /\ thr'[s].pc = "log" => thr[s].pc = "log" /\ thr'[s].seen = thr[s].seen
  PROVE  Chain'
<1>. SUFFICES ASSUME slips' = {}, ~nedbd
              PROVE  /\ Verifies(log) /\ Verifies(stream)
                     /\ \A s, t \in Threads :
                          thr'[s].pc \in {"log", "add"} /\ thr'[t].pc \in {"log", "add"} => s = t
                     /\ (\A t \in Threads : thr'[t].pc # "add") => log = stream
                     /\ \A t \in Threads : thr'[t].pc = "log" => thr'[t].seen = LastN(log)
                     /\ \A t \in Threads : thr'[t].pc = "add" =>
                          /\ Len(log) = Len(stream) + 1 /\ thr'[t].op = log[Len(log)].n
                          /\ \A i \in 1..Len(stream) : stream[i] = log[i]
  BY DEF Chain, Verifies, LastN
<1>1. slips = {}
  OBVIOUS
<1>2. \A s \in Threads : thr'[s].pc \in {"log", "add"} => thr[s].pc \in {"log", "add"}
  OBVIOUS
<1>. QED
  BY <1>1, <1>2 DEF Chain

\* The chain is kept when a thread reads the head of the log and no other is on the way from
\* there to its XADD.
LEMMA ChainRead ==
  ASSUME Chain, NEW t \in Threads, log' = log, stream' = stream, nedbd' = nedbd,
         slips' = {} => slips = {} /\ \A s \in Threads \ {t} : thr[s].pc \notin {"log", "add"},
         thr[t].pc \notin {"log", "add"}, \A s \in Threads : s # t => thr'[s] = thr[s],
         slips' = {} => thr'[t].pc = "log" /\ thr'[t].seen = LastN(log)
  PROVE  Chain'
<1>. SUFFICES ASSUME slips' = {}, ~nedbd
              PROVE  /\ Verifies(log) /\ Verifies(stream)
                     /\ \A r, s \in Threads :
                          thr'[r].pc \in {"log", "add"} /\ thr'[s].pc \in {"log", "add"} => r = s
                     /\ (\A s \in Threads : thr'[s].pc # "add") => log = stream
                     /\ \A s \in Threads : thr'[s].pc = "log" => thr'[s].seen = LastN(log)
                     /\ \A s \in Threads : thr'[s].pc = "add" =>
                          /\ Len(log) = Len(stream) + 1 /\ thr'[s].op = log[Len(log)].n
                          /\ \A i \in 1..Len(stream) : stream[i] = log[i]
  BY DEF Chain, Verifies, LastN
<1>1. \A s \in Threads : thr[s].pc \notin {"log", "add"}
  OBVIOUS
<1>2. log = stream /\ Verifies(log) /\ Verifies(stream)
  BY <1>1 DEF Chain
<1>3. \A s \in Threads : thr'[s].pc \in {"log", "add"} => s = t
  BY <1>1
<1>. QED
  BY <1>2, <1>3

\* The chain is kept by an append to the head that was read, of which the thread is about to
\* add the op.
LEMMA ChainGrows ==
  ASSUME Chain, NEW t \in Threads, stream' = stream, nedbd' = nedbd, stream \in Seq(Ops),
         slips' = {} => slips = {},
         thr[t].pc = "log", \A s \in Threads : s # t => thr'[s] = thr[s],
         slips' = {} /\ ~nedbd =>
           /\ Len(log') = Len(log) + 1
           /\ \A i \in 1..Len(log) : log'[i] = log[i]
           /\ log'[Len(log) + 1].n = thr'[t].op
           /\ thr[t].seen = LastN(log) /\ Verifies(log) => Verifies(log')
           /\ thr'[t].pc = "add"
  PROVE  Chain'
<1>. SUFFICES ASSUME slips' = {}, ~nedbd
              PROVE  /\ Verifies(log') /\ Verifies(stream)
                     /\ \A r, s \in Threads :
                          thr'[r].pc \in {"log", "add"} /\ thr'[s].pc \in {"log", "add"} => r = s
                     /\ (\A s \in Threads : thr'[s].pc # "add") => log' = stream
                     /\ \A s \in Threads : thr'[s].pc = "log" => thr'[s].seen = LastN(log')
                     /\ \A s \in Threads : thr'[s].pc = "add" =>
                          /\ Len(log') = Len(stream) + 1 /\ thr'[s].op = log'[Len(log')].n
                          /\ \A i \in 1..Len(stream) : stream[i] = log'[i]
  BY DEF Chain, Verifies, LastN
<1>1. \A s \in Threads : thr[s].pc \in {"log", "add"} => s = t
  BY DEF Chain
<1>2. log = stream /\ Verifies(log) /\ Verifies(stream) /\ thr[t].seen = LastN(log)
  BY <1>1 DEF Chain
<1>3. \A s \in Threads : thr'[s].pc \in {"log", "add"} => s = t
  BY <1>1
<1>4. Len(stream) \in Nat
  BY LenProperties
<1>5. /\ Len(log') = Len(log) + 1
      /\ \A i \in 1..Len(log) : log'[i] = log[i]
      /\ log'[Len(log) + 1].n = thr'[t].op
      /\ Verifies(log') /\ thr'[t].pc = "add"
  BY <1>2
<1>. QED
  BY <1>2, <1>3, <1>4, <1>5

\* The stream stays a chain when no op is added to it.
LEMMA StreamKept ==
  ASSUME StreamVerifies, stream' = stream, slips \subseteq slips'
  PROVE  StreamVerifies'
BY DEF StreamVerifies, Verifies

\* A put that returned stays persisted.
LEMMA AckedKept ==
  ASSUME AckedPersisted, acked' = acked, nedbd' = nedbd, slips \subseteq slips',
         nedbd => \A o \in Range(log) : o \in Range(log'),
         ~nedbd => \A o \in Range(stream) : o \in Range(stream')
  PROVE  AckedPersisted'
<1>. SUFFICES ASSUME "other op" \notin slips'
              PROVE  acked \subseteq {o.n : o \in Range(IF nedbd THEN log' ELSE stream')}
  BY Zenon DEF AckedPersisted
<1>1. acked \subseteq {o.n : o \in Range(IF nedbd THEN log ELSE stream)}
  BY DEF AckedPersisted
<1>2. \A o \in Range(IF nedbd THEN log ELSE stream) : o \in Range(IF nedbd THEN log' ELSE stream')
  OBVIOUS
<1>. DEFINE A == Range(IF nedbd THEN log ELSE stream)
            B == Range(IF nedbd THEN log' ELSE stream')
<1>3. A \subseteq B /\ acked \subseteq {o.n : o \in A}
  BY <1>1, <1>2
<1>. HIDE DEF A, B
<1>4. acked \subseteq {o.n : o \in B}
  BY <1>3
<1>. QED
  BY <1>4 DEF B

-----------------------------------------------------------------------------
(* The steps.                                                               *)

\* Writing keys in Redis outdates the documents that other threads have of them.
LEMMA OutdatedFacts ==
  ASSUME TypeInv, NEW t \in Threads, NEW keys, NEW s \in Threads
  PROVE  LET c == Outdated(t, keys)[s] IN
         /\ DOMAIN Outdated(t, keys) = Threads
         /\ s = t => c = thr[s]
         /\ c \in Calls /\ c.pc = thr[s].pc /\ c.cmd = thr[s].cmd /\ c.todo = thr[s].todo
         /\ c.op = thr[s].op /\ c.seen = thr[s].seen /\ c.idem = thr[s].idem
         /\ Len(c.held) = Len(thr[s].held)
         /\ \A i \in 1..Len(thr[s].held) :
              /\ c.held[i].key = thr[s].held[i].key /\ c.held[i].val = thr[s].held[i].val
              /\ s # t /\ thr[s].held[i].key \in keys => c.held[i].stale
              /\ ~c.held[i].stale => ~thr[s].held[i].stale
         /\ thr[s].held = << >> => c = thr[s]
<1>. DEFINE d == thr[s]
            h == [i \in 1..Len(d.held) |-> [d.held[i] EXCEPT !.stale = @ \/ d.held[i].key \in keys]]
<1>1. d \in Calls /\ d.held \in Seq(Items) /\ Len(d.held) \in Nat /\ DOMAIN d.held = 1..Len(d.held)
  <2>1. d \in Calls /\ d.held \in Seq(Items)
    BY DEF TypeInv, Calls
  <2>. QED
    BY <2>1, LenProperties
<1>2. Outdated(t, keys)[s] = IF s = t THEN d ELSE [d EXCEPT !.held = h]
  <2>. DEFINE g == [i \in DOMAIN d.held |-> [d.held[i] EXCEPT !.stale = @ \/ d.held[i].key \in keys]]
  <2>1. Outdated(t, keys)[s] = IF s = t THEN d ELSE [d EXCEPT !.held = g]
    BY SMT DEF Outdated
  <2>2. g = h
    BY <1>1
  <2>. QED
    BY <2>1, <2>2, Zenon
<1>3. \A i \in 1..Len(d.held) : d.held[i] \in Items
  BY <1>1, ElementOfSeq
<1>4. \A i \in 1..Len(d.held) :
        /\ h[i] \in Items /\ h[i].key = d.held[i].key /\ h[i].val = d.held[i].val
        /\ h[i].stale = (d.held[i].stale \/ d.held[i].key \in keys)
  BY <1>3 DEF Items
<1>5. h \in Seq(Items) /\ Len(h) = Len(d.held)
  <2>1. h \in [1..Len(d.held) -> Items]
    BY <1>4
  <2>. HIDE DEF h
  <2>2. h \in Seq(Items)
    BY <1>1, <2>1, SeqDef
  <2>. QED
    BY <1>1, <2>1, <2>2, LenProperties
<1>6. d.held = << >> => h = d.held
  <2>. SUFFICES ASSUME d.held = << >> PROVE h = d.held
    OBVIOUS
  <2>1. Len(d.held) = 0
    OBVIOUS
  <2>. HIDE DEF h
  <2>. QED
    BY <1>5, <2>1, EmptySeq
<1>7. DOMAIN Outdated(t, keys) = Threads
  BY DEF Outdated
<1>. HIDE DEF h
<1>8. CASE s = t
  BY <1>2, <1>7, <1>8, <1>1
<1>9. CASE s # t
  <2>. DEFINE c == [d EXCEPT !.held = h]
  <2>1. /\ c \in Calls /\ c.pc = d.pc /\ c.cmd = d.cmd /\ c.todo = d.todo /\ c.op = d.op
        /\ c.seen = d.seen /\ c.idem = d.idem
        /\ c.held = h /\ (h = d.held => c = d)
    BY <1>1, <1>5 DEF Calls
  <2>. HIDE DEF c
  <2>2. Outdated(t, keys)[s] = c
    BY <1>2, <1>9 DEF c
  <2>. QED
    BY <2>1, <2>2, <1>4, <1>5, <1>6, <1>7, <1>9
<1>. QED
  BY <1>8, <1>9

\* A thread at rest.
LEMMA RestingFacts ==
  /\ Resting \in Calls /\ Held(Resting) /\ Resting.pc = "idle" /\ Resting.cmd = "none"
  /\ Resting.held = << >> /\ Len(Resting.held) = 0 /\ Resting.todo = {} /\ Resting.idem = NIL
<1>1. << >> \in Seq(Items) /\ Len(<< >>) = 0
  BY EmptySeq
<1>. QED
  BY <1>1 DEF Resting, Calls, Held

\* A document in hand is one item.
LEMMA OneItem ==
  ASSUME NEW k \in Keys, NEW v \in Values, NEW stale \in BOOLEAN
  PROVE  LET e == Item(k, v, stale) IN
         /\ << e >> \in Seq(Items) /\ Len(<< e >>) = 1 /\ << e >>[1] = e /\ << e >> # << >>
         /\ e \in Items /\ e.key = k /\ e.val = v /\ e.stale = stale
<1>1. Item(k, v, stale) \in Items
  BY DEF Item, Items
<1>2. Item(k, v, stale).key = k /\ Item(k, v, stale).val = v /\ Item(k, v, stale).stale = stale
  BY DEF Item
<1>. HIDE DEF Item
<1>. QED
  BY <1>1, <1>2

\* Where a thread goes after a put, or after its op was added.
LEMMA AfterFacts ==
  ASSUME TypeInv, Shapes, NEW t \in Threads
  PROVE  /\ After(t) \in Calls /\ Held(After(t)) /\ After(t).pc \in {"idle", "scan"}
         /\ After(t).held = << >> /\ Len(After(t).held) = 0
<1>0. thr[t] \in Calls /\ Held(thr[t])
  BY DEF TypeInv, Shapes
<1>1. CASE thr[t].cmd = "backfill"
  <2>1. << >> \in Seq(Items) /\ Len(<< >>) = 0
    BY EmptySeq
  <2>2. /\ After(t) \in Calls /\ After(t).pc = "scan" /\ After(t).cmd = "backfill"
        /\ After(t).held = << >> /\ After(t).idem = thr[t].idem
    BY <1>0, <1>1, <2>1 DEF After, Calls
  <2>. QED
    BY <1>0, <1>1, <2>1, <2>2 DEF Held
<1>2. CASE thr[t].cmd # "backfill"
  BY <1>2, RestingFacts DEF After
<1>. QED
  BY <1>1, <1>2

\* What a thread that puts has in hand.
LEMMA HeldFacts ==
  ASSUME TypeInv, Shapes, NEW t \in Threads
  PROVE  /\ thr[t] \in Calls /\ thr[t].held \in Seq(Items) /\ Len(thr[t].held) \in Nat
         /\ DOMAIN thr[t].held = 1..Len(thr[t].held)
         /\ \A i \in 1..Len(thr[t].held) :
              /\ thr[t].held[i] \in Items /\ thr[t].held[i].key \in Keys
              /\ thr[t].held[i].val \in Values /\ thr[t].held[i].stale \in BOOLEAN
         /\ \A i, j \in 1..Len(thr[t].held) : thr[t].held[i].key = thr[t].held[j].key => i = j
         /\ thr[t].pc \in {"put", "log"} => 1 \in 1..Len(thr[t].held)
<1>1. thr[t] \in Calls /\ thr[t].held \in Seq(Items) /\ Held(thr[t])
  BY DEF TypeInv, Calls, Shapes
<1>2. /\ Len(thr[t].held) \in Nat /\ thr[t].held \in [1..Len(thr[t].held) -> Items]
      /\ DOMAIN thr[t].held = 1..Len(thr[t].held)
  BY <1>1, LenProperties
<1>3. \A i \in 1..Len(thr[t].held) :
        /\ thr[t].held[i] \in Items /\ thr[t].held[i].key \in Keys
        /\ thr[t].held[i].val \in Values /\ thr[t].held[i].stale \in BOOLEAN
  BY <1>2 DEF Items
<1>4. thr[t].pc \in {"put", "log"} => 1 \in 1..Len(thr[t].held)
  BY <1>1, <1>2, EmptySeq DEF Held
<1>5. \A i, j \in 1..Len(thr[t].held) : thr[t].held[i].key = thr[t].held[j].key => i = j
  BY <1>1 DEF Held
<1>. QED
  BY <1>1, <1>2, <1>3, <1>4, <1>5

\* A key whose document is not touched, and that no command's put ends on, stays mirrored.
LEMMA StillMirrored ==
  ASSUME Mirror, NEW t \in Threads, \A s \in Threads : s # t => thr'[s] = thr[s],
         redis' = redis, NEW x \in Mapped, x \notin drift, Doc(Id[x])' = Doc(Id[x]),
         x \notin Shadowed(t)
  PROVE  Doc(Id[x])' = redis'[x] \/ \E s \in Threads : x \in Shadowed(s)'
<1>1. CASE \E s \in Threads : x \in Shadowed(s)
  <2>1. PICK s \in Threads : x \in Shadowed(s)
    BY <1>1
  <2>2. thr'[s] = thr[s]
    BY <2>1
  <2>. QED
    BY <2>1, <2>2 DEF Shadowed
<1>2. CASE Doc(Id[x]) = redis[x]
  BY <1>2
<1>. QED
  BY <1>1, <1>2 DEF Mirror

\* The documents that a thread puts are those it has in hand, and their values too but for
\* the commands other than SET.
LEMMA ShadowsFacts ==
  ASSUME TypeInv, Shapes, NEW t \in Threads, thr[t].pc \in {"put", "log"}
  PROVE  /\ Shadows(t) \in Seq(Items) /\ Len(Shadows(t)) = Len(thr[t].held) /\ Len(thr[t].held) >= 1
         /\ \A i \in 1..Len(thr[t].held) :
              /\ Shadows(t)[i].key = thr[t].held[i].key
              /\ thr[t].cmd # "other" /\ thr[t].held[i].key \in Mapped
                   => Shadows(t)[i].val = thr[t].held[i].val
<1>. DEFINE cmd == thr[t].cmd
            held == thr[t].held
            items == Shadows(t)
<1>1. /\ held \in Seq(Items) /\ Len(held) \in Nat /\ DOMAIN held = 1..Len(held)
      /\ \A i \in 1..Len(held) : held[i] \in Items
      /\ 1 \in 1..Len(held)
  BY HeldFacts
<1>2. items = [i \in 1..Len(held) |-> Shadow(cmd, held[i])]
  BY <1>1 DEF Shadows
<1>3. \A i \in 1..Len(held) :
        /\ items[i] \in Items /\ items[i].key = held[i].key
        /\ cmd # "other" /\ held[i].key \in Mapped => items[i].val = held[i].val
  <2>. TAKE i \in 1..Len(held)
  <2>1. items[i] = Shadow(cmd, held[i]) /\ held[i] \in Items
    BY <1>1, <1>2
  <2>. HIDE DEF items, held, cmd
  <2>. QED
    BY <2>1 DEF Shadow, Items, Values
<1>4. items \in [1..Len(held) -> Items]
  <2>. HIDE DEF items, held, cmd
  <2>. QED
    BY <1>2, <1>3
<1>5. items \in Seq(Items) /\ Len(items) = Len(held)
  <2>. HIDE DEF items
  <2>1. items \in Seq(Items)
    BY <1>1, <1>4, SeqDef
  <2>. QED
    BY <1>1, <1>4, <2>1, LenProperties
<1>. HIDE DEF items
<1>6. Len(held) >= 1
  BY <1>1
<1>. QED
  BY <1>3, <1>5, <1>6 DEF items

\* A put leaves the keys it does not answer for mirrored, and mirrors those it makes exact.
LEMMA PutMirrors ==
  ASSUME TypeInv, Shapes, Fresh, Mirror, NEW t \in Threads, NEW raises \in BOOLEAN,
         thr[t].pc \in {"put", "log"}, redis' = redis, drift' = DriftAfter(t, raises),
         \A s \in Threads : s # t => thr'[s] = thr[s],
         \A d : (\A i \in 1..Len(thr[t].held) : DocOf(thr[t].held[i].key) # d)
                  => DocIn(log', d) = DocIn(log, d),
         \A i \in 1..Len(thr[t].held) :
           (\A j \in 1..Len(thr[t].held) : DocOf(thr[t].held[j].key) = DocOf(thr[t].held[i].key) => j <= i)
             => DocIn(log', DocOf(thr[t].held[i].key)) = Shadows(t)[i].val
  PROVE  Mirror'
<1>. DEFINE held == thr[t].held
            put  == {DocOf(held[i].key) : i \in DOMAIN held}
<1>. SUFFICES ASSUME NEW x \in Mapped, x \notin drift'
              PROVE  Doc(Id[x])' = redis'[x] \/ \E s \in Threads : x \in Shadowed(s)'
  BY DEF Mirror
<1>1. /\ Len(held) \in Nat /\ DOMAIN held = 1..Len(held)
      /\ \A i \in 1..Len(held) :
           /\ Shadows(t)[i].key = held[i].key
           /\ thr[t].cmd # "other" /\ held[i].key \in Mapped => Shadows(t)[i].val = held[i].val
  BY HeldFacts, ShadowsFacts
<1>2. x \notin (drift \cup KeysOf(put)) \ (IF raises THEN {} ELSE Exact(t))
  BY DEF DriftAfter
<1>3. DocOf(x) = Id[x]
  BY DEF DocOf
<1>4. CASE Id[x] \in put
  <2>1. x \in KeysOf(put)
    BY <1>4 DEF KeysOf
  <2>2. x \in Exact(t)
    BY <1>2, <2>1
  <2>3. PICK i \in 1..Len(held) :
          /\ x = held[i].key
          /\ thr[t].cmd \in {"set", "backfill"} /\ ~held[i].stale /\ held[i].key \in Mapped
          /\ \A m \in 1..Len(held) : DocOf(held[m].key) = DocOf(held[i].key) => m <= i
    BY <1>1, <2>2 DEF Exact
  <2>4. held[i].val = redis[x]
    BY <2>3 DEF Fresh
  <2>5. Shadows(t)[i].val = redis[x]
    BY <1>1, <2>3, <2>4
  <2>6. DocIn(log', Id[x]) = redis[x]
    BY <1>3, <2>3, <2>5
  <2>. QED
    BY <2>6, DocIsDocIn
<1>5. CASE Id[x] \notin put
  <2>1. \A i \in 1..Len(held) : DocOf(held[i].key) # Id[x]
    BY <1>1, <1>5
  <2>2. Doc(Id[x])' = Doc(Id[x])
    BY <2>1, DocIsDocIn
  <2>3. x \notin drift
    <3>1. Exact(t) \subseteq KeysOf(put)
      BY <1>1 DEF Exact, KeysOf, DocOf
    <3>2. x \notin KeysOf(put)
      BY <1>5 DEF KeysOf
    <3>. QED
      BY <1>2, <3>1, <3>2
  <2>4. x \notin Shadowed(t)
    BY <1>1, <1>3, <2>1 DEF Shadowed
  <2>. QED
    BY <2>2, <2>3, <2>4, StillMirrored
<1>. QED
  BY <1>4, <1>5

\* An op of the log stays in a log that got longer.
LEMMA StaysInLog ==
  ASSUME log \in Seq(Ops), log' \in Seq(Ops), NEW n \in Nat, Len(log') = Len(log) + n,
         \A i \in 1..Len(log) : log'[i] = log[i]
  PROVE  /\ \A o \in Range(log) : o \in Range(log')
         /\ log # << >> => log' # << >>
<1>1. Len(log) \in Nat /\ DOMAIN log = 1..Len(log) /\ DOMAIN log' = 1..Len(log')
  BY LenProperties
<1>2. \A i \in 1..Len(log) : i \in 1..Len(log')
  BY <1>1
<1>3. \A o \in Range(log) : o \in Range(log')
  <2>. TAKE o \in Range(log)
  <2>1. PICK i \in 1..Len(log) : o = log[i]
    BY <1>1 DEF Range
  <2>. QED
    BY <2>1, <1>1, <1>2 DEF Range
<1>4. log # << >> => log' # << >>
  <2>1. log # << >> => Len(log) # 0
    BY EmptySeq
  <2>2. Len(log') # 0 => log' # << >>
    BY EmptySeq
  <2>. QED
    BY <2>1, <2>2, <1>1
<1>. QED
  BY <1>3, <1>4

\* The ops of a put, in the process or by nedbd.
LEMMA PutLogs ==
  ASSUME TypeInv, Shapes, Streamed, NEW t \in Threads, thr[t].pc \in {"put", "log"},
         NEW head \in Nat, NEW ttl \in BOOLEAN,
         log' = Logged(Shadows(t), head, thr[t].idem, ttl), born' = born + Len(thr[t].held),
         stream' = stream
  PROVE  /\ log' \in Seq(Ops) /\ born' \in Nat /\ Streamed' /\ log' # << >>
         /\ Len(log') = Len(log) + Len(thr[t].held)
         /\ \A i \in 1..Len(log) : log'[i] = log[i]
         /\ \A i \in 1..Len(thr[t].held) : log'[Len(log) + i].n = born + i
         /\ \A o \in Range(log) : o \in Range(log')
         /\ \E o \in Range(log') : o.n = born + 1
         /\ \A d : (\A i \in 1..Len(thr[t].held) : DocOf(thr[t].held[i].key) # d)
                     => DocIn(log', d) = DocIn(log, d)
         /\ \A i \in 1..Len(thr[t].held) :
              (\A j \in 1..Len(thr[t].held) : DocOf(thr[t].held[j].key) = DocOf(thr[t].held[i].key) => j <= i)
                => DocIn(log', DocOf(thr[t].held[i].key)) = Shadows(t)[i].val
         /\ Len(thr[t].held) = 1 /\ head = LastN(log) /\ Verifies(log) => Verifies(log')
<1>. DEFINE items == Shadows(t)
            m == Len(thr[t].held)
<1>1. /\ items \in Seq(Items) /\ Len(items) = m /\ m \in Nat /\ m >= 1
      /\ \A i \in 1..m : items[i].key = thr[t].held[i].key
  BY ShadowsFacts, HeldFacts
<1>2. thr[t].idem \in Idem \cup {NIL} /\ log \in Seq(Ops) /\ Len(log) \in Nat /\ born \in Nat
  BY LenProperties DEF TypeInv, Calls
<1>. HIDE DEF items, m
<1>3. /\ log' \in Seq(Ops) /\ born' \in Nat /\ Streamed'
      /\ Len(log') = Len(log) + Len(items)
      /\ \A i \in 1..Len(log) : log'[i] = log[i]
      /\ \A i \in 1..Len(items) : log'[Len(log) + i].n = born + i
      /\ \A k : (\A i \in 1..Len(items) : DocOf(items[i].key) # k) => DocIn(log', k) = DocIn(log, k)
      /\ \A i \in 1..Len(items) :
              (\A j \in 1..Len(items) : DocOf(items[j].key) = DocOf(items[i].key) => j <= i)
                => DocIn(log', DocOf(items[i].key)) = items[i].val
      /\ Len(items) = 1 /\ head = LastN(log) /\ Verifies(log) => Verifies(log')
  <2>1. log' = Logged(items, head, thr[t].idem, ttl) /\ born' = born + Len(items)
    BY <1>1 DEF items, m
  <2>. QED
    BY <1>1, <1>2, <2>1, LogGrows
<1>4. \A o \in Range(log) : o \in Range(log')
  BY <1>1, <1>2, <1>3, StaysInLog
<1>5. log' # << >> /\ \E o \in Range(log') : o.n = born + 1
  <2>1. DOMAIN log' = 1..Len(log') /\ Len(log) + 1 \in 1..Len(log') /\ Len(log') # 0
    BY <1>1, <1>2, <1>3, LenProperties
  <2>2. log'[Len(log) + 1].n = born + 1
    BY <1>1, <1>3
  <2>3. log'[Len(log) + 1] \in Range(log')
    BY <2>1 DEF Range
  <2>4. log' # << >>
    BY <2>1, EmptySeq
  <2>. QED
    BY <2>2, <2>3, <2>4
<1>6. \A d : (\A i \in 1..m : DocOf(thr[t].held[i].key) # d) => DocIn(log', d) = DocIn(log, d)
  <2>. SUFFICES ASSUME NEW d, \A i \in 1..m : DocOf(thr[t].held[i].key) # d PROVE DocIn(log', d) = DocIn(log, d)
    OBVIOUS
  <2>1. \A i \in 1..Len(items) : DocOf(items[i].key) # d
    BY <1>1
  <2>. QED
    BY <2>1, <1>3
<1>7. \A i \in 1..m : (\A j \in 1..m : DocOf(thr[t].held[j].key) = DocOf(thr[t].held[i].key) => j <= i)
        => DocIn(log', DocOf(thr[t].held[i].key)) = items[i].val
  <2>. SUFFICES ASSUME NEW i \in 1..m,
                       \A j \in 1..m : DocOf(thr[t].held[j].key) = DocOf(thr[t].held[i].key) => j <= i
                PROVE  DocIn(log', DocOf(thr[t].held[i].key)) = items[i].val
    OBVIOUS
  <2>1. \A j \in 1..Len(items) : DocOf(items[j].key) = DocOf(items[i].key) => j <= i
    BY <1>1
  <2>2. DocIn(log', DocOf(items[i].key)) = items[i].val
    BY <2>1, <1>1, <1>3
  <2>. QED
    BY <2>2, <1>1
<1>. QED
  BY <1>1, <1>3, <1>4, <1>5, <1>6, <1>7 DEF items, m

\* A command on Redis preserves the invariant.
LEMMA CommandStep ==
  ASSUME WrapInv, NEW t \in Threads, NEW cmd \in {"set", "other"}, NEW k \in Keys,
         Command(t, cmd, k)
  PROVE  WrapInv'
<1>. USE DEF WrapInv
<1>1. PICK v \in Vals, to \in [Mapped -> Vals \cup {NIL}], raises \in BOOLEAN :
        LET changed  == {x \in Mapped : to[x] # redis[x]}
            shadowed == shadow /\ ~raises
            stale    == k \notin Mapped \/ to[k] # v IN
        /\ Effect(cmd, k, v, to)
        /\ redis' = to
        /\ thr' = [Outdated(t, changed) EXCEPT ![t] =
             IF shadowed
             THEN [Resting EXCEPT !.pc = "put", !.cmd = cmd, !.held = << Item(k, v, stale) >>]
             ELSE Resting]
        /\ drift' = drift \cup (IF shadowed THEN changed \ {k} ELSE changed)
  BY DEF Command
<1>2. /\ thr[t].pc = "idle" /\ nedbd' = nedbd /\ log' = log /\ stream' = stream
      /\ shadow' = shadow /\ born' = born /\ acked' = acked /\ slips' = slips
  BY DEF Command
<1>. DEFINE changed  == {x \in Mapped : to[x] # redis[x]}
            shadowed == shadow /\ ~raises
            stale    == k \notin Mapped \/ to[k] # v
            c        == IF shadowed
                        THEN [Resting EXCEPT !.pc = "put", !.cmd = cmd, !.held = << Item(k, v, stale) >>]
                        ELSE Resting
<1>3. /\ c \in Calls /\ Held(c) /\ c.pc \in {"idle", "put"}
      /\ c.pc = "put" => Len(c.held) = 1
      /\ \A i \in 1..Len(c.held) : /\ c.held[i].val = v /\ c.held[i].key = k
                                   /\ ~c.held[i].stale => k \in Mapped /\ to[k] = v
      /\ shadowed => /\ c.pc = "put" /\ c.cmd = cmd /\ DOMAIN c.held = {1} /\ c.held[1].key = k
  <2>1. CASE ~shadowed
    BY <2>1, RestingFacts
  <2>2. CASE shadowed
    <3>. DEFINE h == << Item(k, v, stale) >>
    <3>0. h \in Seq(Items) /\ h # << >> /\ Len(h) = 1 /\ h[1].key = k /\ h[1].val = v /\ h[1].stale = stale
      <4>0. v \in Values /\ stale \in BOOLEAN
        BY DEF Values
      <4>. HIDE DEF stale
      <4>1. h \in Seq(Items) /\ h # << >> /\ Len(h) = 1 /\ h[1] = Item(k, v, stale)
        BY <4>0, OneItem, Zenon
      <4>. HIDE DEF h
      <4>. QED
        BY <4>1 DEF Item
    <3>00. c = [Resting EXCEPT !.pc = "put", !.cmd = cmd, !.held = h]
      BY <2>2
    <3>. HIDE DEF h, stale
    <3>1. c = [pc |-> "put", cmd |-> cmd, held |-> h, todo |-> {}, idem |-> NIL, ttl |-> FALSE,
               seen |-> 0, op |-> 0]
      BY <3>00 DEF Resting
    <3>. HIDE DEF c
    <3>2. /\ c \in Calls /\ c.pc = "put" /\ c.cmd = cmd /\ c.held = h /\ c.todo = {} /\ c.idem = NIL
      BY <3>0, <3>1 DEF Calls
    <3>3. /\ c.held # << >> /\ Len(c.held) = 1 /\ c.held[1].key = k /\ c.held[1].val = v
          /\ c.held[1].stale = stale /\ DOMAIN c.held = {1}
      <4>1. DOMAIN h = 1..1
        BY <3>0, LenProperties
      <4>. QED
        BY <3>0, <3>2, <4>1
    <3>4. Held(c)
      BY <3>2, <3>3 DEF Held
    <3>5. \A i \in 1..Len(c.held) : i = 1
      BY <3>3
    <3>6. ~stale => k \in Mapped /\ to[k] = v
      BY DEF stale
    <3>. QED
      BY <2>2, <3>2, <3>3, <3>4, <3>5, <3>6
  <2>. QED
    BY <2>1, <2>2
<1>4. thr' = [Outdated(t, changed) EXCEPT ![t] = c]
  BY <1>1
<1>a. redis' = to /\ drift' = drift \cup (IF shadowed THEN changed \ {k} ELSE changed)
  BY <1>1
<1>b. \A x \in Mapped : x \notin changed => to[x] = redis[x]
  OBVIOUS
<1>. HIDE DEF c, changed, shadowed
<1>5. TypeInv
  OBVIOUS
<1>6. thr'[t] = c /\ DOMAIN thr' = Threads /\ \A s \in Threads : s # t => thr'[s] = Outdated(t, changed)[s]
  <2>1. DOMAIN Outdated(t, changed) = Threads
    BY DEF Outdated
  <2>. QED
    BY <1>4, <2>1
<1>7. \A s \in Threads : s # t =>
        /\ thr'[s] \in Calls /\ thr'[s].pc = thr[s].pc /\ thr'[s].cmd = thr[s].cmd
        /\ thr'[s].todo = thr[s].todo /\ thr'[s].op = thr[s].op
        /\ thr'[s].seen = thr[s].seen /\ thr'[s].idem = thr[s].idem
        /\ Len(thr'[s].held) = Len(thr[s].held)
        /\ thr[s].held = << >> => thr'[s] = thr[s]
        /\ \A i \in 1..Len(thr[s].held) :
             /\ thr'[s].held[i].key = thr[s].held[i].key /\ thr'[s].held[i].val = thr[s].held[i].val
             /\ thr[s].held[i].key \in changed => thr'[s].held[i].stale
             /\ ~thr'[s].held[i].stale => ~thr[s].held[i].stale
  BY <1>5, <1>6, OutdatedFacts
<1>8. TypeInv'
  <2>1. thr' \in [Threads -> Calls]
    <3>1. \A s \in Threads : thr'[s] \in Calls
      BY <1>3, <1>6, <1>7
    <3>2. thr' = [s \in Threads |-> thr'[s]]
      BY <1>4, <1>6 DEF Outdated
    <3>. QED
      BY <3>1, <3>2
  <2>2. redis' \in [Mapped -> Values]
    BY <1>a DEF Values
  <2>. QED
    BY <2>1, <2>2, <1>2, <1>5 DEF TypeInv
<1>9. Shapes'
  <2>. SUFFICES ASSUME NEW s \in Threads PROVE Held(thr'[s])
    BY DEF Shapes, Held
  <2>1. CASE s = t
    BY <2>1, <1>3, <1>6
  <2>2. CASE s # t
    <3>1. Held(thr[s]) /\ thr[s] \in Calls /\ thr[s].held \in Seq(Items) /\ thr'[s].held \in Seq(Items)
      BY <2>2, <1>7 DEF Shapes, TypeInv, Calls
    <3>2. thr[s] = Resting => thr'[s] = thr[s]
      BY <2>2, <1>7, RestingFacts
    <3>3. thr[s].held # << >> => thr'[s].held # << >>
      BY <3>1, <2>2, <1>7, EmptySeq
    <3>. QED
      BY <3>1, <3>2, <3>3, <2>2, <1>7 DEF Held
  <2>. QED
    BY <2>1, <2>2
<1>10. OneByOne'
  <2>. SUFFICES ASSUME NEW s \in Threads
                PROVE  /\ thr'[s].pc \in {"log", "add"} => ~nedbd
                       /\ thr'[s].pc = "add" => log # << >>
                       /\ ~nedbd => /\ thr'[s].pc \in {"put", "log"} => Len(thr'[s].held) = 1
                                    /\ thr'[s].pc = "scan" => thr'[s].held = << >>
    BY <1>2 DEF OneByOne
  <2>1. CASE s = t
    BY <2>1, <1>3, <1>6
  <2>2. CASE s # t
    BY <2>2, <1>7 DEF OneByOne
  <2>. QED
    BY <2>1, <2>2
<1>11. Streamed'
  BY <1>2 DEF Streamed
<1>12. Fresh'
  <2>. SUFFICES ASSUME NEW s \in Threads, NEW i \in 1..Len(thr'[s].held), ~thr'[s].held[i].stale
                PROVE  thr'[s].held[i].key \in Mapped /\ thr'[s].held[i].val = redis'[thr'[s].held[i].key]
    BY DEF Fresh
  <2>1. CASE s = t
    BY <2>1, <1>3, <1>6, <1>a
  <2>2. CASE s # t
    <3>1. i \in 1..Len(thr[s].held)
      BY <2>2, <1>7
    <3>2. /\ thr[s].held[i].key \notin changed
          /\ thr[s].held[i].key \in Mapped /\ thr[s].held[i].val = redis[thr[s].held[i].key]
      BY <2>2, <3>1, <1>7 DEF Fresh
    <3>3. thr'[s].held[i].key = thr[s].held[i].key /\ thr'[s].held[i].val = thr[s].held[i].val
      BY <2>2, <3>1, <1>7
    <3>. QED
      BY <3>2, <3>3, <1>a, <1>b
  <2>. QED
    BY <2>1, <2>2
<1>13. Mirror'
  <2>. SUFFICES ASSUME NEW x \in Mapped, x \notin drift'
                PROVE  Doc(Id[x])' = redis'[x] \/ \E s \in Threads : x \in Shadowed(s)'
    BY DEF Mirror
  <2>1. CASE x \in changed
    <3>1. shadowed /\ x = k
      BY <1>a, <2>1
    <3>2. x \in Shadowed(t)'
      BY <3>1, <1>3, <1>6 DEF Shadowed
    <3>. QED
      BY <3>2
  <2>2. CASE x \notin changed
    <3>0. x \notin drift /\ redis'[x] = redis[x]
      BY <1>a, <1>b, <2>2
    <3>1. CASE \E s \in Threads : x \in Shadowed(s)
      <4>1. PICK s \in Threads : x \in Shadowed(s)
        BY <3>1
      <4>2. s # t
        BY <4>1, <1>2 DEF Shadowed
      <4>3. /\ DOMAIN thr[s].held = 1..Len(thr[s].held) /\ DOMAIN thr'[s].held = 1..Len(thr[s].held)
        <5>1. thr[s].held \in Seq(Items) /\ thr'[s].held \in Seq(Items)
          BY <4>2, <1>7 DEF TypeInv, Calls
        <5>. QED
          BY <5>1, <4>2, <1>7, LenProperties
      <4>4. PICK i \in 1..Len(thr[s].held) : thr[s].held[i].key = x
        BY <4>1, <4>3 DEF Shadowed
      <4>5. thr[s].pc \in {"put", "log"} /\ thr[s].cmd \in {"set", "other"}
        BY <4>1 DEF Shadowed
      <4>6. /\ thr'[s].pc = thr[s].pc /\ thr'[s].cmd = thr[s].cmd /\ thr'[s].held[i].key = x
            /\ i \in DOMAIN thr'[s].held
        BY <4>2, <4>3, <4>4, <1>7
      <4>7. Shadowed(s)' = {thr'[s].held[j].key : j \in DOMAIN thr'[s].held} \cap Mapped
        BY <4>5, <4>6 DEF Shadowed
      <4>. QED
        BY <4>6, <4>7
    <3>2. CASE Doc(Id[x]) = redis[x]
      <4>1. Doc(Id[x])' = Doc(Id[x])
        BY <1>2 DEF Doc
      <4>. QED
        BY <4>1, <3>0, <3>2
    <3>. QED
      BY <3>0, <3>1, <3>2 DEF Mirror
  <2>. QED
    BY <2>1, <2>2
<1>14. Chain'
  <2>1. \A s \in Threads : /\ thr'[s].pc = "add" <=> thr[s].pc = "add"
                           /\ thr[s].pc = "add" => thr'[s].op = thr[s].op
                           /\ thr'[s].pc = "log" => thr[s].pc = "log" /\ thr'[s].seen = thr[s].seen
    BY <1>2, <1>3, <1>6, <1>7
  <2>. QED
    BY <2>1, <1>2, ChainKept
<1>15. AckedPersisted'
  BY <1>2 DEF AckedPersisted
<1>17. StreamVerifies'
  BY <1>2, StreamKept
<1>. QED
  BY <1>8, <1>9, <1>10, <1>11, <1>12, <1>13, <1>14, <1>15, <1>17

\* A step of one thread that leaves Redis, the log and the stream alone, and by which the
\* thread does not come to append or to add, preserves the invariant.
LEMMA QuietStep ==
  ASSUME WrapInv, NEW t \in Threads, NEW c \in Calls, Held(c), thr' = [thr EXCEPT ![t] = c],
         thr[t].pc # "add", c.pc \notin {"log", "add"},
         ~nedbd => (c.pc = "put" => Len(c.held) = 1) /\ (c.pc = "scan" => c.held = << >>),
         \A i \in 1..Len(c.held) : ~c.held[i].stale =>
           c.held[i].key \in Mapped /\ c.held[i].val = redis[c.held[i].key],
         UNCHANGED <<nedbd, redis, log, stream, shadow, born, acked, slips>>, drift \subseteq drift',
         Shadowed(t) \subseteq drift'
  PROVE  WrapInv'
<1>. USE DEF WrapInv
<1>1. /\ thr' \in [Threads -> Calls] /\ Shapes' /\ OneByOne'
      /\ thr'[t] = c /\ \A s \in Threads : s # t => thr'[s] = thr[s]
  <2>1. /\ nedbd' = nedbd /\ (log # << >> => log' # << >>)
        /\ ~nedbd => (c.pc \in {"put", "log"} => Len(c.held) = 1) /\ (c.pc = "scan" => c.held = << >>)
    OBVIOUS
  <2>. QED
    BY <2>1, OneThread
<1>2. TypeInv'
  BY <1>1 DEF TypeInv
<1>3. Streamed'
  BY DEF Streamed
<1>4. Fresh'
  <2>1. \A i \in 1..Len(thr'[t].held) : ~thr'[t].held[i].stale =>
          thr'[t].held[i].key \in Mapped /\ thr'[t].held[i].val = redis[thr'[t].held[i].key]
    BY <1>1
  <2>. QED
    BY <1>1, <2>1, FreshKept
<1>5. Mirror'
  <2>. SUFFICES ASSUME NEW x \in Mapped, x \notin drift'
                PROVE  Doc(Id[x])' = redis'[x] \/ \E s \in Threads : x \in Shadowed(s)'
    BY DEF Mirror
  <2>1. x \notin drift /\ x \notin Shadowed(t)
    OBVIOUS
  <2>2. Doc(Id[x])' = Doc(Id[x])
    BY DEF Doc
  <2>. QED
    BY <1>1, <2>1, <2>2, StillMirrored
<1>6. Chain'
  <2>1. \A s \in Threads : /\ thr'[s].pc = "add" <=> thr[s].pc = "add"
                           /\ thr[s].pc = "add" => thr'[s].op = thr[s].op
                           /\ thr'[s].pc = "log" => thr[s].pc = "log" /\ thr'[s].seen = thr[s].seen
    BY <1>1
  <2>. QED
    BY <2>1, ChainKept
<1>7. AckedPersisted'
  BY DEF AckedPersisted
<1>17. StreamVerifies'
  BY StreamKept
<1>. QED
  BY <1>1, <1>2, <1>3, <1>4, <1>5, <1>6, <1>7, <1>17

\* A put that failed preserves the invariant.
LEMMA DroppedStep ==
  ASSUME WrapInv, NEW t \in Threads, Dropped(t)
  PROVE  WrapInv'
<1>1. TypeInv /\ Shapes
  BY DEF WrapInv
<1>2. /\ thr[t].pc \in {"put", "log"} /\ thr' = [thr EXCEPT ![t] = After(t)]
      /\ drift' = drift \cup Shadowed(t)
      /\ UNCHANGED <<nedbd, redis, log, stream, shadow, born, acked, slips>>
  BY DEF Dropped
<1>3. /\ After(t) \in Calls /\ Held(After(t)) /\ After(t).pc \in {"idle", "scan"}
      /\ After(t).held = << >> /\ Len(After(t).held) = 0
  BY <1>1, AfterFacts
<1>. DEFINE c == After(t)
<1>. HIDE DEF c
<1>8. /\ c \in Calls /\ Held(c) /\ thr' = [thr EXCEPT ![t] = c] /\ c.pc \in {"idle", "scan"}
      /\ c.held = << >> /\ Len(c.held) = 0
  BY <1>2, <1>3 DEF c
<1>9. \A i \in 1..Len(c.held) : ~c.held[i].stale =>
        c.held[i].key \in Mapped /\ c.held[i].val = redis[c.held[i].key]
  BY <1>8
<1>10. /\ thr[t].pc # "add" /\ c.pc \notin {"log", "add"}
       /\ ~nedbd => (c.pc = "put" => Len(c.held) = 1) /\ (c.pc = "scan" => c.held = << >>)
       /\ drift \subseteq drift' /\ Shadowed(t) \subseteq drift'
  BY <1>2, <1>8
<1>. QED
  BY <1>2, <1>8, <1>9, <1>10, QuietStep

\* The start of backfill() preserves the invariant.
LEMMA BackfillStep ==
  ASSUME WrapInv, NEW t \in Threads, Backfill(t)
  PROVE  WrapInv'
<1>. DEFINE c == [Resting EXCEPT !.pc = "scan", !.cmd = "backfill", !.todo = Mapped]
<1>1. /\ thr[t].pc = "idle" /\ thr' = [thr EXCEPT ![t] = c]
      /\ UNCHANGED <<nedbd, redis, log, stream, shadow, born, acked, slips>> /\ drift' = drift
  BY DEF Backfill
<1>2. /\ c \in Calls /\ c.pc = "scan" /\ c.cmd = "backfill" /\ c.held = << >> /\ Len(c.held) = 0
      /\ c.idem = NIL
  BY RestingFacts DEF Calls, Keys
<1>. HIDE DEF c
<1>3. Held(c)
  BY <1>2 DEF Held
<1>4. \A i \in 1..Len(c.held) : ~c.held[i].stale =>
        c.held[i].key \in Mapped /\ c.held[i].val = redis[c.held[i].key]
  BY <1>2
<1>5. drift \subseteq drift' /\ thr[t].pc # "add" /\ c.pc \notin {"log", "add"} /\ Shadowed(t) \subseteq drift'
  BY <1>1, <1>2 DEF Shadowed
<1>. QED
  BY <1>1, <1>2, <1>3, <1>4, <1>5, QuietStep

\* The start of a put or delete of r.nedb preserves the invariant.
LEMMA NedbPutStep ==
  ASSUME WrapInv, NEW t \in Threads, NEW k \in Mapped, NEW v \in Vals \cup {NIL},
         NEW i \in Idem \cup {NIL}, NEW ttl \in BOOLEAN, NedbPut(t, k, v, i, ttl)
  PROVE  WrapInv'
<1>. DEFINE h == << Item(k, v, TRUE) >>
            c == [Resting EXCEPT !.pc = "put", !.cmd = "nedb.put", !.held = h, !.idem = i, !.ttl = ttl]
<1>1. /\ thr[t].pc = "idle" /\ thr' = [thr EXCEPT ![t] = c]
      /\ UNCHANGED <<nedbd, redis, log, stream, shadow, born, acked, slips>> /\ drift' = drift
  BY DEF NedbPut
<1>2. h \in Seq(Items) /\ h # << >> /\ Len(h) = 1 /\ h[1].key = k /\ h[1].stale = TRUE
  <2>0. k \in Keys /\ v \in Values
    BY DEF Values, Keys
  <2>1. h \in Seq(Items) /\ h # << >> /\ Len(h) = 1 /\ h[1] = Item(k, v, TRUE)
    BY <2>0, OneItem, Zenon
  <2>. HIDE DEF h
  <2>. QED
    BY <2>1 DEF Item
<1>. HIDE DEF h
<1>3. /\ c \in Calls /\ c.pc = "put" /\ c.cmd = "nedb.put" /\ c.held = h /\ c.todo = {}
  BY <1>2, RestingFacts DEF Calls
<1>. HIDE DEF c
<1>a. /\ Len(c.held) = 1 /\ c.held[1].stale /\ c.held # << >>
      /\ \A j \in 1..Len(c.held) : j = 1 /\ c.held[j].stale
  <2>1. h # << >> /\ Len(h) = 1
    BY <1>2
  <2>2. h[1].stale
    BY <1>2
  <2>3. c.held = h
    BY <1>3
  <2>4. Len(c.held) = 1 /\ c.held[1].stale /\ c.held # << >>
    BY <2>1, <2>2, <2>3
  <2>. QED
    BY <2>4
<1>4. Held(c)
  <2>1. \A j \in 1..Len(c.held) : c.held[j].key \notin c.todo
    BY <1>3
  <2>2. \A j, m \in 1..Len(c.held) : c.held[j].key = c.held[m].key => j = m
    BY <1>a
  <2>3. Len(c.held) <= 1 /\ c.held # << >>
    BY <1>a
  <2>. QED
    BY <1>3, <2>1, <2>2, <2>3 DEF Held
<1>5. \A j \in 1..Len(c.held) : ~c.held[j].stale =>
        c.held[j].key \in Mapped /\ c.held[j].val = redis[c.held[j].key]
  BY <1>a
<1>6. drift \subseteq drift' /\ thr[t].pc # "add" /\ c.pc \notin {"log", "add"} /\ Shadowed(t) \subseteq drift'
  BY <1>1, <1>3 DEF Shadowed
<1>. QED
  BY <1>1, <1>2, <1>3, <1>4, <1>5, <1>6, QuietStep

\* The end of backfill()'s scan preserves the invariant.
LEMMA EndScanStep ==
  ASSUME WrapInv, NEW t \in Threads, EndScan(t)
  PROVE  WrapInv'
<1>. DEFINE c == IF thr[t].held = << >> THEN Resting ELSE [thr[t] EXCEPT !.pc = "put"]
<1>0. TypeInv /\ Shapes /\ Fresh /\ OneByOne
  BY DEF WrapInv
<1>1. /\ thr[t].pc = "scan" /\ thr' = [thr EXCEPT ![t] = c]
      /\ UNCHANGED <<nedbd, redis, log, stream, shadow, born, acked, slips>> /\ drift' = drift
  BY DEF EndScan
<1>a. Shadowed(t) \subseteq drift' /\ drift \subseteq drift' /\ thr[t].pc # "add"
  BY <1>1 DEF Shadowed
<1>2. CASE thr[t].held = << >>
  <2>1. c = Resting
    BY <1>2
  <2>. HIDE DEF c
  <2>. QED
    <3>1. /\ c \in Calls /\ Held(c) /\ c.pc = "idle" /\ Len(c.held) = 0
          /\ \A i \in 1..Len(c.held) : ~c.held[i].stale =>
               c.held[i].key \in Mapped /\ c.held[i].val = redis[c.held[i].key]
      BY <2>1, RestingFacts
    <3>. QED
      BY <1>1, <1>a, <3>1, QuietStep
<1>3. CASE thr[t].held # << >>
  <2>1. /\ c \in Calls /\ c.pc = "put" /\ c.cmd = thr[t].cmd /\ c.held = thr[t].held
        /\ c.todo = thr[t].todo /\ c.op = thr[t].op /\ c.idem = thr[t].idem
    BY <1>0, <1>3 DEF TypeInv, Calls
  <2>. HIDE DEF c
  <2>2. Held(c)
    BY <1>0, <1>3, <2>1 DEF Shapes, Held
  <2>3. \A i \in 1..Len(c.held) : ~c.held[i].stale =>
          c.held[i].key \in Mapped /\ c.held[i].val = redis[c.held[i].key]
    BY <1>0, <2>1 DEF Fresh
  <2>4. nedbd
    BY <1>0, <1>1, <1>3 DEF OneByOne
  <2>. QED
    BY <1>1, <1>a, <2>1, <2>2, <2>3, <2>4, QuietStep
<1>. QED
  BY <1>2, <1>3

\* Reading a key's value for the import preserves the invariant.
LEMMA ImportStep ==
  ASSUME WrapInv, NEW t \in Threads, NEW k \in Mapped, Import(t, k)
  PROVE  WrapInv'
<1>. DEFINE held == IF redis[k] = NIL THEN thr[t].held ELSE Append(thr[t].held, Item(k, redis[k], FALSE))
            c == [thr[t] EXCEPT !.todo = thr[t].todo \ {k}, !.held = held,
                    !.pc = IF Len(held) >= (IF nedbd THEN Batch ELSE 1) THEN "put" ELSE "scan"]
<1>0. TypeInv /\ Shapes /\ Fresh /\ OneByOne
  BY DEF WrapInv
<1>1. /\ thr[t].pc = "scan" /\ k \in thr[t].todo /\ thr' = [thr EXCEPT ![t] = c]
      /\ UNCHANGED <<nedbd, redis, log, stream, shadow, born, acked, slips>> /\ drift' = drift
  BY DEF Import
<1>2. /\ thr[t] \in Calls /\ thr[t].held \in Seq(Items) /\ Len(thr[t].held) \in Nat
      /\ \A i, j \in 1..Len(thr[t].held) : thr[t].held[i].key = thr[t].held[j].key => i = j
  BY <1>0, HeldFacts
<1>3. \A i \in 1..Len(thr[t].held) :
        /\ thr[t].held[i].key \notin thr[t].todo
        /\ ~thr[t].held[i].stale =>
             thr[t].held[i].key \in Mapped /\ thr[t].held[i].val = redis[thr[t].held[i].key]
  BY <1>0 DEF Shapes, Held, Fresh
<1>4. k \in Keys /\ redis[k] \in Values
  BY <1>0 DEF TypeInv, Keys
<1>5. /\ held \in Seq(Items) /\ Len(held) \in Nat
      /\ Len(held) = Len(thr[t].held) \/ Len(held) = Len(thr[t].held) + 1
      /\ \A i, j \in 1..Len(held) : held[i].key = held[j].key => i = j
      /\ \A i \in 1..Len(held) : /\ held[i].key \notin thr[t].todo \ {k}
                                 /\ ~held[i].stale => held[i].key \in Mapped /\ held[i].val = redis[held[i].key]
  <2>1. CASE redis[k] = NIL
    BY <2>1, <1>2, <1>3
  <2>2. CASE redis[k] # NIL
    <3>. DEFINE h == thr[t].held
                e == Item(k, redis[k], FALSE)
    <3>1. held = Append(h, e)
      BY <2>2
    <3>. HIDE DEF held
    <3>2. e \in Items /\ e.key = k /\ e.val = redis[k]
      <4>1. e \in Items
        BY <1>4 DEF Item, Items
      <4>2. e.key = k /\ e.val = redis[k]
        BY DEF Item
      <4>. QED
        BY <4>1, <4>2
    <3>. HIDE DEF e
    <3>3. /\ held \in Seq(Items) /\ Len(held) = Len(h) + 1
          /\ \A i \in 1..Len(h) : held[i] = h[i]
          /\ held[Len(h) + 1] = e
      BY <1>2, <3>1, <3>2, AppendProperties
    <3>4. \A i \in 1..Len(held) : i \in 1..Len(h) \/ i = Len(h) + 1
      BY <3>3, <1>2
    <3>5. \A i \in 1..Len(h) : h[i].key # k
      BY <1>1, <1>3
    <3>6. \A i, j \in 1..Len(held) : held[i].key = held[j].key => i = j
      BY <1>2, <3>2, <3>3, <3>4, <3>5
    <3>7. \A i \in 1..Len(held) : /\ held[i].key \notin thr[t].todo \ {k}
                                  /\ ~held[i].stale => held[i].key \in Mapped /\ held[i].val = redis[held[i].key]
      BY <1>3, <3>2, <3>3, <3>4
    <3>. QED
      BY <1>2, <3>3, <3>6, <3>7
  <2>. QED
    BY <2>1, <2>2
<1>. HIDE DEF held
<1>6. /\ c \in Calls /\ c.pc \in {"put", "scan"} /\ c.cmd = thr[t].cmd /\ c.held = held
      /\ c.todo = thr[t].todo \ {k} /\ c.idem = thr[t].idem
      /\ c.pc = "put" <=> Len(held) >= (IF nedbd THEN Batch ELSE 1)
  BY <1>2, <1>5 DEF Calls
<1>. HIDE DEF c
<1>7. c.cmd = "backfill"
  BY <1>0, <1>1, <1>6 DEF Shapes, Held
<1>8. c.pc = "put" => held # << >>
  <2>1. c.pc = "put" => Len(held) # 0
    BY <1>5, <1>6, WrapAssumption
  <2>. QED
    BY <2>1, EmptySeq
<1>9. Held(c)
  <2>1. Held(thr[t])
    BY <1>0 DEF Shapes
  <2>. QED
    BY <2>1, <1>5, <1>6, <1>7, <1>8 DEF Held
<1>10. ~nedbd => (c.pc = "put" => Len(c.held) = 1) /\ (c.pc = "scan" => c.held = << >>)
  <2>. SUFFICES ASSUME ~nedbd PROVE (c.pc = "put" => Len(held) = 1) /\ (c.pc = "scan" => held = << >>)
    BY <1>6
  <2>1. Len(thr[t].held) = 0
    BY <1>0, <1>1, EmptySeq DEF OneByOne
  <2>2. c.pc = "put" <=> Len(held) >= 1
    BY <1>6
  <2>3. Len(held) = 0 => held = << >>
    BY <1>5, EmptySeq
  <2>. QED
    BY <1>5, <1>6, <2>1, <2>2, <2>3
<1>. QED
  <2>1. Shadowed(t) \subseteq drift' /\ drift \subseteq drift' /\ thr[t].pc # "add"
    BY <1>1 DEF Shadowed
  <2>. QED
    BY <2>1, <1>1, <1>5, <1>6, <1>9, <1>10, QuietStep

\* One more op at the end of the stream.
LEMMA StreamGrows ==
  ASSUME TypeInv, Streamed, log # << >>
  PROVE  /\ Last(log) = log[Len(log)] /\ LastN(log) = log[Len(log)].n
         /\ Len(log) \in 1..Len(log) /\ log[Len(log)] \in Ops
         /\ Append(stream, Last(log)) \in Seq(Ops)
         /\ Len(Append(stream, Last(log))) = Len(stream) + 1
         /\ \A i \in 1..Len(stream) : Append(stream, Last(log))[i] = stream[i]
         /\ Append(stream, Last(log))[Len(stream) + 1] = log[Len(log)]
         /\ Ordered(Append(stream, Last(log)), born)
         /\ \A i \in 1..Len(Append(stream, Last(log))) :
              \E j \in 1..Len(log) : log[j] = Append(stream, Last(log))[i]
<1>. DEFINE e == Last(log)
            a == Append(stream, e)
<1>1. log \in Seq(Ops) /\ stream \in Seq(Ops) /\ born \in Nat /\ Len(log) \in Nat /\ Len(stream) \in Nat
  BY LenProperties DEF TypeInv
<1>2. Len(log) \in 1..Len(log) /\ e = log[Len(log)] /\ LastN(log) = e.n
  BY <1>1, EmptySeq DEF Last, LastN
<1>3. e \in Ops
  BY <1>1, <1>2, ElementOfSeq
<1>4. \A i \in 1..Len(log) : log[i].n \in Nat
  <2>1. log \in [1..Len(log) -> Ops]
    BY <1>1, LenProperties
  <2>. QED
    BY <2>1 DEF Ops
<1>. HIDE DEF e
<1>5. /\ a \in Seq(Ops) /\ Len(a) = Len(stream) + 1
      /\ \A i \in 1..Len(stream) : a[i] = stream[i]
      /\ a[Len(stream) + 1] = e
  BY <1>1, <1>3, AppendProperties
<1>. HIDE DEF a
<1>6. \A i \in 1..Len(a) : i \in 1..Len(stream) \/ i = Len(stream) + 1
  BY <1>1, <1>5
<1>7. \A i \in 1..Len(a) : \E j \in 1..Len(log) : log[j] = a[i]
  BY <1>2, <1>5, <1>6 DEF Streamed
<1>8. \A j \in 1..Len(log) : log[j].n <= e.n /\ log[j].n <= born
  BY <1>1, <1>2, <1>4 DEF Streamed, Ordered
<1>9. \A i \in 1..Len(a) : a[i].n \in Nat /\ a[i].n <= e.n /\ a[i].n <= born
  BY <1>4, <1>7, <1>8
<1>10. \A i, j \in 1..Len(a) : i < j => a[i].n <= a[j].n
  <2>. SUFFICES ASSUME NEW i \in 1..Len(a), NEW j \in 1..Len(a), i < j PROVE a[i].n <= a[j].n
    OBVIOUS
  <2>1. CASE j = Len(stream) + 1
    BY <2>1, <1>5, <1>9
  <2>2. CASE j \in 1..Len(stream)
    <3>1. i \in 1..Len(stream)
      BY <2>2, <1>1
    <3>. QED
      BY <3>1, <2>2, <1>5 DEF Streamed, Ordered
  <2>. QED
    BY <2>1, <2>2, <1>6
<1>11. \A i, j \in 1..Len(a) : a[i].n = a[j].n => a[i] = a[j]
  BY <1>7 DEF Streamed, Ordered
<1>12. Ordered(a, born)
  BY <1>9, <1>10, <1>11 DEF Ordered
<1>. QED
  BY <1>2, <1>3, <1>5, <1>7, <1>12 DEF a, e

\* An idempotency key that is known has an op in the log.
LEMMA KnownFacts ==
  ASSUME TypeInv, NEW idem, Known(idem) # {}
  PROVE  /\ idem # NIL /\ log # << >>
         /\ (CHOOSE o \in Known(idem) : TRUE) \in Range(log)
         /\ (CHOOSE o \in Known(idem) : TRUE).n \in Nat
<1>. DEFINE o == CHOOSE o \in Known(idem) : TRUE
<1>1. o \in Known(idem)
  OBVIOUS
<1>. HIDE DEF o
<1>2. idem # NIL /\ o \in Range(log)
  BY <1>1 DEF Known
<1>3. log \in Seq(Ops) /\ Len(log) \in Nat /\ DOMAIN log = 1..Len(log)
  BY LenProperties DEF TypeInv
<1>4. PICK i \in 1..Len(log) : o = log[i]
  BY <1>2, <1>3 DEF Range
<1>5. o \in Ops
  BY <1>3, <1>4, ElementOfSeq
<1>6. log # << >>
  BY <1>3, <1>4, EmptySeq
<1>. QED
  BY <1>2, <1>5, <1>6 DEF Ops, o

\* Reading the head of the log, or finding the idempotency key, preserves the invariant.
LEMMA LinkStep ==
  ASSUME WrapInv, NEW t \in Threads, Link(t)
  PROVE  WrapInv'
<1>. USE DEF WrapInv
<1>. DEFINE known == Known(thr[t].idem)
            op    == (CHOOSE o \in known : TRUE).n
            c     == IF known = {} THEN [thr[t] EXCEPT !.pc = "log", !.seen = LastN(log)]
                     ELSE [thr[t] EXCEPT !.pc = "add", !.op = op]
<1>0. TypeInv /\ Shapes /\ OneByOne /\ Chain /\ Fresh
  OBVIOUS
<1>1. /\ ~nedbd /\ thr[t].pc = "put" /\ thr' = [thr EXCEPT ![t] = c]
      /\ slips' = slips \cup Overlap(t) \cup (IF known = {} THEN {} ELSE {"repeated"})
      /\ nedbd' = nedbd /\ redis' = redis /\ log' = log /\ stream' = stream /\ shadow' = shadow
      /\ born' = born /\ acked' = acked /\ drift' = drift
  BY DEF Link
<1>2. LastN(log) \in Nat /\ thr[t] \in Calls /\ Held(thr[t]) /\ Len(thr[t].held) = 1
  BY <1>0, <1>1, LastNIsNat DEF TypeInv, Shapes, OneByOne
<1>3. known # {} => thr[t].idem # NIL /\ log # << >> /\ op \in Nat
  BY <1>0, KnownFacts
<1>. HIDE DEF known, op
<1>4. /\ c \in Calls /\ c.held = thr[t].held /\ c.cmd = thr[t].cmd /\ c.todo = thr[t].todo
      /\ c.idem = thr[t].idem
      /\ known = {} => c.pc = "log" /\ c.seen = LastN(log)
      /\ known # {} => c.pc = "add"
  <2>1. CASE known = {}
    <3>. DEFINE d == [thr[t] EXCEPT !.pc = "log", !.seen = LastN(log)]
    <3>1. d \in Calls /\ d.held = thr[t].held /\ d.cmd = thr[t].cmd /\ d.todo = thr[t].todo
          /\ d.idem = thr[t].idem /\ d.pc = "log" /\ d.seen = LastN(log)
      BY <1>2 DEF Calls
    <3>2. c = d
      BY <2>1
    <3>. HIDE DEF c, d
    <3>. QED
      BY <2>1, <3>1, <3>2
  <2>2. CASE known # {}
    <3>. DEFINE d == [thr[t] EXCEPT !.pc = "add", !.op = op]
    <3>1. d \in Calls /\ d.held = thr[t].held /\ d.cmd = thr[t].cmd /\ d.todo = thr[t].todo
          /\ d.idem = thr[t].idem /\ d.pc = "add"
      BY <1>2, <1>3, <2>2 DEF Calls
    <3>2. c = d
      BY <2>2
    <3>. HIDE DEF c, d
    <3>. QED
      BY <2>2, <3>1, <3>2
  <2>. QED
    BY <2>1, <2>2
<1>. HIDE DEF c
<1>5. Held(c)
  <2>1. c.held # << >> /\ c.pc \in {"log", "add"}
    BY <1>1, <1>2, <1>4 DEF Held
  <2>. QED
    BY <1>2, <1>4, <2>1 DEF Held
<1>6. /\ thr' \in [Threads -> Calls] /\ Shapes' /\ OneByOne'
      /\ thr'[t] = c /\ \A s \in Threads : s # t => thr'[s] = thr[s]
  <2>1. /\ c.pc \in {"log", "add"} => ~nedbd
        /\ c.pc = "add" => log' # << >>
        /\ (c.pc \in {"put", "log"} => Len(c.held) = 1) /\ (c.pc = "scan" => c.held = << >>)
        /\ log # << >> => log' # << >>
    BY <1>1, <1>2, <1>3, <1>4
  <2>. QED
    BY <1>0, <1>1, <1>4, <1>5, <2>1, OneThread
<1>7. TypeInv' /\ Streamed'
  BY <1>0, <1>1, <1>6 DEF TypeInv, Streamed
<1>8. Fresh'
  <2>1. \A i \in 1..Len(thr'[t].held) : ~thr'[t].held[i].stale =>
          thr'[t].held[i].key \in Mapped /\ thr'[t].held[i].val = redis[thr'[t].held[i].key]
    BY <1>0, <1>4, <1>6 DEF Fresh
  <2>. QED
    BY <1>0, <1>1, <1>6, <2>1, FreshKept
<1>9. Mirror'
  <2>. SUFFICES ASSUME NEW x \in Mapped, x \notin drift
                PROVE  Doc(Id[x])' = redis'[x] \/ \E s \in Threads : x \in Shadowed(s)'
    BY <1>1 DEF Mirror
  <2>1. Doc(Id[x])' = Doc(Id[x])
    BY <1>1 DEF Doc
  <2>2. CASE x \in Shadowed(t)
    <3>1. known = {}
      BY <1>2, <1>3, <2>2 DEF Shadowed, Held
    <3>2. /\ c.pc = "log" /\ c.cmd = thr[t].cmd /\ c.held = thr[t].held
      BY <1>4, <3>1
    <3>3. x \in Shadowed(t)'
      BY <1>6, <2>2, <3>2 DEF Shadowed
    <3>. QED
      BY <3>3
  <2>3. CASE x \notin Shadowed(t)
    BY <1>1, <1>6, <2>1, <2>3, StillMirrored
  <2>. QED
    BY <2>2, <2>3
<1>10. Chain'
  <2>1. slips' = {} => slips = {} /\ \A s \in Threads \ {t} : thr[s].pc \notin {"log", "add"}
    BY <1>1 DEF Overlap
  <2>2. slips' = {} => thr'[t].pc = "log" /\ thr'[t].seen = LastN(log)
    BY <1>1, <1>4, <1>6
  <2>3. thr[t].pc \notin {"log", "add"}
    BY <1>1
  <2>. QED
    BY <1>0, <1>1, <1>6, <2>1, <2>2, <2>3, ChainRead
<1>11. slips \subseteq slips'
  BY <1>1
<1>12. AckedPersisted'
  BY <1>1, <1>11, AckedKept
<1>13. StreamVerifies'
  BY <1>1, <1>11, StreamKept
<1>. QED
  BY <1>6, <1>7, <1>8, <1>9, <1>10, <1>12, <1>13

\* A put to nedbd preserves the invariant.
LEMMA ServeStep ==
  ASSUME WrapInv, NEW t \in Threads, Serve(t)
  PROVE  WrapInv'
<1>. USE DEF WrapInv
<1>. DEFINE known == Known(thr[t].idem)
            o     == CHOOSE o \in known : TRUE
            c     == After(t)
<1>0. TypeInv /\ Shapes /\ OneByOne /\ Streamed /\ Fresh /\ Mirror
  OBVIOUS
<1>1. PICK raises \in BOOLEAN :
        /\ known # {} => log' = log /\ born' = born /\ drift' = drift
        /\ known = {} => /\ log' = Logged(Shadows(t), LastN(log), thr[t].idem, FALSE)
                         /\ born' = born + Len(thr[t].held) /\ drift' = DriftAfter(t, raises)
        /\ acked' = IF thr[t].cmd # "nedb.put" \/ raises THEN acked
                    ELSE acked \cup {IF known = {} THEN born + 1 ELSE o.n}
  BY DEF Serve
<1>2. /\ nedbd /\ thr[t].pc = "put" /\ thr' = [thr EXCEPT ![t] = c]
      /\ nedbd' = nedbd /\ redis' = redis /\ stream' = stream /\ shadow' = shadow /\ slips' = slips
  BY DEF Serve
<1>3. c \in Calls /\ Held(c) /\ c.pc \in {"idle", "scan"} /\ c.held = << >> /\ Len(c.held) = 0
  BY <1>0, AfterFacts
<1>4. known # {} => thr[t].idem # NIL /\ o \in Range(log)
  BY <1>0, KnownFacts
<1>. HIDE DEF known, o, c
<1>5. /\ log' \in Seq(Ops) /\ born' \in Nat /\ Streamed'
      /\ \A p \in Range(log) : p \in Range(log')
      /\ log # << >> => log' # << >>
      /\ known = {} => /\ \E p \in Range(log') : p.n = born + 1
                       /\ \A d : (\A i \in 1..Len(thr[t].held) : DocOf(thr[t].held[i].key) # d)
                                   => DocIn(log', d) = DocIn(log, d)
                       /\ \A i \in 1..Len(thr[t].held) :
                            (\A j \in 1..Len(thr[t].held) :
                               DocOf(thr[t].held[j].key) = DocOf(thr[t].held[i].key) => j <= i)
                              => DocIn(log', DocOf(thr[t].held[i].key)) = Shadows(t)[i].val
  <2>1. CASE known = {}
    <3>1. /\ log' = Logged(Shadows(t), LastN(log), thr[t].idem, FALSE)
          /\ born' = born + Len(thr[t].held)
      BY <1>1, <2>1
    <3>2. LastN(log) \in Nat /\ thr[t].pc \in {"put", "log"} /\ FALSE \in BOOLEAN
      BY <1>0, <1>2, LastNIsNat
    <3>. QED
      BY <1>0, <1>2, <3>1, <3>2, PutLogs
  <2>2. CASE known # {}
    BY <2>2, <1>0, <1>1, <1>2 DEF TypeInv, Streamed
  <2>. QED
    BY <2>1, <2>2
<1>6. /\ thr' \in [Threads -> Calls] /\ Shapes' /\ OneByOne'
      /\ thr'[t] = c /\ \A s \in Threads : s # t => thr'[s] = thr[s]
  <2>1. c.pc \notin {"log", "add"} /\ (log # << >> => log' # << >>)
    BY <1>3, <1>5
  <2>. QED
    BY <1>0, <1>2, <1>3, <2>1, OneThread
<1>7. TypeInv'
  BY <1>0, <1>2, <1>5, <1>6 DEF TypeInv
<1>8. Fresh'
  <2>1. \A i \in 1..Len(thr'[t].held) : ~thr'[t].held[i].stale =>
          thr'[t].held[i].key \in Mapped /\ thr'[t].held[i].val = redis[thr'[t].held[i].key]
    BY <1>3, <1>6
  <2>. QED
    BY <1>0, <1>2, <1>6, <2>1, FreshKept
<1>9. Mirror'
  <2>1. CASE known = {}
    <3>1. drift' = DriftAfter(t, raises) /\ thr[t].pc \in {"put", "log"}
      BY <1>1, <1>2, <2>1
    <3>. QED
      BY <1>0, <1>2, <1>5, <1>6, <2>1, <3>1, PutMirrors
  <2>2. CASE known # {}
    <3>. SUFFICES ASSUME NEW x \in Mapped, x \notin drift
                  PROVE  Doc(Id[x])' = redis'[x] \/ \E s \in Threads : x \in Shadowed(s)'
      BY <1>1, <2>2 DEF Mirror
    <3>1. Doc(Id[x])' = Doc(Id[x])
      BY <1>1, <2>2 DEF Doc
    <3>2. thr[t].cmd = "nedb.put"
      BY <1>0, <1>4, <2>2 DEF Shapes, Held
    <3>3. x \notin Shadowed(t)
      BY <3>2 DEF Shadowed
    <3>. QED
      BY <1>0, <1>2, <1>6, <3>1, <3>3, StillMirrored
  <2>. QED
    BY <2>1, <2>2
<1>10. Chain'
  BY <1>2 DEF Chain
<1>11. AckedPersisted'
  <2>. SUFFICES ASSUME "other op" \notin slips'
                PROVE  acked' \subseteq {p.n : p \in Range(log')}
    BY <1>2, Zenon DEF AckedPersisted
  <2>. DEFINE A == Range(log)
              B == Range(log')
              op == IF known = {} THEN born + 1 ELSE o.n
  <2>1. acked \subseteq {p.n : p \in A}
    BY <1>2 DEF AckedPersisted
  <2>2. A \subseteq B /\ \E p \in B : p.n = op
    <3>1. A \subseteq B
      BY <1>5
    <3>2. CASE known = {}
      BY <1>5, <3>1, <3>2
    <3>3. CASE known # {}
      BY <1>4, <3>1, <3>3
    <3>. QED
      BY <3>1, <3>2, <3>3
  <2>3. acked' \subseteq acked \cup {op}
    BY <1>1
  <2>. HIDE DEF A, B, op
  <2>4. acked \cup {op} \subseteq {p.n : p \in B}
    BY <2>1, <2>2
  <2>. QED
    BY <2>3, <2>4 DEF B
<1>12. StreamVerifies'
  BY <1>2, StreamKept
<1>. QED
  BY <1>5, <1>6, <1>7, <1>8, <1>9, <1>10, <1>11, <1>12

\* An append to the head that was read, in the process, preserves the invariant.
LEMMA PutHeldStep ==
  ASSUME WrapInv, NEW t \in Threads, PutHeld(t)
  PROVE  WrapInv'
<1>. USE DEF WrapInv
<1>0. TypeInv /\ Shapes /\ OneByOne /\ Streamed /\ Fresh /\ Mirror /\ Chain
  OBVIOUS
<1>1. PICK raises \in BOOLEAN :
        /\ drift' = DriftAfter(t, raises)
        /\ thr' = [thr EXCEPT ![t] = IF raises THEN After(t)
                                     ELSE [thr[t] EXCEPT !.pc = "add", !.op = born + 1]]
        /\ slips' = slips \cup (IF raises THEN {"raised"} ELSE {})
  BY DEF PutHeld
<1>2. /\ thr[t].pc = "log" /\ log' = Logged(Shadows(t), thr[t].seen, thr[t].idem, thr[t].ttl)
      /\ born' = born + Len(thr[t].held)
      /\ nedbd' = nedbd /\ redis' = redis /\ stream' = stream /\ shadow' = shadow /\ acked' = acked
  BY DEF PutHeld
<1>. DEFINE c == IF raises THEN After(t) ELSE [thr[t] EXCEPT !.pc = "add", !.op = born + 1]
<1>3. /\ thr[t] \in Calls /\ Held(thr[t]) /\ thr[t].seen \in Nat /\ thr[t].ttl \in BOOLEAN
      /\ born \in Nat /\ ~nedbd /\ Len(thr[t].held) = 1 /\ thr[t].pc \in {"put", "log"}
  BY <1>0, <1>2 DEF TypeInv, Shapes, OneByOne, Calls
<1>4. /\ log' \in Seq(Ops) /\ born' \in Nat /\ Streamed' /\ log' # << >>
      /\ Len(log') = Len(log) + 1
      /\ \A i \in 1..Len(log) : log'[i] = log[i]
      /\ log'[Len(log) + 1].n = born + 1
      /\ \A o \in Range(log) : o \in Range(log')
      /\ \A d : (\A i \in 1..Len(thr[t].held) : DocOf(thr[t].held[i].key) # d)
                  => DocIn(log', d) = DocIn(log, d)
      /\ \A i \in 1..Len(thr[t].held) :
           (\A j \in 1..Len(thr[t].held) : DocOf(thr[t].held[j].key) = DocOf(thr[t].held[i].key) => j <= i)
             => DocIn(log', DocOf(thr[t].held[i].key)) = Shadows(t)[i].val
      /\ thr[t].seen = LastN(log) /\ Verifies(log) => Verifies(log')
  <2>1. /\ log' \in Seq(Ops) /\ born' \in Nat /\ Streamed' /\ log' # << >>
        /\ Len(log') = Len(log) + Len(thr[t].held)
        /\ \A i \in 1..Len(log) : log'[i] = log[i]
        /\ \A i \in 1..Len(thr[t].held) : log'[Len(log) + i].n = born + i
        /\ \A o \in Range(log) : o \in Range(log')
        /\ \A d : (\A i \in 1..Len(thr[t].held) : DocOf(thr[t].held[i].key) # d)
                    => DocIn(log', d) = DocIn(log, d)
        /\ \A i \in 1..Len(thr[t].held) :
             (\A j \in 1..Len(thr[t].held) : DocOf(thr[t].held[j].key) = DocOf(thr[t].held[i].key) => j <= i)
               => DocIn(log', DocOf(thr[t].held[i].key)) = Shadows(t)[i].val
        /\ Len(thr[t].held) = 1 /\ thr[t].seen = LastN(log) /\ Verifies(log) => Verifies(log')
    BY <1>0, <1>2, <1>3, PutLogs
  <2>2. Len(log') = Len(log) + 1 /\ 1 \in 1..Len(thr[t].held)
    BY <1>3, <2>1
  <2>3. log'[Len(log) + 1].n = born + 1
    BY <2>1, <2>2
  <2>4. thr[t].seen = LastN(log) /\ Verifies(log) => Verifies(log')
    BY <1>3, <2>1
  <2>. QED
    BY <2>1, <2>2, <2>3, <2>4
<1>5. /\ c \in Calls /\ Held(c) /\ c.pc \in {"idle", "scan", "add"}
      /\ c.pc = "scan" => c.held = << >>
      /\ c.held = << >> \/ c.held = thr[t].held
      /\ ~raises => c.pc = "add" /\ c.op = born + 1
  <2>1. CASE raises
    <3>1. c = After(t)
      BY <2>1
    <3>2. After(t) \in Calls /\ Held(After(t)) /\ After(t).pc \in {"idle", "scan"} /\ After(t).held = << >>
      BY <1>0, AfterFacts
    <3>. HIDE DEF c
    <3>. QED
      BY <2>1, <3>1, <3>2
  <2>2. CASE ~raises
    <3>. DEFINE d == [thr[t] EXCEPT !.pc = "add", !.op = born + 1]
    <3>1. /\ d \in Calls /\ d.pc = "add" /\ d.op = born + 1 /\ d.held = thr[t].held
          /\ d.cmd = thr[t].cmd /\ d.todo = thr[t].todo /\ d.idem = thr[t].idem
      <4>1. thr[t] \in Calls /\ born + 1 \in Nat
        BY <1>3
      <4>. HIDE DEF c
      <4>. QED
        BY <4>1 DEF Calls
    <3>2. c = d
      BY <2>2
    <3>. HIDE DEF c, d
    <3>3. Held(d)
      BY <1>3, <3>1 DEF Held
    <3>. QED
      BY <2>2, <3>1, <3>2, <3>3
  <2>. QED
    BY <2>1, <2>2
<1>6. thr' = [thr EXCEPT ![t] = c]
  BY <1>1
<1>. HIDE DEF c
<1>7. /\ thr' \in [Threads -> Calls] /\ Shapes' /\ OneByOne'
      /\ thr'[t] = c /\ \A s \in Threads : s # t => thr'[s] = thr[s]
  <2>1. /\ ~nedbd /\ c.pc \notin {"put", "log"}
        /\ (log # << >> => log' # << >>)
    BY <1>3, <1>4, <1>5
  <2>. QED
    BY <1>0, <1>2, <1>4, <1>5, <1>6, <2>1, OneThread
<1>8. TypeInv'
  BY <1>0, <1>2, <1>4, <1>7 DEF TypeInv
<1>9. Fresh'
  <2>1. \A i \in 1..Len(thr'[t].held) : ~thr'[t].held[i].stale =>
          thr'[t].held[i].key \in Mapped /\ thr'[t].held[i].val = redis[thr'[t].held[i].key]
    <3>1. CASE c.held = << >>
      <4>1. Len(c.held) = 0
        BY <3>1, EmptySeq
      <4>. QED
        BY <1>7, <4>1
    <3>2. CASE c.held = thr[t].held
      BY <1>0, <1>7, <3>2 DEF Fresh
    <3>. QED
      BY <1>5, <3>1, <3>2
  <2>. QED
    BY <1>0, <1>2, <1>7, <2>1, FreshKept
<1>10. Mirror'
  BY <1>0, <1>1, <1>2, <1>3, <1>4, <1>7, PutMirrors
<1>11. slips \subseteq slips' /\ (slips' = {} => ~raises)
  BY <1>1
<1>12. Chain'
  <2>1. slips' = {} => thr'[t].pc = "add" /\ thr'[t].op = born + 1
    BY <1>5, <1>7, <1>11
  <2>2. stream \in Seq(Ops)
    BY <1>0 DEF TypeInv
  <2>3. slips' = {} => slips = {}
    BY <1>11
  <2>4. slips' = {} /\ ~nedbd =>
           /\ Len(log') = Len(log) + 1
           /\ \A i \in 1..Len(log) : log'[i] = log[i]
           /\ log'[Len(log) + 1].n = thr'[t].op
           /\ thr[t].seen = LastN(log) /\ Verifies(log) => Verifies(log')
           /\ thr'[t].pc = "add"
    BY <1>4, <2>1
  <2>. QED
    BY <1>0, <1>2, <1>7, <2>2, <2>3, <2>4, ChainGrows
<1>13. AckedPersisted'
  BY <1>2, <1>4, <1>11, AckedKept
<1>14. StreamVerifies'
  BY <1>2, <1>11, StreamKept
<1>. QED
  BY <1>4, <1>7, <1>8, <1>9, <1>10, <1>12, <1>13, <1>14

\* An XADD, and one that failed, preserve the invariant.
LEMMA AddStep ==
  ASSUME WrapInv, NEW t \in Threads, Add(t)
  PROVE  WrapInv'
<1>. USE DEF WrapInv
<1>0. TypeInv /\ Shapes /\ OneByOne /\ Streamed /\ Fresh /\ Mirror
  OBVIOUS
<1>1. PICK added \in BOOLEAN, raises \in BOOLEAN :
       /\ added \/ raises
       /\ stream' = IF added THEN Append(stream, Last(log)) ELSE stream
       /\ slips' = slips \cup (IF added THEN {} ELSE {"failed"})
                         \cup (IF added /\ LastN(log) # thr[t].op THEN {"other op"} ELSE {})
       /\ acked' = IF ~raises /\ thr[t].cmd = "nedb.put" THEN acked \cup {thr[t].op} ELSE acked
  BY DEF Add
<1>2. /\ thr[t].pc = "add" /\ thr' = [thr EXCEPT ![t] = After(t)]
      /\ nedbd' = nedbd /\ redis' = redis /\ log' = log /\ shadow' = shadow /\ born' = born
      /\ drift' = drift
  BY DEF Add
<1>3. ~nedbd /\ log # << >>
  BY <1>2 DEF OneByOne
<1>. DEFINE c == After(t)
<1>4. c \in Calls /\ Held(c) /\ c.pc \in {"idle", "scan"} /\ c.held = << >> /\ Len(c.held) = 0
  BY <1>0, <1>2, AfterFacts
<1>5. thr' = [thr EXCEPT ![t] = c]
  BY <1>2
<1>. HIDE DEF c
<1>6. /\ thr' \in [Threads -> Calls] /\ Shapes' /\ OneByOne'
      /\ thr'[t] = c /\ \A s \in Threads : s # t => thr'[s] = thr[s]
  <2>1. nedbd' = nedbd /\ (log # << >> => log' # << >>) /\ c.pc \notin {"put", "log", "add"}
    BY <1>2, <1>4
  <2>. QED
    BY <1>0, <1>4, <1>5, <2>1, OneThread
<1>. DEFINE a == Append(stream, Last(log))
<1>7. /\ Last(log) = log[Len(log)] /\ LastN(log) = log[Len(log)].n
      /\ Len(log) \in 1..Len(log) /\ log[Len(log)] \in Ops
      /\ a \in Seq(Ops) /\ Len(a) = Len(stream) + 1
      /\ \A i \in 1..Len(stream) : a[i] = stream[i]
      /\ a[Len(stream) + 1] = log[Len(log)]
      /\ Ordered(a, born)
      /\ \A i \in 1..Len(a) : \E j \in 1..Len(log) : log[j] = a[i]
  BY <1>0, <1>3, StreamGrows
<1>8. stream' = IF added THEN a ELSE stream
  BY <1>1
<1>. HIDE DEF a
<1>9. TypeInv'
  BY <1>2, <1>6, <1>7, <1>8 DEF TypeInv
<1>10. Streamed'
  BY <1>2, <1>7, <1>8 DEF Streamed
<1>11. Fresh'
  <2>1. \A i \in 1..Len(thr'[t].held) : ~thr'[t].held[i].stale =>
          thr'[t].held[i].key \in Mapped /\ thr'[t].held[i].val = redis[thr'[t].held[i].key]
    BY <1>4, <1>6
  <2>. QED
    BY <1>2, <1>6, <2>1, FreshKept
<1>12. Mirror'
  <2>. SUFFICES ASSUME NEW x \in Mapped, x \notin drift
                PROVE  Doc(Id[x])' = redis'[x] \/ \E s \in Threads : x \in Shadowed(s)'
    BY <1>2 DEF Mirror
  <2>1. Doc(Id[x])' = Doc(Id[x])
    BY <1>2 DEF Doc
  <2>2. x \notin Shadowed(t)
    BY <1>2 DEF Shadowed
  <2>. QED
    BY <1>0, <1>2, <1>6, <2>1, <2>2, StillMirrored
<1>13. Chain'
  <2>. SUFFICES ASSUME slips' = {}
                PROVE  /\ Verifies(log) /\ log = stream'
                       /\ \A s \in Threads : thr'[s].pc \notin {"log", "add"}
    BY <1>2 DEF Chain, Verifies
  <2>1. slips = {} /\ added
    BY <1>1
  <2>2. /\ Verifies(log) /\ Len(log) = Len(stream) + 1
        /\ \A i \in 1..Len(stream) : stream[i] = log[i]
        /\ \A s \in Threads : thr[s].pc \in {"log", "add"} => s = t
    BY <1>2, <1>3, <2>1 DEF Chain
  <2>3. stream' = log
    <3>1. log \in Seq(Ops) /\ Len(stream) \in Nat
      BY LenProperties DEF TypeInv
    <3>2. \A i \in 1..Len(a) : i \in 1..Len(stream) \/ i = Len(stream) + 1
      BY <3>1, <1>7
    <3>3. \A i \in 1..Len(a) : a[i] = log[i]
      BY <3>2, <1>7, <2>2
    <3>4. a = log
      BY <3>1, <3>3, <1>7, <2>2, SeqEqual
    <3>. QED
      BY <3>4, <1>8, <2>1
  <2>4. \A s \in Threads : thr'[s].pc \notin {"log", "add"}
    BY <2>2, <1>4, <1>6
  <2>. QED
    BY <2>2, <2>3, <2>4
<1>16. (\A o \in Range(stream) : o \in Range(a)) /\ log[Len(log)] \in Range(a)
  <2>1. DOMAIN stream = 1..Len(stream) /\ DOMAIN a = 1..Len(a) /\ Len(stream) \in Nat
    BY <1>7, LenProperties DEF TypeInv
  <2>2. /\ Len(a) = Len(stream) + 1 /\ Len(stream) \in Nat
        /\ \A i \in 1..Len(stream) : a[i] = stream[i]
    BY <1>7, <2>1
  <2>3. Len(stream) + 1 \in 1..Len(a) /\ \A i \in 1..Len(stream) : i \in 1..Len(a)
    BY <2>2
  <2>4. \A o \in Range(stream) : o \in Range(a)
    BY <2>1, <2>2, <2>3 DEF Range
  <2>. QED
    BY <1>7, <2>1, <2>3, <2>4 DEF Range
<1>14. AckedPersisted'
  <2>. SUFFICES ASSUME "other op" \notin slips'
                PROVE  acked' \subseteq {o.n : o \in Range(stream')}
    BY <1>2, <1>3, Zenon DEF AckedPersisted
  <2>1. acked \subseteq {o.n : o \in Range(stream)}
    BY <1>1, <1>3 DEF AckedPersisted
  <2>5. added => log[Len(log)].n = thr[t].op
    BY <1>1, <1>7
  <2>6. CASE added
    <3>. DEFINE A == Range(a)
                B == Range(stream)
    <3>1. B \subseteq A /\ acked \subseteq {o.n : o \in B} /\ log[Len(log)] \in A
      BY <2>1, <1>16
    <3>. HIDE DEF A, B
    <3>2. acked \subseteq {o.n : o \in A}
      BY <3>1
    <3>3. thr[t].op \in {o.n : o \in A}
      BY <3>1, <2>5, <2>6
    <3>4. acked' \subseteq {o.n : o \in A}
      BY <3>2, <3>3, <1>1
    <3>. QED
      BY <3>4, <2>6, <1>8 DEF A
  <2>7. CASE ~added
    BY <2>7, <2>1, <1>1, <1>8
  <2>. QED
    BY <2>6, <2>7
<1>17. StreamVerifies'
  BY <1>2, <1>3, <1>13 DEF Chain, StreamVerifies, Verifies
<1>. QED
  BY <1>6, <1>9, <1>10, <1>11, <1>12, <1>13, <1>14, <1>17

\* The deletion of an expired document preserves the invariant.
LEMMA ExpireStep ==
  ASSUME WrapInv, NEW k \in Mapped, Expire(k)
  PROVE  WrapInv'
<1>. USE DEF WrapInv
<1>. DEFINE items == << Item(k, NIL, TRUE) >>
<1>0. TypeInv /\ Shapes /\ OneByOne /\ Streamed
  OBVIOUS
<1>a. LastN(log) \in Nat
  BY <1>0, LastNIsNat
<1>1. /\ log' = Logged(items, LastN(log), NIL, FALSE) /\ born' = born + 1
      /\ drift' = drift \cup KeysOf({Id[k]}) /\ slips' = slips \cup {"expiry"}
      /\ UNCHANGED <<nedbd, redis, stream, shadow, thr, acked>>
  BY DEF Expire
<1>2. /\ items \in Seq(Items) /\ Len(items) = 1 /\ items[1].key = k
  <2>1. k \in Keys /\ NIL \in Values
    BY DEF Keys, Values
  <2>2. items \in Seq(Items) /\ Len(items) = 1 /\ items[1] = Item(k, NIL, TRUE)
    BY <2>1, OneItem, Zenon
  <2>. HIDE DEF items
  <2>. QED
    BY <2>2 DEF Item
<1>b. DocOf(k) = Id[k]
  BY DEF DocOf
<1>. HIDE DEF items
<1>3. /\ log' \in Seq(Ops) /\ born' \in Nat /\ Streamed'
      /\ Len(log') = Len(log) + Len(items)
      /\ \A j \in 1..Len(log) : log'[j] = log[j]
      /\ \A x : (\A j \in 1..Len(items) : DocOf(items[j].key) # x) => DocIn(log', x) = DocIn(log, x)
  <2>1. /\ log' = Logged(items, LastN(log), NIL, FALSE) /\ born' = born + Len(items)
        /\ NIL \in Idem \cup {NIL} /\ FALSE \in BOOLEAN /\ stream' = stream
    BY <1>1, <1>2
  <2>. QED
    BY <1>0, <1>a, <1>2, <2>1, LogGrows
<1>4. (\A o \in Range(log) : o \in Range(log')) /\ (log # << >> => log' # << >>)
  <2>1. log \in Seq(Ops) /\ 1 \in Nat /\ Len(log') = Len(log) + 1
    BY <1>2, <1>3 DEF TypeInv
  <2>. QED
    BY <1>3, <2>1, StaysInLog
<1>5. TypeInv'
  BY <1>0, <1>1, <1>3 DEF TypeInv
<1>6. Shapes' /\ OneByOne' /\ Fresh'
  BY <1>0, <1>1, <1>4 DEF Shapes, Held, OneByOne, Fresh
<1>7. Mirror'
  <2>. SUFFICES ASSUME NEW x \in Mapped, x \notin drift'
                PROVE  Doc(Id[x])' = redis'[x] \/ \E s \in Threads : x \in Shadowed(s)'
    BY DEF Mirror
  <2>1. Id[x] # Id[k] /\ x \notin drift
    BY <1>1 DEF KeysOf
  <2>2. \A j \in 1..Len(items) : DocOf(items[j].key) # Id[x]
    BY <1>2, <1>b, <2>1
  <2>3. Doc(Id[x])' = Doc(Id[x])
    BY <1>3, <2>2, DocIsDocIn
  <2>4. \A s \in Threads : Shadowed(s)' = Shadowed(s)
    BY <1>1 DEF Shadowed
  <2>. QED
    BY <1>1, <2>1, <2>3, <2>4 DEF Mirror
<1>8. Chain'
  BY <1>1 DEF Chain
<1>9. AckedPersisted'
  BY <1>1, <1>4, AckedKept
<1>17. StreamVerifies'
  BY <1>1, StreamKept
<1>. QED
  BY <1>3, <1>5, <1>6, <1>7, <1>8, <1>9, <1>17

\* When every op of a document is in the stream, reloading the log from the stream leaves
\* the document as it is.
LEMMA DocReloaded ==
  ASSUME TypeInv, Streamed, NEW k, \A i \in 1..Len(log) : log[i].doc = k =>
           \E j \in 1..Len(stream) : stream[j] = log[i]
  PROVE  DocIn(stream, k) = DocIn(log, k)
<1>1. log \in Seq(Ops) /\ stream \in Seq(Ops) /\ Len(log) \in Nat /\ Len(stream) \in Nat
  BY LenProperties DEF TypeInv
<1>2. \A i \in 1..Len(stream) : \E j \in 1..Len(log) : log[j] = stream[i]
  BY DEF Streamed
<1>3. CASE \A i \in 1..Len(log) : log[i].doc # k
  <2>1. \A i \in 1..Len(stream) : stream[i].doc # k
    BY <1>2, <1>3
  <2>. QED
    BY <1>1, <1>3, <2>1, DocFacts
<1>4. CASE \E i \in 1..Len(log) : log[i].doc = k
  <2>. DEFINE LastIn(ops, l) == ops[l].doc = k /\ \A j \in 1..Len(ops) : j > l => ops[j].doc # k
  <2>0. \A ops \in Seq(Ops) : \A i \in 1..Len(ops) : ops[i].doc = k => \E l \in i..Len(ops) : LastIn(ops, l)
    BY DocFacts, Zenon
  <2>1. PICK i \in 1..Len(log) : log[i].doc = k
    BY <1>4
  <2>2. PICK l \in i..Len(log) : LastIn(log, l)
    BY <1>1, <2>0, <2>1
  <2>3. l \in 1..Len(log)
    BY <1>1
  <2>4. PICK y \in 1..Len(stream) : stream[y] = log[l]
    BY <2>2, <2>3
  <2>5. PICK s \in y..Len(stream) : LastIn(stream, s)
    BY <1>1, <2>0, <2>2, <2>4
  <2>6. s \in 1..Len(stream)
    BY <1>1
  <2>7. PICK x \in 1..Len(log) : log[x] = stream[s]
    BY <1>2, <2>6
  <2>8. x <= l
    BY <1>1, <2>2, <2>3, <2>5, <2>7
  <2>9. \A z \in 1..Len(log) : log[z].n \in Nat
    <3>1. log \in [1..Len(log) -> Ops]
      BY <1>1, LenProperties
    <3>. QED
      BY <3>1 DEF Ops
  <2>10. log[x].n <= log[l].n
    <3>1. CASE x = l
      BY <3>1, <2>3, <2>9
    <3>2. CASE x < l
      BY <3>2, <2>3, <2>7 DEF Streamed, Ordered
    <3>. QED
      BY <3>1, <3>2, <1>1, <2>3, <2>7, <2>8
  <2>11. stream[y].n <= stream[s].n
    <3>1. CASE y = s
      BY <3>1, <2>3, <2>4, <2>9
    <3>2. CASE y < s
      BY <3>2, <2>4, <2>6 DEF Streamed, Ordered
    <3>. QED
      BY <3>1, <3>2, <1>1, <2>4, <2>6
  <2>12. log[x].n = log[l].n
    BY <2>3, <2>4, <2>7, <2>9, <2>10, <2>11
  <2>13. log[x] = log[l]
    BY <2>3, <2>7, <2>12 DEF Streamed, Ordered
  <2>14. DocIn(log, k) = log[l].val
    <3>1. log[l].doc = k /\ \A j \in 1..Len(log) : j > l => log[j].doc # k
      BY <2>2
    <3>. QED
      BY <1>1, <2>3, <3>1, DocOfLast
  <2>15. DocIn(stream, k) = stream[s].val
    <3>1. stream[s].doc = k /\ \A j \in 1..Len(stream) : j > s => stream[j].doc # k
      BY <2>5
    <3>. QED
      BY <1>1, <2>6, <3>1, DocOfLast
  <2>. QED
    BY <2>7, <2>13, <2>14, <2>15
<1>. QED
  BY <1>3, <1>4

\* A stop of the process and its next start preserve the invariant.
LEMMA RestartStep ==
  ASSUME WrapInv, Restart
  PROVE  WrapInv'
<1>. USE DEF WrapInv
<1>. DEFINE unsaved == {o.doc : o \in Range(log) \ Range(stream)}
<1>0. TypeInv /\ Shapes /\ OneByOne /\ Streamed
  OBVIOUS
<1>1. /\ log' = IF nedbd THEN log ELSE stream
      /\ drift' = drift \cup (UNION {Shadowed(t) : t \in Threads})
                         \cup (IF nedbd THEN {} ELSE KeysOf(unsaved))
      /\ thr' = [t \in Threads |-> Resting] /\ shadow' = FALSE
      /\ UNCHANGED <<nedbd, redis, stream, born, acked, slips>>
  BY DEF Restart, Reloaded
<1>2. \A t \in Threads : thr'[t] = Resting
  BY <1>1
<1>3. TypeInv'
  BY <1>0, <1>1, RestingFacts DEF TypeInv
<1>4. Shapes'
  BY <1>2, RestingFacts DEF Shapes, Held
<1>5. OneByOne'
  BY <1>2, RestingFacts DEF OneByOne
<1>6. Streamed'
  BY <1>0, <1>1 DEF Streamed
<1>7. Fresh'
  BY <1>2, RestingFacts DEF Fresh
<1>8. Mirror'
  <2>. SUFFICES ASSUME NEW x \in Mapped, x \notin drift'
                PROVE  Doc(Id[x])' = redis'[x]
    BY DEF Mirror
  <2>1. x \notin drift /\ (\A t \in Threads : x \notin Shadowed(t)) /\ (~nedbd => Id[x] \notin unsaved)
    BY <1>1 DEF KeysOf
  <2>3. Doc(Id[x]) = redis[x]
    BY <2>1 DEF Mirror
  <2>4. CASE nedbd
    <3>1. log' = log
      BY <1>1, <2>4
    <3>. QED
      BY <1>1, <2>3, <3>1, DocIsDocIn
  <2>5. CASE ~nedbd
    <3>0. DOMAIN log = 1..Len(log) /\ DOMAIN stream = 1..Len(stream)
      BY <1>0, LenProperties DEF TypeInv
    <3>1. \A i \in 1..Len(log) : log[i].doc = Id[x] => \E j \in 1..Len(stream) : stream[j] = log[i]
      <4>. SUFFICES ASSUME NEW i \in 1..Len(log), log[i].doc = Id[x]
                    PROVE  \E j \in 1..Len(stream) : stream[j] = log[i]
        OBVIOUS
      <4>1. log[i] \in Range(log)
        BY <3>0 DEF Range
      <4>2. log[i] \in Range(stream)
        BY <2>1, <2>5, <4>1
      <4>. QED
        BY <3>0, <4>2 DEF Range
    <3>2. DocIn(stream, Id[x]) = DocIn(log, Id[x])
      BY <1>0, <3>1, DocReloaded
    <3>3. log' = stream
      BY <1>1, <2>5
    <3>. QED
      BY <1>1, <2>3, <3>2, <3>3, DocIsDocIn
  <2>. QED
    BY <2>4, <2>5
<1>9. Chain'
  <2>. SUFFICES ASSUME slips = {}, ~nedbd PROVE Verifies(stream)
    BY <1>1, <1>2, RestingFacts DEF Chain, Verifies
  <2>. QED
    BY DEF Chain
<1>10. AckedPersisted'
  BY <1>1, AckedKept
<1>17. StreamVerifies'
  BY <1>1, StreamKept
<1>. QED
  BY <1>3, <1>4, <1>5, <1>6, <1>7, <1>8, <1>9, <1>10, <1>17

\* Switching the shadow on, and steps of other variables, preserve the invariant.
LEMMA OtherStep ==
  ASSUME WrapInv, shadow' \in BOOLEAN,
         UNCHANGED <<nedbd, redis, log, stream, thr, born, acked, drift, slips>>
  PROVE  WrapInv'
<1>. USE DEF WrapInv
<1>1. TypeInv'
  BY DEF TypeInv
<1>2. Shapes' /\ OneByOne' /\ Fresh' /\ Streamed'
  BY DEF Shapes, Held, OneByOne, Fresh, Streamed
<1>3. Mirror'
  BY DEF Mirror, Shadowed, Doc
<1>4. Chain'
  BY DEF Chain, Verifies, LastN
<1>5. AckedPersisted'
  BY DEF AckedPersisted
<1>17. StreamVerifies'
  BY StreamKept
<1>. QED
  BY <1>1, <1>2, <1>3, <1>4, <1>5, <1>17

\* The invariant holds at the start.
LEMMA WrapInit ==
  ASSUME Init
  PROVE  WrapInv
<1>. USE DEF Init
<1>1. \A t \in Threads : thr[t] = Resting
  OBVIOUS
<1>2. log \in Seq(Ops) /\ stream \in Seq(Ops) /\ Len(log) = 0 /\ Len(stream) = 0 /\ log = stream
  BY EmptySeq
<1>3. TypeInv
  BY <1>2, RestingFacts DEF TypeInv, Values
<1>4. Shapes /\ OneByOne /\ Fresh
  BY <1>1, RestingFacts DEF Shapes, OneByOne, Fresh
<1>5. Streamed
  BY <1>2 DEF Streamed, Ordered
<1>6. Mirror
  <2>. SUFFICES ASSUME NEW k \in Mapped, k \notin drift PROVE Doc(Id[k]) = redis[k]
    BY DEF Mirror
  <2>1. DocIn(log, Id[k]) = NIL
    <3>1. log \in Seq(Ops) /\ \A i \in 1..Len(log) : log[i].doc # Id[k]
      BY <1>2
    <3>. HIDE DEF Init
    <3>. QED
      BY <3>1, DocFacts
  <2>2. redis[k] = NIL
    OBVIOUS
  <2>. QED
    BY <2>1, <2>2, DocIsDocIn
<1>7. Chain
  <2>1. DOMAIN log = 1..0 /\ DOMAIN stream = 1..0
    BY <1>2, LenProperties
  <2>2. Verifies(log) /\ Verifies(stream)
    BY <2>1 DEF Verifies
  <2>. QED
    BY <1>1, <1>2, <2>2, RestingFacts DEF Chain
<1>8. AckedPersisted
  BY DEF AckedPersisted
<1>9. StreamVerifies
  <2>1. DOMAIN stream = 1..0
    BY <1>2, LenProperties
  <2>. QED
    BY <2>1 DEF StreamVerifies, Verifies
<1>. QED
  BY <1>3, <1>4, <1>5, <1>6, <1>7, <1>8, <1>9 DEF WrapInv

\* Every step preserves the invariant.
LEMMA WrapNext ==
  ASSUME WrapInv, [Next]_vars
  PROVE  WrapInv'
<1>1. ASSUME NEW t \in Threads, NEW k \in Keys, NEW cmd \in {"set", "other"}, Command(t, cmd, k)
      PROVE  WrapInv'
  BY <1>1, CommandStep
<1>2. ASSUME NEW t \in Threads, Serve(t) \/ Link(t) \/ PutHeld(t) \/ Dropped(t) \/ Add(t)
                                 \/ Backfill(t) \/ EndScan(t)
      PROVE  WrapInv'
  BY <1>2, ServeStep, LinkStep, PutHeldStep, DroppedStep, AddStep, BackfillStep, EndScanStep
<1>3. ASSUME NEW t \in Threads, NEW k \in Mapped, NEW v \in Vals, NEW i \in Idem,
             NedbPut(t, k, v, i, FALSE)
      PROVE  WrapInv'
  BY <1>3, NedbPutStep
<1>4. ASSUME NEW t \in Threads, NEW k \in Mapped, NEW v \in Vals, NEW ttl \in BOOLEAN,
             NedbPut(t, k, v, NIL, ttl /\ ~nedbd)
      PROVE  WrapInv'
  <2>1. (ttl /\ ~nedbd) \in BOOLEAN
    OBVIOUS
  <2>. QED
    BY <1>4, <2>1, NedbPutStep
<1>5. ASSUME NEW t \in Threads, NEW k \in Mapped, NedbPut(t, k, NIL, NIL, FALSE)
      PROVE  WrapInv'
  BY <1>5, NedbPutStep
<1>6. ASSUME NEW t \in Threads, NEW k \in Mapped, Import(t, k)
      PROVE  WrapInv'
  BY <1>6, ImportStep
<1>7. CASE Enable
  BY <1>7, OtherStep DEF Enable
<1>8. CASE Restart
  BY <1>8, RestartStep
<1>9. ASSUME NEW k \in Mapped, Expire(k)
      PROVE  WrapInv'
  BY <1>9, ExpireStep
<1>10. CASE UNCHANGED vars
  <2>1. shadow \in BOOLEAN
    BY DEF WrapInv, TypeInv
  <2>. QED
    BY <1>10, <2>1, OtherStep DEF vars
<1>. QED
  BY <1>1, <1>2, <1>3, <1>4, <1>5, <1>6, <1>7, <1>8, <1>9, <1>10 DEF Next

\* The inductive invariant of the wrapper: what threads have in hand, how the stream relates
\* to the log, and which documents equal their keys' values.
THEOREM WrapInvariant == Spec => []WrapInv
<1>1. Init => WrapInv
  BY WrapInit
<1>2. WrapInv /\ [Next]_vars => WrapInv'
  BY WrapNext
<1>. QED
  BY <1>1, <1>2, PTL DEF Spec

\* However threads, failing calls, backfills and restarts interleave, and whichever keys
\* share a document, the document of a mapped key that no listed reason excludes is the
\* key's value in Redis, or the shadow of a command on the key is under way (_intercepted,
\* _shadow, extract_id, backfill, _reload).
THEOREM MirrorsRedis == Spec => []Mirror
<1>1. WrapInv => Mirror
  BY DEF WrapInv
<1>. QED
  BY <1>1, WrapInvariant, PTL

\* The stream that _persist_last_op writes, op by op and with no lock around put and XADD,
\* is a chain that verify() accepts at every moment, unless one of the slips happened.
THEOREM StreamIsAChain == Spec => []StreamVerifies
<1>1. WrapInv => StreamVerifies
  BY DEF WrapInv
<1>. QED
  BY <1>1, WrapInvariant, PTL

\* A put of r.nedb that returned is in the stream, or in nedbd's log, whatever stops and
\* restarts follow, unless an XADD took another call's op.
THEOREM AcknowledgedArePersisted == Spec => []AckedPersisted
<1>1. WrapInv => AckedPersisted
  BY DEF WrapInv
<1>. QED
  BY <1>1, WrapInvariant, PTL

=============================================================================
