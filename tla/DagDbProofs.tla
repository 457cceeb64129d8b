----------------------------- MODULE DagDbProofs -----------------------------
(***************************************************************************)
(* Theorems on DagDb, for every number of threads, documents, events and   *)
(* crashes.                                                                *)
(***************************************************************************)
EXTENDS DagDb, BasicLemmas

-----------------------------------------------------------------------------
(* Types, and the shape of a call in progress.                              *)

Pointers == Nat \cup {NIL}
Nodes == [n : Nat, doc : Docs, prev : Pointers, seq : Nat, del : BOOLEAN, has : BOOLEAN]
Calls == [pc : {"idle", "prev", "seq", "write", "set", "sort", "read", "chain", "remove"},
          kind : {"none", "put", "batch", "delete"},
          nodes : Seq(Nodes), todo : SUBSET {1, 2}, seen : SUBSET Nat]
Jobs == [pc : {"idle", "files", "clear", "manifest", "rename", "live", "drop"},
         kind : {"none", "tick", "flush_all", "compact"},
         got : [Docs -> Pointers \cup {NONE}], seq : Nat, live : SUBSET Pointers]
Fills == [pc : {"none", "buffer", "fill"}, ids : SUBSET Docs, missed : SUBSET Docs]

TypeOK ==
  /\ up \in {"down", "cold", "read", "numbered", "headed", "ready"}
  /\ thr \in [Threads -> Calls] /\ job \in Jobs
  /\ objects \subseteq Nodes /\ listed \subseteq Nodes /\ dir \in BOOLEAN
  /\ file \in [Docs -> Pointers] /\ buf \in [Docs -> Pointers \cup {NONE}]
  /\ sorted \subseteq Nat /\ fill \in Fills
  /\ seq \in Nat /\ head \subseteq Nat /\ manifest \subseteq [seq : Nat, head : SUBSET Nat]
  /\ dirty \in BOOLEAN /\ events \in Nat /\ crashes \in Nat /\ born \in Nat
  /\ latest \in [Docs -> Pointers] /\ unsure \subseteq Docs
  /\ behind \in BOOLEAN /\ headUnsure \in BOOLEAN

\* The objects of the call are not written yet.
Before(t) == thr[t].pc \in {"prev", "seq", "write"}

Shape(c) ==
  /\ c.pc = "idle" => c.nodes = << >>
  /\ c.pc # "idle" => Len(c.nodes) \in {1, 2} /\ (c.kind = "delete" => Len(c.nodes) = 1)
  /\ \A i, j \in DOMAIN c.nodes : c.nodes[i].doc = c.nodes[j].doc => i = j
  /\ \A i \in DOMAIN c.nodes : c.nodes[i].del = (c.kind = "delete")
  /\ \A i \in DOMAIN c.nodes : c.nodes[i].n = 0 <=> c.pc \in {"prev", "seq", "write"}
  /\ c.pc \in {"seq", "remove"} => c.kind = "delete"
  /\ c.pc \in {"set", "sort"} => c.kind # "delete"
  /\ c.todo \subseteq DOMAIN c.nodes
  /\ c.pc \in {"set", "read", "chain"} => c.todo # {}

\* Calls and jobs are in progress only in a process that runs, puts and compactions only in
\* one that is ready; a scan has objects to read, and their seqs have a greatest one.
Shapes ==
  /\ \A t \in Threads : Shape(thr[t])
  /\ up = "down" => job.pc = "idle" /\ \A t \in Threads : thr[t].pc = "idle"
  /\ up # "ready" => \A t \in Threads : thr[t].pc = "idle" \/ thr[t].kind = "delete"
  /\ job.pc \in {"live", "drop"} => job.kind = "compact"
  /\ job.kind = "compact" => up = "ready"
  /\ listed \subseteq objects /\ (up \in {"down", "ready"} => listed = {})
  /\ up = "cold" => objects # {}
  /\ up \in {"read", "numbered", "headed"} => listed # {}
  /\ \E b \in Nat : \A o \in objects : o.seq <= b

Base == TypeOK /\ Shapes

\* A step of thread t that leaves it at c.
Moves(t, c) == thr' = [thr EXCEPT ![t] = c]

\* The calls after a step of one thread.
LEMMA MovesFacts ==
  ASSUME TypeOK, NEW t \in Threads, NEW c, Moves(t, c)
  PROVE  thr'[t] = c /\ \A s \in Threads : s # t => thr'[s] = thr[s]
BY DEF Moves, TypeOK

\* A call of Shape keeps types and shapes.
LEMMA MovesShape ==
  ASSUME Base, up' = up, NEW t \in Threads, NEW c \in Calls, Moves(t, c), Shape(c),
         up # "ready" => c.pc = "idle" \/ c.kind = "delete"
  PROVE  /\ thr' \in [Threads -> Calls]
         /\ \A s \in Threads : Shape(thr'[s])
         /\ up' # "ready" => \A s \in Threads : thr'[s].pc = "idle" \/ thr'[s].kind = "delete"
<1>1. thr \in [Threads -> Calls] /\ \A s \in Threads : Shape(thr[s])
  BY DEF Base, TypeOK, Shapes
<1>2. thr'[t] = c /\ \A s \in Threads : s # t => thr'[s] = thr[s]
  BY MovesFacts DEF Base
<1>3. thr' \in [Threads -> Calls]
  BY <1>1 DEF Moves
<1>4. \A s \in Threads : Shape(thr'[s])
  BY <1>1, <1>2
<1>. QED
  BY <1>2, <1>3, <1>4 DEF Base, Shapes

\* A thread between calls.
LEMMA RestingFacts ==
  /\ Resting \in Calls /\ Shape(Resting)
  /\ Resting.pc = "idle" /\ Resting.nodes = << >> /\ DOMAIN Resting.nodes = {}
<1>1. << >> \in Seq(Nodes) /\ DOMAIN << >> = {}
  OBVIOUS
<1>. QED
  BY <1>1 DEF Resting, Calls, Shape

\* The nodes of a call.
LEMMA NodesFacts ==
  ASSUME TypeOK, NEW t \in Threads
  PROVE  /\ thr[t] \in Calls /\ thr[t].nodes \in Seq(Nodes)
         /\ Len(thr[t].nodes) \in Nat /\ DOMAIN thr[t].nodes = 1..Len(thr[t].nodes)
         /\ \A i \in DOMAIN thr[t].nodes : thr[t].nodes[i] \in Nodes
<1>1. thr[t] \in Calls
  BY DEF TypeOK
<1>2. thr[t].nodes \in Seq(Nodes)
  BY <1>1 DEF Calls
<1>3. Len(thr[t].nodes) \in Nat /\ DOMAIN thr[t].nodes = 1..Len(thr[t].nodes)
  BY <1>2, LenProperties
<1>. QED
  BY <1>1, <1>2, <1>3, ElementOfSeq

\* The indexes of a call's nodes.
LEMMA OneOrTwo ==
  ASSUME NEW k \in {1, 2}
  PROVE  1 \in 1..k /\ 1..k \subseteq {1, 2}
OBVIOUS

\* A sequence on the same indexes.
LEMMA SameIndexes ==
  ASSUME NEW k \in Nat, NEW f, NEW S, f \in [1..k -> S]
  PROVE  f \in Seq(S) /\ Len(f) = k /\ DOMAIN f = 1..k
<1>1. f \in Seq(S)
  BY SeqDef
<1>2. Len(f) \in Nat /\ DOMAIN f = 1..Len(f) /\ DOMAIN f = 1..k
  BY <1>1, LenProperties
<1>3. Len(f) = k
  BY <1>2
<1>. QED
  BY <1>1, <1>2, <1>3

-----------------------------------------------------------------------------
(* What each step of a call does to the call.                               *)

\* Arguments of a call.
Arguments(kind, ds, has) ==
  /\ kind \in {"put", "batch", "delete"} /\ ds \in Seq(Docs) /\ Len(ds) \in {1, 2}
  /\ has \in Seq(BOOLEAN) /\ Len(has) = Len(ds)
  /\ kind = "delete" => Len(ds) = 1
  /\ \A i, j \in DOMAIN ds : ds[i] = ds[j] => i = j

\* The arguments of a put and of a delete.
LEMMA OneArgument ==
  ASSUME NEW d \in Docs, NEW kind \in {"put", "delete"}, NEW has \in Seq(BOOLEAN), Len(has) = 1
  PROVE  Arguments(kind, << d >>, has)
BY DEF Arguments

\* The arguments of a batch.
LEMMA TwoArguments ==
  ASSUME NEW d \in Docs, NEW e \in Docs, d # e, NEW has \in Seq(BOOLEAN), Len(has) = 2
  PROVE  Arguments("batch", << d, e >>, has)
BY DEF Arguments

\* A call begins.
LEMMA CallStep ==
  ASSUME Base, NEW t \in Threads, NEW kind, NEW ds, NEW has, Arguments(kind, ds, has), Call(t, kind, ds, has)
  PROVE  /\ thr[t].pc = "idle" /\ thr[t].nodes = << >>
         /\ thr'[t].pc = "prev" /\ thr'[t].kind = kind /\ thr'[t].todo = {} /\ thr'[t].seen = {}
         /\ DOMAIN thr'[t].nodes = 1..Len(ds) /\ Len(thr'[t].nodes) = Len(ds)
         /\ \A i \in 1..Len(ds) :
              /\ thr'[t].nodes[i].n = 0 /\ thr'[t].nodes[i].doc = ds[i] /\ thr'[t].nodes[i].prev = NIL
              /\ thr'[t].nodes[i].seq = IF kind = "delete" THEN 0 ELSE seq + i - 1
              /\ thr'[t].nodes[i].del = (kind = "delete") /\ thr'[t].nodes[i].has = has[i]
         /\ Moves(t, thr'[t]) /\ thr'[t] \in Calls /\ Shape(thr'[t])
<1>. DEFINE node(i) == [n |-> 0, doc |-> ds[i], prev |-> NIL,
                        seq |-> IF kind = "delete" THEN 0 ELSE seq + i - 1,
                        del |-> kind = "delete", has |-> has[i]]
            ns == [i \in DOMAIN ds |-> node(i)]
            c == [Resting EXCEPT !.pc = "prev", !.kind = kind, !.nodes = ns]
<1>1. /\ Len(ds) \in Nat /\ DOMAIN ds = 1..Len(ds)
      /\ \A i \in 1..Len(ds) : ds[i] \in Docs /\ has[i] \in BOOLEAN
  BY LenProperties, ElementOfSeq DEF Arguments
<1>2. \A i \in 1..Len(ds) : node(i) \in Nodes
  <2>1. seq \in Nat
    BY DEF Base, TypeOK
  <2>. QED
    BY <1>1, <2>1 DEF Nodes, Pointers
<1>3. ns \in Seq(Nodes) /\ Len(ns) = Len(ds) /\ DOMAIN ns = 1..Len(ds)
  <2>1. ns \in [1..Len(ds) -> Nodes]
    BY <1>1, <1>2
  <2>. HIDE DEF ns
  <2>. QED
    BY <1>1, <2>1, SameIndexes
<1>4. \A i \in 1..Len(ds) : ns[i] = node(i)
  BY <1>1
<1>5. /\ c.pc = "prev" /\ c.kind = kind /\ c.todo = {} /\ c.seen = {} /\ c.nodes = ns
      /\ c \in Calls
  <2>1. kind \in {"put", "batch", "delete"}
    BY DEF Arguments
  <2>2. Resting.todo = {} /\ Resting.seen = {}
    BY DEF Resting
  <2>. HIDE DEF ns
  <2>. QED
    BY <1>3, <2>1, <2>2, RestingFacts DEF Calls
<1>6. thr' = [thr EXCEPT ![t] = c]
  BY DEF Call
<1>. HIDE DEF c
<1>7. thr'[t] = c /\ Moves(t, c)
  BY <1>6, MovesFacts DEF Moves, Base
<1>9. Shape(c)
  BY <1>1, <1>3, <1>4, <1>5 DEF Shape, Arguments
<1>10. thr[t].pc = "idle" /\ thr[t].nodes = << >>
  BY DEF Call, Base, Shapes, Shape
<1>11. \A i \in 1..Len(ds) :
              /\ c.nodes[i].n = 0 /\ c.nodes[i].doc = ds[i] /\ c.nodes[i].prev = NIL
              /\ c.nodes[i].seq = IF kind = "delete" THEN 0 ELSE seq + i - 1
              /\ c.nodes[i].del = (kind = "delete") /\ c.nodes[i].has = has[i]
  BY <1>4, <1>5
<1>. HIDE DEF ns
<1>. QED
  BY <1>3, <1>5, <1>7, <1>9, <1>10, <1>11

\* A call that found its previous versions goes on.
LEMMA ReadPrevStep ==
  ASSUME Base, NEW t \in Threads, ReadPrev(t)
  PROVE  /\ \/ /\ thr'[t] = Resting
               /\ thr[t].kind = "delete"
               /\ {Previous(d) : d \in Written(t)} = {NIL}
            \/ /\ thr'[t].pc = IF thr[t].kind = "delete" THEN "seq" ELSE "write"
               /\ thr'[t].kind = thr[t].kind /\ thr'[t].todo = thr[t].todo /\ thr'[t].seen = thr[t].seen
               /\ DOMAIN thr'[t].nodes = DOMAIN thr[t].nodes
               /\ \A i \in DOMAIN thr[t].nodes :
                    /\ thr'[t].nodes[i].n = thr[t].nodes[i].n
                    /\ thr'[t].nodes[i].doc = thr[t].nodes[i].doc
                    /\ thr'[t].nodes[i].seq = thr[t].nodes[i].seq
                    /\ thr'[t].nodes[i].del = thr[t].nodes[i].del
                    /\ thr'[t].nodes[i].prev = Current(thr[t].nodes[i].doc)
         /\ thr[t].pc = "prev"
         /\ Moves(t, thr'[t]) /\ thr'[t] \in Calls /\ Shape(thr'[t])
<1>0. thr[t] \in Calls /\ Shape(thr[t]) /\ thr[t].pc = "prev"
  BY NodesFacts DEF Base, Shapes, ReadPrev
<1>. DEFINE ns == [i \in DOMAIN thr[t].nodes |-> [thr[t].nodes[i] EXCEPT !.prev = Previous(thr[t].nodes[i].doc)]]
            k == Len(thr[t].nodes)
            c == [thr[t] EXCEPT !.nodes = ns, !.pc = IF thr[t].kind = "delete" THEN "seq" ELSE "write"]
<1>1. k \in Nat /\ DOMAIN thr[t].nodes = 1..k /\ \A i \in 1..k : thr[t].nodes[i] \in Nodes
  BY NodesFacts DEF Base
<1>2. \A d \in Docs : Current(d) \in Pointers
  BY DEF Current, Base, TypeOK, Pointers
<1>3. ns \in [1..k -> Nodes]
  BY <1>1, <1>2 DEF Previous, Nodes
<1>4. ns \in Seq(Nodes) /\ Len(ns) = k /\ DOMAIN ns = 1..k
  <2>. HIDE DEF ns, k
  <2>. QED
    BY <1>1, <1>3, SameIndexes
<1>5. \A i \in 1..k : /\ ns[i].n = thr[t].nodes[i].n /\ ns[i].doc = thr[t].nodes[i].doc
                      /\ ns[i].seq = thr[t].nodes[i].seq /\ ns[i].del = thr[t].nodes[i].del
                      /\ ns[i].prev = Current(thr[t].nodes[i].doc)
  BY <1>1 DEF Previous, Nodes
<1>. HIDE DEF ns
<1>6. /\ c.pc = IF thr[t].kind = "delete" THEN "seq" ELSE "write"
      /\ c.kind = thr[t].kind /\ c.todo = thr[t].todo /\ c.seen = thr[t].seen /\ c.nodes = ns
      /\ c \in Calls
  BY <1>0, <1>4 DEF Calls
<1>7. Shape(c)
  <2>. HIDE DEF c, k
  <2>1. Len(c.nodes) = Len(thr[t].nodes) /\ DOMAIN c.nodes = DOMAIN thr[t].nodes
    BY <1>1, <1>4, <1>6 DEF k
  <2>2. \A i \in DOMAIN thr[t].nodes : c.nodes[i].del = (c.kind = "delete")
    BY <1>0, <1>1, <1>5, <1>6, Zenon DEF Shape
  <2>3. \A i \in DOMAIN thr[t].nodes : c.nodes[i].n = 0
    BY <1>0, <1>1, <1>5, <1>6 DEF Shape
  <2>4. \A i, j \in DOMAIN thr[t].nodes : c.nodes[i].doc = c.nodes[j].doc => i = j
    BY <1>0, <1>1, <1>5, <1>6 DEF Shape
  <2>. QED
    BY <1>0, <1>6, <2>1, <2>2, <2>3, <2>4 DEF Shape
<1>9. CASE thr[t].kind = "delete" /\ {Previous(d) : d \in Written(t)} = {NIL}
  <2>1. thr' = [thr EXCEPT ![t] = Resting]
    BY <1>9 DEF ReadPrev
  <2>2. thr'[t] = Resting /\ Moves(t, Resting)
    BY <2>1, MovesFacts DEF Moves, Base
  <2>. QED
    BY <1>0, <1>9, <2>2, RestingFacts
<1>10. CASE ~ (thr[t].kind = "delete" /\ {Previous(d) : d \in Written(t)} = {NIL})
  <2>1. thr' = [thr EXCEPT ![t] = c]
    BY <1>10, Zenon DEF ReadPrev, ns
  <2>. HIDE DEF c
  <2>2. thr'[t] = c /\ Moves(t, c)
    BY <2>1, MovesFacts DEF Moves, Base
  <2>. QED
    BY <1>0, <1>1, <1>4, <1>5, <1>6, <1>7, <2>2
<1>. QED
  BY <1>9, <1>10

\* A delete takes its seq.
LEMMA TakeSeqStep ==
  ASSUME Base, NEW t \in Threads, TakeSeq(t)
  PROVE  /\ thr[t].pc = "seq" /\ thr[t].kind = "delete" /\ DOMAIN thr[t].nodes = {1}
         /\ thr'[t].pc = "write" /\ thr'[t].kind = thr[t].kind
         /\ thr'[t].todo = thr[t].todo /\ thr'[t].seen = thr[t].seen
         /\ DOMAIN thr'[t].nodes = DOMAIN thr[t].nodes
         /\ thr'[t].nodes[1].n = thr[t].nodes[1].n /\ thr'[t].nodes[1].doc = thr[t].nodes[1].doc
         /\ thr'[t].nodes[1].prev = thr[t].nodes[1].prev /\ thr'[t].nodes[1].del = thr[t].nodes[1].del
         /\ thr'[t].nodes[1].seq = seq
         /\ Moves(t, thr'[t]) /\ thr'[t] \in Calls /\ Shape(thr'[t])
<1>0. /\ thr[t] \in Calls /\ Shape(thr[t]) /\ thr[t].pc = "seq" /\ thr[t].kind = "delete" /\ seq \in Nat
      /\ Len(thr[t].nodes) = 1
  BY NodesFacts DEF Base, Shapes, TakeSeq, Shape, TypeOK
<1>1. /\ DOMAIN thr[t].nodes = {1} /\ DOMAIN thr[t].nodes = 1..1
      /\ thr[t].nodes[1] \in Nodes /\ thr[t].nodes \in Seq(Nodes)
  BY <1>0, NodesFacts DEF Base
<1>. DEFINE ns == [thr[t].nodes EXCEPT ![1].seq = seq]
            c == [thr[t] EXCEPT !.pc = "write", !.nodes[1].seq = seq]
<1>2. ns \in [1..1 -> Nodes]
  BY <1>0, <1>1 DEF Nodes
<1>3. ns \in Seq(Nodes) /\ DOMAIN ns = 1..1 /\ Len(ns) = 1
  <2>. HIDE DEF ns
  <2>. QED
    BY <1>2, SameIndexes
<1>4. /\ ns[1].n = thr[t].nodes[1].n /\ ns[1].doc = thr[t].nodes[1].doc /\ ns[1].seq = seq
      /\ ns[1].prev = thr[t].nodes[1].prev /\ ns[1].del = thr[t].nodes[1].del
  BY <1>1 DEF Nodes
<1>5. c = [thr[t] EXCEPT !.pc = "write", !.nodes = ns]
  BY <1>0 DEF Calls
<1>. HIDE DEF ns, c
<1>6. /\ c.pc = "write" /\ c.kind = thr[t].kind /\ c.todo = thr[t].todo /\ c.seen = thr[t].seen
      /\ c.nodes = ns /\ c \in Calls
  BY <1>0, <1>3, <1>5 DEF Calls
<1>7. Shape(c)
  <2>1. \A i \in {1} : ns[i].del = (c.kind = "delete")
    BY <1>0, <1>1, <1>4, <1>6, Zenon DEF Shape
  <2>. QED
    BY <1>0, <1>1, <1>3, <1>4, <1>6, <2>1 DEF Shape
<1>8. thr' = [thr EXCEPT ![t] = c]
  BY DEF TakeSeq, c
<1>9. thr'[t] = c /\ Moves(t, c)
  BY <1>8, MovesFacts DEF Moves, Base
<1>. QED
  BY <1>0, <1>1, <1>3, <1>4, <1>6, <1>7, <1>9

\* The objects of a call are written under the next version numbers.
LEMMA WriteObjectsStep ==
  ASSUME Base, NEW t \in Threads, WriteObjects(t)
  PROVE  /\ thr[t].pc = "write"
         /\ thr'[t].pc = IF thr[t].kind = "delete" THEN "read" ELSE "set"
         /\ thr'[t].kind = thr[t].kind /\ thr'[t].seen = thr[t].seen
         /\ DOMAIN thr'[t].nodes = DOMAIN thr[t].nodes /\ thr'[t].todo = DOMAIN thr[t].nodes
         /\ DOMAIN thr[t].nodes = 1..Len(thr[t].nodes) /\ Len(thr[t].nodes) \in {1, 2}
         /\ \A i \in DOMAIN thr[t].nodes :
              /\ thr'[t].nodes[i].n = born + i
              /\ thr'[t].nodes[i].doc = thr[t].nodes[i].doc
              /\ thr'[t].nodes[i].seq = thr[t].nodes[i].seq
              /\ thr'[t].nodes[i].del = thr[t].nodes[i].del
              /\ thr'[t].nodes[i].prev = thr[t].nodes[i].prev
         /\ \A i \in DOMAIN thr[t].nodes : thr'[t].nodes[i] \in Nodes
         /\ objects' = objects \cup {thr'[t].nodes[i] : i \in DOMAIN thr[t].nodes}
         /\ born' = born + Len(thr[t].nodes)
         /\ Moves(t, thr'[t]) /\ thr'[t] \in Calls /\ Shape(thr'[t])
<1>0. thr[t] \in Calls /\ Shape(thr[t]) /\ thr[t].pc = "write" /\ born \in Nat
  BY NodesFacts DEF Base, Shapes, WriteObjects, TypeOK
<1>. DEFINE ns == [i \in DOMAIN thr[t].nodes |-> [thr[t].nodes[i] EXCEPT !.n = born + i]]
            k == Len(thr[t].nodes)
            c == [thr[t] EXCEPT !.nodes = ns, !.todo = DOMAIN ns,
                                !.pc = IF thr[t].kind = "delete" THEN "read" ELSE "set"]
<1>1. k \in {1, 2} /\ DOMAIN thr[t].nodes = 1..k /\ \A i \in 1..k : thr[t].nodes[i] \in Nodes
  BY <1>0, NodesFacts DEF Base, Shape
<1>3. ns \in [1..k -> Nodes]
  BY <1>0, <1>1, SMTT(30) DEF Nodes
<1>4. ns \in Seq(Nodes) /\ Len(ns) = k /\ DOMAIN ns = 1..k
  <2>. HIDE DEF ns, k
  <2>. QED
    BY <1>1, <1>3, SameIndexes
<1>5. \A i \in 1..k : /\ ns[i].n = born + i /\ ns[i].doc = thr[t].nodes[i].doc
                      /\ ns[i].seq = thr[t].nodes[i].seq /\ ns[i].del = thr[t].nodes[i].del
                      /\ ns[i].prev = thr[t].nodes[i].prev
  BY <1>1 DEF Nodes
<1>6. \A i \in 1..k : ns[i] \in Nodes
  BY <1>3
<1>7. /\ thr' = [thr EXCEPT ![t] = c]
      /\ objects' = objects \cup {ns[i] : i \in DOMAIN ns}
      /\ born' = born + Len(ns)
  BY Zenon DEF WriteObjects
<1>2. 1..k \subseteq {1, 2} /\ 1 \in 1..k
  <2>. HIDE DEF ns, k, c
  <2>. QED
    BY <1>1
<1>. HIDE DEF ns, k
<1>8. /\ c.pc = IF thr[t].kind = "delete" THEN "read" ELSE "set"
      /\ c.kind = thr[t].kind /\ c.todo = 1..k /\ c.seen = thr[t].seen /\ c.nodes = ns
      /\ c \in Calls
  BY <1>0, <1>2, <1>4 DEF Calls
<1>. HIDE DEF c
<1>9. Shape(c)
  <2>1. Len(c.nodes) = Len(thr[t].nodes) /\ DOMAIN c.nodes = DOMAIN thr[t].nodes
    BY <1>1, <1>4, <1>8 DEF k
  <2>2. \A i \in DOMAIN thr[t].nodes : c.nodes[i].del = (c.kind = "delete")
    BY <1>0, <1>1, <1>5, <1>8, Zenon DEF Shape
  <2>3. \A i \in DOMAIN thr[t].nodes : c.nodes[i].n # 0
    BY <1>0, <1>1, <1>5, <1>8 DEF Shape
  <2>4. \A i, j \in DOMAIN thr[t].nodes : c.nodes[i].doc = c.nodes[j].doc => i = j
    BY <1>0, <1>1, <1>5, <1>8 DEF Shape
  <2>5. c.todo = DOMAIN thr[t].nodes /\ c.todo # {}
    BY <1>1, <1>2, <1>8
  <2>. QED
    BY <1>0, <1>8, <2>1, <2>2, <2>3, <2>4, <2>5 DEF Shape
<1>10. thr'[t] = c /\ Moves(t, c)
  BY <1>7, MovesFacts DEF Moves, Base
<1>. QED
  BY <1>0, <1>1, <1>4, <1>5, <1>6, <1>7, <1>8, <1>9, <1>10 DEF k

\* After its objects are written a call keeps its nodes.
LEMMA LaterShape ==
  ASSUME NEW b \in Calls, NEW c \in Calls, Shape(b), b.pc \in {"set", "sort", "read", "chain"},
         c.nodes = b.nodes, c.kind = b.kind, c.todo \subseteq DOMAIN b.nodes,
         \/ c.pc \in {"set", "sort"} /\ b.kind # "delete"
         \/ c.pc \in {"read", "chain"}
         \/ c.pc = "remove" /\ b.kind = "delete",
         c.pc \in {"set", "read", "chain"} => c.todo # {}
  PROVE  Shape(c)
<1>1. c.pc \notin {"idle", "prev", "seq", "write"} /\ b.pc \notin {"idle", "prev", "seq", "write"}
  OBVIOUS
<1>. QED
  BY <1>1 DEF Shape

\* The nodes, the kind and the place of a call that a later step leaves.
Stays(t) == thr'[t].nodes = thr[t].nodes /\ thr'[t].kind = thr[t].kind

\* What SetOne does to the call.
LEMMA SetOneStep ==
  ASSUME Base, NEW t \in Threads, NEW i, SetOne(t, i)
  PROVE  /\ thr[t].pc = "set" /\ i \in thr[t].todo /\ i \in DOMAIN thr[t].nodes /\ Stays(t)
         /\ thr'[t].todo = thr[t].todo \ {i} /\ thr'[t].seen = thr[t].seen
         /\ thr'[t].pc = IF thr[t].todo = {i} THEN "sort" ELSE "set"
         /\ Moves(t, thr'[t]) /\ thr'[t] \in Calls /\ Shape(thr'[t])
<1>0. thr[t] \in Calls /\ Shape(thr[t]) /\ thr[t].pc = "set" /\ i \in thr[t].todo
  BY NodesFacts DEF Base, Shapes, SetOne
<1>. DEFINE c == [thr[t] EXCEPT !.todo = thr[t].todo \ {i}, !.pc = IF thr[t].todo = {i} THEN "sort" ELSE "set"]
<1>1. /\ c \in Calls /\ c.nodes = thr[t].nodes /\ c.kind = thr[t].kind /\ c.todo = thr[t].todo \ {i}
      /\ c.seen = thr[t].seen /\ c.pc = IF thr[t].todo = {i} THEN "sort" ELSE "set"
  BY <1>0 DEF Calls
<1>2. thr' = [thr EXCEPT ![t] = c]
  BY Zenon DEF SetOne
<1>. HIDE DEF c
<1>3. c.todo \subseteq DOMAIN thr[t].nodes /\ i \in DOMAIN thr[t].nodes /\ thr[t].kind # "delete"
  BY <1>0, <1>1 DEF Shape
<1>4. c.pc = "set" => c.todo # {}
  BY <1>0, <1>1
<1>5. Shape(c)
  BY <1>0, <1>1, <1>3, <1>4, LaterShape
<1>6. thr'[t] = c /\ Moves(t, c)
  BY <1>2, MovesFacts DEF Moves, Base
<1>. QED
  BY <1>0, <1>1, <1>3, <1>5, <1>6 DEF Stays

\* What Sort does to the call.
LEMMA SortStep ==
  ASSUME Base, NEW t \in Threads, Sort(t)
  PROVE  /\ thr[t].pc = "sort" /\ thr[t].kind # "delete" /\ Stays(t)
         /\ thr'[t].todo = DOMAIN thr[t].nodes /\ thr'[t].seen = thr[t].seen
         /\ thr'[t].pc = "read"
         /\ Moves(t, thr'[t]) /\ thr'[t] \in Calls /\ Shape(thr'[t])
<1>0. thr[t] \in Calls /\ Shape(thr[t]) /\ thr[t].pc = "sort"
  BY NodesFacts DEF Base, Shapes, Sort
<1>. DEFINE c == [thr[t] EXCEPT !.pc = "read", !.todo = DOMAIN thr[t].nodes]
<1>1. DOMAIN thr[t].nodes \subseteq {1, 2} /\ DOMAIN thr[t].nodes # {} /\ thr[t].kind # "delete"
  <2>1. Len(thr[t].nodes) \in {1, 2} /\ DOMAIN thr[t].nodes = 1..Len(thr[t].nodes)
    BY <1>0, NodesFacts DEF Base, Shape
  <2>2. 1 \in DOMAIN thr[t].nodes /\ DOMAIN thr[t].nodes \subseteq {1, 2}
    BY <2>1, OneOrTwo
  <2>. QED
    BY <1>0, <2>2 DEF Shape
<1>2. /\ c \in Calls /\ c.nodes = thr[t].nodes /\ c.kind = thr[t].kind /\ c.todo = DOMAIN thr[t].nodes
      /\ c.seen = thr[t].seen /\ c.pc = "read"
  BY <1>0, <1>1 DEF Calls
<1>3. thr' = [thr EXCEPT ![t] = c]
  BY Zenon DEF Sort
<1>. HIDE DEF c
<1>4. Shape(c)
  BY <1>0, <1>1, <1>2, LaterShape
<1>5. thr'[t] = c /\ Moves(t, c)
  BY <1>3, MovesFacts DEF Moves, Base
<1>. QED
  BY <1>0, <1>1, <1>2, <1>4, <1>5 DEF Stays

\* What ReadHead does to the call.
LEMMA ReadHeadStep ==
  ASSUME Base, NEW t \in Threads, ReadHead(t)
  PROVE  /\ thr[t].pc = "read" /\ Stays(t)
         /\ thr'[t].todo = thr[t].todo /\ thr'[t].seen = head
         /\ thr'[t].pc = "chain"
         /\ Moves(t, thr'[t]) /\ thr'[t] \in Calls /\ Shape(thr'[t])
<1>0. thr[t] \in Calls /\ Shape(thr[t]) /\ thr[t].pc = "read" /\ head \in SUBSET Nat
  BY NodesFacts DEF Base, Shapes, ReadHead, TypeOK
<1>. DEFINE c == [thr[t] EXCEPT !.pc = "chain", !.seen = head]
<1>1. /\ c \in Calls /\ c.nodes = thr[t].nodes /\ c.kind = thr[t].kind /\ c.todo = thr[t].todo
      /\ c.seen = head /\ c.pc = "chain"
  BY <1>0 DEF Calls
<1>2. thr' = [thr EXCEPT ![t] = c]
  BY Zenon DEF ReadHead
<1>. HIDE DEF c
<1>3. c.todo \subseteq DOMAIN thr[t].nodes /\ c.todo # {}
  BY <1>0, <1>1 DEF Shape
<1>4. Shape(c)
  BY <1>0, <1>1, <1>3, LaterShape
<1>5. thr'[t] = c /\ Moves(t, c)
  BY <1>2, MovesFacts DEF Moves, Base
<1>. QED
  BY <1>0, <1>1, <1>4, <1>5 DEF Stays

\* The version of the call that Chain takes.
LEMMA NextToChain ==
  ASSUME Base, NEW t \in Threads, thr[t].pc = "chain"
  PROVE  /\ Min(thr[t].todo) \in thr[t].todo /\ Min(thr[t].todo) \in DOMAIN thr[t].nodes
         /\ Min(thr[t].todo) \in {1, 2}
<1>1. thr[t].todo # {} /\ thr[t].todo \subseteq {1, 2} /\ thr[t].todo \subseteq DOMAIN thr[t].nodes
  BY NodesFacts DEF Base, Shapes, Shape, Calls
<1>2. thr[t].todo \subseteq Nat
  BY <1>1
<1>. QED
  BY <1>1, <1>2, MinOfNaturals

\* What Chain does to the call: the next version, the end of a delete, or the return.
LEMMA ChainStep ==
  ASSUME Base, NEW t \in Threads, Chain(t), NEW i, i = Min(thr[t].todo)
  PROVE  /\ thr[t].pc = "chain" /\ i \in thr[t].todo /\ i \in DOMAIN thr[t].nodes
         /\ head' = thr[t].seen \cup {thr[t].nodes[i].n}
         /\ \/ /\ thr[t].todo # {i} /\ Stays(t) /\ latest' = latest
               /\ thr'[t].pc = "read" /\ thr'[t].todo = thr[t].todo \ {i}
            \/ /\ thr[t].todo = {i} /\ Stays(t) /\ latest' = latest /\ thr[t].kind = "delete"
               /\ thr'[t].pc = "remove" /\ thr'[t].todo = thr[t].todo
            \/ /\ thr[t].todo = {i} /\ thr[t].kind # "delete" /\ latest' = Returned(t)
               /\ thr'[t] = Resting
         /\ Moves(t, thr'[t]) /\ thr'[t] \in Calls /\ Shape(thr'[t])
<1>0. /\ thr[t] \in Calls /\ Shape(thr[t]) /\ thr[t].pc = "chain" /\ i \in thr[t].todo /\ i \in DOMAIN thr[t].nodes
      /\ thr[t].todo \subseteq DOMAIN thr[t].nodes
      /\ head' = thr[t].seen \cup {thr[t].nodes[i].n}
  BY NodesFacts, NextToChain DEF Base, Shapes, Chain, Chained, Shape
<1>1. /\ thr' = [thr EXCEPT ![t] =
           IF thr[t].todo # {i} THEN [thr[t] EXCEPT !.pc = "read", !.todo = thr[t].todo \ {i}, !.seen = {}]
           ELSE IF thr[t].kind = "delete" THEN [thr[t] EXCEPT !.pc = "remove"] ELSE Resting]
      /\ latest' = IF thr[t].todo = {i} /\ thr[t].kind # "delete" THEN Returned(t) ELSE latest
  BY Zenon DEF Chain
<1>2. CASE thr[t].todo # {i}
  <2>. DEFINE c == [thr[t] EXCEPT !.pc = "read", !.todo = thr[t].todo \ {i}, !.seen = {}]
  <2>1. /\ c \in Calls /\ c.nodes = thr[t].nodes /\ c.kind = thr[t].kind /\ c.todo = thr[t].todo \ {i}
        /\ c.pc = "read"
    BY <1>0 DEF Calls
  <2>2. thr' = [thr EXCEPT ![t] = c] /\ latest' = latest
    BY <1>1, <1>2, Zenon
  <2>. HIDE DEF c
  <2>3. c.todo \subseteq DOMAIN thr[t].nodes /\ c.todo # {}
    BY <1>0, <1>2, <2>1
  <2>4. Shape(c)
    BY <1>0, <2>1, <2>3, LaterShape
  <2>5. thr'[t] = c /\ Moves(t, c)
    BY <2>2, MovesFacts DEF Moves, Base
  <2>. QED
    BY <1>0, <1>2, <2>1, <2>2, <2>4, <2>5 DEF Stays
<1>3. CASE thr[t].todo = {i} /\ thr[t].kind = "delete"
  <2>. DEFINE c == [thr[t] EXCEPT !.pc = "remove"]
  <2>1. c \in Calls /\ c.nodes = thr[t].nodes /\ c.kind = thr[t].kind /\ c.todo = thr[t].todo /\ c.pc = "remove"
    BY <1>0 DEF Calls
  <2>2. thr' = [thr EXCEPT ![t] = c] /\ latest' = latest
    BY <1>1, <1>3, Zenon
  <2>. HIDE DEF c
  <2>3. Shape(c)
    BY <1>0, <1>3, <2>1, LaterShape
  <2>4. thr'[t] = c /\ Moves(t, c)
    BY <2>2, MovesFacts DEF Moves, Base
  <2>. QED
    BY <1>0, <1>3, <2>1, <2>2, <2>3, <2>4 DEF Stays
<1>4. CASE thr[t].todo = {i} /\ thr[t].kind # "delete"
  <2>1. thr' = [thr EXCEPT ![t] = Resting] /\ latest' = Returned(t)
    BY <1>1, <1>4, Zenon
  <2>2. thr'[t] = Resting /\ Moves(t, Resting)
    BY <2>1, MovesFacts DEF Moves, Base
  <2>. QED
    BY <1>0, <1>4, <2>1, <2>2, RestingFacts
<1>. QED
  BY <1>2, <1>3, <1>4

\* What Remove does to the call.
LEMMA RemoveStep ==
  ASSUME Base, NEW t \in Threads, Remove(t)
  PROVE  /\ thr[t].pc = "remove" /\ thr[t].kind = "delete" /\ DOMAIN thr[t].nodes = {1}
         /\ thr'[t] = Resting
         /\ Moves(t, thr'[t]) /\ thr'[t] \in Calls /\ Shape(thr'[t])
<1>0. thr[t] \in Calls /\ Shape(thr[t]) /\ thr[t].pc = "remove" /\ thr' = [thr EXCEPT ![t] = Resting]
  BY NodesFacts, Zenon DEF Base, Shapes, Remove
<1>1. thr[t].kind = "delete" /\ Len(thr[t].nodes) = 1
  BY <1>0 DEF Shape
<1>2. DOMAIN thr[t].nodes = {1}
  BY <1>1, NodesFacts DEF Base
<1>3. thr'[t] = Resting /\ Moves(t, Resting)
  BY <1>0, MovesFacts DEF Moves, Base
<1>. QED
  BY <1>0, <1>1, <1>2, <1>3, RestingFacts

-----------------------------------------------------------------------------
(* Steps, and the proof that they keep types and shapes.                    *)

Begins(t) ==
  \E kind \in {"put", "batch", "delete"}, ds \in Seq(Docs), has \in Seq(BOOLEAN) :
    Arguments(kind, ds, has) /\ Call(t, kind, ds, has)

CallActs(t) ==
  \/ Begins(t) \/ ReadPrev(t) \/ TakeSeq(t) \/ WriteObjects(t) \/ (\E i \in {1, 2} : SetOne(t, i))
  \/ Sort(t) \/ ReadHead(t) \/ Chain(t) \/ Remove(t)

Collects == \E kind \in {"tick", "flush_all", "compact"} : Collect(kind)

\* The steps of Next.
LEMMA StepCases ==
  ASSUME [Next]_vars
  PROVE  \/ \E t \in Threads : CallActs(t)
         \/ CreateSortedIndex \/ Collects
         \/ WriteFiles \/ Clear \/ ReadSeq \/ WriteManifest \/ Live \/ Drop
         \/ Crash \/ WarmStart \/ ColdStart \/ ScanRead \/ ScanSeq \/ ScanHead \/ ScanManifest
         \/ UNCHANGED vars
<1>0. \A has \in Fields : has \in Seq(BOOLEAN)
  BY FieldsAssumption
<1>1. ASSUME NEW t \in Threads, NEW d \in Docs, NEW has \in Fields, Len(has) = 1, Call(t, "put", << d >>, has)
      PROVE CallActs(t)
  <2>1. << d >> \in Seq(Docs) /\ has \in Seq(BOOLEAN) /\ Arguments("put", << d >>, has)
    BY <1>0, <1>1, OneArgument
  <2>. QED
    BY <1>1, <2>1, Zenon DEF CallActs, Begins
<1>2. ASSUME NEW t \in Threads, NEW d \in Docs, Call(t, "delete", << d >>, << FALSE >>) PROVE CallActs(t)
  <2>1. << d >> \in Seq(Docs) /\ << FALSE >> \in Seq(BOOLEAN) /\ Len(<< FALSE >>) = 1
    OBVIOUS
  <2>2. Arguments("delete", << d >>, << FALSE >>)
    BY <2>1, OneArgument
  <2>. QED
    BY <1>2, <2>1, <2>2, Zenon DEF CallActs, Begins
<1>3. ASSUME NEW t \in Threads, NEW d \in Docs, NEW e \in Docs, d # e, NEW has \in Fields, Len(has) = 2,
             Call(t, "batch", << d, e >>, has)
      PROVE CallActs(t)
  <2>1. << d, e >> \in Seq(Docs) /\ has \in Seq(BOOLEAN) /\ Arguments("batch", << d, e >>, has)
    BY <1>0, <1>3, TwoArguments
  <2>. QED
    BY <1>3, <2>1, Zenon DEF CallActs, Begins
<1>. QED
  BY <1>1, <1>2, <1>3, Zenon DEF Next, CallActs, Collects

\* A step of a call is taken in a process that runs, and leaves it where it is; only a seq
\* taken before the scan has set it is behind.
LEMMA CallKeepsUp ==
  ASSUME Base, NEW t \in Threads, CallActs(t)
  PROVE  /\ up # "down" /\ up' = up /\ job' = job /\ file' = file /\ fill' = fill
         /\ listed' = listed /\ dir' = dir
         /\ manifest' = manifest /\ crashes' = crashes
         /\ (~TakeSeq(t) => behind' = behind) /\ (behind => behind')
         /\ unsure \subseteq unsure'
<1>1. thr[t].pc # "idle" => up # "down"
  BY DEF Base, Shapes
<1>2. CASE Begins(t)
  BY <1>2 DEF Begins, Call
<1>3. CASE ReadPrev(t)
  BY <1>1, <1>3 DEF ReadPrev
<1>4. CASE TakeSeq(t)
  <2>1. behind => behind'
    BY <1>4, Zenon DEF TakeSeq
  <2>. QED
    BY <1>1, <1>4, <2>1 DEF TakeSeq
<1>5. CASE WriteObjects(t)
  BY <1>1, <1>5 DEF WriteObjects
<1>6. CASE \E i \in {1, 2} : SetOne(t, i)
  BY <1>1, <1>6 DEF SetOne, SetPointer
<1>7. CASE Sort(t)
  BY <1>1, <1>7 DEF Sort
<1>8. CASE ReadHead(t)
  BY <1>1, <1>8 DEF ReadHead, state
<1>9. CASE Chain(t)
  BY <1>1, <1>9 DEF Chain
<1>10. CASE Remove(t)
  BY <1>1, <1>10 DEF Remove, Removed, SetPointer
<1>. QED
  BY <1>2, <1>3, <1>4, <1>5, <1>6, <1>7, <1>8, <1>9, <1>10 DEF CallActs

\* A step of a call leaves it with a call of a shape.
LEMMA CallMoves ==
  ASSUME Base, NEW t \in Threads, CallActs(t)
  PROVE  /\ Moves(t, thr'[t]) /\ thr'[t] \in Calls /\ Shape(thr'[t])
         /\ up # "ready" => thr'[t].pc = "idle" \/ thr'[t].kind = "delete"
<1>0. up # "ready" => thr[t].pc = "idle" \/ thr[t].kind = "delete"
  BY DEF Base, Shapes
<1>1. CASE Begins(t)
  <2>1. PICK kind \in {"put", "batch", "delete"}, ds \in Seq(Docs), has \in Seq(BOOLEAN) :
          Arguments(kind, ds, has) /\ Call(t, kind, ds, has)
    BY <1>1 DEF Begins
  <2>2. up # "ready" => kind = "delete"
    BY <2>1 DEF Call
  <2>. QED
    BY <2>1, <2>2, CallStep
<1>2. CASE \E i \in {1, 2} : SetOne(t, i)
  BY <1>0, <1>2, SetOneStep DEF Stays
<1>3. CASE Chain(t)
  BY <1>0, <1>3, ChainStep, RestingFacts DEF Stays
<1>4. CASE ReadPrev(t)
  BY <1>0, <1>4, ReadPrevStep, RestingFacts
<1>5. CASE TakeSeq(t)
  BY <1>0, <1>5, TakeSeqStep
<1>6. CASE WriteObjects(t)
  BY <1>0, <1>6, WriteObjectsStep
<1>7. CASE Sort(t) \/ ReadHead(t) \/ Remove(t)
  BY <1>0, <1>7, SortStep, ReadHeadStep, RemoveStep, RestingFacts DEF Stays
<1>. QED
  BY <1>1, <1>2, <1>3, <1>4, <1>5, <1>6, <1>7 DEF CallActs

\* The current version of a document.
LEMMA CurrentType ==
  ASSUME TypeOK, NEW d \in Docs
  PROVE  Current(d) \in Pointers
BY DEF Current, TypeOK, Pointers

\* What a step of a call writes has its type.
LEMMA CallTypes ==
  ASSUME Base, NEW t \in Threads, CallActs(t)
  PROVE  /\ objects' \subseteq Nodes /\ buf' \in [Docs -> Pointers \cup {NONE}] /\ sorted' \subseteq Nat
         /\ seq' \in Nat /\ head' \subseteq Nat /\ dirty' \in BOOLEAN /\ events' \in Nat /\ born' \in Nat
         /\ latest' \in [Docs -> Pointers] /\ unsure' \subseteq Docs
         /\ behind' \in BOOLEAN /\ headUnsure' \in BOOLEAN
<1>0. /\ objects \subseteq Nodes /\ buf \in [Docs -> Pointers \cup {NONE}] /\ sorted \subseteq Nat
      /\ seq \in Nat /\ head \subseteq Nat /\ dirty \in BOOLEAN /\ events \in Nat /\ born \in Nat
      /\ latest \in [Docs -> Pointers] /\ unsure \subseteq Docs
      /\ behind \in BOOLEAN /\ headUnsure \in BOOLEAN
  BY DEF Base, TypeOK
<1>1. /\ thr[t] \in Calls /\ Len(thr[t].nodes) \in Nat
      /\ \A i \in DOMAIN thr[t].nodes : thr[t].nodes[i] \in Nodes
  BY NodesFacts DEF Base
<1>2. Written(t) \subseteq Docs
  BY <1>1 DEF Written, Nodes
<1>3. CASE Begins(t)
  <2>1. PICK kind \in {"put", "batch", "delete"}, ds \in Seq(Docs), has \in Seq(BOOLEAN) :
          Arguments(kind, ds, has) /\ Call(t, kind, ds, has)
    BY <1>3 DEF Begins
  <2>2. Len(ds) \in Nat /\ \A i \in DOMAIN ds : ds[i] \in Docs
    BY LenProperties, ElementOfSeq
  <2>3. seq' \in Nat
    BY <1>0, <2>1, <2>2 DEF Call, Reserved
  <2>4. unsure' \subseteq Docs
    BY <1>0, <2>1, <2>2 DEF Call
  <2>. QED
    BY <1>0, <2>1, <2>3, <2>4 DEF Call
<1>4. CASE ReadPrev(t)
  BY <1>0, <1>4 DEF ReadPrev
<1>5. CASE TakeSeq(t)
  BY <1>0, <1>5 DEF TakeSeq
<1>6. CASE WriteObjects(t)
  <2>1. objects' \subseteq Nodes /\ born' \in Nat
    BY <1>0, <1>1, <1>6, WriteObjectsStep
  <2>. QED
    BY <1>0, <1>2, <1>6, <2>1 DEF WriteObjects
<1>7. CASE \E i \in {1, 2} : SetOne(t, i)
  <2>1. PICK i \in {1, 2} : SetOne(t, i)
    BY <1>7
  <2>2. thr[t].nodes[i] \in Nodes
    BY <1>1, <2>1, SetOneStep
  <2>3. thr[t].nodes[i].doc \in Docs /\ thr[t].nodes[i].n \in Nat
    BY <2>2 DEF Nodes
  <2>4. unsure' \subseteq Docs /\ buf' \in [Docs -> Pointers \cup {NONE}]
    BY <1>0, <2>1, <2>3 DEF SetOne, SetPointer, Pointers
  <2>. QED
    BY <1>0, <2>1, <2>4 DEF SetOne
<1>8. CASE Sort(t)
  <2>1. SortedNew(t) \subseteq Nat
    BY <1>1 DEF SortedNew, WithField, Nodes
  <2>. QED
    BY <1>0, <1>8, <2>1 DEF Sort
<1>9. CASE ReadHead(t)
  BY <1>0, <1>9 DEF ReadHead, state
<1>10. CASE Chain(t)
  <2>. DEFINE i == Min(thr[t].todo)
  <2>1. /\ i \in DOMAIN thr[t].nodes /\ head' = thr[t].seen \cup {thr[t].nodes[i].n}
        /\ latest' = latest \/ (latest' = Returned(t) /\ thr[t].todo = {i})
    BY <1>10, ChainStep
  <2>2. thr[t].nodes[i].n \in Nat /\ thr[t].seen \subseteq Nat
    BY <1>1, <2>1 DEF Nodes, Calls
  <2>3. Returned(t) \in [Docs -> Pointers]
    <3>. DEFINE S(d) == {thr[t].nodes[j].n : j \in {x \in DOMAIN thr[t].nodes : thr[t].nodes[x].doc = d}}
    <3>1. ASSUME NEW d \in Docs, d \in Written(t) PROVE Max(S(d)) \in Nat
      <4>1. S(d) # {} /\ S(d) \subseteq Nat
        BY <1>1, <3>1 DEF Written, Nodes
      <4>2. PICK b \in Nat : \A j \in 1..Len(thr[t].nodes) : [j0 \in 1..Len(thr[t].nodes) |-> thr[t].nodes[j0].n][j] <= b
        <5>1. \A j \in 1..Len(thr[t].nodes) : thr[t].nodes[j].n \in Nat
          BY <1>1, NodesFacts DEF Nodes, Base
        <5>. QED
          BY <1>1, <5>1, BoundedNaturals
      <4>3. \A y \in S(d) : y <= b
        BY <4>2, NodesFacts DEF Base
      <4>. HIDE DEF S
      <4>. QED
        BY <4>1, <4>3, MaxOfNaturals
    <3>2. Returned(t) = [d \in Docs |-> IF d \in Written(t) THEN Max(S(d)) ELSE latest[d]]
      BY DEF Returned
    <3>. HIDE DEF S
    <3>. QED
      BY <1>0, <3>1, <3>2 DEF Pointers
  <2>. QED
    BY <1>0, <1>10, <2>1, <2>2, <2>3 DEF Chain
<1>11. CASE Remove(t)
  <2>1. thr[t].nodes[1].doc \in Docs
    BY <1>1, <1>11, RemoveStep DEF Nodes
  <2>2. unsure' \subseteq Docs /\ buf' \in [Docs -> Pointers \cup {NONE}] /\ latest' \in [Docs -> Pointers]
    BY <1>0, <1>11, <2>1 DEF Remove, Removed, SetPointer, Pointers
  <2>. QED
    BY <1>0, <1>11, <2>2 DEF Remove
<1>. QED
  BY <1>3, <1>4, <1>5, <1>6, <1>7, <1>8, <1>9, <1>10, <1>11 DEF CallActs

\* Types and shapes after a step of a call.
LEMMA CallBase ==
  ASSUME Base, NEW t \in Threads, CallActs(t)
  PROVE  Base'
<1>1. /\ up # "down" /\ up' = up /\ job' = job /\ file' = file /\ fill' = fill
      /\ listed' = listed /\ dir' = dir
      /\ manifest' = manifest /\ crashes' = crashes
  BY CallKeepsUp
<1>2. /\ Moves(t, thr'[t]) /\ thr'[t] \in Calls /\ Shape(thr'[t])
      /\ up # "ready" => thr'[t].pc = "idle" \/ thr'[t].kind = "delete"
  BY CallMoves
<1>3. /\ thr' \in [Threads -> Calls]
      /\ \A s \in Threads : Shape(thr'[s])
      /\ up' # "ready" => \A s \in Threads : thr'[s].pc = "idle" \/ thr'[s].kind = "delete"
  BY <1>1, <1>2, MovesShape
<1>4. TypeOK'
  BY <1>1, <1>3, CallTypes DEF TypeOK, Base
<1>5. \E b \in Nat : \A o \in objects' : o.seq <= b
  <2>1. PICK b \in Nat : \A o \in objects : o.seq <= b
    BY DEF Base, Shapes
  <2>2. CASE WriteObjects(t)
    <3>. DEFINE f == [i \in 1..Len(thr[t].nodes) |-> thr[t].nodes[i].seq]
    <3>1. Len(thr[t].nodes) \in Nat /\ \A i \in 1..Len(thr[t].nodes) : f[i] \in Nat
      BY NodesFacts DEF Base, Nodes
    <3>2. PICK a \in Nat : \A i \in 1..Len(thr[t].nodes) : f[i] <= a
      <4>. HIDE DEF f
      <4>. QED
        BY <3>1, BoundedNaturals
    <3>3. \A o \in objects' : o \in objects \/ \E i \in 1..Len(thr[t].nodes) : o.seq = f[i]
      BY <2>2, WriteObjectsStep
    <3>4. \A o \in objects : o.seq \in Nat
      BY DEF Base, TypeOK, Nodes
    <3>5. \A o \in objects' : o.seq <= a + b
      <4>. HIDE DEF f
      <4>. QED
        BY <2>1, <3>1, <3>2, <3>3, <3>4
    <3>. QED
      BY <3>5
  <2>3. CASE ~WriteObjects(t)
    <3>1. objects' = objects
      BY <2>3 DEF CallActs, Begins, Call, ReadPrev, TakeSeq, SetOne, Sort, ReadHead, Chain, Remove, state
    <3>. QED
      BY <2>1, <3>1
  <2>. QED
    BY <2>2, <2>3
<1>6. objects \subseteq objects'
  BY DEF CallActs, Begins, Call, ReadPrev, TakeSeq, WriteObjects, SetOne, Sort, ReadHead, Chain, Remove, state
<1>. QED
  BY <1>1, <1>3, <1>4, <1>5, <1>6 DEF Base, Shapes

\* The scan, under way.
Scanning == {"cold", "read", "numbered", "headed"}

\* Calls are not disturbed by the other steps, but for a crash.
Aside ==
  /\ thr' = thr /\ (up' = "ready" \/ up' = up \/ (up' = "cold" /\ up = "down") \/ {up, up'} \subseteq Scanning)
  /\ up' = "down" => job' = job
  /\ objects' = objects \/ (objects' \subseteq objects /\ up = "ready" /\ up' = "ready")
  /\ job'.pc \in {"live", "drop"} => job'.kind = "compact"
  /\ job'.kind = "compact" => up' = "ready"
  /\ \/ listed' = listed
     \/ up = "cold" /\ up' = "read" /\ listed' = objects /\ objects' = objects
     \/ up' = "ready" /\ listed' = {}
  /\ up' = "cold" => objects' # {}
  /\ up' \in {"read", "numbered", "headed"} => listed' # {}
  /\ up' \in {"down", "ready"} => listed' = {}

\* Shapes after a step that leaves the calls.
LEMMA AsideShapes ==
  ASSUME Shapes, Aside
  PROVE  Shapes'
<1>1. /\ \A t \in Threads : Shape(thr'[t])
      /\ up' = "down" => job'.pc = "idle" /\ \A t \in Threads : thr'[t].pc = "idle"
  BY DEF Shapes, Aside, Scanning
<1>2. up' # "ready" => \A t \in Threads : thr'[t].pc = "idle" \/ thr'[t].kind = "delete"
  BY DEF Shapes, Aside, Scanning
<1>3. listed' \subseteq objects' /\ objects' \subseteq objects
  BY DEF Shapes, Aside
<1>4. \E b \in Nat : \A o \in objects' : o.seq <= b
  BY <1>3 DEF Shapes
<1>. QED
  BY <1>1, <1>2, <1>3, <1>4 DEF Shapes, Aside

\* Steps that change neither how far the process is nor what the scan has read.
LEMMA PlainAside ==
  ASSUME Shapes, thr' = thr, up' = up, listed' = listed, objects' = objects, up = "down" => job' = job,
         job'.pc \in {"live", "drop"} => job'.kind = "compact", job'.kind = "compact" => up = "ready"
  PROVE  Aside
BY DEF Shapes, Aside

\* What the scan finds is the greatest seq of the objects it has read.
LEMMA MaxSeqFacts ==
  ASSUME Base, listed # {}
  PROVE  MaxSeq \in Nat /\ (\A o \in listed : o.seq <= MaxSeq) /\ \E o \in listed : o.seq = MaxSeq
<1>. DEFINE S == {o.seq : o \in listed}
<1>1. S \subseteq Nat /\ S # {} /\ \E b \in Nat : \A y \in S : y <= b
  BY DEF Base, TypeOK, Shapes, Nodes
<1>2. Max(S) \in S /\ \A y \in S : Max(S) >= y
  <2>. HIDE DEF S
  <2>. QED
    BY <1>1, MaxOfNaturals
<1>3. MaxSeq = Max(S)
  BY DEF MaxSeq
<1>4. MaxSeq \in S /\ (\A y \in S : y <= MaxSeq) /\ MaxSeq \in Nat
  <2>. HIDE DEF S
  <2>. QED
    BY <1>1, <1>2, <1>3
<1>. QED
  BY <1>4

\* Types and shapes after a step of maintenance, a crash or a start.
LEMMA OtherBase ==
  ASSUME Base,
         \/ CreateSortedIndex \/ Collects \/ WriteFiles \/ Clear \/ ReadSeq \/ WriteManifest
         \/ Live \/ Drop \/ Crash \/ WarmStart \/ ColdStart
         \/ ScanRead \/ ScanSeq \/ ScanHead \/ ScanManifest \/ UNCHANGED vars
  PROVE  Base'
<1>0. /\ TypeOK /\ job \in Jobs /\ fill \in Fills /\ buf \in [Docs -> Pointers \cup {NONE}]
      /\ \A d \in Docs : Current(d) \in Pointers
  BY CurrentType DEF Base, TypeOK
<1>1. NoJob \in Jobs /\ NoIndex \in Fills
  BY DEF NoJob, NoIndex, Jobs, Fills
<1>2. CASE CreateSortedIndex
  <2>1. fill' \in Fills /\ sorted' \subseteq Nat /\ events' \in Nat
    <3>1. CASE Ensure
      <4>. DEFINE S == {d \in Docs : file[d] # NIL}
      <4>1. fill' = [fill EXCEPT !.pc = "buffer", !.ids = S] /\ S \in SUBSET Docs
        BY <3>1 DEF Ensure
      <4>. HIDE DEF S
      <4>2. fill' \in Fills
        BY <1>0, <4>1 DEF Fills
      <4>. QED
        BY <1>0, <3>1, <4>2 DEF Ensure, TypeOK
    <3>2. CASE ListBuffer
      <4>. DEFINE S == {d \in Docs : buf[d] # NIL /\ (d \in fill.ids \/ buf[d] # NONE)}
      <4>1. fill' = [fill EXCEPT !.pc = "fill", !.ids = S] /\ S \in SUBSET Docs
        BY <3>2 DEF ListBuffer
      <4>. HIDE DEF S
      <4>2. fill' \in Fills
        BY <1>0, <4>1 DEF Fills
      <4>. QED
        BY <1>0, <3>2, <4>2 DEF ListBuffer, TypeOK
    <3>3. CASE \E d \in Docs : FillOne(d)
      <4>1. PICK d \in Docs : FillOne(d)
        BY <3>3
      <4>2. /\ fill' = [fill EXCEPT !.ids = fill.ids \ {d}] /\ events' = events
            /\ sorted' = sorted \cup WithField({o \in objects : o.n = Current(d)})
        BY <4>1 DEF FillOne
      <4>3. WithField({o \in objects : o.n = Current(d)}) \subseteq Nat
        BY <1>0 DEF WithField, TypeOK, Nodes
      <4>4. fill' \in Fills
        BY <1>0, <4>2 DEF Fills
      <4>. QED
        BY <1>0, <4>2, <4>3, <4>4 DEF TypeOK
    <3>. QED
      BY <1>2, <3>1, <3>2, <3>3 DEF CreateSortedIndex
  <2>2. TypeOK' /\ Aside
    BY <1>2, <2>1 DEF CreateSortedIndex, TypeOK, Base, Aside, Shapes
  <2>. QED
    BY <2>2, AsideShapes DEF Base
<1>3. CASE Collects
  <2>1. job' \in Jobs /\ events' \in Nat
    <3>1. PICK kind \in {"tick", "flush_all", "compact"} : Collect(kind)
      BY <1>3 DEF Collects
    <3>2. [NoJob EXCEPT !.pc = "files", !.kind = kind, !.got = buf] \in Jobs
      BY <1>0, <1>1 DEF Jobs
    <3>. QED
      BY <1>0, <3>1, <3>2 DEF Collect, TypeOK
  <2>2. TypeOK' /\ Aside
    BY <1>3, <2>1 DEF Collects, Collect, state, TypeOK, Base, Aside, Shapes
  <2>. QED
    BY <2>2, AsideShapes DEF Base
<1>4. CASE WriteFiles
  <2>1. job' \in Jobs
    BY <1>0, <1>4 DEF WriteFiles, Jobs
  <2>2. file' \in [Docs -> Pointers]
    BY <1>0, <1>4 DEF WriteFiles, Flushed, Jobs, TypeOK
  <2>3. TypeOK' /\ Aside
    BY <1>4, <2>1, <2>2 DEF WriteFiles, TypeOK, Base, Aside, Shapes
  <2>. QED
    BY <2>3, AsideShapes DEF Base
<1>5. CASE Clear
  <2>1. job' \in Jobs
    BY <1>0, <1>1, <1>5 DEF Clear, Jobs
  <2>2. buf' \in [Docs -> Pointers \cup {NONE}]
    BY <1>0, <1>5 DEF Clear
  <2>3. fill' \in Fills
    BY <1>0, <1>5 DEF Clear, Fills
  <2>4. TypeOK' /\ Aside
    BY <1>5, <2>1, <2>2, <2>3 DEF Clear, TypeOK, Base, Aside, Shapes
  <2>. QED
    BY <2>4, AsideShapes DEF Base
<1>6. CASE ReadSeq
  <2>1. job' \in Jobs /\ dirty' \in BOOLEAN
    BY <1>0, <1>1, <1>6 DEF ReadSeq, Jobs, TypeOK
  <2>2. TypeOK'
    BY <1>6, <2>1 DEF ReadSeq, TypeOK, Base
  <2>3. job' = NoJob \/ (job'.pc = "rename" /\ job'.kind = job.kind)
    BY <1>0, <1>6 DEF ReadSeq, Jobs
  <2>4. Aside
    BY <1>6, <2>3, PlainAside DEF ReadSeq, Base, NoJob, Shapes
  <2>. QED
    BY <2>2, <2>4, AsideShapes DEF Base
<1>7. CASE WriteManifest
  <2>1. job' \in Jobs
    BY <1>0, <1>1, <1>7 DEF WriteManifest, Jobs
  <2>2. manifest' \subseteq [seq : Nat, head : SUBSET Nat]
    BY <1>0, <1>7 DEF WriteManifest, Jobs, TypeOK
  <2>3. TypeOK'
    BY <1>7, <2>1, <2>2 DEF WriteManifest, TypeOK, Base
  <2>4. job' = NoJob \/ (job'.pc = "live" /\ job'.kind = job.kind /\ job.kind = "compact")
    BY <1>0, <1>7 DEF WriteManifest, Jobs
  <2>5. Aside
    BY <1>7, <2>4, PlainAside DEF WriteManifest, Base, NoJob, Shapes
  <2>. QED
    BY <2>3, <2>5, AsideShapes DEF Base
<1>8. CASE Live
  <2>1. {Current(d) : d \in {x \in Docs : Visible(x)}} \subseteq Pointers
    BY <1>0
  <2>2. job' \in Jobs
    BY <1>0, <1>8, <2>1 DEF Live, Jobs
  <2>3. unsure' \subseteq Docs
    <3>1. \A t \in Threads : Written(t) \subseteq Docs
      BY <1>0, NodesFacts DEF Written, Nodes
    <3>3. unsure \subseteq Docs
      BY <1>0 DEF TypeOK
    <3>. DEFINE U == UNION {Written(t) : t \in {s \in Threads : Halfway(s)}}
                S == {d \in Docs : ~Visible(d) /\ Current(d) # NIL}
    <3>4. U \subseteq Docs /\ S \subseteq Docs
      BY <3>1
    <3>5. unsure' = unsure \cup U \cup S
      BY <1>8, Zenon DEF Live, U, S
    <3>. HIDE DEF U, S
    <3>. QED
      BY <3>3, <3>4, <3>5
  <2>4. TypeOK' /\ Aside
    BY <1>8, <2>2, <2>3 DEF Live, state, TypeOK, Base, Aside, Shapes
  <2>. QED
    BY <2>4, AsideShapes DEF Base
<1>9. CASE Drop
  <2>1. objects' \subseteq objects /\ job' \in Jobs /\ job' = NoJob
    BY <1>1, <1>9 DEF Drop, Kept
  <2>2. up = "ready" /\ NoJob.pc = "idle" /\ NoJob.kind = "none"
    BY <1>9 DEF Drop, Base, Shapes, NoJob
  <2>3. TypeOK' /\ Aside
    BY <1>9, <2>1, <2>2 DEF Drop, TypeOK, Base, Aside, Shapes
  <2>. QED
    BY <2>3, AsideShapes DEF Base
<1>10. CASE Crash
  <2>1. thr' \in [Threads -> Calls] /\ \A t \in Threads : Shape(thr'[t]) /\ thr'[t].pc = "idle"
    BY <1>10, RestingFacts DEF Crash
  <2>2. /\ buf' \in [Docs -> Pointers \cup {NONE}] /\ unsure' \subseteq Docs /\ crashes' \in Nat
        /\ behind' \in BOOLEAN /\ headUnsure' \in BOOLEAN
    BY <1>0, <1>10 DEF Crash, TypeOK
  <2>3. TypeOK'
    BY <1>0, <1>1, <1>10, <2>1, <2>2 DEF Crash, TypeOK
  <2>. QED
    <3>1. up' = "down" /\ job' = NoJob /\ objects' = objects /\ listed' = {}
      BY <1>10 DEF Crash
    <3>2. NoJob.pc = "idle" /\ NoJob.kind = "none"
      BY DEF NoJob
    <3>. QED
      BY <2>1, <2>3, <3>1, <3>2 DEF Base, Shapes
<1>11. CASE WarmStart
  <2>1. TypeOK' /\ Aside
    BY <1>11 DEF WarmStart, TypeOK, Base, Aside, Shapes
  <2>. QED
    BY <2>1, AsideShapes DEF Base
<1>12. CASE ColdStart
  <2>1. TypeOK' /\ Aside
    BY <1>12 DEF ColdStart, state, TypeOK, Base, Aside, Shapes
  <2>. QED
    BY <2>1, AsideShapes DEF Base
<1>13. CASE ScanRead \/ ScanSeq \/ ScanHead
  <2>1. listed' \subseteq Nodes /\ seq' \in Nat /\ head' \subseteq Nat /\ sorted' \subseteq Nat
    <3>1. objects \subseteq Nodes /\ listed \subseteq Nodes /\ WithField(listed) \subseteq Nat
      BY <1>0 DEF TypeOK, WithField, Nodes
    <3>2. up = "read" => MaxSeq \in Nat
      BY MaxSeqFacts DEF Base, Shapes
    <3>3. {o.n : o \in listed} \subseteq Nat
      BY <3>1 DEF Nodes
    <3>4. CASE ScanRead
      BY <1>0, <3>1, <3>4 DEF ScanRead, TypeOK
    <3>5. CASE ScanSeq
      BY <1>0, <3>1, <3>2, <3>5 DEF ScanSeq, NextSeq, TypeOK
    <3>6. CASE ScanHead
      BY <1>0, <3>1, <3>3, <3>6 DEF ScanHead, TypeOK
    <3>. QED
      BY <1>13, <3>4, <3>5, <3>6
  <2>2. headUnsure' \in BOOLEAN
    BY <1>0, <1>13 DEF ScanRead, ScanSeq, ScanHead, TypeOK
  <2>3. TypeOK'
    BY <1>0, <1>13, <2>1, <2>2 DEF ScanRead, ScanSeq, ScanHead, TypeOK
  <2>4. Aside
    BY <1>13 DEF ScanRead, ScanSeq, ScanHead, Base, Aside, Shapes, Scanning
  <2>. QED
    BY <2>3, <2>4, AsideShapes DEF Base
<1>14. CASE ScanManifest
  <2>1. manifest' \subseteq [seq : Nat, head : SUBSET Nat]
    <3>1. MaxSeq \in Nat
      BY <1>14, MaxSeqFacts DEF ScanManifest, Base, Shapes
    <3>2. {o.n : o \in listed} \subseteq Nat
      BY <1>0 DEF TypeOK, Nodes
    <3>. QED
      BY <1>14, <3>1, <3>2 DEF ScanManifest
  <2>2. TypeOK' /\ Aside
    BY <1>14, <2>1 DEF ScanManifest, TypeOK, Base, Aside, Shapes
  <2>. QED
    BY <2>2, AsideShapes DEF Base
<1>15. CASE UNCHANGED vars
  BY <1>15 DEF vars, state, Base, TypeOK, Shapes
<1>. QED
  BY <1>2, <1>3, <1>4, <1>5, <1>6, <1>7, <1>8, <1>9, <1>10, <1>11, <1>12, <1>13, <1>14, <1>15

\* Types and shapes at the start.
LEMMA InitBase == Init => Base
<1>. SUFFICES ASSUME Init PROVE Base
  OBVIOUS
<1>1. NoJob \in Jobs /\ NoIndex \in Fills /\ NoJob.pc = "idle" /\ NoJob.kind = "none"
  BY DEF NoJob, NoIndex, Jobs, Fills
<1>2. thr \in [Threads -> Calls] /\ \A t \in Threads : Shape(thr[t]) /\ thr[t].pc = "idle"
  BY RestingFacts DEF Init
<1>3. TypeOK
  BY <1>1, <1>2 DEF Init, TypeOK, Pointers
<1>. QED
  BY <1>1, <1>2, <1>3 DEF Init, Base, Shapes

\* Types and shapes after every step.
LEMMA NextBase == Base /\ [Next]_vars => Base'
BY StepCases, CallBase, OtherBase

-----------------------------------------------------------------------------
(* Seqs.                                                                    *)

\* The call has its seqs, and its objects are not written yet.
Assigned(t) == thr[t].pc = "write" \/ (thr[t].pc = "prev" /\ thr[t].kind # "delete")

\* Seqs below the next one are spoken for: by an object, or by one node of one call.  Before
\* the scan has set seq no call has taken one, so that what it has read stays what there is.
SeqHeld ==
  /\ up \in {"ready", "numbered", "headed"} => \A o \in objects : o.seq < seq
  /\ up \in {"cold", "read"} => \A t \in Threads : ~Assigned(t)
  /\ up = "read" => objects = listed
  /\ \A t \in Threads : Assigned(t) => \A i \in DOMAIN thr[t].nodes :
       thr[t].nodes[i].seq < seq /\ \A o \in objects : o.seq # thr[t].nodes[i].seq
  /\ \A s, t \in Threads : Assigned(s) /\ Assigned(t) =>
       \A i \in DOMAIN thr[s].nodes, j \in DOMAIN thr[t].nodes :
         thr[s].nodes[i].seq = thr[t].nodes[j].seq => s = t /\ i = j
  /\ \A o, p \in objects : o.seq = p.seq => o = p
  /\ up = "down" => \A m \in manifest, o \in objects : m.head # {} => o.seq < m.seq

SeqInv == ~behind => SeqHeld

\* The seqs of a call that is assigned were its own before.
SameSeqs(t) ==
  Assigned(t)' => /\ Assigned(t) /\ DOMAIN thr'[t].nodes = DOMAIN thr[t].nodes
                  /\ \A i \in DOMAIN thr[t].nodes : thr'[t].nodes[i].seq = thr[t].nodes[i].seq

\* Steps that take no seq and write no object.
LEMMA SeqKept ==
  ASSUME SeqHeld, up' = up, seq' = seq, objects' \subseteq objects, listed' = listed,
         up = "read" => objects' = objects, up = "down" => manifest' = manifest,
         \A t \in Threads : SameSeqs(t)
  PROVE  SeqHeld'
<1>1. \A t \in Threads : Assigned(t)' => /\ Assigned(t) /\ DOMAIN thr'[t].nodes = DOMAIN thr[t].nodes
                  /\ \A i \in DOMAIN thr[t].nodes : thr'[t].nodes[i].seq = thr[t].nodes[i].seq
  BY DEF SameSeqs
<1>. QED
  BY <1>1 DEF SeqHeld

\* Threads that a step of t does not move.
LEMMA OthersSame ==
  ASSUME Base, NEW t \in Threads, CallActs(t), NEW s \in Threads, s # t
  PROVE  thr'[s] = thr[s] /\ Assigned(s)' = Assigned(s)
<1>1. thr'[s] = thr[s]
  BY CallMoves, MovesFacts DEF Base
<1>. QED
  BY <1>1 DEF Assigned

\* Calls that wait for nothing more than to move on.
LEMMA CallSameSeqs ==
  ASSUME Base, NEW t \in Threads, CallActs(t), ~Begins(t), ~TakeSeq(t)
  PROVE  SameSeqs(t)
<1>1. CASE ReadPrev(t)
  BY <1>1, ReadPrevStep, RestingFacts DEF SameSeqs, Assigned
<1>2. CASE WriteObjects(t)
  BY <1>2, WriteObjectsStep DEF SameSeqs, Assigned
<1>3. CASE \E i \in {1, 2} : SetOne(t, i)
  BY <1>3, SetOneStep DEF SameSeqs, Assigned
<1>4. CASE Sort(t)
  BY <1>4, SortStep DEF SameSeqs, Assigned
<1>5. CASE ReadHead(t)
  BY <1>5, ReadHeadStep DEF SameSeqs, Assigned
<1>6. CASE Chain(t)
  BY <1>6, ChainStep, RestingFacts DEF SameSeqs, Assigned
<1>7. CASE Remove(t)
  BY <1>7, RemoveStep, RestingFacts DEF SameSeqs, Assigned
<1>. QED
  BY <1>1, <1>2, <1>3, <1>4, <1>5, <1>6, <1>7 DEF CallActs

\* A step of a call keeps seqs apart: fetch_add gives no seq to two of them.
LEMMA CallSeq ==
  ASSUME Base, SeqHeld, NEW t \in Threads, CallActs(t), ~behind'
  PROVE  SeqHeld'
<1>0. /\ up # "down" /\ up' = up /\ manifest' = manifest /\ listed' = listed /\ seq \in Nat
      /\ \A o \in objects : o.seq \in Nat
      /\ \A s \in Threads : \A i \in DOMAIN thr[s].nodes : thr[s].nodes[i].seq \in Nat
  BY CallKeepsUp, NodesFacts DEF Base, TypeOK, Nodes
<1>1. \A s \in Threads : s # t => thr'[s] = thr[s] /\ Assigned(s)' = Assigned(s)
  BY OthersSame
<1>2. CASE Begins(t)
  <2>1. PICK kind \in {"put", "batch", "delete"}, ds \in Seq(Docs), has \in Seq(BOOLEAN) :
          Arguments(kind, ds, has) /\ Call(t, kind, ds, has)
    BY <1>2 DEF Begins
  <2>2. objects' = objects
    BY <2>1 DEF Call
  <2>3. CASE kind = "delete"
    <3>0. seq' = seq
      BY <2>1, <2>3 DEF Call
    <3>1. ~Assigned(t)' /\ seq' = seq
      <4>1. thr'[t].pc = "prev" /\ thr'[t].kind = "delete"
        BY <2>1, <2>3, CallStep
      <4>. QED
        BY <3>0, <4>1 DEF Assigned
    <3>2. \A s \in Threads : SameSeqs(s)
      BY <1>1, <3>1 DEF SameSeqs
    <3>. QED
      BY <1>0, <2>2, <3>1, <3>2, SeqKept
  <2>4. CASE kind # "delete"
    <3>0. up = "ready"
      BY <2>1, <2>4 DEF Call
    <3>1. Len(ds) \in Nat /\ seq' = seq + Len(ds)
      BY <2>1, <2>4, LenProperties DEF Call, Reserved
    <3>2. DOMAIN thr'[t].nodes = 1..Len(ds) /\ \A i \in 1..Len(ds) : thr'[t].nodes[i].seq = seq + i - 1
      BY <2>1, <2>4, CallStep
    <3>3. \A i \in 1..Len(ds) : thr'[t].nodes[i].seq >= seq /\ thr'[t].nodes[i].seq < seq'
      BY <1>0, <3>1, <3>2
    <3>4. (\A o \in objects' : o.seq < seq') /\ \A o \in objects : o.seq < seq
      BY <1>0, <2>2, <3>0, <3>1 DEF SeqHeld
    <3>5. ASSUME NEW s \in Threads, Assigned(s)', NEW i \in DOMAIN thr'[s].nodes
          PROVE  thr'[s].nodes[i].seq < seq' /\ \A o \in objects' : o.seq # thr'[s].nodes[i].seq
      <4>1. CASE s = t
        BY <1>0, <2>2, <3>2, <3>3, <3>4, <3>5, <4>1
      <4>2. CASE s # t
        BY <1>0, <1>1, <2>2, <3>1, <3>5, <4>2 DEF SeqHeld
      <4>. QED
        BY <4>1, <4>2
    <3>6. ASSUME NEW s \in Threads, NEW r \in Threads, Assigned(s)', Assigned(r)',
                 NEW i \in DOMAIN thr'[s].nodes, NEW j \in DOMAIN thr'[r].nodes,
                 thr'[s].nodes[i].seq = thr'[r].nodes[j].seq
          PROVE  s = r /\ i = j
      <4>1. \A q \in Threads : q # t /\ Assigned(q)' => \A l \in DOMAIN thr'[q].nodes : thr'[q].nodes[l].seq < seq
        BY <1>1 DEF SeqHeld
      <4>2. CASE s = t /\ r = t
        <5>1. i \in 1..Len(ds) /\ j \in 1..Len(ds) /\ thr'[t].nodes[i].seq = thr'[t].nodes[j].seq
          BY <3>2, <3>6, <4>2
        <5>2. seq + i - 1 = seq + j - 1 /\ i \in Int /\ j \in Int
          BY <3>2, <5>1
        <5>3. i = j
          BY <1>0, <5>2
        <5>. QED
          BY <4>2, <5>3
      <4>3. CASE s # t /\ r # t
        BY <1>1, <3>6, <4>3 DEF SeqHeld
      <4>4. CASE s # t /\ r = t
        <5>1. thr'[s].nodes[i].seq < seq /\ thr'[r].nodes[j].seq >= seq /\ thr'[s].nodes[i].seq \in Nat
          BY <1>0, <1>1, <3>2, <3>3, <3>6, <4>1, <4>4
        <5>. QED
          BY <1>0, <3>6, <5>1
      <4>5. CASE s = t /\ r # t
        <5>1. thr'[r].nodes[j].seq < seq /\ thr'[s].nodes[i].seq >= seq /\ thr'[r].nodes[j].seq \in Nat
          BY <1>0, <1>1, <3>2, <3>3, <3>6, <4>1, <4>5
        <5>. QED
          BY <1>0, <3>6, <5>1
      <4>. QED
        BY <4>2, <4>3, <4>4, <4>5
    <3>. QED
      BY <1>0, <2>2, <3>0, <3>4, <3>5, <3>6 DEF SeqHeld
  <2>. QED
    BY <2>3, <2>4
<1>3. CASE TakeSeq(t)
  <2>0. up \in {"ready", "numbered", "headed"}
    <3>1. behind' = (behind \/ up \in {"cold", "read"})
      BY <1>3 DEF TakeSeq
    <3>2. ~(up \in {"cold", "read"})
      BY <3>1, Zenon
    <3>. QED
      BY <1>0, <3>2 DEF Base, TypeOK
  <2>1. objects' = objects /\ seq' = seq + 1
    BY <1>3 DEF TakeSeq
  <2>2. DOMAIN thr'[t].nodes = {1} /\ thr'[t].nodes[1].seq = seq
    BY <1>3, TakeSeqStep
  <2>3. (\A o \in objects' : o.seq < seq') /\ \A o \in objects : o.seq < seq
    BY <1>0, <2>0, <2>1 DEF SeqHeld
  <2>4. ASSUME NEW s \in Threads, Assigned(s)', NEW i \in DOMAIN thr'[s].nodes
        PROVE  thr'[s].nodes[i].seq < seq' /\ \A o \in objects' : o.seq # thr'[s].nodes[i].seq
    <3>1. CASE s = t
      BY <1>0, <2>1, <2>2, <2>3, <2>4, <3>1
    <3>2. CASE s # t
      BY <1>0, <1>1, <2>1, <2>4, <3>2 DEF SeqHeld
    <3>. QED
      BY <3>1, <3>2
  <2>5. ASSUME NEW s \in Threads, NEW r \in Threads, Assigned(s)', Assigned(r)',
               NEW i \in DOMAIN thr'[s].nodes, NEW j \in DOMAIN thr'[r].nodes,
               thr'[s].nodes[i].seq = thr'[r].nodes[j].seq
        PROVE  s = r /\ i = j
    <3>1. \A q \in Threads : q # t /\ Assigned(q)' => \A l \in DOMAIN thr'[q].nodes : thr'[q].nodes[l].seq < seq
      BY <1>1 DEF SeqHeld
    <3>2. CASE s = t /\ r = t
      BY <2>2, <2>5, <3>2
    <3>3. CASE s # t /\ r # t
      BY <1>1, <2>5, <3>3 DEF SeqHeld
    <3>4. CASE (s # t /\ r = t) \/ (s = t /\ r # t)
      BY <1>0, <2>2, <2>5, <3>1, <3>4
    <3>. QED
      BY <3>2, <3>3, <3>4
  <2>. QED
    BY <1>0, <2>0, <2>1, <2>3, <2>4, <2>5 DEF SeqHeld
<1>4. CASE WriteObjects(t)
  <2>0. /\ Assigned(t) /\ ~Assigned(t)' /\ seq' = seq
    <3>1. thr[t].pc = "write" /\ thr'[t].pc \in {"read", "set"}
      BY <1>4, WriteObjectsStep
    <3>2. seq' = seq
      BY <1>4 DEF WriteObjects
    <3>. QED
      BY <3>1, <3>2 DEF Assigned
  <2>00. up \in {"ready", "numbered", "headed"}
    BY <1>0, <2>0 DEF SeqHeld, Base, TypeOK
  <2>1. /\ DOMAIN thr'[t].nodes = DOMAIN thr[t].nodes
        /\ \A i \in DOMAIN thr[t].nodes : thr'[t].nodes[i].seq = thr[t].nodes[i].seq
        /\ \A o \in objects' : o \in objects \/ \E i \in DOMAIN thr[t].nodes : o = thr'[t].nodes[i]
    BY <1>4, WriteObjectsStep
  <2>2. \A i \in DOMAIN thr[t].nodes : thr[t].nodes[i].seq < seq
    BY <2>0 DEF SeqHeld
  <2>3. \A o \in objects' : o.seq < seq'
    BY <1>0, <2>00, <2>0, <2>1, <2>2 DEF SeqHeld
  <2>4. ASSUME NEW o \in objects', NEW p \in objects', o.seq = p.seq PROVE o = p
    <3>1. \A i, j \in DOMAIN thr[t].nodes : thr[t].nodes[i].seq = thr[t].nodes[j].seq => i = j
      BY <2>0 DEF SeqHeld
    <3>2. \A i \in DOMAIN thr[t].nodes : \A q \in objects : q.seq # thr[t].nodes[i].seq
      BY <2>0 DEF SeqHeld
    <3>3. \A q, r \in objects : q.seq = r.seq => q = r
      BY DEF SeqHeld
    <3>. QED
      BY <2>1, <2>4, <3>1, <3>2, <3>3
  <2>5. ASSUME NEW s \in Threads, Assigned(s)', NEW i \in DOMAIN thr'[s].nodes
        PROVE  thr'[s].nodes[i].seq < seq' /\ \A o \in objects' : o.seq # thr'[s].nodes[i].seq
    <3>1. s # t /\ thr'[s] = thr[s] /\ Assigned(s)
      BY <1>1, <2>0, <2>5
    <3>2. \A j \in DOMAIN thr[t].nodes : thr[t].nodes[j].seq # thr[s].nodes[i].seq
      BY <2>0, <2>5, <3>1 DEF SeqHeld
    <3>. QED
      BY <2>0, <2>1, <2>5, <3>1, <3>2 DEF SeqHeld
  <2>6. \A s, r \in Threads : Assigned(s)' /\ Assigned(r)' =>
          \A i \in DOMAIN thr'[s].nodes, j \in DOMAIN thr'[r].nodes :
            thr'[s].nodes[i].seq = thr'[r].nodes[j].seq => s = r /\ i = j
    BY <1>1, <2>0 DEF SeqHeld
  <2>. QED
    BY <1>0, <2>00, <2>3, <2>4, <2>5, <2>6 DEF SeqHeld
<1>5. CASE ~Begins(t) /\ ~TakeSeq(t) /\ ~WriteObjects(t)
  <2>1. objects' = objects /\ seq' = seq
    BY <1>5 DEF CallActs, ReadPrev, SetOne, Sort, ReadHead, Chain, Remove, state
  <2>2. \A s \in Threads : SameSeqs(s)
    BY <1>1, <1>5, CallSameSeqs DEF SameSeqs
  <2>. QED
    BY <1>0, <2>1, <2>2, SeqKept
<1>. QED
  BY <1>2, <1>3, <1>4, <1>5

\* The steps beside the calls.
Others == \/ CreateSortedIndex \/ Collects \/ WriteFiles \/ Clear \/ ReadSeq \/ WriteManifest
          \/ Live \/ Drop \/ Crash \/ WarmStart \/ ColdStart
          \/ ScanRead \/ ScanSeq \/ ScanHead \/ ScanManifest \/ UNCHANGED vars

\* Steps of maintenance, which need a process that runs; compaction one that is ready.
LEMMA JobStep ==
  ASSUME Base, \/ CreateSortedIndex \/ Collects \/ WriteFiles \/ Clear \/ ReadSeq
               \/ WriteManifest \/ Live \/ Drop \/ UNCHANGED vars
  PROVE  /\ thr' = thr /\ up' = up /\ seq' = seq /\ head' = head /\ behind' = behind /\ headUnsure' = headUnsure
         /\ born' = born /\ latest' = latest /\ objects' \subseteq objects /\ listed' = listed
         /\ up # "down" \/ manifest' = manifest
         /\ up = "ready" \/ objects' = objects
<1>1. (job.pc # "idle" => up # "down") /\ (job.pc \in {"live", "drop"} => up = "ready")
  BY DEF Base, Shapes
<1>2. CASE CreateSortedIndex
  BY <1>2 DEF CreateSortedIndex
<1>3. CASE Collects
  BY <1>3 DEF Collects, Collect, state
<1>4. CASE WriteFiles
  BY <1>1, <1>4 DEF WriteFiles
<1>5. CASE Clear
  BY <1>1, <1>5 DEF Clear
<1>6. CASE ReadSeq
  BY <1>1, <1>6 DEF ReadSeq
<1>7. CASE WriteManifest
  BY <1>1, <1>7 DEF WriteManifest
<1>8. CASE Live
  BY <1>1, <1>8 DEF Live, state
<1>9. CASE Drop
  BY <1>1, <1>9 DEF Drop, Kept
<1>10. CASE UNCHANGED vars
  BY <1>10 DEF vars, state
<1>. QED
  BY <1>2, <1>3, <1>4, <1>5, <1>6, <1>7, <1>8, <1>9, <1>10

\* After a crash and until the process runs no call is in progress.
LEMMA Quiet ==
  ASSUME Base, Crash \/ WarmStart \/ ColdStart
  PROVE  /\ \A t \in Threads : thr'[t].pc = "idle" /\ DOMAIN thr'[t].nodes = {} /\ ~Assigned(t)'
         /\ objects' = objects /\ born' = born
         /\ Crash \/ (thr' = thr /\ up = "down" /\ behind' = behind)
<1>1. CASE Crash
  BY <1>1, RestingFacts DEF Crash, Assigned
<1>2. CASE WarmStart \/ ColdStart
  <2>1. thr' = thr /\ up = "down" /\ objects' = objects /\ born' = born /\ behind' = behind
    BY <1>2 DEF WarmStart, ColdStart, state
  <2>2. \A t \in Threads : thr[t].pc = "idle" /\ thr[t].nodes = << >>
    BY <2>1 DEF Base, Shapes, Shape
  <2>3. DOMAIN << >> = {}
    OBVIOUS
  <2>. QED
    BY <2>1, <2>2, <2>3 DEF Assigned
<1>. QED
  BY <1>1, <1>2

\* What the cold scan leaves alone.
LEMMA ScanStep ==
  ASSUME ScanRead \/ ScanSeq \/ ScanHead \/ ScanManifest
  PROVE  /\ thr' = thr /\ job' = job /\ objects' = objects /\ dir' = dir /\ file' = file /\ buf' = buf
         /\ fill' = fill /\ born' = born /\ latest' = latest /\ unsure' = unsure /\ behind' = behind
         /\ up \in Scanning /\ up' \in {"read", "numbered", "headed", "ready"}
BY DEF ScanRead, ScanSeq, ScanHead, ScanManifest, Scanning

\* Maintenance and restarts keep seqs apart, unless MANIFEST was behind.
LEMMA OtherSeq ==
  ASSUME Base, SeqInv, Others
  PROVE  SeqInv'
<1>. SUFFICES ASSUME ~behind' PROVE SeqHeld'
  BY DEF SeqInv
<1>0. /\ seq \in Nat /\ \A o \in objects : o.seq \in Nat
      /\ \A m \in manifest : m.seq \in Nat
  BY DEF Base, TypeOK, Nodes
<1>1. CASE \/ CreateSortedIndex \/ Collects \/ WriteFiles \/ Clear \/ ReadSeq
           \/ WriteManifest \/ Live \/ Drop \/ UNCHANGED vars
  <2>1. /\ thr' = thr /\ up' = up /\ seq' = seq /\ objects' \subseteq objects /\ listed' = listed /\ SeqHeld
        /\ up # "down" \/ manifest' = manifest
        /\ up = "ready" \/ objects' = objects
    BY <1>1, JobStep DEF SeqInv
  <2>2. \A t \in Threads : SameSeqs(t)
    BY <2>1 DEF SameSeqs, Assigned
  <2>. QED
    BY <2>1, <2>2, SeqKept
<1>2. CASE Crash \/ WarmStart \/ ColdStart
  <2>1. ~behind /\ SeqHeld
    <3>1. CASE Crash
      <4>1. behind' = (behind \/ \E m \in manifest, o \in objects : m.head # {} /\ o.seq >= m.seq)
        BY <3>1 DEF Crash
      <4>2. ~behind
        BY <4>1, Zenon
      <4>. QED
        BY <4>2 DEF SeqInv
    <3>2. CASE ~Crash
      <4>1. behind' = behind
        BY <1>2, <3>2, Quiet
      <4>2. ~behind
        BY <4>1, Zenon
      <4>. QED
        BY <4>2 DEF SeqInv
    <3>. QED
      BY <3>1, <3>2
  <2>2. (\A t \in Threads : ~Assigned(t)') /\ objects' = objects
    BY <1>2, Quiet
  <2>3. \A o, p \in objects : o.seq = p.seq => o = p
    BY <2>1 DEF SeqHeld
  <2>4. CASE Crash
    <3>1. /\ up' = "down" /\ manifest' = manifest
          /\ ~ \E m \in manifest, o \in objects : m.head # {} /\ o.seq >= m.seq
      BY <2>4 DEF Crash
    <3>2. \A m \in manifest, o \in objects : m.head # {} => o.seq < m.seq
      BY <1>0, <3>1
    <3>. QED
      BY <2>2, <2>3, <3>1, <3>2 DEF SeqHeld
  <2>5. CASE WarmStart
    <3>1. up' = "ready" /\ \A o \in objects : o.seq < seq'
      BY <2>1, <2>5 DEF WarmStart, SeqHeld
    <3>. QED
      BY <2>2, <2>3, <3>1 DEF SeqHeld
  <2>6. CASE ColdStart
    <3>1. up' \in {"ready", "cold"} /\ (up' = "ready" => objects = {})
      BY <2>6 DEF ColdStart
    <3>. QED
      BY <2>2, <2>3, <3>1 DEF SeqHeld
  <2>. QED
    BY <1>2, <2>4, <2>5, <2>6
<1>3. CASE ScanRead \/ ScanSeq \/ ScanHead \/ ScanManifest
  <2>1. thr' = thr /\ objects' = objects /\ behind' = behind
    BY <1>3, ScanStep
  <2>2. ~behind
    BY <2>1, Zenon
  <2>3. SeqHeld
    BY <2>2 DEF SeqInv
  <2>4. \A t \in Threads : Assigned(t)' = Assigned(t)
    BY <2>1 DEF Assigned
  <2>5. CASE ScanRead
    <3>1. up = "cold" /\ up' = "read" /\ listed' = objects
      BY <2>5 DEF ScanRead
    <3>2. \A t \in Threads : ~Assigned(t)'
      BY <2>3, <2>4, <3>1 DEF SeqHeld
    <3>. QED
      BY <2>1, <2>3, <3>1, <3>2 DEF SeqHeld
  <2>6. CASE ScanSeq
    <3>1. up = "read" /\ up' = "numbered" /\ seq' = MaxSeq + 1 /\ listed # {} /\ objects = listed
      BY <2>3, <2>6 DEF ScanSeq, NextSeq, Base, Shapes, SeqHeld
    <3>2. \A o \in objects : o.seq < seq'
      BY <1>0, <3>1, MaxSeqFacts
    <3>3. \A t \in Threads : ~Assigned(t)'
      BY <2>3, <2>4, <3>1 DEF SeqHeld
    <3>. QED
      BY <2>1, <2>3, <3>1, <3>2, <3>3 DEF SeqHeld
  <2>7. CASE ScanHead \/ ScanManifest
    <3>1. up \in {"numbered", "headed"} /\ up' \in {"headed", "ready"} /\ seq' = seq
      BY <2>7 DEF ScanHead, ScanManifest
    <3>. QED
      BY <2>1, <2>3, <2>4, <3>1 DEF SeqHeld
  <2>. QED
    BY <1>3, <2>5, <2>6, <2>7
<1>. QED
  BY <1>1, <1>2, <1>3 DEF Others

\* A step is one of a call or one of the others.
LEMMA StepKinds ==
  ASSUME [Next]_vars
  PROVE  (\E t \in Threads : CallActs(t)) \/ Others
BY StepCases DEF Others

\* Every step keeps seqs apart.
LEMMA NextSeqInv == Base /\ SeqInv /\ [Next]_vars => SeqInv'
<1>. SUFFICES ASSUME Base, SeqInv, [Next]_vars PROVE SeqInv'
  OBVIOUS
<1>1. ASSUME NEW t \in Threads, CallActs(t) PROVE SeqInv'
  <2>. SUFFICES ASSUME ~behind' PROVE SeqHeld'
    BY DEF SeqInv
  <2>1. behind => behind'
    BY <1>1, CallKeepsUp
  <2>2. ~behind
    BY <2>1, Zenon
  <2>. QED
    BY <1>1, <2>2, CallSeq DEF SeqInv
<1>. QED
  BY <1>1, OtherSeq, StepKinds

\* No seq is taken at the start.
LEMMA InitSeqInv == Init => SeqInv
<1>. SUFFICES ASSUME Init PROVE SeqInv
  OBVIOUS
<1>1. \A t \in Threads : ~Assigned(t)
  BY RestingFacts DEF Init, Assigned
<1>. QED
  BY <1>1 DEF Init, SeqInv, SeqHeld

\* No two objects have one seq, whatever calls overlap and whenever flushes, compactions
\* and crashes come, as long as no restart found a MANIFEST that was behind the objects and
\* no delete took a seq before the cold scan had set it.
THEOREM NoSeqTwice == Spec => []SeqsAreUnique
<1>1. Init => Base /\ SeqInv
  BY InitBase, InitSeqInv
<1>2. (Base /\ SeqInv) /\ [Next]_vars => (Base /\ SeqInv)'
  BY NextBase, NextSeqInv
<1>3. Base /\ SeqInv => SeqsAreUnique
  BY DEF SeqInv, SeqHeld, SeqsAreUnique
<1>. QED
  BY <1>1, <1>2, <1>3, PTL DEF Spec

-----------------------------------------------------------------------------
(* The head.                                                                *)

\* The call has written version n and not chained it yet.
Unchained(t, n) ==
  \E i \in DOMAIN thr[t].nodes :
    /\ thr[t].nodes[i].n = n
    /\ thr[t].pc \in {"set", "sort"} \/ (thr[t].pc \in {"read", "chain"} /\ i \in thr[t].todo)

\* Every object is in the head or waits for its call to chain it; one call at most is
\* between reading the head and writing it, and the head is the one it read.
HeadHeld ==
  /\ up \in {"ready", "headed"} => \A o \in objects : o.n \in head \/ \E t \in Threads : Unchained(t, o.n)
  /\ \A t \in Threads : thr[t].pc = "chain" => thr[t].seen = head
  /\ \A s, t \in Threads : thr[s].pc = "chain" /\ thr[t].pc = "chain" => s = t
  /\ up = "down" => \A m \in manifest, o \in objects : o.n \in m.head

HeadInv == ~headUnsure => HeadHeld

\* Steps of a call that leave the head alone.
LEMMA CallUnchained ==
  ASSUME Base, NEW t \in Threads, CallActs(t), ~Chain(t), NEW n, Unchained(t, n)
  PROVE  Unchained(t, n)'
<1>1. thr[t].pc \in {"set", "sort", "read", "chain"}
  BY DEF Unchained
<1>2. CASE \E i \in {1, 2} : SetOne(t, i)
  <2>1. /\ thr'[t].nodes = thr[t].nodes /\ thr[t].pc = "set" /\ thr'[t].pc \in {"set", "sort"}
    BY <1>2, SetOneStep DEF Stays
  <2>. QED
    BY <2>1 DEF Unchained
<1>3. CASE Sort(t)
  <2>1. /\ thr'[t].nodes = thr[t].nodes /\ thr'[t].todo = DOMAIN thr[t].nodes /\ thr'[t].pc = "read"
    BY <1>3, SortStep DEF Stays
  <2>. QED
    BY <2>1 DEF Unchained
<1>4. CASE ReadHead(t)
  <2>1. /\ thr'[t].nodes = thr[t].nodes /\ thr'[t].todo = thr[t].todo
        /\ thr[t].pc = "read" /\ thr'[t].pc = "chain"
    BY <1>4, ReadHeadStep DEF Stays
  <2>. QED
    BY <2>1 DEF Unchained
<1>5. ~ (Begins(t) \/ ReadPrev(t) \/ TakeSeq(t) \/ WriteObjects(t) \/ Remove(t))
  BY <1>1 DEF Begins, Call, ReadPrev, TakeSeq, WriteObjects, Remove
<1>. QED
  BY <1>2, <1>3, <1>4, <1>5 DEF CallActs

\* A step of a call chains what it wrote, or still has it to chain.
LEMMA CallHead ==
  ASSUME Base, HeadInv, NEW t \in Threads, CallActs(t)
  PROVE  HeadInv'
<1>. SUFFICES ASSUME ~headUnsure' PROVE HeadHeld'
  BY DEF HeadInv
<1>0. up # "down" /\ up' = up /\ manifest' = manifest
  BY CallKeepsUp
<1>1. \A s \in Threads : s # t => thr'[s] = thr[s]
  BY OthersSame
<1>2. \A s \in Threads : \A n : s # t => (Unchained(s, n)' <=> Unchained(s, n))
  BY <1>1 DEF Unchained
<1>3. ~headUnsure /\ (ReadHead(t) => \A s \in Threads : thr[s].pc # "chain")
  <2>1. CASE ReadHead(t)
    <3>1. headUnsure' = (headUnsure \/ \E s \in Threads : thr[s].pc = "chain")
      BY <2>1 DEF ReadHead
    <3>. QED
      BY <3>1, Zenon
  <2>2. CASE ~ReadHead(t)
    <3>1. headUnsure' = headUnsure
      BY <2>2 DEF CallActs, Begins, Call, ReadPrev, TakeSeq, WriteObjects, SetOne, Sort, Chain, Remove
    <3>. QED
      BY <2>2, <3>1, Zenon
  <2>. QED
    BY <2>1, <2>2
<1>4. HeadHeld
  BY <1>3 DEF HeadInv
<1>5. CASE Chain(t)
  <2>. DEFINE i == Min(thr[t].todo)
  <2>1. /\ thr[t].pc = "chain" /\ i \in thr[t].todo /\ i \in DOMAIN thr[t].nodes /\ objects' = objects
        /\ head' = thr[t].seen \cup {thr[t].nodes[i].n} /\ thr'[t].pc # "chain"
    <3>1. objects' = objects
      BY <1>5 DEF Chain
    <3>. QED
      BY <1>5, <3>1, ChainStep, RestingFacts
  <2>2. head' = head \cup {thr[t].nodes[i].n} /\ \A s \in Threads : s # t => thr[s].pc # "chain"
    BY <1>4, <2>1 DEF HeadHeld
  <2>3. ASSUME NEW n, Unchained(t, n) PROVE n \in head' \/ Unchained(t, n)'
    <3>1. PICK j \in DOMAIN thr[t].nodes : thr[t].nodes[j].n = n /\ j \in thr[t].todo
      BY <2>1, <2>3 DEF Unchained
    <3>2. CASE j = i
      BY <2>2, <3>1, <3>2
    <3>3. CASE j # i
      <4>1. /\ thr'[t].nodes = thr[t].nodes /\ thr'[t].pc = "read" /\ thr'[t].todo = thr[t].todo \ {i}
        BY <1>5, <3>1, <3>3, ChainStep DEF Stays
      <4>. HIDE DEF i
      <4>2. j \in thr'[t].todo
        BY <3>1, <3>3, <4>1
      <4>. QED
        BY <3>1, <4>1, <4>2 DEF Unchained
    <3>. QED
      BY <3>2, <3>3
  <2>4. ASSUME NEW o \in objects', up \in {"ready", "headed"}
        PROVE  o.n \in head' \/ \E s \in Threads : Unchained(s, o.n)'
    <3>1. o.n \in head \/ \E s \in Threads : Unchained(s, o.n)
      BY <1>4, <2>1, <2>4 DEF HeadHeld
    <3>2. CASE o.n \in head
      BY <2>2, <3>2
    <3>3. ASSUME NEW s \in Threads, Unchained(s, o.n) PROVE o.n \in head' \/ Unchained(s, o.n)'
      BY <1>2, <2>3, <3>3
    <3>. QED
      BY <3>1, <3>2, <3>3
  <2>5. \A s \in Threads : thr'[s].pc # "chain"
    BY <1>1, <2>1, <2>2
  <2>. QED
    BY <1>0, <2>4, <2>5 DEF HeadHeld
<1>6. CASE ~Chain(t)
  <2>1. head' = head
    BY <1>6 DEF CallActs, Begins, Call, ReadPrev, TakeSeq, WriteObjects, SetOne, Sort, ReadHead, Remove, state
  <2>2. thr'[t].pc = "chain" => ReadHead(t) /\ thr'[t].seen = head
    <3>1. CASE Begins(t)
      BY <3>1, CallStep DEF Begins
    <3>2. CASE ReadPrev(t)
      BY <3>2, ReadPrevStep, RestingFacts
    <3>3. CASE \E i \in {1, 2} : SetOne(t, i)
      BY <3>3, SetOneStep
    <3>. QED
      BY <1>6, <3>1, <3>2, <3>3, TakeSeqStep, WriteObjectsStep, SortStep, ReadHeadStep, RemoveStep, RestingFacts
      DEF CallActs
  <2>3. ASSUME NEW o \in objects', up \in {"ready", "headed"}
        PROVE  o.n \in head' \/ \E s \in Threads : Unchained(s, o.n)'
    <3>1. CASE o \in objects
      <4>1. o.n \in head \/ \E s \in Threads : Unchained(s, o.n)
        BY <1>4, <2>3, <3>1 DEF HeadHeld
      <4>2. ASSUME NEW s \in Threads, Unchained(s, o.n) PROVE Unchained(s, o.n)'
        <5>1. CASE s = t
          BY <1>6, <4>2, <5>1, CallUnchained
        <5>2. CASE s # t
          BY <1>2, <4>2, <5>2
        <5>. QED
          BY <5>1, <5>2
      <4>. QED
        BY <2>1, <4>1, <4>2
    <3>2. CASE o \notin objects
      <4>1. WriteObjects(t)
        BY <1>6, <2>3, <3>2
        DEF CallActs, Begins, Call, ReadPrev, TakeSeq, SetOne, Sort, ReadHead, Remove, state
      <4>2. PICK i \in DOMAIN thr[t].nodes : o = thr'[t].nodes[i]
        BY <2>3, <3>2, <4>1, WriteObjectsStep
      <4>3. /\ i \in DOMAIN thr'[t].nodes /\ thr'[t].todo = DOMAIN thr[t].nodes
            /\ thr'[t].pc \in {"set", "read"}
        BY <4>1, WriteObjectsStep
      <4>4. Unchained(t, o.n)'
        BY <4>2, <4>3 DEF Unchained
      <4>. QED
        BY <4>4
    <3>. QED
      BY <3>1, <3>2
  <2>4. \A s \in Threads : thr'[s].pc = "chain" => thr'[s].seen = head'
    BY <1>1, <1>4, <2>1, <2>2 DEF HeadHeld
  <2>5. \A s, r \in Threads : thr'[s].pc = "chain" /\ thr'[r].pc = "chain" => s = r
    BY <1>1, <1>3, <1>4, <2>2 DEF HeadHeld
  <2>. QED
    BY <1>0, <2>3, <2>4, <2>5 DEF HeadHeld
<1>. QED
  BY <1>5, <1>6

\* Maintenance and restarts keep the head complete.
LEMMA OtherHead ==
  ASSUME Base, HeadInv, Others
  PROVE  HeadInv'
<1>. SUFFICES ASSUME ~headUnsure' PROVE HeadHeld'
  BY DEF HeadInv
<1>1. CASE \/ CreateSortedIndex \/ Collects \/ WriteFiles \/ Clear \/ ReadSeq
           \/ WriteManifest \/ Live \/ Drop \/ UNCHANGED vars
  <2>1. thr' = thr /\ up' = up /\ head' = head /\ objects' \subseteq objects /\ HeadHeld
        /\ (up # "down" \/ manifest' = manifest)
    BY <1>1, JobStep DEF HeadInv
  <2>2. \A t \in Threads : \A n : Unchained(t, n)' <=> Unchained(t, n)
    BY <2>1 DEF Unchained
  <2>. QED
    BY <2>1, <2>2 DEF HeadHeld
<1>2. CASE Crash \/ WarmStart \/ ColdStart
  <2>1. (\A t \in Threads : thr'[t].pc = "idle") /\ objects' = objects
    BY <1>2, Quiet
  <2>2. CASE Crash
    <3>1. /\ headUnsure' = (headUnsure \/ \E m \in manifest : ~({o.n : o \in objects} \subseteq m.head))
          /\ up' = "down" /\ manifest' = manifest
      BY <2>2 DEF Crash
    <3>2. \A m \in manifest : {o.n : o \in objects} \subseteq m.head
      BY <3>1, Zenon
    <3>3. \A m \in manifest, o \in objects : o.n \in m.head
      BY <3>2
    <3>. QED
      BY <2>1, <3>1, <3>3 DEF HeadHeld
  <2>3. CASE WarmStart
    <3>1. HeadHeld /\ up = "down" /\ up' = "ready" /\ \E m \in manifest : head' = m.head
      BY <2>3 DEF WarmStart, HeadInv
    <3>. QED
      BY <2>1, <3>1 DEF HeadHeld
  <2>4. CASE ColdStart
    <3>1. up' \in {"ready", "cold"} /\ (up' = "ready" => objects = {})
      BY <2>4 DEF ColdStart
    <3>. QED
      BY <2>1, <3>1 DEF HeadHeld
  <2>. QED
    BY <1>2, <2>2, <2>3, <2>4
<1>3. CASE ScanHead
  <2>1. /\ headUnsure' = (objects # listed \/ \E t \in Threads : thr[t].pc = "chain")
        /\ thr' = thr /\ objects' = objects /\ head' = {o.n : o \in listed} /\ up' = "headed"
    BY <1>3 DEF ScanHead
  <2>2. ~(objects # listed \/ \E t \in Threads : thr[t].pc = "chain")
    BY <2>1, Zenon
  <2>3. objects = listed /\ \A t \in Threads : thr'[t].pc # "chain"
    BY <2>1, <2>2
  <2>. QED
    BY <2>1, <2>3 DEF HeadHeld
<1>4. CASE ScanRead \/ ScanSeq \/ ScanManifest
  <2>1. /\ thr' = thr /\ objects' = objects /\ head' = head /\ headUnsure' = headUnsure
        /\ up' \in {"read", "numbered"} \/ (up = "headed" /\ up' = "ready")
    BY <1>4 DEF ScanRead, ScanSeq, ScanManifest
  <2>2. HeadHeld
    BY <2>1 DEF HeadInv
  <2>3. \A t \in Threads : \A n : Unchained(t, n)' <=> Unchained(t, n)
    BY <2>1 DEF Unchained
  <2>. QED
    BY <2>1, <2>2, <2>3 DEF HeadHeld
<1>. QED
  BY <1>1, <1>2, <1>3, <1>4 DEF Others

\* Every step keeps the head complete.
LEMMA NextHeadInv == Base /\ HeadInv /\ [Next]_vars => HeadInv'
BY CallHead, OtherHead, StepKinds

\* The head is complete at the start.
LEMMA InitHeadInv == Init => HeadInv
<1>. SUFFICES ASSUME Init PROVE HeadHeld
  BY DEF HeadInv
<1>1. \A t \in Threads : thr[t].pc = "idle"
  BY RestingFacts DEF Init
<1>. QED
  BY <1>1 DEF Init, HeadHeld

\* Between calls the head commits to every object, whatever was flushed, compacted, scanned
\* or restarted before, as long as no two updates of it overlapped, no restart found an
\* old one and no delete came in between the cold scan's list of objects and its head.
THEOREM HeadIsComplete == Spec => []HeadCoversAll
<1>1. Init => Base /\ HeadInv
  BY InitBase, InitHeadInv
<1>2. (Base /\ HeadInv) /\ [Next]_vars => (Base /\ HeadInv)'
  BY NextBase, NextHeadInv
<1>3. Base /\ HeadInv => HeadCoversAll
  BY DEF HeadInv, HeadHeld, HeadCoversAll, Unchained
<1>. QED
  BY <1>1, <1>2, <1>3, PTL DEF Spec

-----------------------------------------------------------------------------
(* Version numbers: every version belongs to one document.                  *)

Owns(d, n) ==
  \/ n = buf[d] \/ n = file[d] \/ n = job.got[d]
  \/ \E o \in objects : o.doc = d /\ o.n = n
  \/ \E t \in Threads : \E i \in DOMAIN thr[t].nodes : thr[t].nodes[i].doc = d /\ thr[t].nodes[i].n = n

OwnInv ==
  /\ \A d \in Docs, n \in Nat \ {0} : Owns(d, n) => n <= born /\ \A e \in Docs : Owns(e, n) => e = d
  /\ \A d \in Docs : buf[d] # 0 /\ file[d] # 0 /\ job.got[d] # 0
  /\ \A o \in objects : o.n # 0
  /\ \A o, p \in objects : o.n = p.n => o = p

\* A step of a call that writes no object makes no version.
LEMMA CallOwns ==
  ASSUME Base, NEW t \in Threads, CallActs(t), ~WriteObjects(t), NEW d \in Docs, NEW n \in Nat \ {0}, Owns(d, n)'
  PROVE  Owns(d, n)
<1>0. file' = file /\ job' = job /\ n # NIL /\ n # NONE
  BY CallKeepsUp, MarksAssumption
<1>1. objects' = objects
  BY DEF CallActs, Begins, Call, ReadPrev, TakeSeq, SetOne, Sort, ReadHead, Chain, Remove, state
<1>2. \A s \in Threads : s # t => thr'[s] = thr[s]
  BY OthersSame
<1>3. ASSUME NEW i \in DOMAIN thr'[t].nodes, thr'[t].nodes[i].doc = d, thr'[t].nodes[i].n = n
      PROVE  i \in DOMAIN thr[t].nodes /\ thr[t].nodes[i].doc = d /\ thr[t].nodes[i].n = n
  <2>1. CASE Begins(t)
    <3>1. PICK kind \in {"put", "batch", "delete"}, ds \in Seq(Docs), has \in Seq(BOOLEAN) :
            Arguments(kind, ds, has) /\ Call(t, kind, ds, has)
      BY <2>1 DEF Begins
    <3>2. DOMAIN thr'[t].nodes = 1..Len(ds) /\ \A j \in 1..Len(ds) : thr'[t].nodes[j].n = 0
      BY <3>1, CallStep
    <3>. QED
      BY <1>3, <3>2
  <2>2. CASE ReadPrev(t)
    BY <1>3, <2>2, ReadPrevStep, RestingFacts
  <2>3. CASE TakeSeq(t)
    BY <1>3, <2>3, TakeSeqStep
  <2>4. CASE \E j \in {1, 2} : SetOne(t, j)
    BY <1>3, <2>4, SetOneStep DEF Stays
  <2>5. CASE Chain(t)
    BY <1>3, <2>5, ChainStep, RestingFacts DEF Stays
  <2>. QED
    BY <1>3, <2>1, <2>2, <2>3, <2>4, <2>5, SortStep, ReadHeadStep, RemoveStep, RestingFacts DEF Stays, CallActs
<1>4. ASSUME n = buf'[d] PROVE Owns(d, n)
  <2>0. buf \in [Docs -> Pointers \cup {NONE}]
    BY DEF Base, TypeOK
  <2>1. CASE \E j \in {1, 2} : SetOne(t, j)
    <3>1. PICK j \in {1, 2} : SetOne(t, j)
      BY <2>1
    <3>2. j \in DOMAIN thr[t].nodes
      BY <3>1, SetOneStep
    <3>3. buf' = [buf EXCEPT ![thr[t].nodes[j].doc] = thr[t].nodes[j].n]
      BY <3>1 DEF SetOne, SetPointer
    <3>4. CASE d = thr[t].nodes[j].doc
      BY <1>4, <2>0, <3>2, <3>3, <3>4 DEF Owns
    <3>5. CASE d # thr[t].nodes[j].doc
      BY <1>4, <2>0, <3>3, <3>5 DEF Owns
    <3>. QED
      BY <3>4, <3>5
  <2>2. CASE Remove(t)
    <3>1. buf' = [buf EXCEPT ![thr[t].nodes[1].doc] = NIL]
      BY <2>2 DEF Remove, Removed, SetPointer
    <3>. QED
      BY <1>0, <1>4, <2>0, <3>1 DEF Owns
  <2>3. CASE ~Remove(t) /\ ~ \E j \in {1, 2} : SetOne(t, j)
    <3>1. buf' = buf
      BY <2>3 DEF CallActs, Begins, Call, ReadPrev, TakeSeq, Sort, ReadHead, Chain, state
    <3>. QED
      BY <1>4, <3>1 DEF Owns
  <2>. QED
    BY <2>1, <2>2, <2>3
<1>5. CASE \E s \in Threads : \E i \in DOMAIN thr'[s].nodes : thr'[s].nodes[i].doc = d /\ thr'[s].nodes[i].n = n
  <2>1. PICK s \in Threads : \E i \in DOMAIN thr'[s].nodes : thr'[s].nodes[i].doc = d /\ thr'[s].nodes[i].n = n
    BY <1>5
  <2>2. \E i \in DOMAIN thr[s].nodes : thr[s].nodes[i].doc = d /\ thr[s].nodes[i].n = n
    BY <1>2, <1>3, <2>1
  <2>. QED
    BY <2>2 DEF Owns
<1>6. CASE n = file'[d] \/ n = job'.got[d] \/ \E o \in objects' : o.doc = d /\ o.n = n
  BY <1>0, <1>1, <1>6 DEF Owns
<1>. QED
  BY <1>4, <1>5, <1>6 DEF Owns

\* Versions that nobody made before this step.
LEMMA OwnKept ==
  ASSUME OwnInv, born' = born, objects' \subseteq objects,
         \A d \in Docs, n \in Nat \ {0} : Owns(d, n)' => Owns(d, n),
         \A d \in Docs : buf'[d] # 0 /\ file'[d] # 0 /\ job'.got[d] # 0
  PROVE  OwnInv'
BY DEF OwnInv

\* The numbers of a call's nodes once they are written.
LEMMA NumberedNodes ==
  ASSUME Base, NEW t \in Threads, ~Before(t), NEW i \in DOMAIN thr[t].nodes
  PROVE  thr[t].nodes[i].n \in Nat \ {0} /\ Owns(thr[t].nodes[i].doc, thr[t].nodes[i].n)
BY NodesFacts DEF Base, Shapes, Shape, Before, Nodes, Owns

\* A call gives a new number to every version.
LEMMA CallOwn ==
  ASSUME Base, OwnInv, NEW t \in Threads, CallActs(t)
  PROVE  OwnInv'
<1>0. file' = file /\ job' = job /\ born \in Nat
  BY CallKeepsUp DEF Base, TypeOK
<1>1. \A d \in Docs : buf'[d] # 0
  <2>0. buf \in [Docs -> Pointers \cup {NONE}] /\ \A d \in Docs : buf[d] # 0
    BY DEF Base, TypeOK, OwnInv
  <2>1. CASE \E j \in {1, 2} : SetOne(t, j)
    <3>1. PICK j \in {1, 2} : SetOne(t, j)
      BY <2>1
    <3>2. j \in DOMAIN thr[t].nodes /\ ~Before(t)
      BY <3>1, SetOneStep DEF Before
    <3>3. buf' = [buf EXCEPT ![thr[t].nodes[j].doc] = thr[t].nodes[j].n] /\ thr[t].nodes[j].n # 0
      BY <3>1, <3>2, NumberedNodes DEF SetOne, SetPointer
    <3>. QED
      BY <2>0, <3>3
  <2>2. CASE Remove(t)
    <3>1. buf' = [buf EXCEPT ![thr[t].nodes[1].doc] = NIL] /\ NIL # 0
      BY <2>2, MarksAssumption DEF Remove, Removed, SetPointer
    <3>. QED
      BY <2>0, <3>1
  <2>3. CASE ~Remove(t) /\ ~ \E j \in {1, 2} : SetOne(t, j)
    <3>1. buf' = buf
      BY <2>3 DEF CallActs, Begins, Call, ReadPrev, TakeSeq, WriteObjects, Sort, ReadHead, Chain, state
    <3>. QED
      BY <2>0, <3>1
  <2>. QED
    BY <2>1, <2>2, <2>3
<1>2. CASE ~WriteObjects(t)
  <2>1. born' = born /\ objects' = objects
    BY <1>2 DEF CallActs, Begins, Call, ReadPrev, TakeSeq, SetOne, Sort, ReadHead, Chain, Remove, state
  <2>2. \A d \in Docs, n \in Nat \ {0} : Owns(d, n)' => Owns(d, n)
    BY <1>2, CallOwns
  <2>3. \A d \in Docs : file'[d] # 0 /\ job'.got[d] # 0
    BY <1>0 DEF OwnInv
  <2>. QED
    BY <1>1, <2>1, <2>2, <2>3, OwnKept
<1>3. CASE WriteObjects(t)
  <2>. DEFINE k == Len(thr[t].nodes)
  <2>1. /\ k \in {1, 2} /\ born' = born + k /\ DOMAIN thr[t].nodes = 1..k /\ DOMAIN thr'[t].nodes = 1..k
        /\ \A i \in 1..k : thr'[t].nodes[i].n = born + i /\ thr'[t].nodes[i].doc = thr[t].nodes[i].doc
        /\ objects' = objects \cup {thr'[t].nodes[i] : i \in 1..k}
    BY <1>3, WriteObjectsStep
  <2>2. buf' = buf /\ \A s \in Threads : s # t => thr'[s] = thr[s]
    BY <1>3, OthersSame DEF WriteObjects
  <2>. HIDE DEF k
  <2>3. \A i, j \in DOMAIN thr[t].nodes : thr[t].nodes[i].doc = thr[t].nodes[j].doc => i = j
    BY DEF Base, Shapes, Shape
  <2>4. ASSUME NEW d \in Docs, NEW n \in Nat \ {0}, Owns(d, n)'
        PROVE  Owns(d, n) \/ \E i \in 1..k : n = born + i /\ d = thr[t].nodes[i].doc
    <3>1. CASE n = buf'[d] \/ n = file'[d] \/ n = job'.got[d]
      BY <1>0, <2>2, <3>1 DEF Owns
    <3>2. ASSUME NEW o \in objects', o.doc = d, o.n = n
          PROVE  Owns(d, n) \/ \E i \in 1..k : n = born + i /\ d = thr[t].nodes[i].doc
      BY <2>1, <3>2 DEF Owns
    <3>3. ASSUME NEW s \in Threads, NEW i \in DOMAIN thr'[s].nodes, thr'[s].nodes[i].doc = d, thr'[s].nodes[i].n = n
          PROVE  Owns(d, n) \/ \E j \in 1..k : n = born + j /\ d = thr[t].nodes[j].doc
      BY <2>1, <2>2, <3>3 DEF Owns
    <3>. QED
      BY <2>4, <3>1, <3>2, <3>3 DEF Owns
  <2>5. \A d \in Docs, n \in Nat \ {0} : Owns(d, n) => n <= born
    BY DEF OwnInv
  <2>6. ASSUME NEW d \in Docs, NEW n \in Nat \ {0}, Owns(d, n)'
        PROVE  n <= born' /\ \A e \in Docs : Owns(e, n)' => e = d
    <3>1. n <= born'
      BY <1>0, <2>1, <2>4, <2>5, <2>6
    <3>2. ASSUME NEW e \in Docs, Owns(e, n)' PROVE e = d
      <4>1. CASE n <= born
        <5>1. ~ \E i \in 1..k : n = born + i
          BY <1>0, <2>1, <4>1
        <5>2. Owns(d, n) /\ Owns(e, n)
          BY <2>4, <2>6, <3>2, <5>1
        <5>. QED
          BY <5>2 DEF OwnInv
      <4>2. CASE ~ (n <= born)
        <5>1. ~Owns(d, n) /\ ~Owns(e, n)
          BY <2>5, <4>2
        <5>2. PICK i \in 1..k : n = born + i /\ d = thr[t].nodes[i].doc
          BY <2>4, <2>6, <5>1
        <5>3. PICK j \in 1..k : n = born + j /\ e = thr[t].nodes[j].doc
          BY <2>4, <3>2, <5>1
        <5>4. i = j
          BY <1>0, <2>1, <5>2, <5>3
        <5>. QED
          BY <5>2, <5>3, <5>4
      <4>. QED
        BY <4>1, <4>2
    <3>. QED
      BY <3>1, <3>2
  <2>7. \A o \in objects : o.n \in Nat \ {0} /\ o.n <= born
    <3>1. \A o \in objects : o.n \in Nat \ {0} /\ o.doc \in Docs
      BY DEF Base, TypeOK, Nodes, OwnInv
    <3>2. \A o \in objects : Owns(o.doc, o.n)
      BY DEF Owns
    <3>. QED
      BY <2>5, <3>1, <3>2
  <2>8. \A o \in objects' : o.n # 0
    BY <1>0, <2>1, <2>7
  <2>9. ASSUME NEW o \in objects', NEW p \in objects', o.n = p.n PROVE o = p
    <3>1. CASE o \in objects /\ p \in objects
      BY <2>9, <3>1 DEF OwnInv
    <3>2. CASE o \notin objects /\ p \notin objects
      <4>1. PICK i \in 1..k : o = thr'[t].nodes[i] /\ o.n = born + i
        BY <2>1, <3>2
      <4>2. PICK j \in 1..k : p = thr'[t].nodes[j] /\ p.n = born + j
        BY <2>1, <3>2
      <4>3. i = j
        BY <1>0, <2>1, <2>9, <4>1, <4>2
      <4>. QED
        BY <4>1, <4>2, <4>3
    <3>3. \A q \in objects' : q \notin objects => q.n > born
      BY <1>0, <2>1
    <3>. QED
      BY <1>0, <2>7, <2>9, <3>1, <3>2, <3>3
  <2>10. \A d \in Docs : file'[d] # 0 /\ job'.got[d] # 0
    BY <1>0 DEF OwnInv
  <2>. QED
    BY <1>1, <2>6, <2>8, <2>9, <2>10 DEF OwnInv
<1>. QED
  BY <1>2, <1>3

\* Maintenance and restarts make no version.
LEMMA OtherOwn ==
  ASSUME Base, OwnInv, Others
  PROVE  OwnInv'
<1>0. /\ NIL \notin Nat /\ NONE \notin Nat /\ buf \in [Docs -> Pointers \cup {NONE}] /\ file \in [Docs -> Pointers]
      /\ job \in Jobs
      /\ \A d \in Docs : NoJob.got[d] = NONE
      /\ \A d \in Docs : buf[d] # 0 /\ file[d] # 0 /\ job.got[d] # 0
  BY MarksAssumption DEF Base, TypeOK, OwnInv, NoJob
<1>1. ASSUME NEW d \in Docs
      PROVE  /\ buf'[d] \in {buf[d], NONE}
             /\ file'[d] \in {file[d], job.got[d]}
             /\ job'.got[d] \in {job.got[d], buf[d], NONE}
  <2>1. CASE Collects
    <3>1. PICK kind \in {"tick", "flush_all", "compact"} : Collect(kind)
      BY <2>1 DEF Collects
    <3>2. job'.got = buf /\ buf' = buf /\ file' = file
      BY <3>1 DEF Collect, NoJob, state
    <3>. QED
      BY <3>2
  <2>2. CASE WriteFiles
    <3>1. job'.got = job.got /\ buf' = buf /\ file' = Flushed
      BY <1>0, <2>2 DEF WriteFiles, Jobs
    <3>. QED
      BY <3>1 DEF Flushed
  <2>3. CASE Clear
    <3>1. job'.got = NoJob.got /\ file' = file /\ buf' = [e \in Docs |-> IF job.got[e] = NONE THEN buf[e] ELSE NONE]
      BY <1>0, <2>3 DEF Clear, Jobs
    <3>. QED
      BY <1>0, <3>1
  <2>4. CASE ReadSeq
    <3>1. buf' = buf /\ file' = file /\ (job'.got = job.got \/ job' = NoJob)
      BY <1>0, <2>4 DEF ReadSeq, Jobs
    <3>. QED
      BY <1>0, <3>1
  <2>5. CASE WriteManifest
    <3>1. buf' = buf /\ file' = file /\ (job'.got = job.got \/ job' = NoJob)
      BY <1>0, <2>5 DEF WriteManifest, Jobs
    <3>. QED
      BY <1>0, <3>1
  <2>6. CASE Live
    <3>1. buf' = buf /\ file' = file /\ job'.got = job.got
      BY <1>0, <2>6 DEF Live, Jobs, state
    <3>. QED
      BY <3>1
  <2>7. CASE Drop
    BY <1>0, <2>7 DEF Drop
  <2>8. CASE Crash
    BY <1>0, <2>8 DEF Crash
  <2>9. CASE CreateSortedIndex \/ WarmStart \/ ColdStart \/ UNCHANGED vars
    BY <2>9 DEF CreateSortedIndex, WarmStart, ColdStart, state, vars
  <2>10. CASE ScanRead \/ ScanSeq \/ ScanHead \/ ScanManifest
    BY <2>10, ScanStep
  <2>. QED
    BY <2>1, <2>2, <2>3, <2>4, <2>5, <2>6, <2>7, <2>8, <2>9, <2>10 DEF Others
<1>2. /\ born' = born /\ objects' \subseteq objects
      /\ \A t \in Threads : thr'[t] = thr[t] \/ DOMAIN thr'[t].nodes = {}
  BY JobStep, Quiet, ScanStep DEF Others
<1>3. ASSUME NEW d \in Docs, NEW n \in Nat \ {0}, Owns(d, n)' PROVE Owns(d, n)
  <2>0. n # NIL /\ n # NONE
    BY <1>0
  <2>1. CASE n = buf'[d] \/ n = file'[d] \/ n = job'.got[d]
    BY <1>1, <2>0, <2>1 DEF Owns
  <2>2. CASE \E o \in objects' : o.doc = d /\ o.n = n
    BY <1>2, <2>2 DEF Owns
  <2>3. CASE \E t \in Threads : \E i \in DOMAIN thr'[t].nodes : thr'[t].nodes[i].doc = d /\ thr'[t].nodes[i].n = n
    BY <1>2, <2>3 DEF Owns
  <2>. QED
    BY <1>3, <2>1, <2>2, <2>3 DEF Owns
<1>4. \A d \in Docs : buf'[d] # 0 /\ file'[d] # 0 /\ job'.got[d] # 0
  BY <1>0, <1>1
<1>. QED
  BY <1>2, <1>3, <1>4, OwnKept

\* Every version belongs to one document after every step.
LEMMA NextOwnInv == Base /\ OwnInv /\ [Next]_vars => OwnInv'
BY CallOwn, OtherOwn, StepKinds

\* There is no version at the start.
LEMMA InitOwnInv == Init => OwnInv
<1>. SUFFICES ASSUME Init PROVE OwnInv
  OBVIOUS
<1>1. \A d \in Docs : buf[d] = NONE /\ file[d] = NIL /\ job.got[d] = NONE
  BY DEF Init, NoJob
<1>2. objects = {} /\ \A t \in Threads : DOMAIN thr[t].nodes = {}
  BY RestingFacts DEF Init
<1>3. \A d \in Docs, n \in Nat : ~Owns(d, n)
  BY <1>1, <1>2, MarksAssumption DEF Owns
<1>. QED
  BY <1>1, <1>2, <1>3, MarksAssumption DEF OwnInv

-----------------------------------------------------------------------------
(* The pointer of a document.                                               *)

\* The call has set the pointer of its document i.
Moved(t, i) ==
  \/ thr[t].pc = "set" /\ i \notin thr[t].todo
  \/ thr[t].pc = "sort"
  \/ thr[t].kind # "delete" /\ thr[t].pc \in {"read", "chain"}

On(t, i, d) == i \in DOMAIN thr[t].nodes /\ thr[t].nodes[i].doc = d

\* One call at a time.
OneCall(d) == \A s, t \in Busy(d) : s = t

\* What a flush is about to write is what the buffer holds.
Flushing(d) ==
  UnderFlush(d) => buf[d] = job.got[d] /\ (job.pc = "clear" => file[d] = job.got[d])

\* The pointer is where the last call left it, until the call in progress moves it.
Points(d) ==
  /\ \A t \in Threads, i \in {1, 2} : On(t, i, d) =>
       /\ Current(d) = IF Moved(t, i) THEN thr[t].nodes[i].n ELSE latest[d]
       /\ thr[t].pc \in {"seq", "write"} => thr[t].nodes[i].prev = Current(d)
  /\ Busy(d) = {} => Current(d) = latest[d]

\* The objects it points to, or will point to, are there.
Present(d) ==
  /\ Current(d) # NIL => \E o \in objects : o.n = Current(d)
  /\ \A t \in Threads, i \in {1, 2} : On(t, i, d) /\ ~Before(t) => thr[t].nodes[i] \in objects

\* A compaction between its two halves keeps the current version and no other.
Compacting(d) ==
  job.pc = "drop" =>
    /\ Current(d) # NIL => Current(d) \in job.live
    /\ \A t \in Busy(d) : ~Halfway(t)
    /\ \A o \in objects : o.doc = d /\ o.n \in job.live => o.n = Current(d)

\* The newest object is the current version, or a tombstone, or about to be current.
Tip(d) ==
  \A p \in objects : p.doc = d /\ ~p.del /\ (\A q \in objects : q.doc = d => q.n <= p.n) =>
    \/ Current(d) = p.n
    \/ \E t \in Threads, i \in {1, 2} :
         On(t, i, d) /\ thr[t].pc = "set" /\ i \in thr[t].todo /\ thr[t].nodes[i].n = p.n

\* The object of a call is newer than all others of the document, and so is its seq.
Newest(d) ==
  \A t \in Threads, i \in {1, 2}, q \in objects : On(t, i, d) /\ q.doc = d =>
    /\ ~Before(t) => q.n <= thr[t].nodes[i].n
    /\ Assigned(t) /\ ~behind => q.seq < thr[t].nodes[i].seq

Settled(d) ==
  /\ OneCall(d) /\ Flushing(d) /\ Points(d) /\ Present(d) /\ Compacting(d) /\ Tip(d) /\ Newest(d)

PointerInv == \A d \in Docs \ unsure : Settled(d)

Inv == Base /\ SeqInv /\ OwnInv /\ PointerInv

\* The indexes of a call.
LEMMA IndexFacts ==
  ASSUME NEW c \in Calls, Shape(c)
  PROVE  /\ DOMAIN c.nodes \subseteq {1, 2}
         /\ \A i, j \in DOMAIN c.nodes : c.nodes[i].doc = c.nodes[j].doc => i = j
         /\ \A i \in DOMAIN c.nodes : c.nodes[i] \in Nodes /\ c.nodes[i].doc \in Docs
<1>0. c.nodes \in Seq(Nodes)
  BY DEF Calls
<1>1. DOMAIN c.nodes \subseteq {1, 2}
  <2>1. CASE c.pc = "idle"
    <3>1. c.nodes = << >> /\ DOMAIN << >> = {}
      BY <2>1 DEF Shape
    <3>. QED
      BY <3>1
  <2>2. CASE c.pc # "idle"
    <3>1. Len(c.nodes) \in {1, 2} /\ DOMAIN c.nodes = 1..Len(c.nodes)
      BY <1>0, <2>2, LenProperties DEF Shape
    <3>. QED
      BY <3>1, OneOrTwo
  <2>. QED
    BY <2>1, <2>2
<1>2. \A i, j \in DOMAIN c.nodes : c.nodes[i].doc = c.nodes[j].doc => i = j
  BY DEF Shape
<1>3. \A i \in DOMAIN c.nodes : c.nodes[i] \in Nodes /\ c.nodes[i].doc \in Docs
  <2>1. \A i \in DOMAIN c.nodes : i \in 1..Len(c.nodes)
    BY <1>0, LenProperties
  <2>2. \A i \in DOMAIN c.nodes : c.nodes[i] \in Nodes
    BY <1>0, <2>1, ElementOfSeq
  <2>. QED
    BY <2>2 DEF Nodes
<1>. QED
  BY <1>1, <1>2, <1>3

\* The documents of a call.
LEMMA OnFacts ==
  ASSUME Base, NEW t \in Threads, NEW d
  PROVE  /\ t \in Busy(d) <=> \E i \in {1, 2} : On(t, i, d)
         /\ \A i, j : On(t, i, d) /\ On(t, j, d) => i = j
         /\ \A i \in DOMAIN thr[t].nodes : i \in {1, 2} /\ thr[t].nodes[i].doc \in Docs /\ On(t, i, thr[t].nodes[i].doc)
<1>1. thr[t] \in Calls /\ Shape(thr[t])
  BY DEF Base, TypeOK, Shapes
<1>2. t \in Busy(d) <=> \E i \in {1, 2} : On(t, i, d)
  BY <1>1, IndexFacts DEF Busy, Written, On
<1>. QED
  BY <1>1, <1>2, IndexFacts DEF On

\* The same after a step.
LEMMA OnFactsNext ==
  ASSUME Base', NEW t \in Threads, NEW d
  PROVE  /\ t \in Busy(d)' <=> \E i \in {1, 2} : On(t, i, d)'
         /\ \A i, j : On(t, i, d)' /\ On(t, j, d)' => i = j
         /\ \A i \in DOMAIN thr'[t].nodes : i \in {1, 2} /\ (thr'[t].nodes[i].doc = d => On(t, i, d)')
<1>1. thr'[t] \in Calls /\ Shape(thr'[t])
  BY DEF Base, TypeOK, Shapes
<1>2. t \in Busy(d)' <=> \E i \in {1, 2} : On(t, i, d)'
  BY <1>1, IndexFacts DEF Busy, Written, On
<1>3. ASSUME NEW i \in DOMAIN thr'[t].nodes, thr'[t].nodes[i].doc = d PROVE On(t, i, d)'
  BY <1>3 DEF On
<1>4. \A i, j : On(t, i, d)' /\ On(t, j, d)' => i = j
  BY <1>1, IndexFacts DEF On
<1>. QED
  BY <1>1, <1>2, <1>3, <1>4, IndexFacts

\* What Settled(d) looks at.
SameDocument(d) ==
  /\ buf'[d] = buf[d] /\ file'[d] = file[d] /\ latest'[d] = latest[d] /\ job' = job
  /\ behind => behind'
  /\ objects \subseteq objects' /\ \A o \in objects' : o.doc = d => o \in objects

SameCalls(d) ==
  \A s \in Threads, i \in {1, 2} : /\ On(s, i, d)' <=> On(s, i, d)
                                   /\ On(s, i, d) => thr'[s] = thr[s]

\* A step that does not touch the document.
LEMMA SettledSame ==
  ASSUME Base, Base', NEW d \in Docs, Settled(d), SameDocument(d), SameCalls(d)
  PROVE  Settled(d)'
<1>1. Current(d)' = Current(d) /\ UnderFlush(d)' = UnderFlush(d)
  BY DEF Current, UnderFlush, SameDocument
<1>2. \A s \in Threads : s \in Busy(d)' <=> s \in Busy(d)
  <2>1. \A s \in Threads : s \in Busy(d) <=> \E i \in {1, 2} : On(s, i, d)
    BY OnFacts
  <2>2. \A s \in Threads : s \in Busy(d)' <=> \E i \in {1, 2} : On(s, i, d)'
    BY OnFactsNext
  <2>. QED
    BY <2>1, <2>2 DEF SameCalls
<1>3. \A s \in Threads, i \in {1, 2} : On(s, i, d)' =>
        /\ On(s, i, d) /\ thr'[s] = thr[s] /\ Moved(s, i)' = Moved(s, i)
        /\ Before(s)' = Before(s) /\ Assigned(s)' = Assigned(s)
  BY DEF SameCalls, Moved, Before, Assigned
<1>4. OneCall(d)'
  <2>1. \A s \in Busy(d)' : s \in Busy(d)
    BY <1>2 DEF Busy
  <2>. QED
    BY <2>1 DEF Settled, OneCall
<1>5. Flushing(d)'
  BY <1>1 DEF Settled, Flushing, SameDocument
<1>6. Points(d)'
  <2>1. (Busy(d) = {})' => Busy(d) = {}
    BY <1>2 DEF Busy
  <2>. QED
    BY <1>1, <1>3, <2>1 DEF Settled, Points, SameDocument
<1>7. Present(d)'
  BY <1>1, <1>3 DEF Settled, Present, SameDocument
<1>8. Compacting(d)'
  <2>1. \A s \in Busy(d)' : s \in Busy(d) /\ Halfway(s)' = Halfway(s)
    <3>1. ASSUME NEW s \in Threads, s \in Busy(d)' PROVE Halfway(s)' = Halfway(s)
      <4>1. thr'[s] = thr[s]
        BY <1>3, <3>1, OnFactsNext
      <4>. QED
        BY <4>1 DEF Halfway
    <3>. QED
      BY <1>2, <3>1 DEF Busy
  <2>. QED
    BY <1>1, <2>1 DEF Settled, Compacting, SameDocument
<1>9. Tip(d)'
  <2>. SUFFICES ASSUME NEW p \in objects', p.doc = d, ~p.del, \A q \in objects' : q.doc = d => q.n <= p.n
                PROVE  \/ Current(d)' = p.n
                       \/ \E t \in Threads, i \in {1, 2} :
                            On(t, i, d)' /\ thr'[t].pc = "set" /\ i \in thr'[t].todo /\ thr'[t].nodes[i].n = p.n
    BY DEF Tip
  <2>1. p \in objects /\ \A q \in objects : q.doc = d => q.n <= p.n
    BY DEF SameDocument
  <2>2. CASE Current(d) = p.n
    BY <1>1, <2>2
  <2>3. ASSUME NEW t \in Threads, NEW i \in {1, 2}, On(t, i, d), thr[t].pc = "set", i \in thr[t].todo, thr[t].nodes[i].n = p.n
        PROVE  On(t, i, d)' /\ thr'[t].pc = "set" /\ i \in thr'[t].todo /\ thr'[t].nodes[i].n = p.n
    BY <2>3 DEF SameCalls
  <2>. QED
    BY <2>1, <2>2, <2>3 DEF Settled, Tip
<1>10. Newest(d)'
  BY <1>3 DEF Settled, Newest, SameDocument
<1>. QED
  BY <1>4, <1>5, <1>6, <1>7, <1>8, <1>9, <1>10 DEF Settled

\* A call that does not write the document.
LEMMA CallApart ==
  ASSUME Base, Base', NEW t \in Threads, CallActs(t), NEW d \in Docs, t \notin Busy(d), t \notin Busy(d)'
  PROVE  SameDocument(d) /\ SameCalls(d)
<1>0. file' = file /\ job' = job /\ (behind => behind')
  BY CallKeepsUp
<1>1. \A i : ~On(t, i, d)
  BY OnFacts DEF On
<1>2. \A i \in {1, 2} : ~On(t, i, d)'
  BY OnFactsNext
<1>3. SameCalls(d)
  <2>1. ASSUME NEW s \in Threads, s # t, NEW i \in {1, 2}
        PROVE  (On(s, i, d)' <=> On(s, i, d)) /\ thr'[s] = thr[s]
    BY <2>1, OthersSame DEF On
  <2>. QED
    BY <1>1, <1>2, <2>1 DEF SameCalls
<1>4. \A i \in DOMAIN thr[t].nodes : thr[t].nodes[i].doc # d
  BY <1>1 DEF On
<1>5. buf'[d] = buf[d]
  <2>0. buf \in [Docs -> Pointers \cup {NONE}]
    BY DEF Base, TypeOK
  <2>1. CASE \E j \in {1, 2} : SetOne(t, j)
    <3>1. PICK j \in {1, 2} : SetOne(t, j)
      BY <2>1
    <3>2. j \in DOMAIN thr[t].nodes /\ buf' = [buf EXCEPT ![thr[t].nodes[j].doc] = thr[t].nodes[j].n]
      BY <3>1, SetOneStep DEF SetOne, SetPointer
    <3>. QED
      BY <1>4, <2>0, <3>2
  <2>2. CASE Remove(t)
    <3>1. 1 \in DOMAIN thr[t].nodes /\ buf' = [buf EXCEPT ![thr[t].nodes[1].doc] = NIL]
      BY <2>2, RemoveStep DEF Remove, Removed, SetPointer
    <3>. QED
      BY <1>4, <2>0, <3>1
  <2>3. CASE ~Remove(t) /\ ~ \E j \in {1, 2} : SetOne(t, j)
    BY <2>3 DEF CallActs, Begins, Call, ReadPrev, TakeSeq, WriteObjects, Sort, ReadHead, Chain, state
  <2>. QED
    BY <2>1, <2>2, <2>3
<1>6. latest'[d] = latest[d]
  <2>1. CASE Chain(t)
    <3>1. latest' = latest \/ latest' = Returned(t)
      BY <2>1, ChainStep
    <3>2. d \notin Written(t)
      BY <1>4 DEF Written
    <3>. QED
      BY <3>1, <3>2 DEF Returned
  <2>2. CASE Remove(t)
    <3>1. 1 \in DOMAIN thr[t].nodes /\ latest' = [latest EXCEPT ![thr[t].nodes[1].doc] = NIL]
      BY <2>2, RemoveStep DEF Remove
    <3>. QED
      BY <1>4, <3>1 DEF Base, TypeOK
  <2>3. CASE ~Remove(t) /\ ~Chain(t)
    BY <2>3 DEF CallActs, Begins, Call, ReadPrev, TakeSeq, WriteObjects, SetOne, Sort, ReadHead, state
  <2>. QED
    BY <2>1, <2>2, <2>3
<1>7. objects \subseteq objects' /\ \A o \in objects' : o.doc = d => o \in objects
  <2>1. CASE WriteObjects(t)
    BY <1>4, <2>1, WriteObjectsStep
  <2>2. CASE ~WriteObjects(t)
    BY <2>2 DEF CallActs, Begins, Call, ReadPrev, TakeSeq, SetOne, Sort, ReadHead, Chain, Remove, state
  <2>. QED
    BY <2>1, <2>2
<1>. QED
  BY <1>0, <1>3, <1>5, <1>6, <1>7 DEF SameDocument

\* The document is in the hands of one call, at its node i.
LEMMA SettledAlone ==
  ASSUME Base', NEW d \in Docs, NEW t \in Threads, NEW i \in {1, 2},
         \A s \in Threads, j \in {1, 2} : On(s, j, d)' <=> s = t /\ j = i,
         Flushing(d)', Tip(d)',
         Current(d)' = IF Moved(t, i)' THEN thr'[t].nodes[i].n ELSE latest'[d],
         thr'[t].pc \in {"seq", "write"} => thr'[t].nodes[i].prev = Current(d)',
         Current(d)' # NIL => \E o \in objects' : o.n = Current(d)',
         ~Before(t)' => thr'[t].nodes[i] \in objects',
         job'.pc = "drop" => /\ (Current(d)' # NIL => Current(d)' \in job'.live) /\ ~Halfway(t)'
                             /\ \A o \in objects' : o.doc = d /\ o.n \in job'.live => o.n = Current(d)',
         \A q \in objects' : q.doc = d => /\ ~Before(t)' => q.n <= thr'[t].nodes[i].n
                                          /\ Assigned(t)' /\ ~behind' => q.seq < thr'[t].nodes[i].seq
  PROVE  Settled(d)'
<1>1. \A s \in Threads : s \in Busy(d)' <=> s = t
  BY OnFactsNext
<1>2. \A s \in Busy(d)' : s = t
  BY <1>1 DEF Busy
<1>3. OneCall(d)'
  BY <1>2 DEF OneCall
<1>4. Points(d)'
  BY <1>1 DEF Points
<1>5. Present(d)'
  BY DEF Present
<1>6. Compacting(d)'
  BY <1>2 DEF Compacting
<1>7. Newest(d)'
  BY DEF Newest
<1>. QED
  BY <1>3, <1>4, <1>5, <1>6, <1>7 DEF Settled

\* No call is on the document.
LEMMA SettledIdle ==
  ASSUME Base', NEW d \in Docs,
         \A s \in Threads, j \in {1, 2} : ~On(s, j, d)',
         Flushing(d)', Tip(d)',
         Current(d)' = latest'[d],
         Current(d)' # NIL => \E o \in objects' : o.n = Current(d)',
         job'.pc = "drop" => /\ (Current(d)' # NIL => Current(d)' \in job'.live)
                             /\ \A o \in objects' : o.doc = d /\ o.n \in job'.live => o.n = Current(d)'
  PROVE  Settled(d)'
<1>1. \A s \in Threads : s \notin Busy(d)'
  BY OnFactsNext
<1>2. \A s \in Busy(d)' : FALSE
  BY <1>1 DEF Busy
<1>3. OneCall(d)' /\ Points(d)' /\ Present(d)' /\ Compacting(d)' /\ Newest(d)'
  BY <1>2 DEF OneCall, Points, Present, Compacting, Newest
<1>. QED
  BY <1>3 DEF Settled

\* The other calls stay away from a document that t is on.
LEMMA CallAlone ==
  ASSUME Base, NEW t \in Threads, CallActs(t), NEW d \in Docs, OneCall(d), NEW i \in {1, 2}, On(t, i, d)
  PROVE  /\ \A s \in Threads, j \in {1, 2} : On(s, j, d) => s = t /\ j = i
         /\ \A s \in Threads, j \in {1, 2} : On(s, j, d)' => s = t
<1>1. t \in Busy(d)
  BY OnFacts
<1>2. \A s \in Threads, j \in {1, 2} : On(s, j, d) => s = t /\ j = i
  BY <1>1, OnFacts DEF OneCall
<1>3. \A s \in Threads, j \in {1, 2} : s # t => (On(s, j, d)' <=> On(s, j, d))
  BY OthersSame DEF On
<1>. QED
  BY <1>2, <1>3

\* A later step of the call that moves no pointer.
LEMMA SettledStays ==
  ASSUME Base, Base', NEW t \in Threads, CallActs(t), NEW d \in Docs, Settled(d), NEW i \in {1, 2}, On(t, i, d),
         SameDocument(d), Stays(t), ~Before(t), ~Before(t)',
         Moved(t, i)' <=> Moved(t, i), Halfway(t)' => Halfway(t),
         thr[t].pc = "set" /\ i \in thr[t].todo => thr'[t].pc = "set" /\ i \in thr'[t].todo
  PROVE  Settled(d)'
<1>0. OneCall(d) /\ Flushing(d) /\ Points(d) /\ Present(d) /\ Compacting(d) /\ Tip(d) /\ Newest(d)
  BY DEF Settled
<1>1. /\ \A s \in Threads, j \in {1, 2} : On(s, j, d) => s = t /\ j = i
      /\ \A s \in Threads, j \in {1, 2} : On(s, j, d)' => s = t
  BY <1>0, CallAlone
<1>2. \A j : On(t, j, d)' <=> On(t, j, d)
  BY DEF On, Stays
<1>3. \A s \in Threads, j \in {1, 2} : On(s, j, d)' <=> s = t /\ j = i
  BY <1>1, <1>2
<1>4. Current(d)' = Current(d) /\ UnderFlush(d)' = UnderFlush(d)
  BY DEF Current, UnderFlush, SameDocument
<1>5. Flushing(d)'
  BY <1>0, <1>4 DEF Flushing, SameDocument
<1>6. Tip(d)'
  <2>. SUFFICES ASSUME NEW p \in objects', p.doc = d, ~p.del, \A q \in objects' : q.doc = d => q.n <= p.n
                PROVE  \/ Current(d)' = p.n
                       \/ \E s \in Threads, j \in {1, 2} :
                            On(s, j, d)' /\ thr'[s].pc = "set" /\ j \in thr'[s].todo /\ thr'[s].nodes[j].n = p.n
    BY DEF Tip
  <2>1. p \in objects /\ \A q \in objects : q.doc = d => q.n <= p.n
    BY DEF SameDocument
  <2>2. CASE Current(d) = p.n
    BY <1>4, <2>2
  <2>3. ASSUME NEW s \in Threads, NEW j \in {1, 2}, On(s, j, d), thr[s].pc = "set", j \in thr[s].todo, thr[s].nodes[j].n = p.n
        PROVE  On(s, j, d)' /\ thr'[s].pc = "set" /\ j \in thr'[s].todo /\ thr'[s].nodes[j].n = p.n
    <3>1. s = t /\ j = i
      BY <1>1, <2>3
    <3>. QED
      BY <1>3, <2>3, <3>1 DEF Stays
  <2>. QED
    BY <1>0, <2>1, <2>2, <2>3 DEF Tip
<1>7. Current(d)' = IF Moved(t, i)' THEN thr'[t].nodes[i].n ELSE latest'[d]
  BY <1>0, <1>4 DEF Points, Stays, SameDocument
<1>8. Current(d)' # NIL => \E o \in objects' : o.n = Current(d)'
  BY <1>0, <1>4 DEF Present, SameDocument
<1>9. thr'[t].nodes[i] \in objects'
  BY <1>0 DEF Present, Stays, SameDocument
<1>10. job'.pc = "drop" => /\ (Current(d)' # NIL => Current(d)' \in job'.live) /\ ~Halfway(t)'
                           /\ \A o \in objects' : o.doc = d /\ o.n \in job'.live => o.n = Current(d)'
  BY <1>0, <1>4, OnFacts DEF Compacting, SameDocument
<1>11. \A q \in objects' : q.doc = d => q.n <= thr'[t].nodes[i].n
  BY <1>0 DEF Newest, Stays, SameDocument
<1>12. thr'[t].pc \notin {"seq", "write"} /\ ~Assigned(t)'
  BY DEF Before, Assigned
<1>. QED
  BY <1>3, <1>5, <1>6, <1>7, <1>8, <1>9, <1>10, <1>11, <1>12, SettledAlone

\* A step of a call before it writes its objects.
LEMMA SettledEarly ==
  ASSUME Base, Base', NEW t \in Threads, CallActs(t), NEW d \in Docs, Settled(d), SameDocument(d), NEW i \in {1, 2},
         \A s \in Threads, j \in {1, 2} : On(s, j, d) => s = t,
         \A s \in Threads, j \in {1, 2} : On(s, j, d)' <=> s = t /\ j = i,
         \A j \in {1, 2} : On(t, j, d) => Before(t), Before(t)',
         thr'[t].pc \in {"seq", "write"} => thr'[t].nodes[i].prev = Current(d),
         Assigned(t)' /\ ~behind' => \A q \in objects : q.doc = d => q.seq < thr'[t].nodes[i].seq
  PROVE  Settled(d)'
<1>0. OneCall(d) /\ Flushing(d) /\ Points(d) /\ Present(d) /\ Compacting(d) /\ Tip(d) /\ Newest(d)
  BY DEF Settled
<1>1. Current(d)' = Current(d) /\ UnderFlush(d)' = UnderFlush(d)
  BY DEF Current, UnderFlush, SameDocument
<1>2. Flushing(d)'
  BY <1>0, <1>1 DEF Flushing, SameDocument
<1>3. \A j \in {1, 2} : On(t, j, d) => ~Moved(t, j)
  BY DEF Before, Moved
<1>4. Current(d) = latest[d]
  <2>1. CASE Busy(d) = {}
    BY <1>0, <2>1 DEF Points
  <2>2. CASE Busy(d) # {}
    <3>1. PICK s \in Threads : s \in Busy(d)
      BY <2>2 DEF Busy
    <3>2. PICK j \in {1, 2} : On(s, j, d)
      BY <3>1, OnFacts
    <3>3. s = t /\ ~Moved(t, j)
      BY <1>3, <3>2
    <3>. QED
      BY <1>0, <3>2, <3>3 DEF Points
  <2>. QED
    BY <2>1, <2>2
<1>5. Tip(d)'
  <2>. SUFFICES ASSUME NEW p \in objects', p.doc = d, ~p.del, \A q \in objects' : q.doc = d => q.n <= p.n
                PROVE  Current(d)' = p.n
    BY DEF Tip
  <2>1. p \in objects /\ \A q \in objects : q.doc = d => q.n <= p.n
    BY DEF SameDocument
  <2>2. \A s \in Threads, j \in {1, 2} : On(s, j, d) => thr[s].pc # "set"
    BY DEF Before
  <2>. QED
    BY <1>0, <1>1, <2>1, <2>2 DEF Tip
<1>6. ~Moved(t, i)' /\ ~Halfway(t)'
  BY DEF Before, Moved, Halfway
<1>7. Current(d)' # NIL => \E o \in objects' : o.n = Current(d)'
  BY <1>0, <1>1 DEF Present, SameDocument
<1>8. job'.pc = "drop" => /\ (Current(d)' # NIL => Current(d)' \in job'.live) /\ ~Halfway(t)'
                          /\ \A o \in objects' : o.doc = d /\ o.n \in job'.live => o.n = Current(d)'
  BY <1>0, <1>1, <1>6 DEF Compacting, SameDocument
<1>9. \A q \in objects' : q.doc = d => /\ ~Before(t)' => q.n <= thr'[t].nodes[i].n
                                       /\ Assigned(t)' /\ ~behind' => q.seq < thr'[t].nodes[i].seq
  BY DEF SameDocument
<1>10. Current(d)' = IF Moved(t, i)' THEN thr'[t].nodes[i].n ELSE latest'[d]
  BY <1>1, <1>4, <1>6 DEF SameDocument
<1>11. thr'[t].pc \in {"seq", "write"} => thr'[t].nodes[i].prev = Current(d)'
  BY <1>1
<1>. QED
  BY <1>2, <1>5, <1>7, <1>8, <1>9, <1>10, <1>11, SettledAlone

\* A call begins: on a document that is busy it makes it unsure.
LEMMA BeginsSettled ==
  ASSUME Inv, Base', NEW t \in Threads, Begins(t), NEW d \in Docs, d \notin unsure', t \in Busy(d)'
  PROVE  Settled(d)'
<1>0. Base /\ SeqInv /\ CallActs(t)
  BY DEF Inv, CallActs
<1>1. PICK kind \in {"put", "batch", "delete"}, ds \in Seq(Docs), has \in Seq(BOOLEAN) :
          Arguments(kind, ds, has) /\ Call(t, kind, ds, has)
  BY DEF Begins
<1>2. PICK i \in {1, 2} : On(t, i, d)'
  BY <1>0, OnFactsNext
<1>3. /\ DOMAIN thr'[t].nodes = 1..Len(ds) /\ i \in 1..Len(ds) /\ ds[i] = d
      /\ thr'[t].nodes[i].seq = (IF kind = "delete" THEN 0 ELSE seq + i - 1)
      /\ thr'[t].pc = "prev" /\ thr'[t].kind = kind /\ DOMAIN ds = 1..Len(ds) /\ thr[t].nodes = << >>
  BY <1>0, <1>1, <1>2, CallStep, LenProperties DEF On
<1>4. d \notin unsure /\ Busy(d) = {}
  BY <1>1, <1>3 DEF Call
<1>5. Settled(d)
  BY <1>4 DEF Inv, PointerInv
<1>6. SameDocument(d)
  BY <1>1 DEF Call, SameDocument
<1>7. \A s \in Threads, j \in {1, 2} : ~On(s, j, d)
  BY <1>0, <1>4, OnFacts
<1>8. \A s \in Threads, j \in {1, 2} : On(s, j, d)' <=> s = t /\ j = i
  <2>1. \A s \in Threads, j \in {1, 2} : s # t => (On(s, j, d)' <=> On(s, j, d))
    BY <1>0, OthersSame DEF On
  <2>2. \A j \in {1, 2} : On(t, j, d)' => j = i
    BY <1>0, <1>2, OnFactsNext
  <2>. QED
    BY <1>2, <1>7, <2>1, <2>2
<1>9. ASSUME Assigned(t)', ~behind' PROVE \A q \in objects : q.seq < thr'[t].nodes[i].seq
  <2>1. kind # "delete" /\ behind' = behind
    BY <1>1, <1>3, <1>9 DEF Assigned, Call
  <2>0. ~behind
    BY <1>9, <2>1, Zenon
  <2>2. \A q \in objects : q.seq < seq /\ q.seq \in Nat
    BY <1>0, <1>1, <2>0, <2>1 DEF SeqInv, SeqHeld, Call, Base, TypeOK, Nodes
  <2>3. seq \in Nat /\ thr'[t].nodes[i].seq = seq + i - 1
    BY <1>0, <1>3, <2>1 DEF Base, TypeOK
  <2>. QED
    BY <2>2, <2>3
<1>10. Before(t)' /\ thr'[t].pc \notin {"seq", "write"}
  BY <1>3 DEF Before
<1>. QED
  BY <1>0, <1>5, <1>6, <1>7, <1>8, <1>9, <1>10, SettledEarly

\* The call reads the pointer.
LEMMA ReadPrevSettled ==
  ASSUME Inv, Base', NEW t \in Threads, ReadPrev(t), NEW d \in Docs, d \notin unsure', NEW i \in {1, 2}, On(t, i, d)
  PROVE  Settled(d)'
<1>0. Base /\ SeqInv /\ CallActs(t)
  BY DEF Inv, CallActs
<1>1. d \notin unsure /\ Settled(d) /\ SameDocument(d)
  BY DEF Inv, PointerInv, ReadPrev, SameDocument
<1>2. /\ \A s \in Threads, j \in {1, 2} : On(s, j, d) => s = t /\ j = i
      /\ \A s \in Threads, j \in {1, 2} : On(s, j, d)' => s = t
  BY <1>0, <1>1, CallAlone DEF Settled
<1>3. thr[t].pc = "prev"
  BY DEF ReadPrev
<1>4. CASE thr'[t] = Resting
  <2>0. OneCall(d) /\ Flushing(d) /\ Points(d) /\ Present(d) /\ Compacting(d) /\ Tip(d) /\ Newest(d)
    BY <1>1 DEF Settled
  <2>1. \A s \in Threads, j \in {1, 2} : ~On(s, j, d)'
    BY <1>2, <1>4, RestingFacts DEF On
  <2>2. Current(d)' = Current(d) /\ UnderFlush(d)' = UnderFlush(d)
    BY <1>1 DEF Current, UnderFlush, SameDocument
  <2>3. Flushing(d)'
    BY <1>1, <2>0, <2>2 DEF Flushing, SameDocument
  <2>4. Tip(d)'
    <3>. SUFFICES ASSUME NEW p \in objects', p.doc = d, ~p.del, \A q \in objects' : q.doc = d => q.n <= p.n
                  PROVE  Current(d)' = p.n
      BY DEF Tip
    <3>1. p \in objects /\ \A q \in objects : q.doc = d => q.n <= p.n
      BY <1>1 DEF SameDocument
    <3>2. \A s \in Threads, j \in {1, 2} : On(s, j, d) => thr[s].pc # "set"
      BY <1>2, <1>3
    <3>. QED
      BY <2>0, <2>2, <3>1, <3>2 DEF Tip
  <2>5. Current(d)' = latest'[d]
    <3>1. ~Moved(t, i)
      BY <1>3 DEF Moved
    <3>. QED
      BY <1>1, <2>0, <2>2, <3>1 DEF Points, SameDocument
  <2>6. Current(d)' # NIL => \E o \in objects' : o.n = Current(d)'
    BY <1>1, <2>0, <2>2 DEF Present, SameDocument
  <2>7. job'.pc = "drop" => /\ (Current(d)' # NIL => Current(d)' \in job'.live)
                            /\ \A o \in objects' : o.doc = d /\ o.n \in job'.live => o.n = Current(d)'
    BY <1>1, <2>0, <2>2 DEF Compacting, SameDocument
  <2>. QED
    BY <2>1, <2>3, <2>4, <2>5, <2>6, <2>7, SettledIdle
<1>5. CASE thr'[t] # Resting
  <2>1. /\ thr'[t].pc \in {"seq", "write"} /\ (thr'[t].pc = "write" => thr[t].kind # "delete")
        /\ thr'[t].kind = thr[t].kind
        /\ DOMAIN thr'[t].nodes = DOMAIN thr[t].nodes
        /\ \A j \in DOMAIN thr[t].nodes : /\ thr'[t].nodes[j].doc = thr[t].nodes[j].doc
                                          /\ thr'[t].nodes[j].seq = thr[t].nodes[j].seq
                                          /\ thr'[t].nodes[j].prev = Current(thr[t].nodes[j].doc)
    BY <1>0, <1>5, ReadPrevStep
  <2>2. thr[t].nodes[i].doc = d /\ i \in DOMAIN thr[t].nodes
    BY DEF On
  <2>3. \A j \in {1, 2} : On(t, j, d)' <=> On(t, j, d)
    BY <2>1 DEF On
  <2>4. \A s \in Threads, j \in {1, 2} : On(s, j, d)' <=> s = t /\ j = i
    BY <1>2, <2>3
  <2>5. thr'[t].nodes[i].prev = Current(d) /\ Before(t) /\ Before(t)'
    BY <1>3, <2>1, <2>2 DEF Before
  <2>6. ASSUME Assigned(t)', ~behind' PROVE \A q \in objects : q.doc = d => q.seq < thr'[t].nodes[i].seq
    <3>1. Assigned(t)
      BY <1>3, <2>1, <2>6 DEF Assigned
    <3>2. behind' = behind
      BY DEF ReadPrev
    <3>3. ~behind
      BY <2>6, <3>2, Zenon
    <3>. QED
      BY <1>1, <2>1, <2>2, <3>1, <3>3 DEF Settled, Newest
  <2>. QED
    BY <1>0, <1>1, <1>2, <2>4, <2>5, <2>6, SettledEarly
<1>. QED
  BY <1>4, <1>5

\* A delete takes its seq.
LEMMA TakeSeqSettled ==
  ASSUME Inv, Base', NEW t \in Threads, TakeSeq(t), NEW d \in Docs, d \notin unsure', NEW i \in {1, 2}, On(t, i, d)
  PROVE  Settled(d)'
<1>0. Base /\ SeqInv /\ CallActs(t)
  BY DEF Inv, CallActs
<1>1. d \notin unsure /\ Settled(d) /\ SameDocument(d)
  <2>1. behind => behind'
    BY <1>0, CallKeepsUp
  <2>. QED
    BY <2>1 DEF Inv, PointerInv, TakeSeq, SameDocument
<1>2. /\ \A s \in Threads, j \in {1, 2} : On(s, j, d) => s = t /\ j = i
      /\ \A s \in Threads, j \in {1, 2} : On(s, j, d)' => s = t
  BY <1>0, <1>1, CallAlone DEF Settled
<1>3. /\ thr[t].pc = "seq" /\ thr'[t].pc = "write" /\ DOMAIN thr[t].nodes = {1} /\ DOMAIN thr'[t].nodes = {1}
      /\ thr'[t].nodes[1].doc = thr[t].nodes[1].doc /\ thr'[t].nodes[1].prev = thr[t].nodes[1].prev
      /\ thr'[t].nodes[1].seq = seq
  BY <1>0, TakeSeqStep
<1>4. i = 1 /\ \A j \in {1, 2} : On(t, j, d)' <=> On(t, j, d)
  BY <1>3 DEF On
<1>5. \A s \in Threads, j \in {1, 2} : On(s, j, d)' <=> s = t /\ j = i
  BY <1>2, <1>4
<1>6. thr'[t].nodes[i].prev = Current(d) /\ Before(t) /\ Before(t)'
  BY <1>1, <1>3, <1>4 DEF Before, Settled, Points
<1>7. ASSUME ~behind' PROVE \A q \in objects : q.doc = d => q.seq < thr'[t].nodes[i].seq
  <2>1. behind' = (behind \/ up \in {"cold", "read"})
    BY DEF TakeSeq
  <2>2. ~behind /\ ~(up \in {"cold", "read"})
    BY <1>7, <2>1, Zenon
  <2>3. up \in {"ready", "numbered", "headed"}
    BY <1>0, <2>2, CallKeepsUp DEF Base, TypeOK
  <2>. QED
    BY <1>0, <1>3, <1>4, <2>2, <2>3 DEF SeqInv, SeqHeld
<1>. QED
  BY <1>0, <1>1, <1>2, <1>5, <1>6, <1>7, SettledEarly

\* The numbers of the objects there are.
LEMMA ObjectNumbers ==
  ASSUME Base, OwnInv
  PROVE  born \in Nat /\ \A o \in objects : o.n \in Nat \ {0} /\ o.n <= born /\ o.doc \in Docs /\ o.seq \in Nat
<1>1. \A o \in objects : o.n \in Nat \ {0} /\ o.doc \in Docs /\ o.seq \in Nat
  BY DEF Base, TypeOK, Nodes, OwnInv
<1>2. \A o \in objects : Owns(o.doc, o.n)
  BY DEF Owns
<1>. QED
  BY <1>1, <1>2 DEF OwnInv, Base, TypeOK

\* The objects are written, newer than all others.
LEMMA WriteSettled ==
  ASSUME Inv, Base', NEW t \in Threads, WriteObjects(t), NEW d \in Docs, d \notin unsure', NEW i \in {1, 2}, On(t, i, d)
  PROVE  Settled(d)'
<1>0. Base /\ OwnInv /\ CallActs(t)
  BY DEF Inv, CallActs
<1>1. /\ d \notin unsure /\ Settled(d) /\ job.pc # "drop"
      /\ buf' = buf /\ file' = file /\ latest' = latest /\ job' = job /\ behind' = behind
  <2>1. d \in Written(t)
    BY DEF On, Written
  <2>. QED
    BY <2>1 DEF Inv, PointerInv, WriteObjects
<1>2. OneCall(d) /\ Flushing(d) /\ Points(d) /\ Present(d) /\ Tip(d) /\ Newest(d)
  BY <1>1 DEF Settled
<1>3. /\ \A s \in Threads, j \in {1, 2} : On(s, j, d) => s = t /\ j = i
      /\ \A s \in Threads, j \in {1, 2} : On(s, j, d)' => s = t
  BY <1>0, <1>2, CallAlone
<1>4. /\ thr[t].pc = "write" /\ thr'[t].pc \in {"read", "set"} /\ thr'[t].kind = thr[t].kind
      /\ thr'[t].pc = "read" => thr[t].kind = "delete"
      /\ DOMAIN thr'[t].nodes = DOMAIN thr[t].nodes /\ thr'[t].todo = DOMAIN thr[t].nodes
      /\ \A j \in DOMAIN thr[t].nodes : /\ thr'[t].nodes[j].n = born + j /\ j \in Nat \ {0}
                                        /\ thr'[t].nodes[j].doc = thr[t].nodes[j].doc
                                        /\ thr'[t].nodes[j].del = thr[t].nodes[j].del
      /\ objects' = objects \cup {thr'[t].nodes[j] : j \in DOMAIN thr[t].nodes}
  <2>1. /\ thr[t].pc = "write" /\ thr'[t].pc = (IF thr[t].kind = "delete" THEN "read" ELSE "set") /\ thr'[t].kind = thr[t].kind
        /\ DOMAIN thr'[t].nodes = DOMAIN thr[t].nodes /\ thr'[t].todo = DOMAIN thr[t].nodes
        /\ \A j \in DOMAIN thr[t].nodes : /\ thr'[t].nodes[j].n = born + j
                                        /\ thr'[t].nodes[j].doc = thr[t].nodes[j].doc
                                        /\ thr'[t].nodes[j].del = thr[t].nodes[j].del
        /\ objects' = objects \cup {thr'[t].nodes[j] : j \in DOMAIN thr[t].nodes}
    BY <1>0, WriteObjectsStep
  <2>2. \A j \in DOMAIN thr[t].nodes : j \in Nat \ {0}
    BY <1>0, OnFacts
  <2>. QED
    BY <2>1, <2>2
<1>5. i \in DOMAIN thr[t].nodes /\ thr[t].nodes[i].doc = d
  BY DEF On
<1>6. \A s \in Threads, j \in {1, 2} : On(s, j, d)' <=> s = t /\ j = i
  <2>1. \A j \in {1, 2} : On(t, j, d)' <=> On(t, j, d)
    BY <1>4 DEF On
  <2>. QED
    BY <1>3, <2>1
<1>7. Current(d)' = Current(d) /\ UnderFlush(d)' = UnderFlush(d)
  BY <1>1 DEF Current, UnderFlush
<1>8. Flushing(d)'
  BY <1>1, <1>2, <1>7 DEF Flushing
<1>9. ~Moved(t, i) /\ ~Moved(t, i)' /\ ~Before(t)' /\ ~Assigned(t)'
  BY <1>4, <1>5 DEF Moved, Before, Assigned
<1>10. Current(d)' = latest'[d]
  BY <1>1, <1>2, <1>7, <1>9 DEF Points
<1>11. Current(d)' # NIL => \E o \in objects' : o.n = Current(d)'
  BY <1>2, <1>4, <1>7 DEF Present
<1>12. thr'[t].nodes[i] \in objects' /\ thr'[t].nodes[i].n = born + i /\ i \in Nat \ {0}
  BY <1>4, <1>5
<1>13. \A q \in objects' : q.doc = d => q = thr'[t].nodes[i] \/ q \in objects
  <2>1. \A j \in DOMAIN thr[t].nodes : thr[t].nodes[j].doc = thr[t].nodes[i].doc => j = i
    BY <1>0, <1>5 DEF Base, Shapes, Shape
  <2>. QED
    BY <1>4, <1>5, <2>1
<1>14. \A q \in objects' : q.doc = d => q.n <= thr'[t].nodes[i].n
  BY <1>0, <1>12, <1>13, ObjectNumbers
<1>15. Tip(d)'
  <2>. SUFFICES ASSUME NEW p \in objects', p.doc = d, ~p.del, \A q \in objects' : q.doc = d => q.n <= p.n
                PROVE  On(t, i, d)' /\ thr'[t].pc = "set" /\ i \in thr'[t].todo /\ thr'[t].nodes[i].n = p.n
    BY DEF Tip
  <2>1. thr'[t].nodes[i].doc = d
    BY <1>4, <1>5
  <2>2. thr'[t].nodes[i].n <= p.n
    BY <1>12, <2>1
  <2>3. p = thr'[t].nodes[i]
    BY <1>0, <1>12, <1>13, <2>2, ObjectNumbers
  <2>4. thr'[t].kind # "delete"
    <3>1. Shape(thr'[t])
      BY DEF Base, Shapes
    <3>2. thr'[t].nodes[i].del = (thr'[t].kind = "delete")
      BY <1>4, <1>5, <3>1 DEF Shape
    <3>. QED
      BY <2>3, <3>2, Zenon
  <2>. QED
    BY <1>4, <1>5, <1>6, <2>3, <2>4
<1>16. thr'[t].pc \notin {"seq", "write"} /\ job'.pc # "drop"
  BY <1>1, <1>4
<1>. QED
  BY <1>6, <1>8, <1>9, <1>10, <1>11, <1>12, <1>14, <1>15, <1>16, SettledAlone

\* The pointer moves to the new version.
LEMMA SetSettled ==
  ASSUME Inv, Base', NEW t \in Threads, NEW k \in {1, 2}, SetOne(t, k),
         NEW d \in Docs, d \notin unsure', NEW i \in {1, 2}, On(t, i, d)
  PROVE  Settled(d)'
<1>0. Base /\ OwnInv /\ CallActs(t)
  BY DEF Inv, CallActs
<1>1. /\ d \notin unsure /\ Settled(d)
      /\ objects' = objects /\ file' = file /\ latest' = latest /\ job' = job /\ behind' = behind
      /\ buf' = [buf EXCEPT ![thr[t].nodes[k].doc] = thr[t].nodes[k].n]
      /\ (d = thr[t].nodes[k].doc => ~UnderFlush(d))
  BY DEF Inv, PointerInv, SetOne, SetPointer
<1>2. OneCall(d) /\ Flushing(d) /\ Points(d) /\ Present(d) /\ Compacting(d) /\ Tip(d) /\ Newest(d)
  BY <1>1 DEF Settled
<1>3. /\ thr[t].pc = "set" /\ k \in thr[t].todo /\ k \in DOMAIN thr[t].nodes /\ Stays(t)
      /\ thr'[t].todo = thr[t].todo \ {k}
      /\ thr'[t].pc \in {"set", "sort"} /\ (thr'[t].pc = "sort" <=> thr[t].todo = {k})
  BY <1>0, SetOneStep
<1>4. buf \in [Docs -> Pointers \cup {NONE}] /\ ~Before(t) /\ ~Before(t)' /\ Halfway(t)
  BY <1>0, <1>3 DEF Base, TypeOK, Before, Halfway
<1>5. CASE k # i
  <2>1. thr[t].nodes[k].doc # d
    <3>1. \A j \in DOMAIN thr[t].nodes : thr[t].nodes[j].doc = thr[t].nodes[i].doc => j = i
      BY <1>0 DEF Base, Shapes, Shape, On
    <3>. QED
      BY <1>3, <1>5, <3>1 DEF On
  <2>2. SameDocument(d)
    BY <1>1, <1>4, <2>1 DEF SameDocument
  <2>3. Moved(t, i)' <=> Moved(t, i)
    BY <1>3, <1>5 DEF Moved
  <2>4. i \in thr[t].todo => thr'[t].pc = "set" /\ i \in thr'[t].todo
    BY <1>3, <1>5
  <2>. QED
    BY <1>0, <1>1, <1>3, <1>4, <2>2, <2>3, <2>4, SettledStays
<1>6. CASE k = i
  <2>0. d = thr[t].nodes[i].doc /\ i \in DOMAIN thr[t].nodes
    BY DEF On
  <2>1. /\ \A s \in Threads, j \in {1, 2} : On(s, j, d) => s = t /\ j = i
        /\ \A s \in Threads, j \in {1, 2} : On(s, j, d)' => s = t
    BY <1>0, <1>2, CallAlone
  <2>2. \A s \in Threads, j \in {1, 2} : On(s, j, d)' <=> s = t /\ j = i
    <3>1. \A j \in {1, 2} : On(t, j, d)' <=> On(t, j, d)
      BY <1>3 DEF On, Stays
    <3>. QED
      BY <2>1, <3>1
  <2>3. thr[t].nodes[i].n \in Nat \ {0} /\ thr[t].nodes[i].n # NONE
    BY <1>0, <1>4, <2>0, NumberedNodes, MarksAssumption
  <2>4. Current(d)' = thr[t].nodes[i].n
    BY <1>1, <1>4, <1>6, <2>0, <2>3 DEF Current
  <2>5. thr[t].nodes[i] \in objects /\ \A q \in objects : q.doc = d => q.n <= thr[t].nodes[i].n
    BY <1>2, <1>4 DEF Present, Newest
  <2>6. ~UnderFlush(d)' /\ Flushing(d)'
    BY <1>1, <1>6, <2>0 DEF UnderFlush, Flushing
  <2>7. job.pc # "drop"
    BY <1>0, <1>2, <1>4, OnFacts DEF Compacting
  <2>8. Moved(t, i)' /\ ~Assigned(t)' /\ thr'[t].pc \notin {"seq", "write"}
    BY <1>3, <1>6 DEF Moved, Assigned
  <2>9. Tip(d)'
    <3>. SUFFICES ASSUME NEW p \in objects', p.doc = d, ~p.del, \A q \in objects' : q.doc = d => q.n <= p.n
                  PROVE  Current(d)' = p.n
      BY DEF Tip
    <3>1. thr[t].nodes[i].n <= p.n /\ p.n <= thr[t].nodes[i].n /\ p.n \in Nat
      BY <1>0, <1>1, <2>0, <2>5, ObjectNumbers
    <3>. QED
      BY <2>3, <2>4, <3>1
  <2>10. thr'[t].nodes[i] = thr[t].nodes[i]
    BY <1>3 DEF Stays
  <2>. QED
    BY <1>1, <2>2, <2>4, <2>5, <2>6, <2>7, <2>8, <2>9, <2>10, SettledAlone
<1>. QED
  BY <1>5, <1>6

\* The sorted index has no part in it.
LEMMA SortSettled ==
  ASSUME Inv, Base', NEW t \in Threads, Sort(t) \/ ReadHead(t),
         NEW d \in Docs, d \notin unsure', NEW i \in {1, 2}, On(t, i, d)
  PROVE  Settled(d)'
<1>0. Base /\ CallActs(t)
  BY DEF Inv, CallActs
<1>1. Settled(d) /\ SameDocument(d)
  BY DEF Inv, PointerInv, Sort, ReadHead, state, SameDocument
<1>2. /\ Stays(t) /\ thr[t].pc # "set"
      /\ \/ thr[t].pc = "sort" /\ thr'[t].pc = "read" /\ thr[t].kind # "delete"
         \/ thr[t].pc = "read" /\ thr'[t].pc = "chain"
  BY <1>0, SortStep, ReadHeadStep
<1>3. ~Before(t) /\ ~Before(t)' /\ (Moved(t, i)' <=> Moved(t, i)) /\ (Halfway(t)' => Halfway(t))
  BY <1>2 DEF Before, Moved, Halfway, Stays
<1>. QED
  BY <1>0, <1>1, <1>2, <1>3, SettledStays

\* The greatest of one number.
LEMMA MaxOfOne ==
  ASSUME NEW n \in Nat
  PROVE  Max({n}) = n
<1>1. Max({n}) \in {n}
  BY MaxOfNaturals
<1>. QED
  BY <1>1

\* The head is chained; the call returns, and latest is its version.
LEMMA ChainSettled ==
  ASSUME Inv, Base', NEW t \in Threads, Chain(t), NEW d \in Docs, d \notin unsure', NEW i \in {1, 2}, On(t, i, d)
  PROVE  Settled(d)'
<1>0. Base /\ CallActs(t)
  BY DEF Inv, CallActs
<1>1. /\ Settled(d) /\ objects' = objects /\ buf' = buf /\ file' = file /\ job' = job /\ behind' = behind
      /\ thr[t].pc = "chain"
  BY DEF Inv, PointerInv, Chain
<1>2. CASE Stays(t) /\ latest' = latest
  <2>1. SameDocument(d)
    BY <1>1, <1>2 DEF SameDocument
  <2>2. \/ thr'[t].pc = "read"
        \/ thr'[t].pc = "remove" /\ thr[t].kind = "delete"
        \/ thr'[t] = Resting /\ thr[t].kind # "delete"
    BY <1>0, ChainStep
  <2>3. thr'[t] # Resting
    <3>1. DOMAIN thr'[t].nodes # {}
      BY <1>2 DEF Stays, On
    <3>. QED
      BY <3>1, RestingFacts
  <2>4. ~Before(t) /\ ~Before(t)' /\ (Moved(t, i)' <=> Moved(t, i)) /\ (Halfway(t)' => Halfway(t))
    BY <1>1, <1>2, <2>2, <2>3 DEF Before, Moved, Halfway, Stays
  <2>. QED
    BY <1>0, <1>1, <1>2, <2>1, <2>4, SettledStays
<1>3. CASE ~(Stays(t) /\ latest' = latest)
  <2>0. OneCall(d) /\ Flushing(d) /\ Points(d) /\ Present(d) /\ Compacting(d) /\ Tip(d) /\ Newest(d)
    BY <1>1 DEF Settled
  <2>1. thr'[t] = Resting /\ thr[t].kind # "delete" /\ latest' = Returned(t)
    BY <1>0, <1>3, ChainStep
  <2>2. /\ \A s \in Threads, j \in {1, 2} : On(s, j, d) => s = t /\ j = i
        /\ \A s \in Threads, j \in {1, 2} : On(s, j, d)' => s = t
    BY <1>0, <2>0, CallAlone
  <2>3. \A s \in Threads, j \in {1, 2} : ~On(s, j, d)'
    BY <2>1, <2>2, RestingFacts DEF On
  <2>4. Current(d)' = Current(d) /\ UnderFlush(d)' = UnderFlush(d)
    BY <1>1 DEF Current, UnderFlush
  <2>5. Flushing(d)'
    BY <1>1, <2>0, <2>4 DEF Flushing
  <2>6. Tip(d)'
    <3>. SUFFICES ASSUME NEW p \in objects', p.doc = d, ~p.del, \A q \in objects' : q.doc = d => q.n <= p.n
                  PROVE  Current(d)' = p.n
      BY DEF Tip
    <3>1. \A s \in Threads, j \in {1, 2} : On(s, j, d) => thr[s].pc # "set"
      BY <1>1, <2>2
    <3>. QED
      BY <1>1, <2>0, <2>4, <3>1 DEF Tip
  <2>7. Current(d) = thr[t].nodes[i].n
    <3>1. Moved(t, i)
      BY <1>1, <2>1 DEF Moved
    <3>. QED
      BY <2>0, <3>1 DEF Points
  <2>8. latest'[d] = thr[t].nodes[i].n
    <3>1. {thr[t].nodes[j].n : j \in {x \in DOMAIN thr[t].nodes : thr[t].nodes[x].doc = d}} = {thr[t].nodes[i].n}
      BY <1>0, OnFacts DEF On
    <3>2. d \in Written(t)
      BY DEF Written, On
    <3>3. thr[t].nodes[i].n \in Nat
      BY <1>0, NodesFacts DEF On, Nodes, Base
    <3>. QED
      BY <2>1, <3>1, <3>2, <3>3, MaxOfOne DEF Returned
  <2>9. Current(d)' # NIL => \E o \in objects' : o.n = Current(d)'
    BY <1>1, <2>0, <2>4 DEF Present
  <2>10. job'.pc = "drop" => /\ (Current(d)' # NIL => Current(d)' \in job'.live)
                             /\ \A o \in objects' : o.doc = d /\ o.n \in job'.live => o.n = Current(d)'
    BY <1>1, <2>0, <2>4 DEF Compacting
  <2>. QED
    BY <2>3, <2>4, <2>5, <2>6, <2>7, <2>8, <2>9, <2>10, SettledIdle
<1>. QED
  BY <1>2, <1>3

\* A delete removes the pointer; the newest object is its tombstone.
LEMMA RemoveSettled ==
  ASSUME Inv, Base', NEW t \in Threads, Remove(t), NEW d \in Docs, d \notin unsure', NEW i \in {1, 2}, On(t, i, d)
  PROVE  Settled(d)'
<1>0. Base /\ OwnInv /\ CallActs(t)
  BY DEF Inv, CallActs
<1>1. /\ thr[t].pc = "remove" /\ thr[t].kind = "delete" /\ DOMAIN thr[t].nodes = {1} /\ thr'[t] = Resting
  BY <1>0, RemoveStep
<1>2. i = 1 /\ d = thr[t].nodes[1].doc
  BY <1>1 DEF On
<1>3. /\ d \notin unsure /\ Settled(d) /\ ~UnderFlush(d)
      /\ objects' = objects /\ file' = file /\ job' = job /\ behind' = behind
      /\ buf' = [buf EXCEPT ![d] = NIL] /\ latest' = [latest EXCEPT ![d] = NIL]
  BY <1>2 DEF Inv, PointerInv, Remove, Removed, SetPointer
<1>4. OneCall(d) /\ Flushing(d) /\ Points(d) /\ Present(d) /\ Compacting(d) /\ Tip(d) /\ Newest(d)
  BY <1>3 DEF Settled
<1>5. /\ \A s \in Threads, j \in {1, 2} : On(s, j, d) => s = t /\ j = i
      /\ \A s \in Threads, j \in {1, 2} : On(s, j, d)' => s = t
  BY <1>0, <1>4, CallAlone
<1>6. \A s \in Threads, j \in {1, 2} : ~On(s, j, d)'
  BY <1>1, <1>5, RestingFacts DEF On
<1>7. Current(d)' = NIL /\ latest'[d] = NIL
  <2>1. buf \in [Docs -> Pointers \cup {NONE}] /\ latest \in [Docs -> Pointers]
    BY <1>0 DEF Base, TypeOK
  <2>. QED
    BY <1>3, <2>1, MarksAssumption DEF Current
<1>8. ~UnderFlush(d)' /\ Flushing(d)'
  BY <1>3 DEF UnderFlush, Flushing
<1>9. job.pc # "drop"
  <2>1. Halfway(t)
    BY <1>1 DEF Halfway
  <2>. QED
    BY <1>0, <1>4, <2>1, OnFacts DEF Compacting
<1>10. thr[t].nodes[1] \in objects /\ thr[t].nodes[1].del /\ \A q \in objects : q.doc = d => q.n <= thr[t].nodes[1].n
  <2>1. ~Before(t)
    BY <1>1 DEF Before
  <2>2. thr[t].nodes[1] \in objects /\ \A q \in objects : q.doc = d => q.n <= thr[t].nodes[1].n
    BY <1>2, <1>4, <2>1 DEF Present, Newest
  <2>3. thr[t].nodes[1].del = (thr[t].kind = "delete")
    BY <1>0, <1>1 DEF Base, Shapes, Shape
  <2>4. thr[t].nodes[1].del
    BY <1>1, <2>3, Zenon
  <2>. QED
    BY <2>2, <2>4
<1>11. Tip(d)'
  <2>. SUFFICES ASSUME NEW p \in objects', p.doc = d, ~p.del, \A q \in objects' : q.doc = d => q.n <= p.n
                PROVE  FALSE
    BY DEF Tip
  <2>1. p.n = thr[t].nodes[1].n
    <3>1. p.n <= thr[t].nodes[1].n /\ thr[t].nodes[1].n <= p.n
      BY <1>2, <1>3, <1>10
    <3>2. p.n \in Nat /\ thr[t].nodes[1].n \in Nat
      BY <1>0, <1>3, <1>10, ObjectNumbers
    <3>. QED
      BY <3>1, <3>2
  <2>2. p = thr[t].nodes[1]
    BY <1>0, <1>3, <1>10, <2>1 DEF OwnInv
  <2>. QED
    BY <1>10, <2>2, Zenon
<1>. QED
  BY <1>3, <1>6, <1>7, <1>8, <1>9, <1>11, SettledIdle

\* A step of a call keeps every document settled.
LEMMA CallPointer ==
  ASSUME Inv, Base', NEW t \in Threads, CallActs(t)
  PROVE  PointerInv'
<1>. SUFFICES ASSUME NEW d \in Docs, d \notin unsure' PROVE Settled(d)'
  BY DEF PointerInv
<1>0. Base /\ d \notin unsure /\ Settled(d)
  BY CallKeepsUp DEF Inv, PointerInv
<1>1. CASE t \notin Busy(d) /\ t \notin Busy(d)'
  BY <1>0, <1>1, CallApart, SettledSame
<1>2. CASE t \in Busy(d)
  <2>1. PICK i \in {1, 2} : On(t, i, d)
    BY <1>0, <1>2, OnFacts
  <2>2. ~Begins(t)
    <3>1. i \in DOMAIN thr[t].nodes /\ DOMAIN << >> = {}
      BY <2>1 DEF On
    <3>. QED
      BY <1>0, <3>1, CallStep DEF Begins
  <2>3. CASE \E k \in {1, 2} : SetOne(t, k)
    BY <2>1, <2>3, SetSettled
  <2>. QED
    BY <2>1, <2>2, <2>3, ReadPrevSettled, TakeSeqSettled, WriteSettled, SortSettled, ChainSettled, RemoveSettled
    DEF CallActs
<1>3. CASE t \notin Busy(d) /\ t \in Busy(d)'
  <2>1. PICK i \in {1, 2} : On(t, i, d)'
    BY <1>3, OnFactsNext
  <2>2. ~On(t, i, d)
    BY <1>0, <1>3, OnFacts
  <2>3. Begins(t)
    <3>1. CASE ReadPrev(t)
      BY <1>0, <2>1, <2>2, <3>1, ReadPrevStep, RestingFacts DEF On
    <3>2. CASE TakeSeq(t)
      BY <1>0, <2>1, <2>2, <3>2, TakeSeqStep DEF On
    <3>3. CASE WriteObjects(t)
      BY <1>0, <2>1, <2>2, <3>3, WriteObjectsStep DEF On
    <3>4. CASE \E k \in {1, 2} : SetOne(t, k)
      BY <1>0, <2>1, <2>2, <3>4, SetOneStep DEF On, Stays
    <3>5. CASE Sort(t) \/ ReadHead(t)
      BY <1>0, <2>1, <2>2, <3>5, SortStep, ReadHeadStep DEF On, Stays
    <3>6. CASE Chain(t)
      BY <1>0, <2>1, <2>2, <3>6, ChainStep, RestingFacts DEF On, Stays
    <3>7. CASE Remove(t)
      BY <1>0, <2>1, <2>2, <3>7, RemoveStep, RestingFacts DEF On
    <3>. QED
      BY <3>1, <3>2, <3>3, <3>4, <3>5, <3>6, <3>7 DEF CallActs
  <2>. QED
    BY <1>3, <2>3, BeginsSettled
<1>. QED
  BY <1>1, <1>2, <1>3

\* Maintenance leaves the calls.
LEMMA SettledCalls ==
  ASSUME Base, Base', NEW d \in Docs, OneCall(d), Points(d), Newest(d), thr' = thr, latest' = latest, behind' = behind,
         Current(d)' = Current(d), \A o \in objects' : o \in objects
  PROVE  /\ OneCall(d)' /\ Points(d)' /\ Newest(d)'
         /\ \A s \in Threads, i \in {1, 2} : On(s, i, d)' => On(s, i, d) /\ Before(s)' = Before(s)
<1>1. \A s \in Threads : s \in Busy(d)' <=> s \in Busy(d)
  BY DEF Busy, Written
<1>2. \A s \in Threads, i \in {1, 2} : On(s, i, d)' =>
        /\ On(s, i, d) /\ thr'[s] = thr[s] /\ Moved(s, i)' = Moved(s, i)
        /\ Before(s)' = Before(s) /\ Assigned(s)' = Assigned(s)
  BY DEF On, Moved, Before, Assigned
<1>3. OneCall(d)'
  <2>1. \A s \in Busy(d)' : s \in Busy(d)
    BY <1>1 DEF Busy
  <2>. QED
    BY <2>1 DEF OneCall
<1>4. Points(d)'
  <2>1. (Busy(d) = {})' => Busy(d) = {}
    BY <1>1 DEF Busy
  <2>. QED
    BY <1>2, <2>1 DEF Points
<1>5. Newest(d)'
  BY <1>2 DEF Newest
<1>. QED
  BY <1>2, <1>3, <1>4, <1>5

\* A step of maintenance that leaves the objects and the pointer.
LEMMA SettledJob ==
  ASSUME Base, Base', NEW d \in Docs, Settled(d), thr' = thr, latest' = latest, behind' = behind, objects' = objects,
         Current(d)' = Current(d), Flushing(d)', Compacting(d)'
  PROVE  Settled(d)'
<1>0. OneCall(d) /\ Points(d) /\ Present(d) /\ Tip(d) /\ Newest(d)
  BY DEF Settled
<1>1. /\ OneCall(d)' /\ Points(d)' /\ Newest(d)'
      /\ \A s \in Threads, i \in {1, 2} : On(s, i, d)' => On(s, i, d) /\ Before(s)' = Before(s)
  BY <1>0, SettledCalls
<1>2. Present(d)'
  BY <1>0, <1>1 DEF Present
<1>3. Tip(d)'
  <2>. SUFFICES ASSUME NEW p \in objects', p.doc = d, ~p.del, \A q \in objects' : q.doc = d => q.n <= p.n
                PROVE  \/ Current(d)' = p.n
                       \/ \E t \in Threads, i \in {1, 2} :
                            On(t, i, d)' /\ thr'[t].pc = "set" /\ i \in thr'[t].todo /\ thr'[t].nodes[i].n = p.n
    BY DEF Tip
  <2>1. CASE Current(d) = p.n
    BY <2>1
  <2>2. ASSUME NEW t \in Threads, NEW i \in {1, 2}, On(t, i, d), thr[t].pc = "set", i \in thr[t].todo, thr[t].nodes[i].n = p.n
        PROVE  On(t, i, d)' /\ thr'[t].pc = "set" /\ i \in thr'[t].todo /\ thr'[t].nodes[i].n = p.n
    BY <2>2 DEF On
  <2>. QED
    BY <1>0, <2>1, <2>2 DEF Tip
<1>. QED
  BY <1>1, <1>2, <1>3 DEF Settled

\* The process starts again: what was not flushed, or was under way, is unsure.
LEMMA CrashSettled ==
  ASSUME Inv, Base', Crash, NEW d \in Docs, d \notin unsure'
  PROVE  Settled(d)'
<1>0. Base /\ d \notin unsure /\ Busy(d) = {} /\ Current(d) = file[d] /\ Settled(d)
  BY DEF Inv, PointerInv, Crash
<1>1. /\ buf'[d] = NONE /\ file' = file /\ latest' = latest /\ objects' = objects /\ job'.pc = "idle"
  BY DEF Crash, NoJob
<1>2. Current(d)' = Current(d)
  BY <1>0, <1>1 DEF Current
<1>3. \A s \in Threads, j \in {1, 2} : ~On(s, j, d) /\ ~On(s, j, d)'
  <2>1. \A s \in Threads : DOMAIN thr'[s].nodes = {}
    BY <1>0, Quiet
  <2>2. \A s \in Threads, j \in {1, 2} : ~On(s, j, d)
    BY <1>0, OnFacts
  <2>. QED
    BY <2>1, <2>2 DEF On
<1>4. Flushing(d)'
  BY <1>1 DEF Flushing, UnderFlush
<1>5. Tip(d)'
  <2>. SUFFICES ASSUME NEW p \in objects', p.doc = d, ~p.del, \A q \in objects' : q.doc = d => q.n <= p.n
                PROVE  Current(d)' = p.n
    BY DEF Tip
  <2>. QED
    BY <1>0, <1>1, <1>2, <1>3 DEF Settled, Tip
<1>6. Current(d)' = latest'[d] /\ (Current(d)' # NIL => \E o \in objects' : o.n = Current(d)')
  BY <1>0, <1>1, <1>2 DEF Settled, Points, Present
<1>. QED
  BY <1>1, <1>3, <1>4, <1>5, <1>6, SettledIdle

\* The compaction drops what is not live.
LEMMA DropSettled ==
  ASSUME Inv, Base', Drop, NEW d \in Docs, d \notin unsure'
  PROVE  Settled(d)'
<1>0. /\ Base /\ d \notin unsure /\ Settled(d) /\ job.pc = "drop" /\ job'.pc = "idle"
      /\ thr' = thr /\ latest' = latest /\ behind' = behind /\ buf' = buf /\ file' = file
      /\ objects' = {o \in objects : o.n \in job.live}
  BY DEF Inv, PointerInv, Drop, NoJob, Kept
<1>1. OneCall(d) /\ Points(d) /\ Present(d) /\ Compacting(d) /\ Newest(d)
  BY <1>0 DEF Settled
<1>2. /\ Current(d) # NIL => Current(d) \in job.live
      /\ \A t \in Busy(d) : ~Halfway(t)
      /\ \A o \in objects : o.doc = d /\ o.n \in job.live => o.n = Current(d)
  BY <1>0, <1>1 DEF Compacting
<1>3. Current(d)' = Current(d)
  BY <1>0 DEF Current
<1>4. /\ OneCall(d)' /\ Points(d)' /\ Newest(d)'
      /\ \A s \in Threads, i \in {1, 2} : On(s, i, d)' => On(s, i, d) /\ Before(s)' = Before(s)
  BY <1>0, <1>1, <1>3, SettledCalls
<1>8. Flushing(d)' /\ Compacting(d)'
  BY <1>0 DEF Flushing, UnderFlush, Compacting
<1>9. Tip(d)'
  <2>. SUFFICES ASSUME NEW p \in objects', p.doc = d PROVE Current(d)' = p.n
    BY DEF Tip
  <2>. QED
    BY <1>0, <1>2, <1>3
<1>10. Present(d)'
  <2>1. Current(d)' # NIL => \E o \in objects' : o.n = Current(d)'
    BY <1>0, <1>1, <1>2, <1>3 DEF Present
  <2>2. ASSUME NEW t \in Threads, NEW i \in {1, 2}, On(t, i, d), ~Before(t) PROVE thr[t].nodes[i] \in objects'
    <3>1. ~Halfway(t)
      BY <1>0, <1>2, <2>2, OnFacts
    <3>2. thr[t].pc # "idle"
      <4>1. DOMAIN thr[t].nodes # {} /\ DOMAIN << >> = {}
        BY <2>2 DEF On
      <4>. QED
        BY <1>0, <4>1 DEF Base, Shapes, Shape
    <3>3. thr[t] \in Calls /\ Shape(thr[t])
      BY <1>0 DEF Base, TypeOK, Shapes
    <3>4. thr[t].pc \in {"sort", "read", "chain"} /\ thr[t].kind # "delete"
      BY <2>2, <3>1, <3>2, <3>3 DEF Halfway, Before, Calls, Shape
    <3>5. Current(d) = thr[t].nodes[i].n
      BY <1>1, <2>2, <3>4 DEF Points, Moved
    <3>6. thr[t].nodes[i] \in objects /\ thr[t].nodes[i].n # NIL
      BY <1>0, <1>1, <2>2, MarksAssumption DEF Present, Base, TypeOK, Nodes
    <3>. QED
      BY <1>0, <1>2, <3>5, <3>6
  <2>. QED
    BY <1>0, <1>4, <2>1, <2>2 DEF Present
<1>. QED
  BY <1>4, <1>8, <1>9, <1>10 DEF Settled

\* Maintenance and restarts keep every document settled.
LEMMA OtherPointer ==
  ASSUME Inv, Base', Others
  PROVE  PointerInv'
<1>. SUFFICES ASSUME NEW d \in Docs, d \notin unsure' PROVE Settled(d)'
  BY DEF PointerInv
<1>1. CASE Crash
  BY <1>1, CrashSettled
<1>2. CASE Drop
  BY <1>2, DropSettled
<1>3. CASE ~Crash /\ ~Drop
  <2>0. Base /\ d \notin unsure /\ Settled(d) /\ thr' = thr /\ latest' = latest /\ behind' = behind /\ objects' = objects
    <3>1. unsure \subseteq unsure' /\ objects' = objects /\ latest' = latest /\ thr' = thr /\ behind' = behind
      BY <1>3 DEF Others, CreateSortedIndex, Collects, Collect, WriteFiles, Clear, ReadSeq, WriteManifest,
                  Live, WarmStart, ColdStart, ScanRead, ScanSeq, ScanHead, ScanManifest, vars, state
    <3>. QED
      BY <3>1 DEF Inv, PointerInv
  <2>1. OneCall(d) /\ Flushing(d) /\ Points(d) /\ Present(d) /\ Compacting(d) /\ Tip(d) /\ Newest(d)
    BY <2>0 DEF Settled
  <2>2. job \in Jobs
    BY <2>0 DEF Base, TypeOK
  <2>3. CASE \/ CreateSortedIndex \/ WarmStart \/ ColdStart \/ UNCHANGED vars
             \/ ScanRead \/ ScanSeq \/ ScanHead \/ ScanManifest
    <3>1. buf' = buf /\ file' = file /\ job' = job
      BY <2>3, ScanStep DEF CreateSortedIndex, WarmStart, ColdStart, vars, state
    <3>2. SameDocument(d) /\ SameCalls(d)
      BY <2>0, <3>1 DEF SameDocument, SameCalls, On
    <3>. QED
      BY <2>0, <3>2, SettledSame
  <2>4. CASE Collects
    <3>1. PICK kind \in {"tick", "flush_all", "compact"} : Collect(kind)
      BY <2>4 DEF Collects
    <3>2. job'.pc = "files" /\ job'.got = buf /\ buf' = buf /\ file' = file
      BY <3>1 DEF Collect, NoJob, state
    <3>3. Current(d)' = Current(d) /\ Flushing(d)' /\ Compacting(d)'
      BY <3>2 DEF Current, Flushing, UnderFlush, Compacting
    <3>. QED
      BY <2>0, <3>3, SettledJob
  <2>5. CASE WriteFiles
    <3>1. job.pc = "files" /\ job'.pc = "clear" /\ job'.got = job.got /\ buf' = buf /\ file' = Flushed
      BY <2>2, <2>5 DEF WriteFiles, Jobs
    <3>2. file'[d] = IF job.got[d] = NONE THEN file[d] ELSE job.got[d]
      BY <3>1 DEF Flushed
    <3>3. job.got[d] # NONE => buf[d] = job.got[d]
      BY <2>1, <3>1 DEF Flushing, UnderFlush
    <3>4. Current(d)' = Current(d) /\ Flushing(d)' /\ Compacting(d)'
      BY <3>1, <3>2, <3>3 DEF Current, Flushing, UnderFlush, Compacting
    <3>. QED
      BY <2>0, <3>4, SettledJob
  <2>6. CASE Clear
    <3>1. /\ job.pc = "clear" /\ job'.pc = "manifest" /\ file' = file
          /\ buf' = [e \in Docs |-> IF job.got[e] = NONE THEN buf[e] ELSE NONE]
      BY <2>2, <2>6 DEF Clear, Jobs
    <3>2. job.got[d] # NONE => buf[d] = job.got[d] /\ file[d] = job.got[d]
      BY <2>1, <3>1 DEF Flushing, UnderFlush
    <3>3. Current(d)' = Current(d) /\ Flushing(d)' /\ Compacting(d)'
      BY <3>1, <3>2 DEF Current, Flushing, UnderFlush, Compacting
    <3>. QED
      BY <2>0, <3>3, SettledJob
  <2>7. CASE ReadSeq \/ WriteManifest
    <3>1. job'.pc \in {"idle", "rename", "live"} /\ buf' = buf /\ file' = file
      <4>1. CASE ReadSeq
        <5>1. job' = NoJob \/ job' = [job EXCEPT !.pc = "rename", !.seq = seq]
          BY <4>1 DEF ReadSeq
        <5>2. buf' = buf /\ file' = file
          BY <4>1 DEF ReadSeq
        <5>3. NoJob.pc = "idle"
          BY DEF NoJob
        <5>4. [job EXCEPT !.pc = "rename", !.seq = seq].pc = "rename"
          BY <2>2 DEF Jobs
        <5>. QED
          BY <5>1, <5>2, <5>3, <5>4
      <4>2. CASE WriteManifest
        <5>1. job' = NoJob \/ job' = [job EXCEPT !.pc = "live"]
          BY <4>2 DEF WriteManifest
        <5>2. buf' = buf /\ file' = file
          BY <4>2 DEF WriteManifest
        <5>. QED
          BY <2>2, <5>1, <5>2 DEF Jobs, NoJob
      <4>. QED
        BY <2>7, <4>1, <4>2
    <3>2. Current(d)' = Current(d) /\ Flushing(d)' /\ Compacting(d)'
      BY <3>1 DEF Current, Flushing, UnderFlush, Compacting
    <3>. QED
      BY <2>0, <3>2, SettledJob
  <2>8. CASE Live
    <3>1. /\ job'.pc = "drop" /\ job'.live = {Current(e) : e \in {x \in Docs : Visible(x)}}
          /\ buf' = buf /\ file' = file
          /\ \A t \in Threads : Halfway(t) => Written(t) \subseteq unsure'
          /\ Current(d) # NIL => Visible(d)
      BY <2>2, <2>8 DEF Live, Jobs, state
    <3>2. Current(d)' = Current(d) /\ Flushing(d)'
      BY <3>1 DEF Current, Flushing, UnderFlush
    <3>3. \A t \in Busy(d)' : ~Halfway(t)'
      <4>1. \A t \in Threads : d \in Written(t) => ~Halfway(t)
        BY <3>1
      <4>. QED
        BY <2>0, <4>1 DEF Busy, Written, Halfway
    <3>4. ASSUME NEW o \in objects, o.doc = d, o.n \in job'.live PROVE o.n = Current(d)
      <4>1. PICK e \in Docs : o.n = Current(e)
        BY <3>1, <3>4
      <4>2. o.n \in Nat \ {0}
        BY <2>0, ObjectNumbers DEF Inv
      <4>3. Owns(e, o.n) /\ Owns(d, o.n)
        BY <3>4, <4>1 DEF Owns, Current
      <4>4. e = d
        BY <4>2, <4>3 DEF Inv, OwnInv
      <4>. QED
        BY <4>1, <4>4
    <3>5. Compacting(d)'
      BY <2>0, <3>1, <3>2, <3>3, <3>4 DEF Compacting
    <3>. QED
      BY <2>0, <3>2, <3>5, SettledJob
  <2>. QED
    BY <1>3, <2>3, <2>4, <2>5, <2>6, <2>7, <2>8 DEF Others
<1>. QED
  BY <1>1, <1>2, <1>3

\* The invariant is inductive.
LEMMA NextInv == Inv /\ [Next]_vars => Inv'
<1>. SUFFICES ASSUME Inv, [Next]_vars PROVE Inv'
  OBVIOUS
<1>1. Base' /\ SeqInv' /\ OwnInv'
  BY NextBase, NextSeqInv, NextOwnInv DEF Inv
<1>2. PointerInv'
  BY <1>1, CallPointer, OtherPointer, StepKinds
<1>. QED
  BY <1>1, <1>2 DEF Inv

\* The invariant holds at the start.
LEMMA InitInv == Init => Inv
<1>. SUFFICES ASSUME Init PROVE PointerInv
  BY InitBase, InitSeqInv, InitOwnInv DEF Inv
<1>. SUFFICES ASSUME NEW d \in Docs PROVE Settled(d)
  BY DEF PointerInv
<1>1. /\ buf[d] = NONE /\ file[d] = NIL /\ latest[d] = NIL /\ job.pc = "idle" /\ objects = {}
      /\ \A t \in Threads : DOMAIN thr[t].nodes = {}
  BY RestingFacts DEF Init, NoJob
<1>2. Busy(d) = {} /\ \A t \in Threads, i \in {1, 2} : ~On(t, i, d)
  BY <1>1 DEF Busy, Written, On
<1>3. Current(d) = NIL
  BY <1>1 DEF Current
<1>. QED
  BY <1>1, <1>2, <1>3
  DEF Settled, OneCall, Flushing, UnderFlush, Points, Present, Compacting, Tip, Newest

\* Between calls a document is what the last call on it that returned made it, and its
\* object is in the store, but for the documents LastCallWins excepts (calls that overlap,
\* a pointer that changes under a flush or is not flushed before a crash, a compaction that
\* does not see the document): with any number of threads and documents, however their
\* calls, the flushes and the compactions interleave and wherever the process dies.
THEOREM TheLastCallWins == Spec => []LastCallWins
<1>1. Inv => LastCallWins
  BY DEF Inv, PointerInv, Settled, Points, Present, LastCallWins
<1>. QED
  BY <1>1, InitInv, NextInv, PTL DEF Spec

-----------------------------------------------------------------------------
(* The history of a document.                                               *)

\* Two objects of a document, with none of the document between them.
Adjacent(o, p) ==
  /\ o.doc = p.doc /\ o.doc \notin unsure /\ p.n < o.n /\ ~p.del
  /\ ~\E q \in objects : q.doc = o.doc /\ p.n < q.n /\ q.n < o.n

Linked(o, p) == o.prev = p.n /\ (behind \/ p.seq < o.seq)

\* A step that adds no object between two that were there leaves them linked.
LEMMA StaysLinked ==
  ASSUME HistoryLinked, NEW o \in objects, NEW p \in objects, Adjacent(o, p)', objects \subseteq objects',
         unsure \subseteq unsure', behind => behind'
  PROVE  Linked(o, p)'
<1>1. Adjacent(o, p)
  BY DEF Adjacent
<1>2. o.prev = p.n /\ (behind \/ p.seq < o.seq)
  BY <1>1 DEF HistoryLinked, Adjacent
<1>. QED
  BY <1>2, Zenon DEF Linked

\* A new version points to the one before it.
LEMMA WriteLinked ==
  ASSUME Inv, HistoryLinked, NEW t \in Threads, WriteObjects(t), NEW o \in objects', NEW p \in objects', Adjacent(o, p)'
  PROVE  Linked(o, p)'
<1>0. Base /\ OwnInv /\ unsure \subseteq unsure' /\ behind' = behind /\ objects \subseteq objects'
  BY DEF Inv, WriteObjects
<1>1. /\ thr[t].pc = "write"
      /\ \A j \in DOMAIN thr[t].nodes : /\ thr'[t].nodes[j].n = born + j
                                        /\ thr'[t].nodes[j].doc = thr[t].nodes[j].doc
                                        /\ thr'[t].nodes[j].prev = thr[t].nodes[j].prev
                                        /\ thr'[t].nodes[j].seq = thr[t].nodes[j].seq
      /\ objects' = objects \cup {thr'[t].nodes[j] : j \in DOMAIN thr[t].nodes}
  BY <1>0, WriteObjectsStep
<1>2. \A j \in DOMAIN thr[t].nodes : j \in {1, 2}
  BY <1>0, OnFacts
<1>3. o.doc = p.doc /\ o.doc \notin unsure' /\ p.n < o.n /\ ~p.del
  BY DEF Adjacent
<1>4. born \in Nat /\ \A q \in objects : q.n \in Nat \ {0} /\ q.n <= born /\ q.doc \in Docs /\ q.seq \in Nat
  BY <1>0, ObjectNumbers
<1>5. CASE o \in objects /\ p \in objects
  BY <1>0, <1>5, StaysLinked
<1>6. CASE p \notin objects
  <2>1. PICK j \in DOMAIN thr[t].nodes : p = thr'[t].nodes[j]
    BY <1>1, <1>6
  <2>2. o \notin objects
    BY <1>1, <1>2, <1>3, <1>4, <2>1
  <2>3. PICK k \in DOMAIN thr[t].nodes : o = thr'[t].nodes[k]
    BY <1>1, <2>2
  <2>4. thr[t].nodes[j].doc = thr[t].nodes[k].doc
    BY <1>1, <1>3, <2>1, <2>3
  <2>5. j = k
    BY <1>0, <2>4 DEF Base, Shapes, Shape
  <2>. QED
    BY <1>1, <1>2, <1>3, <1>4, <2>1, <2>3, <2>5
<1>7. CASE o \notin objects /\ p \in objects
  <2>1. PICK i \in DOMAIN thr[t].nodes : o = thr'[t].nodes[i]
    BY <1>1, <1>7
  <2>. DEFINE d == o.doc
  <2>2. d \in Docs /\ i \in {1, 2} /\ On(t, i, d) /\ p.doc = d /\ d \notin unsure
    BY <1>0, <1>1, <1>2, <1>3, <1>4, <1>7, <2>1 DEF On
  <2>. HIDE DEF d
  <2>3. OneCall(d) /\ Points(d) /\ Tip(d) /\ Newest(d)
    BY <2>2 DEF Inv, PointerInv, Settled
  <2>4. o.n = born + i /\ o.prev = thr[t].nodes[i].prev /\ o.seq = thr[t].nodes[i].seq
    BY <1>1, <2>1
  <2>5. \A q \in objects : q.doc = d => q.n <= p.n
    <3>. SUFFICES ASSUME NEW q \in objects, q.doc = d, ~(q.n <= p.n) PROVE FALSE
      OBVIOUS
    <3>1. p.n < q.n /\ q.n < o.n
      BY <1>4, <1>7, <2>2, <2>4
    <3>2. q \in objects' /\ q.doc = o.doc
      BY <1>0 DEF d
    <3>. QED
      BY <3>1, <3>2 DEF Adjacent
  <2>6. ~\E s \in Threads, j \in {1, 2} : On(s, j, d) /\ thr[s].pc = "set"
    <3>1. \A s \in Threads, j \in {1, 2} : On(s, j, d) => s = t
      BY <1>0, <2>2, <2>3, OnFacts DEF OneCall
    <3>. QED
      BY <1>1, <3>1
  <2>7. Current(d) = p.n
    BY <1>3, <1>7, <2>2, <2>3, <2>5, <2>6 DEF Tip
  <2>8. thr[t].nodes[i].prev = p.n
    BY <1>1, <2>2, <2>3, <2>7 DEF Points
  <2>9. behind \/ p.seq < o.seq
    <3>1. Assigned(t)
      BY <1>1 DEF Assigned
    <3>. QED
      BY <1>7, <2>2, <2>3, <2>4, <3>1 DEF Newest
  <2>. QED
    BY <1>0, <2>4, <2>8, <2>9 DEF Linked
<1>. QED
  BY <1>5, <1>6, <1>7

\* A compaction leaves one version of a document that is not unsure.
LEMMA DropLinked ==
  ASSUME Inv, Drop, NEW o \in objects', NEW p \in objects', Adjacent(o, p)'
  PROVE  FALSE
<1>1. o \in objects /\ p \in objects /\ o.n \in job.live /\ p.n \in job.live /\ job.pc = "drop" /\ unsure' = unsure
  BY DEF Drop, Kept
<1>2. o.n \in Nat /\ p.n \in Nat /\ o.doc \in Docs
  BY <1>1, ObjectNumbers DEF Inv
<1>3. o.doc = p.doc /\ o.doc \notin unsure /\ p.n < o.n
  BY <1>1 DEF Adjacent
<1>4. Compacting(o.doc)
  BY <1>2, <1>3 DEF Inv, PointerInv, Settled
<1>5. o.n = Current(o.doc) /\ p.n = Current(o.doc)
  BY <1>1, <1>3, <1>4 DEF Compacting
<1>. QED
  BY <1>2, <1>3, <1>5

\* A step that writes and drops no object.
LEMMA ObjectsStay ==
  ASSUME Inv, [Next]_vars, ~Drop, \A t \in Threads : ~WriteObjects(t)
  PROVE  objects' = objects /\ unsure \subseteq unsure' /\ (behind => behind')
<1>0. Base
  BY DEF Inv
<1>1. CASE \E t \in Threads : CallActs(t)
  <2>1. PICK t \in Threads : CallActs(t)
    BY <1>1
  <2>2. unsure \subseteq unsure' /\ (behind => behind')
    BY <1>0, <2>1, CallKeepsUp
  <2>3. objects' = objects
    BY <2>1 DEF CallActs, Begins, Call, ReadPrev, TakeSeq, SetOne, Sort, ReadHead, Chain, Remove, state
  <2>. QED
    BY <2>2, <2>3
<1>2. CASE Crash
  <2>1. objects' = objects /\ unsure \subseteq unsure'
    BY <1>2 DEF Crash
  <2>2. behind => behind'
    BY <1>2, Zenon DEF Crash
  <2>. QED
    BY <2>1, <2>2
<1>3. CASE Others /\ ~Crash
  <2>1. objects' = objects /\ unsure \subseteq unsure' /\ behind' = behind
    BY <1>3 DEF Others, CreateSortedIndex, Collects, Collect, WriteFiles, Clear, ReadSeq, WriteManifest,
                Live, WarmStart, ColdStart, ScanRead, ScanSeq, ScanHead, ScanManifest, vars, state
  <2>. QED
    BY <2>1
<1>. QED
  BY <1>1, <1>2, <1>3, StepKinds

\* The links are kept by every step.
LEMMA NextLinked == Inv /\ HistoryLinked /\ [Next]_vars => HistoryLinked'
<1>. SUFFICES ASSUME Inv, HistoryLinked, [Next]_vars PROVE HistoryLinked'
  OBVIOUS
<1>. SUFFICES ASSUME NEW o \in objects', NEW p \in objects', Adjacent(o, p)' PROVE Linked(o, p)'
  BY DEF HistoryLinked, Adjacent, Linked
<1>1. CASE \E t \in Threads : WriteObjects(t)
  BY <1>1, WriteLinked
<1>2. CASE Drop
  BY <1>2, DropLinked
<1>3. CASE ~Drop /\ \A t \in Threads : ~WriteObjects(t)
  BY <1>3, ObjectsStay, StaysLinked
<1>. QED
  BY <1>1, <1>2, <1>3

\* A version of a document points to the version before it, which has a smaller seq: with
\* any number of threads and documents, and however writes, deletes, flushes, compactions
\* and restarts interleave.  Its seq is smaller unless a restart found a MANIFEST that was
\* behind or a delete took a seq before the cold scan had set it.
THEOREM HistoryIsLinked == Spec => []HistoryLinked
<1>1. Init => Inv /\ HistoryLinked
  BY InitInv DEF Init, HistoryLinked
<1>2. (Inv /\ HistoryLinked) /\ [Next]_vars => (Inv /\ HistoryLinked)'
  BY NextInv, NextLinked
<1>. QED
  BY <1>1, <1>2, PTL DEF Spec

-----------------------------------------------------------------------------
(* The sorted index.                                                        *)

\* The call will still put its versions in the sorted index.
Unsorted(t) == thr[t].pc \in {"set", "sort"} \/ (thr[t].pc = "write" /\ thr[t].kind = "put")

\* The current version is in the index if it has the field.
Indexed(d) == \A o \in objects : o.n = Current(d) /\ o.has => o.n \in sorted

\* That is so, or create_sorted_index or a call will make it so.
Covered(d) ==
  \/ Current(d) = NIL \/ Indexed(d)
  \/ fill.pc = "buffer" /\ (d \in fill.ids \/ buf[d] # NONE)
  \/ fill.pc = "fill" /\ d \in fill.ids
  \/ \E t \in Busy(d) : Unsorted(t)

SortInv == fill.pc # "none" => \A d \in Docs \ (unsure \cup fill.missed) : Covered(d)

\* A step of a call that leaves the pointer, and neither takes it out of the index nor
\* gives up putting it there.
LEMMA CoveredStays ==
  ASSUME Base, NEW t \in Threads, CallActs(t), NEW d \in Docs, Covered(d), buf'[d] = buf[d],
         Current(d) \in sorted => Current(d) \in sorted', \A o \in objects' : o.n = Current(d) => o \in objects,
         t \in Busy(d) /\ Unsorted(t) => t \in Busy(d)' /\ Unsorted(t)'
  PROVE  Covered(d)'
<1>1. fill' = fill /\ file' = file
  BY CallKeepsUp
<1>2. Current(d)' = Current(d)
  BY <1>1 DEF Current
<1>3. ASSUME NEW s \in Busy(d), Unsorted(s) PROVE s \in Busy(d)' /\ Unsorted(s)'
  <2>1. s \in Threads
    BY DEF Busy
  <2>2. CASE s # t
    <3>1. thr'[s] = thr[s]
      BY <2>1, <2>2, OthersSame
    <3>. QED
      BY <1>3, <3>1 DEF Busy, Written, Unsorted
  <2>. QED
    BY <1>3, <2>2
<1>4. Indexed(d) => Indexed(d)'
  BY <1>2 DEF Indexed
<1>. QED
  BY <1>1, <1>2, <1>3, <1>4 DEF Covered

\* A call on the document that is not done with the index.
LEMMA CoveredByCall ==
  ASSUME Base', NEW t \in Threads, NEW d \in Docs, NEW i \in {1, 2}, On(t, i, d)', Unsorted(t)'
  PROVE  Covered(d)'
<1>1. t \in Busy(d)'
  BY OnFactsNext
<1>. QED
  BY <1>1 DEF Covered

\* put takes the version before out of the index, and that of no other document.
LEMMA ReadPrevCovered ==
  ASSUME Inv, Base', NEW t \in Threads, ReadPrev(t), NEW d \in Docs, Covered(d)
  PROVE  Covered(d)'
<1>0. Base /\ OwnInv /\ CallActs(t) /\ buf' = buf /\ objects' = objects
  BY DEF Inv, CallActs, ReadPrev
<1>1. thr[t].pc = "prev" /\ sorted' = IF thr[t].kind = "put" THEN sorted \ {Previous(e) : e \in Written(t)} ELSE sorted
  BY DEF ReadPrev
<1>2. ~Unsorted(t)
  BY <1>1 DEF Unsorted
<1>3. CASE thr[t].kind = "put" /\ t \in Busy(d)
  <2>1. PICK i \in {1, 2} : On(t, i, d)
    BY <1>0, <1>3, OnFacts
  <2>2. thr'[t].pc = "write" /\ thr'[t].kind = "put" /\ On(t, i, d)'
    BY <1>0, <1>3, <2>1, ReadPrevStep DEF On
  <2>3. Unsorted(t)'
    BY <2>2 DEF Unsorted
  <2>. QED
    BY <2>2, <2>3, CoveredByCall
<1>4. CASE thr[t].kind = "put" /\ t \notin Busy(d)
  <2>1. ASSUME Current(d) \in sorted PROVE Current(d) \in sorted'
    <3>1. Current(d) \in Nat \ {0}
      <4>1. buf[d] # 0 /\ file[d] # 0
        BY <1>0 DEF OwnInv
      <4>. QED
        BY <1>0, <2>1, <4>1 DEF Base, TypeOK, Current
    <3>2. ASSUME NEW e \in Written(t), Previous(e) = Current(d) PROVE FALSE
      <4>1. e \in Docs /\ e # d
        BY <1>0, <1>4, OnFacts DEF Written, Busy
      <4>2. Owns(e, Current(d)) /\ Owns(d, Current(d))
        BY <3>2 DEF Owns, Previous, Current
      <4>. QED
        BY <1>0, <3>1, <4>1, <4>2 DEF OwnInv
    <3>. QED
      BY <1>1, <2>1, <3>2
  <2>. QED
    BY <1>0, <1>2, <2>1, CoveredStays
<1>5. CASE thr[t].kind # "put"
  BY <1>0, <1>1, <1>2, <1>5, CoveredStays
<1>. QED
  BY <1>3, <1>4, <1>5

\* The index is kept by a call.
LEMMA CallCovered ==
  ASSUME Inv, Base', NEW t \in Threads, CallActs(t), fill.pc # "none", NEW d \in Docs, d \notin unsure', Covered(d)
  PROVE  Covered(d)'
<1>0. Base /\ d \notin unsure /\ Settled(d) /\ buf \in [Docs -> Pointers \cup {NONE}]
  BY CallKeepsUp DEF Inv, PointerInv, Base, TypeOK
<1>1. CASE Begins(t)
  <2>1. buf' = buf /\ sorted' = sorted /\ objects' = objects /\ thr[t].pc = "idle"
    BY <1>1 DEF Begins, Call
  <2>2. ~Unsorted(t)
    BY <2>1 DEF Unsorted
  <2>. QED
    BY <1>0, <2>1, <2>2, CoveredStays
<1>2. CASE ReadPrev(t)
  BY <1>2, ReadPrevCovered
<1>3. CASE TakeSeq(t) \/ ReadHead(t) \/ Chain(t)
  <2>1. buf' = buf /\ sorted' = sorted /\ objects' = objects
    BY <1>3 DEF TakeSeq, ReadHead, Chain, state
  <2>2. thr[t].pc \in {"seq", "read", "chain"}
    BY <1>3 DEF TakeSeq, ReadHead, Chain
  <2>3. ~Unsorted(t)
    BY <2>2 DEF Unsorted
  <2>. QED
    BY <1>0, <2>1, <2>3, CoveredStays
<1>4. CASE WriteObjects(t)
  <2>1. buf' = buf /\ sorted' = sorted
    BY <1>4 DEF WriteObjects
  <2>2. ASSUME t \in Busy(d), Unsorted(t) PROVE t \in Busy(d)' /\ Unsorted(t)'
    <3>1. /\ thr[t].pc = "write" /\ thr'[t].pc = (IF thr[t].kind = "delete" THEN "read" ELSE "set")
          /\ DOMAIN thr'[t].nodes = DOMAIN thr[t].nodes
          /\ \A j \in DOMAIN thr[t].nodes : thr'[t].nodes[j].doc = thr[t].nodes[j].doc
      BY <1>0, <1>4, WriteObjectsStep
    <3>2. Unsorted(t)'
      BY <2>2, <3>1 DEF Unsorted
    <3>3. Written(t)' = Written(t)
      BY <3>1 DEF Written
    <3>. QED
      BY <2>2, <3>2, <3>3 DEF Busy
  <2>3. ASSUME NEW o \in objects', o.n = Current(d) PROVE o \in objects
    <3>0. OwnInv /\ born \in Nat
      BY <1>0 DEF Inv, Base, TypeOK
    <3>1. CASE Current(d) = NIL
      <4>1. o.n \in Nat
        BY DEF Base, TypeOK, Nodes
      <4>. QED
        BY <2>3, <3>1, <4>1, MarksAssumption
    <3>2. CASE Current(d) # NIL
      <4>1. Current(d) \in Nat \ {0}
        BY <1>0, <3>0, <3>2, CurrentType DEF OwnInv, Current, Pointers, Base
      <4>2. Owns(d, Current(d))
        BY DEF Owns, Current
      <4>3. Current(d) <= born
        BY <3>0, <4>1, <4>2 DEF OwnInv
      <4>4. /\ objects' = objects \cup {thr'[t].nodes[j] : j \in DOMAIN thr[t].nodes}
            /\ \A j \in DOMAIN thr[t].nodes : thr'[t].nodes[j].n = born + j
        BY <1>0, <1>4, WriteObjectsStep
      <4>5. \A j \in DOMAIN thr[t].nodes : j \in {1, 2}
        BY <1>0, OnFacts
      <4>. QED
        BY <2>3, <3>0, <4>1, <4>3, <4>4, <4>5
    <3>. QED
      BY <3>1, <3>2
  <2>. QED
    BY <1>0, <2>1, <2>2, <2>3, CoveredStays
<1>5. CASE \E i \in {1, 2} : SetOne(t, i)
  <2>1. PICK i \in {1, 2} : SetOne(t, i)
    BY <1>5
  <2>2. Stays(t) /\ thr'[t].pc \in {"sort", "set"} /\ i \in DOMAIN thr[t].nodes
    BY <1>0, <2>1, SetOneStep
  <2>3. Unsorted(t)'
    BY <2>2 DEF Unsorted
  <2>4. /\ sorted' = sorted /\ objects' = objects
        /\ buf' = [buf EXCEPT ![thr[t].nodes[i].doc] = thr[t].nodes[i].n]
    BY <2>1 DEF SetOne, SetPointer
  <2>5. CASE thr[t].nodes[i].doc = d
    <3>1. On(t, i, d)'
      BY <2>2, <2>5 DEF On, Stays
    <3>. QED
      BY <2>3, <3>1, CoveredByCall
  <2>6. CASE thr[t].nodes[i].doc # d
    <3>1. buf'[d] = buf[d]
      BY <1>0, <2>4, <2>6
    <3>2. t \in Busy(d) => t \in Busy(d)'
      BY <2>2 DEF Busy, Written, Stays
    <3>. QED
      BY <1>0, <2>3, <2>4, <3>1, <3>2, CoveredStays
  <2>. QED
    BY <2>5, <2>6
<1>6. CASE Sort(t)
  <2>1. /\ thr[t].pc = "sort" /\ buf' = buf /\ file' = file /\ objects' = objects
        /\ sorted' = sorted \cup WithField({thr[t].nodes[i] : i \in DOMAIN thr[t].nodes})
    BY <1>6 DEF Sort, SortedNew
  <2>2. CASE t \in Busy(d)
    <3>1. PICK i \in {1, 2} : On(t, i, d)
      BY <1>0, <2>2, OnFacts
    <3>2. Current(d) = thr[t].nodes[i].n
      BY <1>0, <2>1, <3>1 DEF Settled, Points, Moved
    <3>3. thr[t].nodes[i] \in objects /\ i \in DOMAIN thr[t].nodes
      BY <1>0, <2>1, <3>1 DEF Settled, Present, Before, On
    <3>4. ASSUME NEW o \in objects, o.n = Current(d), o.has PROVE o.n \in sorted'
      <4>1. o = thr[t].nodes[i]
        BY <3>2, <3>3, <3>4 DEF Inv, OwnInv
      <4>. QED
        BY <2>1, <3>3, <3>4, <4>1 DEF WithField
    <3>5. Current(d)' = Current(d)
      BY <2>1 DEF Current
    <3>. QED
      BY <2>1, <3>4, <3>5 DEF Covered, Indexed
  <2>3. CASE t \notin Busy(d)
    BY <1>0, <2>1, <2>3, CoveredStays
  <2>. QED
    BY <2>2, <2>3
<1>7. CASE Remove(t)
  <2>1. /\ thr[t].pc = "remove" /\ sorted' = sorted /\ objects' = objects
        /\ buf' = [buf EXCEPT ![thr[t].nodes[1].doc] = NIL]
    BY <1>7 DEF Remove, Removed, SetPointer
  <2>2. ~Unsorted(t)
    BY <2>1 DEF Unsorted
  <2>3. CASE thr[t].nodes[1].doc = d
    <3>1. Current(d)' = NIL
      BY <1>0, <2>1, <2>3, MarksAssumption DEF Current
    <3>. QED
      BY <3>1 DEF Covered
  <2>4. CASE thr[t].nodes[1].doc # d
    <3>1. buf'[d] = buf[d]
      BY <1>0, <2>1, <2>4
    <3>. QED
      BY <1>0, <2>1, <2>2, <3>1, CoveredStays
  <2>. QED
    BY <2>3, <2>4
<1>. QED
  BY <1>1, <1>2, <1>3, <1>4, <1>5, <1>6, <1>7 DEF CallActs

\* create_sorted_index itself.
LEMMA CreateCovered ==
  ASSUME Inv, SortInv, CreateSortedIndex
  PROVE  SortInv'
<1>0. fill \in Fills /\ file' = file /\ buf' = buf /\ thr' = thr /\ unsure' = unsure /\ objects' = objects
  BY DEF Inv, Base, TypeOK, CreateSortedIndex
<1>1. \A d \in Docs : Current(d)' = Current(d) /\ Busy(d)' = Busy(d)
  BY <1>0 DEF Current, Busy, Written
<1>2. \A t \in Threads : Unsorted(t)' = Unsorted(t)
  BY <1>0 DEF Unsorted
<1>3. ASSUME NEW d \in Docs, \E t \in Busy(d) : Unsorted(t) PROVE \E t \in Busy(d)' : Unsorted(t)'
  <2>1. PICK t \in Busy(d) : Unsorted(t)
    BY <1>3
  <2>2. t \in Threads
    BY DEF Busy
  <2>. QED
    BY <1>1, <1>2, <2>1, <2>2
<1>. SUFFICES ASSUME NEW d \in Docs, d \notin unsure', d \notin fill'.missed PROVE Covered(d)'
  BY DEF SortInv
<1>4. CASE Ensure
  <2>1. fill'.pc = "buffer" /\ fill'.ids = {e \in Docs : file[e] # NIL}
    BY <1>0, <1>4 DEF Ensure, Fills
  <2>2. CASE buf[d] # NONE
    BY <1>0, <2>1, <2>2 DEF Covered
  <2>3. CASE buf[d] = NONE
    <3>1. Current(d)' = NIL \/ d \in fill'.ids
      BY <1>1, <2>1, <2>3 DEF Current
    <3>. QED
      BY <2>1, <3>1 DEF Covered
  <2>. QED
    BY <2>2, <2>3
<1>5. CASE ListBuffer
  <2>1. /\ fill.pc = "buffer" /\ fill'.pc = "fill" /\ fill'.missed = fill.missed /\ sorted' = sorted
        /\ fill'.ids = {e \in Docs : buf[e] # NIL /\ (e \in fill.ids \/ buf[e] # NONE)}
    BY <1>0, <1>5 DEF ListBuffer, Fills
  <2>2. Covered(d)
    BY <1>0, <2>1 DEF SortInv
  <2>3. CASE d \in fill.ids \/ buf[d] # NONE
    <3>1. CASE buf[d] = NIL
      BY <1>1, <3>1, MarksAssumption DEF Covered, Current
    <3>2. CASE buf[d] # NIL
      BY <2>1, <2>3, <3>2 DEF Covered
    <3>. QED
      BY <3>1, <3>2
  <2>4. CASE ~(d \in fill.ids \/ buf[d] # NONE)
    <3>1. Current(d) = NIL \/ Indexed(d) \/ \E t \in Busy(d) : Unsorted(t)
      BY <2>1, <2>2, <2>4 DEF Covered
    <3>2. Indexed(d) => Indexed(d)'
      BY <1>0, <1>1, <2>1 DEF Indexed
    <3>. QED
      BY <1>1, <1>3, <2>1, <3>1, <3>2 DEF Covered
  <2>. QED
    BY <2>3, <2>4
<1>6. ASSUME NEW e \in Docs, FillOne(e) PROVE Covered(d)'
  <2>1. /\ fill.pc = "fill" /\ fill'.pc = "fill" /\ fill'.missed = fill.missed /\ fill'.ids = fill.ids \ {e}
        /\ sorted' = sorted \cup WithField({o \in objects : o.n = Current(e)})
    BY <1>0, <1>6 DEF FillOne, Fills
  <2>2. Covered(d)
    BY <1>0, <2>1 DEF SortInv
  <2>3. CASE e = d
    <3>1. Indexed(d)'
      BY <1>0, <1>1, <2>1, <2>3 DEF Indexed, WithField
    <3>. QED
      BY <3>1 DEF Covered
  <2>4. CASE e # d
    <3>1. Current(d) = NIL \/ Indexed(d) \/ d \in fill.ids \/ \E t \in Busy(d) : Unsorted(t)
      BY <2>1, <2>2 DEF Covered
    <3>2. Indexed(d) => Indexed(d)'
      BY <1>0, <1>1, <2>1 DEF Indexed
    <3>. QED
      BY <1>1, <1>3, <2>1, <2>4, <3>1, <3>2 DEF Covered
  <2>. QED
    BY <2>3, <2>4
<1>. QED
  BY <1>4, <1>5, <1>6 DEF CreateSortedIndex

\* A step that leaves the pointers, what is in the index, and the calls.
LEMMA AsideCovered ==
  ASSUME NEW d \in Docs, Covered(d), thr' = thr, sorted \subseteq sorted', objects' \subseteq objects, fill'.pc = fill.pc, fill'.ids = fill.ids,
         Current(d)' = Current(d), fill.pc = "buffer" /\ buf[d] # NONE => d \in fill.ids \/ buf'[d] # NONE
  PROVE  Covered(d)'
<1>1. Busy(d)' = Busy(d)
  BY DEF Busy, Written
<1>2. \A t \in Threads : Unsorted(t)' = Unsorted(t)
  BY DEF Unsorted
<1>3. (\E t \in Busy(d) : Unsorted(t)) => \E t \in Busy(d)' : Unsorted(t)'
  <2>1. \A t \in Busy(d) : t \in Threads
    BY DEF Busy
  <2>. QED
    BY <1>1, <1>2, <2>1
<1>4. Indexed(d) => Indexed(d)'
  BY DEF Indexed
<1>. QED
  BY <1>3, <1>4 DEF Covered

\* Maintenance and restarts: a flush that would hide a document from create_sorted_index
\* makes it one that may be missed.
LEMMA OtherSorted ==
  ASSUME Inv, SortInv, Others
  PROVE  SortInv'
<1>0. job \in Jobs /\ fill \in Fills
  BY DEF Inv, Base, TypeOK
<1>1. CASE CreateSortedIndex
  BY <1>1, CreateCovered
<1>2. CASE Crash
  <2>1. fill'.pc = "none"
    BY <1>2 DEF Crash, NoIndex
  <2>. QED
    BY <2>1 DEF SortInv
<1>3. CASE WriteFiles
  <2>1. /\ job.pc = "files" /\ buf' = buf /\ file' = Flushed /\ thr' = thr /\ sorted' = sorted /\ fill' = fill
        /\ unsure' = unsure /\ objects' = objects
    BY <1>3 DEF WriteFiles
  <2>. SUFFICES ASSUME fill.pc # "none", NEW d \in Docs, d \notin unsure, d \notin fill.missed PROVE Covered(d)'
    BY <2>1 DEF SortInv
  <2>2. Covered(d) /\ Flushing(d)
    BY DEF SortInv, Inv, PointerInv, Settled
  <2>3. Current(d)' = Current(d)
    BY <2>1, <2>2 DEF Current, Flushed, Flushing, UnderFlush
  <2>. QED
    BY <2>1, <2>2, <2>3, AsideCovered
<1>4. CASE Clear
  <2>1. /\ job.pc = "clear" /\ file' = file /\ thr' = thr /\ sorted' = sorted /\ unsure' = unsure
        /\ objects' = objects
        /\ buf' = [e \in Docs |-> IF job.got[e] = NONE THEN buf[e] ELSE NONE]
    BY <1>4 DEF Clear
  <2>2. /\ fill'.pc = fill.pc /\ fill'.ids = fill.ids /\ fill.missed \subseteq fill'.missed
        /\ fill.pc = "buffer" => {e \in Docs \ fill.ids : job.got[e] # NONE} \subseteq fill'.missed
    BY <1>0, <1>4 DEF Clear, Fills
  <2>. SUFFICES ASSUME fill.pc # "none", NEW d \in Docs, d \notin unsure, d \notin fill'.missed PROVE Covered(d)'
    BY <2>1, <2>2 DEF SortInv
  <2>3. Covered(d) /\ Flushing(d)
    BY <2>2 DEF SortInv, Inv, PointerInv, Settled
  <2>4. Current(d)' = Current(d)
    BY <2>1, <2>3 DEF Current, Flushing, UnderFlush
  <2>5. fill.pc = "buffer" /\ buf[d] # NONE => d \in fill.ids \/ buf'[d] # NONE
    BY <2>1, <2>2
  <2>. QED
    BY <2>1, <2>2, <2>3, <2>4, <2>5, AsideCovered
<1>5. CASE \/ Collects \/ ReadSeq \/ WriteManifest \/ Live \/ Drop \/ WarmStart \/ ColdStart
           \/ ScanRead \/ ScanSeq \/ ScanHead \/ ScanManifest \/ UNCHANGED vars
  <2>1. /\ buf' = buf /\ file' = file /\ thr' = thr /\ sorted \subseteq sorted' /\ fill' = fill
        /\ unsure \subseteq unsure' /\ objects' \subseteq objects
    <3>1. CASE Collects \/ ReadSeq \/ WriteManifest \/ Live \/ Drop \/ WarmStart \/ ColdStart \/ UNCHANGED vars
      BY <3>1 DEF Collects, Collect, ReadSeq, WriteManifest, Live, Drop, Kept, WarmStart, ColdStart, vars, state
    <3>2. CASE ScanRead \/ ScanSeq \/ ScanHead \/ ScanManifest
      BY <3>2 DEF ScanRead, ScanSeq, ScanHead, ScanManifest
    <3>. QED
      BY <1>5, <3>1, <3>2
  <2>. SUFFICES ASSUME fill.pc # "none", NEW d \in Docs, d \notin unsure, d \notin fill.missed PROVE Covered(d)'
    BY <2>1 DEF SortInv
  <2>2. Covered(d) /\ Current(d)' = Current(d)
    BY <2>1 DEF SortInv, Current
  <2>. QED
    BY <2>1, <2>2, AsideCovered
<1>. QED
  BY <1>1, <1>2, <1>3, <1>4, <1>5 DEF Others

\* Every step keeps it.
LEMMA NextSortInv == Inv /\ SortInv /\ [Next]_vars => SortInv'
<1>. SUFFICES ASSUME Inv, SortInv, [Next]_vars PROVE SortInv'
  OBVIOUS
<1>1. Base' /\ Base
  BY NextInv DEF Inv
<1>2. ASSUME NEW t \in Threads, CallActs(t) PROVE SortInv'
  <2>1. fill' = fill /\ unsure \subseteq unsure'
    BY <1>1, <1>2, CallKeepsUp
  <2>. SUFFICES ASSUME fill.pc # "none", NEW d \in Docs, d \notin unsure', d \notin fill.missed PROVE Covered(d)'
    BY <2>1 DEF SortInv
  <2>2. Covered(d)
    BY <2>1 DEF SortInv
  <2>. QED
    BY <1>1, <1>2, <2>2, CallCovered
<1>. QED
  BY <1>2, OtherSorted, StepKinds

\* Once create_sorted_index has returned, ORDER BY without LIMIT misses no document that has
\* the field: with any number of writers while it runs, and whatever the flushes, unless one
\* comes between the two halves of its list of documents.
THEOREM OrderByMissesNone == Spec => []SortedMissesNone
<1>1. Init => Inv /\ SortInv
  BY InitInv DEF Init, SortInv, NoIndex
<1>2. (Inv /\ SortInv) /\ [Next]_vars => (Inv /\ SortInv)'
  BY NextInv, NextSortInv
<1>3. ASSUME Inv, SortInv PROVE SortedMissesNone
  <2>. SUFFICES ASSUME fill.pc = "fill", fill.ids = {}, NEW d \in Docs \ (unsure \cup fill.missed), NEW o \in objects,
                       Busy(d) = {}, o.n = Current(d), o.has
                PROVE  o.n \in sorted
    BY DEF SortedMissesNone
  <2>1. o.n # NIL
    BY <1>3, MarksAssumption DEF Inv, Base, TypeOK, Nodes
  <2>2. Covered(d)
    BY <1>3 DEF SortInv
  <2>. QED
    BY <2>1, <2>2 DEF Covered, Indexed
<1>. QED
  BY <1>1, <1>2, <1>3, PTL DEF Spec

=============================================================================
