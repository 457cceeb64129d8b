------------------------ MODULE SnapshotReadsProofs ------------------------
(***************************************************************************)
(* Theorems on SnapshotReads, for any keys, documents and readers and any  *)
(* length of the log and of a batch.                                       *)
(***************************************************************************)
EXTENDS SnapshotReads, BasicLemmas, FiniteSetTheorems

-----------------------------------------------------------------------------
(* The committer.                                                           *)

Values == Docs \cup {NIL}
Ops == [key : Keys, val : Values]
Entries == [seq : Nat, val : Values]
Reads == [pc : {"idle", "plan", "next", "bisect", "load", "done", "raised"}, kind : {"scan", "search"},
          want : Values, pin : Int, todo : SUBSET Keys, key : Keys \cup {NIL}, at : Nat, found : SUBSET Keys]

TypeOK ==
  /\ ops \in Seq(Ops) /\ v \in [Keys -> Seq(Entries)] /\ seqs \in [Keys -> Seq(Nat)]
  /\ committed_seq \in Int /\ batched \in Nat
  /\ cpc \in {"idle", "unindex", "write1", "write2", "index"}
  /\ rd \in [Readers -> Reads]

\* The ops that are in the chains.
Applied == IF cpc \in {"unindex", "write1"} THEN Len(ops) - 1 ELSE Len(ops)

\* What is published is what was applied before the current batch.
LogInv == committed_seq >= -1 /\ committed_seq + 1 + batched + (IF cpc = "idle" THEN 0 ELSE 1) = Len(ops)

\* The chain of a key is its ops, in their order.
ChainInv(k) ==
  /\ \A j \in 1..Len(v[k]) : /\ v[k][j].seq < Applied
                             /\ ops[v[k][j].seq + 1].key = k /\ ops[v[k][j].seq + 1].val = v[k][j].val
  /\ \A i, j \in 1..Len(v[k]) : i < j => v[k][i].seq < v[k][j].seq
  /\ \A n \in 1..Applied : ops[n].key = k => \E j \in 1..Len(v[k]) : v[k][j].seq = n - 1

InOp(k) == cpc # "idle" /\ Current.key = k

\* _seqs has the seqs of the chain, but for the last one between the two halves of a write.
SeqsInv(k) ==
  /\ Len(v[k]) = Len(seqs[k]) + (IF cpc = "write2" /\ Current.key = k THEN 1 ELSE 0)
  /\ \A j \in 1..Len(seqs[k]) : seqs[k][j] = v[k][j].seq

\* The document of a key that no op is at work on is in the index.
IndexInv(k) ==
  /\ ~InOp(k) /\ Old(k) # NIL => <<Old(k), k>> \in inv
  /\ InOp(k) /\ cpc \in {"write2", "index"} =>
       v[k] # << >> /\ v[k][Len(v[k])] = [seq |-> Len(ops) - 1, val |-> Current.val]

Store == TypeOK /\ LogInv /\ \A k \in Keys : ChainInv(k) /\ SeqsInv(k) /\ IndexInv(k)

\* A key is in the index under its document only, and is not there while it is written.
Posted == \A k \in Keys : \A d : <<d, k>> \in inv => d # NIL /\ d = Old(k) /\ (InOp(k) => cpc = "unindex")

-----------------------------------------------------------------------------
(* The readers.                                                             *)

Rows(s, d) == {k \in Keys : DocAsOf(k, s) = d}

WrittenAfter(k, s) == \E n \in 1..Len(ops) : n - 1 > s /\ ops[n].key = k

\* Keys that the read has still to decide on.
Pending(c) == c.todo \cup (IF c.pc \in {"bisect", "load"} THEN {c.key} ELSE {})

\* What a read may find: for SEARCH also a document that had the term after the snapshot.
Found(c) ==
  IF c.kind = "scan" THEN Rows(c.pin, c.want)
  ELSE {k \in Keys : DocAsOf(k, c.pin) # NIL /\ (DocAsOf(k, c.pin) = c.want \/ WrittenAfter(k, c.pin))}

\* What a read has found so far is right, and what it has not found is still to come.
ReaderInv(c) ==
  /\ c.pc \notin {"idle", "raised"} => c.want \in Docs /\ -1 <= c.pin /\ c.pin <= committed_seq
  /\ c.pc = "plan" => c.found = {}
  /\ c.pc \in {"next", "bisect", "load", "done"} =>
       /\ c.found \subseteq Found(c)
       /\ \A k \in Rows(c.pin, c.want) \ c.found :
            k \in Pending(c) \/ (c.kind = "search" /\ WrittenAfter(k, c.pin))
       /\ c.kind = "search" => \A k \in Pending(c) : DocAsOf(k, c.pin) = c.want \/ WrittenAfter(k, c.pin)
  /\ c.pc \in {"bisect", "load"} => c.key \in Keys /\ v[c.key] # << >>
  /\ c.pc = "load" => c.at \in 1..Len(v[c.key]) /\ v[c.key][c.at].val = DocAsOf(c.key, c.pin)
  /\ c.pc = "done" => c.todo = {}

Inv == Store /\ Posted /\ \A r \in Readers : \A c \in Reads : c = rd[r] => ReaderInv(c)

-----------------------------------------------------------------------------
(* Steps of the committer.                                                  *)

Commits == (\E k \in Keys, val \in Docs \cup {NIL} : LogOp(k, val)) \/ Unindex \/ Write1 \/ Write2 \/ Index \/ Publish

\* The op at work is the last one of the log.
LEMMA CurrentOp ==
  ASSUME TypeOK, LogInv, cpc # "idle"
  PROVE  /\ Len(ops) \in Nat \ {0} /\ Current = ops[Len(ops)] /\ Current \in Ops
         /\ Current.key \in Keys /\ Current.val \in Values /\ Len(ops) - 1 \in Nat
<1>1. Len(ops) \in Nat
  BY DEF TypeOK
<1>2. Len(ops) # 0
  BY <1>1 DEF LogInv, TypeOK
<1>3. ops[Len(ops)] \in Ops
  BY <1>1, <1>2, ElementOfSeq DEF TypeOK
<1>. QED
  BY <1>1, <1>2, <1>3 DEF Current, Ops

\* The types of what the store holds.
LEMMA StoreTypes ==
  ASSUME TypeOK, NEW k \in Keys
  PROVE  /\ v[k] \in Seq(Entries) /\ seqs[k] \in Seq(Nat) /\ Len(v[k]) \in Nat /\ Len(seqs[k]) \in Nat /\ Len(ops) \in Nat
         /\ \A j \in 1..Len(v[k]) : v[k][j] \in Entries /\ v[k][j].seq \in Nat /\ v[k][j].val \in Values
         /\ \A j \in 1..Len(seqs[k]) : seqs[k][j] \in Nat
         /\ v[k] = << >> <=> Len(v[k]) = 0
         /\ seqs[k] = << >> <=> Len(seqs[k]) = 0
<1>1. v[k] \in Seq(Entries) /\ seqs[k] \in Seq(Nat) /\ ops \in Seq(Ops)
  BY DEF TypeOK
<1>2. Len(v[k]) \in Nat /\ Len(seqs[k]) \in Nat /\ Len(ops) \in Nat
  BY <1>1
<1>3. \A j \in 1..Len(v[k]) : v[k][j] \in Entries
  BY <1>1, ElementOfSeq
<1>4. \A j \in 1..Len(seqs[k]) : seqs[k][j] \in Nat
  BY <1>1, ElementOfSeq
<1>5. v[k] = << >> <=> Len(v[k]) = 0
  BY <1>1, EmptySeq
<1>6. seqs[k] = << >> <=> Len(seqs[k]) = 0
  BY <1>1, EmptySeq
<1>. QED
  BY <1>1, <1>2, <1>3, <1>4, <1>5, <1>6 DEF Entries

\* The op is logged.
LEMMA LogOpStore ==
  ASSUME Store, NEW key \in Keys, NEW val \in Docs \cup {NIL}, LogOp(key, val)
  PROVE  Store' /\ Len(ops') = Len(ops) + 1 /\ \A n \in 1..Len(ops) : ops'[n] = ops[n]
<1>0. /\ cpc = "idle" /\ cpc' = "unindex" /\ v' = v /\ seqs' = seqs /\ inv' = inv /\ committed_seq' = committed_seq
      /\ batched' = batched /\ rd' = rd /\ ops' = Append(ops, [key |-> key, val |-> val])
  BY DEF LogOp, store
<1>1. TypeOK /\ LogInv /\ ops \in Seq(Ops) /\ [key |-> key, val |-> val] \in Ops
  BY DEF Store, TypeOK, Ops, Values
<1>2. /\ ops' \in Seq(Ops) /\ Len(ops') = Len(ops) + 1 /\ Len(ops) \in Nat
      /\ \A n \in 1..Len(ops) : ops'[n] = ops[n]
  BY <1>0, <1>1, AppendProperties
<1>3. TypeOK' /\ LogInv'
  BY <1>0, <1>1, <1>2 DEF TypeOK, LogInv
<1>4. Applied = Len(ops) /\ Applied' = Len(ops)
  BY <1>0, <1>2 DEF Applied
<1>5. ASSUME NEW k \in Keys PROVE ChainInv(k)' /\ SeqsInv(k)' /\ IndexInv(k)'
  <2>1. ChainInv(k) /\ SeqsInv(k) /\ IndexInv(k)
    BY DEF Store
  <2>2. /\ Len(v[k]) \in Nat
        /\ \A j \in 1..Len(v[k]) : v[k][j].seq \in Nat
    BY <1>1, StoreTypes
  <2>3. \A j \in 1..Len(v[k]) : v[k][j].seq + 1 \in 1..Len(ops)
    BY <1>2, <1>4, <2>1, <2>2 DEF ChainInv
  <2>4. ChainInv(k)'
    BY <1>0, <1>2, <1>4, <2>1, <2>3 DEF ChainInv
  <2>5. SeqsInv(k)'
    BY <1>0, <2>1 DEF SeqsInv
  <2>6. Old(k)' = Old(k) /\ ~InOp(k)
    BY <1>0 DEF Old, InOp
  <2>7. IndexInv(k)'
    BY <1>0, <2>1, <2>6 DEF IndexInv
  <2>. QED
    BY <2>4, <2>5, <2>7
<1>. QED
  BY <1>2, <1>3, <1>5 DEF Store

\* The old document leaves the index, and that of no other key.
LEMMA UnindexStore ==
  ASSUME Store, Unindex
  PROVE  Store'
<1>0. /\ cpc = "unindex" /\ cpc' = "write1" /\ v' = v /\ seqs' = seqs /\ committed_seq' = committed_seq
      /\ batched' = batched /\ rd' = rd /\ ops' = ops /\ inv' = inv \ {<<Old(Current.key), Current.key>>}
  BY DEF Unindex
<1>1. TypeOK /\ LogInv /\ Applied' = Applied /\ Current' = Current
  BY <1>0 DEF Store, Applied, Current
<1>2. TypeOK' /\ LogInv'
  BY <1>0, <1>1 DEF TypeOK, LogInv
<1>3. ASSUME NEW k \in Keys PROVE ChainInv(k)' /\ SeqsInv(k)' /\ IndexInv(k)'
  <2>1. ChainInv(k) /\ SeqsInv(k) /\ IndexInv(k)
    BY DEF Store
  <2>2. ChainInv(k)' /\ SeqsInv(k)'
    BY <1>0, <1>1, <2>1 DEF ChainInv, SeqsInv
  <2>3. Old(k)' = Old(k) /\ InOp(k)' = InOp(k)
    BY <1>0, <1>1 DEF Old, InOp
  <2>4. ASSUME ~InOp(k), Old(k) # NIL PROVE <<Old(k), k>> \in inv'
    <3>1. k # Current.key
      BY <1>0, <2>4 DEF InOp
    <3>2. <<Old(k), k>> # <<Old(Current.key), Current.key>>
      BY <3>1
    <3>. QED
      BY <1>0, <2>1, <2>4, <3>2 DEF IndexInv
  <2>. QED
    BY <1>0, <2>2, <2>3, <2>4 DEF IndexInv
<1>. QED
  BY <1>2, <1>3 DEF Store

\* The version enters the chain.
LEMMA Write1Store ==
  ASSUME Store, Write1
  PROVE  /\ Store'
         /\ \A k \in Keys : Len(v[k]) <= Len(v'[k]) /\ \A j \in 1..Len(v[k]) : v'[k][j] = v[k][j]
<1>. DEFINE c == Current.key
            e == [seq |-> Len(ops) - 1, val |-> Current.val]
<1>0. /\ cpc = "write1" /\ cpc' = "write2" /\ seqs' = seqs /\ committed_seq' = committed_seq
      /\ batched' = batched /\ rd' = rd /\ ops' = ops /\ inv' = inv /\ v' = [v EXCEPT ![c] = Append(@, e)]
  BY DEF Write1, AppendTo
<1>1. TypeOK /\ LogInv /\ Current' = Current
  BY <1>0 DEF Store, Current
<1>2. /\ Len(ops) \in Nat \ {0} /\ c = ops[Len(ops)].key /\ Current.val = ops[Len(ops)].val /\ c \in Keys
      /\ e \in Entries /\ e.seq = Len(ops) - 1 /\ e.val = Current.val
  BY <1>0, <1>1, CurrentOp DEF Entries
<1>. HIDE DEF e, c
<1>3. v \in [Keys -> Seq(Entries)] /\ Applied = Len(ops) - 1 /\ Applied' = Len(ops)
  BY <1>0, <1>1 DEF TypeOK, Applied
<1>4. /\ v'[c] \in Seq(Entries) /\ v'[c] # << >> /\ Len(v'[c]) = Len(v[c]) + 1 /\ v'[c][Len(v[c]) + 1] = e
      /\ \A j \in 1..Len(v[c]) : v'[c][j] = v[c][j]
  <2>1. v[c] \in Seq(Entries) /\ v'[c] = Append(v[c], e)
    BY <1>0, <1>2, <1>3
  <2>. QED
    BY <1>2, <2>1, AppendProperties
<1>5. \A k \in Keys : k # c => v'[k] = v[k]
  BY <1>0, <1>3
<1>6. TypeOK' /\ LogInv'
  <2>1. v' \in [Keys -> Seq(Entries)]
    BY <1>0, <1>2, <1>3, <1>4
  <2>. QED
    BY <1>0, <1>1, <2>1 DEF TypeOK, LogInv
<1>7. ASSUME NEW k \in Keys, k # c PROVE ChainInv(k)' /\ SeqsInv(k)' /\ IndexInv(k)'
  <2>1. ChainInv(k) /\ SeqsInv(k) /\ IndexInv(k) /\ v'[k] = v[k]
    BY <1>5, <1>7 DEF Store
  <2>2. \A n \in 1..Len(ops) : ops[n].key = k => n \in 1..Applied
    BY <1>2, <1>3, <1>7
  <2>3. \A j \in 1..Len(v[k]) : v[k][j].seq < Len(ops)
    BY <1>1, <1>2, <1>3, <2>1, StoreTypes DEF ChainInv
  <2>4. ChainInv(k)'
    BY <1>0, <1>3, <2>1, <2>2, <2>3 DEF ChainInv
  <2>5. SeqsInv(k)'
    BY <1>0, <1>1, <1>7, <2>1 DEF SeqsInv, c
  <2>6. ~InOp(k) /\ ~InOp(k)' /\ Old(k)' = Old(k)
    BY <1>1, <1>7, <2>1 DEF InOp, Old, c
  <2>7. IndexInv(k)'
    BY <1>0, <2>1, <2>6 DEF IndexInv
  <2>. QED
    BY <2>4, <2>5, <2>7
<1>8. ASSUME NEW k \in Keys, k = c PROVE ChainInv(k)' /\ SeqsInv(k)' /\ IndexInv(k)'
  <2>1. ChainInv(k) /\ SeqsInv(k)
    BY DEF Store
  <2>2. /\ Len(v[k]) \in Nat /\ Len(seqs[k]) \in Nat
        /\ \A j \in 1..Len(v[k]) : v[k][j].seq \in Nat /\ v[k][j].seq < Len(ops) - 1
    BY <1>1, <1>2, <1>3, <2>1, StoreTypes DEF ChainInv
  <2>3. /\ v'[k] # << >> /\ Len(v'[k]) = Len(v[k]) + 1
        /\ \A j \in 1..Len(v[k]) : v'[k][j] = v[k][j]
        /\ v'[k][Len(v[k]) + 1] = e
    BY <1>4, <1>8
  <2>4. /\ v'[k][Len(v[k]) + 1].seq = Len(ops) - 1 /\ v'[k][Len(v[k]) + 1].val = ops[Len(ops)].val
        /\ ops[Len(ops)].key = k /\ Len(ops) - 1 + 1 = Len(ops)
    BY <1>2, <1>8, <2>3
  <2>5. \A j \in 1..Len(v'[k]) : j = Len(v[k]) + 1 \/ j \in 1..Len(v[k])
    BY <2>2, <2>3
  <2>6. Len(v[k]) + 1 \in 1..Len(v'[k]) /\ \A j \in 1..Len(v[k]) : j \in 1..Len(v'[k])
    BY <2>2, <2>3
  <2>7. ASSUME NEW j \in 1..Len(v'[k])
        PROVE  /\ v'[k][j].seq < Len(ops)
               /\ ops[v'[k][j].seq + 1].key = k /\ ops[v'[k][j].seq + 1].val = v'[k][j].val
    <3>1. CASE j = Len(v[k]) + 1
      BY <1>2, <2>4, <3>1
    <3>2. CASE j \in 1..Len(v[k])
      <4>1. v'[k][j] = v[k][j] /\ v[k][j].seq \in Nat /\ v[k][j].seq < Len(ops) - 1
        BY <2>2, <2>3, <3>2
      <4>2. ops[v[k][j].seq + 1].key = k /\ ops[v[k][j].seq + 1].val = v[k][j].val
        BY <2>1, <3>2 DEF ChainInv
      <4>. QED
        BY <1>2, <4>1, <4>2
    <3>. QED
      BY <2>5, <3>1, <3>2
  <2>8. ASSUME NEW i \in 1..Len(v'[k]), NEW j \in 1..Len(v'[k]), i < j PROVE v'[k][i].seq < v'[k][j].seq
    <3>0. i \in 1..Len(v[k])
      BY <2>2, <2>3, <2>8
    <3>1. CASE j = Len(v[k]) + 1
      BY <2>2, <2>3, <2>4, <3>0, <3>1
    <3>2. CASE j \in 1..Len(v[k])
      BY <2>1, <2>3, <2>8, <3>0, <3>2 DEF ChainInv
    <3>. QED
      BY <2>5, <3>1, <3>2
  <2>9. ASSUME NEW n \in 1..Len(ops), ops[n].key = k PROVE \E j \in 1..Len(v'[k]) : v'[k][j].seq = n - 1
    <3>1. CASE n = Len(ops)
      BY <2>4, <2>6, <3>1
    <3>2. CASE n # Len(ops)
      <4>1. n \in 1..Applied
        BY <1>2, <1>3, <3>2
      <4>2. PICK j \in 1..Len(v[k]) : v[k][j].seq = n - 1
        BY <2>1, <2>9, <4>1 DEF ChainInv
      <4>3. v'[k][j].seq = n - 1 /\ j \in 1..Len(v'[k])
        BY <2>3, <2>6, <4>2
      <4>. QED
        BY <4>3
    <3>. QED
      BY <3>1, <3>2
  <2>10. ChainInv(k)'
    BY <1>0, <1>3, <2>7, <2>8, <2>9 DEF ChainInv
  <2>11. SeqsInv(k)'
    <3>1. Len(v[k]) = Len(seqs[k]) /\ \A j \in 1..Len(seqs[k]) : seqs[k][j] = v[k][j].seq
      BY <1>0, <2>1, <2>2 DEF SeqsInv
    <3>2. Len(v'[k]) = Len(seqs'[k]) + 1 /\ \A j \in 1..Len(seqs'[k]) : seqs'[k][j] = v'[k][j].seq
      BY <1>0, <2>3, <3>1
    <3>3. Current.key' = k
      BY <1>1, <1>8 DEF c
    <3>. QED
      BY <1>0, <3>2, <3>3 DEF SeqsInv
  <2>12. IndexInv(k)'
    <3>1. InOp(k)'
      BY <1>0, <1>1, <1>8 DEF InOp, c
    <3>2. v'[k][Len(v'[k])] = [seq |-> Len(ops') - 1, val |-> Current.val']
      BY <1>0, <1>1, <2>3 DEF e
    <3>. QED
      BY <2>3, <3>1, <3>2 DEF IndexInv
  <2>. QED
    BY <2>10, <2>11, <2>12
<1>9. Len(v[c]) <= Len(v'[c])
  BY <1>1, <1>2, <1>4, StoreTypes
<1>10. \A k \in Keys : Len(v[k]) <= Len(v'[k]) /\ \A j \in 1..Len(v[k]) : v'[k][j] = v[k][j]
  BY <1>1, <1>4, <1>5, <1>9, StoreTypes, SMTT(30)
<1>. QED
  BY <1>6, <1>7, <1>8, <1>10 DEF Store

\* The seq enters the list of seqs.
LEMMA Write2Store ==
  ASSUME Store, Write2
  PROVE  Store'
<1>. DEFINE c == Current.key
<1>0. /\ cpc = "write2" /\ cpc' = "index" /\ v' = v /\ committed_seq' = committed_seq
      /\ batched' = batched /\ rd' = rd /\ ops' = ops /\ inv' = inv /\ seqs' = [seqs EXCEPT ![c] = Append(@, Len(ops) - 1)]
  BY DEF Write2, AppendTo
<1>1. TypeOK /\ LogInv /\ Current' = Current /\ Applied' = Applied
  BY <1>0 DEF Store, Current, Applied
<1>2. c \in Keys /\ Len(ops) - 1 \in Nat
  BY <1>0, <1>1, CurrentOp
<1>. HIDE DEF c
<1>3. seqs \in [Keys -> Seq(Nat)]
  BY <1>1 DEF TypeOK
<1>4. /\ seqs'[c] \in Seq(Nat) /\ Len(seqs'[c]) = Len(seqs[c]) + 1 /\ seqs'[c][Len(seqs[c]) + 1] = Len(ops) - 1
      /\ \A j \in 1..Len(seqs[c]) : seqs'[c][j] = seqs[c][j]
  <2>1. seqs[c] \in Seq(Nat) /\ seqs'[c] = Append(seqs[c], Len(ops) - 1)
    BY <1>0, <1>2, <1>3
  <2>. QED
    BY <1>2, <2>1, AppendProperties
<1>5. TypeOK' /\ LogInv'
  <2>1. seqs' \in [Keys -> Seq(Nat)]
    BY <1>0, <1>2, <1>3, <1>4
  <2>. QED
    BY <1>0, <1>1, <2>1 DEF TypeOK, LogInv
<1>6. ASSUME NEW k \in Keys PROVE ChainInv(k)' /\ SeqsInv(k)' /\ IndexInv(k)'
  <2>1. ChainInv(k) /\ SeqsInv(k) /\ IndexInv(k)
    BY DEF Store
  <2>2. ChainInv(k)'
    BY <1>0, <1>1, <2>1 DEF ChainInv
  <2>3. InOp(k)' = InOp(k) /\ Old(k)' = Old(k)
    BY <1>0, <1>1 DEF InOp, Old
  <2>4. IndexInv(k)'
    BY <1>0, <1>1, <2>1, <2>3 DEF IndexInv
  <2>5. CASE k # c
    <3>1. seqs'[k] = seqs[k]
      BY <1>0, <1>3, <2>5
    <3>2. SeqsInv(k)'
      BY <1>0, <1>1, <2>1, <2>5, <3>1 DEF SeqsInv, c
    <3>. QED
      BY <2>2, <2>4, <3>2
  <2>6. CASE k = c
    <3>1. Len(v[k]) \in Nat /\ Len(seqs[k]) \in Nat
      BY <1>1, StoreTypes
    <3>2. Len(v[k]) = Len(seqs[k]) + 1 /\ \A j \in 1..Len(seqs[k]) : seqs[k][j] = v[k][j].seq
      BY <1>0, <2>1, <2>6 DEF SeqsInv, c
    <3>3. v[k][Len(v[k])].seq = Len(ops) - 1
      <4>1. InOp(k)
        BY <1>0, <2>6 DEF InOp, c
      <4>. QED
        BY <1>0, <2>1, <4>1 DEF IndexInv
    <3>4. ASSUME NEW j \in 1..Len(seqs'[k]) PROVE seqs'[k][j] = v[k][j].seq
      <4>1. j = Len(seqs[k]) + 1 \/ j \in 1..Len(seqs[k])
        BY <1>4, <2>6, <3>1
      <4>. QED
        BY <1>4, <2>6, <3>1, <3>2, <3>3, <4>1
    <3>5. SeqsInv(k)'
      BY <1>0, <1>4, <2>6, <3>1, <3>2, <3>4 DEF SeqsInv
    <3>. QED
      BY <2>2, <2>4, <3>5
  <2>. QED
    BY <2>5, <2>6
<1>. QED
  BY <1>5, <1>6 DEF Store

\* The new document enters the index.
LEMMA IndexStore ==
  ASSUME Store, Index
  PROVE  Store'
<1>0. /\ cpc = "index" /\ cpc' = "idle" /\ v' = v /\ seqs' = seqs /\ committed_seq' = committed_seq
      /\ batched' = batched + 1 /\ rd' = rd /\ ops' = ops
      /\ inv' = IF Current.val = NIL THEN inv ELSE inv \cup {<<Current.val, Current.key>>}
  BY DEF Index
<1>1. TypeOK /\ LogInv /\ Current' = Current /\ Applied' = Applied
  BY <1>0 DEF Store, Current, Applied
<1>2. TypeOK' /\ LogInv'
  BY <1>0, <1>1 DEF TypeOK, LogInv
<1>3. ASSUME NEW k \in Keys PROVE ChainInv(k)' /\ SeqsInv(k)' /\ IndexInv(k)'
  <2>1. ChainInv(k) /\ SeqsInv(k) /\ IndexInv(k)
    BY DEF Store
  <2>2. ChainInv(k)' /\ SeqsInv(k)'
    BY <1>0, <1>1, <2>1 DEF ChainInv, SeqsInv
  <2>3. Old(k)' = Old(k) /\ ~InOp(k)'
    BY <1>0 DEF Old, InOp
  <2>4. ASSUME Old(k) # NIL PROVE <<Old(k), k>> \in inv'
    <3>1. CASE InOp(k)
      <4>1. v[k] # << >> /\ v[k][Len(v[k])].val = Current.val /\ k = Current.key
        BY <1>0, <2>1, <3>1 DEF IndexInv, InOp
      <4>2. Old(k) = Current.val
        BY <4>1 DEF Old
      <4>. QED
        BY <1>0, <2>4, <4>1, <4>2
    <3>2. CASE ~InOp(k)
      BY <1>0, <2>1, <2>4, <3>2 DEF IndexInv
    <3>. QED
      BY <3>1, <3>2
  <2>. QED
    BY <1>0, <2>2, <2>3, <2>4 DEF IndexInv
<1>. QED
  BY <1>2, <1>3 DEF Store

\* The committed seq moves to the end of the log.
LEMMA PublishStore ==
  ASSUME Store, Publish
  PROVE  Store' /\ committed_seq <= committed_seq'
<1>0. /\ cpc = "idle" /\ cpc' = cpc /\ v' = v /\ seqs' = seqs /\ committed_seq' = Len(ops) - 1
      /\ batched' = 0 /\ rd' = rd /\ ops' = ops /\ inv' = inv
  BY DEF Publish, store
<1>1. TypeOK /\ LogInv /\ Current' = Current /\ Applied' = Applied
  BY <1>0 DEF Store, Current, Applied
<1>2. TypeOK' /\ LogInv' /\ committed_seq <= committed_seq'
  BY <1>0, <1>1 DEF TypeOK, LogInv
<1>3. ASSUME NEW k \in Keys PROVE ChainInv(k)' /\ SeqsInv(k)' /\ IndexInv(k)'
  <2>1. ChainInv(k) /\ SeqsInv(k) /\ IndexInv(k)
    BY DEF Store
  <2>. QED
    BY <1>0, <1>1, <2>1 DEF ChainInv, SeqsInv, IndexInv, InOp, Old
<1>. QED
  BY <1>2, <1>3 DEF Store

-----------------------------------------------------------------------------
(* What a chain gives as of a seq is what the log gives.                    *)

\* The writes of key k up to s.
Writes(k, s) == {n \in 1..Len(ops) : n - 1 <= s /\ ops[n].key = k}

\* DocAsOf is the last of them.
LEMMA LastWrite ==
  ASSUME NEW k, NEW s \in Int, Len(ops) \in Nat, NEW n \in Writes(k, s), \A m \in Writes(k, s) : m <= n
  PROVE  DocAsOf(k, s) = ops[n].val
<1>1. Writes(k, s) \subseteq Nat
  BY DEF Writes
<1>2. Max(Writes(k, s)) = n
  BY <1>1 DEF Max
<1>. QED
  BY <1>2 DEF DocAsOf, Writes

\* A snapshot does not change when the log grows.
LEMMA SnapshotStays ==
  ASSUME NEW k, NEW s \in Int, Len(ops) \in Nat, Len(ops') \in Nat, s < Len(ops), Len(ops) <= Len(ops'),
         \A n \in 1..Len(ops) : ops'[n] = ops[n]
  PROVE  DocAsOf(k, s)' = DocAsOf(k, s)
<1>1. \A n \in Nat : n - 1 <= s => n <= Len(ops)
  OBVIOUS
<1>2. Writes(k, s)' = Writes(k, s)
  BY <1>1 DEF Writes
<1>3. CASE Writes(k, s) = {}
  BY <1>2, <1>3 DEF DocAsOf, Writes
<1>4. CASE Writes(k, s) # {}
  <2>1. Max(Writes(k, s)) \in Writes(k, s)
    <3>1. Writes(k, s) \subseteq Nat /\ \A y \in Writes(k, s) : y <= Len(ops)
      BY DEF Writes
    <3>. QED
      BY <1>4, <3>1, MaxOfNaturals
  <2>2. Max(Writes(k, s)) \in 1..Len(ops)
    BY <2>1 DEF Writes
  <2>3. DocAsOf(k, s) = ops[Max(Writes(k, s))].val
    BY <1>4 DEF DocAsOf, Writes
  <2>4. DocAsOf(k, s)' = ops'[Max(Writes(k, s)')].val
    BY <1>2, <1>4 DEF DocAsOf, Writes
  <2>. QED
    BY <1>2, <2>2, <2>3, <2>4
<1>. QED
  BY <1>3, <1>4

\* The versions that a snapshot may see have their seqs in the list.
LEMMA Seen ==
  ASSUME Store, NEW k \in Keys, NEW s \in Int, s <= committed_seq
  PROVE  /\ \A n \in Writes(k, s) : \E j \in 1..Len(seqs[k]) : seqs[k][j] = n - 1
         /\ \A j \in 1..Len(seqs[k]) : /\ j \in 1..Len(v[k]) /\ seqs[k][j] = v[k][j].seq /\ seqs[k][j] \in Nat
                                       /\ seqs[k][j] + 1 \in 1..Len(ops)
                                       /\ ops[seqs[k][j] + 1].key = k /\ ops[seqs[k][j] + 1].val = v[k][j].val
         /\ \A i, j \in 1..Len(seqs[k]) : i < j => seqs[k][i] < seqs[k][j]
         /\ Len(seqs[k]) \in Nat /\ Len(ops) \in Nat /\ s < Len(ops)
         /\ v[k] = << >> => Writes(k, s) = {}
<1>0. TypeOK /\ LogInv /\ ChainInv(k) /\ SeqsInv(k) /\ IndexInv(k)
  BY DEF Store
<1>1. /\ Len(v[k]) \in Nat /\ Len(seqs[k]) \in Nat /\ Len(ops) \in Nat
      /\ \A j \in 1..Len(v[k]) : v[k][j].seq \in Nat
      /\ v[k] = << >> => Len(v[k]) = 0
  BY <1>0, StoreTypes
<1>2. committed_seq \in Int /\ batched \in Nat /\ committed_seq + 1 <= Applied /\ Applied <= Len(ops) /\ Applied \in Nat
  BY <1>0, <1>1 DEF TypeOK, LogInv, Applied
<1>3. /\ (cpc = "write2" /\ Current.key = k) => Len(v[k]) = Len(seqs[k]) + 1
      /\ ~(cpc = "write2" /\ Current.key = k) => Len(v[k]) = Len(seqs[k])
      /\ \A j \in 1..Len(seqs[k]) : seqs[k][j] = v[k][j].seq
  <2>1. CASE cpc = "write2" /\ Current.key = k
    BY <1>0, <2>1 DEF SeqsInv
  <2>2. CASE ~(cpc = "write2" /\ Current.key = k)
    <3>1. Len(v[k]) = Len(seqs[k]) + 0 /\ \A j \in 1..Len(seqs[k]) : seqs[k][j] = v[k][j].seq
      BY <1>0, <2>2 DEF SeqsInv
    <3>. QED
      BY <1>1, <2>2, <3>1
  <2>. QED
    BY <2>1, <2>2
<1>4. ASSUME NEW n \in Writes(k, s) PROVE \E j \in 1..Len(v[k]) : v[k][j].seq = n - 1 /\ j \in 1..Len(seqs[k])
  <2>1. n \in 1..Applied /\ ops[n].key = k /\ n - 1 <= committed_seq
    BY <1>1, <1>2 DEF Writes
  <2>2. PICK j \in 1..Len(v[k]) : v[k][j].seq = n - 1
    BY <1>0, <2>1 DEF ChainInv
  <2>3. j \in 1..Len(seqs[k])
    <3>1. CASE cpc = "write2" /\ Current.key = k
      <4>1. v[k][Len(v[k])].seq = Len(ops) - 1
        BY <1>0, <3>1 DEF IndexInv, InOp
      <4>2. Len(ops) - 1 > committed_seq
        BY <1>0, <1>1, <1>2, <3>1 DEF LogInv
      <4>3. j # Len(v[k])
        BY <1>1, <1>2, <2>1, <2>2, <4>1, <4>2
      <4>4. Len(v[k]) = Len(seqs[k]) + 1
        BY <1>3, <3>1
      <4>. QED
        BY <1>1, <4>3, <4>4
    <3>2. CASE ~(cpc = "write2" /\ Current.key = k)
      BY <1>3, <3>2
    <3>. QED
      BY <3>1, <3>2
  <2>. QED
    BY <2>2, <2>3
<1>5. ASSUME NEW j \in 1..Len(seqs[k])
      PROVE  /\ j \in 1..Len(v[k]) /\ seqs[k][j] = v[k][j].seq /\ seqs[k][j] \in Nat
             /\ seqs[k][j] + 1 \in 1..Len(ops)
             /\ ops[seqs[k][j] + 1].key = k /\ ops[seqs[k][j] + 1].val = v[k][j].val
  <2>1. j \in 1..Len(v[k]) /\ seqs[k][j] = v[k][j].seq
    <3>1. Len(seqs[k]) <= Len(v[k])
      BY <1>1, <1>3
    <3>. QED
      BY <1>1, <1>3, <3>1
  <2>2. v[k][j].seq < Applied /\ ops[v[k][j].seq + 1].key = k /\ ops[v[k][j].seq + 1].val = v[k][j].val
    BY <1>0, <2>1 DEF ChainInv
  <2>. QED
    BY <1>1, <1>2, <2>1, <2>2
<1>6. \A n \in Writes(k, s) : \E j \in 1..Len(seqs[k]) : seqs[k][j] = n - 1
  BY <1>4, <1>5
<1>7. ASSUME NEW i \in 1..Len(seqs[k]), NEW j \in 1..Len(seqs[k]), i < j PROVE seqs[k][i] < seqs[k][j]
  BY <1>0, <1>5, <1>7 DEF ChainInv
<1>8. v[k] = << >> => Writes(k, s) = {}
  <2>1. ASSUME v[k] = << >>, NEW n \in Writes(k, s) PROVE FALSE
    BY <1>1, <1>4, <2>1
  <2>. QED
    BY <2>1
<1>. QED
  BY <1>1, <1>2, <1>5, <1>6, <1>7, <1>8

\* bisect_right finds the version that the log gives as of s.
LEMMA Bisected ==
  ASSUME Store, NEW k \in Keys, NEW s \in Int, s <= committed_seq,
         NEW i, i = Cardinality({n \in 1..Len(seqs[k]) : seqs[k][n] <= s})
  PROVE  /\ i \in Nat
         /\ i = 0 => DocAsOf(k, s) = NIL
         /\ i # 0 => i \in 1..Len(v[k]) /\ v[k][i].val = DocAsOf(k, s)
<1>. DEFINE P == {n \in 1..Len(seqs[k]) : seqs[k][n] <= s}
<1>0. /\ \A n \in Writes(k, s) : \E j \in 1..Len(seqs[k]) : seqs[k][j] = n - 1
      /\ \A j \in 1..Len(seqs[k]) : /\ j \in 1..Len(v[k]) /\ seqs[k][j] = v[k][j].seq /\ seqs[k][j] \in Nat
                                    /\ seqs[k][j] + 1 \in 1..Len(ops)
                                    /\ ops[seqs[k][j] + 1].key = k /\ ops[seqs[k][j] + 1].val = v[k][j].val
      /\ \A a, b \in 1..Len(seqs[k]) : a < b => seqs[k][a] < seqs[k][b]
      /\ Len(seqs[k]) \in Nat /\ Len(ops) \in Nat
  BY Seen
<1>1. \A n \in Writes(k, s) : n \in Nat /\ n - 1 <= s
  BY <1>0 DEF Writes
<1>2. CASE P = {}
  <2>1. i = 0
    BY <1>2, FS_EmptySet
  <2>2. Writes(k, s) = {}
    BY <1>0, <1>1, <1>2
  <2>. QED
    BY <2>1, <2>2 DEF DocAsOf, Writes
<1>3. CASE P # {}
  <2>. DEFINE m == Max(P)
  <2>1. m \in P /\ \A y \in P : m >= y
    <3>1. P \subseteq Nat /\ \A y \in P : y <= Len(seqs[k])
      BY <1>0
    <3>. HIDE DEF P
    <3>. QED
      BY <1>0, <1>3, <3>1, MaxOfNaturals
  <2>. HIDE DEF m
  <2>2. m \in 1..Len(seqs[k]) /\ seqs[k][m] <= s /\ m \in Nat \ {0} /\ seqs[k][m] \in Nat
    BY <1>0, <2>1
  <2>3. P = 1..m
    <3>1. ASSUME NEW a \in 1..m PROVE a \in P
      <4>1. a \in 1..Len(seqs[k]) /\ (a = m \/ a < m)
        BY <1>0, <2>2
      <4>2. seqs[k][a] \in Nat /\ seqs[k][a] <= seqs[k][m]
        BY <1>0, <2>2, <4>1
      <4>. QED
        BY <2>2, <4>1, <4>2
    <3>2. ASSUME NEW a \in P PROVE a \in 1..m
      BY <1>0, <2>1, <2>2
    <3>. QED
      BY <3>1, <3>2
  <2>4. Cardinality(1..m) = m
    BY <2>2, FS_Interval
  <2>5. i = m
    BY <2>3, <2>4
  <2>6. seqs[k][m] + 1 \in Writes(k, s)
    BY <1>0, <2>2 DEF Writes
  <2>7. ASSUME NEW n \in Writes(k, s) PROVE n <= seqs[k][m] + 1
    <3>1. PICK j \in 1..Len(seqs[k]) : seqs[k][j] = n - 1
      BY <1>0
    <3>2. j \in P
      BY <1>1, <3>1
    <3>3. j \in Nat /\ j <= m
      BY <1>0, <2>1, <2>2, <3>1, <3>2
    <3>4. seqs[k][j] <= seqs[k][m]
      BY <1>0, <2>2, <3>1, <3>3
    <3>. QED
      BY <1>1, <2>2, <3>1, <3>4
  <2>8. DocAsOf(k, s) = ops[seqs[k][m] + 1].val
    BY <1>0, <2>6, <2>7, LastWrite
  <2>. QED
    BY <1>0, <2>2, <2>5, <2>8
<1>. QED
  BY <1>2, <1>3

\* A key with no version as of s.
LEMMA NoVersion ==
  ASSUME Store, NEW k \in Keys, NEW s \in Int, s <= committed_seq, v[k] = << >>
  PROVE  DocAsOf(k, s) = NIL
<1>1. Writes(k, s) = {}
  BY Seen
<1>. QED
  BY <1>1 DEF DocAsOf, Writes

\* A key that was not written since the snapshot has the document of the snapshot.
LEMMA Settled ==
  ASSUME Store, NEW k \in Keys, NEW s \in Int, s <= committed_seq, v[k] # << >>, ~WrittenAfter(k, s)
  PROVE  ~InOp(k) /\ Old(k) = DocAsOf(k, s)
<1>0. TypeOK /\ LogInv /\ ChainInv(k) /\ SeqsInv(k) /\ IndexInv(k)
  BY DEF Store
<1>1. /\ Len(v[k]) \in Nat /\ Len(ops) \in Nat /\ (v[k] = << >> <=> Len(v[k]) = 0)
      /\ \A j \in 1..Len(v[k]) : v[k][j].seq \in Nat
  BY <1>0, StoreTypes
<1>2. ~InOp(k)
  <2>. SUFFICES ASSUME InOp(k) PROVE FALSE
    OBVIOUS
  <2>1. Len(ops) \in 1..Len(ops) /\ ops[Len(ops)].key = k /\ Len(ops) - 1 > s
    <3>1. Len(ops) \in Nat \ {0} /\ Current = ops[Len(ops)] /\ cpc # "idle" /\ Current.key = k
      BY <1>0, CurrentOp DEF InOp
    <3>2. committed_seq \in Int /\ batched \in Nat /\ committed_seq < Len(ops) - 1
      BY <1>0, <3>1 DEF LogInv, TypeOK
    <3>. QED
      BY <3>1, <3>2
  <2>. QED
    BY <2>1 DEF WrittenAfter
<1>3. v[k] # << >>
  OBVIOUS
<1>. DEFINE m == Len(v[k])
<1>4. /\ m \in 1..Len(v[k]) /\ v[k][m].seq \in Nat /\ v[k][m].seq < Applied
      /\ ops[v[k][m].seq + 1].key = k /\ ops[v[k][m].seq + 1].val = v[k][m].val
  BY <1>0, <1>1, <1>3 DEF ChainInv
<1>5. Applied \in Nat /\ Applied <= Len(ops)
  <2>1. cpc # "idle" => Len(ops) \in Nat \ {0}
    BY <1>0, CurrentOp
  <2>. QED
    BY <1>1, <2>1 DEF Applied
<1>6. v[k][m].seq + 1 \in Writes(k, s)
  <2>1. v[k][m].seq + 1 \in 1..Len(ops)
    BY <1>1, <1>4, <1>5
  <2>. QED
    BY <1>4, <2>1 DEF Writes, WrittenAfter
<1>7. ASSUME NEW n \in Writes(k, s) PROVE n <= v[k][m].seq + 1
  <2>1. PICK j \in 1..Len(seqs[k]) : seqs[k][j] = n - 1
    BY Seen
  <2>2. j \in 1..Len(v[k]) /\ seqs[k][j] = v[k][j].seq
    BY Seen
  <2>3. j = m \/ j < m
    BY <1>1, <2>2
  <2>4. v[k][j].seq <= v[k][m].seq
    BY <1>0, <1>1, <1>4, <2>2, <2>3, SMTT(30) DEF ChainInv
  <2>5. n \in Nat
    BY <1>1 DEF Writes
  <2>. QED
    BY <1>4, <2>1, <2>2, <2>4, <2>5
<1>8. DocAsOf(k, s) = v[k][m].val
  BY <1>1, <1>4, <1>6, <1>7, LastWrite
<1>9. Old(k) = v[k][m].val
  BY <1>3 DEF Old
<1>. QED
  BY <1>2, <1>8, <1>9

\* Then it is in the index if it is a document,
LEMMA Indexed ==
  ASSUME Store, NEW k \in Keys, NEW s \in Int, s <= committed_seq, DocAsOf(k, s) # NIL, ~WrittenAfter(k, s)
  PROVE  <<DocAsOf(k, s), k>> \in inv
<1>1. v[k] # << >>
  BY NoVersion
<1>2. ~InOp(k) /\ Old(k) = DocAsOf(k, s)
  BY <1>1, Settled
<1>. QED
  BY <1>2 DEF Store, IndexInv

\* and under no other.
LEMMA IndexedAs ==
  ASSUME Store, Posted, NEW k \in Keys, NEW s \in Int, s <= committed_seq, NEW d, <<d, k>> \in inv,
         ~WrittenAfter(k, s)
  PROVE  DocAsOf(k, s) = d
<1>1. d # NIL /\ d = Old(k)
  BY DEF Posted
<1>2. v[k] # << >>
  BY <1>1 DEF Old
<1>. QED
  BY <1>1, <1>2, Settled

\* The committer posts the document that it wrote, after taking the old one away.
LEMMA PostedStep ==
  ASSUME Store, Posted, Commits
  PROVE  Posted'
<1>0. TypeOK /\ LogInv
  BY DEF Store
<1>1. ASSUME NEW key \in Keys, NEW val \in Docs \cup {NIL}, LogOp(key, val) PROVE Posted'
  <2>1. v' = v /\ inv' = inv /\ cpc = "idle" /\ cpc' = "unindex"
    BY <1>1 DEF LogOp, store
  <2>. QED
    BY <2>1 DEF Posted, Old, InOp
<1>2. CASE Unindex
  <2>1. /\ v' = v /\ ops' = ops /\ cpc = "unindex" /\ cpc' = "write1"
        /\ inv' = inv \ {<<Old(Current.key), Current.key>>}
    BY <1>2 DEF Unindex
  <2>2. ASSUME NEW k \in Keys, NEW d, <<d, k>> \in inv'
        PROVE  d # NIL /\ d = Old(k)' /\ ~InOp(k)'
    <3>1. <<d, k>> \in inv /\ Old(k)' = Old(k) /\ d # NIL /\ d = Old(k)
      BY <2>1, <2>2 DEF Posted, Old
    <3>2. k # Current.key
      BY <2>1, <2>2, <3>1
    <3>. QED
      BY <2>1, <3>1, <3>2 DEF InOp, Current
  <2>. QED
    BY <2>2 DEF Posted
<1>3. CASE Write1
  <2>1. /\ inv' = inv /\ ops' = ops /\ cpc = "write1" /\ cpc' = "write2"
        /\ \E e : v' = [v EXCEPT ![Current.key] = e]
    BY <1>3 DEF Write1, AppendTo
  <2>2. ASSUME NEW k \in Keys, NEW d, <<d, k>> \in inv'
        PROVE  d # NIL /\ d = Old(k)' /\ ~InOp(k)'
    <3>1. d # NIL /\ d = Old(k) /\ k # Current.key
      BY <2>1, <2>2 DEF Posted, InOp
    <3>2. v'[k] = v[k]
      BY <1>0, <2>1, <3>1 DEF TypeOK
    <3>. QED
      BY <2>1, <3>1, <3>2 DEF InOp, Current, Old
  <2>. QED
    BY <2>2 DEF Posted
<1>4. CASE Write2
  <2>1. inv' = inv /\ ops' = ops /\ v' = v /\ cpc = "write2" /\ cpc' = "index"
    BY <1>4 DEF Write2, AppendTo
  <2>. QED
    BY <2>1 DEF Posted, Old, InOp, Current
<1>5. CASE Index
  <2>1. /\ v' = v /\ ops' = ops /\ cpc = "index" /\ cpc' = "idle"
        /\ inv' = IF Current.val = NIL THEN inv ELSE inv \cup {<<Current.val, Current.key>>}
    BY <1>5 DEF Index
  <2>2. ASSUME NEW k \in Keys, NEW d, <<d, k>> \in inv' PROVE d # NIL /\ d = Old(k)'
    <3>1. CASE <<d, k>> \in inv
      BY <2>1, <3>1 DEF Posted, Old
    <3>2. CASE <<d, k>> \notin inv
      <4>1. Current.val # NIL /\ d = Current.val /\ k = Current.key
        BY <2>1, <2>2, <3>2
      <4>2. InOp(k) /\ cpc = "index"
        BY <2>1, <4>1 DEF InOp
      <4>3. IndexInv(k)
        BY DEF Store
      <4>4. v[k] # << >> /\ v[k][Len(v[k])] = [seq |-> Len(ops) - 1, val |-> Current.val]
        BY <4>2, <4>3 DEF IndexInv
      <4>. QED
        BY <2>1, <4>1, <4>4 DEF Old
    <3>. QED
      BY <3>1, <3>2
  <2>3. \A k : ~InOp(k)'
    BY <2>1 DEF InOp
  <2>. QED
    BY <2>2, <2>3 DEF Posted
<1>6. CASE Publish
  <2>1. inv' = inv /\ ops' = ops /\ v' = v /\ cpc' = cpc
    BY <1>6 DEF Publish, store
  <2>. QED
    BY <2>1 DEF Posted, Old, InOp, Current
<1>. QED
  BY <1>1, <1>2, <1>3, <1>4, <1>5, <1>6 DEF Commits


-----------------------------------------------------------------------------
(* Steps and the invariant.                                                 *)

\* The log and the chains only grow.
Grows ==
  /\ committed_seq <= committed_seq' /\ Len(ops) <= Len(ops') /\ \A n \in 1..Len(ops) : ops'[n] = ops[n]
  /\ \A k \in Keys : Len(v[k]) <= Len(v'[k]) /\ \A j \in 1..Len(v[k]) : v'[k][j] = v[k][j]
  /\ rd' = rd

\* A step of the committer.
LEMMA CommitStep ==
  ASSUME Store, Commits
  PROVE  Store' /\ Grows
<1>0. TypeOK /\ Len(ops) \in Nat /\ committed_seq \in Int /\ \A k \in Keys : Len(v[k]) \in Nat
  BY StoreTypes DEF Store, TypeOK
<1>1. ASSUME NEW k \in Keys, NEW val \in Docs \cup {NIL}, LogOp(k, val) PROVE Store' /\ Grows
  <2>1. Store' /\ Len(ops') = Len(ops) + 1 /\ \A n \in 1..Len(ops) : ops'[n] = ops[n]
    BY <1>1, LogOpStore
  <2>2. v' = v /\ committed_seq' = committed_seq /\ rd' = rd
    BY <1>1 DEF LogOp, store
  <2>. QED
    BY <1>0, <2>1, <2>2 DEF Grows
<1>2. CASE Write1
  <2>1. Store' /\ \A k \in Keys : Len(v[k]) <= Len(v'[k]) /\ \A j \in 1..Len(v[k]) : v'[k][j] = v[k][j]
    BY <1>2, Write1Store
  <2>2. ops' = ops /\ committed_seq' = committed_seq /\ rd' = rd
    BY <1>2 DEF Write1
  <2>. QED
    BY <1>0, <2>1, <2>2 DEF Grows
<1>3. CASE Publish
  <2>1. Store' /\ committed_seq <= committed_seq'
    BY <1>3, PublishStore
  <2>2. ops' = ops /\ v' = v /\ rd' = rd
    BY <1>3 DEF Publish, store
  <2>. QED
    BY <1>0, <2>1, <2>2 DEF Grows
<1>4. CASE Unindex \/ Write2 \/ Index
  <2>1. Store'
    BY <1>4, UnindexStore, Write2Store, IndexStore
  <2>2. ops' = ops /\ v' = v /\ rd' = rd /\ committed_seq' = committed_seq
    BY <1>4 DEF Unindex, Write2, AppendTo, Index
  <2>. QED
    BY <1>0, <2>1, <2>2 DEF Grows
<1>. QED
  BY <1>1, <1>2, <1>3, <1>4 DEF Commits

\* The committer does not disturb a read.
LEMMA ReaderKept ==
  ASSUME Store, Store', Grows, NEW c \in Reads, ReaderInv(c)
  PROVE  ReaderInv(c)'
<1>0. /\ Len(ops) \in Nat /\ Len(ops') \in Nat /\ committed_seq \in Int /\ committed_seq' \in Int /\ committed_seq < Len(ops)
      /\ committed_seq <= committed_seq' /\ Len(ops) <= Len(ops') /\ \A n \in 1..Len(ops) : ops'[n] = ops[n]
  <2>1. Len(ops) \in Nat /\ Len(ops') \in Nat /\ committed_seq \in Int /\ committed_seq' \in Int /\ batched \in Nat
    BY DEF Store, TypeOK
  <2>2. committed_seq < Len(ops)
    BY <2>1 DEF Store, LogInv
  <2>. QED
    BY <2>1, <2>2 DEF Grows
<1>1. \A k \in Keys : Len(v[k]) \in Nat /\ Len(v'[k]) \in Nat
  BY DEF Store, TypeOK
<1>2. c.pin \in Int
  BY DEF Reads
<1>3. CASE c.pc \in {"idle", "raised"}
  BY <1>3 DEF ReaderInv
<1>4. CASE c.pc \notin {"idle", "raised"}
  <2>1. c.want \in Docs /\ -1 <= c.pin /\ c.pin <= committed_seq /\ c.pin < Len(ops) /\ c.pin <= committed_seq'
    BY <1>0, <1>2, <1>4 DEF ReaderInv
  <2>2. \A k : DocAsOf(k, c.pin)' = DocAsOf(k, c.pin)
    BY <1>0, <1>2, <2>1, SnapshotStays
  <2>3. Rows(c.pin, c.want)' = Rows(c.pin, c.want)
    BY <2>2 DEF Rows
  <2>4. \A k : WrittenAfter(k, c.pin) => WrittenAfter(k, c.pin)'
    <3>1. ASSUME NEW k, WrittenAfter(k, c.pin) PROVE WrittenAfter(k, c.pin)'
      <4>1. PICK n \in 1..Len(ops) : n - 1 > c.pin /\ ops[n].key = k
        BY <3>1 DEF WrittenAfter
      <4>2. n \in 1..Len(ops') /\ ops'[n].key = k
        BY <1>0, <4>1
      <4>. QED
        BY <4>1, <4>2 DEF WrittenAfter
    <3>. QED
      BY <3>1
  <2>5. c.pc \in {"bisect", "load"} => c.key \in Keys /\ v'[c.key] # << >>
    <3>. SUFFICES ASSUME c.pc \in {"bisect", "load"} PROVE c.key \in Keys /\ v'[c.key] # << >>
      OBVIOUS
    <3>1. c.key \in Keys /\ v[c.key] # << >>
      BY DEF ReaderInv
    <3>2. Len(v[c.key]) # 0 /\ Len(v[c.key]) <= Len(v'[c.key])
      BY <3>1, StoreTypes DEF Store, Grows
    <3>3. v'[c.key] \in Seq(Entries) /\ Len(v'[c.key]) # 0
      BY <1>1, <3>1, <3>2 DEF Store, TypeOK
    <3>. QED
      BY <3>1, <3>3, EmptySeq
  <2>6. c.pc = "load" => c.at \in 1..Len(v'[c.key]) /\ v'[c.key][c.at].val = DocAsOf(c.key, c.pin)
    <3>. SUFFICES ASSUME c.pc = "load"
                  PROVE  c.at \in 1..Len(v'[c.key]) /\ v'[c.key][c.at].val = DocAsOf(c.key, c.pin)
      OBVIOUS
    <3>1. c.key \in Keys /\ c.at \in 1..Len(v[c.key]) /\ v[c.key][c.at].val = DocAsOf(c.key, c.pin)
      BY DEF ReaderInv
    <3>2. Len(v[c.key]) <= Len(v'[c.key]) /\ v'[c.key][c.at] = v[c.key][c.at]
      BY <3>1 DEF Grows
    <3>. QED
      BY <1>1, <3>1, <3>2
  <2>9. Found(c) \subseteq Found(c)'
    BY <2>2, <2>3, <2>4 DEF Found
  <2>7. c.pc \in {"next", "bisect", "load", "done"} =>
          /\ c.found \subseteq Found(c)
          /\ \A k \in Rows(c.pin, c.want) \ c.found :
               k \in Pending(c) \/ (c.kind = "search" /\ WrittenAfter(k, c.pin))
          /\ c.kind = "search" => \A k \in Pending(c) : DocAsOf(k, c.pin) = c.want \/ WrittenAfter(k, c.pin)
    BY DEF ReaderInv
  <2>8. (c.pc = "done" => c.todo = {}) /\ (c.pc = "plan" => c.found = {})
    BY DEF ReaderInv
  <2>. QED
    BY <2>1, <2>2, <2>3, <2>4, <2>5, <2>6, <2>7, <2>8, <2>9 DEF ReaderInv, Pending
<1>. QED
  BY <1>3, <1>4

\* A read that changes nothing but the reader leaves the others.
LEMMA StoreKept ==
  ASSUME ops' = ops, v' = v, seqs' = seqs, inv' = inv, committed_seq' = committed_seq, batched' = batched, cpc' = cpc,
         Store, Posted, rd' \in [Readers -> Reads]
  PROVE  Store' /\ Posted' /\ \A c \in Reads : ReaderInv(c) => ReaderInv(c)'
<1>1. Store'
  <2>1. TypeOK' /\ LogInv' /\ Applied' = Applied /\ Current' = Current
    BY DEF Store, TypeOK, LogInv, Applied, Current
  <2>2. ASSUME NEW k \in Keys PROVE ChainInv(k)' /\ SeqsInv(k)' /\ IndexInv(k)'
    <3>1. ChainInv(k) /\ SeqsInv(k) /\ IndexInv(k)
      BY DEF Store
    <3>2. Old(k)' = Old(k) /\ InOp(k)' = InOp(k)
      BY <2>1 DEF Old, InOp
    <3>3. ChainInv(k)'
      BY <2>1, <3>1 DEF ChainInv
    <3>4. SeqsInv(k)'
      BY <2>1, <3>1 DEF SeqsInv
    <3>5. IndexInv(k)'
      BY <2>1, <3>1, <3>2 DEF IndexInv
    <3>. QED
      BY <3>3, <3>4, <3>5
  <2>. QED
    BY <2>1, <2>2 DEF Store
<1>3. Posted'
  BY DEF Posted, Old, InOp, Current
<1>2. ASSUME NEW c \in Reads, ReaderInv(c) PROVE ReaderInv(c)'
  <2>1. \A k, s : DocAsOf(k, s)' = DocAsOf(k, s) /\ WrittenAfter(k, s)' = WrittenAfter(k, s)
    BY DEF DocAsOf, WrittenAfter
  <2>2. Rows(c.pin, c.want)' = Rows(c.pin, c.want)
    BY <2>1 DEF Rows
  <2>3. Found(c)' = Found(c)
    BY <2>1, <2>2 DEF Found
  <2>. QED
    BY <1>2, <2>1, <2>2, <2>3 DEF ReaderInv, Pending
<1>. QED
  BY <1>1, <1>2, <1>3

\* The candidates of a read leave no row out, but for one that a SEARCH may miss.
LEMMA CandidatesRead ==
  ASSUME Inv, NEW r \in Readers, Candidates(r), NEW c, c = rd'[r]
  PROVE  c \in Reads /\ ReaderInv(c)
<1>0. Store /\ rd[r] \in Reads /\ ReaderInv(rd[r]) /\ rd \in [Readers -> Reads]
  BY DEF Inv, Store, TypeOK
<1>. DEFINE todo == IF rd[r].kind = "scan" THEN {k \in Keys : v[k] # << >>} ELSE {k \in Keys : <<rd[r].want, k>> \in inv}
<1>1. c = [rd[r] EXCEPT !.pc = "next", !.todo = todo] /\ rd[r].pc = "plan"
  BY <1>0 DEF Candidates
<1>2. todo \subseteq Keys
  OBVIOUS
<1>3. /\ c \in Reads /\ c.pc = "next" /\ c.kind = rd[r].kind /\ c.want = rd[r].want /\ c.pin = rd[r].pin
      /\ c.todo = todo /\ c.found = rd[r].found
  <2>. HIDE DEF todo
  <2>. QED
    BY <1>0, <1>1, <1>2 DEF Reads
<1>4. c.want \in Docs /\ c.pin \in Int /\ -1 <= c.pin /\ c.pin <= committed_seq /\ c.found = {}
  BY <1>0, <1>1, <1>3 DEF ReaderInv, Reads
<1>5. ASSUME NEW k \in Rows(c.pin, c.want) PROVE k \in c.todo \/ (c.kind = "search" /\ WrittenAfter(k, c.pin))
  <2>1. k \in Keys /\ DocAsOf(k, c.pin) = c.want /\ c.want # NIL
    BY <1>4, ReadsAssumption DEF Rows
  <2>2. CASE c.kind = "scan"
    <3>1. v[k] # << >>
      BY <1>0, <1>4, <2>1, NoVersion
    <3>. QED
      BY <1>3, <2>1, <2>2, <3>1
  <2>3. CASE c.kind # "scan"
    <3>1. c.kind = "search"
      BY <1>3, <2>3 DEF Reads
    <3>2. ~WrittenAfter(k, c.pin) => <<c.want, k>> \in inv
      BY <1>0, <1>4, <2>1, Indexed
    <3>. QED
      BY <1>3, <2>1, <3>1, <3>2
  <2>. QED
    BY <2>2, <2>3
<1>6. Pending(c) = c.todo
  BY <1>3 DEF Pending
<1>7. ASSUME c.kind = "search", NEW k \in c.todo PROVE DocAsOf(k, c.pin) = c.want \/ WrittenAfter(k, c.pin)
  <2>1. k \in Keys /\ <<c.want, k>> \in inv
    BY <1>3, <1>7
  <2>. QED
    BY <1>0, <1>4, <2>1, IndexedAs DEF Inv
<1>. QED
  BY <1>3, <1>4, <1>5, <1>6, <1>7 DEF ReaderInv

\* The next key: one without a chain is not a row.
LEMMA FetchRead ==
  ASSUME Inv, NEW r \in Readers, NEW k \in Keys, Fetch(r, k), NEW c, c = rd'[r]
  PROVE  c \in Reads /\ ReaderInv(c)
<1>0. Store /\ rd[r] \in Reads /\ ReaderInv(rd[r]) /\ rd \in [Readers -> Reads]
  BY DEF Inv, Store, TypeOK
<1>. DEFINE pc == IF v[k] = << >> THEN "next" ELSE "bisect"
<1>1. c = [rd[r] EXCEPT !.todo = rd[r].todo \ {k}, !.key = k, !.pc = pc] /\ rd[r].pc = "next" /\ k \in rd[r].todo
  BY <1>0 DEF Fetch
<1>2. pc \in {"next", "bisect"} /\ (pc = "next" <=> v[k] = << >>)
  OBVIOUS
<1>. HIDE DEF pc
<1>3. /\ c \in Reads /\ c.pc = pc /\ c.kind = rd[r].kind /\ c.want = rd[r].want /\ c.pin = rd[r].pin
      /\ c.todo = rd[r].todo \ {k} /\ c.found = rd[r].found /\ c.key = k
  <2>1. rd[r].todo \ {k} \in SUBSET Keys /\ pc \in {"idle", "plan", "next", "bisect", "load", "done", "raised"}
    BY <1>0, <1>2 DEF Reads
  <2>. DEFINE todo == rd[r].todo \ {k}
  <2>. HIDE DEF todo
  <2>2. c = [rd[r] EXCEPT !.todo = todo, !.key = k, !.pc = pc] /\ todo \in SUBSET Keys
    BY <1>1, <2>1 DEF todo
  <2>3. /\ c \in Reads /\ c.pc = pc /\ c.kind = rd[r].kind /\ c.want = rd[r].want /\ c.pin = rd[r].pin
        /\ c.todo = todo /\ c.found = rd[r].found /\ c.key = k
    BY <1>0, <2>1, <2>2 DEF Reads
  <2>. QED
    BY <2>3 DEF todo
<1>4. /\ c.want \in Docs /\ c.pin \in Int /\ -1 <= c.pin /\ c.pin <= committed_seq
      /\ c.found \subseteq Found(c)
      /\ \A x \in Rows(c.pin, c.want) \ c.found : x \in rd[r].todo \/ (c.kind = "search" /\ WrittenAfter(x, c.pin))
      /\ c.kind = "search" => \A x \in rd[r].todo : DocAsOf(x, c.pin) = c.want \/ WrittenAfter(x, c.pin)
  <2>1. Found(c) = Found(rd[r]) /\ Pending(rd[r]) = rd[r].todo
    BY <1>1, <1>3 DEF Found, Pending
  <2>. QED
    BY <1>0, <1>1, <1>3, <2>1 DEF ReaderInv, Reads
<1>5. \A x \in rd[r].todo \cap Rows(c.pin, c.want) : x \in Pending(c)
  <2>1. CASE pc = "next"
    <3>1. DocAsOf(k, c.pin) = NIL
      BY <1>0, <1>2, <1>4, <2>1, NoVersion
    <3>2. k \notin Rows(c.pin, c.want)
      BY <1>4, <3>1, ReadsAssumption DEF Rows
    <3>. QED
      BY <1>3, <3>2 DEF Pending
  <2>2. CASE pc = "bisect"
    BY <1>3, <2>2 DEF Pending
  <2>. QED
    BY <1>2, <2>1, <2>2
<1>6. Pending(c) \subseteq rd[r].todo
  BY <1>1, <1>3 DEF Pending
<1>. QED
  BY <1>2, <1>3, <1>4, <1>5, <1>6 DEF ReaderInv

\* The version as of the pin.
LEMMA BisectRead ==
  ASSUME Inv, NEW r \in Readers, Bisect(r), NEW c, c = rd'[r]
  PROVE  c \in Reads /\ ReaderInv(c)
<1>0. Store /\ rd[r] \in Reads /\ ReaderInv(rd[r]) /\ rd \in [Readers -> Reads]
  BY DEF Inv, Store, TypeOK
<1>. DEFINE k == rd[r].key
            i == Cardinality({n \in 1..Len(seqs[k]) : seqs[k][n] <= rd[r].pin})
            pc == IF seqs[k] = << >> THEN "raised" ELSE IF i = 0 THEN "next" ELSE "load"
<1>1. c = [rd[r] EXCEPT !.at = i, !.pc = pc] /\ rd[r].pc = "bisect"
  BY <1>0 DEF Bisect
<1>2. /\ k \in Keys /\ v[k] # << >> /\ rd[r].want \in Docs /\ rd[r].pin \in Int /\ -1 <= rd[r].pin /\ rd[r].pin <= committed_seq
      /\ rd[r].found \subseteq Found(rd[r])
      /\ \A x \in Rows(rd[r].pin, rd[r].want) \ rd[r].found :
           x \in rd[r].todo \cup {k} \/ (rd[r].kind = "search" /\ WrittenAfter(x, rd[r].pin))
      /\ rd[r].kind = "search" =>
           \A x \in rd[r].todo \cup {k} : DocAsOf(x, rd[r].pin) = rd[r].want \/ WrittenAfter(x, rd[r].pin)
  BY <1>0, <1>1 DEF ReaderInv, Reads, Pending
<1>3. /\ i \in Nat
      /\ i = 0 => DocAsOf(k, rd[r].pin) = NIL
      /\ i # 0 => i \in 1..Len(v[k]) /\ v[k][i].val = DocAsOf(k, rd[r].pin)
  <2>. HIDE DEF k
  <2>. QED
    BY <1>0, <1>2, Bisected
<1>4. pc \in {"raised", "next", "load"} /\ (pc = "next" => i = 0) /\ (pc = "load" => i # 0)
  OBVIOUS
<1>. HIDE DEF pc, i
<1>5. /\ c \in Reads /\ c.pc = pc /\ c.kind = rd[r].kind /\ c.want = rd[r].want /\ c.pin = rd[r].pin
      /\ c.todo = rd[r].todo /\ c.found = rd[r].found /\ c.key = k /\ c.at = i
  BY <1>0, <1>1, <1>3, <1>4 DEF Reads
<1>. HIDE DEF k
<1>9. Found(c) = Found(rd[r])
  BY <1>5 DEF Found
<1>6. CASE pc = "raised"
  BY <1>5, <1>6 DEF ReaderInv
<1>7. CASE pc = "next"
  <2>1. k \notin Rows(c.pin, c.want)
    BY <1>2, <1>3, <1>4, <1>5, <1>7, ReadsAssumption DEF Rows
  <2>2. Pending(c) = rd[r].todo
    BY <1>5, <1>7 DEF Pending
  <2>. QED
    BY <1>2, <1>5, <1>7, <1>9, <2>1, <2>2 DEF ReaderInv
<1>8. CASE pc = "load"
  <2>1. Pending(c) = rd[r].todo \cup {k}
    BY <1>5, <1>8 DEF Pending
  <2>. QED
    BY <1>2, <1>3, <1>4, <1>5, <1>8, <1>9, <2>1 DEF ReaderInv
<1>. QED
  BY <1>4, <1>6, <1>7, <1>8

\* The version as of the pin is kept or not.
LEMMA LoadRead ==
  ASSUME Inv, NEW r \in Readers, Load(r), NEW c, c = rd'[r]
  PROVE  c \in Reads /\ ReaderInv(c)
<1>0. Store /\ rd[r] \in Reads /\ ReaderInv(rd[r]) /\ rd \in [Readers -> Reads]
  BY DEF Inv, Store, TypeOK
<1>. DEFINE k == rd[r].key
            found == IF Kept(r, v[k][rd[r].at].val) THEN rd[r].found \cup {k} ELSE rd[r].found
<1>1. c = [rd[r] EXCEPT !.pc = "next", !.found = found] /\ rd[r].pc = "load"
  BY <1>0 DEF Load
<1>2. /\ k \in Keys /\ v[k][rd[r].at].val = DocAsOf(k, rd[r].pin)
      /\ rd[r].want \in Docs /\ rd[r].pin \in Int /\ -1 <= rd[r].pin /\ rd[r].pin <= committed_seq
      /\ rd[r].found \subseteq Found(rd[r])
      /\ \A x \in Rows(rd[r].pin, rd[r].want) \ rd[r].found :
           x \in rd[r].todo \cup {k} \/ (rd[r].kind = "search" /\ WrittenAfter(x, rd[r].pin))
      /\ rd[r].kind = "search" =>
           \A x \in rd[r].todo \cup {k} : DocAsOf(x, rd[r].pin) = rd[r].want \/ WrittenAfter(x, rd[r].pin)
  BY <1>0, <1>1 DEF ReaderInv, Reads, Pending
<1>3. found \subseteq Found(rd[r]) /\ rd[r].found \subseteq found
      /\ (k \in Rows(rd[r].pin, rd[r].want) => k \in found)
  <2>1. rd[r].kind \in {"scan", "search"}
    BY <1>0 DEF Reads
  <2>2. CASE rd[r].kind = "scan"
    BY <1>2, <2>2 DEF Rows, Found, Kept
  <2>3. CASE rd[r].kind = "search"
    <3>1. Kept(r, v[k][rd[r].at].val) => k \in Found(rd[r])
      BY <1>2, <2>3 DEF Found, Kept
    <3>2. k \in Rows(rd[r].pin, rd[r].want) => Kept(r, v[k][rd[r].at].val)
      BY <1>2, <2>3, ReadsAssumption DEF Rows, Kept
    <3>. QED
      BY <1>2, <3>1, <3>2
  <2>. QED
    BY <2>1, <2>2, <2>3
<1>4. found \subseteq Keys
  BY <1>3 DEF Rows, Found
<1>. HIDE DEF found, k
<1>5. /\ c \in Reads /\ c.pc = "next" /\ c.kind = rd[r].kind /\ c.want = rd[r].want /\ c.pin = rd[r].pin
      /\ c.todo = rd[r].todo /\ c.found = found
  BY <1>0, <1>1, <1>4, ZenonT(60) DEF Reads
<1>6. Pending(c) = rd[r].todo /\ Found(c) = Found(rd[r])
  BY <1>5 DEF Pending, Found
<1>. QED
  BY <1>2, <1>3, <1>5, <1>6 DEF ReaderInv

\* The beginning and the end of a read.
LEMMA EndsRead ==
  ASSUME Inv, NEW r \in Readers, NEW c, c = rd'[r],
         \/ \E kind \in {"scan", "search"}, d \in Docs : Begin(r, kind, d)
         \/ Finish(r) \/ Release(r)
  PROVE  c \in Reads /\ ReaderInv(c)
<1>0. Store /\ rd[r] \in Reads /\ ReaderInv(rd[r]) /\ rd \in [Readers -> Reads] /\ committed_seq \in Int /\ committed_seq >= -1
  BY DEF Inv, Store, TypeOK, LogInv
<1>1. Resting \in Reads /\ Resting.pc = "idle" /\ Resting.found = {}
  BY DEF Resting, NoKey, Reads, Values
<1>2. ASSUME NEW kind \in {"scan", "search"}, NEW d \in Docs, Begin(r, kind, d) PROVE c \in Reads /\ ReaderInv(c)
  <2>1. c = [Resting EXCEPT !.pc = "plan", !.kind = kind, !.want = d, !.pin = committed_seq]
    BY <1>0, <1>2 DEF Begin, Pinned
  <2>2. c \in Reads /\ c.pc = "plan" /\ c.want = d /\ c.pin = committed_seq /\ c.found = {}
    BY <1>0, <1>1, <2>1, ZenonT(60) DEF Reads, Values
  <2>. QED
    BY <1>0, <2>2 DEF ReaderInv
<1>3. CASE Finish(r)
  <2>1. c = [rd[r] EXCEPT !.pc = "done"] /\ rd[r].pc = "next" /\ rd[r].todo = {}
    BY <1>0, <1>3 DEF Finish
  <2>2. /\ c \in Reads /\ c.pc = "done" /\ c.kind = rd[r].kind /\ c.want = rd[r].want /\ c.pin = rd[r].pin
        /\ c.todo = rd[r].todo /\ c.found = rd[r].found
    BY <1>0, <2>1 DEF Reads
  <2>3. Pending(c) = Pending(rd[r]) /\ Found(c) = Found(rd[r])
    BY <2>1, <2>2 DEF Pending, Found
  <2>. QED
    BY <1>0, <2>1, <2>2, <2>3 DEF ReaderInv
<1>4. CASE Release(r)
  <2>1. c = Resting
    BY <1>0, <1>4 DEF Release
  <2>. QED
    BY <1>1, <2>1 DEF ReaderInv
<1>. QED
  BY <1>2, <1>3, <1>4

\* A step of a reader.
LEMMA ReadStep ==
  ASSUME Inv, NEW r \in Readers, Read(r)
  PROVE  Inv'
<1>0. Store /\ Posted /\ rd \in [Readers -> Reads] /\ \A s \in Readers : ReaderInv(rd[s])
  BY DEF Inv, Store, TypeOK
<1>1. /\ ops' = ops /\ v' = v /\ seqs' = seqs /\ inv' = inv /\ committed_seq' = committed_seq /\ batched' = batched /\ cpc' = cpc
      /\ \E c : rd' = [rd EXCEPT ![r] = c]
  <2>1. CASE \E kind \in {"scan", "search"}, d \in Docs : Begin(r, kind, d)
    BY <2>1 DEF Begin, store
  <2>2. CASE \E k \in Keys : Fetch(r, k)
    BY <2>2 DEF Fetch, store
  <2>3. CASE Candidates(r)
    BY <2>3 DEF Candidates, store
  <2>4. CASE Bisect(r)
    BY <2>4 DEF Bisect, store
  <2>5. CASE Load(r)
    BY <2>5 DEF Load, store
  <2>6. CASE Finish(r)
    BY <2>6 DEF Finish, store
  <2>7. CASE Release(r)
    BY <2>7 DEF Release, store
  <2>. QED
    BY <2>1, <2>2, <2>3, <2>4, <2>5, <2>6, <2>7 DEF Read
<1>2. PICK c : c = rd'[r]
  OBVIOUS
<1>3. c \in Reads /\ ReaderInv(c)
  BY <1>2, CandidatesRead, FetchRead, BisectRead, LoadRead, EndsRead DEF Read
<1>4. \A s \in Readers : s # r => rd'[s] = rd[s]
  BY <1>0, <1>1
<1>5. rd' \in [Readers -> Reads]
  BY <1>0, <1>1, <1>2, <1>3
<1>6. Store' /\ Posted' /\ \A b \in Reads : ReaderInv(b) => ReaderInv(b)'
  BY <1>0, <1>1, <1>5, StoreKept
<1>7. ASSUME NEW s \in Readers, NEW b \in Reads, b = rd'[s] PROVE ReaderInv(b)'
  <2>1. ReaderInv(b)
    BY <1>0, <1>2, <1>3, <1>4, <1>7
  <2>. QED
    BY <1>6, <2>1
<1>. QED
  BY <1>6, <1>7 DEF Inv

\* The invariant holds at the start.
LEMMA InitInv == Init => Inv
<1>. SUFFICES ASSUME Init PROVE Inv
  OBVIOUS
<1>0. /\ ops = << >> /\ inv = {} /\ committed_seq = -1 /\ batched = 0 /\ cpc = "idle" /\ rd = [r \in Readers |-> Resting]
      /\ v = [k \in Keys |-> << >>] /\ seqs = [k \in Keys |-> << >>]
  BY DEF Init
<1>1. Resting \in Reads /\ Resting.pc = "idle"
  BY DEF Resting, NoKey, Reads, Values
<1>2. << >> \in Seq(Ops) /\ << >> \in Seq(Entries) /\ << >> \in Seq(Nat) /\ Len(<< >>) = 0
  OBVIOUS
<1>3. TypeOK
  BY <1>0, <1>1, <1>2 DEF TypeOK
<1>4. LogInv
  BY <1>0, <1>2 DEF LogInv
<1>5. Applied = 0
  BY <1>0, <1>2 DEF Applied
<1>6. ASSUME NEW k \in Keys PROVE ChainInv(k) /\ SeqsInv(k) /\ IndexInv(k)
  <2>1. v[k] = << >> /\ seqs[k] = << >> /\ Len(v[k]) = 0 /\ Len(seqs[k]) = 0 /\ 1..0 = {}
    BY <1>0
  <2>2. Old(k) = NIL /\ ~InOp(k)
    BY <1>0, <2>1 DEF Old, InOp
  <2>3. ChainInv(k)
    BY <1>5, <2>1 DEF ChainInv
  <2>4. SeqsInv(k)
    BY <1>0, <2>1 DEF SeqsInv
  <2>. QED
    BY <2>2, <2>3, <2>4 DEF IndexInv
<1>7. ASSUME NEW r \in Readers PROVE ReaderInv(rd[r])
  BY <1>0, <1>1 DEF ReaderInv
<1>8. Posted
  BY <1>0 DEF Posted
<1>. QED
  BY <1>3, <1>4, <1>6, <1>7, <1>8 DEF Inv, Store

\* The invariant is inductive.
LEMMA NextInv == Inv /\ [Next]_vars => Inv'
<1>. SUFFICES ASSUME Inv, [Next]_vars PROVE Inv'
  OBVIOUS
<1>0. Store /\ Posted /\ rd \in [Readers -> Reads]
  BY DEF Inv, Store, TypeOK
<1>1. CASE Commits
  <2>1. Store' /\ Grows /\ rd' = rd
    BY <1>0, <1>1, CommitStep DEF Grows
  <2>3. Posted'
    BY <1>0, <1>1, PostedStep
  <2>2. ASSUME NEW r \in Readers, NEW c \in Reads, c = rd'[r] PROVE ReaderInv(c)'
    <3>1. ReaderInv(c)
      BY <2>1, <2>2 DEF Inv
    <3>. QED
      BY <1>0, <2>1, <3>1, ReaderKept
  <2>. QED
    BY <2>1, <2>2, <2>3 DEF Inv
<1>2. ASSUME NEW r \in Readers, Read(r) PROVE Inv'
  BY <1>2, ReadStep
<1>3. CASE UNCHANGED vars
  <2>1. ops' = ops /\ v' = v /\ seqs' = seqs /\ inv' = inv /\ committed_seq' = committed_seq /\ batched' = batched /\ cpc' = cpc /\ rd' = rd
    BY <1>3 DEF vars, store
  <2>2. Store' /\ Posted' /\ \A c \in Reads : ReaderInv(c) => ReaderInv(c)'
    BY <1>0, <2>1, StoreKept
  <2>. QED
    BY <2>1, <2>2 DEF Inv
<1>. QED
  BY <1>1, <1>2, <1>3 DEF Next, Commits

\* Snapshot isolation: a scan returns the rows of the log up to the committed_seq it was
\* pinned to, for any keys and documents, any number of readers, and a committer that is
\* anywhere inside apply_op at each of the reader's steps.
THEOREM SnapshotIsolation == Spec => []ScansAreSnapshots
<1>1. Inv => ScansAreSnapshots
  <2>. SUFFICES ASSUME Inv, NEW r \in Readers, rd[r].pc = "done", rd[r].kind = "scan"
                PROVE  rd[r].found = Answer(r)
    BY DEF ScansAreSnapshots
  <2>1. rd[r] \in Reads /\ ReaderInv(rd[r])
    BY DEF Inv, Store, TypeOK
  <2>2. Answer(r) = Rows(rd[r].pin, rd[r].want) /\ Pending(rd[r]) = {}
    BY <2>1 DEF Answer, Rows, Pending, ReaderInv
  <2>. QED
    BY <2>1, <2>2 DEF ReaderInv, Found
<1>. QED
  BY <1>1, InitInv, NextInv, PTL DEF Spec

\* A SEARCH returns documents of its snapshot only, and errs only on keys that were written
\* after it, whether it returns or misses the row: with any number of readers and writes.
THEOREM SearchIsSound == Spec => []SearchesErrOnlyOnChanged
<1>1. Inv => SearchesErrOnlyOnChanged
  <2>. SUFFICES ASSUME Inv, NEW r \in Readers, rd[r].pc = "done", rd[r].kind = "search"
                PROVE  /\ \A k \in rd[r].found : DocAsOf(k, rd[r].pin) # NIL
                       /\ \A k \in Keys : (k \in rd[r].found) # (k \in Answer(r)) => WrittenAfter(k, rd[r].pin)
    BY Zenon DEF SearchesErrOnlyOnChanged, WrittenAfter
  <2>1. rd[r] \in Reads /\ ReaderInv(rd[r])
    BY DEF Inv, Store, TypeOK
  <2>2. Answer(r) = Rows(rd[r].pin, rd[r].want) /\ Pending(rd[r]) = {}
    BY <2>1 DEF Answer, Rows, Pending, ReaderInv
  <2>3. rd[r].found \subseteq Found(rd[r]) /\ \A k \in Rows(rd[r].pin, rd[r].want) \ rd[r].found : WrittenAfter(k, rd[r].pin)
    BY <2>1, <2>2 DEF ReaderInv
  <2>4. \A k \in rd[r].found : DocAsOf(k, rd[r].pin) # NIL
                               /\ (k \in Rows(rd[r].pin, rd[r].want) \/ WrittenAfter(k, rd[r].pin))
    BY <2>3 DEF Found, Rows
  <2>5. ASSUME NEW k \in Keys, (k \in rd[r].found) # (k \in Answer(r)) PROVE WrittenAfter(k, rd[r].pin)
    <3>1. CASE k \in rd[r].found
      BY <2>2, <2>4, <2>5, <3>1
    <3>2. CASE k \notin rd[r].found
      BY <2>2, <2>3, <2>5, <3>2
    <3>. QED
      BY <3>1, <3>2
  <2>. QED
    BY <2>4, <2>5
<1>. QED
  BY <1>1, InitInv, NextInv, PTL DEF Spec

\* A read raises only between the two halves of the first write of its key: every other
\* read that races a write succeeds.
THEOREM RaisesSeldom == Spec => RaisesOnlyOnFirstWrite
<1>1. Inv /\ [Next]_vars =>
        [\A r \in Readers : rd[r].pc # "raised" /\ rd'[r].pc = "raised" =>
           cpc = "write2" /\ rd[r].key = Current.key /\ Len(v[rd[r].key]) = 1]_vars
  <2>. SUFFICES ASSUME Inv, Next, NEW r \in Readers, rd[r].pc # "raised", rd'[r].pc = "raised"
                PROVE  cpc = "write2" /\ rd[r].key = Current.key /\ Len(v[rd[r].key]) = 1
    OBVIOUS
  <2>0. Store /\ rd \in [Readers -> Reads] /\ rd[r] \in Reads /\ ReaderInv(rd[r])
    BY DEF Inv, Store, TypeOK
  <2>1. rd' # rd
    OBVIOUS
  <2>2. ~Commits
    BY <2>0, <2>1, CommitStep DEF Grows
  <2>3. PICK s \in Readers : Read(s)
    BY <2>2 DEF Next, Commits
  <2>4. s = r
    <3>1. \E c : rd' = [rd EXCEPT ![s] = c]
      BY <2>3 DEF Read, Begin, Candidates, Fetch, Bisect, Load, Finish, Release
    <3>. QED
      BY <2>0, <3>1
  <2>5. Bisect(r) /\ seqs[rd[r].key] = << >>
    <3>1. ASSUME NEW kind, NEW d, Begin(r, kind, d) PROVE FALSE
      <4>1. rd'[r] = [Resting EXCEPT !.pc = "plan", !.kind = kind, !.want = d, !.pin = Pinned]
        BY <2>0, <3>1 DEF Begin
      <4>. QED
        BY <4>1 DEF Resting
    <3>2. ~Candidates(r)
      BY <2>0 DEF Candidates, Reads
    <3>3. \A k \in Keys : ~Fetch(r, k)
      BY <2>0 DEF Fetch, Reads
    <3>4. ~Load(r) /\ ~Finish(r)
      BY <2>0 DEF Load, Finish, Reads
    <3>5. ~Release(r)
      BY <2>0 DEF Release, Resting
    <3>6. Bisect(r)
      BY <2>3, <2>4, <3>1, <3>2, <3>3, <3>4, <3>5 DEF Read
    <3>7. rd'[r].pc = IF seqs[rd[r].key] = << >> THEN "raised"
                      ELSE IF Cardinality({n \in 1..Len(seqs[rd[r].key]) : seqs[rd[r].key][n] <= rd[r].pin}) = 0
                           THEN "next" ELSE "load"
      BY <2>0, <3>6 DEF Bisect, Reads
    <3>. QED
      BY <3>6, <3>7
  <2>6. rd[r].key \in Keys /\ v[rd[r].key] # << >>
    BY <2>0, <2>5 DEF Bisect, ReaderInv
  <2>7. Len(v[rd[r].key]) # 0 /\ Len(seqs[rd[r].key]) = 0 /\ Len(v[rd[r].key]) \in Nat
    BY <2>0, <2>5, <2>6, StoreTypes DEF Store
  <2>8. SeqsInv(rd[r].key)
    BY <2>0, <2>6 DEF Store
  <2>9. cpc = "write2" /\ Current.key = rd[r].key
    <3>. SUFFICES ASSUME ~(cpc = "write2" /\ Current.key = rd[r].key) PROVE FALSE
      OBVIOUS
    <3>1. Len(v[rd[r].key]) = Len(seqs[rd[r].key]) + 0
      BY <2>8 DEF SeqsInv
    <3>. QED
      BY <2>7, <3>1
  <2>10. Len(v[rd[r].key]) = Len(seqs[rd[r].key]) + 1
    BY <2>8, <2>9 DEF SeqsInv
  <2>. QED
    BY <2>7, <2>9, <2>10
<1>. QED
  BY <1>1, InitInv, NextInv, PTL DEF Spec, RaisesOnlyOnFirstWrite

=============================================================================
