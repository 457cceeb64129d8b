-------------------------- MODULE AofEngineProofs --------------------------
(***************************************************************************)
(* Theorems on AofEngine, for every value of its constants, in three       *)
(* parts: the log in memory after an open and an append; the log on disk   *)
(* (the hash chain verifies, replay protection and idempotency hold,       *)
(* acknowledged writes are durable up to the first line that was written   *)
(* behind one without its newline, and a line that ends in its newline     *)
(* stays); and the state folded from the log (documents and relations at   *)
(* HEAD and AS OF, the equality index and the causal index, after any mix  *)
(* of calls, checkpoints, crashes and reopens; and how an open ends).      *)
(***************************************************************************)
EXTENDS AofEngine, BasicLemmas

-----------------------------------------------------------------------------
(* What OpLog.load computes.                                                *)

\* What load() leaves in last_nonce: a natural that no nonce of the client exceeds,
\* and that is 0 or the nonce of one of the client's ops.
LEMMA LastNoncesFacts ==
  ASSUME NEW os, Len(os) \in Nat, \A i \in 1..Len(os) : os[i].nonce \in Nat
  PROVE  /\ LastNonces(os) \in [Clients -> Nat]
         /\ \A i \in 1..Len(os) :
               os[i].client \in Clients => os[i].nonce <= LastNonces(os)[os[i].client]
<1>. DEFINE S(c) == {0} \cup {os[i].nonce : i \in {j \in 1..Len(os) : os[j].client = c}}
            f    == [i \in 1..Len(os) |-> os[i].nonce]
<1>1. PICK b \in Nat : \A i \in 1..Len(os) : f[i] <= b
  BY BoundedNaturals
<1>2. \A c : S(c) \subseteq Nat /\ S(c) # {} /\ \A y \in S(c) : y <= b
  BY <1>1
<1>3. \A c : Max(S(c)) \in S(c) /\ \A y \in S(c) : Max(S(c)) >= y
  <2>. HIDE DEF S
  <2>. QED
    BY <1>2, MaxOfNaturals
<1>4. LastNonces(os) = [c \in Clients |-> Max(S(c))]
  BY DEF LastNonces
<1>5. \A c : Max(S(c)) \in Nat
  <2>. HIDE DEF S
  <2>. QED
    BY <1>2, <1>3
<1>6. LastNonces(os) \in [Clients -> Nat]
  <2>. HIDE DEF S
  <2>. QED
    BY <1>4, <1>5
<1>7. ASSUME NEW i \in 1..Len(os), os[i].client \in Clients
      PROVE  os[i].nonce <= LastNonces(os)[os[i].client]
  <2>1. os[i].nonce \in S(os[i].client)
    OBVIOUS
  <2>2. LastNonces(os)[os[i].client] = Max(S(os[i].client))
    <3>. HIDE DEF S
    <3>. QED
      BY <1>4, <1>7
  <2>3. Max(S(os[i].client)) >= os[i].nonce
    <3>. HIDE DEF S
    <3>. QED
      BY <1>3, <2>1
  <2>. QED
    <3>. HIDE DEF S
    <3>. QED
      BY <1>5, <2>2, <2>3
<1>. QED
  BY <1>6, <1>7

\* What load() leaves in the idempotency table: for every key a seq or nothing.
LEMMA IdemMapType ==
  ASSUME NEW os, Len(os) \in Nat, \A i \in 1..Len(os) : os[i].seq \in Nat
  PROVE  IdemMap(os) \in [IdemKeys -> Nat \cup {NoSeq}]
<1>. DEFINE Uses(k) == {j \in 1..Len(os) : os[j].idem = k}
            at(k)   == IF Uses(k) = {} THEN NoSeq ELSE os[Min(Uses(k))].seq
<1>1. \A k : Uses(k) # {} => Min(Uses(k)) \in Uses(k)
  <2>1. \A k : Uses(k) \subseteq Nat
    OBVIOUS
  <2>. HIDE DEF Uses
  <2>. QED
    BY <2>1, MinOfNaturals
<1>2. \A k : at(k) \in Nat \cup {NoSeq}
  <2>1. \A k : Uses(k) \subseteq 1..Len(os)
    OBVIOUS
  <2>. HIDE DEF Uses
  <2>. QED
    BY <1>1, <2>1
<1>3. IdemMap(os) = [k \in IdemKeys |-> at(k)]
  BY DEF IdemMap
<1>. HIDE DEF at
<1>. QED
  BY <1>2, <1>3

-----------------------------------------------------------------------------
(* Types of the operators on the log, the file and the materialized state.  *)

\* OpLog.append builds a well-formed op.
LEMMA NewOpType ==
  ASSUME NEW os \in Seq(Ops), NEW h \in Seq(Bodies), NEW c \in Clients, NEW n \in Nat,
         NEW p \in Payloads, NEW causes \in SUBSET Nat, NEW k \in IdemKeys \cup {NoIdem}
  PROVE  NewOp(os, h, c, n, p, causes, k) \in Ops
<1>. DEFINE body == [seq |-> Len(os), client |-> c, nonce |-> n, payload |-> p,
                     caused_by |-> causes, idem |-> k]
<1>1. body \in Bodies
  <2>1. Len(os) \in Nat
    BY LenProperties
  <2>. QED
    BY <2>1 DEF Bodies
<1>2. Append(h, body) \in Seq(Bodies)
  BY <1>1, AppendProperties
<1>. QED
  BY <1>1, <1>2 DEF NewOp, Ops, Hash, Bodies

\* Lines() of ops are lines of the file, one for each op.
LEMMA LinesType ==
  ASSUME NEW os \in Seq(Ops)
  PROVE  /\ Lines(os) \in Seq(FileLines) /\ Len(Lines(os)) = Len(os)
         /\ \A i \in 1..Len(os) : Lines(os)[i] = Line(os[i])
<1>1. Len(os) \in Nat /\ \A i \in 1..Len(os) : os[i] \in Ops
  BY LenProperties, ElementOfSeq
<1>2. \A i \in 1..Len(os) : Line(os[i]) \in FileLines
  BY <1>1 DEF Line, FileLines
<1>. QED
  BY <1>1, <1>2 DEF Lines

\* _load reads some number of whole lines, and those are ops.
LEMMA ReadableType ==
  ASSUME NEW f \in Seq(FileLines)
  PROVE  /\ Readable(f) \in 0..Len(f)
         /\ \A i \in 1..Readable(f) : Decodes(f, i)
         /\ \A n \in 0..Len(f) : (\A i \in 1..n : Decodes(f, i)) => n <= Readable(f)
<1>. DEFINE S == {n \in 0..Len(f) : \A i \in 1..n : Decodes(f, i)}
<1>1. Len(f) \in Nat
  BY LenProperties
<1>2. S \subseteq Nat /\ S # {} /\ \A y \in S : y <= Len(f)
  <2>1. 0 \in S
    BY <1>1
  <2>. QED
    BY <1>1, <2>1
<1>3. Max(S) \in S /\ \A y \in S : Max(S) >= y
  <2>. HIDE DEF S
  <2>. QED
    BY <1>1, <1>2, MaxOfNaturals
<1>4. Readable(f) = Max(S)
  BY DEF Readable
<1>. DEFINE m == Max(S)
<1>5. m \in S /\ \A y \in S : m >= y
  BY <1>3
<1>6. Readable(f) = m
  BY <1>4
<1>. HIDE DEF m
<1>. QED
  BY <1>1, <1>5, <1>6

\* What _load decodes is a log as long as the readable part of the file.
LEMMA DecodedType ==
  ASSUME NEW f \in Seq(FileLines)
  PROVE  /\ Decoded(f) \in Seq(Ops) /\ Len(Decoded(f)) = Readable(f)
         /\ \A i \in 1..Readable(f) : Decoded(f)[i] = f[i].op
<1>1. Readable(f) \in 0..Len(f) /\ Len(f) \in Nat
  BY ReadableType, LenProperties
<1>2. \A i \in 1..Len(f) : f[i].op \in Ops
  <2>1. \A i \in 1..Len(f) : f[i] \in FileLines
    BY ElementOfSeq
  <2>. QED
    BY <2>1 DEF FileLines
<1>. QED
  BY <1>1, <1>2 DEF Decoded

\* Self-repair leaves a file of whole lines or the file as it was.
LEMMA RepairedType ==
  ASSUME NEW f \in Seq(FileLines)
  PROVE  Repaired(f) \in Seq(FileLines)
BY DecodedType, LinesType DEF Repaired

\* Writing the page out extends the file.
LEMMA GluedType ==
  ASSUME NEW f \in Seq(FileLines)
  PROVE  Glued(f) \subseteq Nat
<1>1. Len(f) \in Nat
  BY LenProperties
<1>. QED
  BY <1>1 DEF Glued

LEMMA FlushedType ==
  ASSUME aof \in Seq(FileLines), page \in Seq(Ops)
  PROVE  Flushed \in Seq(FileLines)
BY LinesType, ConcatProperties DEF Flushed

\* get() returns a document or nothing.
LEMMA GetType ==
  ASSUME NEW st \in [Keys -> Chains], NEW k \in Keys
  PROVE  Get(st, k) \in Docs \cup {NIL}
<1>1. st[k] \in Seq([seq : Nat, val : Docs \cup {NIL}])
  BY DEF Chains
<1>2. CASE st[k] = << >>
  BY <1>2 DEF Get
<1>3. CASE st[k] # << >>
  <2>1. Len(st[k]) \in 1..Len(st[k])
    BY <1>1, <1>3, EmptySeq, LenProperties
  <2>2. st[k][Len(st[k])] \in [seq : Nat, val : Docs \cup {NIL}]
    BY <1>1, <2>1, ElementOfSeq
  <2>. QED
    BY <1>3, <2>2 DEF Get
<1>. QED
  BY <1>2, <1>3

\* The pairs create_index backfills are documents under keys.
LEMMA HeadPairsType ==
  ASSUME NEW st \in [Keys -> Chains]
  PROVE  HeadPairs(st) \subseteq Docs \X Keys
BY GetType DEF HeadPairs

\* What an op's payload says about its target and its document.
LEMMA PayloadFacts ==
  ASSUME NEW o \in Ops
  PROVE  /\ o.seq \in Nat /\ o.caused_by \subseteq Nat
         /\ o.payload.op = "put" => o.payload.on \in Keys /\ o.payload.doc \in Docs
         /\ o.payload.op = "delete" => o.payload.on \in Keys /\ o.payload.doc = NIL
         /\ o.payload.op \in {"link", "unlink"} => o.payload.on \in Edges
<1>1. o.payload \in Payloads /\ o.seq \in Nat /\ o.caused_by \subseteq Nat
  BY DEF Ops
<1>. QED
  BY <1>1 DEF Payloads

\* apply_op on the store.
LEMMA AppliedStoreType ==
  ASSUME NEW o \in Ops, NEW st \in [Keys -> Chains], NEW ix \in BOOLEAN
  PROVE  AppliedStore(st, ix, o) \in [Keys -> Chains]
<1>1. CASE ~ (o.payload.op \in {"put", "delete"} /\ ~RaisesOnOld(st, ix, o))
  BY <1>1 DEF AppliedStore
<1>2. CASE o.payload.op \in {"put", "delete"} /\ ~RaisesOnOld(st, ix, o)
  <2>. DEFINE key == o.payload.on
              version == [seq |-> o.seq, val |-> o.payload.doc]
  <2>1. key \in Keys /\ version \in [seq : Nat, val : Docs \cup {NIL}]
    BY <1>2, PayloadFacts
  <2>2. Append(st[key], version) \in Chains
    <3>1. st[key] \in Seq([seq : Nat, val : Docs \cup {NIL}])
      BY <2>1 DEF Chains
    <3>. QED
      BY <2>1, <3>1, AppendProperties DEF Chains
  <2>3. AppliedStore(st, ix, o) = [st EXCEPT ![key] = Append(st[key], version)]
    BY <1>2 DEF AppliedStore, StorePut
  <2>. QED
    BY <2>1, <2>2, <2>3
<1>. QED
  BY <1>1, <1>2

\* apply_op on the equality index.
LEMMA AppliedIndexType ==
  ASSUME NEW o \in Ops, NEW st \in [Keys -> Chains], NEW ix \in BOOLEAN,
         NEW pairs \in SUBSET (Docs \X Keys)
  PROVE  AppliedIndex(st, pairs, ix, o) \subseteq Docs \X Keys
<1>1. CASE o.payload.op \notin {"put", "delete"}
  BY <1>1 DEF AppliedIndex
<1>2. CASE o.payload.op \in {"put", "delete"}
  <2>1. o.payload.on \in Keys /\ (o.payload.op = "put" => o.payload.doc \in Docs)
    BY <1>2, PayloadFacts
  <2>. QED
    BY <1>2, <2>1 DEF AppliedIndex, IndexRemove, IndexAdd
<1>. QED
  BY <1>1, <1>2

\* apply_op on the relations.
LEMMA AppliedRelsType ==
  ASSUME NEW o \in Ops, NEW rl \in [Edges -> Intervals]
  PROVE  AppliedRels(rl, o) \in [Edges -> Intervals]
<1>. DEFINE e == o.payload.on
            Interval == [added : Nat, removed : Nat \cup {LIVE}]
<1>1. CASE o.payload.op \notin {"link", "unlink"}
  BY <1>1 DEF AppliedRels
<1>2. CASE o.payload.op \in {"link", "unlink"}
  <2>1. e \in Edges /\ o.seq \in Nat
    BY <1>2, PayloadFacts
  <2>2. rl[e] \in Seq(Interval) /\ Len(rl[e]) \in Nat
    BY <2>1, LenProperties DEF Intervals
  <2>3. CASE o.payload.op = "link"
    <3>1. [added |-> o.seq, removed |-> LIVE] \in Interval
      BY <2>1
    <3>2. Append(rl[e], [added |-> o.seq, removed |-> LIVE]) \in Intervals
      BY <2>2, <3>1, AppendProperties DEF Intervals
    <3>. QED
      BY <2>1, <2>3, <3>2 DEF AppliedRels, RelLink
  <2>4. CASE o.payload.op = "unlink"
    <3>. DEFINE closed(j) == IF rl[e][j].removed = LIVE
                             THEN [rl[e][j] EXCEPT !.removed = o.seq] ELSE rl[e][j]
                chain == [j \in 1..Len(rl[e]) |-> closed(j)]
    <3>1. \A j \in 1..Len(rl[e]) : rl[e][j] \in Interval
      BY <2>2, ElementOfSeq
    <3>2. \A j \in 1..Len(rl[e]) : closed(j) \in Interval
      BY <2>1, <3>1
    <3>3. chain \in Intervals
      <4>. HIDE DEF closed
      <4>. QED
        BY <2>2, <3>2 DEF Intervals
    <3>4. AppliedRels(rl, o) = [rl EXCEPT ![e] = chain]
      BY <2>4 DEF AppliedRels, RelUnlink
    <3>. QED
      <4>. HIDE DEF chain
      <4>. QED
        BY <2>1, <3>3, <3>4
  <2>. QED
    BY <1>2, <2>3, <2>4
<1>. QED
  BY <1>1, <1>2

\* apply_op on the causal reverse index.
LEMMA AppliedCausesType ==
  ASSUME NEW o \in Ops, NEW st, NEW ix, NEW sd, NEW cm \in SUBSET (Nat \X Nat)
  PROVE  AppliedCauses(st, cm, ix, sd, o) \subseteq Nat \X Nat
BY PayloadFacts DEF AppliedCauses

\* The ordered index with an entry more or less.
LEMMA SortType ==
  ASSUME NEW sd \in [Docs \X Keys -> Nat], NEW p \in Docs \X Keys
  PROVE  SortAdd(sd, p) \in [Docs \X Keys -> Nat] /\ SortRemove(sd, p) \in [Docs \X Keys -> Nat]
<1>. DEFINE Bag == [Docs \X Keys -> Nat]
<1>1. sd[p] + 1 \in Nat /\ (IF sd[p] = 0 THEN 0 ELSE sd[p] - 1) \in Nat
  OBVIOUS
<1>2. [sd EXCEPT ![p] = sd[p] + 1] \in Bag /\ [sd EXCEPT ![p] = IF sd[p] = 0 THEN 0 ELSE sd[p] - 1] \in Bag
  BY <1>1
<1>. QED
  BY <1>2 DEF SortAdd, SortRemove

\* apply_op on the ordered index.
LEMMA AppliedSortedType ==
  ASSUME NEW o \in Ops, NEW st \in [Keys -> Chains], NEW sd \in [Docs \X Keys -> Nat], NEW ix, NEW ord
  PROVE  AppliedSorted(st, sd, ix, ord, o) \in [Docs \X Keys -> Nat]
<1>. DEFINE rest == Unsorted(st, sd, o)
            on == o.payload.on
            doc == o.payload.doc
<1>1. CASE o.payload.op \notin {"put", "delete"}
  BY <1>1 DEF AppliedSorted
<1>2. CASE o.payload.op \in {"put", "delete"}
  <2>1. on \in Keys /\ (o.payload.op = "put" => doc \in Docs)
    BY <1>2, PayloadFacts
  <2>2. Get(st, on) = NIL \/ <<Get(st, on), on>> \in Docs \X Keys
    BY <2>1, GetType
  <2>3. rest \in [Docs \X Keys -> Nat]
    BY <2>2, SortType DEF Unsorted
  <2>. HIDE DEF rest
  <2>4. o.payload.op = "put" => SortAdd(rest, <<doc, on>>) \in [Docs \X Keys -> Nat]
    BY <2>1, <2>3, SortType
  <2>. QED
    BY <2>3, <2>4 DEF AppliedSorted, rest
<1>. QED
  BY <1>1, <1>2

\* Documents more in the ordered index.
LEMMA SortedWithType ==
  ASSUME NEW sd \in [Docs \X Keys -> Nat], NEW ps
  PROVE  SortedWith(sd, ps) \in [Docs \X Keys -> Nat] /\ NoneSorted \in [Docs \X Keys -> Nat]
BY DEF SortedWith, NoneSorted

-----------------------------------------------------------------------------
(* Types of the parts that actions share.                                   *)

\* apply_op keeps the materialized state well-formed.
LEMMA ApplyType ==
  ASSUME TypeOK, NEW o \in Ops, Apply(o)
  PROVE  /\ store' \in [Keys -> Chains] /\ rels' \in [Edges -> Intervals]
         /\ eq' \subseteq Docs \X Keys /\ cause_map' \subseteq Nat \X Nat
         /\ sorted' \in [Docs \X Keys -> Nat]
<1>. /\ store \in [Keys -> Chains] /\ rels \in [Edges -> Intervals] /\ indexed \in BOOLEAN
     /\ eq \in SUBSET (Docs \X Keys) /\ cause_map \in SUBSET (Nat \X Nat)
     /\ sorted \in [Docs \X Keys -> Nat]
  BY DEF TypeOK
<1>. /\ store' = AppliedStore(store, indexed, o) /\ rels' = AppliedRels(rels, o)
     /\ eq' = AppliedIndex(store, eq, indexed, o)
     /\ cause_map' = AppliedCauses(store, cause_map, indexed, sorted, o)
     /\ sorted' = AppliedSorted(store, sorted, indexed, "ordered" \in others, o)
  BY DEF Apply
<1>. QED
  BY AppliedStoreType, AppliedIndexType, AppliedRelsType, AppliedCausesType, AppliedSortedType

\* load() leaves well-formed tables, whatever log it is given.
LEMMA LoadedTypes ==
  ASSUME NEW os \in Seq(Ops)
  PROVE  /\ HeadOf(os) \in Seq(Bodies)
         /\ LastNonces(os) \in [Clients -> Nat] /\ IdemMap(os) \in [IdemKeys -> Nat \cup {NoSeq}]
<1>1. Len(os) \in Nat /\ \A i \in 1..Len(os) : os[i] \in Ops
  BY LenProperties, ElementOfSeq
<1>2. \A i \in 1..Len(os) : os[i].nonce \in Nat /\ os[i].seq \in Nat /\ os[i].hash \in Seq(Bodies)
  BY <1>1 DEF Ops
<1>3. HeadOf(os) \in Seq(Bodies)
  <2>1. CASE Len(os) = 0
    BY <2>1, EmptySeq DEF HeadOf, PrevHash, GENESIS
  <2>2. CASE Len(os) # 0
    <3>1. Len(os) \in 1..Len(os) /\ Len(os) + 1 # 1 /\ (Len(os) + 1) - 1 = Len(os)
      BY <1>1, <2>2
    <3>2. HeadOf(os) = os[Len(os)].hash
      BY <3>1 DEF HeadOf, PrevHash
    <3>. QED
      BY <1>2, <3>1, <3>2
  <2>. QED
    BY <2>1, <2>2
<1>. QED
  BY <1>1, <1>2, <1>3, LastNoncesFacts, IdemMapType

\* A process that has forgotten its database is well-formed.
LEMMA ForgottenTypes ==
  /\ << >> \in Seq(Ops) /\ << >> \in Seq(Bodies) /\ << >> \in Seq(FileLines)
  /\ LastNonces(<< >>) \in [Clients -> Nat] /\ IdemMap(<< >>) \in [IdemKeys -> Nat \cup {NoSeq}]
  /\ EmptyStore \in [Keys -> Chains] /\ EmptyRels \in [Edges -> Intervals]
  /\ NoBlobs \in [Files -> Nat] /\ NoneSorted \in [Docs \X Keys -> Nat]
<1>1. << >> \in Seq(Ops) /\ << >> \in Seq(Bodies) /\ << >> \in Seq(FileLines)
  BY EmptySeq
<1>2. EmptyStore \in [Keys -> Chains] /\ EmptyRels \in [Edges -> Intervals]
  BY EmptySeq DEF EmptyStore, EmptyRels, Chains, Intervals
<1>. QED
  BY <1>1, <1>2, LoadedTypes DEF NoBlobs, NoneSorted

\* An op is behind every call that waits for its fsync or goes on to a snapshot.
CallHasOp == pc \in {"fsync", "snapshot"} => ops # << >>

\* _log_append, whichever way it ends, keeps the log, the page and the
\* materialized state well-formed.
LEMMA LogAppendType ==
  ASSUME TypeOK, CallHasOp, pc = "idle",
         NEW c \in Clients, NEW n \in Nat, NEW p \in Payloads, NEW causes \in SUBSET Nat,
         NEW k \in IdemKeys \cup {NoIdem}, NEW next \in {"idle", "snapshot", "meta"},
         LogAppend(c, n, p, causes, k, next)
  PROVE  /\ pc' \in {"idle", "fsync", "snapshot", "meta"} /\ then' \in {"idle", "snapshot", "meta"}
         /\ ops' \in Seq(Ops) /\ head' \in Seq(Bodies) /\ page' \in Seq(Ops)
         /\ last_nonce' \in [Clients -> Nat] /\ idem' \in [IdemKeys -> Nat \cup {NoSeq}]
         /\ store' \in [Keys -> Chains] /\ rels' \in [Edges -> Intervals]
         /\ eq' \subseteq Docs \X Keys /\ cause_map' \subseteq Nat \X Nat
         /\ sorted' \in [Docs \X Keys -> Nat]
         /\ CallHasOp'
<1>1. CASE NotAppended(c, n, k)
  BY <1>1 DEF NotAppended, TypeOK, CallHasOp
<1>. DEFINE o == NewOp(ops, head, c, n, p, causes, k)
<1>2. o \in Ops /\ o.seq \in Nat /\ o.hash \in Seq(Bodies) /\ o.client = c /\ o.nonce = n
  <2>1. ops \in Seq(Ops) /\ head \in Seq(Bodies)
    BY DEF TypeOK
  <2>2. o \in Ops /\ o.client = c /\ o.nonce = n
    BY <2>1, NewOpType DEF NewOp
  <2>. QED
    BY <2>2 DEF Ops
<1>. HIDE DEF o
<1>3. ASSUME Accepted(o, k)
      PROVE  /\ ops' \in Seq(Ops) /\ ops' # << >> /\ head' \in Seq(Bodies)
             /\ last_nonce' \in [Clients -> Nat] /\ idem' \in [IdemKeys -> Nat \cup {NoSeq}]
  <2>1. /\ ops \in Seq(Ops) /\ ops' = Append(ops, o) /\ head' = o.hash
        /\ last_nonce' = [last_nonce EXCEPT ![c] = n]
        /\ idem' = IF k = NoIdem THEN idem ELSE [idem EXCEPT ![k] = o.seq]
    BY <1>2, <1>3 DEF Accepted, TypeOK
  <2>2. ops' \in Seq(Ops) /\ ops' # << >> /\ head' \in Seq(Bodies)
    BY <1>2, <2>1, AppendProperties
  <2>3. last_nonce' \in [Clients -> Nat] /\ idem' \in [IdemKeys -> Nat \cup {NoSeq}]
    BY <1>2, <2>1 DEF TypeOK
  <2>. QED
    BY <2>2, <2>3
<1>4. CASE Unwritten(c, n, p, causes, k)
  <2>1. Accepted(o, k) /\ UNCHANGED <<page, store, rels, eq, cause_map, sorted, pc, then>>
    BY <1>4 DEF Unwritten, o
  <2>. QED
    BY <1>3, <2>1 DEF TypeOK, CallHasOp
<1>5. CASE Appended(c, n, p, causes, k, next)
  <2>1. Accepted(o, k) /\ page' = Append(page, o)
    BY <1>5 DEF Appended, o
  <2>2. page' \in Seq(Ops)
    BY <1>2, <2>1, AppendProperties DEF TypeOK
  <2>3. CASE DeferSync
    <3>1. /\ Apply(o) /\ then' = then
          /\ pc' = (IF ApplyRaises(store, indexed, sorted, o) THEN "idle" ELSE next)
      BY <1>5, <2>3 DEF Appended, o
    <3>2. pc' \in {"idle", "fsync", "snapshot", "meta"} /\ then' \in {"idle", "snapshot", "meta"}
      BY <3>1 DEF TypeOK
    <3>. QED
      BY <1>2, <1>3, <2>1, <2>2, <3>1, <3>2, ApplyType DEF CallHasOp
  <2>4. CASE ~DeferSync
    <3>1. pc' = "fsync" /\ then' = next /\ UNCHANGED <<store, rels, eq, cause_map, sorted>>
      BY <1>5, <2>4 DEF Appended
    <3>. QED
      BY <1>3, <2>1, <2>2, <3>1 DEF TypeOK, CallHasOp
  <2>. QED
    BY <2>3, <2>4
<1>. QED
  BY <1>1, <1>4, <1>5 DEF LogAppend

-----------------------------------------------------------------------------
(* Type correctness.  TypeOK alone is not inductive: Fsync and              *)
(* SnapshotRename read the last op of the log, so that the log must have    *)
(* one when they run, and a reopened log may be empty, so that no call may  *)
(* be under way when a database is opened.                                  *)

NoCallUnlessOpen == mode # "open" => pc = "idle"

TypeInv == TypeOK /\ CallHasOp /\ NoCallUnlessOpen

\* A call that goes through _log_append.
LEMMA CallType ==
  ASSUME TypeInv, Idle,
         NEW c \in Clients, NEW n \in Nat, NEW p \in Payloads, NEW causes \in SUBSET Nat,
         NEW k \in IdemKeys \cup {NoIdem}, NEW next \in {"idle", "snapshot", "meta"},
         LogAppend(c, n, p, causes, k, next),
         nonce' \in [Clients -> Nat], blobs' \in [Files -> Nat],
         UNCHANGED <<mode, indexed, others, pos, aof, snap, meta, promised, glued>>
  PROVE  TypeInv'
<1>1. TypeOK /\ CallHasOp /\ pc = "idle" /\ mode = "open"
  BY DEF TypeInv, Idle
<1>2. /\ pc' \in {"idle", "fsync", "snapshot", "meta"} /\ then' \in {"idle", "snapshot", "meta"}
      /\ ops' \in Seq(Ops) /\ head' \in Seq(Bodies) /\ page' \in Seq(Ops)
      /\ last_nonce' \in [Clients -> Nat] /\ idem' \in [IdemKeys -> Nat \cup {NoSeq}]
      /\ store' \in [Keys -> Chains] /\ rels' \in [Edges -> Intervals]
      /\ eq' \subseteq Docs \X Keys /\ cause_map' \subseteq Nat \X Nat
      /\ sorted' \in [Docs \X Keys -> Nat]
      /\ CallHasOp'
  BY <1>1, LogAppendType
<1>3. TypeOK'
  BY <1>1, <1>2 DEF TypeOK
<1>. QED
  BY <1>1, <1>2, <1>3 DEF TypeInv, NoCallUnlessOpen

\* A call of a user.
LEMMA MutateType ==
  ASSUME TypeInv, NEW p \in Payloads, NEW causes \in SUBSET Nat,
         NEW k \in IdemKeys \cup {NoIdem}, Mutate(p, causes, k), blobs' \in [Files -> Nat]
  PROVE  TypeInv'
<1>1. PICK c \in Users, n \in 1..MaxNonce :
        /\ Idle /\ Nonce(c, n) /\ LogAppend(c, n, p, causes, k, "idle")
        /\ UNCHANGED <<mode, indexed, others, pos, aof, snap, meta, promised, glued>>
  BY DEF Mutate
<1>2. c \in Clients /\ n \in Nat
  BY EngineAssumption
<1>3. nonce' \in [Clients -> Nat]
  BY <1>1, <1>2 DEF Nonce, TypeInv, TypeOK
<1>. QED
  BY <1>1, <1>2, <1>3, CallType

\* What a crash, a close() or a failed replay leaves of the process is well-formed.
LEMMA ForgetType ==
  ASSUME TypeInv, Forget, mode' \in {"closed", "failed"}, aof' \in Seq(FileLines),
         promised' \in Seq(Ops), glued' \subseteq Nat, UNCHANGED <<snap, meta>>
  PROVE  TypeInv'
BY ForgottenTypes DEF Forget, TypeInv, TypeOK, CallHasOp, NoCallUnlessOpen, GENESIS

\* Opening with what load() leaves is well-formed.
LEMMA LoadLogType ==
  ASSUME NEW os \in Seq(Ops), LoadLog(os)
  PROVE  /\ ops' \in Seq(Ops) /\ head' \in Seq(Bodies)
         /\ last_nonce' \in [Clients -> Nat] /\ nonce' \in [Clients -> Nat]
         /\ idem' \in [IdemKeys -> Nat \cup {NoSeq}]
BY LoadedTypes DEF LoadLog

\* The engine starts well-formed.
LEMMA InitType == Init => TypeInv
<1>. SUFFICES ASSUME Init PROVE TypeInv
  OBVIOUS
<1>1. ops \in Seq(Ops) /\ page \in Seq(Ops) /\ promised \in Seq(Ops) /\ head \in Seq(Bodies)
  BY ForgottenTypes DEF Init, GENESIS
<1>2. /\ last_nonce \in [Clients -> Nat] /\ nonce \in [Clients -> Nat]
      /\ idem \in [IdemKeys -> Nat \cup {NoSeq}]
  BY ForgottenTypes DEF Init
<1>3. /\ store \in [Keys -> Chains] /\ rels \in [Edges -> Intervals] /\ blobs \in [Files -> Nat]
      /\ aof \in Seq(FileLines) /\ sorted \in [Docs \X Keys -> Nat]
  BY ForgottenTypes DEF Init
<1>. QED
  BY <1>1, <1>2, <1>3 DEF Init, TypeInv, TypeOK, CallHasOp, NoCallUnlessOpen

\* Re-linking a log leaves a log of as many ops.
LEMMA SelfHealType ==
  ASSUME NEW os \in Seq(Ops)
  PROVE  SelfHeal(os) \in Seq(Ops) /\ Len(SelfHeal(os)) = Len(os)
<1>1. Len(os) \in Nat /\ \A i \in 1..Len(os) : os[i] \in Ops
  BY LenProperties, ElementOfSeq
<1>2. \A i \in 1..Len(os) : Body(os[i]) \in Bodies
  BY <1>1 DEF Ops, Bodies, Body
<1>. DEFINE op(i) == [os[i] EXCEPT !.prev_hash = [j \in 1..(i - 1) |-> Body(os[j])],
                                   !.hash      = [j \in 1..i |-> Body(os[j])],
                                   !.caused_by = {}]
<1>3. ASSUME NEW i \in 1..Len(os) PROVE op(i) \in Ops
  <2>1. [j \in 1..(i - 1) |-> Body(os[j])] \in Seq(Bodies)
    <3>1. i - 1 \in Nat /\ \A j \in 1..(i - 1) : Body(os[j]) \in Bodies
      BY <1>1, <1>2
    <3>. QED
      BY <3>1
  <2>2. [j \in 1..i |-> Body(os[j])] \in Seq(Bodies)
    <3>1. i \in Nat /\ \A j \in 1..i : Body(os[j]) \in Bodies
      BY <1>1, <1>2
    <3>. QED
      BY <3>1
  <2>. QED
    BY <1>1, <2>1, <2>2 DEF Ops
<1>4. Relinked(os) \in Seq(Ops) /\ Len(Relinked(os)) = Len(os)
  <2>1. Relinked(os) = [i \in 1..Len(os) |-> op(i)]
    BY DEF Relinked
  <2>. HIDE DEF op
  <2>. QED
    BY <1>1, <1>3, <2>1
<1>. QED
  BY <1>4 DEF SelfHeal

\* Every step of the engine keeps its fields and files well-formed.
LEMMA NextType ==
  ASSUME TypeInv, [Next]_vars
  PROVE  TypeInv'
<1>. USE DEF TypeInv
<1>1. ASSUME NEW key \in Keys, NEW doc \in Docs, NEW causes \in Causes,
             NEW k \in IdemKeys \cup {NoIdem}, Put(key, doc, causes, k)
      PROVE  TypeInv'
  <2>1. Payload("put", key, doc) \in Payloads /\ causes \in SUBSET Nat
    BY EngineAssumption DEF Payload, Payloads
  <2>. QED
    BY <1>1, <2>1, MutateType DEF Put, TypeOK
<1>2. ASSUME NEW key \in Keys, NEW k \in IdemKeys \cup {NoIdem}, Delete(key, k)
      PROVE  TypeInv'
  <2>1. Payload("delete", key, NIL) \in Payloads
    BY DEF Payload, Payloads
  <2>. QED
    BY <1>2, <2>1, MutateType DEF Delete, TypeOK
<1>3. ASSUME NEW e \in Edges, Link(e) \/ Unlink(e)
      PROVE  TypeInv'
  <2>1. Payload("link", e, NIL) \in Payloads /\ Payload("unlink", e, NIL) \in Payloads
    BY DEF Payload, Payloads
  <2>. QED
    BY <1>3, <2>1, MutateType DEF Link, Unlink, TypeOK
<1>4. ASSUME NEW f \in Files, NEW k \in IdemKeys \cup {NoIdem}, PutFile(f, k)
      PROVE  TypeInv'
  <2>1. Payload("put_file", f, blobs[f]) \in Payloads /\ blobs' \in [Files -> Nat]
    BY <1>4 DEF Payload, Payloads, PutFile, TypeOK
  <2>. QED
    BY <1>4, <2>1, MutateType DEF PutFile
<1>5. ASSUME NEW key \in Keys, Expire(key)
      PROVE  TypeInv'
  <2>1. /\ Payload("delete", key, NIL) \in Payloads
        /\ TTL \in Clients /\ nonce[TTL] + 1 \in Nat /\ nonce' \in [Clients -> Nat]
    BY <1>5, EngineAssumption DEF Payload, Payloads, Expire, TypeOK
  <2>2. PICK next \in {"idle", "meta"} :
           LogAppend(TTL, nonce[TTL] + 1, Payload("delete", key, NIL), {}, NoIdem, next)
    BY <1>5 DEF Expire
  <2>3. /\ Idle /\ blobs' \in [Files -> Nat]
        /\ UNCHANGED <<mode, indexed, others, pos, aof, snap, meta, promised, glued>>
    BY <1>5 DEF Expire, TypeOK
  <2>. HIDE DEF TypeInv
  <2>. QED
    BY <2>1, <2>2, <2>3, CallType
<1>6. ASSUME Checkpoint
      PROVE  TypeInv'
  <2>1. /\ Payload("checkpoint", NIL, NIL) \in Payloads
        /\ SNAPSHOT \in Clients /\ Clock \subseteq Nat
    BY EngineAssumption DEF Payload, Payloads
  <2>2. PICK now \in Clock :
           LogAppend(SNAPSHOT, now, Payload("checkpoint", NIL, NIL), {}, NoIdem, "snapshot")
    BY <1>6 DEF Checkpoint
  <2>3. /\ Idle /\ nonce' \in [Clients -> Nat] /\ blobs' \in [Files -> Nat]
        /\ UNCHANGED <<mode, indexed, others, pos, aof, snap, meta, promised, glued>>
    BY <1>6 DEF Checkpoint, TypeOK
  <2>. HIDE DEF TypeInv
  <2>. QED
    BY <2>1, <2>2, <2>3, CallType
<1>7. ASSUME Fsync
      PROVE  TypeInv'
  <2>1. ops[Len(ops)] \in Ops
    <3>1. ops \in Seq(Ops) /\ ops # << >>
      BY <1>7 DEF Fsync, TypeOK, CallHasOp, NoCallUnlessOpen
    <3>2. Len(ops) \in 1..Len(ops)
      BY <3>1, EmptySeq, LenProperties
    <3>. QED
      BY <3>1, <3>2, ElementOfSeq
  <2>2. /\ store' \in [Keys -> Chains] /\ rels' \in [Edges -> Intervals]
        /\ eq' \subseteq Docs \X Keys /\ cause_map' \subseteq Nat \X Nat
        /\ sorted' \in [Docs \X Keys -> Nat]
    BY <1>7, <2>1, ApplyType DEF Fsync
  <2>3. aof' \in Seq(FileLines) /\ page' \in Seq(Ops)
    BY <1>7, FlushedType, ForgottenTypes DEF Fsync, TypeOK
  <2>4. glued' \subseteq Nat
    BY <1>7, <2>3, GluedType DEF Fsync
  <2>. QED
    BY <1>7, <2>2, <2>3, <2>4 DEF Fsync, TypeOK, CallHasOp, NoCallUnlessOpen, log
<1>8. ASSUME FsyncFails
      PROVE  TypeInv'
  BY <1>8 DEF FsyncFails, TypeOK, CallHasOp, NoCallUnlessOpen, log, mat, disk
<1>9. ASSUME SnapshotRename
      PROVE  TypeInv'
  <2>1. ops[Len(ops)] \in Ops
    <3>1. ops \in Seq(Ops) /\ ops # << >>
      BY <1>9 DEF SnapshotRename, TypeOK, CallHasOp, NoCallUnlessOpen
    <3>2. Len(ops) \in 1..Len(ops)
      BY <3>1, EmptySeq, LenProperties
    <3>. QED
      BY <3>1, <3>2, ElementOfSeq
  <2>2. ASSUME NEW k \in Keys
        PROVE  (IF store[k] = << >> THEN << >> ELSE <<store[k][Len(store[k])]>>) \in Chains
    <3>. DEFINE Version == [seq : Nat, val : Docs \cup {NIL}]
    <3>1. store[k] \in Seq(Version)
      BY DEF TypeOK, Chains
    <3>2. CASE store[k] = << >>
      BY <3>2, EmptySeq DEF Chains
    <3>3. CASE store[k] # << >>
      <4>1. Len(store[k]) \in 1..Len(store[k])
        BY <3>1, <3>3, EmptySeq, LenProperties
      <4>2. store[k][Len(store[k])] \in Version
        BY <3>1, <4>1, ElementOfSeq
      <4>. HIDE DEF Version
      <4>3. <<store[k][Len(store[k])]>> \in Seq(Version)
        BY <4>2
      <4>. QED
        BY <3>3, <4>3 DEF Chains, Version
    <3>. QED
      BY <3>2, <3>3
  <2>3. SnapshotNow \in Snapshots
    BY <2>1, <2>2 DEF SnapshotNow, Snapshots, TypeOK, Ops
  <2>. QED
    BY <1>9, <2>3 DEF SnapshotRename, TypeOK, CallHasOp, NoCallUnlessOpen, log, mat
<1>10. ASSUME SnapshotFlush \/ Flush
      PROVE  TypeInv'
  <2>1. aof' \in Seq(FileLines) /\ page' \in Seq(Ops)
    BY <1>10, FlushedType, ForgottenTypes DEF SnapshotFlush, Flush, TypeOK
  <2>2. glued' \subseteq Nat
    BY <1>10, <2>1, GluedType DEF SnapshotFlush, Flush
  <2>. QED
    BY <1>10, <2>1, <2>2 DEF SnapshotFlush, Flush, Idle, TypeOK, CallHasOp, NoCallUnlessOpen, log, mat
<1>11. ASSUME NEW kind \in Kinds, CreateIndex(kind)
       PROVE  TypeInv'
  <2>1. kind \in {"eq", "ordered"} /\ HeadPairs(store) \subseteq Docs \X Keys
    BY <1>11, EngineAssumption, HeadPairsType DEF CreateIndex, TypeOK
  <2>2. /\ indexed' \in BOOLEAN /\ others' \subseteq {"ordered", "unknown"} /\ pc' \in {"idle", "meta"}
        /\ mode = "open" /\ UNCHANGED <<mode, then, log, store, rels, cause_map, blobs, pos, disk>>
    BY <1>11, <2>1 DEF CreateIndex, Idle, TypeOK
  <2>3. PICK done \in SUBSET HeadPairs(store) :
          /\ sorted' = IF "ordered" \in others' THEN SortedWith(sorted, done) ELSE sorted
          /\ \/ eq' = (IF indexed' THEN eq \cup done ELSE eq)
             \/ \E p \in HeadPairs(store) \ done :
                  eq' = (IF ~indexed' THEN eq
                         ELSE IF p[1] \in Unhashable THEN eq \cup done ELSE eq \cup done \cup {p})
    BY <1>11 DEF CreateIndex
  <2>4. eq' \subseteq Docs \X Keys
    BY <2>1, <2>3 DEF TypeOK
  <2>5. sorted' \in [Docs \X Keys -> Nat]
    BY <2>3, SortedWithType DEF TypeOK
  <2>. QED
    BY <2>2, <2>4, <2>5 DEF TypeOK, CallHasOp, NoCallUnlessOpen, log, disk
<1>22. ASSUME CreateUnknownIndex
       PROVE  TypeInv'
  BY <1>22 DEF CreateUnknownIndex, Idle, TypeOK, CallHasOp, NoCallUnlessOpen, log, disk
<1>12. ASSUME MetaTruncate \/ MetaWrite
      PROVE  TypeInv'
  BY <1>12 DEF MetaTruncate, MetaWrite, TypeOK, CallHasOp, NoCallUnlessOpen, log, mat
<1>13. ASSUME Close
       PROVE  TypeInv'
  <2>1. aof' \in Seq(FileLines) /\ promised' \in Seq(Ops)
    BY <1>13, FlushedType DEF Close, TypeOK
  <2>2. glued' \subseteq Nat
    BY <1>13, <2>1, GluedType DEF Close
  <2>. QED
    BY <1>13, <2>1, <2>2, ForgetType DEF Close
<1>14. ASSUME Crash
       PROVE  TypeInv'
  <2>1. PICK n \in 0..Len(page) :
          \/ aof' = aof \o Lines(SubSeq(page, 1, n))
          \/ /\ n < Len(page)
             /\ \E end \in Ends :
                  aof' = aof \o Lines(SubSeq(page, 1, n)) \o << [op |-> page[n + 1], end |-> end] >>
    BY <1>14 DEF Crash
  <2>2. aof \in Seq(FileLines) /\ page \in Seq(Ops) /\ Len(page) \in Nat
    BY LenProperties DEF TypeOK
  <2>3. \A i \in 1..Len(page) : page[i] \in Ops
    BY <2>2, ElementOfSeq
  <2>4. SubSeq(page, 1, n) \in Seq(Ops)
    BY <2>2, <2>3, SubSeqProperties
  <2>5. aof \o Lines(SubSeq(page, 1, n)) \in Seq(FileLines)
    BY <2>2, <2>4, LinesType, ConcatProperties
  <2>6. ASSUME n < Len(page), NEW end \in Ends
        PROVE  << [op |-> page[n + 1], end |-> end] >> \in Seq(FileLines)
    <3>1. [op |-> page[n + 1], end |-> end] \in FileLines
      BY <2>2, <2>3, <2>6, EngineAssumption DEF FileLines
    <3>. QED
      BY <3>1
  <2>7. aof' \in Seq(FileLines)
    BY <2>1, <2>5, <2>6, ConcatProperties
  <2>8. glued' \subseteq Nat
    BY <1>14, <2>7, GluedType DEF Crash, TypeOK
  <2>. QED
    BY <1>14, <2>7, <2>8, ForgetType DEF Crash, TypeOK
<1>15. ASSUME OpenFull
       PROVE  TypeInv'
  <2>1. Decoded(aof) \in Seq(Ops) /\ Repaired(aof) \in Seq(FileLines)
    BY DecodedType, RepairedType DEF TypeOK
  <2>2. /\ ops' \in Seq(Ops) /\ head' \in Seq(Bodies)
        /\ last_nonce' \in [Clients -> Nat] /\ nonce' \in [Clients -> Nat]
        /\ idem' \in [IdemKeys -> Nat \cup {NoSeq}]
    BY <1>15, <2>1, LoadLogType DEF OpenFull
  <2>3. /\ mode = "closed" \/ mode = "failed"
        /\ mode' = "replaying" /\ indexed' = ("eq" \in meta) /\ others' = meta \cap {"ordered"}
        /\ aof' = Repaired(aof)
        /\ UNCHANGED <<pc, then, store, rels, eq, cause_map, sorted, blobs, pos,
                       page, snap, meta, promised, glued>>
    BY <1>15 DEF OpenFull
  <2>4. pc = "idle"
    BY <2>3 DEF NoCallUnlessOpen
  <2>5. indexed' \in BOOLEAN /\ others' \subseteq {"ordered", "unknown"} /\ aof' \in Seq(FileLines)
    BY <2>1, <2>3
  <2>6. TypeOK'
    BY <2>2, <2>3, <2>5 DEF TypeOK
  <2>. QED
    BY <2>3, <2>4, <2>6 DEF CallHasOp, NoCallUnlessOpen
<1>16. ASSUME OpenSnapshot
       PROVE  TypeInv'
  <2>1. PICK s \in snap :
          /\ indexed' = s.indexed
          /\ store' = s.store /\ rels' = s.rels /\ blobs' = s.blobs
          /\ eq' = IF s.indexed THEN HeadPairs(s.store) ELSE {}
          /\ others' = s.others
          /\ sorted' = IF "ordered" \in s.others THEN SortedWith(NoneSorted, HeadPairs(s.store))
                                                 ELSE NoneSorted
    BY <1>16 DEF OpenSnapshot
  <2>2. /\ mode \in {"closed", "failed"} /\ mode' = "replaying" /\ LoadLog(Decoded(aof))
        /\ UNCHANGED <<pc, then, cause_map, pos, disk>>
    BY <1>16 DEF OpenSnapshot
  <2>3. /\ s.indexed \in BOOLEAN /\ s.store \in [Keys -> Chains]
        /\ s.rels \in [Edges -> Intervals] /\ s.blobs \in [Files -> Nat]
        /\ s.others \subseteq {"ordered", "unknown"}
    BY <2>1 DEF TypeOK, Snapshots
  <2>4. Decoded(aof) \in Seq(Ops)
    BY DecodedType DEF TypeOK
  <2>5. /\ ops' \in Seq(Ops) /\ head' \in Seq(Bodies)
        /\ last_nonce' \in [Clients -> Nat] /\ nonce' \in [Clients -> Nat]
        /\ idem' \in [IdemKeys -> Nat \cup {NoSeq}]
    BY <2>2, <2>4, LoadLogType
  <2>6. eq' \subseteq Docs \X Keys
    BY <2>1, <2>3, HeadPairsType
  <2>7. /\ indexed' \in BOOLEAN /\ store' \in [Keys -> Chains]
        /\ rels' \in [Edges -> Intervals] /\ blobs' \in [Files -> Nat]
        /\ others' \subseteq {"ordered", "unknown"} /\ sorted' \in [Docs \X Keys -> Nat]
    BY <2>1, <2>3, ForgottenTypes, SortedWithType
  <2>. QED
    BY <2>2, <2>5, <2>6, <2>7 DEF TypeOK, CallHasOp, NoCallUnlessOpen, disk
<1>17. ASSUME OpenFails
       PROVE  TypeInv'
  BY <1>17 DEF OpenFails, TypeOK, CallHasOp, NoCallUnlessOpen, log, mat, disk
<1>18. ASSUME Replay
       PROVE  TypeInv'
  <2>. DEFINE o == ops[pos + 1]
  <2>1. o \in Ops
    <3>1. ops \in Seq(Ops) /\ Len(ops) \in Nat /\ pos \in Nat
      BY LenProperties DEF TypeOK
    <3>2. pos + 1 \in 1..Len(ops)
      BY <1>18, <3>1 DEF Replay
    <3>. QED
      BY <3>1, <3>2, ElementOfSeq
  <2>. HIDE DEF o
  <2>2. /\ store' \in [Keys -> Chains] /\ rels' \in [Edges -> Intervals]
        /\ eq' \subseteq Docs \X Keys /\ cause_map' \subseteq Nat \X Nat
        /\ sorted' \in [Docs \X Keys -> Nat]
    <3>1. CASE Skipped(o)
      BY <1>18, <3>1 DEF Replay, TypeOK, o
    <3>2. CASE ~Skipped(o)
      <4>1. Apply(o)
        BY <1>18, <3>2 DEF Replay, o
      <4>. QED
        BY <2>1, <4>1, ApplyType
    <3>. QED
      BY <3>1, <3>2
  <2>3. pos' \in Nat
    BY <1>18 DEF Replay, TypeOK
  <2>. QED
    BY <1>18, <2>2, <2>3 DEF Replay, TypeOK, CallHasOp, NoCallUnlessOpen, log, disk
<1>19. ASSUME ReplayRaises
       PROVE  TypeInv'
  BY <1>19, ForgetType DEF ReplayRaises, TypeOK
<1>20. ASSUME Heal
       PROVE  TypeInv'
  <2>1. SelfHeal(ops) \in Seq(Ops)
    BY SelfHealType DEF TypeOK
  <2>2. HeadOf(SelfHeal(ops)) \in Seq(Bodies) /\ Lines(SelfHeal(ops)) \in Seq(FileLines)
    BY <2>1, LoadedTypes, LinesType
  <2>3. pc = "idle"
    BY <1>20 DEF Heal, NoCallUnlessOpen
  <2>. QED
    BY <1>20, <2>1, <2>2, <2>3 DEF Heal, TypeOK, CallHasOp, NoCallUnlessOpen, mat
<1>23. ASSUME FinishOpen \/ DropSnapshot
       PROVE  TypeInv'
  BY <1>23 DEF FinishOpen, DropSnapshot, TypeOK, CallHasOp, NoCallUnlessOpen, log, mat, disk
<1>21. ASSUME UNCHANGED vars
       PROVE  TypeInv'
  BY <1>21 DEF vars, TypeOK, CallHasOp, NoCallUnlessOpen, log, mat, disk
<1>. HIDE DEF TypeInv
<1>. QED
  BY <1>1, <1>2, <1>3, <1>4, <1>5, <1>6, <1>7, <1>8, <1>9, <1>10, <1>11, <1>12, <1>13,
     <1>14, <1>15, <1>16, <1>17, <1>18, <1>19, <1>20, <1>21, <1>22, <1>23 DEF Next

\* The fields and files of the engine have their types in every reachable state,
\* whatever the clients, keys, documents, crashes and fsync failures.
THEOREM TypeCorrect == Spec => []TypeOK
<1>1. TypeInv /\ [Next]_vars => TypeInv'
  BY NextType
<1>2. TypeInv => TypeOK
  BY DEF TypeInv
<1>. QED
  BY InitType, <1>1, <1>2, PTL DEF Spec

-----------------------------------------------------------------------------
(* What a step does to the log and to the state.                            *)

\* create_index, whether it knows the kind or not.
Indexing == (\E kind \in Kinds : CreateIndex(kind)) \/ CreateUnknownIndex

\* One of the calls that go through _log_append.
Call ==
  \/ \E key \in Keys, doc \in Docs, causes \in Causes, k \in IdemKeys \cup {NoIdem} :
        Put(key, doc, causes, k)
  \/ \E key \in Keys, k \in IdemKeys \cup {NoIdem} : Delete(key, k)
  \/ \E e \in Edges : Link(e) \/ Unlink(e)
  \/ \E f \in Files, k \in IdemKeys \cup {NoIdem} : PutFile(f, k)
  \/ \E key \in Keys : Expire(key)
  \/ Checkpoint

\* The log refused the call, or returned the op of an earlier one.
Refuses ==
  /\ mode = "open"
  /\ UNCHANGED <<mode, pc, then, ops, head, page, store, rels, eq, cause_map, sorted,
                 indexed, others, pos, aof, snap, meta, promised, glued>>

\* OpLog.append took o.
Follows(o) ==
  /\ mode = "open" /\ pc = "idle" /\ ops' = Append(ops, o) /\ head' = o.hash
  /\ o.seq = Len(ops) /\ o.prev_hash = head /\ o.hash = Hash(head, Body(o))
  /\ o.caused_by \in Causes \cup {{}}
  /\ UNCHANGED <<mode, indexed, others, pos, aof, snap, meta, promised, glued>>

\* The call logged o: applied at once with deferred sync, after the fsync without.
Enters(o) ==
  /\ Follows(o) /\ page' = Append(page, o)
  /\ IF DeferSync THEN Apply(o) /\ pc' # "fsync"
                  ELSE pc' = "fsync" /\ UNCHANGED <<store, rels, eq, cause_map, sorted>>

\* The log took o and json.dumps did not: o is in memory only, and not applied.
Drops(o) ==
  /\ Follows(o) /\ o.payload.doc \in Unserialisable
  /\ UNCHANGED <<page, store, rels, eq, cause_map, sorted, pc>>

\* _log_append refuses or logs one op.
LEMMA AppendSteps ==
  ASSUME TypeInv, Idle,
         NEW c \in Clients, NEW n \in Nat, NEW p \in Payloads, NEW causes \in Causes \cup {{}},
         NEW k \in IdemKeys \cup {NoIdem}, NEW next \in {"idle", "snapshot", "meta"},
         LogAppend(c, n, p, causes, k, next),
         UNCHANGED <<mode, indexed, others, pos, aof, snap, meta, promised, glued>>
  PROVE  Refuses \/ \E o \in Ops : Enters(o) \/ Drops(o)
<1>1. CASE NotAppended(c, n, k)
  BY <1>1 DEF NotAppended, Refuses, Idle
<1>. DEFINE o == NewOp(ops, head, c, n, p, causes, k)
<1>2. o \in Ops
  <2>1. ops \in Seq(Ops) /\ head \in Seq(Bodies) /\ causes \in SUBSET Nat
    BY EngineAssumption DEF TypeInv, TypeOK
  <2>. QED
    BY <2>1, NewOpType
<1>3. /\ o.seq = Len(ops) /\ o.prev_hash = head /\ o.hash = Hash(head, Body(o))
      /\ o.caused_by \in Causes \cup {{}} /\ o.payload = p
  BY DEF NewOp, Body
<1>. HIDE DEF o
<1>4. Accepted(o, k) => Follows(o)
  BY <1>3 DEF Accepted, Follows, Idle
<1>5. CASE Unwritten(c, n, p, causes, k)
  <2>1. Drops(o)
    BY <1>3, <1>4, <1>5 DEF Unwritten, Drops, o
  <2>. QED
    BY <1>2, <2>1
<1>6. CASE Appended(c, n, p, causes, k, next)
  <2>1. /\ Accepted(o, k) /\ page' = Append(page, o)
        /\ DeferSync => Apply(o) /\ pc' # "fsync"
        /\ ~DeferSync => pc' = "fsync" /\ UNCHANGED <<store, rels, eq, cause_map, sorted>>
    BY <1>6 DEF Appended, o
  <2>2. Enters(o)
    BY <1>4, <2>1 DEF Enters
  <2>. QED
    BY <1>2, <2>2
<1>. QED
  BY <1>1, <1>5, <1>6 DEF LogAppend

\* So does every call.
LEMMA CallSteps ==
  ASSUME TypeInv, Call
  PROVE  Refuses \/ \E o \in Ops : Enters(o) \/ Drops(o)
<1>1. ASSUME NEW p \in Payloads, NEW causes \in Causes \cup {{}}, NEW k \in IdemKeys \cup {NoIdem},
             Mutate(p, causes, k)
      PROVE  Refuses \/ \E o \in Ops : Enters(o) \/ Drops(o)
  <2>1. PICK c \in Users, n \in 1..MaxNonce :
          /\ Idle /\ LogAppend(c, n, p, causes, k, "idle")
          /\ UNCHANGED <<mode, indexed, others, pos, aof, snap, meta, promised, glued>>
    BY <1>1 DEF Mutate
  <2>2. c \in Clients /\ n \in Nat
    BY EngineAssumption
  <2>. QED
    BY <2>1, <2>2, AppendSteps
<1>2. ASSUME NEW key \in Keys, NEW doc \in Docs, NEW causes \in Causes,
             NEW k \in IdemKeys \cup {NoIdem}, Put(key, doc, causes, k)
      PROVE  Refuses \/ \E o \in Ops : Enters(o) \/ Drops(o)
  <2>1. Payload("put", key, doc) \in Payloads /\ causes \in Causes \cup {{}}
    BY DEF Payload, Payloads
  <2>. QED
    BY <1>1, <1>2, <2>1 DEF Put
<1>3. ASSUME NEW key \in Keys, NEW k \in IdemKeys \cup {NoIdem}, Delete(key, k)
      PROVE  Refuses \/ \E o \in Ops : Enters(o) \/ Drops(o)
  <2>1. Payload("delete", key, NIL) \in Payloads
    BY DEF Payload, Payloads
  <2>. QED
    BY <1>1, <1>3, <2>1 DEF Delete
<1>4. ASSUME NEW e \in Edges, Link(e) \/ Unlink(e)
      PROVE  Refuses \/ \E o \in Ops : Enters(o) \/ Drops(o)
  <2>1. Payload("link", e, NIL) \in Payloads /\ Payload("unlink", e, NIL) \in Payloads
    BY DEF Payload, Payloads
  <2>. QED
    BY <1>1, <1>4, <2>1 DEF Link, Unlink
<1>5. ASSUME NEW f \in Files, NEW k \in IdemKeys \cup {NoIdem}, PutFile(f, k)
      PROVE  Refuses \/ \E o \in Ops : Enters(o) \/ Drops(o)
  <2>1. Payload("put_file", f, blobs[f]) \in Payloads
    BY DEF Payload, Payloads, TypeInv, TypeOK
  <2>. QED
    BY <1>1, <1>5, <2>1 DEF PutFile
<1>6. ASSUME NEW key \in Keys, Expire(key)
      PROVE  Refuses \/ \E o \in Ops : Enters(o) \/ Drops(o)
  <2>1. /\ Payload("delete", key, NIL) \in Payloads
        /\ TTL \in Clients /\ nonce[TTL] + 1 \in Nat
    BY EngineAssumption DEF Payload, Payloads, TypeInv, TypeOK
  <2>2. PICK next \in {"idle", "meta"} :
           LogAppend(TTL, nonce[TTL] + 1, Payload("delete", key, NIL), {}, NoIdem, next)
    BY <1>6 DEF Expire
  <2>3. Idle /\ UNCHANGED <<mode, indexed, others, pos, aof, snap, meta, promised, glued>>
    BY <1>6 DEF Expire
  <2>. QED
    BY <2>1, <2>2, <2>3, AppendSteps
<1>7. ASSUME Checkpoint
      PROVE  Refuses \/ \E o \in Ops : Enters(o) \/ Drops(o)
  <2>1. Payload("checkpoint", NIL, NIL) \in Payloads /\ SNAPSHOT \in Clients /\ Clock \subseteq Nat
    BY EngineAssumption DEF Payload, Payloads
  <2>2. PICK now \in Clock :
           LogAppend(SNAPSHOT, now, Payload("checkpoint", NIL, NIL), {}, NoIdem, "snapshot")
    BY <1>7 DEF Checkpoint
  <2>3. Idle /\ UNCHANGED <<mode, indexed, others, pos, aof, snap, meta, promised, glued>>
    BY <1>7 DEF Checkpoint
  <2>. QED
    BY <2>1, <2>2, <2>3, AppendSteps
<1>. QED
  BY <1>2, <1>3, <1>4, <1>5, <1>6, <1>7 DEF Call

\* When every value can be written, what the log takes the page gets.
LEMMA CallEnters ==
  ASSUME Unserialisable = {}, TypeInv, Call
  PROVE  Refuses \/ \E o \in Ops : Enters(o)
<1>1. \A o : ~Drops(o)
  BY DEF Drops
<1>. QED
  BY <1>1, CallSteps

\* A step is a call or one of the others.
LEMMA StepCases ==
  ASSUME [Next]_vars
  PROVE  \/ Call \/ Fsync \/ FsyncFails \/ SnapshotRename \/ SnapshotFlush \/ Flush
         \/ Indexing \/ MetaTruncate \/ MetaWrite \/ Close \/ Crash
         \/ OpenFull \/ OpenSnapshot \/ OpenFails \/ Replay \/ ReplayRaises
         \/ FinishOpen \/ Heal \/ DropSnapshot \/ UNCHANGED vars
BY DEF Next, Call, Indexing

-----------------------------------------------------------------------------
(* The log, in memory and on disk.                                          *)

\* The ops that the lines of a file were written from, damaged lines included.
Recorded(f) == [i \in 1..Len(f) |-> f[i].op]

\* The ops are chained and numbered.
Chained(os) ==
  \A i \in 1..Len(os) : /\ os[i].seq = i - 1
                        /\ os[i].prev_hash = PrevHash(os, i)
                        /\ os[i].hash = Hash(os[i].prev_hash, Body(os[i]))

\* No client repeats or lowers a nonce.
Ascending(os) ==
  \A i, j \in 1..Len(os) :
     i < j /\ os[i].client = os[j].client => os[i].nonce < os[j].nonce

\* No idempotency key is on two ops.
OneUse(os) ==
  \A i, j \in 1..Len(os) : os[i].idem = os[j].idem /\ os[i].idem \in IdemKeys => i = j

GoodLog(os) == Chained(os) /\ Ascending(os) /\ OneUse(os)

-----------------------------------------------------------------------------
(* Lemmas on logs and files.                                                *)

\* The beginning of a good log is a good log.
LEMMA GoodPrefix ==
  ASSUME NEW os \in Seq(Ops), NEW t \in Seq(Ops), GoodLog(os), IsPrefixOf(t, os)
  PROVE  GoodLog(t)
<1>1. /\ Len(t) \in Nat /\ Len(os) \in Nat /\ Len(t) <= Len(os)
      /\ \A i \in 1..Len(t) : i \in 1..Len(os) /\ t[i] = os[i]
  BY LenProperties DEF IsPrefixOf
<1>2. ASSUME NEW i \in 1..Len(t) PROVE PrevHash(t, i) = PrevHash(os, i)
  <2>1. i # 1 => i - 1 \in 1..Len(t)
    BY <1>1
  <2>. QED
    BY <1>1, <2>1 DEF PrevHash
<1>3. Chained(t)
  BY <1>1, <1>2 DEF GoodLog, Chained
<1>4. Ascending(t) /\ OneUse(t)
  BY <1>1 DEF GoodLog, Ascending, OneUse
<1>. QED
  BY <1>3, <1>4 DEF GoodLog

\* A log that append() accepts an op into stays good, and the op's hash is its head.
LEMMA GoodAppend ==
  ASSUME NEW os \in Seq(Ops), GoodLog(os), NEW o \in Ops,
         o.seq = Len(os), o.prev_hash = HeadOf(os), o.hash = Hash(o.prev_hash, Body(o)),
         \A i \in 1..Len(os) : os[i].client = o.client => os[i].nonce < o.nonce,
         o.idem \in IdemKeys => \A i \in 1..Len(os) : os[i].idem # o.idem
  PROVE  GoodLog(Append(os, o)) /\ HeadOf(Append(os, o)) = o.hash
<1>. DEFINE t == Append(os, o)
<1>. HIDE DEF t
<1>1. /\ Len(os) \in Nat /\ Len(t) = Len(os) + 1 /\ t[Len(os) + 1] = o
      /\ \A i \in 1..Len(os) : t[i] = os[i]
  BY AppendProperties, LenProperties DEF t
<1>2. ASSUME NEW i \in 1..Len(t) PROVE PrevHash(t, i) = PrevHash(os, i)
  <2>1. i # 1 => i - 1 \in 1..Len(os)
    BY <1>1
  <2>. QED
    BY <1>1, <2>1 DEF PrevHash
<1>3. Chained(t)
  <2>1. ASSUME NEW i \in 1..Len(os)
        PROVE  /\ t[i].seq = i - 1 /\ t[i].prev_hash = PrevHash(t, i)
               /\ t[i].hash = Hash(t[i].prev_hash, Body(t[i]))
    BY <1>1, <1>2 DEF GoodLog, Chained
  <2>2. PrevHash(t, Len(os) + 1) = HeadOf(os)
    BY <1>1, <1>2 DEF HeadOf
  <2>3. \A i \in 1..Len(t) : i \in 1..Len(os) \/ i = Len(os) + 1
    BY <1>1
  <2>. QED
    BY <1>1, <2>1, <2>2, <2>3 DEF Chained
<1>4. Ascending(t)
  <2>. SUFFICES ASSUME NEW i \in 1..Len(t), NEW j \in 1..Len(t), i < j, t[i].client = t[j].client
                PROVE  t[i].nonce < t[j].nonce
    BY DEF Ascending
  <2>1. CASE j \in 1..Len(os)
    BY <1>1, <2>1 DEF GoodLog, Ascending
  <2>2. CASE j = Len(os) + 1
    BY <1>1, <2>2
  <2>. QED
    BY <1>1, <2>1, <2>2
<1>5. OneUse(t)
  <2>. SUFFICES ASSUME NEW i \in 1..Len(t), NEW j \in 1..Len(t),
                       t[i].idem = t[j].idem, t[i].idem \in IdemKeys
                PROVE  i = j
    BY DEF OneUse
  <2>1. CASE i \in 1..Len(os) /\ j \in 1..Len(os)
    BY <1>1, <2>1 DEF GoodLog, OneUse
  <2>2. CASE i = Len(os) + 1 \/ j = Len(os) + 1
    BY <1>1, <2>2
  <2>. QED
    BY <1>1, <2>1, <2>2
<1>6. HeadOf(t) = o.hash
  BY <1>1 DEF HeadOf, PrevHash
<1>. QED
  BY <1>3, <1>4, <1>5, <1>6 DEF GoodLog, t

\* A file records one op for each line.
LEMMA RecordedFacts ==
  ASSUME NEW f \in Seq(FileLines)
  PROVE  /\ Recorded(f) \in Seq(Ops) /\ Len(Recorded(f)) = Len(f)
         /\ \A i \in 1..Len(f) : Recorded(f)[i] = f[i].op
<1>1. Len(f) \in Nat /\ \A i \in 1..Len(f) : f[i] \in FileLines
  BY LenProperties, ElementOfSeq
<1>2. \A i \in 1..Len(f) : f[i].op \in Ops
  BY <1>1 DEF FileLines
<1>. QED
  BY <1>1, <1>2 DEF Recorded

\* Appending lines to a file appends their ops to what it records.
LEMMA RecordedConcat ==
  ASSUME NEW f \in Seq(FileLines), NEW os \in Seq(Ops)
  PROVE  Recorded(f \o Lines(os)) = Recorded(f) \o os
<1>. DEFINE g == f \o Lines(os)
            r == Recorded(f) \o os
<1>1. /\ g \in Seq(FileLines) /\ Len(g) = Len(f) + Len(os)
      /\ \A i \in 1..(Len(f) + Len(os)) :
           g[i] = IF i <= Len(f) THEN f[i] ELSE Lines(os)[i - Len(f)]
  <2>. DEFINE l == Lines(os)
  <2>1. l \in Seq(FileLines) /\ Len(l) = Len(os)
    BY LinesType
  <2>. HIDE DEF l
  <2>2. /\ f \o l \in Seq(FileLines) /\ Len(f \o l) = Len(f) + Len(l)
        /\ \A i \in 1..(Len(f) + Len(l)) : (f \o l)[i] = IF i <= Len(f) THEN f[i] ELSE l[i - Len(f)]
    BY <2>1, ConcatProperties
  <2>. QED
    BY <2>1, <2>2 DEF l
<1>2. /\ r \in Seq(Ops) /\ Len(r) = Len(f) + Len(os)
      /\ \A i \in 1..(Len(f) + Len(os)) :
           r[i] = IF i <= Len(f) THEN Recorded(f)[i] ELSE os[i - Len(f)]
  <2>. DEFINE l == Recorded(f)
  <2>1. l \in Seq(Ops) /\ Len(l) = Len(f)
    BY RecordedFacts
  <2>. HIDE DEF l
  <2>2. /\ l \o os \in Seq(Ops) /\ Len(l \o os) = Len(l) + Len(os)
        /\ \A i \in 1..(Len(l) + Len(os)) : (l \o os)[i] = IF i <= Len(l) THEN l[i] ELSE os[i - Len(l)]
    BY <2>1, ConcatProperties
  <2>. QED
    BY <2>1, <2>2 DEF l
<1>. HIDE DEF g, r
<1>3. Recorded(g) \in Seq(Ops) /\ Len(Recorded(g)) = Len(r)
  BY <1>1, <1>2, RecordedFacts
<1>4. ASSUME NEW i \in 1..Len(r) PROVE Recorded(g)[i] = r[i]
  <2>0. Len(f) \in Nat /\ Len(os) \in Nat
    BY LenProperties
  <2>1. Recorded(g)[i] = g[i].op
    BY <1>1, <1>2, RecordedFacts
  <2>2. CASE i <= Len(f)
    <3>1. g[i] = f[i] /\ r[i] = f[i].op
      BY <1>1, <1>2, <2>0, <2>2, RecordedFacts
    <3>. QED
      BY <2>1, <3>1
  <2>3. CASE ~ (i <= Len(f))
    <3>1. i - Len(f) \in 1..Len(os)
      BY <1>2, <2>0, <2>3
    <3>2. g[i] = Line(os[i - Len(f)]) /\ r[i] = os[i - Len(f)]
      BY <1>1, <1>2, <2>3, <3>1, LinesType
    <3>. QED
      BY <2>1, <3>2 DEF Line
  <2>. QED
    BY <2>2, <2>3
<1>5. Recorded(g) = r
  BY <1>2, <1>3, <1>4, SeqEqual
<1>. QED
  BY <1>5 DEF g, r

\* Reading a file decodes the beginning of what it records: all of it when nothing
\* is corrupt, and exactly what self-repair leaves.
LEMMA DecodedFacts ==
  ASSUME NEW f \in Seq(FileLines)
  PROVE  /\ IsPrefixOf(Decoded(f), Recorded(f))
         /\ ~Corrupt(f) => Decoded(f) = Recorded(f)
         /\ Recorded(Repaired(f)) = Decoded(f)
<1>1. /\ Decoded(f) \in Seq(Ops) /\ Len(Decoded(f)) = Readable(f)
      /\ \A i \in 1..Readable(f) : Decoded(f)[i] = f[i].op
  BY DecodedType
<1>2. Readable(f) \in 0..Len(f) /\ Len(f) \in Nat
  BY ReadableType, LenProperties
<1>3. /\ Recorded(f) \in Seq(Ops) /\ Len(Recorded(f)) = Len(f)
      /\ \A i \in 1..Len(f) : Recorded(f)[i] = f[i].op
  BY RecordedFacts
<1>4. IsPrefixOf(Decoded(f), Recorded(f))
  BY <1>1, <1>2, <1>3 DEF IsPrefixOf
<1>5. ASSUME ~Corrupt(f) PROVE Decoded(f) = Recorded(f)
  <2>1. Readable(f) = Len(f)
    BY <1>2, <1>5 DEF Corrupt
  <2>. QED
    BY <1>1, <1>3, <2>1, SeqEqual
<1>6. CASE Corrupt(f)
  <2>1. /\ << >> \in Seq(FileLines) /\ Lines(Decoded(f)) \in Seq(FileLines)
        /\ << >> \o Lines(Decoded(f)) = Lines(Decoded(f))
    BY <1>1, EmptySeq, LinesType, ConcatEmptySeq
  <2>2. Recorded(<< >>) = << >>
    <3>1. << >> \in Seq(Ops) /\ Recorded(<< >>) \in Seq(Ops) /\ Len(Recorded(<< >>)) = 0
      BY <2>1, EmptySeq, RecordedFacts
    <3>. QED
      BY <3>1, EmptySeq
  <2>3. Recorded(Lines(Decoded(f))) = << >> \o Decoded(f)
    BY <1>1, <2>1, <2>2, RecordedConcat
  <2>4. << >> \o Decoded(f) = Decoded(f)
    BY <1>1, ConcatEmptySeq
  <2>. QED
    BY <1>4, <1>6, <2>3, <2>4 DEF Repaired
<1>7. CASE ~Corrupt(f)
  BY <1>4, <1>5, <1>7 DEF Repaired
<1>. QED
  BY <1>6, <1>7, <1>5, <1>4

\* load() of a good log leaves tables that agree with it.
LEMMA LoadedTables ==
  ASSUME NEW os \in Seq(Ops), GoodLog(os)
  PROVE  /\ \A i \in 1..Len(os) : os[i].nonce <= LastNonces(os)[os[i].client]
         /\ \A k \in IdemKeys :
              LET uses == {i \in 1..Len(os) : os[i].idem = k}
              IN  IF IdemMap(os)[k] = NoSeq THEN uses = {} ELSE uses = {IdemMap(os)[k] + 1}
<1>1. Len(os) \in Nat /\ \A i \in 1..Len(os) : os[i] \in Ops
  BY LenProperties, ElementOfSeq
<1>2. \A i \in 1..Len(os) : os[i].nonce \in Nat /\ os[i].client \in Clients
  BY <1>1 DEF Ops
<1>3. \A i \in 1..Len(os) : os[i].nonce <= LastNonces(os)[os[i].client]
  BY <1>1, <1>2, LastNoncesFacts
<1>4. ASSUME NEW k \in IdemKeys
      PROVE  LET uses == {i \in 1..Len(os) : os[i].idem = k}
             IN  IF IdemMap(os)[k] = NoSeq THEN uses = {} ELSE uses = {IdemMap(os)[k] + 1}
  <2>. DEFINE uses == {i \in 1..Len(os) : os[i].idem = k}
              m    == Min(uses)
  <2>1. IdemMap(os)[k] = IF uses = {} THEN NoSeq ELSE os[m].seq
    BY DEF IdemMap
  <2>2. CASE uses = {}
    BY <2>1, <2>2
  <2>3. CASE uses # {}
    <3>1. m \in uses
      <4>1. uses \subseteq Nat
        OBVIOUS
      <4>. HIDE DEF uses
      <4>. QED
        BY <2>3, <4>1, MinOfNaturals
    <3>. HIDE DEF m
    <3>2. m \in 1..Len(os) /\ os[m].idem = k
      BY <3>1
    <3>3. uses = {m}
      BY <3>2 DEF GoodLog, OneUse
    <3>4. os[m].seq = m - 1 /\ m - 1 # NoSeq /\ (m - 1) + 1 = m
      BY <3>2, <1>1 DEF GoodLog, Chained, NoSeq
    <3>. QED
      BY <2>1, <2>3, <3>3, <3>4
  <2>. QED
    BY <2>2, <2>3
<1>. QED
  BY <1>3, <1>4

\* A chain that verifies is left alone by _self_heal_if_needed.
LEMMA NothingToHeal ==
  ASSUME NEW os, GoodLog(os)
  PROVE  Verify(os) /\ SelfHeal(os) = os
BY DEF GoodLog, Chained, Verify, SelfHeal

-----------------------------------------------------------------------------
(* The inductive invariant.  While a database is open or being opened its   *)
(* log is what the lines of the file were written from followed by what is  *)
(* buffered, good in memory and on disk, and the tables agree with it.      *)
(* Self-heal finds nothing to do.                                           *)

FileHoldsLog ==
  /\ mode # "healed"
  /\ GoodLog(ops) /\ GoodLog(Recorded(aof))
  /\ mode \in {"open", "replaying", "healed"} => ops = Recorded(aof) \o page
  /\ mode # "open" => page = << >>

TablesAgree ==
  /\ head = HeadOf(ops)
  /\ \A i \in 1..Len(ops) : ops[i].nonce <= last_nonce[ops[i].client]
  /\ Idempotent

LogInv == FileHoldsLog /\ TablesAgree

\* Such a log is never re-linked.
LEMMA NeverHealed ==
  ASSUME LogInv
  PROVE  SelfHeal(ops) = ops /\ ~Heal /\ ~DropSnapshot
<1>1. SelfHeal(ops) = ops /\ mode # "healed"
  BY NothingToHeal DEF LogInv, FileHoldsLog
<1>. QED
  BY <1>1 DEF Heal, DropSnapshot

\* The empty log is good and its tables are empty.
LEMMA EmptyLog ==
  /\ GoodLog(<< >>) /\ Recorded(<< >>) = << >> /\ HeadOf(<< >>) = GENESIS
  /\ \A k \in IdemKeys : IdemMap(<< >>)[k] = NoSeq
<1>1. << >> \in Seq(Ops) /\ << >> \in Seq(FileLines) /\ Len(<< >>) = 0
  BY EmptySeq
<1>2. GoodLog(<< >>)
  BY <1>1 DEF GoodLog, Chained, Ascending, OneUse
<1>3. Recorded(<< >>) = << >>
  <2>1. Recorded(<< >>) \in Seq(Ops) /\ Len(Recorded(<< >>)) = 0
    BY <1>1, RecordedFacts
  <2>. QED
    BY <2>1, EmptySeq
<1>4. HeadOf(<< >>) = GENESIS
  BY <1>1 DEF HeadOf, PrevHash
<1>5. \A k \in IdemKeys : IdemMap(<< >>)[k] = NoSeq
  BY <1>1 DEF IdemMap
<1>. QED
  BY <1>2, <1>3, <1>4, <1>5

\* The engine starts with nothing in memory and nothing on disk.
LEMMA InitLog == Init => LogInv
<1>. SUFFICES ASSUME Init PROVE LogInv
  OBVIOUS
<1>1. /\ ops = << >> /\ page = << >> /\ aof = << >> /\ mode = "closed"
      /\ head = GENESIS /\ idem = IdemMap(<< >>)
  BY DEF Init
<1>2. Len(ops) = 0
  BY <1>1, EmptySeq
<1>3. Idempotent
  BY <1>1, <1>2, EmptyLog DEF Idempotent
<1>. QED
  BY <1>1, <1>2, <1>3, EmptyLog DEF LogInv, FileHoldsLog, TablesAgree

\* _log_append of a call keeps the invariant: the op continues the chain, its nonce
\* is new for the client, its idempotency key is on no other op.
LEMMA CallLog ==
  ASSUME Unserialisable = {}, TypeInv, LogInv, Idle,
         NEW c \in Clients, NEW n \in Nat, NEW p \in Payloads, NEW causes \in SUBSET Nat,
         NEW k \in IdemKeys \cup {NoIdem}, NEW next,
         LogAppend(c, n, p, causes, k, next), UNCHANGED <<mode, aof>>
  PROVE  LogInv'
<1>1. CASE NotAppended(c, n, k)
  BY <1>1 DEF NotAppended, LogInv, FileHoldsLog, TablesAgree, Idempotent
<1>2. CASE Appended(c, n, p, causes, k, next)
  <2>. DEFINE o == NewOp(ops, head, c, n, p, causes, k)
  <2>1. /\ ops \in Seq(Ops) /\ head = HeadOf(ops) /\ Len(ops) \in Nat /\ page \in Seq(Ops)
        /\ last_nonce \in [Clients -> Nat] /\ aof \in Seq(FileLines) /\ head \in Seq(Bodies)
    BY LenProperties DEF TypeInv, TypeOK, LogInv, TablesAgree
  <2>2. \A i \in 1..Len(ops) : ops[i] \in Ops
    BY <2>1, ElementOfSeq
  <2>3. \A i \in 1..Len(ops) : ops[i].nonce \in Nat /\ ops[i].client \in Clients
    BY <2>2 DEF Ops
  <2>4. \A i \in 1..Len(ops) : ops[i].client = c => ops[i].nonce < n
    BY <1>2, <2>1, <2>3 DEF Appended, Accepted, NewOp, Stale, LogInv, TablesAgree
  <2>5. k \in IdemKeys => idem[k] = NoSeq /\ \A i \in 1..Len(ops) : ops[i].idem # k
    <3>1. ASSUME k \in IdemKeys PROVE idem[k] = NoSeq
      BY <1>2, <3>1, NoIdemAssumption DEF Appended, Accepted, Known
    <3>2. ASSUME k \in IdemKeys PROVE {i \in 1..Len(ops) : ops[i].idem = k} = {}
      BY <3>1, <3>2 DEF LogInv, TablesAgree, Idempotent
    <3>. QED
      BY <3>1, <3>2
  <2>6. GoodLog(ops) /\ GoodLog(Recorded(aof)) /\ ops = Recorded(aof) \o page /\ mode = "open"
    BY DEF LogInv, FileHoldsLog, Idle
  <2>7. o \in Ops
    BY <2>1, NewOpType
  <2>8. /\ o.seq = Len(ops) /\ o.client = c /\ o.nonce = n /\ o.idem = k
        /\ o.prev_hash = HeadOf(ops) /\ o.hash = Hash(o.prev_hash, Body(o))
    BY <2>1 DEF NewOp, Body
  <2>9. /\ ops' = Append(ops, o) /\ page' = Append(page, o) /\ head' = o.hash
        /\ last_nonce' = [last_nonce EXCEPT ![c] = n]
        /\ idem' = IF k = NoIdem THEN idem ELSE [idem EXCEPT ![k] = o.seq]
    BY <1>2, <2>8 DEF Appended, Accepted
  <2>. HIDE DEF o
  <2>10. GoodLog(ops') /\ HeadOf(ops') = o.hash
    <3>1. /\ \A i \in 1..Len(ops) : ops[i].client = o.client => ops[i].nonce < o.nonce
          /\ o.idem \in IdemKeys => \A i \in 1..Len(ops) : ops[i].idem # o.idem
      BY <2>4, <2>5, <2>8
    <3>2. GoodLog(Append(ops, o)) /\ HeadOf(Append(ops, o)) = o.hash
      BY <2>1, <2>6, <2>7, <2>8, <3>1, GoodAppend
    <3>. QED
      BY <2>9, <3>2
  <2>11. ops' = Recorded(aof) \o page'
    <3>. DEFINE r == Recorded(aof)
    <3>1. r \in Seq(Ops)
      BY <2>1, RecordedFacts
    <3>. HIDE DEF r
    <3>2. Append(r \o page, o) = r \o Append(page, o)
      <4>1. <<o>> \in Seq(Ops) /\ r \o page \in Seq(Ops)
        BY <2>1, <2>7, <3>1, ConcatProperties
      <4>2. Append(r \o page, o) = (r \o page) \o <<o>> /\ Append(page, o) = page \o <<o>>
        BY <2>1, <2>7, <4>1, AppendIsConcat
      <4>3. page \in Seq(Ops)
        BY <2>1
      <4>4. (r \o page) \o <<o>> = r \o (page \o <<o>>)
        BY <3>1, <4>1, <4>3, ConcatAssociative
      <4>. QED
        BY <4>2, <4>4
    <3>. QED
      BY <2>6, <2>9, <3>2 DEF r
  <2>12. /\ Len(ops') = Len(ops) + 1 /\ ops'[Len(ops) + 1] = o
         /\ \A i \in 1..Len(ops) : ops'[i] = ops[i]
    BY <2>1, <2>7, <2>9, AppendProperties
  <2>13. ASSUME NEW i \in 1..Len(ops') PROVE ops'[i].nonce <= last_nonce'[ops'[i].client]
    <3>1. CASE i = Len(ops) + 1
      BY <2>1, <2>8, <2>9, <2>12, <3>1
    <3>2. CASE i \in 1..Len(ops)
      <4>1. ops[i].nonce <= last_nonce[ops[i].client]
        BY <3>2 DEF LogInv, TablesAgree
      <4>2. CASE ops[i].client = c
        <5>1. last_nonce'[c] = n /\ ops'[i] = ops[i] /\ ops[i].nonce < n /\ ops[i].nonce \in Nat
          BY <2>1, <2>3, <2>4, <2>9, <2>12, <3>2, <4>2
        <5>. QED
          BY <4>2, <5>1
      <4>3. CASE ops[i].client # c
        BY <2>1, <2>3, <2>9, <2>12, <3>2, <4>1, <4>3
      <4>. QED
        BY <4>2, <4>3
    <3>. QED
      BY <2>1, <2>12, <3>1, <3>2
  <2>14. Idempotent'
    <3>. SUFFICES ASSUME NEW x \in IdemKeys
                  PROVE  LET uses == {i \in 1..Len(ops') : ops'[i].idem = x}
                         IN  IF idem'[x] = NoSeq THEN uses = {} ELSE uses = {idem'[x] + 1}
      BY DEF Idempotent
    <3>. DEFINE uses == {i \in 1..Len(ops) : ops[i].idem = x}
    <3>1. IF idem[x] = NoSeq THEN uses = {} ELSE uses = {idem[x] + 1}
      BY DEF LogInv, TablesAgree, Idempotent
    <3>2. CASE x = k
      <4>1. idem'[x] = Len(ops) /\ Len(ops) # NoSeq
        BY <2>1, <2>8, <2>9, <3>2, NoIdemAssumption DEF TypeInv, TypeOK, NoSeq
      <4>2. {i \in 1..Len(ops') : ops'[i].idem = x} = {Len(ops) + 1}
        <5>1. k \in IdemKeys /\ \A i \in 1..Len(ops) : ops'[i].idem # x
          BY <2>5, <2>12, <3>2
        <5>2. ops'[Len(ops) + 1].idem = x /\ 1..Len(ops') = 1..Len(ops) \cup {Len(ops) + 1}
          BY <2>1, <2>8, <2>12, <3>2
        <5>. QED
          BY <5>1, <5>2
      <4>. QED
        BY <4>1, <4>2
    <3>3. CASE x # k
      <4>1. idem'[x] = idem[x]
        BY <2>9, <3>3 DEF TypeInv, TypeOK
      <4>2. {i \in 1..Len(ops') : ops'[i].idem = x} = uses
        BY <2>1, <2>8, <2>12, <3>3
      <4>. QED
        BY <3>1, <4>1, <4>2
    <3>. QED
      BY <3>2, <3>3
  <2>. QED
    BY <2>6, <2>9, <2>10, <2>11, <2>13, <2>14 DEF LogInv, FileHoldsLog, TablesAgree
<1>. QED
  BY <1>1, <1>2 DEF LogAppend, Unwritten

\* Writing the page to the file and syncing it keeps the invariant.
LEMMA FlushLog ==
  ASSUME TypeInv, LogInv, mode = "open", aof' = Flushed, page' = << >>,
         UNCHANGED <<mode, ops, head, last_nonce, idem>>
  PROVE  LogInv'
<1>1. aof \in Seq(FileLines) /\ page \in Seq(Ops) /\ ops \in Seq(Ops)
  BY DEF TypeInv, TypeOK
<1>2. Recorded(Flushed) = Recorded(aof) \o page
  BY <1>1, RecordedConcat DEF Flushed
<1>3. Recorded(aof') = ops /\ ops \o << >> = ops
  BY <1>1, <1>2, ConcatEmptySeq DEF LogInv, FileHoldsLog
<1>. QED
  BY <1>3 DEF LogInv, FileHoldsLog, TablesAgree, Idempotent

\* A process that forgets its database while the file keeps a good log.
LEMMA ForgetLog ==
  ASSUME Forget, mode' \in {"closed", "failed"}, GoodLog(Recorded(aof'))
  PROVE  LogInv'
<1>1. /\ ops' = << >> /\ page' = << >> /\ head' = GENESIS /\ idem' = IdemMap(<< >>)
      /\ Len(ops') = 0
  BY EmptySeq DEF Forget
<1>2. Idempotent'
  BY <1>1, EmptyLog DEF Idempotent
<1>. QED
  BY <1>1, <1>2, EmptyLog DEF LogInv, FileHoldsLog, TablesAgree

\* Writing a beginning of the page gives a beginning of the log.
LEMMA PartWritten ==
  ASSUME NEW r \in Seq(Ops), NEW p \in Seq(Ops), NEW n \in 0..Len(p)
  PROVE  /\ SubSeq(p, 1, n) \in Seq(Ops) /\ r \o SubSeq(p, 1, n) \in Seq(Ops)
         /\ IsPrefixOf(r, r \o SubSeq(p, 1, n)) /\ IsPrefixOf(r \o SubSeq(p, 1, n), r \o p)
<1>. DEFINE part == SubSeq(p, 1, n)
            x == r \o part
            y == r \o p
<1>1. /\ Len(p) \in Nat /\ Len(r) \in Nat /\ n \in Nat /\ n <= Len(p)
      /\ \A i \in 1..n : p[i] \in Ops
  BY LenProperties, ElementOfSeq
<1>2. part \in Seq(Ops) /\ Len(part) = n /\ \A i \in 1..n : part[i] = p[i]
  BY <1>1, SubSeqProperties
<1>. HIDE DEF part
<1>3. /\ x \in Seq(Ops) /\ Len(x) = Len(r) + n
      /\ \A i \in 1..(Len(r) + n) : x[i] = IF i <= Len(r) THEN r[i] ELSE part[i - Len(r)]
  BY <1>2, ConcatProperties
<1>4. /\ y \in Seq(Ops) /\ Len(y) = Len(r) + Len(p)
      /\ \A i \in 1..(Len(r) + Len(p)) : y[i] = IF i <= Len(r) THEN r[i] ELSE p[i - Len(r)]
  BY ConcatProperties
<1>. HIDE DEF x, y
<1>5. IsPrefixOf(r, x)
  BY <1>1, <1>3 DEF IsPrefixOf
<1>6. ASSUME NEW i \in 1..Len(x) PROVE x[i] = y[i]
  <2>1. i \in 1..(Len(r) + n) /\ i \in 1..(Len(r) + Len(p))
    BY <1>1, <1>3
  <2>2. CASE i <= Len(r)
    BY <1>3, <1>4, <2>1, <2>2
  <2>3. CASE ~ (i <= Len(r))
    <3>1. i - Len(r) \in 1..n
      BY <1>1, <2>1, <2>3
    <3>2. x[i] = part[i - Len(r)] /\ y[i] = p[i - Len(r)]
      BY <1>3, <1>4, <2>1, <2>3
    <3>. QED
      BY <1>2, <3>1, <3>2
  <2>. QED
    BY <2>2, <2>3
<1>7. IsPrefixOf(x, y)
  BY <1>1, <1>3, <1>4, <1>6 DEF IsPrefixOf
<1>. QED
  BY <1>2, <1>3, <1>5, <1>7 DEF part, x, y

\* A line more in the file is an op more in what it records.
LEMMA RecordedAppend ==
  ASSUME NEW f \in Seq(FileLines), NEW l \in FileLines
  PROVE  /\ f \o <<l>> \in Seq(FileLines) /\ Recorded(f \o <<l>>) = Recorded(f) \o <<l.op>>
<1>. DEFINE g == Append(f, l)
            r == Append(Recorded(f), l.op)
<1>1. /\ Recorded(f) \in Seq(Ops) /\ Len(Recorded(f)) = Len(f) /\ Len(f) \in Nat /\ l.op \in Ops
      /\ \A i \in 1..Len(f) : Recorded(f)[i] = f[i].op
  BY RecordedFacts, LenProperties DEF FileLines
<1>2. /\ g \in Seq(FileLines) /\ Len(g) = Len(f) + 1 /\ g[Len(f) + 1] = l
      /\ \A i \in 1..Len(f) : g[i] = f[i]
  BY AppendProperties
<1>3. /\ r \in Seq(Ops) /\ Len(r) = Len(f) + 1 /\ r[Len(f) + 1] = l.op
      /\ \A i \in 1..Len(f) : r[i] = Recorded(f)[i]
  <2>. DEFINE q == Recorded(f)
  <2>. HIDE DEF q
  <2>1. q \in Seq(Ops) /\ Len(q) = Len(f)
    BY <1>1 DEF q
  <2>2. /\ Append(q, l.op) \in Seq(Ops) /\ Len(Append(q, l.op)) = Len(q) + 1
        /\ Append(q, l.op)[Len(q) + 1] = l.op /\ \A i \in 1..Len(q) : Append(q, l.op)[i] = q[i]
    BY <1>1, <2>1, AppendProperties
  <2>. QED
    BY <2>1, <2>2 DEF q
<1>4. f \o <<l>> = g /\ Recorded(f) \o <<l.op>> = r
  BY <1>1, AppendIsConcat
<1>. HIDE DEF g, r
<1>5. /\ Recorded(g) \in Seq(Ops) /\ Len(Recorded(g)) = Len(f) + 1
      /\ \A i \in 1..(Len(f) + 1) : Recorded(g)[i] = g[i].op
  BY <1>2, RecordedFacts
<1>6. ASSUME NEW i \in 1..(Len(f) + 1) PROVE Recorded(g)[i] = r[i]
  <2>1. CASE i \in 1..Len(f)
    BY <1>1, <1>2, <1>3, <1>5, <2>1
  <2>2. CASE i = Len(f) + 1
    BY <1>1, <1>2, <1>3, <1>5, <2>2
  <2>. QED
    BY <1>1, <2>1, <2>2
<1>7. Recorded(g) = r
  BY <1>3, <1>5, <1>6, SeqEqual
<1>. QED
  BY <1>2, <1>4, <1>7

\* Ops appended one part after the other.
LEMMA OpsConcatAssociative ==
  ASSUME NEW a \in Seq(Ops), NEW b \in Seq(Ops), NEW c \in Seq(Ops)
  PROVE  (a \o b) \o c = a \o (b \o c)
BY ConcatAssociative

\* A crash leaves a file that records a beginning of the log, and all that it
\* recorded before.
LEMMA CrashRecords ==
  ASSUME TypeInv, LogInv, Crash
  PROVE  IsPrefixOf(Recorded(aof), Recorded(aof')) /\ IsPrefixOf(Recorded(aof'), ops)
<1>1. PICK n \in 0..Len(page) :
        \/ aof' = aof \o Lines(SubSeq(page, 1, n))
        \/ /\ n < Len(page)
           /\ \E end \in Ends :
                aof' = aof \o Lines(SubSeq(page, 1, n)) \o << [op |-> page[n + 1], end |-> end] >>
  BY DEF Crash
<1>2. /\ aof \in Seq(FileLines) /\ page \in Seq(Ops) /\ Len(page) \in Nat
      /\ \A i \in 1..Len(page) : page[i] \in Ops
  BY LenProperties, ElementOfSeq DEF TypeInv, TypeOK
<1>. DEFINE r == Recorded(aof)
<1>3. r \in Seq(Ops) /\ ops = r \o page
  BY <1>2, RecordedFacts DEF LogInv, FileHoldsLog, Crash
<1>4. \E m \in 0..Len(page) : Recorded(aof') = r \o SubSeq(page, 1, m)
  <2>. DEFINE part == SubSeq(page, 1, n)
              whole == aof \o Lines(part)
  <2>1. part \in Seq(Ops)
    BY <1>2, <1>3, PartWritten
  <2>. HIDE DEF part
  <2>2. Recorded(whole) = r \o part
    BY <1>2, <2>1, RecordedConcat
  <2>3. whole \in Seq(FileLines)
    <3>1. Lines(part) \in Seq(FileLines)
      BY <2>1, LinesType
    <3>. QED
      BY <1>2, <3>1, ConcatProperties
  <2>. HIDE DEF whole
  <2>4. CASE aof' = whole
    BY <2>2, <2>4 DEF part
  <2>5. ASSUME n < Len(page), NEW end \in Ends,
               aof' = whole \o << [op |-> page[n + 1], end |-> end] >>
        PROVE  n + 1 \in 0..Len(page) /\ Recorded(aof') = r \o SubSeq(page, 1, n + 1)
    <3>. DEFINE cut == [op |-> page[n + 1], end |-> end]
    <3>1. cut \in FileLines /\ cut.op = page[n + 1] /\ page[n + 1] \in Ops
      BY <1>2, <2>5, EngineAssumption DEF FileLines
    <3>. HIDE DEF cut
    <3>2. aof' = whole \o <<cut>>
      BY <2>5 DEF cut
    <3>3. Recorded(aof') = (r \o part) \o <<page[n + 1]>>
      BY <2>2, <2>3, <3>1, <3>2, RecordedAppend
    <3>4. (r \o part) \o <<page[n + 1]>> = r \o (part \o <<page[n + 1]>>)
      <4>1. <<page[n + 1]>> \in Seq(Ops)
        BY <3>1
      <4>. HIDE DEF r
      <4>. QED
        BY <1>3, <2>1, <4>1, OpsConcatAssociative
    <3>5. SubSeq(page, 1, n + 1) = part \o <<page[n + 1]>>
      <4>1. 1 \in 1..Len(page) /\ n + 1 \in 1..Len(page) /\ (n + 1) - 1 = n
        BY <1>2, <2>5
      <4>. QED
        BY <1>2, <4>1, SubSeqRecursiveSecond DEF part
    <3>6. n + 1 \in 0..Len(page)
      BY <1>2, <2>5
    <3>. QED
      BY <3>3, <3>4, <3>5, <3>6, Zenon
  <2>. QED
    BY <1>1, <2>4, <2>5 DEF whole, part
<1>. HIDE DEF r
<1>. QED
  BY <1>2, <1>3, <1>4, PartWritten DEF r

\* Opening: load() of what the file records.
LEMMA OpenLog ==
  ASSUME TypeInv, LogInv, mode # "open", mode' = "replaying", page' = page, LoadLog(Decoded(aof)),
         Recorded(aof') = Decoded(aof)
  PROVE  LogInv'
<1>. DEFINE os == Decoded(aof)
<1>1. os \in Seq(Ops) /\ GoodLog(os)
  <2>1. aof \in Seq(FileLines)
    BY DEF TypeInv, TypeOK
  <2>2. os \in Seq(Ops) /\ Recorded(aof) \in Seq(Ops) /\ IsPrefixOf(os, Recorded(aof))
    BY <2>1, DecodedType, DecodedFacts, RecordedFacts
  <2>. QED
    BY <2>2, GoodPrefix DEF LogInv, FileHoldsLog
<1>. HIDE DEF os
<1>2. /\ ops' = os /\ head' = HeadOf(os) /\ last_nonce' = LastNonces(os) /\ idem' = IdemMap(os)
      /\ Recorded(aof') = os
  BY DEF LoadLog, os
<1>3. page' = << >> /\ os \o << >> = os
  BY <1>1, ConcatEmptySeq DEF LogInv, FileHoldsLog
<1>4. /\ \A i \in 1..Len(os) : os[i].nonce <= LastNonces(os)[os[i].client]
      /\ \A k \in IdemKeys :
           LET uses == {i \in 1..Len(os) : os[i].idem = k}
           IN  IF IdemMap(os)[k] = NoSeq THEN uses = {} ELSE uses = {IdemMap(os)[k] + 1}
  BY <1>1, LoadedTables
<1>5. Idempotent'
  BY <1>2, <1>4 DEF Idempotent
<1>. QED
  BY <1>1, <1>2, <1>3, <1>4, <1>5 DEF LogInv, FileHoldsLog, TablesAgree

\* Every step of the engine keeps the log good, in memory and on disk.
LEMMA NextLog ==
  ASSUME Unserialisable = {}, TypeInv, LogInv, [Next]_vars
  PROVE  LogInv'
<1>1. ASSUME NEW p \in Payloads, NEW causes \in SUBSET Nat, NEW k \in IdemKeys \cup {NoIdem},
             Mutate(p, causes, k)
      PROVE  LogInv'
  <2>1. PICK c \in Users, n \in 1..MaxNonce :
          /\ Idle /\ LogAppend(c, n, p, causes, k, "idle")
          /\ UNCHANGED <<mode, indexed, others, pos, aof, snap, meta, promised, glued>>
    BY <1>1 DEF Mutate
  <2>2. c \in Clients /\ n \in Nat
    BY EngineAssumption
  <2>. QED
    BY <2>1, <2>2, CallLog
<1>2. ASSUME NEW key \in Keys, NEW doc \in Docs, NEW causes \in Causes,
             NEW k \in IdemKeys \cup {NoIdem}, Put(key, doc, causes, k)
      PROVE  LogInv'
  <2>1. Payload("put", key, doc) \in Payloads /\ causes \in SUBSET Nat
    BY EngineAssumption DEF Payload, Payloads
  <2>. QED
    BY <1>1, <1>2, <2>1 DEF Put
<1>3. ASSUME NEW key \in Keys, NEW k \in IdemKeys \cup {NoIdem}, Delete(key, k)
      PROVE  LogInv'
  <2>1. Payload("delete", key, NIL) \in Payloads
    BY DEF Payload, Payloads
  <2>. QED
    BY <1>1, <1>3, <2>1 DEF Delete
<1>4. ASSUME NEW e \in Edges, Link(e) \/ Unlink(e)
      PROVE  LogInv'
  <2>1. Payload("link", e, NIL) \in Payloads /\ Payload("unlink", e, NIL) \in Payloads
    BY DEF Payload, Payloads
  <2>. QED
    BY <1>1, <1>4, <2>1 DEF Link, Unlink
<1>5. ASSUME NEW f \in Files, NEW k \in IdemKeys \cup {NoIdem}, PutFile(f, k)
      PROVE  LogInv'
  <2>1. Payload("put_file", f, blobs[f]) \in Payloads
    BY DEF Payload, Payloads, TypeInv, TypeOK
  <2>. QED
    BY <1>1, <1>5, <2>1 DEF PutFile
<1>6. ASSUME NEW key \in Keys, Expire(key)
      PROVE  LogInv'
  <2>1. /\ Payload("delete", key, NIL) \in Payloads
        /\ TTL \in Clients /\ nonce[TTL] + 1 \in Nat
    BY EngineAssumption DEF Payload, Payloads, TypeInv, TypeOK
  <2>2. PICK next \in {"idle", "meta"} :
           LogAppend(TTL, nonce[TTL] + 1, Payload("delete", key, NIL), {}, NoIdem, next)
    BY <1>6 DEF Expire
  <2>3. Idle /\ UNCHANGED <<mode, aof>>
    BY <1>6 DEF Expire
  <2>. QED
    BY <2>1, <2>2, <2>3, CallLog
<1>7. ASSUME Checkpoint
      PROVE  LogInv'
  <2>1. Payload("checkpoint", NIL, NIL) \in Payloads /\ SNAPSHOT \in Clients /\ Clock \subseteq Nat
    BY EngineAssumption DEF Payload, Payloads
  <2>2. PICK now \in Clock :
           LogAppend(SNAPSHOT, now, Payload("checkpoint", NIL, NIL), {}, NoIdem, "snapshot")
    BY <1>7 DEF Checkpoint
  <2>3. Idle /\ UNCHANGED <<mode, aof>>
    BY <1>7 DEF Checkpoint
  <2>. QED
    BY <2>1, <2>2, <2>3, CallLog
<1>8. ASSUME Fsync \/ SnapshotFlush \/ Flush
      PROVE  LogInv'
  <2>1. /\ mode = "open" /\ aof' = Flushed /\ page' = << >>
        /\ UNCHANGED <<mode, ops, head, last_nonce, idem>>
    BY <1>8 DEF Fsync, SnapshotFlush, Flush, Idle, log
  <2>. QED
    BY <2>1, FlushLog
<1>9. ASSUME UNCHANGED <<mode, log, aof, page>>
      PROVE  LogInv'
  BY <1>9 DEF log, LogInv, FileHoldsLog, TablesAgree, Idempotent
<1>10. ASSUME FsyncFails \/ SnapshotRename \/ Indexing \/ MetaTruncate \/ MetaWrite \/ Replay
              \/ UNCHANGED vars
       PROVE  LogInv'
  <2>1. UNCHANGED <<mode, log, aof, page>>
    BY <1>10 DEF FsyncFails, SnapshotRename, Indexing, CreateIndex, CreateUnknownIndex, MetaTruncate, MetaWrite, Replay,
                 vars, log, mat, disk
  <2>. QED
    BY <1>9, <2>1
<1>11. ASSUME Close
       PROVE  LogInv'
  <2>1. Recorded(aof') = Recorded(aof) \o page
    <3>1. aof \in Seq(FileLines) /\ page \in Seq(Ops)
      BY DEF TypeInv, TypeOK
    <3>. QED
      BY <1>11, <3>1, RecordedConcat DEF Close, Flushed
  <2>2. GoodLog(Recorded(aof'))
    BY <1>11, <2>1 DEF Close, Idle, LogInv, FileHoldsLog
  <2>. QED
    BY <1>11, <2>2, ForgetLog DEF Close
<1>12. ASSUME Crash
       PROVE  LogInv'
  <2>1. IsPrefixOf(Recorded(aof'), ops)
    BY <1>12, CrashRecords
  <2>2. ops \in Seq(Ops) /\ GoodLog(ops)
    BY DEF TypeInv, TypeOK, LogInv, FileHoldsLog
  <2>3. Recorded(aof') \in Seq(Ops)
    <3>1. TypeOK'
      BY NextType DEF TypeInv
    <3>. QED
      BY <3>1, RecordedFacts DEF TypeOK
  <2>4. GoodLog(Recorded(aof'))
    BY <2>1, <2>2, <2>3, GoodPrefix
  <2>. QED
    BY <1>12, <2>4, ForgetLog DEF Crash
<1>13. ASSUME OpenFull
       PROVE  LogInv'
  <2>1. Recorded(aof') = Decoded(aof)
    BY <1>13, DecodedFacts DEF OpenFull, TypeInv, TypeOK
  <2>. QED
    BY <1>13, <2>1, OpenLog DEF OpenFull
<1>14. ASSUME OpenSnapshot
       PROVE  LogInv'
  <2>1. /\ mode # "open" /\ mode' = "replaying" /\ page' = page /\ aof' = aof
        /\ ~Corrupt(aof) /\ LoadLog(Decoded(aof))
    BY <1>14 DEF OpenSnapshot, disk
  <2>2. Recorded(aof') = Decoded(aof)
    BY <2>1, DecodedFacts DEF TypeInv, TypeOK
  <2>. QED
    BY <2>1, <2>2, OpenLog
<1>15. ASSUME OpenFails
       PROVE  LogInv'
  BY <1>15 DEF OpenFails, log, mat, disk, LogInv, FileHoldsLog, TablesAgree, Idempotent
<1>16. ASSUME ReplayRaises
       PROVE  LogInv'
  BY <1>16, ForgetLog DEF ReplayRaises, LogInv, FileHoldsLog
<1>17. ASSUME FinishOpen
       PROVE  LogInv'
  <2>1. mode = "replaying" /\ mode' = "open" /\ UNCHANGED <<log, aof, page>>
    BY <1>17 DEF FinishOpen, disk
  <2>. QED
    BY <2>1 DEF log, LogInv, FileHoldsLog, TablesAgree, Idempotent
<1>. QED
  BY <1>2, <1>3, <1>4, <1>5, <1>6, <1>7, <1>8, <1>10, <1>11, <1>12, <1>13, <1>14, <1>15, <1>16,
     <1>17, NeverHealed DEF Next, Indexing

-----------------------------------------------------------------------------
(* The theorems that hold of every run of the engine.                       *)

\* In every reachable state the log is typed and good.
LEMMA LogInvariant ==
  ASSUME Unserialisable = {}
  PROVE  Spec => [](TypeInv /\ LogInv)
<1>1. TypeInv /\ LogInv /\ [Next]_vars => (TypeInv /\ LogInv)'
  BY NextType, NextLog
<1>. QED
  BY InitType, InitLog, <1>1, PTL DEF Spec

\* verify() holds of the log in memory and of the log a restart would read, at every
\* step of every call, crash, repair and reopen: the hash chain is never broken.
THEOREM ChainCorrect ==
  ASSUME Unserialisable = {}
  PROVE  Spec => []ChainVerifies
<1>1. TypeInv /\ LogInv => ChainVerifies
  <2>. SUFFICES ASSUME TypeInv, LogInv PROVE ChainVerifies
    OBVIOUS
  <2>1. /\ aof \in Seq(FileLines) /\ ops \in Seq(Ops)
        /\ GoodLog(ops) /\ GoodLog(Recorded(aof)) /\ head = HeadOf(ops)
    BY DEF TypeInv, TypeOK, LogInv, FileHoldsLog, TablesAgree
  <2>2. GoodLog(Decoded(aof))
    BY <2>1, DecodedType, DecodedFacts, RecordedFacts, GoodPrefix
  <2>3. Verify(ops) /\ Verify(Decoded(aof))
    BY <2>1, <2>2, NothingToHeal
  <2>. QED
    BY <2>1, <2>3 DEF ChainVerifies, GoodLog, Chained
<1>. QED
  BY LogInvariant, <1>1, PTL

\* No (client, nonce) pair is accepted twice, whatever is reloaded in between.
THEOREM ReplayRefused ==
  ASSUME Unserialisable = {}
  PROVE  Spec => []ReplayProtection
<1>1. LogInv => ReplayProtection
  BY DEF LogInv, FileHoldsLog, TablesAgree, GoodLog, Ascending, ReplayProtection
<1>. QED
  BY LogInvariant, <1>1, PTL

\* An idempotency key leads to the one op that carries it, also after a restart.
THEOREM IdempotencyKept ==
  ASSUME Unserialisable = {}
  PROVE  Spec => []Idempotent
<1>1. LogInv => Idempotent
  BY DEF LogInv, TablesAgree
<1>. QED
  BY LogInvariant, <1>1, PTL

-----------------------------------------------------------------------------
(* The file.  No line of it is torn while the database is open or being     *)
(* opened.  A line that a crash left without its newline decodes until one  *)
(* is written behind it, and what was promised stays up to such a line.     *)

Untorn(f) == \A i \in 1..Len(f) : f[i].end # "torn"

FileInv == (mode \in {"open", "replaying", "healed"} => Untorn(aof)) /\ Durable

-----------------------------------------------------------------------------
(* Lemmas on files.                                                         *)

\* What the file could give to a reader it still gives when lines are written behind
\* it, except for a last line without newline.
LEMMA StaysReadable ==
  ASSUME NEW f \in Seq(FileLines), NEW g \in Seq(FileLines), IsPrefixOf(f, g),
         NEW i \in 1..Readable(f), f[i].end = "nl" \/ \A b \in Glued(g) : i < b
  PROVE  i <= Readable(g) /\ g[i] = f[i]
<1>1. /\ Len(f) \in Nat /\ Len(g) \in Nat /\ Len(f) <= Len(g)
      /\ \A j \in 1..Len(f) : g[j] = f[j]
  BY LenProperties DEF IsPrefixOf
<1>2. Readable(f) \in 0..Len(f) /\ \A j \in 1..Readable(f) : Decodes(f, j)
  BY ReadableType
<1>3. ASSUME NEW j \in 1..i PROVE Decodes(g, j)
  <2>1. j \in 1..Len(f) /\ g[j] = f[j] /\ Decodes(f, j)
    BY <1>1, <1>2
  <2>2. CASE f[j].end = "nl"
    BY <2>1, <2>2 DEF Decodes
  <2>3. CASE f[j].end # "nl"
    <3>1. f[j].end = "bare" /\ j = Len(f)
      BY <2>1, <2>3 DEF Decodes
    <3>2. i = j /\ \A b \in Glued(g) : i < b
      BY <1>1, <1>2, <2>3, <3>1
    <3>3. j = Len(g)
      <4>1. j < Len(g) => j \in Glued(g)
        BY <1>1, <2>1, <3>1 DEF Glued
      <4>. QED
        BY <1>1, <2>1, <3>2, <4>1
    <3>. QED
      BY <2>1, <3>1, <3>3 DEF Decodes
  <2>. QED
    BY <2>2, <2>3
<1>4. i \in 0..Len(g) /\ i \in 1..Len(f)
  BY <1>1, <1>2
<1>5. i <= Readable(g)
  BY <1>3, <1>4, ReadableType
<1>. QED
  BY <1>1, <1>4, <1>5

\* A file with no torn line is read up to the first line that another one continues.
LEMMA UntornReads ==
  ASSUME NEW f \in Seq(FileLines), Untorn(f)
  PROVE  /\ \A i \in 1..Len(f) : (\A b \in Glued(f) : i < b) => i <= Readable(f)
         /\ Glued(f) = {} => ~Corrupt(f) /\ Decoded(f) = Recorded(f)
<1>1. Len(f) \in Nat /\ \A i \in 1..Len(f) : f[i] \in FileLines
  BY LenProperties, ElementOfSeq
<1>2. \A i \in 1..Len(f) : f[i].end = "nl" \/ f[i].end = "bare"
  BY <1>1 DEF Untorn, FileLines
<1>3. ASSUME NEW i \in 0..Len(f), \A b \in Glued(f) : i < b
      PROVE  i <= Readable(f)
  <2>1. ASSUME NEW j \in 1..i PROVE Decodes(f, j)
    <3>1. j \in 1..Len(f)
      BY <1>1
    <3>2. f[j].end = "bare" => j = Len(f)
      <4>1. f[j].end = "bare" /\ j < Len(f) => j \in Glued(f)
        BY <1>1, <3>1 DEF Glued
      <4>. QED
        BY <1>1, <1>3, <3>1, <4>1
    <3>. QED
      BY <1>2, <3>1, <3>2 DEF Decodes
  <2>. QED
    BY <2>1, ReadableType
<1>4. ASSUME Glued(f) = {} PROVE ~Corrupt(f) /\ Decoded(f) = Recorded(f)
  <2>1. Len(f) <= Readable(f)
    BY <1>1, <1>3, <1>4
  <2>2. ~Corrupt(f)
    BY <1>1, <2>1, ReadableType DEF Corrupt
  <2>. QED
    BY <2>2, DecodedFacts
<1>. QED
  BY <1>1, <1>3, <1>4

\* The lines _log_append writes end in a newline.
LEMMA WrittenLines ==
  ASSUME NEW os \in Seq(Ops)
  PROVE  /\ Lines(os) \in Seq(FileLines) /\ Len(Lines(os)) = Len(os)
         /\ \A i \in 1..Len(os) : Lines(os)[i].end = "nl" /\ Lines(os)[i].op = os[i]
<1>. DEFINE l == Lines(os)
<1>1. l \in Seq(FileLines) /\ Len(l) = Len(os) /\ \A i \in 1..Len(os) : l[i] = Line(os[i])
  BY LinesType
<1>. HIDE DEF l
<1>0. \A i \in 1..Len(os) : Line(os[i]).end = "nl" /\ Line(os[i]).op = os[i]
  BY DEF Line
<1>2. \A i \in 1..Len(os) : l[i].end = "nl" /\ l[i].op = os[i]
  BY <1>0, <1>1
<1>. QED
  BY <1>1, <1>2 DEF l

\* A file that a reader gets through has no torn line, and self-repair leaves such a
\* file with all that could be read.
LEMMA RepairedFile ==
  ASSUME NEW f \in Seq(FileLines)
  PROVE  /\ ~Corrupt(f) => Untorn(f)
         /\ Untorn(Repaired(f)) /\ ~Corrupt(Repaired(f))
         /\ \A i \in 1..Readable(f) : i <= Readable(Repaired(f)) /\ Repaired(f)[i].op = f[i].op
         /\ Decoded(Repaired(f)) = Decoded(f)
<1>1. Len(f) \in Nat /\ Readable(f) \in 0..Len(f) /\ \A i \in 1..Readable(f) : Decodes(f, i)
  BY LenProperties, ReadableType
<1>2. ASSUME ~Corrupt(f) PROVE Untorn(f)
  <2>1. Readable(f) = Len(f)
    BY <1>1, <1>2 DEF Corrupt
  <2>. QED
    BY <1>1, <2>1 DEF Untorn, Decodes
<1>3. CASE ~Corrupt(f)
  BY <1>1, <1>2, <1>3 DEF Repaired
<1>4. CASE Corrupt(f)
  <2>. DEFINE os == Decoded(f)
              l == Lines(os)
  <2>1. os \in Seq(Ops) /\ Len(os) = Readable(f) /\ \A i \in 1..Readable(f) : os[i] = f[i].op
    BY DecodedType
  <2>. HIDE DEF os
  <2>2. /\ l \in Seq(FileLines) /\ Len(l) = Len(os)
        /\ \A i \in 1..Len(os) : l[i].end = "nl" /\ l[i].op = os[i]
    BY <2>1, WrittenLines
  <2>. HIDE DEF l
  <2>3. Untorn(l) /\ Glued(l) = {} /\ Repaired(f) = l
    <3>1. Repaired(f) = l
      BY <1>4 DEF Repaired, l, os
    <3>2. Untorn(l)
      BY <2>2 DEF Untorn
    <3>3. Glued(l) = {}
      BY <1>1, <2>1, <2>2 DEF Glued
    <3>. QED
      BY <3>1, <3>2, <3>3
  <2>4. ~Corrupt(l) /\ Decoded(l) = Recorded(l)
    BY <2>2, <2>3, UntornReads
  <2>5. Readable(l) = Readable(f)
    BY <1>1, <2>1, <2>2, <2>4, ReadableType DEF Corrupt
  <2>6. \A i \in 1..Readable(f) : i <= Readable(l) /\ l[i].op = f[i].op
    BY <1>1, <2>1, <2>2, <2>5
  <2>7. Decoded(l) = os
    BY <2>3, <2>4, DecodedFacts DEF os
  <2>. QED
    BY <1>4, <2>3, <2>4, <2>6, <2>7 DEF os
<1>. QED
  BY <1>2, <1>3, <1>4

\* Appending whole lines to a file with no torn one.
LEMMA AppendedLines ==
  ASSUME NEW f \in Seq(FileLines), NEW os \in Seq(Ops)
  PROVE  /\ f \o Lines(os) \in Seq(FileLines)
         /\ Untorn(f) => Untorn(f \o Lines(os))
         /\ IsPrefixOf(f, f \o Lines(os))
<1>. DEFINE l == Lines(os)
<1>0. l \in Seq(FileLines) /\ \A i \in 1..Len(l) : l[i].end = "nl"
  BY WrittenLines
<1>. HIDE DEF l
<1>1. Len(l) \in Nat /\ Len(f) \in Nat
  BY <1>0, LenProperties
<1>. DEFINE g == f \o l
<1>2. /\ g \in Seq(FileLines) /\ Len(g) = Len(f) + Len(l)
      /\ \A i \in 1..(Len(f) + Len(l)) : g[i] = IF i <= Len(f) THEN f[i] ELSE l[i - Len(f)]
  BY <1>0, ConcatProperties
<1>. HIDE DEF g
<1>3. ASSUME Untorn(f), NEW i \in 1..Len(g) PROVE g[i].end # "torn"
  <2>1. CASE i <= Len(f)
    BY <1>1, <1>2, <1>3, <2>1 DEF Untorn
  <2>2. CASE ~ (i <= Len(f))
    <3>1. i - Len(f) \in 1..Len(l)
      BY <1>1, <1>2, <2>2
    <3>. QED
      BY <1>0, <1>1, <1>2, <2>2, <3>1
  <2>. QED
    BY <2>1, <2>2
<1>4. IsPrefixOf(f, g)
  BY <1>1, <1>2 DEF IsPrefixOf
<1>. QED
  BY <1>2, <1>3, <1>4 DEF Untorn, g, l

-----------------------------------------------------------------------------
(* Steps.                                                                   *)

\* The step writes the page out and tells callers that the log is durable.
WritesOut ==
  mode = "open" /\ aof' = Flushed /\ promised' = ops /\ glued' = Glued(aof')

\* The step leaves the file alone, and does not open a corrupt one.
KeepsFile ==
  /\ UNCHANGED <<aof, promised, glued>>
  /\ mode' \in {"open", "replaying", "healed"} =>
        mode \in {"open", "replaying", "healed"} \/ ~Corrupt(aof)

\* What a step can do to the file.
LEMMA FileSteps ==
  ASSUME TypeInv, [Next]_vars
  PROVE  WritesOut \/ Crash \/ OpenFull \/ Heal \/ KeepsFile
<1>1. CASE Call
  <2>1. UNCHANGED <<mode, aof, promised, glued>>
    BY <1>1, CallSteps DEF Refuses, Enters, Drops, Follows
  <2>. QED
    BY <2>1 DEF KeepsFile
<1>2. CASE Fsync \/ SnapshotFlush \/ Flush \/ Close
  BY <1>2 DEF Fsync, SnapshotFlush, Flush, Close, Idle, WritesOut
<1>3. CASE \/ FsyncFails \/ SnapshotRename \/ Indexing \/ MetaTruncate \/ MetaWrite \/ Replay
           \/ UNCHANGED vars
  <2>1. UNCHANGED <<mode, aof, promised, glued>>
    BY <1>3 DEF FsyncFails, SnapshotRename, Indexing, CreateIndex, CreateUnknownIndex,
                MetaTruncate, MetaWrite, Replay, vars, disk
  <2>. QED
    BY <2>1 DEF KeepsFile
<1>4. CASE FinishOpen \/ DropSnapshot
  BY <1>4 DEF FinishOpen, DropSnapshot, disk, KeepsFile
<1>5. CASE OpenSnapshot
  BY <1>5 DEF OpenSnapshot, disk, KeepsFile
<1>6. CASE OpenFails \/ ReplayRaises
  BY <1>6 DEF OpenFails, ReplayRaises, disk, KeepsFile
<1>. QED
  BY <1>1, <1>2, <1>3, <1>4, <1>5, <1>6, StepCases

\* A crash writes behind the file as it was.
LEMMA CrashFile ==
  ASSUME TypeInv, Crash
  PROVE  IsPrefixOf(aof, aof')
<1>1. PICK n \in 0..Len(page) :
        \/ aof' = aof \o Lines(SubSeq(page, 1, n))
        \/ /\ n < Len(page)
           /\ \E end \in Ends :
                aof' = aof \o Lines(SubSeq(page, 1, n)) \o << [op |-> page[n + 1], end |-> end] >>
  BY DEF Crash
<1>2. /\ aof \in Seq(FileLines) /\ page \in Seq(Ops) /\ Len(page) \in Nat
      /\ Len(aof) \in Nat /\ \A i \in 1..Len(page) : page[i] \in Ops
  BY LenProperties, ElementOfSeq DEF TypeInv, TypeOK
<1>. DEFINE part == SubSeq(page, 1, n)
            whole == aof \o Lines(part)
<1>3. part \in Seq(Ops)
  <2>1. Recorded(aof) \in Seq(Ops)
    BY <1>2, RecordedFacts
  <2>. QED
    BY <1>2, <2>1, PartWritten
<1>. HIDE DEF part
<1>4. whole \in Seq(FileLines) /\ IsPrefixOf(aof, whole)
  BY <1>2, <1>3, AppendedLines
<1>. HIDE DEF whole
<1>5. CASE aof' = whole
  BY <1>4, <1>5
<1>6. ASSUME n < Len(page), NEW end \in Ends, aof' = whole \o << [op |-> page[n + 1], end |-> end] >>
      PROVE  IsPrefixOf(aof, aof')
  <2>. DEFINE cut == [op |-> page[n + 1], end |-> end]
              g == Append(whole, cut)
  <2>1. cut \in FileLines
    BY <1>2, <1>6, EngineAssumption DEF FileLines
  <2>. HIDE DEF cut
  <2>2. aof' = g
    <3>1. aof' = whole \o <<cut>>
      BY <1>6 DEF cut
    <3>. QED
      BY <1>4, <2>1, <3>1, AppendIsConcat
  <2>3. /\ Len(whole) \in Nat /\ Len(g) = Len(whole) + 1
        /\ \A i \in 1..Len(whole) : g[i] = whole[i]
    BY <1>4, <2>1, AppendProperties, LenProperties
  <2>. HIDE DEF g
  <2>4. IsPrefixOf(aof, g)
    BY <1>2, <1>4, <2>3 DEF IsPrefixOf
  <2>. QED
    BY <2>2, <2>4
<1>. QED
  BY <1>1, <1>5, <1>6 DEF whole, part

\* Whatever a step writes, it writes behind the file, which may be repaired before,
\* unless it re-links the log.
LEMMA StepFile ==
  ASSUME TypeInv, FileInv, [Next]_vars, ~Heal
  PROVE  /\ mode' \in {"open", "replaying", "healed"} => Untorn(aof')
         /\ IsPrefixOf(aof, aof') \/ aof' = Repaired(aof)
<1>1. aof \in Seq(FileLines) /\ page \in Seq(Ops) /\ aof' \in Seq(FileLines) /\ Len(aof) \in Nat
  BY NextType, LenProperties DEF TypeInv, TypeOK
<1>2. CASE WritesOut
  BY <1>1, <1>2, AppendedLines DEF WritesOut, Flushed, FileInv
<1>3. CASE Crash
  BY <1>3, CrashFile DEF Crash
<1>4. CASE OpenFull
  BY <1>1, <1>4, RepairedFile DEF OpenFull
<1>5. CASE KeepsFile
  BY <1>1, <1>5, RepairedFile DEF KeepsFile, FileInv, IsPrefixOf
<1>. QED
  BY <1>2, <1>3, <1>4, <1>5, FileSteps

\* A line that ends in its newline stays readable.
LEMMA NextWhole ==
  ASSUME TypeInv, FileInv, [Next]_vars, ~Heal
  PROVE  \A i \in 1..Readable(aof) :
           aof[i].end = "nl" => i <= Readable(aof') /\ aof'[i].op = aof[i].op
<1>1. aof \in Seq(FileLines) /\ aof' \in Seq(FileLines)
  BY NextType DEF TypeInv, TypeOK
<1>2. CASE IsPrefixOf(aof, aof')
  BY <1>1, <1>2, StaysReadable
<1>3. CASE aof' = Repaired(aof)
  BY <1>1, <1>3, RepairedFile
<1>. QED
  BY <1>2, <1>3, StepFile

\* The engine starts with an empty file and nothing promised.
LEMMA InitFile == Init => FileInv
<1>. SUFFICES ASSUME Init PROVE FileInv
  OBVIOUS
<1>1. promised = << >> /\ mode = "closed" /\ Len(promised) = 0
  BY EmptySeq DEF Init
<1>. QED
  BY <1>1 DEF FileInv, Durable

\* A step promises nothing but a log that it has just written to the file, and takes
\* nothing back but what is behind a continued line.
LEMMA NextFile ==
  ASSUME TypeInv, LogInv, FileInv, [Next]_vars
  PROVE  FileInv'
<1>1. /\ aof \in Seq(FileLines) /\ page \in Seq(Ops) /\ aof' \in Seq(FileLines)
      /\ ops \in Seq(Ops) /\ promised \in Seq(Ops)
  BY NextType DEF TypeInv, TypeOK
<1>2. ~Heal
  BY NeverHealed
<1>3. mode' \in {"open", "replaying", "healed"} => Untorn(aof')
  BY <1>2, StepFile
<1>4. CASE WritesOut
  <2>1. /\ mode = "open" /\ aof' = Flushed /\ promised' = ops /\ glued' = Glued(aof')
        /\ Untorn(aof)
    BY <1>4 DEF WritesOut, FileInv
  <2>2. Untorn(aof') /\ Recorded(aof') = ops
    BY <1>1, <2>1, RecordedConcat, AppendedLines DEF Flushed, LogInv, FileHoldsLog
  <2>3. Len(aof') = Len(ops) /\ \A i \in 1..Len(ops) : aof'[i].op = ops[i]
    BY <1>1, <2>2, RecordedFacts
  <2>4. Durable'
    BY <1>1, <2>1, <2>2, <2>3, UntornReads DEF Durable
  <2>. QED
    BY <1>3, <2>4 DEF FileInv
<1>5. CASE Crash
  <2>1. IsPrefixOf(aof, aof') /\ promised' = promised /\ glued' = glued \cup Glued(aof')
    BY <1>5, CrashFile DEF Crash
  <2>2. ASSUME NEW i \in 1..Len(promised), \A g \in glued' : i < g
        PROVE  i <= Readable(aof') /\ aof'[i].op = promised[i]
    <3>1. i <= Readable(aof) /\ aof[i].op = promised[i] /\ \A g \in Glued(aof') : i < g
      BY <2>1, <2>2 DEF FileInv, Durable
    <3>2. i \in 1..Readable(aof)
      BY <1>1, <3>1, ReadableType
    <3>. QED
      BY <1>1, <2>1, <3>1, <3>2, StaysReadable
  <2>3. Durable'
    BY <2>1, <2>2 DEF Durable
  <2>. QED
    BY <1>3, <2>3 DEF FileInv
<1>6. CASE OpenFull
  <2>1. aof' = Repaired(aof) /\ UNCHANGED <<promised, glued>>
    BY <1>6 DEF OpenFull
  <2>2. ASSUME NEW i \in 1..Len(promised), \A g \in glued : i < g
        PROVE  i <= Readable(aof') /\ aof'[i].op = promised[i]
    <3>1. i <= Readable(aof) /\ aof[i].op = promised[i]
      BY <2>2 DEF FileInv, Durable
    <3>2. i \in 1..Readable(aof)
      BY <1>1, <3>1, ReadableType
    <3>. QED
      BY <1>1, <2>1, <3>1, <3>2, RepairedFile
  <2>3. Durable'
    BY <2>1, <2>2 DEF Durable
  <2>. QED
    BY <1>3, <2>3 DEF FileInv
<1>7. CASE KeepsFile
  <2>1. Durable'
    BY <1>7 DEF KeepsFile, FileInv, Durable
  <2>. QED
    BY <1>3, <2>1 DEF FileInv
<1>. QED
  BY <1>2, <1>4, <1>5, <1>6, <1>7, FileSteps

-----------------------------------------------------------------------------
(* The theorems on the file.                                                *)

\* In every reachable state the file holds what was promised.
LEMMA FileInvariant ==
  ASSUME Unserialisable = {}
  PROVE  Spec => [](TypeInv /\ LogInv /\ FileInv)
<1>. DEFINE I == TypeInv /\ LogInv /\ FileInv
<1>1. Init => I
  BY InitType, InitLog, InitFile
<1>2. I /\ [Next]_vars => I'
  BY NextType, NextLog, NextFile
<1>. QED
  BY <1>1, <1>2, PTL DEF Spec

\* A write whose caller was told it is durable stays readable on disk, through any
\* number of crashes at any byte, fsync failures, repairs, checkpoints and reopens, up
\* to a line that lost its newline and was continued by a later append.
THEOREM AcknowledgedWritesSurvive ==
  ASSUME Unserialisable = {}
  PROVE  Spec => []Durable
<1>1. FileInv => Durable
  BY DEF FileInv
<1>. QED
  BY FileInvariant, <1>1, PTL

\* While a database is open, what a restart would read followed by what is still
\* buffered is the log in memory, unless a line without newline was continued.
THEOREM TheFileIsTheLog ==
  ASSUME Unserialisable = {}
  PROVE  Spec => []FileIsLog
<1>1. TypeInv /\ LogInv /\ FileInv => FileIsLog
  BY UntornReads DEF TypeInv, TypeOK, LogInv, FileHoldsLog, FileInv, FileIsLog
<1>. QED
  BY FileInvariant, <1>1, PTL

\* No crash, append or repair takes back or changes a line that ends in its newline
\* and that a reader gets to.
THEOREM AppendOnly ==
  ASSUME Unserialisable = {}
  PROVE  Spec => WholeLinesStay
<1>. DEFINE Stays == \A i \in 1..Readable(aof) :
                       aof[i].end = "nl" => i <= Readable(aof') /\ aof'[i].op = aof[i].op
<1>1. TypeInv /\ LogInv /\ FileInv /\ [Next]_vars => [Stays]_vars
  BY NextWhole, NeverHealed
<1>. QED
  BY FileInvariant, <1>1, PTL DEF Spec, WholeLinesStay

-----------------------------------------------------------------------------
(* Reading back.                                                            *)

\* StorePut adds a version to one chain.
LEMMA PutAppends ==
  ASSUME NEW st \in [Keys -> Chains], NEW key \in Keys, NEW val \in Docs \cup {NIL}, NEW seq \in Nat
  PROVE  /\ IsSequence(st[key])
         /\ StorePut(st, key, val, seq)[key] = Append(st[key], [seq |-> seq, val |-> val])
         /\ \A k \in Keys \ {key} : StorePut(st, key, val, seq)[k] = st[k]
<1>1. IsSequence(st[key])
  BY DEF Chains, IsSequence
<1>. QED
  BY <1>1 DEF StorePut

\* Reading back what StorePut put.
LEMMA PutThenGet ==
  ASSUME NEW st \in [Keys -> Chains], NEW key \in Keys, NEW val \in Docs \cup {NIL}, NEW seq \in Nat
  PROVE  /\ Get(StorePut(st, key, val, seq), key) = val
         /\ \A k \in Keys \ {key} : Get(StorePut(st, key, val, seq), k) = Get(st, k)
<1>. DEFINE v == [seq |-> seq, val |-> val]
            c == st[key]
            t == StorePut(st, key, val, seq)
<1>1. IsSequence(c) /\ t[key] = Append(c, v) /\ \A k \in Keys \ {key} : t[k] = st[k]
  BY PutAppends
<1>2. Append(c, v) # << >> /\ Len(Append(c, v)) = Len(c) + 1 /\ Append(c, v)[Len(c) + 1] = v
  <2>. HIDE DEF c, v
  <2>2. Len(c) \in Nat /\ Len(Append(c, v)) = Len(c) + 1 /\ Append(c, v)[Len(c) + 1] = v
    BY <1>1, AppendToSequence, SequenceIsFunction
  <2>3. Len(<< >>) = 0
    OBVIOUS
  <2>4. Append(c, v) # << >>
    BY <2>2, <2>3
  <2>. QED
    BY <2>2, <2>4
<1>. HIDE DEF t
<1>3. Get(t, key) = val
  BY <1>1, <1>2 DEF Get
<1>4. \A k \in Keys \ {key} : Get(t, k) = Get(st, k)
  BY <1>1 DEF Get
<1>. QED
  BY <1>3, <1>4 DEF t

\* The indexed values are all texts or all numbers.
OneKind == Texts = {} \/ Texts = Docs

\* Then any two of them can be compared.
LEMMA NeverMixed ==
  ASSUME OneKind
  PROVE  (\A sd : \A doc \in Docs : ~Mixes(sd, doc)) /\ \A bag : OneType(bag)
<1>1. \A p \in Docs \X Keys : p[1] \in Docs
  OBVIOUS
<1>. QED
  BY <1>1 DEF OneKind, Mixes, OneType

\* apply_op when no value is unhashable: it can only fail to sort the new one in.
LEMMA ApplyWhole ==
  ASSUME Unhashable = {}, NEW o \in Ops
  PROVE  /\ \A st, ix : AppliedStore(st, ix, o) = IF o.payload.op \in {"put", "delete"}
                                                  THEN StorePut(st, o.payload.on, o.payload.doc, o.seq)
                                                  ELSE st
         /\ OneKind => \A st, ix, cm, sd :
              AppliedCauses(st, cm, ix, sd, o) = cm \cup {<<cause, o.seq>> : cause \in o.caused_by}
<1>1. \A st, ix : ~RaisesOnOld(st, ix, o) /\ ~RaisesOnNew(ix, o)
  BY DEF RaisesOnOld, RaisesOnNew
<1>2. ASSUME OneKind PROVE \A st, sd : ~RaisesOnSort(st, sd, o)
  <2>1. o.payload.op = "put" => o.payload.doc \in Docs
    BY PayloadFacts
  <2>. QED
    BY <1>2, <2>1, NeverMixed DEF RaisesOnSort
<1>. QED
  BY <1>1, <1>2 DEF ApplyRaises, AppliedStore, AppliedCauses

-----------------------------------------------------------------------------
(* A database that is not open holds nothing in memory.                     *)

Blank ==
  mode \in {"closed", "failed"} =>
    /\ store = EmptyStore /\ rels = EmptyRels /\ eq = {} /\ cause_map = {} /\ pos = 0
    /\ sorted = NoneSorted

\* Close, Crash and an open that fails leave nothing behind.
LEMMA NextBlank ==
  ASSUME TypeInv, Blank, [Next]_vars
  PROVE  Blank'
<1>1. ASSUME Forget PROVE Blank'
  BY <1>1 DEF Forget, Blank
<1>2. ASSUME mode' \in {"open", "replaying", "healed"} PROVE Blank'
  BY <1>2 DEF Blank
<1>3. ASSUME UNCHANGED <<mode, store, rels, eq, cause_map, sorted, pos>> PROVE Blank'
  BY <1>3 DEF Blank
<1>4. CASE Call
  BY <1>2, <1>4, CallSteps DEF Refuses, Enters, Drops, Follows
<1>5. CASE Close \/ Crash \/ ReplayRaises
  BY <1>1, <1>5 DEF Close, Crash, ReplayRaises
<1>6. CASE OpenFull \/ OpenSnapshot \/ FinishOpen \/ Heal \/ DropSnapshot
  BY <1>2, <1>6 DEF OpenFull, OpenSnapshot, FinishOpen, Heal, DropSnapshot
<1>7. CASE OpenFails
  BY <1>7 DEF OpenFails, mat, Blank
<1>8. CASE \/ Fsync \/ FsyncFails \/ SnapshotRename \/ SnapshotFlush \/ Flush
           \/ Indexing \/ MetaTruncate \/ MetaWrite \/ Replay
  BY <1>2, <1>8 DEF Fsync, FsyncFails, SnapshotRename, SnapshotFlush, Flush,
                    Indexing, CreateIndex, CreateUnknownIndex, MetaTruncate, MetaWrite, Replay, Idle
<1>9. CASE UNCHANGED vars
  BY <1>3, <1>9 DEF vars, mat
<1>. QED
  BY <1>4, <1>5, <1>6, <1>7, <1>8, <1>9, StepCases

-----------------------------------------------------------------------------
(* The equality index.  Every document at HEAD is in it under its value;    *)
(* the index may hold more, which the query filters out.                    *)

IndexCovers == indexed => HeadPairs(store) \subseteq eq

IndexKept ==
  (/\ mode \in {"open", "replaying", "healed"} /\ "eq" \in meta /\ (\A sn \in snap : sn.indexed))
  => indexed

\* Indexes.remove of the old document and Indexes.add of the new one follow the store.
LEMMA ApplyIndex ==
  ASSUME Unhashable = {}, TypeOK, NEW o \in Ops, Apply(o), indexed' = indexed, IndexCovers
  PROVE  IndexCovers'
<1>. SUFFICES ASSUME indexed, NEW k \in Keys, Get(store', k) # NIL
              PROVE  <<Get(store', k), k>> \in eq'
  BY DEF IndexCovers, HeadPairs
<1>1. /\ store \in [Keys -> Chains] /\ o.seq \in Nat
      /\ o.payload.op = "put" => o.payload.on \in Keys /\ o.payload.doc \in Docs
      /\ o.payload.op = "delete" => o.payload.on \in Keys /\ o.payload.doc = NIL
  BY PayloadFacts DEF TypeOK
<1>2. \A x \in Keys : Get(store, x) # NIL => <<Get(store, x), x>> \in eq
  BY DEF IndexCovers, HeadPairs
<1>3. CASE o.payload.op \notin {"put", "delete"}
  <2>1. store' = store /\ eq' = eq
    BY <1>3 DEF Apply, AppliedStore, AppliedIndex
  <2>. QED
    BY <1>2, <2>1
<1>4. CASE o.payload.op \in {"put", "delete"}
  <2>. DEFINE key == o.payload.on
              doc == o.payload.doc
  <2>1. store' = StorePut(store, key, doc, o.seq)
    BY <1>4, ApplyWhole DEF Apply
  <2>2. key \in Keys /\ doc \in Docs \cup {NIL}
    BY <1>1, <1>4
  <2>3. Get(store', key) = doc /\ \A x \in Keys \ {key} : Get(store', x) = Get(store, x)
    <3>. DEFINE sq == o.seq
                t  == StorePut(store, key, doc, sq)
    <3>1. store \in [Keys -> Chains] /\ sq \in Nat
      BY <1>1
    <3>. HIDE DEF key, doc, sq
    <3>2. Get(t, key) = doc /\ \A x \in Keys \ {key} : Get(t, x) = Get(store, x)
      BY <2>2, <3>1, PutThenGet
    <3>. QED
      BY <2>1, <3>2 DEF sq
  <2>4. eq \ {<<Get(store, key), key>>} \subseteq eq'
    BY <1>4 DEF Apply, AppliedIndex, RaisesOnOld, RaisesOnNew, IndexRemove, IndexAdd
  <2>5. o.payload.op = "put" => <<doc, key>> \in eq'
    BY DEF Apply, AppliedIndex, RaisesOnOld, RaisesOnNew, IndexRemove, IndexAdd
  <2>6. CASE k = key
    BY <1>1, <1>4, <2>3, <2>5, <2>6
  <2>7. CASE k # key
    <3>1. Get(store', k) = Get(store, k) /\ <<Get(store, k), k>> \in eq
      BY <1>2, <2>3, <2>7
    <3>. QED
      BY <2>4, <2>7, <3>1
  <2>. QED
    BY <2>6, <2>7
<1>. QED
  BY <1>3, <1>4

\* Every step keeps the index over the documents, and keeps it through a reopen.
LEMMA NextIndex ==
  ASSUME Unserialisable = {}, Unhashable = {}, OneKind,
         TypeInv, LogInv, Blank, IndexCovers, IndexKept, [Next]_vars
  PROVE  IndexCovers' /\ IndexKept'
<1>0. TypeOK /\ ops \in Seq(Ops)
  BY DEF TypeInv, TypeOK
<1>1. ASSUME UNCHANGED <<store, eq, indexed>> PROVE IndexCovers'
  BY <1>1 DEF IndexCovers, HeadPairs, Get
<1>2. ASSUME UNCHANGED <<mode, snap, meta, indexed>> PROVE IndexKept'
  BY <1>2 DEF IndexKept
<1>3. HeadPairs(EmptyStore) = {}
  BY DEF HeadPairs, EmptyStore, Get
<1>4. CASE Call
  <2>1. CASE Refuses
    BY <1>1, <1>2, <2>1 DEF Refuses
  <2>2. ASSUME NEW o \in Ops, Enters(o) PROVE IndexCovers' /\ IndexKept'
    <3>1. IndexKept'
      BY <1>2, <2>2 DEF Enters, Follows
    <3>2. CASE DeferSync
      BY <1>0, <2>2, <3>1, <3>2, ApplyIndex DEF Enters, Follows
    <3>3. CASE ~DeferSync
      BY <1>1, <2>2, <3>1, <3>3 DEF Enters, Follows
    <3>. QED
      BY <3>2, <3>3
  <2>. QED
    BY <1>4, <2>1, <2>2, CallEnters
<1>5. CASE Fsync
  <2>1. ops[Len(ops)] \in Ops
    BY <1>0, <1>5, LenProperties, ElementOfSeq DEF Fsync, TypeInv, CallHasOp
  <2>. QED
    BY <1>0, <1>2, <1>5, <2>1, ApplyIndex DEF Fsync
<1>6. CASE FsyncFails \/ SnapshotFlush \/ Flush \/ UNCHANGED vars
  BY <1>1, <1>2, <1>6 DEF FsyncFails, SnapshotFlush, Flush, vars, mat, disk
<1>7. CASE SnapshotRename
  <2>1. IndexKept'
    BY <1>7 DEF SnapshotRename, SnapshotNow, IndexKept, mat
  <2>. QED
    BY <1>1, <1>7, <2>1 DEF SnapshotRename, mat
<1>8. CASE Indexing
  <2>1. ASSUME NEW kind \in Kinds, CreateIndex(kind) PROVE IndexCovers' /\ IndexKept'
    <3>. DEFINE Backfill == HeadPairs(store)
    <3>1. \A pairs : Fillable(pairs)
      BY NeverMixed DEF Fillable
    <3>2. /\ (indexed => indexed') /\ UNCHANGED <<mode, snap, meta, store>>
          /\ eq' = IF indexed' THEN eq \cup Backfill ELSE eq
      <4>1. /\ indexed' = (indexed \/ kind = "eq") /\ UNCHANGED <<mode, snap, meta, store>>
            /\ \E done \in SUBSET Backfill :
                 \/ done = Backfill /\ eq' = IF indexed' THEN eq \cup done ELSE eq
                 \/ \E p \in Backfill \ done : ~Fillable(done \cup {p})
        BY <2>1 DEF CreateIndex, disk
      <4>. QED
        BY <3>1, <4>1
    <3>. QED
      BY <3>2 DEF IndexCovers, IndexKept, HeadPairs, Get
  <2>2. CASE CreateUnknownIndex
    BY <1>1, <1>2, <2>2 DEF CreateUnknownIndex, disk
  <2>. QED
    BY <1>8, <2>1, <2>2 DEF Indexing
<1>9. CASE MetaTruncate \/ MetaWrite
  <2>1. UNCHANGED <<mode, snap, store, eq, indexed>> /\ ("eq" \in meta' => indexed)
    <3>1. "eq" \notin others
      BY <1>0 DEF TypeOK
    <3>. QED
      BY <1>9, <3>1 DEF MetaTruncate, MetaWrite, mat
  <2>. QED
    BY <1>1, <2>1 DEF IndexKept
<1>10. CASE Close \/ Crash \/ ReplayRaises
  <2>1. indexed' = FALSE /\ mode' \in {"closed", "failed"}
    BY <1>10 DEF Close, Crash, ReplayRaises, Forget
  <2>. QED
    BY <2>1 DEF IndexCovers, IndexKept
<1>11. CASE OpenFull
  <2>1. store' = EmptyStore /\ snap' = snap /\ meta' = meta /\ indexed' = ("eq" \in meta)
    BY <1>11 DEF OpenFull, Blank
  <2>. QED
    BY <1>3, <2>1 DEF IndexCovers, IndexKept
<1>12. CASE OpenSnapshot
  <2>1. PICK s \in snap : /\ indexed' = s.indexed /\ store' = s.store
                          /\ eq' = IF s.indexed THEN HeadPairs(s.store) ELSE {}
                          /\ UNCHANGED disk
    BY <1>12 DEF OpenSnapshot
  <2>2. snap' = snap
    BY <2>1 DEF disk
  <2>. QED
    BY <2>1, <2>2 DEF IndexCovers, IndexKept
<1>13. CASE OpenFails
  BY <1>1, <1>13 DEF OpenFails, IndexKept, mat
<1>14. CASE Replay
  <2>1. UNCHANGED <<mode, snap, meta, indexed>>
    BY <1>14 DEF Replay, disk
  <2>2. CASE Skipped(ops[pos + 1])
    BY <1>1, <1>2, <1>14, <2>1, <2>2 DEF Replay
  <2>3. CASE ~Skipped(ops[pos + 1])
    <3>1. ops[pos + 1] \in Ops
      BY <1>0, <1>14, LenProperties, ElementOfSeq DEF Replay, TypeOK
    <3>2. Apply(ops[pos + 1])
      BY <1>14, <2>3 DEF Replay
    <3>. QED
      BY <1>0, <1>2, <2>1, <3>1, <3>2, ApplyIndex
  <2>. QED
    BY <2>2, <2>3
<1>15. CASE FinishOpen
  <2>1. UNCHANGED <<store, eq, indexed, snap, meta>> /\ mode = "replaying"
    BY <1>15 DEF FinishOpen, mat, disk
  <2>. QED
    BY <1>1, <2>1 DEF IndexKept
<1>. QED
  BY <1>4, <1>5, <1>6, <1>7, <1>8, <1>9, <1>10, <1>11, <1>12, <1>13, <1>14, <1>15, StepCases,
     NeverHealed

\* A database starts with no index, no document and no configuration.
LEMMA InitIndex == Init => Blank /\ IndexCovers /\ IndexKept
BY DEF Init, Blank, IndexCovers, IndexKept

\* An equality query that the index answers agrees with one that scans, and an index that
\* create_index acknowledged survives every crash and reopen, whatever calls, checkpoints,
\* fsync failures and repairs come between, provided every value can be hashed and written
\* and no two of them are of different types (an ordered index would stop the backfill).
THEOREM IndexAndScanAgree ==
  ASSUME Unserialisable = {}, Unhashable = {}, OneKind
  PROVE  Spec => []IndexAgrees
<1>. DEFINE I == TypeInv /\ LogInv /\ Blank /\ IndexCovers /\ IndexKept
<1>1. Init => I
  BY InitType, InitLog, InitIndex
<1>2. I /\ [Next]_vars => I'
  BY NextType, NextLog, NextBlank, NextIndex
<1>3. I => IndexAgrees
  <2>. SUFFICES ASSUME I PROVE IndexAgrees
    OBVIOUS
  <2>1. ASSUME indexed, NEW v \in Docs PROVE IndexedQuery(v) = ScanQuery(v)
    <3>1. v # NIL
      BY DocsAssumption
    <3>2. \A k \in Keys : Get(store, k) = v => <<v, k>> \in eq
      BY <2>1, <3>1 DEF IndexCovers, HeadPairs
    <3>3. eq \subseteq Docs \X Keys
      BY DEF TypeInv, TypeOK
    <3>4. \A k \in Keys : Get(store, k) = v => k \in {p[2] : p \in {x \in eq : x[1] = v}}
      <4>. TAKE k \in Keys
      <4>. HAVE Get(store, k) = v
      <4>. DEFINE p == <<v, k>>
      <4>1. p \in eq /\ p[1] = v /\ p[2] = k
        BY <3>2
      <4>. HIDE DEF p
      <4>. QED
        BY <4>1
    <3>5. \A k \in IndexedQuery(v) : k \in Keys /\ Get(store, k) = v
      BY <3>3 DEF IndexedQuery
    <3>. QED
      BY <3>1, <3>4, <3>5 DEF IndexedQuery, ScanQuery
  <2>. QED
    BY <2>1 DEF IndexAgrees, IndexKept
<1>. QED
  BY <1>1, <1>2, <1>3, PTL DEF Spec

-----------------------------------------------------------------------------
(* The causal index.  Ops are folded in order, the ones at or before a      *)
(* checkpoint may be left out.                                              *)

\* How many ops of the log the state stands for.
Progress ==
  IF mode = "replaying" THEN pos ELSE IF pc = "fsync" THEN Len(ops) - 1 ELSE Len(ops)

CausesUpTo(n) ==
  /\ \A x \in cause_map : \E i \in 1..n : x \in Declared(i)
  /\ \A i \in 1..n : (\A sn \in snap : ops[i].seq > sn.seq) => Declared(i) \subseteq cause_map

CausesHold == mode \in {"open", "replaying", "healed"} => CausesUpTo(Progress)

\* The next op is folded in.
LEMMA FoldCauses ==
  ASSUME Unhashable = {}, OneKind, NEW n \in Nat, n + 1 <= Len(ops'), ops' \in Seq(Ops), CausesUpTo(n),
         \A i \in 1..n : ops'[i] = ops[i], snap' = snap,
         \/ cause_map' = AppliedCauses(store, cause_map, indexed, sorted, ops'[n + 1])
         \/ cause_map' = cause_map /\ \E sn \in snap : ~(ops'[n + 1].seq > sn.seq)
  PROVE  (CausesUpTo(n + 1))'
<1>. DEFINE o == ops'[n + 1]
<1>0. /\ Len(ops') \in Nat /\ o \in Ops
  BY LenProperties, ElementOfSeq
<1>1. \A i \in 1..n : Declared(i)' = Declared(i)
  BY DEF Declared
<1>2. Declared(n + 1)' = {<<cause, o.seq>> : cause \in o.caused_by}
  BY DEF Declared
<1>3. \A i \in 1..(n + 1) : i \in 1..n \/ i = n + 1
  OBVIOUS
<1>4. \A i \in 1..n : i \in 1..(n + 1)
  OBVIOUS
<1>5. n + 1 \in 1..(n + 1)
  OBVIOUS
<1>6. \/ cause_map' = cause_map \cup Declared(n + 1)'
      \/ cause_map' = cause_map /\ \E sn \in snap : ~(o.seq > sn.seq)
  BY <1>0, <1>2, ApplyWhole
<1>7. \A x \in cause_map' : \E i \in 1..(n + 1) : x \in Declared(i)'
  BY <1>1, <1>4, <1>5, <1>6 DEF CausesUpTo
<1>8. ASSUME NEW i \in 1..(n + 1), \A sn \in snap' : ops'[i].seq > sn.seq
      PROVE  Declared(i)' \subseteq cause_map'
  <2>1. CASE i \in 1..n
    BY <1>1, <1>6, <1>8, <2>1 DEF CausesUpTo
  <2>2. CASE i = n + 1
    BY <1>6, <1>8, <2>2
  <2>. QED
    BY <1>3, <2>1, <2>2
<1>. QED
  BY <1>7, <1>8 DEF CausesUpTo

\* With deferred sync no call waits for its fsync.
DeferredWaitsNot == DeferSync => pc # "fsync"

\* The part of the fold that a step leaves alone.
LEMMA SameCauses ==
  ASSUME NEW n \in Nat, CausesUpTo(n), \A i \in 1..n : ops'[i] = ops[i], snap' = snap,
         cause_map' = cause_map
  PROVE  (CausesUpTo(n))'
<1>1. \A i \in 1..n : Declared(i)' = Declared(i)
  BY DEF Declared
<1>. QED
  BY <1>1 DEF CausesUpTo

\* Every step keeps the causal index in step with the log.
LEMMA NextCauses ==
  ASSUME Unserialisable = {}, Unhashable = {}, OneKind, DeferSync \/ ~FsyncMayFail,
         TypeInv, LogInv, Blank, DeferredWaitsNot, CausesHold, [Next]_vars
  PROVE  CausesHold' /\ DeferredWaitsNot'
<1>0. /\ TypeOK /\ TypeOK' /\ ops \in Seq(Ops) /\ ops' \in Seq(Ops)
      /\ Len(ops) \in Nat /\ Len(ops') \in Nat /\ pos \in Nat
      /\ \A i \in 1..Len(ops) : ops[i].seq = i - 1
  BY NextType, LenProperties DEF TypeInv, TypeOK, LogInv, FileHoldsLog, GoodLog, Chained
<1>1. ASSUME mode' \in {"closed", "failed"}, pc' = "idle" PROVE CausesHold' /\ DeferredWaitsNot'
  BY <1>1 DEF CausesHold, DeferredWaitsNot
<1>2. ASSUME UNCHANGED <<mode, ops, cause_map, snap, pos>>, pc' = "fsync" <=> pc = "fsync"
      PROVE  CausesHold' /\ DeferredWaitsNot'
  <2>1. Progress' = Progress
    BY <1>2 DEF Progress
  <2>2. \A i : Declared(i)' = Declared(i)
    BY <1>2 DEF Declared
  <2>. QED
    BY <1>2, <2>1, <2>2 DEF CausesHold, CausesUpTo, DeferredWaitsNot
<1>3. CASE Call
  <2>1. CASE Refuses
    BY <1>2, <2>1 DEF Refuses
  <2>2. ASSUME NEW o \in Ops, Enters(o) PROVE CausesHold' /\ DeferredWaitsNot'
    <3>. PICK n \in Nat : n = Len(ops)
      BY <1>0
    <3>1. /\ ops' = Append(ops, o) /\ mode = "open" /\ mode' = "open" /\ pc = "idle" /\ snap' = snap
          /\ Len(ops') = n + 1 /\ ops'[n + 1] = o /\ \A i \in 1..n : ops'[i] = ops[i]
      <4>1. ops' = Append(ops, o)
        BY <2>2 DEF Enters, Follows
      <4>. QED
        BY <1>0, <2>2, <4>1, AppendProperties DEF Enters, Follows
    <3>2. CausesUpTo(n)
      BY <3>1 DEF CausesHold, Progress
    <3>3. n \in Nat
      OBVIOUS
    <3>4. CASE DeferSync
      <4>1. cause_map' = AppliedCauses(store, cause_map, indexed, sorted, ops'[n + 1]) /\ pc' # "fsync"
        BY <2>2, <3>1, <3>4 DEF Enters, Follows, Apply
      <4>2. (CausesUpTo(n + 1))'
        BY <1>0, <3>1, <3>2, <3>3, <4>1, FoldCauses
      <4>. QED
        BY <3>1, <4>1, <4>2 DEF CausesHold, Progress, DeferredWaitsNot
    <3>5. CASE ~DeferSync
      <4>1. pc' = "fsync" /\ cause_map' = cause_map
        BY <2>2, <3>5 DEF Enters, Follows
      <4>2. (CausesUpTo(n))'
        BY <3>1, <3>2, <3>3, <4>1, SameCauses
      <4>3. Progress' = n
        BY <3>1, <3>3, <4>1 DEF Progress
      <4>. QED
        BY <3>5, <4>2, <4>3 DEF CausesHold, DeferredWaitsNot
    <3>. QED
      BY <3>4, <3>5
  <2>. QED
    BY <1>3, <2>1, <2>2, CallEnters
<1>4. CASE Fsync
  <2>1. /\ mode = "open" /\ mode' = "open" /\ pc = "fsync" /\ pc' # "fsync" /\ ops' = ops /\ snap' = snap
        /\ cause_map' = AppliedCauses(store, cause_map, indexed, sorted, ops[Len(ops)])
    BY <1>0, <1>4 DEF Fsync, Apply, log, TypeOK
  <2>2. PICK n \in Nat : n = Len(ops) - 1 /\ n + 1 = Len(ops)
    <3>1. ops # << >>
      BY <2>1 DEF TypeInv, CallHasOp
    <3>. QED
      BY <1>0, <3>1, EmptySeq
  <2>3. CausesUpTo(n)
    BY <2>1, <2>2 DEF CausesHold, Progress
  <2>4. (CausesUpTo(n + 1))'
    BY <1>0, <2>1, <2>2, <2>3, FoldCauses
  <2>. QED
    BY <2>1, <2>2, <2>4 DEF CausesHold, Progress, DeferredWaitsNot
<1>5. CASE FsyncFails
  <2>1. pc # "fsync"
    BY <1>5 DEF FsyncFails, DeferredWaitsNot
  <2>. QED
    BY <1>2, <1>5, <2>1 DEF FsyncFails, log, mat, disk
<1>6. CASE SnapshotRename
  <2>1. /\ mode = "open" /\ mode' = "open" /\ pc = "snapshot" /\ pc' = "snapflush" /\ ops' = ops
        /\ cause_map' = cause_map /\ snap' = {SnapshotNow} /\ SnapshotNow.seq = ops[Len(ops)].seq
    BY <1>6 DEF SnapshotRename, log, mat, SnapshotNow
  <2>2. PICK n \in Nat : n = Len(ops) /\ n \in 1..n
    <3>1. ops # << >>
      BY <2>1 DEF TypeInv, CallHasOp
    <3>. QED
      BY <1>0, <3>1, EmptySeq
  <2>3. CausesUpTo(n)
    BY <2>1, <2>2 DEF CausesHold, Progress
  <2>4. \A i \in 1..n : \E sn \in snap' : ~(ops'[i].seq > sn.seq)
    BY <1>0, <2>1, <2>2
  <2>5. \A i \in 1..n : Declared(i)' = Declared(i)
    BY <2>1 DEF Declared
  <2>6. (CausesUpTo(n))'
    BY <2>1, <2>3, <2>4, <2>5 DEF CausesUpTo
  <2>. QED
    BY <2>1, <2>2, <2>6 DEF CausesHold, Progress, DeferredWaitsNot
<1>7. CASE SnapshotFlush \/ Flush \/ Indexing \/ MetaTruncate \/ MetaWrite
  BY <1>2, <1>7 DEF SnapshotFlush, Flush, Indexing, CreateIndex, CreateUnknownIndex, MetaTruncate, MetaWrite, Idle, log, mat, disk
<1>8. CASE Close \/ Crash \/ ReplayRaises
  BY <1>1, <1>8 DEF Close, Crash, ReplayRaises, Forget
<1>9. CASE OpenFails
  <2>1. pc = "idle"
    BY <1>9 DEF OpenFails, TypeInv, NoCallUnlessOpen
  <2>. QED
    BY <1>1, <1>9, <2>1 DEF OpenFails
<1>10. CASE OpenFull \/ OpenSnapshot
  <2>1. mode' = "replaying" /\ pos' = 0 /\ cause_map' = {} /\ pc' = "idle"
    BY <1>10 DEF OpenFull, OpenSnapshot, Blank, TypeInv, NoCallUnlessOpen
  <2>2. (CausesUpTo(0))'
    BY <2>1 DEF CausesUpTo
  <2>. QED
    BY <2>1, <2>2 DEF CausesHold, Progress, DeferredWaitsNot
<1>11. CASE Replay
  <2>1. /\ mode = "replaying" /\ mode' = "replaying" /\ pos < Len(ops) /\ pos' = pos + 1
        /\ ops' = ops /\ snap' = snap /\ pc' = pc
    BY <1>11 DEF Replay, log, disk
  <2>2. PICK n \in Nat : n = pos /\ CausesUpTo(n) /\ n + 1 <= Len(ops)
    BY <1>0, <2>1 DEF CausesHold, Progress
  <2>3. \/ cause_map' = AppliedCauses(store, cause_map, indexed, sorted, ops'[pos + 1])
        \/ cause_map' = cause_map /\ \E sn \in snap : ~(ops'[pos + 1].seq > sn.seq)
    <3>1. CASE Skipped(ops[pos + 1])
      <4>1. PICK sn \in snap : ops[pos + 1].seq <= sn.seq
        BY <3>1 DEF Skipped
      <4>2. sn.seq \in Nat /\ pos + 1 \in 1..Len(ops)
        BY <1>0, <2>1, <2>2 DEF TypeOK, Snapshots
      <4>3. ops[pos + 1].seq \in Nat
        BY <1>0, <4>2
      <4>. QED
        BY <1>11, <2>1, <3>1, <4>1, <4>2, <4>3 DEF Replay
    <3>2. CASE ~Skipped(ops[pos + 1])
      BY <1>11, <2>1, <3>2 DEF Replay, Apply
    <3>. QED
      BY <3>1, <3>2
  <2>4. (CausesUpTo(n + 1))'
    BY <1>0, <2>1, <2>2, <2>3, FoldCauses
  <2>. QED
    BY <2>1, <2>2, <2>4 DEF CausesHold, Progress, DeferredWaitsNot
<1>12. CASE FinishOpen
  <2>2. /\ mode = "replaying" /\ mode' = "open" /\ pos = Len(ops) /\ ops' = ops
        /\ UNCHANGED <<snap, cause_map, pc>>
    BY <1>12 DEF FinishOpen, log, mat, disk
  <2>3. pc' = "idle"
    BY <2>2 DEF TypeInv, NoCallUnlessOpen
  <2>4. PICK n \in Nat : n = Len(ops) /\ CausesUpTo(n)
    BY <1>0, <2>2 DEF CausesHold, Progress
  <2>5. (CausesUpTo(n))'
    BY <2>2, <2>4, SameCauses
  <2>. QED
    BY <2>2, <2>3, <2>4, <2>5 DEF CausesHold, Progress, DeferredWaitsNot
<1>13. CASE UNCHANGED vars
  BY <1>2, <1>13 DEF vars, log, mat, disk
<1>. QED
  BY <1>3, <1>4, <1>5, <1>6, <1>7, <1>8, <1>9, <1>10, <1>11, <1>12, <1>13, StepCases,
     NeverHealed

\* TRACE ... REVERSE answers from the causal index, which names no effect that the log does
\* not declare and misses none that it declares after the last checkpoint: through every
\* mix of calls, checkpoints, crashes, repairs and reopens, when every value can be hashed
\* and written, all are of one type, and no per-op fsync fails.
THEOREM CausesAreComplete ==
  ASSUME Unserialisable = {}, Unhashable = {}, OneKind, DeferSync \/ ~FsyncMayFail
  PROVE  Spec => []CausesComplete
<1>. DEFINE I == TypeInv /\ LogInv /\ Blank /\ DeferredWaitsNot /\ CausesHold
<1>1. Init => I
  <2>1. Init => DeferredWaitsNot /\ CausesHold
    BY DEF Init, DeferredWaitsNot, CausesHold
  <2>. QED
    BY <2>1, InitType, InitLog, InitIndex
<1>2. I /\ [Next]_vars => I'
  BY NextType, NextLog, NextBlank, NextCauses
<1>3. I => CausesComplete
  <2>. SUFFICES ASSUME I, Settled PROVE
         /\ cause_map \subseteq UNION {Declared(i) : i \in 1..Len(ops)}
         /\ \A i \in 1..Len(ops) :
              (\A sn \in snap : ops[i].seq > sn.seq) => Declared(i) \subseteq cause_map
    BY DEF CausesComplete
  <2>1. CausesUpTo(Len(ops))
    BY DEF CausesHold, Progress, Settled
  <2>. QED
    BY <2>1 DEF CausesUpTo
<1>. QED
  BY <1>1, <1>2, <1>3, PTL DEF Spec

-----------------------------------------------------------------------------
(* The fold.  A chain of versions stands for the first n ops on a key: each *)
(* version is one of those ops, in their order, and an op that writes the   *)
(* key is missing only when a later one is at or before the checkpoint h.   *)

ChainOf(c, os, n, key, h) ==
  /\ \A j \in 1..Len(c) : /\ c[j].seq \in 0..(n - 1)
                          /\ Writes(os[c[j].seq + 1], key)
                          /\ c[j].val = os[c[j].seq + 1].payload.doc
  /\ \A j, k \in 1..Len(c) : j < k => c[j].seq < c[k].seq
  /\ \A i \in 1..n : Writes(os[i], key) =>
       \/ \E j \in 1..Len(c) : c[j].seq = i - 1
       \/ \E k \in (i + 1)..n : Writes(os[k], key) /\ k <= h

\* Later ops do not change what the first n ops are.
LEMMA ChainSame ==
  ASSUME NEW c, NEW os, NEW t, NEW n \in Nat, NEW key, NEW h, ChainOf(c, os, n, key, h),
         \A i \in 1..n : t[i] = os[i]
  PROVE  ChainOf(c, t, n, key, h)
<1>1. \A j \in 1..Len(c) : /\ c[j].seq \in 0..(n - 1) /\ c[j].seq + 1 \in 1..n
                           /\ Writes(os[c[j].seq + 1], key)
                           /\ c[j].val = os[c[j].seq + 1].payload.doc
  BY DEF ChainOf
<1>2. \A i \in 1..n : Writes(os[i], key) <=> Writes(t[i], key)
  BY DEF Writes
<1>3. \A j \in 1..Len(c) : /\ c[j].seq \in 0..(n - 1)
                           /\ Writes(t[c[j].seq + 1], key)
                           /\ c[j].val = t[c[j].seq + 1].payload.doc
  BY <1>1, <1>2
<1>4. ASSUME NEW i \in 1..n, Writes(t[i], key)
      PROVE  \/ \E j \in 1..Len(c) : c[j].seq = i - 1
             \/ \E k \in (i + 1)..n : Writes(t[k], key) /\ k <= h
  <2>1. \/ \E j \in 1..Len(c) : c[j].seq = i - 1
        \/ \E k \in (i + 1)..n : Writes(os[k], key) /\ k <= h
    BY <1>2, <1>4 DEF ChainOf
  <2>2. \A k \in (i + 1)..n : k \in 1..n
    OBVIOUS
  <2>. QED
    BY <1>2, <2>1, <2>2
<1>. QED
  BY <1>3, <1>4 DEF ChainOf

\* An op that does not write the key adds nothing.
LEMMA ChainSkips ==
  ASSUME NEW c, NEW os, NEW n \in Nat, NEW key, NEW h \in Nat, ChainOf(c, os, n, key, h),
         ~Writes(os[n + 1], key)
  PROVE  ChainOf(c, os, n + 1, key, h)
<1>1. \A j \in 1..Len(c) : c[j].seq \in 0..((n + 1) - 1)
  BY DEF ChainOf
<1>2. ASSUME NEW i \in 1..(n + 1), Writes(os[i], key)
      PROVE  \/ \E j \in 1..Len(c) : c[j].seq = i - 1
             \/ \E k \in (i + 1)..(n + 1) : Writes(os[k], key) /\ k <= h
  <2>1. i \in 1..n
    BY <1>2
  <2>2. \A k \in (i + 1)..n : k \in (i + 1)..(n + 1)
    OBVIOUS
  <2>. QED
    BY <1>2, <2>1, <2>2 DEF ChainOf
<1>. QED
  BY <1>1, <1>2 DEF ChainOf

\* An op that writes the key adds a version.
LEMMA ChainGrows ==
  ASSUME NEW c, IsSequence(c), NEW os, NEW n \in Nat, NEW key, NEW h \in Nat, ChainOf(c, os, n, key, h),
         Writes(os[n + 1], key)
  PROVE  ChainOf(Append(c, [seq |-> n, val |-> os[n + 1].payload.doc]), os, n + 1, key, h)
<1>. DEFINE v == [seq |-> n, val |-> os[n + 1].payload.doc]
            d == Append(c, v)
<1>1. v.seq = n /\ v.val = os[n + 1].payload.doc
  OBVIOUS
<1>. HIDE DEF v
<1>2. /\ Len(c) \in Nat /\ Len(d) = Len(c) + 1 /\ d[Len(c) + 1] = v
      /\ \A j \in 1..Len(c) : d[j] = c[j]
  BY AppendToSequence, SequenceIsFunction
<1>. HIDE DEF d
<1>3. \A j \in 1..Len(d) : j \in 1..Len(c) \/ j = Len(c) + 1
  BY <1>2
<1>4. \A j \in 1..Len(c) : /\ c[j].seq \in 0..(n - 1)
                           /\ Writes(os[c[j].seq + 1], key)
                           /\ c[j].val = os[c[j].seq + 1].payload.doc
  BY DEF ChainOf
<1>5. ASSUME NEW j \in 1..Len(d)
      PROVE  /\ d[j].seq \in 0..((n + 1) - 1)
             /\ Writes(os[d[j].seq + 1], key)
             /\ d[j].val = os[d[j].seq + 1].payload.doc
  <2>1. CASE j \in 1..Len(c)
    <3>1. d[j] = c[j]
      BY <1>2, <2>1
    <3>2. c[j].seq \in 0..((n + 1) - 1)
      BY <1>4, <2>1
    <3>3. Writes(os[c[j].seq + 1], key) /\ c[j].val = os[c[j].seq + 1].payload.doc
      BY <1>4, <2>1, Zenon
    <3>. QED
      BY <3>1, <3>2, <3>3, Zenon
  <2>2. CASE j = Len(c) + 1
    BY <1>1, <1>2, <2>2
  <2>. QED
    BY <1>3, <2>1, <2>2
<1>6. ASSUME NEW j \in 1..Len(d), NEW k \in 1..Len(d), j < k PROVE d[j].seq < d[k].seq
  <2>1. j \in 1..Len(c) /\ d[j] = c[j] /\ c[j].seq \in 0..(n - 1)
    BY <1>2, <1>4, <1>6
  <2>2. CASE k \in 1..Len(c)
    BY <1>2, <1>6, <2>1, <2>2 DEF ChainOf
  <2>3. CASE k = Len(c) + 1
    BY <1>1, <1>2, <2>1, <2>3
  <2>. QED
    BY <1>3, <2>2, <2>3
<1>7. ASSUME NEW i \in 1..(n + 1), Writes(os[i], key)
      PROVE  \/ \E j \in 1..Len(d) : d[j].seq = i - 1
             \/ \E k \in (i + 1)..(n + 1) : Writes(os[k], key) /\ k <= h
  <2>1. CASE i = n + 1
    <3>1. Len(c) + 1 \in 1..Len(d) /\ d[Len(c) + 1].seq = i - 1
      BY <1>1, <1>2, <2>1
    <3>. QED
      BY <3>1
  <2>2. CASE i \in 1..n
    <3>1. \/ \E j \in 1..Len(c) : c[j].seq = i - 1
          \/ \E k \in (i + 1)..n : Writes(os[k], key) /\ k <= h
      BY <1>7, <2>2 DEF ChainOf
    <3>2. \A j \in 1..Len(c) : j \in 1..Len(d) /\ d[j] = c[j]
      BY <1>2
    <3>3. \A k \in (i + 1)..n : k \in (i + 1)..(n + 1)
      OBVIOUS
    <3>. QED
      BY <3>1, <3>2, <3>3
  <2>. QED
    BY <2>1, <2>2
<1>8. ChainOf(d, os, n + 1, key, h)
  BY <1>5, <1>6, <1>7 DEF ChainOf
<1>. QED
  BY <1>8 DEF d, v

\* A checkpoint keeps the last version.
LEMMA ChainHead ==
  ASSUME NEW c, IsSequence(c), NEW os, NEW n \in Nat, NEW key, NEW h \in Nat, ChainOf(c, os, n, key, h)
  PROVE  ChainOf(IF c = << >> THEN << >> ELSE <<c[Len(c)]>>, os, n, key, n)
<1>1. Len(c) \in Nat
  BY SequenceIsFunction
<1>2. CASE c = << >>
  <2>1. Len(c) = 0
    BY <1>2
  <2>2. \A i \in 1..n : \A k \in (i + 1)..n : k <= n
    OBVIOUS
  <2>. QED
    BY <1>2, <2>1, <2>2 DEF ChainOf
<1>3. CASE c # << >>
  <2>. DEFINE m == Len(c)
              v == c[m]
              d == <<v>>
  <2>1. m \in 1..m
    <3>1. m # 0
      BY <1>3, EmptySeq DEF IsSequence
    <3>. QED
      BY <1>1, <3>1
  <2>2. /\ v.seq \in 0..(n - 1) /\ Writes(os[v.seq + 1], key) /\ v.val = os[v.seq + 1].payload.doc
    BY <2>1 DEF ChainOf
  <2>3. \A j \in 1..m : j = m \/ c[j].seq < v.seq
    BY <1>1, <2>1 DEF ChainOf
  <2>4. Len(d) = 1 /\ d[1] = v
    OBVIOUS
  <2>5. ASSUME NEW i \in 1..n, Writes(os[i], key)
        PROVE  v.seq = i - 1 \/ \E k \in (i + 1)..n : Writes(os[k], key) /\ k <= n
    <3>1. ASSUME NEW j \in 1..m, c[j].seq = i - 1, j # m
          PROVE  v.seq + 1 \in (i + 1)..n
      <4>1. c[j].seq < v.seq
        BY <2>3, <3>1
      <4>2. v.seq \in 0..(n - 1)
        BY <2>2
      <4>. HIDE DEF v
      <4>. QED
        BY <3>1, <4>1, <4>2
    <3>2. ASSUME NEW j \in 1..m, c[j].seq = i - 1
          PROVE  v.seq = i - 1 \/ \E k \in (i + 1)..n : Writes(os[k], key) /\ k <= n
      <4>1. CASE j = m
        BY <3>2, <4>1
      <4>2. CASE j # m
        <5>1. v.seq + 1 \in (i + 1)..n /\ v.seq + 1 <= n
          BY <3>1, <3>2, <4>2
        <5>. QED
          BY <2>2, <5>1
      <4>. QED
        BY <4>1, <4>2
    <3>3. ASSUME NEW k \in (i + 1)..n, Writes(os[k], key)
          PROVE  \E kk \in (i + 1)..n : Writes(os[kk], key) /\ kk <= n
      BY <3>3
    <3>. QED
      BY <2>5, <3>2, <3>3 DEF ChainOf
  <2>. HIDE DEF d, v, m
  <2>6. ChainOf(d, os, n, key, n)
    <3>1. \A j \in 1..Len(d) : j = 1
      BY <2>4
    <3>2. 1 \in 1..Len(d)
      BY <2>4
    <3>. QED
      BY <2>2, <2>4, <2>5, <3>1, <3>2 DEF ChainOf
  <2>. QED
    BY <1>3, <2>6 DEF d, v, m
<1>. QED
  BY <1>2, <1>3

Versions(c, s) == {j \in 1..Len(c) : c[j].seq <= s}

WritesIn(os, n, key, s) == {i \in 1..n : i - 1 <= s /\ Writes(os[i], key)}

\* The last version at or before s, from the checkpoint on, is the last write at or before s.
LEMMA ChainReads ==
  ASSUME NEW c, IsSequence(c), NEW os, NEW n \in Nat, NEW key, NEW h \in Nat, ChainOf(c, os, n, key, h),
         NEW s \in Nat, h <= s + 1
  PROVE  /\ Versions(c, s) = {} <=> WritesIn(os, n, key, s) = {}
         /\ WritesIn(os, n, key, s) # {} =>
              c[Max(Versions(c, s))].val = os[Max(WritesIn(os, n, key, s))].payload.doc
<1>. DEFINE at == Versions(c, s)
            w  == WritesIn(os, n, key, s)
<1>0. at = {j \in 1..Len(c) : c[j].seq <= s} /\ w = {i \in 1..n : i - 1 <= s /\ Writes(os[i], key)}
  BY DEF Versions, WritesIn
<1>. HIDE DEF at, w
<1>1. Len(c) \in Nat
  BY SequenceIsFunction
<1>2. \A j \in at : /\ j \in 1..Len(c) /\ c[j].seq \in 0..(n - 1) /\ c[j].seq <= s
                    /\ c[j].seq + 1 \in w /\ c[j].val = os[c[j].seq + 1].payload.doc
  <2>. SUFFICES ASSUME NEW j \in at
                PROVE  /\ j \in 1..Len(c) /\ c[j].seq \in 0..(n - 1) /\ c[j].seq <= s
                       /\ c[j].seq + 1 \in w /\ c[j].val = os[c[j].seq + 1].payload.doc
    OBVIOUS
  <2>1. j \in 1..Len(c) /\ c[j].seq <= s
    BY <1>0
  <2>2. /\ c[j].seq \in 0..(n - 1) /\ Writes(os[c[j].seq + 1], key)
        /\ c[j].val = os[c[j].seq + 1].payload.doc
    BY <2>1 DEF ChainOf
  <2>3. c[j].seq + 1 \in 1..n /\ (c[j].seq + 1) - 1 = c[j].seq
    BY <2>2
  <2>. QED
    BY <1>0, <2>1, <2>2, <2>3
<1>3. w = {} => at = {}
  BY <1>2
<1>4. ASSUME w # {} PROVE at # {} /\ c[Max(at)].val = os[Max(w)].payload.doc
  <2>. DEFINE m == Max(w)
  <2>1. m \in w /\ \A i \in w : m >= i
    <3>1. w \subseteq Nat /\ \A i \in w : i <= n
      BY <1>0
    <3>. QED
      BY <1>4, <3>1, MaxOfNaturals
  <2>. HIDE DEF m
  <2>2. m \in 1..n /\ m - 1 <= s /\ Writes(os[m], key)
    BY <1>0, <2>1
  <2>3. ~ \E k \in (m + 1)..n : Writes(os[k], key) /\ k <= h
    <3>. SUFFICES ASSUME NEW k \in (m + 1)..n, Writes(os[k], key), k <= h PROVE FALSE
      OBVIOUS
    <3>1. k \in 1..n /\ k - 1 <= s /\ ~(m >= k)
      BY <2>2
    <3>2. k \in w
      BY <1>0, <3>1
    <3>. QED
      BY <2>1, <3>1, <3>2
  <2>4. PICK j \in 1..Len(c) : c[j].seq = m - 1
    BY <2>2, <2>3 DEF ChainOf
  <2>5. j \in at
    BY <1>0, <2>2, <2>4
  <2>6. ASSUME NEW k \in at PROVE k <= j
    <3>1. k \in 1..Len(c) /\ c[k].seq \in 0..(n - 1) /\ c[k].seq + 1 \in w
      BY <1>2
    <3>2. m >= c[k].seq + 1
      BY <2>1, <3>1
    <3>3. j < k => c[j].seq < c[k].seq
      BY <3>1 DEF ChainOf
    <3>4. ~(m - 1 < c[k].seq)
      BY <2>2, <3>1, <3>2
    <3>. QED
      BY <2>4, <3>1, <3>3, <3>4
  <2>7. Max(at) = j
    <3>1. at \subseteq Nat /\ \A k \in at : k <= Len(c)
      BY <1>0
    <3>2. Max(at) \in at /\ \A k \in at : Max(at) >= k
      BY <1>1, <2>5, <3>1, MaxOfNaturals
    <3>3. Max(at) <= j /\ Max(at) >= j /\ j \in Nat /\ Max(at) \in Nat
      BY <2>5, <2>6, <3>1, <3>2
    <3>. QED
      BY <3>3
  <2>8. c[j].val = os[m].payload.doc
    <3>1. (m - 1) + 1 = m
      BY <2>2
    <3>. QED
      BY <1>2, <2>4, <2>5, <3>1
  <2>. QED
    BY <2>5, <2>7, <2>8 DEF m
<1>. QED
  BY <1>3, <1>4 DEF at, w

\* What the log says of a document at s.
LEMMA FoldedAt ==
  ASSUME ops \in Seq(Ops), \A i \in 1..Len(ops) : ops[i].seq = i - 1, NEW key, NEW s \in Nat
  PROVE  WritesTo(key, s) = WritesIn(ops, Len(ops), key, s)
BY DEF WritesTo, WritesIn

\* MVCCStore.get agrees with the log, at HEAD and AS OF any seq from the checkpoint on.
LEMMA ChainAgrees ==
  ASSUME TypeOK, \A i \in 1..Len(ops) : ops[i].seq = i - 1, NEW key \in Keys, NEW h \in 0..Len(ops),
         ChainOf(store[key], ops, Len(ops), key, h)
  PROVE  /\ Get(store, key) = FoldedDoc(key, Len(ops))
         /\ \A s \in 0..(Len(ops) - 1) : h <= s + 1 => GetAsOf(store, key, s) = FoldedDoc(key, s)
<1>. DEFINE c == store[key]
            n == Len(ops)
<1>1. ops \in Seq(Ops) /\ n \in Nat /\ h \in Nat /\ IsSequence(c) /\ Len(c) \in Nat
  <2>1. IsSequence(c) /\ ops \in Seq(Ops)
    BY DEF TypeOK, Chains, IsSequence
  <2>2. Len(c) \in Nat
    BY <2>1, SequenceIsFunction, Zenon
  <2>. QED
    BY <2>1, <2>2, LenProperties
<1>2. ChainOf(c, ops, n, key, h)
  OBVIOUS
<1>. HIDE DEF c, n
<1>3. ASSUME NEW s \in Nat, h <= s + 1 PROVE GetAsOf(store, key, s) = FoldedDoc(key, s)
  <2>. DEFINE at == Versions(c, s)
              w  == WritesIn(ops, n, key, s)
  <2>1. /\ at = {} <=> w = {}
        /\ w # {} => c[Max(at)].val = ops[Max(w)].payload.doc
    BY <1>1, <1>2, <1>3, ChainReads
  <2>2. GetAsOf(store, key, s) = IF at = {} THEN NIL ELSE c[Max(at)].val
    BY DEF GetAsOf, Versions, c
  <2>3. FoldedDoc(key, s) = IF w = {} THEN NIL ELSE ops[Max(w)].payload.doc
    BY <1>1, FoldedAt DEF FoldedDoc, n
  <2>. HIDE DEF at, w
  <2>. QED
    BY <2>1, <2>2, <2>3
<1>4. Get(store, key) = GetAsOf(store, key, n)
  <2>1. {j \in 1..Len(c) : c[j].seq <= n} = 1..Len(c)
    <3>1. \A j \in 1..Len(c) : c[j].seq \in 0..(n - 1)
      BY <1>2 DEF ChainOf
    <3>. QED
      BY <1>1, <3>1
  <2>2. CASE Len(c) = 0
    <3>1. c = << >> /\ 1..Len(c) = {}
      BY <1>1, <2>2, EmptySeq DEF IsSequence
    <3>. QED
      BY <2>1, <3>1 DEF Get, GetAsOf, c
  <2>3. CASE Len(c) # 0
    <3>. DEFINE S == 1..Len(c)
    <3>0. Len(c) \in Nat /\ Len(c) >= 1
      BY <1>1, <2>3
    <3>1. S \subseteq Nat /\ Len(c) \in S /\ \A y \in S : y <= Len(c)
      BY <3>0
    <3>. HIDE DEF S
    <3>2. Max(S) \in S /\ \A y \in S : Max(S) >= y
      BY <1>1, <3>1, MaxOfNaturals
    <3>3. Max(S) = Len(c)
      BY <1>1, <3>1, <3>2
    <3>4. c # << >>
      BY <2>3
    <3>. QED
      BY <2>1, <3>1, <3>3, <3>4 DEF Get, GetAsOf, c, S
  <2>. QED
    BY <2>2, <2>3
<1>5. GetAsOf(store, key, n) = FoldedDoc(key, n)
  <2>1. h <= n + 1
    BY <1>1 DEF n
  <2>. QED
    BY <1>1, <1>3, <2>1
<1>. QED
  BY <1>1, <1>3, <1>4, <1>5 DEF n

-----------------------------------------------------------------------------
(* The intervals of an edge stand for the first n ops on it: what is live,  *)
(* now and at every seq before n, is what the last op until then linked.    *)

On(o, e) == o.payload.op \in {"link", "unlink"} /\ o.payload.on = e

LinkAt(os, e, n) ==
  \E i \in 1..n : /\ On(os[i], e) /\ os[i].payload.op = "link"
                  /\ \A k \in (i + 1)..n : ~On(os[k], e)

Bounded(r, n) ==
  \A j \in 1..Len(r) : r[j].added \in 0..(n - 1) /\ r[j].removed \in {LIVE} \cup 0..(n - 1)

RelOf(rl, os, n, e) ==
  /\ Bounded(rl[e], n)
  /\ Linked(rl, e) <=> LinkAt(os, e, n)
  /\ \A s \in 0..(n - 1) : LinkedAsOf(rl, e, s) <=> LinkAt(os, e, s + 1)

\* Later ops do not change what was linked.
LEMMA LinkSame ==
  ASSUME NEW os, NEW t, NEW e, NEW n \in Nat, \A i \in 1..n : t[i] = os[i]
  PROVE  LinkAt(os, e, n) <=> LinkAt(t, e, n)
<1>1. \A i \in 1..n : \A k \in (i + 1)..n : k \in 1..n
  OBVIOUS
<1>2. \A i \in 1..n : On(os[i], e) <=> On(t[i], e)
  BY DEF On
<1>. QED
  BY <1>1, <1>2 DEF LinkAt

\* Nor do they change what the intervals stand for.
LEMMA RelSame ==
  ASSUME NEW rl, NEW os, NEW t, NEW n \in Nat, NEW e, RelOf(rl, os, n, e), \A i \in 1..n : t[i] = os[i]
  PROVE  RelOf(rl, t, n, e)
<1>1. LinkAt(os, e, n) <=> LinkAt(t, e, n)
  BY LinkSame
<1>2. ASSUME NEW s \in 0..(n - 1) PROVE LinkAt(os, e, s + 1) <=> LinkAt(t, e, s + 1)
  <2>1. s + 1 \in Nat /\ \A i \in 1..(s + 1) : i \in 1..n
    OBVIOUS
  <2>. QED
    BY <2>1, LinkSame
<1>. QED
  BY <1>1, <1>2 DEF RelOf

\* An op on another edge, or on none, links and unlinks nothing here; the last one decides.
LEMMA LinkSteps ==
  ASSUME NEW os, NEW e, NEW n \in Nat
  PROVE  /\ ~On(os[n + 1], e) => (LinkAt(os, e, n + 1) <=> LinkAt(os, e, n))
         /\ On(os[n + 1], e) => (LinkAt(os, e, n + 1) <=> os[n + 1].payload.op = "link")
<1>1. \A i \in 1..(n + 1) : i \in 1..n \/ i = n + 1
  OBVIOUS
<1>2. \A i \in 1..n : i \in 1..(n + 1) /\ n + 1 \in (i + 1)..(n + 1)
                      /\ \A k \in (i + 1)..(n + 1) : k \in (i + 1)..n \/ k = n + 1
  OBVIOUS
<1>3. \A i \in 1..n : \A k \in (i + 1)..n : k \in (i + 1)..(n + 1)
  OBVIOUS
<1>4. n + 1 \in 1..(n + 1) /\ \A k \in ((n + 1) + 1)..(n + 1) : FALSE
  OBVIOUS
<1>5. ASSUME ~On(os[n + 1], e) PROVE LinkAt(os, e, n + 1) <=> LinkAt(os, e, n)
  <2>1. LinkAt(os, e, n + 1) => LinkAt(os, e, n)
    BY <1>1, <1>3, <1>5 DEF LinkAt
  <2>2. LinkAt(os, e, n) => LinkAt(os, e, n + 1)
    BY <1>2, <1>5 DEF LinkAt
  <2>. QED
    BY <2>1, <2>2
<1>6. ASSUME On(os[n + 1], e) PROVE LinkAt(os, e, n + 1) <=> os[n + 1].payload.op = "link"
  <2>1. LinkAt(os, e, n + 1) => os[n + 1].payload.op = "link"
    BY <1>1, <1>2, <1>6 DEF LinkAt
  <2>2. os[n + 1].payload.op = "link" => LinkAt(os, e, n + 1)
    BY <1>4, <1>6 DEF LinkAt
  <2>. QED
    BY <2>1, <2>2
<1>. QED
  BY <1>5, <1>6

\* What it takes for one more op to be in.
LEMMA RelStep ==
  ASSUME NEW rl, NEW rm, NEW os, NEW n \in Nat, NEW e, RelOf(rl, os, n, e),
         Bounded(rm[e], n + 1), Linked(rm, e) <=> LinkAt(os, e, n + 1),
         \A s \in 0..(n - 1) : LinkedAsOf(rm, e, s) <=> LinkedAsOf(rl, e, s)
  PROVE  RelOf(rm, os, n + 1, e)
<1>1. LinkedAsOf(rm, e, n) <=> Linked(rm, e)
  <2>1. \A j \in 1..Len(rm[e]) : /\ rm[e][j].added \in 0..n
                                 /\ rm[e][j].removed = LIVE \/ rm[e][j].removed \in 0..n
    BY DEF Bounded
  <2>2. \A x \in 0..n : x <= n /\ ~(x > n)
    OBVIOUS
  <2>. QED
    BY <2>1, <2>2 DEF Linked, LinkedAsOf
<1>2. \A s \in 0..((n + 1) - 1) : s \in 0..(n - 1) \/ s = n
  OBVIOUS
<1>. QED
  BY <1>1, <1>2 DEF RelOf

\* A bound may grow.
LEMMA BoundedGrows ==
  ASSUME NEW r, NEW n \in Nat, Bounded(r, n)
  PROVE  Bounded(r, n + 1)
BY DEF Bounded

\* An op that is not on the edge.
LEMMA RelSkips ==
  ASSUME NEW rl, NEW rm, NEW os, NEW n \in Nat, NEW e, RelOf(rl, os, n, e), rm[e] = rl[e],
         ~On(os[n + 1], e)
  PROVE  RelOf(rm, os, n + 1, e)
<1>1. Bounded(rm[e], n + 1)
  BY BoundedGrows DEF RelOf
<1>2. Linked(rm, e) <=> LinkAt(os, e, n + 1)
  BY LinkSteps DEF RelOf, Linked
<1>3. \A s : LinkedAsOf(rm, e, s) <=> LinkedAsOf(rl, e, s)
  BY DEF LinkedAsOf
<1>. QED
  BY <1>1, <1>2, <1>3, RelStep

\* Relations.link.
LEMMA RelLinks ==
  ASSUME NEW rl, NEW rm, NEW os, NEW n \in Nat, NEW e, IsSequence(rl[e]), RelOf(rl, os, n, e),
         On(os[n + 1], e), os[n + 1].payload.op = "link",
         rm[e] = IF Linked(rl, e) THEN rl[e] ELSE Append(rl[e], [added |-> n, removed |-> LIVE])
  PROVE  RelOf(rm, os, n + 1, e)
<1>1. LinkAt(os, e, n + 1)
  BY LinkSteps
<1>2. CASE Linked(rl, e)
  <2>1. Bounded(rm[e], n + 1)
    BY <1>2, BoundedGrows DEF RelOf
  <2>2. Linked(rm, e)
    BY <1>2 DEF Linked
  <2>3. \A s : LinkedAsOf(rm, e, s) <=> LinkedAsOf(rl, e, s)
    BY <1>2 DEF LinkedAsOf
  <2>. QED
    BY <1>1, <2>1, <2>2, <2>3, RelStep
<1>3. CASE ~Linked(rl, e)
  <2>. DEFINE r == rl[e]
              v == [added |-> n, removed |-> LIVE]
              d == Append(r, v)
  <2>1. v.added = n /\ v.removed = LIVE
    OBVIOUS
  <2>2. rm[e] = d
    BY <1>3
  <2>3. Bounded(r, n)
    BY DEF RelOf
  <2>. HIDE DEF r, v
  <2>4. /\ Len(r) \in Nat /\ Len(d) = Len(r) + 1 /\ d[Len(r) + 1] = v
        /\ \A j \in 1..Len(r) : d[j] = r[j]
    <3>1. IsSequence(r)
      BY DEF r
    <3>. QED
      BY <3>1, AppendToSequence, SequenceIsFunction
  <2>. HIDE DEF d
  <2>5. /\ \A j \in 1..Len(d) : j \in 1..Len(r) \/ j = Len(r) + 1
        /\ \A j \in 1..Len(r) : j \in 1..Len(d)
        /\ Len(r) + 1 \in 1..Len(d)
    BY <2>4
  <2>6. Bounded(d, n + 1)
    <3>. SUFFICES ASSUME NEW j \in 1..Len(d)
                  PROVE  d[j].added \in 0..((n + 1) - 1) /\ d[j].removed \in {LIVE} \cup 0..((n + 1) - 1)
      BY DEF Bounded
    <3>1. CASE j \in 1..Len(r)
      BY <2>3, <2>4, <3>1 DEF Bounded
    <3>2. CASE j = Len(r) + 1
      BY <2>1, <2>4, <3>2
    <3>. QED
      BY <2>5, <3>1, <3>2
  <2>7. Linked(rm, e)
    BY <2>1, <2>2, <2>4, <2>5 DEF Linked
  <2>8. ASSUME NEW s \in 0..(n - 1) PROVE LinkedAsOf(rm, e, s) <=> LinkedAsOf(rl, e, s)
    <3>1. ~(v.added <= s)
      BY <2>1
    <3>2. LinkedAsOf(rm, e, s) => LinkedAsOf(rl, e, s)
      BY <2>2, <2>4, <2>5, <3>1 DEF LinkedAsOf, r
    <3>3. LinkedAsOf(rl, e, s) => LinkedAsOf(rm, e, s)
      BY <2>2, <2>4, <2>5 DEF LinkedAsOf, r
    <3>. QED
      BY <3>2, <3>3
  <2>. QED
    BY <1>1, <2>2, <2>6, <2>7, <2>8, RelStep
<1>. QED
  BY <1>2, <1>3

\* Relations.unlink.
LEMMA RelUnlinks ==
  ASSUME NEW rl, NEW rm, NEW os, NEW n \in Nat, NEW e, Len(rl[e]) \in Nat, RelOf(rl, os, n, e),
         On(os[n + 1], e), os[n + 1].payload.op = "unlink",
         Len(rm[e]) = Len(rl[e]),
         \A j \in 1..Len(rl[e]) :
           /\ rm[e][j].added = rl[e][j].added
           /\ rm[e][j].removed = IF rl[e][j].removed = LIVE THEN n ELSE rl[e][j].removed
  PROVE  RelOf(rm, os, n + 1, e)
<1>1. ~LinkAt(os, e, n + 1)
  BY LinkSteps
<1>. DEFINE r == rl[e]
            d == rm[e]
<1>2. /\ Len(r) \in Nat /\ Len(d) = Len(r)
      /\ \A j \in 1..Len(r) : d[j].added = r[j].added /\ d[j].removed = IF r[j].removed = LIVE THEN n ELSE r[j].removed
  OBVIOUS
<1>3. \A j \in 1..Len(r) : r[j].added \in 0..(n - 1) /\ (r[j].removed = LIVE \/ r[j].removed \in 0..(n - 1))
  BY DEF RelOf, Bounded
<1>. HIDE DEF r, d
<1>4. n # LIVE /\ \A x \in 0..(n - 1) : x # LIVE
  BY DEF LIVE
<1>5. Bounded(d, n + 1)
  BY <1>2, <1>3 DEF Bounded
<1>6. ~Linked(rm, e)
  BY <1>2, <1>3, <1>4 DEF Linked, d
<1>7. ASSUME NEW s \in 0..(n - 1) PROVE LinkedAsOf(rm, e, s) <=> LinkedAsOf(rl, e, s)
  <2>1. n > s
    OBVIOUS
  <2>2. \A j \in 1..Len(r) : (d[j].removed = LIVE \/ d[j].removed > s) <=> (r[j].removed = LIVE \/ r[j].removed > s)
    BY <1>2, <1>3, <1>4, <2>1
  <2>. QED
    BY <1>2, <2>2 DEF LinkedAsOf, r, d
<1>. QED
  BY <1>1, <1>5, <1>6, <1>7, RelStep DEF d

\* Reading the edge agrees with the log.
LEMMA LinkFolded ==
  ASSUME ops \in Seq(Ops), \A i \in 1..Len(ops) : ops[i].seq = i - 1, NEW e, NEW s \in Nat,
         NEW n \in 0..Len(ops), (n = Len(ops) /\ n <= s + 1) \/ n = s + 1
  PROVE  FoldedLink(e, s) <=> LinkAt(ops, e, n)
<1>. DEFINE w == LinksOn(e, s)
<1>0. Len(ops) \in Nat
  BY LenProperties
<1>1. w = {i \in 1..n : On(ops[i], e)}
  <2>1. \A i \in 1..Len(ops) : ops[i].seq <= s <=> i \in 1..n
    BY <1>0
  <2>2. \A i \in 1..n : i \in 1..Len(ops)
    BY <1>0
  <2>. QED
    BY <2>1, <2>2 DEF LinksOn, On
<1>. HIDE DEF w
<1>2. FoldedLink(e, s) <=> w # {} /\ ops[Max(w)].payload.op = "link"
  BY DEF FoldedLink, w
<1>3. CASE w = {}
  BY <1>1, <1>2, <1>3 DEF LinkAt
<1>4. CASE w # {}
  <2>. DEFINE m == Max(w)
  <2>1. m \in w /\ \A i \in w : m >= i
    <3>1. w \subseteq Nat /\ n \in Nat /\ \A i \in w : i <= n
      BY <1>1
    <3>. QED
      BY <1>4, <3>1, MaxOfNaturals
  <2>. HIDE DEF m
  <2>2. m \in 1..n /\ On(ops[m], e)
    BY <1>1, <2>1
  <2>3. \A k \in (m + 1)..n : ~On(ops[k], e)
    <3>. SUFFICES ASSUME NEW k \in (m + 1)..n, On(ops[k], e) PROVE FALSE
      OBVIOUS
    <3>1. k \in 1..n /\ ~(m >= k)
      BY <2>2
    <3>. QED
      BY <1>1, <2>1, <3>1
  <2>4. ops[m].payload.op = "link" => LinkAt(ops, e, n)
    BY <2>2, <2>3 DEF LinkAt
  <2>5. LinkAt(ops, e, n) => ops[m].payload.op = "link"
    <3>. SUFFICES ASSUME NEW i \in 1..n, On(ops[i], e), ops[i].payload.op = "link",
                         \A k \in (i + 1)..n : ~On(ops[k], e)
                  PROVE  ops[m].payload.op = "link"
      BY DEF LinkAt
    <3>1. i \in w
      BY <1>1
    <3>2. m >= i
      BY <2>1, <3>1
    <3>3. m = i \/ m \in (i + 1)..n
      BY <2>2, <3>2
    <3>. QED
      BY <2>2, <3>3
  <2>. QED
    BY <1>2, <1>4, <2>4, <2>5 DEF m
<1>. QED
  BY <1>3, <1>4

-----------------------------------------------------------------------------
(* Documents and relations together.                                        *)

Holds(st, rl, os, n, h) ==
  /\ \A key \in Keys : ChainOf(st[key], os, n, key, h)
  /\ \A e \in Edges : RelOf(rl, os, n, e)

\* The empty state stands for no op.
LEMMA EmptyHolds ==
  ASSUME NEW os
  PROVE  Holds(EmptyStore, EmptyRels, os, 0, 0)
<1>1. Len(<< >>) = 0
  OBVIOUS
<1>2. ASSUME NEW key \in Keys PROVE ChainOf(EmptyStore[key], os, 0, key, 0)
  BY <1>1 DEF ChainOf, EmptyStore
<1>3. ASSUME NEW e \in Edges PROVE RelOf(EmptyRels, os, 0, e)
  BY <1>1 DEF RelOf, Bounded, Linked, LinkAt, EmptyRels
<1>. QED
  BY <1>2, <1>3 DEF Holds

\* A log that goes on differently after n ops.
LEMMA HoldsSame ==
  ASSUME NEW st, NEW rl, NEW os, NEW t, NEW n \in Nat, NEW h, Holds(st, rl, os, n, h),
         \A i \in 1..n : t[i] = os[i]
  PROVE  Holds(st, rl, t, n, h)
BY ChainSame, RelSame DEF Holds

\* The versions and intervals that a checkpoint writes.
LEMMA HeadHolds ==
  ASSUME NEW st \in [Keys -> Chains], NEW rl, NEW os, NEW n \in Nat, NEW h \in Nat,
         Holds(st, rl, os, n, h)
  PROVE  Holds([k \in Keys |-> IF st[k] = << >> THEN << >> ELSE <<st[k][Len(st[k])]>>], rl, os, n, n)
<1>. DEFINE t == [k \in Keys |-> IF st[k] = << >> THEN << >> ELSE <<st[k][Len(st[k])]>>]
<1>1. ASSUME NEW key \in Keys PROVE ChainOf(t[key], os, n, key, n)
  <2>. DEFINE c == st[key]
  <2>1. IsSequence(c) /\ ChainOf(c, os, n, key, h)
    BY DEF Holds, Chains, IsSequence
  <2>2. t[key] = IF c = << >> THEN << >> ELSE <<c[Len(c)]>>
    OBVIOUS
  <2>. HIDE DEF c, t
  <2>. QED
    BY <2>1, <2>2, ChainHead
<1>. HIDE DEF t
<1>2. Holds(t, rl, os, n, n)
  BY <1>1 DEF Holds
<1>. QED
  BY <1>2 DEF t

\* apply_op of the next op: the documents.
LEMMA FoldChain ==
  ASSUME Unhashable = {}, NEW st \in [Keys -> Chains], NEW ix, NEW os, NEW n \in Nat, NEW h \in Nat,
         NEW key \in Keys, ChainOf(st[key], os, n, key, h), os[n + 1] \in Ops, os[n + 1].seq = n
  PROVE  ChainOf(AppliedStore(st, ix, os[n + 1])[key], os, n + 1, key, h)
<1>. DEFINE o == os[n + 1]
            t == AppliedStore(st, ix, o)
<1>1. t = IF o.payload.op \in {"put", "delete"} THEN StorePut(st, o.payload.on, o.payload.doc, n) ELSE st
  <2>1. o \in Ops /\ o.seq = n
    OBVIOUS
  <2>. HIDE DEF o
  <2>. QED
    BY <2>1, ApplyWhole
<1>2. o.payload.op \in {"put", "delete"} => o.payload.on \in Keys /\ o.payload.doc \in Docs \cup {NIL}
  <2>1. o \in Ops
    OBVIOUS
  <2>. HIDE DEF o
  <2>. QED
    BY <2>1, PayloadFacts
<1>. HIDE DEF t
<1>3. CASE Writes(o, key)
  <2>. DEFINE doc == o.payload.doc
  <2>1. o.payload.op \in {"put", "delete"} /\ o.payload.on = key /\ doc \in Docs \cup {NIL}
    BY <1>2, <1>3 DEF Writes
  <2>2. t = StorePut(st, key, doc, n)
    BY <1>1, <2>1
  <2>3. IsSequence(st[key]) /\ t[key] = Append(st[key], [seq |-> n, val |-> doc])
    <3>1. doc \in Docs \cup {NIL}
      BY <2>1
    <3>. HIDE DEF doc, o
    <3>. QED
      BY <2>2, <3>1, PutAppends
  <2>4. ChainOf(Append(st[key], [seq |-> n, val |-> os[n + 1].payload.doc]), os, n + 1, key, h)
    BY <1>3, <2>3, ChainGrows
  <2>. QED
    BY <2>3, <2>4 DEF t
<1>4. CASE ~Writes(o, key)
  <2>1. t[key] = st[key]
    <3>1. CASE o.payload.op \in {"put", "delete"}
      <4>1. o.payload.on # key /\ t = StorePut(st, o.payload.on, o.payload.doc, n)
        BY <1>1, <1>4, <3>1 DEF Writes
      <4>. QED
        BY <4>1 DEF StorePut
    <3>2. CASE o.payload.op \notin {"put", "delete"}
      BY <1>1, <3>2
    <3>. QED
      BY <3>1, <3>2
  <2>2. ChainOf(st[key], os, n + 1, key, h)
    BY <1>4, ChainSkips
  <2>. QED
    BY <2>1, <2>2 DEF t
<1>. QED
  BY <1>3, <1>4

\* apply_op of the next op: the relations.
LEMMA FoldRel ==
  ASSUME NEW rl \in [Edges -> Intervals], NEW os, NEW n \in Nat, NEW e \in Edges, RelOf(rl, os, n, e),
         os[n + 1] \in Ops, os[n + 1].seq = n
  PROVE  RelOf(AppliedRels(rl, os[n + 1]), os, n + 1, e)
<1>. DEFINE o == os[n + 1]
            rm == AppliedRels(rl, o)
<1>1. IsSequence(rl[e]) /\ Len(rl[e]) \in Nat
  <2>1. IsSequence(rl[e])
    BY DEF Intervals, IsSequence
  <2>. QED
    BY <2>1, SequenceIsFunction
<1>2. CASE On(o, e) /\ o.payload.op = "link"
  <2>1. rm = RelLink(rl, e, n)
    BY <1>2 DEF AppliedRels, On
  <2>2. rm[e] = IF Linked(rl, e) THEN rl[e] ELSE Append(rl[e], [added |-> n, removed |-> LIVE])
    BY <2>1 DEF RelLink, Linked
  <2>. HIDE DEF rm
  <2>3. RelOf(rm, os, n + 1, e)
    BY <1>1, <1>2, <2>2, RelLinks
  <2>. QED
    BY <2>3 DEF rm
<1>3. CASE On(o, e) /\ o.payload.op = "unlink"
  <2>1. rm = RelUnlink(rl, e, n)
    BY <1>3 DEF AppliedRels, On
  <2>. DEFINE d == [j \in 1..Len(rl[e]) |->
                      IF rl[e][j].removed = LIVE THEN [rl[e][j] EXCEPT !.removed = n] ELSE rl[e][j]]
  <2>2. rm[e] = d
    BY <2>1 DEF RelUnlink
  <2>3. ASSUME NEW j \in 1..Len(rl[e])
        PROVE  /\ d[j].added = rl[e][j].added
               /\ d[j].removed = IF rl[e][j].removed = LIVE THEN n ELSE rl[e][j].removed
    <3>1. rl[e][j] \in [added : Nat, removed : Nat \cup {LIVE}]
      <4>. DEFINE r == rl[e]
                  S == [added : Nat, removed : Nat \cup {LIVE}]
      <4>1. r \in Seq(S) /\ j \in 1..Len(r)
        BY DEF Intervals
      <4>. HIDE DEF r, S
      <4>2. r[j] \in S
        BY <4>1, ElementOfSeq
      <4>. QED
        BY <4>2 DEF r, S
    <3>2. d[j] = IF rl[e][j].removed = LIVE THEN [rl[e][j] EXCEPT !.removed = n] ELSE rl[e][j]
      OBVIOUS
    <3>. HIDE DEF d
    <3>. QED
      BY <3>1, <3>2
  <2>4. Len(d) = Len(rl[e])
    BY <1>1
  <2>. HIDE DEF rm, d
  <2>5. RelOf(rm, os, n + 1, e)
    BY <1>1, <1>3, <2>2, <2>3, <2>4, RelUnlinks
  <2>. QED
    BY <2>5 DEF rm
<1>4. CASE ~On(o, e)
  <2>1. rm[e] = rl[e]
    BY <1>4 DEF AppliedRels, RelLink, RelUnlink, On
  <2>. HIDE DEF rm
  <2>2. RelOf(rm, os, n + 1, e)
    BY <1>4, <2>1, RelSkips
  <2>. QED
    BY <2>2 DEF rm
<1>. QED
  BY <1>2, <1>3, <1>4 DEF On

\* apply_op of the next op.
LEMMA FoldHolds ==
  ASSUME Unhashable = {}, NEW st \in [Keys -> Chains], NEW rl \in [Edges -> Intervals], NEW ix,
         NEW os, NEW n \in Nat, NEW h \in Nat, Holds(st, rl, os, n, h),
         os[n + 1] \in Ops, os[n + 1].seq = n
  PROVE  Holds(AppliedStore(st, ix, os[n + 1]), AppliedRels(rl, os[n + 1]), os, n + 1, h)
BY FoldChain, FoldRel DEF Holds

-----------------------------------------------------------------------------
(* The inductive invariant.  The state in memory stands for a beginning of  *)
(* the log, the snapshot for the log up to its checkpoint, and that part of *)
(* the log is on disk, because a per-op synced call has left nothing in the *)
(* page when it goes on to a checkpoint.                                    *)

Kept(h) == h = 0 \/ \E sn \in snap : h <= sn.seq + 1

\* While the log is replayed onto a snapshot, the state is ahead of pos until pos gets there.
UpTo(n) ==
  IF mode = "replaying"
  THEN /\ pos <= n /\ \A sn \in snap : sn.seq < n
       /\ n = pos \/ \E sn \in snap : n = sn.seq + 1
  ELSE n = IF pc = "fsync" THEN Len(ops) - 1 ELSE Len(ops)

StateHolds ==
  mode \in {"open", "replaying", "healed"} =>
    \E n \in 0..Len(ops), h \in 0..Len(ops) : UpTo(n) /\ Kept(h) /\ Holds(store, rels, ops, n, h)

SnapHolds ==
  /\ \A a, b \in snap : a = b
  /\ \A sn \in snap : /\ sn.seq + 1 \in 1..Len(Recorded(aof))
                      /\ Holds(sn.store, sn.rels, Recorded(aof), sn.seq + 1, sn.seq + 1)

Paged == mode = "open" /\ pc # "fsync" => page = << >>

FoldInv == StateHolds /\ SnapHolds /\ Paged

\* Behind a snapshot no line is ever taken out of the file.
LEMMA RecordsKept ==
  ASSUME TypeInv, LogInv, [Next]_vars
  PROVE  snap = {} \/ IsPrefixOf(Recorded(aof), Recorded(aof'))
<1>1. /\ aof \in Seq(FileLines) /\ page \in Seq(Ops) /\ Recorded(aof) \in Seq(Ops)
      /\ Len(Recorded(aof)) \in Nat /\ Len(page) \in Nat
  BY RecordedFacts, LenProperties DEF TypeInv, TypeOK
<1>2. CASE WritesOut
  <2>. DEFINE r == Recorded(aof)
  <2>1. Recorded(aof') = r \o page
    BY <1>1, <1>2, RecordedConcat DEF WritesOut, Flushed
  <2>. HIDE DEF r
  <2>2. Len(r \o page) = Len(r) + Len(page) /\ \A i \in 1..Len(r) : (r \o page)[i] = r[i]
    BY <1>1, ConcatProperties DEF r
  <2>3. Len(r) \in Nat
    BY <1>1 DEF r
  <2>4. IsPrefixOf(r, r \o page)
    BY <1>1, <2>2, <2>3 DEF IsPrefixOf
  <2>. QED
    BY <2>1, <2>4 DEF r
<1>3. CASE Crash
  BY <1>3, CrashRecords
<1>4. CASE OpenFull
  BY <1>4 DEF OpenFull
<1>5. CASE KeepsFile
  BY <1>1, <1>5 DEF KeepsFile, IsPrefixOf
<1>. QED
  BY <1>2, <1>3, <1>4, <1>5, FileSteps, NeverHealed

\* What the file records stays recorded: the snapshot still stands for it.
LEMMA SnapKept ==
  ASSUME TypeInv, SnapHolds, snap' = snap, aof' \in Seq(FileLines),
         snap = {} \/ IsPrefixOf(Recorded(aof), Recorded(aof'))
  PROVE  SnapHolds'
<1>. SUFFICES ASSUME snap # {} PROVE SnapHolds'
  BY DEF SnapHolds
<1>. DEFINE f == Recorded(aof)
            g == Recorded(aof')
<1>1. Len(f) \in Nat /\ Len(g) \in Nat /\ Len(f) <= Len(g) /\ \A i \in 1..Len(f) : g[i] = f[i]
  BY RecordedFacts, LenProperties DEF TypeInv, TypeOK, IsPrefixOf
<1>2. ASSUME NEW sn \in snap
      PROVE  sn.seq + 1 \in 1..Len(g) /\ Holds(sn.store, sn.rels, g, sn.seq + 1, sn.seq + 1)
  <2>1. sn.seq + 1 \in 1..Len(f) /\ Holds(sn.store, sn.rels, f, sn.seq + 1, sn.seq + 1)
    BY DEF SnapHolds
  <2>. HIDE DEF f, g
  <2>2. sn.seq + 1 \in Nat /\ sn.seq + 1 \in 1..Len(g) /\ \A i \in 1..(sn.seq + 1) : g[i] = f[i]
    BY <1>1, <2>1
  <2>. QED
    BY <2>1, <2>2, HoldsSame
<1>. QED
  BY <1>2 DEF SnapHolds

\* A step that leaves the state and the log alone.
LEMMA StateKept ==
  ASSUME StateHolds, UNCHANGED <<mode, ops, store, rels, snap, pos>>, pc' = "fsync" <=> pc = "fsync"
  PROVE  StateHolds'
<1>. SUFFICES ASSUME mode \in {"open", "replaying", "healed"} PROVE StateHolds'
  BY DEF StateHolds
<1>1. PICK n \in 0..Len(ops), h \in 0..Len(ops) : UpTo(n) /\ Kept(h) /\ Holds(store, rels, ops, n, h)
  BY DEF StateHolds
<1>2. UpTo(n)' /\ Kept(h)'
  BY <1>1 DEF UpTo, Kept
<1>3. Holds(store', rels', ops', n, h) /\ n \in 0..Len(ops') /\ h \in 0..Len(ops')
  BY <1>1
<1>. QED
  BY <1>2, <1>3 DEF StateHolds

\* Every step keeps the state in step with the log.
LEMMA NextState ==
  ASSUME Unserialisable = {}, Unhashable = {}, ~DeferSync, ~FsyncMayFail,
         TypeInv, LogInv, Blank, FoldInv, [Next]_vars
  PROVE  FoldInv'
<1>0. /\ TypeOK /\ TypeOK' /\ ops \in Seq(Ops) /\ ops' \in Seq(Ops)
      /\ Len(ops) \in Nat /\ Len(ops') \in Nat /\ pos \in Nat
      /\ aof \in Seq(FileLines) /\ aof' \in Seq(FileLines)
      /\ store \in [Keys -> Chains] /\ rels \in [Edges -> Intervals]
      /\ StateHolds /\ SnapHolds /\ Paged
  BY NextType, LenProperties DEF TypeInv, TypeOK, FoldInv
<1>1. \A i \in 1..Len(ops) : ops[i] \in Ops /\ ops[i].seq = i - 1
  BY <1>0, ElementOfSeq DEF LogInv, FileHoldsLog, GoodLog, Chained
<1>2. mode \in {"open", "replaying", "healed"} => ops = Recorded(aof) \o page
  BY DEF LogInv, FileHoldsLog
<1>3. snap' = snap => SnapHolds'
  BY <1>0, RecordsKept, SnapKept
<1>4. ASSUME UNCHANGED <<mode, ops, store, rels, snap, pos>>, pc' = "fsync" <=> pc = "fsync", Paged'
      PROVE  FoldInv'
  BY <1>0, <1>3, <1>4, StateKept DEF FoldInv
<1>5. ASSUME mode' \in {"closed", "failed"}, snap' = snap PROVE FoldInv'
  BY <1>3, <1>5 DEF FoldInv, StateHolds, Paged
<1>6. CASE Call
  <2>1. CASE Refuses
    <3>1. UNCHANGED <<mode, ops, store, rels, snap, pos, pc, page>>
      BY <2>1 DEF Refuses
    <3>. QED
      BY <1>0, <1>4, <3>1 DEF Paged
  <2>2. ASSUME NEW o \in Ops, Enters(o) PROVE FoldInv'
    <3>1. /\ mode = "open" /\ mode' = "open" /\ pc = "idle" /\ pc' = "fsync" /\ snap' = snap
          /\ UNCHANGED <<store, rels, pos>> /\ ops' = Append(ops, o)
      BY <2>2 DEF Enters, Follows
    <3>2. Len(ops') = Len(ops) + 1 /\ \A i \in 1..Len(ops) : ops'[i] = ops[i]
      BY <1>0, <3>1, AppendProperties
    <3>3. PICK n \in 0..Len(ops), h \in 0..Len(ops) : UpTo(n) /\ Kept(h) /\ Holds(store, rels, ops, n, h)
      BY <1>0, <3>1 DEF StateHolds
    <3>4. n = Len(ops) /\ n \in Nat
      BY <1>0, <3>1, <3>3 DEF UpTo
    <3>5. Holds(store', rels', ops', n, h)
      BY <3>1, <3>2, <3>3, <3>4, HoldsSame
    <3>6. UpTo(n)' /\ Kept(h)' /\ n \in 0..Len(ops') /\ h \in 0..Len(ops')
      BY <1>0, <3>1, <3>2, <3>3, <3>4 DEF UpTo, Kept
    <3>7. StateHolds'
      BY <3>5, <3>6 DEF StateHolds
    <3>. QED
      BY <1>3, <3>1, <3>7 DEF FoldInv, Paged
  <2>. QED
    BY <1>6, <2>1, <2>2, CallEnters
<1>7. CASE Fsync
  <2>1. /\ mode = "open" /\ mode' = "open" /\ pc = "fsync" /\ pc' # "fsync" /\ ops' = ops /\ snap' = snap
        /\ page' = << >>
        /\ store' = AppliedStore(store, indexed, ops[Len(ops)]) /\ rels' = AppliedRels(rels, ops[Len(ops)])
    BY <1>0, <1>7 DEF Fsync, Apply, log, TypeOK
  <2>2. PICK n \in 0..Len(ops), h \in 0..Len(ops) : UpTo(n) /\ Kept(h) /\ Holds(store, rels, ops, n, h)
    BY <1>0, <2>1 DEF StateHolds
  <2>3. n \in Nat /\ h \in Nat /\ n + 1 = Len(ops) /\ n + 1 \in 1..Len(ops)
    BY <1>0, <2>1, <2>2 DEF UpTo
  <2>4. ops[n + 1] \in Ops /\ ops[n + 1].seq = n
    <3>1. (n + 1) - 1 = n
      BY <2>3
    <3>. QED
      BY <1>1, <2>3, <3>1
  <2>5. Holds(AppliedStore(store, indexed, ops[n + 1]), AppliedRels(rels, ops[n + 1]), ops, n + 1, h)
    BY <1>0, <2>2, <2>3, <2>4, FoldHolds
  <2>6. Holds(store', rels', ops', n + 1, h)
    BY <2>1, <2>3, <2>5
  <2>7. UpTo(n + 1)' /\ Kept(h)' /\ n + 1 \in 0..Len(ops') /\ h \in 0..Len(ops')
    BY <2>1, <2>2, <2>3 DEF UpTo, Kept
  <2>8. StateHolds'
    BY <2>6, <2>7 DEF StateHolds
  <2>. QED
    BY <1>3, <2>1, <2>8 DEF FoldInv, Paged
<1>8. CASE SnapshotRename
  <2>1. /\ mode = "open" /\ mode' = "open" /\ pc = "snapshot" /\ pc' = "snapflush"
        /\ UNCHANGED <<ops, store, rels, aof, page>> /\ snap' = {SnapshotNow}
    BY <1>8 DEF SnapshotRename, log, mat
  <2>2. ops # << >> /\ page = << >>
    BY <1>0, <2>1 DEF TypeInv, CallHasOp, Paged
  <2>3. Len(ops) \in 1..Len(ops) /\ ops[Len(ops)].seq = Len(ops) - 1
    <3>1. Len(ops) # 0
      BY <1>0, <2>2, EmptySeq
    <3>2. Len(ops) \in 1..Len(ops)
      BY <1>0, <3>1
    <3>. QED
      BY <1>1, <3>2
  <2>4. Recorded(aof') = ops
    <3>1. Recorded(aof) \in Seq(Ops)
      BY <1>0, RecordedFacts
    <3>2. Recorded(aof) \o << >> = Recorded(aof)
      BY <3>1, ConcatEmptySeq
    <3>. QED
      BY <1>2, <2>1, <2>2, <3>2
  <2>5. PICK n \in 0..Len(ops), h \in 0..Len(ops) : UpTo(n) /\ Kept(h) /\ Holds(store, rels, ops, n, h)
    BY <1>0, <2>1 DEF StateHolds
  <2>6. n = Len(ops) /\ n \in Nat /\ h \in Nat
    BY <1>0, <2>1, <2>5 DEF UpTo
  <2>. DEFINE sn == SnapshotNow
  <2>7. sn.seq = Len(ops) - 1 /\ sn.rels = rels
    BY <2>3 DEF SnapshotNow
  <2>8. Holds(sn.store, sn.rels, ops, n, n)
    <3>. DEFINE st == [k \in Keys |-> IF store[k] = << >> THEN << >> ELSE <<store[k][Len(store[k])]>>]
    <3>1. Holds(st, rels, ops, n, n)
      BY <1>0, <2>5, <2>6, HeadHolds
    <3>2. sn.store = st /\ sn.rels = rels
      BY DEF SnapshotNow
    <3>. QED
      BY <3>1, <3>2
  <2>. HIDE DEF sn
  <2>9. sn.seq + 1 = n /\ n \in 1..Len(ops)
    BY <1>0, <2>3, <2>6, <2>7
  <2>10. SnapHolds'
    <3>1. snap' = {sn}
      BY <2>1 DEF sn
    <3>. QED
      BY <2>4, <2>8, <2>9, <3>1 DEF SnapHolds
  <2>11. UpTo(n)' /\ Kept(h)'
    <3>1. sn \in snap' /\ h <= sn.seq + 1
      BY <2>1, <2>6, <2>9 DEF sn
    <3>. QED
      BY <2>1, <2>6, <3>1 DEF UpTo, Kept
  <2>12. StateHolds'
    BY <2>1, <2>5, <2>11 DEF StateHolds
  <2>. QED
    BY <2>1, <2>2, <2>10, <2>12 DEF FoldInv, Paged
<1>9. CASE SnapshotFlush \/ Flush
  <2>1. UNCHANGED <<mode, ops, store, rels, snap, pos>> /\ pc # "fsync" /\ pc' # "fsync" /\ page' = << >>
    BY <1>9 DEF SnapshotFlush, Flush, Idle, log, mat
  <2>. QED
    BY <1>4, <2>1 DEF Paged
<1>10. CASE Indexing \/ MetaTruncate \/ MetaWrite
  <2>1. /\ UNCHANGED <<mode, ops, store, rels, snap, pos, page>> /\ pc # "fsync" /\ pc' # "fsync"
    BY <1>10 DEF Indexing, CreateIndex, CreateUnknownIndex, MetaTruncate, MetaWrite, Idle, log, mat, disk
  <2>. QED
    BY <1>0, <1>4, <2>1 DEF Paged
<1>11. CASE Close \/ Crash \/ ReplayRaises \/ OpenFails
  <2>1. mode' \in {"closed", "failed"} /\ snap' = snap
    BY <1>11 DEF Close, Crash, ReplayRaises, OpenFails, disk
  <2>. QED
    BY <1>5, <2>1
<1>12. CASE OpenFull
  <2>1. /\ mode' = "replaying" /\ snap = {} /\ snap' = {} /\ pos' = 0
        /\ store' = EmptyStore /\ rels' = EmptyRels
    BY <1>12 DEF OpenFull, Blank
  <2>2. Holds(store', rels', ops', 0, 0)
    BY <2>1, EmptyHolds
  <2>3. UpTo(0)' /\ Kept(0)' /\ 0 \in 0..Len(ops')
    BY <1>0, <2>1 DEF UpTo, Kept
  <2>4. StateHolds'
    BY <2>2, <2>3 DEF StateHolds
  <2>. QED
    BY <1>3, <2>1, <2>4 DEF FoldInv, Paged
<1>13. CASE OpenSnapshot
  <2>1. PICK s \in snap : /\ store' = s.store /\ rels' = s.rels /\ LoadLog(Decoded(aof))
                          /\ mode \in {"closed", "failed"} /\ mode' = "replaying"
                          /\ UNCHANGED <<pos, disk>>
    BY <1>13 DEF OpenSnapshot
  <2>2. snap' = snap /\ pos' = 0 /\ ops' = Recorded(aof)
    <3>1. ~Corrupt(aof)
      BY <1>13 DEF OpenSnapshot
    <3>2. Decoded(aof) = Recorded(aof)
      BY <1>0, <3>1, DecodedFacts
    <3>. QED
      BY <2>1, <3>2 DEF disk, Blank, LoadLog
  <2>. PICK n \in Nat : n = s.seq + 1
    BY <1>0 DEF TypeOK, Snapshots
  <2>3. n \in 1..Len(ops') /\ Holds(store', rels', ops', n, n)
    BY <1>0, <2>1, <2>2 DEF SnapHolds
  <2>4. \A sn \in snap : sn = s /\ sn.seq \in Nat
    BY <1>0, <2>1 DEF SnapHolds, TypeOK, Snapshots
  <2>5. UpTo(n)' /\ Kept(n)'
    BY <2>1, <2>2, <2>4 DEF UpTo, Kept
  <2>6. StateHolds'
    BY <1>0, <2>3, <2>5 DEF StateHolds
  <2>. QED
    BY <1>3, <2>1, <2>2, <2>6 DEF FoldInv, Paged
<1>14. CASE Replay
  <2>1. /\ mode = "replaying" /\ mode' = "replaying" /\ pos < Len(ops) /\ pos' = pos + 1
        /\ ops' = ops /\ snap' = snap
    BY <1>14 DEF Replay, log, disk
  <2>2. PICK n \in 0..Len(ops), h \in 0..Len(ops) : UpTo(n) /\ Kept(h) /\ Holds(store, rels, ops, n, h)
    BY <1>0, <2>1 DEF StateHolds
  <2>3. /\ n \in Nat /\ h \in Nat /\ pos <= n /\ \A sn \in snap : sn.seq < n
        /\ n = pos \/ \E sn \in snap : n = sn.seq + 1
    BY <1>0, <2>1, <2>2 DEF UpTo
  <2>4. pos + 1 \in 1..Len(ops) /\ ops[pos + 1] \in Ops /\ ops[pos + 1].seq = pos
    <3>1. pos + 1 \in 1..Len(ops) /\ (pos + 1) - 1 = pos
      BY <1>0, <2>1
    <3>. QED
      BY <1>1, <3>1
  <2>5. \A sn \in snap : sn.seq \in Nat
    BY <1>0 DEF TypeOK, Snapshots
  <2>6. CASE Skipped(ops[pos + 1])
    <3>1. store' = store /\ rels' = rels
      BY <1>14, <2>6 DEF Replay
    <3>2. PICK sn \in snap : pos <= sn.seq
      BY <2>4, <2>6 DEF Skipped
    <3>3. pos + 1 <= n /\ \E x \in snap : n = x.seq + 1
      BY <1>0, <2>3, <2>5, <3>2
    <3>4. UpTo(n)' /\ Kept(h)'
      BY <2>1, <2>2, <2>3, <3>3 DEF UpTo, Kept
    <3>5. StateHolds'
      BY <2>1, <2>2, <3>1, <3>4 DEF StateHolds
    <3>. QED
      BY <1>3, <2>1, <3>5 DEF FoldInv, Paged
  <2>7. CASE ~Skipped(ops[pos + 1])
    <3>1. \A sn \in snap : ~(pos <= sn.seq)
      BY <2>4, <2>7 DEF Skipped
    <3>2. n = pos
      BY <1>0, <2>3, <2>5, <3>1
    <3>3. store' = AppliedStore(store, indexed, ops[n + 1]) /\ rels' = AppliedRels(rels, ops[n + 1])
      BY <1>14, <2>7, <3>2 DEF Replay, Apply
    <3>4. Holds(AppliedStore(store, indexed, ops[n + 1]), AppliedRels(rels, ops[n + 1]), ops, n + 1, h)
      BY <1>0, <2>2, <2>3, <2>4, <3>2, FoldHolds
    <3>5. Holds(store', rels', ops', n + 1, h)
      BY <2>1, <3>3, <3>4
    <3>6. \A sn \in snap : sn.seq < n + 1
      BY <2>3, <2>5
    <3>7. UpTo(n + 1)' /\ Kept(h)' /\ n + 1 \in 0..Len(ops') /\ h \in 0..Len(ops')
      BY <1>0, <2>1, <2>2, <2>3, <2>4, <3>2, <3>6 DEF UpTo, Kept
    <3>8. StateHolds'
      BY <3>5, <3>7 DEF StateHolds
    <3>. QED
      BY <1>3, <2>1, <3>8 DEF FoldInv, Paged
  <2>. QED
    BY <2>6, <2>7
<1>15. CASE FinishOpen
  <2>2. /\ mode = "replaying" /\ mode' = "open" /\ pos = Len(ops) /\ ops' = ops
        /\ UNCHANGED <<snap, store, rels, pc, page>>
    BY <1>15 DEF FinishOpen, log, mat, disk
  <2>3. pc' = "idle" /\ page' = << >>
    BY <2>2 DEF TypeInv, NoCallUnlessOpen, LogInv, FileHoldsLog
  <2>4. PICK n \in 0..Len(ops), h \in 0..Len(ops) : UpTo(n) /\ Kept(h) /\ Holds(store, rels, ops, n, h)
    BY <1>0, <2>2 DEF StateHolds
  <2>5. n = Len(ops)
    BY <1>0, <2>2, <2>4 DEF UpTo
  <2>6. UpTo(n)' /\ Kept(h)'
    BY <2>2, <2>3, <2>4, <2>5 DEF UpTo, Kept
  <2>7. StateHolds'
    BY <2>2, <2>4, <2>6 DEF StateHolds
  <2>. QED
    BY <1>3, <2>2, <2>3, <2>7 DEF FoldInv, Paged
<1>16. CASE UNCHANGED vars
  <2>1. UNCHANGED <<mode, ops, store, rels, snap, pos, pc, page>>
    BY <1>16 DEF vars, log, mat, disk
  <2>. QED
    BY <1>0, <1>4, <2>1 DEF Paged
<1>17. ~FsyncFails
  BY DEF FsyncFails
<1>. QED
  BY <1>6, <1>7, <1>8, <1>9, <1>10, <1>11, <1>12, <1>13, <1>14, <1>15, <1>16, <1>17, StepCases,
     NeverHealed

\* State is a pure function of the log: in the embedded, per-op synced use of the engine, with
\* values that can be hashed and written and fsync that does not fail, what a read answers at
\* HEAD and AS OF any seq is what the log says, through every mix of calls, checkpoints,
\* crashes at any byte, repairs and reopens.
THEOREM StateFoldsTheLog ==
  ASSUME Unserialisable = {}, Unhashable = {}, ~DeferSync, ~FsyncMayFail
  PROVE  Spec => []StateIsFold
<1>. DEFINE I == TypeInv /\ LogInv /\ Blank /\ FoldInv
<1>1. Init => I
  <2>1. Init => FoldInv
    BY DEF Init, FoldInv, StateHolds, SnapHolds, Paged
  <2>. QED
    BY <2>1, InitType, InitLog, InitIndex
<1>2. I /\ [Next]_vars => I'
  BY NextType, NextLog, NextBlank, NextState
<1>3. I => StateIsFold
  <2>. SUFFICES ASSUME I, Settled PROVE
         /\ \A key \in Keys : Get(store, key) = FoldedDoc(key, Len(ops))
         /\ \A e \in Edges : Linked(rels, e) <=> FoldedLink(e, Len(ops))
         /\ \A s \in 0..(Len(ops) - 1) :
              /\ (\A sn \in snap : sn.seq <= s) =>
                    \A key \in Keys : GetAsOf(store, key, s) = FoldedDoc(key, s)
              /\ \A e \in Edges : LinkedAsOf(rels, e, s) <=> FoldedLink(e, s)
    BY DEF StateIsFold
  <2>0. /\ TypeOK /\ ops \in Seq(Ops) /\ Len(ops) \in Nat /\ \A i \in 1..Len(ops) : ops[i].seq = i - 1
        /\ \A sn \in snap : sn.seq \in Nat
    BY LenProperties DEF TypeInv, TypeOK, LogInv, FileHoldsLog, GoodLog, Chained, Snapshots
  <2>1. PICK n \in 0..Len(ops), h \in 0..Len(ops) : UpTo(n) /\ Kept(h) /\ Holds(store, rels, ops, n, h)
    BY DEF FoldInv, StateHolds, Settled
  <2>2. n = Len(ops) /\ h \in Nat
    BY <2>0, <2>1 DEF UpTo, Settled
  <2>3. ASSUME NEW key \in Keys
        PROVE  /\ Get(store, key) = FoldedDoc(key, Len(ops))
               /\ \A s \in 0..(Len(ops) - 1) : h <= s + 1 => GetAsOf(store, key, s) = FoldedDoc(key, s)
    BY <2>0, <2>1, <2>2, ChainAgrees DEF Holds
  <2>4. ASSUME NEW s \in 0..(Len(ops) - 1), \A sn \in snap : sn.seq <= s PROVE h <= s + 1
    BY <2>0, <2>1, <2>2, <2>4 DEF Kept
  <2>5. ASSUME NEW e \in Edges
        PROVE  Linked(rels, e) <=> FoldedLink(e, Len(ops))
    <3>1. Len(ops) \in 0..Len(ops) /\ Len(ops) <= Len(ops) + 1
      BY <2>0
    <3>2. FoldedLink(e, Len(ops)) <=> LinkAt(ops, e, Len(ops))
      BY <2>0, <3>1, LinkFolded
    <3>. QED
      BY <2>1, <2>2, <3>2 DEF Holds, RelOf
  <2>6. ASSUME NEW e \in Edges, NEW s \in 0..(Len(ops) - 1)
        PROVE  LinkedAsOf(rels, e, s) <=> FoldedLink(e, s)
    <3>1. s \in Nat /\ s + 1 \in 0..Len(ops)
      BY <2>0
    <3>2. FoldedLink(e, s) <=> LinkAt(ops, e, s + 1)
      BY <2>0, <3>1, LinkFolded
    <3>. QED
      BY <2>1, <2>2, <3>2 DEF Holds, RelOf
  <2>. QED
    BY <2>3, <2>4, <2>5, <2>6
<1>. QED
  BY <1>1, <1>2, <1>3, PTL DEF Spec

-----------------------------------------------------------------------------
(* Self-heal.  An op whose document json.dumps refused is in the memory of  *)
(* one session and in no file, so that the ops logged after it do not       *)
(* continue the chain on disk.  The ops are each consistent all the same,   *)
(* which is what _self_heal_if_needed asks for before it re-links them.     *)

Sound(o) == o.caused_by = {} /\ o.hash = Hash(o.prev_hash, Body(o))

SoundLog ==
  /\ \A i \in 1..Len(ops) : Sound(ops[i])
  /\ \A i \in 1..Len(page) : Sound(page[i])
  /\ \A i \in 1..Len(aof) : Sound(aof[i].op)

HealInv == SoundLog /\ head = HeadOf(ops) /\ (mode \in {"open", "healed"} => Verify(ops))

\* The first n bodies, and one more.
LEMMA BodiesAppend ==
  ASSUME NEW os \in Seq(Ops), NEW i \in 1..Len(os)
  PROVE  [j \in 1..i |-> Body(os[j])] = Hash([j \in 1..(i - 1) |-> Body(os[j])], Body(os[i]))
<1>. DEFINE p == [j \in 1..(i - 1) |-> Body(os[j])]
            q == [j \in 1..i |-> Body(os[j])]
            b == Body(os[i])
<1>0. i \in Nat /\ i - 1 \in Nat
  BY LenProperties
<1>1. IsSequence(p) /\ Len(p) = i - 1 /\ \A j \in 1..(i - 1) : p[j] = q[j]
  <2>1. p = [j \in 1..(i - 1) |-> p[j]]
    OBVIOUS
  <2>2. \A j \in 1..(i - 1) : p[j] = q[j]
    BY <1>0
  <2>. HIDE DEF p
  <2>. QED
    BY <1>0, <2>1, <2>2, FunctionIsSequence
<1>2. q[i] = b /\ q = [j \in 1..i |-> q[j]]
  OBVIOUS
<1>. HIDE DEF p, q, b
<1>3. /\ IsSequence(Append(p, b)) /\ Len(Append(p, b)) = i
      /\ \A j \in 1..(i - 1) : Append(p, b)[j] = p[j]
      /\ Append(p, b)[i] = b
  <2>1. (i - 1) + 1 = i
    BY <1>0
  <2>. QED
    BY <1>1, <2>1, AppendToSequence
<1>4. Append(p, b) = [j \in 1..i |-> Append(p, b)[j]]
  BY <1>3, SequenceIsFunction
<1>5. \A j \in 1..i : Append(p, b)[j] = q[j]
  <2>1. \A j \in 1..i : j \in 1..(i - 1) \/ j = i
    BY <1>0
  <2>. QED
    BY <1>1, <1>2, <1>3, <2>1
<1>6. q = Append(p, b)
  BY <1>2, <1>4, <1>5
<1>. QED
  BY <1>6 DEF Hash, p, q, b

\* Re-linking ops that declare no causes gives a chain that verifies.
LEMMA RelinkedVerifies ==
  ASSUME NEW os \in Seq(Ops), \A i \in 1..Len(os) : Sound(os[i])
  PROVE  /\ Verify(Relinked(os)) /\ Len(Relinked(os)) = Len(os)
         /\ \A i \in 1..Len(os) : /\ Sound(Relinked(os)[i])
                                  /\ Relinked(os)[i].payload = os[i].payload
<1>. DEFINE r == Relinked(os)
<1>0. Len(os) \in Nat /\ \A i \in 1..Len(os) : os[i] \in Ops
  BY LenProperties, ElementOfSeq
<1>1. ASSUME NEW i \in 1..Len(os)
      PROVE  /\ r[i].prev_hash = [j \in 1..(i - 1) |-> Body(os[j])]
             /\ r[i].hash = [j \in 1..i |-> Body(os[j])]
             /\ r[i].caused_by = {} /\ Body(r[i]) = Body(os[i])
             /\ r[i].payload = os[i].payload
  <2>. DEFINE o == os[i]
              x == [j \in 1..(i - 1) |-> Body(os[j])]
              y == [j \in 1..i |-> Body(os[j])]
              t == [o EXCEPT !.prev_hash = x, !.hash = y, !.caused_by = {}]
  <2>1. r[i] = t
    BY DEF Relinked
  <2>2. o \in Ops /\ o.caused_by = {}
    BY <1>0 DEF Sound
  <2>. HIDE DEF o, x, y
  <2>3. /\ t.prev_hash = x /\ t.hash = y /\ t.caused_by = {} /\ t.payload = o.payload
        /\ t.seq = o.seq /\ t.client = o.client /\ t.nonce = o.nonce /\ t.idem = o.idem
    BY <2>2 DEF Ops
  <2>. HIDE DEF t
  <2>4. Body(t) = Body(o)
    BY <2>2, <2>3 DEF Body
  <2>. QED
    BY <2>1, <2>3, <2>4 DEF o, x, y
<1>2. Len(r) = Len(os)
  BY <1>0 DEF Relinked
<1>. HIDE DEF r
<1>3. ASSUME NEW i \in 1..Len(os) PROVE r[i].hash = Hash(r[i].prev_hash, Body(r[i]))
  <2>. DEFINE x == [j \in 1..(i - 1) |-> Body(os[j])]
              y == [j \in 1..i |-> Body(os[j])]
  <2>1. r[i].prev_hash = x /\ r[i].hash = y /\ Body(r[i]) = Body(os[i])
    BY <1>1
  <2>2. y = Hash(x, Body(os[i]))
    BY BodiesAppend
  <2>. HIDE DEF x, y
  <2>. QED
    BY <2>1, <2>2
<1>4. ASSUME NEW i \in 1..Len(os) PROVE r[i].prev_hash = PrevHash(r, i)
  <2>1. CASE i = 1
    <3>1. [j \in 1..(1 - 1) |-> Body(os[j])] = << >>
      OBVIOUS
    <3>. QED
      BY <1>1, <2>1, <3>1 DEF PrevHash, GENESIS
  <2>2. CASE i # 1
    <3>1. i - 1 \in 1..Len(os)
      BY <1>0, <2>2
    <3>. QED
      BY <1>1, <2>2, <3>1 DEF PrevHash
  <2>. QED
    BY <2>1, <2>2
<1>5. Verify(r)
  BY <1>2, <1>3, <1>4 DEF Verify
<1>6. \A i \in 1..Len(os) : Sound(r[i])
  BY <1>1, <1>3 DEF Sound
<1>. QED
  BY <1>1, <1>2, <1>5, <1>6 DEF r

\* An op of the file as a crash leaves it was in the file or in the page.
LEMMA CrashLines ==
  ASSUME TypeInv, Crash
  PROVE  \A i \in 1..Len(aof') : \/ \E j \in 1..Len(aof) : aof'[i].op = aof[j].op
                                 \/ \E j \in 1..Len(page) : aof'[i].op = page[j]
<1>1. PICK n \in 0..Len(page) :
        \/ aof' = aof \o Lines(SubSeq(page, 1, n))
        \/ /\ n < Len(page)
           /\ \E end \in Ends :
                aof' = aof \o Lines(SubSeq(page, 1, n)) \o << [op |-> page[n + 1], end |-> end] >>
  BY DEF Crash
<1>2. /\ aof \in Seq(FileLines) /\ page \in Seq(Ops) /\ Len(page) \in Nat /\ Len(aof) \in Nat
      /\ \A i \in 1..Len(page) : page[i] \in Ops
  BY LenProperties, ElementOfSeq DEF TypeInv, TypeOK
<1>. DEFINE part == SubSeq(page, 1, n)
            whole == aof \o Lines(part)
<1>3. part \in Seq(Ops) /\ Len(part) = n /\ \A j \in 1..n : part[j] = page[j] /\ j \in 1..Len(page)
  BY <1>2, SubSeqProperties
<1>. HIDE DEF part
<1>4. whole \in Seq(FileLines) /\ Len(whole) = Len(aof) + n
      /\ \A i \in 1..Len(whole) : \/ \E j \in 1..Len(aof) : whole[i].op = aof[j].op
                                  \/ \E j \in 1..Len(page) : whole[i].op = page[j]
  <2>. DEFINE l == Lines(part)
  <2>1. l \in Seq(FileLines) /\ Len(l) = n /\ \A j \in 1..n : l[j] = Line(part[j])
    BY <1>3, LinesType
  <2>2. \A j \in 1..n : l[j].op = page[j]
    BY <1>3, <2>1 DEF Line
  <2>. HIDE DEF l
  <2>3. /\ aof \o l \in Seq(FileLines) /\ Len(aof \o l) = Len(aof) + n
        /\ \A i \in 1..(Len(aof) + n) : (aof \o l)[i] = IF i <= Len(aof) THEN aof[i] ELSE l[i - Len(aof)]
    BY <1>2, <2>1, ConcatProperties
  <2>5. ASSUME NEW i \in 1..(Len(aof) + n)
        PROVE  \/ \E j \in 1..Len(aof) : (aof \o l)[i].op = aof[j].op
               \/ \E j \in 1..Len(page) : (aof \o l)[i].op = page[j]
    <3>1. CASE i <= Len(aof)
      <4>1. i \in 1..Len(aof) /\ (aof \o l)[i] = aof[i]
        BY <1>2, <2>3, <3>1
      <4>. QED
        BY <4>1
    <3>2. CASE ~(i <= Len(aof))
      <4>1. i - Len(aof) \in 1..n
        BY <1>2, <3>2
      <4>2. (aof \o l)[i].op = page[i - Len(aof)] /\ i - Len(aof) \in 1..Len(page)
        BY <1>3, <2>2, <2>3, <3>2, <4>1
      <4>. QED
        BY <4>2
    <3>. QED
      BY <3>1, <3>2
  <2>. QED
    BY <2>3, <2>5 DEF l
<1>. HIDE DEF whole
<1>5. CASE aof' = whole
  BY <1>4, <1>5
<1>6. ASSUME n < Len(page), NEW end \in Ends, aof' = whole \o << [op |-> page[n + 1], end |-> end] >>
      PROVE  \A i \in 1..Len(aof') : \/ \E j \in 1..Len(aof) : aof'[i].op = aof[j].op
                                     \/ \E j \in 1..Len(page) : aof'[i].op = page[j]
  <2>. DEFINE cut == [op |-> page[n + 1], end |-> end]
              g == Append(whole, cut)
  <2>1. cut \in FileLines /\ cut.op = page[n + 1] /\ n + 1 \in 1..Len(page)
    BY <1>2, <1>6, EngineAssumption DEF FileLines
  <2>. HIDE DEF cut
  <2>2. aof' = g
    <3>1. aof' = whole \o <<cut>>
      BY <1>6 DEF cut
    <3>. QED
      BY <1>4, <2>1, <3>1, AppendIsConcat
  <2>3. /\ Len(whole) \in Nat /\ Len(g) = Len(whole) + 1 /\ g[Len(whole) + 1] = cut
        /\ \A i \in 1..Len(whole) : g[i] = whole[i]
    BY <1>4, <2>1, AppendProperties, LenProperties
  <2>. HIDE DEF g
  <2>4. \A i \in 1..Len(g) : i \in 1..Len(whole) \/ i = Len(whole) + 1
    BY <2>3
  <2>. QED
    BY <1>4, <2>1, <2>2, <2>3, <2>4
<1>. QED
  BY <1>1, <1>5, <1>6 DEF whole, part

\* An op of the file after a flush was in the file or in the page.
LEMMA FlushedLines ==
  ASSUME aof \in Seq(FileLines), page \in Seq(Ops)
  PROVE  \A i \in 1..Len(Flushed) : \/ \E j \in 1..Len(aof) : Flushed[i].op = aof[j].op
                                    \/ \E j \in 1..Len(page) : Flushed[i].op = page[j]
<1>. DEFINE r == Recorded(aof)
            g == r \o page
<1>0. Len(aof) \in Nat /\ Len(page) \in Nat
  BY LenProperties
<1>1. r \in Seq(Ops) /\ Len(r) = Len(aof) /\ \A j \in 1..Len(aof) : r[j] = aof[j].op
  BY RecordedFacts
<1>2. Flushed \in Seq(FileLines) /\ Recorded(Flushed) = g
  BY FlushedType, RecordedConcat DEF Flushed
<1>. HIDE DEF r
<1>3. Len(g) = Len(aof) + Len(page)
      /\ \A i \in 1..(Len(aof) + Len(page)) : g[i] = IF i <= Len(aof) THEN r[i] ELSE page[i - Len(aof)]
  <2>1. Len(g) = Len(r) + Len(page)
        /\ \A i \in 1..(Len(r) + Len(page)) : g[i] = IF i <= Len(r) THEN r[i] ELSE page[i - Len(r)]
    BY <1>1, ConcatProperties
  <2>. QED
    BY <1>1, <2>1
<1>. HIDE DEF g
<1>4. Len(Flushed) = Len(g) /\ \A i \in 1..Len(Flushed) : Flushed[i].op = g[i]
  BY <1>2, RecordedFacts
<1>5. ASSUME NEW i \in 1..Len(g)
      PROVE  \/ \E j \in 1..Len(aof) : g[i] = aof[j].op
             \/ \E j \in 1..Len(page) : g[i] = page[j]
  <2>1. CASE i <= Len(aof)
    <3>1. i \in 1..Len(aof) /\ g[i] = aof[i].op
      BY <1>0, <1>1, <1>3, <2>1
    <3>. QED
      BY <3>1
  <2>2. CASE ~(i <= Len(aof))
    <3>1. i - Len(aof) \in 1..Len(page) /\ g[i] = page[i - Len(aof)]
      BY <1>0, <1>3, <2>2
    <3>. QED
      BY <3>1
  <2>. QED
    BY <2>1, <2>2
<1>. QED
  BY <1>4, <1>5

\* The lines of a rewritten file.
LEMMA RewrittenLines ==
  ASSUME NEW os \in Seq(Ops)
  PROVE  \A i \in 1..Len(Lines(os)) : i \in 1..Len(os) /\ Lines(os)[i].op = os[i]
<1>. DEFINE l == Lines(os)
<1>1. Len(l) = Len(os) /\ \A i \in 1..Len(os) : l[i] = Line(os[i])
  BY LinesType
<1>. HIDE DEF l
<1>2. \A i \in 1..Len(l) : i \in 1..Len(os) /\ l[i].op = os[i]
  <2>1. \A i \in 1..Len(os) : Line(os[i]).op = os[i]
    BY DEF Line
  <2>. QED
    BY <1>1, <2>1
<1>. QED
  BY <1>2 DEF l

\* Self-repair writes nothing that the file did not hold.
LEMMA RepairedLines ==
  ASSUME NEW f \in Seq(FileLines)
  PROVE  \A i \in 1..Len(Repaired(f)) : \E j \in 1..Len(f) : Repaired(f)[i].op = f[j].op
<1>. DEFINE os == Decoded(f)
<1>1. os \in Seq(Ops) /\ \A i \in 1..Len(os) : i \in 1..Len(f) /\ os[i] = f[i].op
  BY DecodedType, ReadableType, LenProperties
<1>. HIDE DEF os
<1>2. \A i \in 1..Len(Lines(os)) : \E j \in 1..Len(f) : Lines(os)[i].op = f[j].op
  BY <1>1, RewrittenLines
<1>. QED
  BY <1>2 DEF Repaired, os

\* The chain goes on after one more op.
LEMMA VerifyAppend ==
  ASSUME NEW os \in Seq(Ops), NEW o \in Ops, o.prev_hash = HeadOf(os), o.hash = Hash(o.prev_hash, Body(o))
  PROVE  HeadOf(Append(os, o)) = o.hash /\ (Verify(os) => Verify(Append(os, o)))
<1>. DEFINE t == Append(os, o)
<1>1. /\ Len(os) \in Nat /\ Len(t) = Len(os) + 1 /\ t[Len(os) + 1] = o /\ \A i \in 1..Len(os) : t[i] = os[i]
  BY LenProperties, AppendProperties
<1>. HIDE DEF t
<1>2. HeadOf(t) = o.hash
  BY <1>1 DEF HeadOf, PrevHash
<1>3. \A i \in 1..(Len(os) + 1) : PrevHash(t, i) = PrevHash(os, i)
  BY <1>1 DEF PrevHash
<1>4. ASSUME Verify(os), NEW i \in 1..Len(t)
      PROVE  t[i].prev_hash = PrevHash(t, i) /\ t[i].hash = Hash(t[i].prev_hash, Body(t[i]))
  <2>1. CASE i \in 1..Len(os)
    BY <1>1, <1>3, <1>4, <2>1 DEF Verify
  <2>2. CASE i = Len(os) + 1
    BY <1>1, <1>3, <2>2 DEF HeadOf
  <2>. QED
    BY <1>1, <2>1, <2>2
<1>5. Verify(os) => Verify(t)
  BY <1>4 DEF Verify
<1>. QED
  BY <1>2, <1>5 DEF t

\* Every step keeps the ops sound and an open log verified.
LEMMA NextHeal ==
  ASSUME Causes \subseteq {{}}, TypeInv, HealInv, [Next]_vars
  PROVE  HealInv'
<1>0. /\ ops \in Seq(Ops) /\ page \in Seq(Ops) /\ aof \in Seq(FileLines)
      /\ Len(ops) \in Nat /\ Len(page) \in Nat /\ Len(aof) \in Nat /\ SoundLog /\ head = HeadOf(ops)
  BY LenProperties DEF TypeInv, TypeOK, HealInv
<1>1. ASSUME UNCHANGED <<ops, head, page, aof>>,
             mode' \in {"open", "healed"} => mode \in {"open", "healed"}
      PROVE  HealInv'
  BY <1>1 DEF HealInv, SoundLog
<1>2. ASSUME Forget, mode' \notin {"open", "healed"}, \A i \in 1..Len(aof') : Sound(aof'[i].op) PROVE HealInv'
  <2>1. ops' = << >> /\ page' = << >> /\ head' = GENESIS /\ Len(<< >>) = 0
    BY <1>2 DEF Forget
  <2>. QED
    BY <1>2, <2>1, EmptyLog DEF HealInv, SoundLog
<1>3. CASE Call
  <2>1. CASE Refuses
    <3>1. UNCHANGED <<mode, ops, page, aof>>
      BY <2>1 DEF Refuses
    <3>2. head' = head
      BY <2>1 DEF Refuses
    <3>. QED
      BY <1>1, <3>1, <3>2
  <2>2. ASSUME NEW o \in Ops, Enters(o) \/ Drops(o) PROVE HealInv'
    <3>1. /\ Follows(o) /\ aof' = aof /\ mode = "open" /\ ops' = Append(ops, o) /\ head' = o.hash
          /\ o.prev_hash = HeadOf(ops) /\ o.hash = Hash(o.prev_hash, Body(o)) /\ o.caused_by = {}
          /\ page' = page \/ page' = Append(page, o)
      BY <1>0, <2>2 DEF Enters, Drops, Follows
    <3>2. Sound(o)
      BY <3>1 DEF Sound
    <3>3. Verify(ops') /\ head' = HeadOf(ops')
      BY <1>0, <3>1, VerifyAppend DEF HealInv
    <3>4. \A i \in 1..Len(ops') : Sound(ops'[i])
      <4>1. /\ Len(ops') = Len(ops) + 1 /\ ops'[Len(ops) + 1] = o /\ \A i \in 1..Len(ops) : ops'[i] = ops[i]
        BY <1>0, <3>1, AppendProperties
      <4>2. \A i \in 1..Len(ops') : i \in 1..Len(ops) \/ i = Len(ops) + 1
        BY <1>0, <4>1
      <4>. QED
        BY <1>0, <3>2, <4>1, <4>2 DEF SoundLog
    <3>5. \A i \in 1..Len(page') : Sound(page'[i])
      <4>1. CASE page' = page
        BY <1>0, <4>1 DEF SoundLog
      <4>2. CASE page' = Append(page, o)
        <5>1. /\ Len(page') = Len(page) + 1 /\ page'[Len(page) + 1] = o
              /\ \A i \in 1..Len(page) : page'[i] = page[i]
          BY <1>0, <4>2, AppendProperties
        <5>2. \A i \in 1..Len(page') : i \in 1..Len(page) \/ i = Len(page) + 1
          BY <1>0, <5>1
        <5>. QED
          BY <1>0, <3>2, <5>1, <5>2 DEF SoundLog
      <4>. QED
        BY <3>1, <4>1, <4>2
    <3>. QED
      BY <1>0, <3>1, <3>3, <3>4, <3>5 DEF HealInv, SoundLog
  <2>. QED
    BY <1>3, <2>1, <2>2, CallSteps
<1>4. \A i \in 1..Len(Flushed) : Sound(Flushed[i].op)
  BY <1>0, FlushedLines DEF SoundLog
<1>5. CASE Fsync \/ SnapshotFlush \/ Flush
  <2>1. aof' = Flushed /\ page' = << >> /\ UNCHANGED <<mode, ops, head>> /\ Len(<< >>) = 0
    BY <1>5 DEF Fsync, SnapshotFlush, Flush, log
  <2>. QED
    BY <1>4, <2>1 DEF HealInv, SoundLog
<1>6. CASE Close
  BY <1>2, <1>4, <1>6 DEF Close
<1>7. CASE Crash
  <2>1. \A i \in 1..Len(aof') : Sound(aof'[i].op)
    BY <1>0, <1>7, CrashLines DEF SoundLog
  <2>. QED
    BY <1>2, <1>7, <2>1 DEF Crash
<1>8. CASE ReplayRaises
  BY <1>0, <1>2, <1>8 DEF ReplayRaises, SoundLog
<1>9. CASE OpenFull \/ OpenSnapshot
  <2>1. /\ mode' = "replaying" /\ page' = page /\ ops' = Decoded(aof) /\ head' = HeadOf(Decoded(aof))
        /\ aof' = aof \/ aof' = Repaired(aof)
    BY <1>9 DEF OpenFull, OpenSnapshot, LoadLog, disk
  <2>2. \A i \in 1..Len(ops') : Sound(ops'[i])
    <3>1. \A i \in 1..Len(Decoded(aof)) : i \in 1..Len(aof) /\ Decoded(aof)[i] = aof[i].op
      BY <1>0, DecodedType, ReadableType
    <3>. QED
      BY <1>0, <2>1, <3>1 DEF SoundLog
  <2>3. \A i \in 1..Len(aof') : Sound(aof'[i].op)
    BY <1>0, <2>1, RepairedLines DEF SoundLog
  <2>. QED
    BY <1>0, <2>1, <2>2, <2>3 DEF HealInv, SoundLog
<1>10. CASE FinishOpen \/ Heal
  <2>. DEFINE healed == SelfHeal(ops)
  <2>1. InternallyValid(ops)
    BY <1>0 DEF InternallyValid, SoundLog, Sound
  <2>2. /\ Verify(healed) /\ healed \in Seq(Ops) /\ \A i \in 1..Len(healed) : Sound(healed[i])
    <3>1. CASE Verify(ops)
      BY <1>0, <3>1 DEF SelfHeal, SoundLog
    <3>2. CASE ~Verify(ops)
      <4>1. healed = Relinked(ops)
        BY <2>1, <3>2 DEF SelfHeal
      <4>2. healed \in Seq(Ops)
        BY <1>0, SelfHealType
      <4>. QED
        BY <1>0, <4>1, <4>2, RelinkedVerifies DEF SoundLog
    <3>. QED
      BY <3>1, <3>2
  <2>. HIDE DEF healed
  <2>3. /\ ops' = healed /\ head' = HeadOf(healed) /\ page' = page
        /\ aof' = aof \/ aof' = Lines(healed)
    <3>1. CASE FinishOpen
      BY <1>0, <3>1 DEF FinishOpen, healed, log, disk
    <3>2. CASE Heal
      BY <3>2 DEF Heal, healed
    <3>. QED
      BY <1>10, <3>1, <3>2
  <2>4. \A i \in 1..Len(aof') : Sound(aof'[i].op)
    BY <1>0, <2>2, <2>3, RewrittenLines DEF SoundLog
  <2>. QED
    BY <1>0, <2>2, <2>3, <2>4 DEF HealInv, SoundLog
<1>11. CASE \/ FsyncFails \/ SnapshotRename \/ Indexing \/ MetaTruncate \/ MetaWrite \/ OpenFails
            \/ Replay \/ DropSnapshot \/ UNCHANGED vars
  <2>1. UNCHANGED <<ops, head, page, aof>> /\ (mode' \in {"open", "healed"} => mode \in {"open", "healed"})
    BY <1>11 DEF FsyncFails, SnapshotRename, Indexing, CreateIndex, CreateUnknownIndex, MetaTruncate,
                 MetaWrite, OpenFails, Replay, DropSnapshot, vars, log, mat, disk
  <2>. QED
    BY <1>1, <2>1
<1>. QED
  BY <1>3, <1>5, <1>6, <1>7, <1>8, <1>9, <1>10, <1>11, StepCases

\* An open database verifies: self-heal repairs every chain that ops missing from the file have
\* broken, whatever documents could not be written, fsyncs failed, and lines were cut, as long
\* as no op declares causes (a re-linked op loses them, although they are under its hash).
THEOREM SelfHealRepairs ==
  ASSUME Causes \subseteq {{}}
  PROVE  Spec => []OpenVerifies
<1>1. Init => HealInv
  <2>. SUFFICES ASSUME Init PROVE HealInv
    OBVIOUS
  <2>1. ops = << >> /\ page = << >> /\ aof = << >> /\ head = GENESIS /\ mode = "closed" /\ Len(<< >>) = 0
    BY DEF Init
  <2>. QED
    BY <2>1, EmptyLog DEF HealInv, SoundLog
<1>2. TypeInv /\ HealInv /\ [Next]_vars => (TypeInv /\ HealInv)'
  BY NextType, NextHeal
<1>3. HealInv => OpenVerifies
  BY DEF HealInv, OpenVerifies
<1>. QED
  BY InitType, <1>1, <1>2, <1>3, PTL DEF Spec

-----------------------------------------------------------------------------
(* Opening.  Every version of a document, in memory and in the snapshot, is *)
(* of an op that a line of the file was written from: a per-op synced call  *)
(* applies its op only after the line is on disk, and replay applies what   *)
(* was read.  A file that is being replayed is read to its end.             *)

Logged(f, v) == \E i \in 1..Len(f) : f[i].op.payload.doc = v

AllLogged(st, f) == \A k \in Keys : \A j \in 1..Len(st[k]) : Logged(f, st[k][j].val)

\* While the log is replayed: the indexes are those of the saved configuration, and the
\* ordered one holds values of the log that can be compared with each other or not at all.
ReplayedIndexes ==
  /\ indexed => "eq" \in SavedKinds
  /\ "ordered" \in others => "ordered" \in SavedKinds
  /\ \A p \in Docs \X Keys :
       sorted[p] > 0 => Logged(aof, p[1]) /\ p[1] \notin Unhashable /\ "ordered" \in SavedKinds

LoadInv ==
  /\ Blank
  /\ AllLogged(store, aof) /\ \A sn \in snap : AllLogged(sn.store, aof)
  /\ mode = "replaying" => ~Corrupt(aof) /\ ops = Recorded(aof) /\ ReplayedIndexes
  /\ pc = "fsync" => page # << >> /\ page[Len(page)] = ops[Len(ops)]

\* A line of a file that others were appended to is where it was.
LEMMA LoggedGrows ==
  ASSUME NEW f \in Seq(FileLines), NEW g \in Seq(FileLines), IsPrefixOf(f, g)
  PROVE  \A v : Logged(f, v) => Logged(g, v)
<1>1. Len(f) \in Nat /\ Len(g) \in Nat
  BY LenProperties
<1>2. \A i \in 1..Len(f) : i \in 1..Len(g) /\ g[i] = f[i]
  BY <1>1 DEF IsPrefixOf
<1>. QED
  BY <1>2 DEF Logged

\* apply_op adds no value but the op's own.
LEMMA ApplyLogged ==
  ASSUME NEW st \in [Keys -> Chains], NEW ix, NEW o \in Ops, NEW f, AllLogged(st, f), Logged(f, o.payload.doc)
  PROVE  AllLogged(AppliedStore(st, ix, o), f)
<1>. DEFINE t == AppliedStore(st, ix, o)
<1>1. CASE t = st
  BY <1>1
<1>2. CASE t # st
  <2>. DEFINE key == o.payload.on
              v   == [seq |-> o.seq, val |-> o.payload.doc]
              c   == st[key]
  <2>1. t = StorePut(st, key, o.payload.doc, o.seq) /\ key \in Keys
    BY <1>2, PayloadFacts DEF AppliedStore
  <2>2. t[key] = Append(c, v) /\ (\A k \in Keys \ {key} : t[k] = st[k]) /\ v.val = o.payload.doc
    BY <2>1 DEF StorePut
  <2>3. IsSequence(c) /\ key \in Keys
    BY <2>1 DEF Chains, IsSequence
  <2>. HIDE DEF t, c, v, key
  <2>4. /\ Len(c) \in Nat /\ Len(Append(c, v)) = Len(c) + 1 /\ Append(c, v)[Len(c) + 1] = v
        /\ \A j \in 1..Len(c) : Append(c, v)[j] = c[j]
    BY <2>3, AppendToSequence, SequenceIsFunction
  <2>5. \A j \in 1..Len(Append(c, v)) : j \in 1..Len(c) \/ j = Len(c) + 1
    BY <2>4
  <2>6. \A j \in 1..Len(Append(c, v)) : Logged(f, Append(c, v)[j].val)
    <3>1. \A j \in 1..Len(c) : Logged(f, c[j].val)
      BY <2>3 DEF AllLogged, c
    <3>. QED
      BY <2>2, <2>4, <2>5, <3>1
  <2>7. \A k \in Keys : k # key => \A j \in 1..Len(t[k]) : Logged(f, t[k][j].val)
    BY <2>2 DEF AllLogged
  <2>8. AllLogged(t, f)
    BY <2>2, <2>6, <2>7 DEF AllLogged
  <2>. QED
    BY <2>8 DEF t
<1>. QED
  BY <1>1, <1>2

\* A checkpoint keeps some of the versions.
LEMMA HeadLogged ==
  ASSUME NEW st \in [Keys -> Chains], NEW f, AllLogged(st, f)
  PROVE  AllLogged([k \in Keys |-> IF st[k] = << >> THEN << >> ELSE <<st[k][Len(st[k])]>>], f)
<1>. DEFINE t == [k \in Keys |-> IF st[k] = << >> THEN << >> ELSE <<st[k][Len(st[k])]>>]
<1>1. ASSUME NEW k \in Keys, NEW j \in 1..Len(t[k]) PROVE Logged(f, t[k][j].val)
  <2>. DEFINE c == st[k]
              v == c[Len(c)]
  <2>1. IsSequence(c) /\ t[k] = IF c = << >> THEN << >> ELSE <<v>>
    BY DEF Chains, IsSequence
  <2>2. c # << >> /\ t[k] = <<v>>
    BY <2>1
  <2>3. j = 1 /\ t[k][j] = v
    BY <2>2
  <2>4. Len(c) \in 1..Len(c)
    <3>1. Len(c) \in Nat
      BY <2>1, SequenceIsFunction
    <3>2. Len(c) # 0
      BY <2>1, <2>2, EmptySeq DEF IsSequence
    <3>. QED
      BY <3>1, <3>2
  <2>. QED
    BY <2>3, <2>4 DEF AllLogged
<1>. HIDE DEF t
<1>2. AllLogged(t, f)
  BY <1>1 DEF AllLogged
<1>. QED
  BY <1>2 DEF t

\* A value that get() finds is logged.
LEMMA GetLogged ==
  ASSUME NEW st \in [Keys -> Chains], NEW f, AllLogged(st, f), NEW k \in Keys, Get(st, k) # NIL
  PROVE  Logged(f, Get(st, k))
<1>. DEFINE c == st[k]
<1>1. IsSequence(c) /\ c # << >> /\ Get(st, k) = c[Len(c)].val
  BY DEF Get, Chains, IsSequence
<1>2. Len(c) \in 1..Len(c)
  <2>1. Len(c) \in Nat
    BY <1>1, SequenceIsFunction
  <2>2. Len(c) # 0
    BY <1>1, EmptySeq DEF IsSequence
  <2>. QED
    BY <2>1, <2>2
<1>. QED
  BY <1>1, <1>2 DEF AllLogged

\* The re-linked ops carry the payloads of the old ones.
LEMMA HealedPayloads ==
  ASSUME NEW os \in Seq(Ops)
  PROVE  /\ SelfHeal(os) \in Seq(Ops) /\ Len(SelfHeal(os)) = Len(os)
         /\ \A i \in 1..Len(os) : SelfHeal(os)[i].payload = os[i].payload
<1>1. Len(os) \in Nat /\ \A i \in 1..Len(os) : os[i] \in Ops
  BY LenProperties, ElementOfSeq
<1>2. ASSUME NEW i \in 1..Len(os) PROVE Relinked(os)[i].payload = os[i].payload
  <2>. DEFINE o == os[i]
              x == [j \in 1..(i - 1) |-> Body(os[j])]
              y == [j \in 1..i |-> Body(os[j])]
              t == [o EXCEPT !.prev_hash = x, !.hash = y, !.caused_by = {}]
  <2>1. Relinked(os)[i] = t
    BY DEF Relinked
  <2>2. o \in Ops
    BY <1>1
  <2>. HIDE DEF o, x, y
  <2>3. t.payload = o.payload
    BY <2>2 DEF Ops
  <2>. QED
    BY <2>1, <2>3 DEF o
<1>. QED
  BY <1>2, SelfHealType DEF SelfHeal

\* Nothing is logged of an empty store.
LEMMA EmptyLogged == \A f : AllLogged(EmptyStore, f)
<1>1. Len(<< >>) = 0
  OBVIOUS
<1>. QED
  BY <1>1 DEF AllLogged, EmptyStore

\* Whatever becomes of the file, it keeps the values that the state and the snapshot
\* hold: lines are appended, or an empty database is opened, or the log is re-linked.
LEMMA ValuesStay ==
  ASSUME TypeInv, LoadInv, [Next]_vars
  PROVE  AllLogged(store, aof') /\ \A sn \in snap : AllLogged(sn.store, aof')
<1>0. /\ ops \in Seq(Ops) /\ aof \in Seq(FileLines) /\ aof' \in Seq(FileLines) /\ page \in Seq(Ops)
      /\ Len(aof) \in Nat
  BY NextType, LenProperties DEF TypeInv, TypeOK
<1>1. ASSUME \A v : Logged(aof, v) => Logged(aof', v)
      PROVE  AllLogged(store, aof') /\ \A sn \in snap : AllLogged(sn.store, aof')
  BY <1>1 DEF LoadInv, AllLogged
<1>2. CASE WritesOut
  BY <1>0, <1>1, <1>2, AppendedLines, LoggedGrows DEF WritesOut, Flushed
<1>3. CASE Crash
  BY <1>0, <1>1, <1>3, CrashFile, LoggedGrows
<1>4. CASE OpenFull
  <2>1. store = EmptyStore /\ snap = {}
    BY <1>4 DEF OpenFull, LoadInv, Blank
  <2>. QED
    BY <2>1, EmptyLogged
<1>5. CASE Heal
  <2>. DEFINE healed == SelfHeal(ops)
  <2>1. aof' = Lines(healed) /\ ops = Recorded(aof)
    BY <1>5 DEF Heal, LoadInv
  <2>2. /\ healed \in Seq(Ops) /\ Len(healed) = Len(ops)
        /\ \A i \in 1..Len(ops) : healed[i].payload = ops[i].payload
    BY <1>0, HealedPayloads
  <2>. HIDE DEF healed
  <2>3. Len(aof') = Len(healed) /\ \A i \in 1..Len(healed) : aof'[i].op = healed[i]
    BY <2>1, <2>2, WrittenLines
  <2>4. Len(ops) = Len(aof) /\ \A i \in 1..Len(aof) : ops[i] = aof[i].op
    BY <1>0, <2>1, RecordedFacts
  <2>5. Len(aof') = Len(aof) /\ \A i \in 1..Len(aof) : aof'[i].op.payload = aof[i].op.payload
    BY <2>2, <2>3, <2>4
  <2>6. \A v : Logged(aof, v) => Logged(aof', v)
    BY <2>5 DEF Logged
  <2>. QED
    BY <1>1, <2>6
<1>6. CASE KeepsFile
  BY <1>1, <1>6 DEF KeepsFile
<1>. QED
  BY <1>2, <1>3, <1>4, <1>5, <1>6, FileSteps

\* Reading a file to its end.
LEMMA ReadToEnd ==
  ASSUME NEW f \in Seq(FileLines), ~Corrupt(f)
  PROVE  Decoded(f) = Recorded(f) /\ Readable(f) = Len(f)
<1>1. Len(f) \in Nat /\ Readable(f) \in 0..Len(f)
  BY LenProperties, ReadableType
<1>. QED
  BY <1>1, DecodedFacts DEF Corrupt

\* Sorting in documents puts in no others.
LEMMA SortedIn ==
  ASSUME NEW p \in Docs \X Keys
  PROVE  /\ NoneSorted[p] = 0
         /\ \A pairs : SortedWith(NoneSorted, pairs)[p] > 0 => p \in pairs /\ p[1] \notin Unhashable
<1>1. NoneSorted[p] = 0
  BY DEF NoneSorted
<1>. QED
  BY <1>1 DEF SortedWith

\* Folding one op sorts in no value but the op's own.
LEMMA SortedOne ==
  ASSUME NEW sd \in [Docs \X Keys -> Nat], NEW st \in [Keys -> Chains], NEW o \in Ops,
         NEW ix, NEW ordered, NEW p \in Docs \X Keys
  PROVE  /\ o.payload.op = "put" /\ Unsorted(st, sd, o)[p] > 0 => sd[p] > 0
         /\ AppliedSorted(st, sd, ix, ordered, o)[p] > 0 =>
              \/ sd[p] > 0
              \/ ordered /\ p[1] = o.payload.doc /\ p[1] \notin Unhashable
<1>1. ASSUME o.payload.op \in {"put", "delete"}
      PROVE  /\ Unsorted(st, sd, o) \in [Docs \X Keys -> Nat]
             /\ Unsorted(st, sd, o)[p] > 0 => sd[p] > 0
  <2>. DEFINE key == o.payload.on
              old == Get(st, key)
  <2>1. key \in Keys
    BY <1>1, PayloadFacts
  <2>2. old \in Docs \cup {NIL}
    BY <2>1, GetType
  <2>. HIDE DEF old
  <2>3. CASE old = NIL
    BY <2>3 DEF Unsorted, old
  <2>4. CASE old # NIL
    <3>. DEFINE q == <<old, key>>
                s2 == SortRemove(sd, q)
    <3>1. q \in Docs \X Keys
      BY <2>1, <2>2, <2>4
    <3>. HIDE DEF q
    <3>2. /\ s2 \in [Docs \X Keys -> Nat]
          /\ s2[p] > 0 => sd[p] > 0
      BY <3>1, SortType DEF SortRemove
    <3>3. Unsorted(st, sd, o) = s2
      BY <2>4 DEF Unsorted, old, q
    <3>. QED
      BY <3>2, <3>3
  <2>. QED
    BY <2>3, <2>4
<1>2. ASSUME AppliedSorted(st, sd, ix, ordered, o)[p] > 0
      PROVE  \/ sd[p] > 0
             \/ ordered /\ p[1] = o.payload.doc /\ p[1] \notin Unhashable
  <2>. DEFINE rest == Unsorted(st, sd, o)
              q == <<o.payload.doc, o.payload.on>>
  <2>1. CASE AppliedSorted(st, sd, ix, ordered, o) = sd
    BY <1>2, <2>1
  <2>2. CASE AppliedSorted(st, sd, ix, ordered, o) # sd
    <3>1. o.payload.op \in {"put", "delete"}
      BY <2>2 DEF AppliedSorted
    <3>2. \/ AppliedSorted(st, sd, ix, ordered, o) = rest
          \/ /\ ordered /\ o.payload.doc \notin Unhashable
             /\ AppliedSorted(st, sd, ix, ordered, o) = SortAdd(rest, q)
      BY <2>2 DEF AppliedSorted
    <3>3. rest \in [Docs \X Keys -> Nat] /\ (rest[p] > 0 => sd[p] > 0)
      BY <1>1, <3>1
    <3>. HIDE DEF rest
    <3>4. SortAdd(rest, q)[p] > 0 => p = q \/ rest[p] > 0
      BY <3>3 DEF SortAdd
    <3>. QED
      BY <1>2, <3>2, <3>3, <3>4
  <2>. QED
    BY <2>1, <2>2
<1>. QED
  BY <1>1, <1>2

\* Every step keeps what the state and the snapshot hold in the file.
LEMMA NextLoad ==
  ASSUME ~DeferSync, TypeInv, LoadInv, [Next]_vars
  PROVE  LoadInv'
<1>0. /\ TypeOK /\ TypeOK'
      /\ ops \in Seq(Ops) /\ page \in Seq(Ops) /\ aof \in Seq(FileLines) /\ aof' \in Seq(FileLines)
      /\ store \in [Keys -> Chains] /\ Len(page) \in Nat /\ sorted \in [Docs \X Keys -> Nat]
      /\ pc = "fsync" => page # << >> /\ page[Len(page)] = ops[Len(ops)]
  BY NextType, LenProperties DEF TypeInv, TypeOK, LoadInv
<1>1. Blank'
  BY NextBlank DEF LoadInv
<1>2. AllLogged(store, aof') /\ \A sn \in snap : AllLogged(sn.store, aof')
  BY ValuesStay
<1>3. AllLogged(EmptyStore, aof')
  BY EmptyLogged
<1>4. CASE Call
  <2>1. CASE Refuses
    BY <1>0, <1>1, <1>2, <2>1 DEF Refuses, LoadInv
  <2>2. ASSUME NEW o \in Ops, Enters(o) PROVE LoadInv'
    <3>1. /\ mode' = "open" /\ UNCHANGED <<store, snap, aof>> /\ page' = Append(page, o) /\ ops' = Append(ops, o)
      BY <2>2 DEF Enters, Follows
    <3>2. page' # << >> /\ page'[Len(page')] = o /\ ops'[Len(ops')] = o
      <4>1. Len(page') = Len(page) + 1 /\ page'[Len(page) + 1] = o /\ Len(ops') = Len(ops) + 1 /\ ops'[Len(ops) + 1] = o
        BY <1>0, <3>1, AppendProperties
      <4>2. Len(<< >>) = 0
        OBVIOUS
      <4>. QED
        BY <1>0, <4>1, <4>2
    <3>. QED
      BY <1>1, <1>2, <3>1, <3>2 DEF LoadInv
  <2>3. ASSUME NEW o \in Ops, Drops(o) PROVE LoadInv'
    <3>1. mode' = "open" /\ UNCHANGED <<store, snap, aof>> /\ pc' = "idle"
      BY <2>3 DEF Drops, Follows
    <3>. QED
      BY <1>1, <1>2, <3>1 DEF LoadInv
  <2>. QED
    BY <1>4, <2>1, <2>2, <2>3, CallSteps
<1>5. CASE Fsync
  <2>1. /\ mode = "open" /\ mode' = "open" /\ pc = "fsync" /\ pc' # "fsync" /\ aof' = Flushed /\ snap' = snap
        /\ store' = AppliedStore(store, indexed, ops[Len(ops)])
    BY <1>0, <1>5 DEF Fsync, Apply, TypeOK
  <2>. DEFINE o == ops[Len(ops)]
              m == Len(page)
  <2>2. m \in 1..m /\ page[m] = o
    <3>1. m # 0
      BY <1>0, <2>1, EmptySeq
    <3>. QED
      BY <1>0, <2>1, <3>1
  <2>3. o \in Ops
    BY <1>0, <2>2, ElementOfSeq
  <2>4. Logged(aof', o.payload.doc)
    <3>. DEFINE r == Recorded(aof)
                g == r \o page
    <3>1. r \in Seq(Ops) /\ Len(r) \in Nat
      BY <1>0, RecordedFacts, LenProperties
    <3>2. Recorded(aof') = g
      BY <1>0, <2>1, RecordedConcat DEF Flushed
    <3>. HIDE DEF r
    <3>3. Len(g) = Len(r) + m /\ g[Len(r) + m] = page[m]
      <4>1. /\ Len(g) = Len(r) + Len(page)
            /\ \A i \in 1..(Len(r) + Len(page)) : g[i] = IF i <= Len(r) THEN r[i] ELSE page[i - Len(r)]
        BY <1>0, <3>1, ConcatProperties
      <4>2. Len(r) + m \in 1..(Len(r) + m) /\ ~(Len(r) + m <= Len(r)) /\ (Len(r) + m) - Len(r) = m
        BY <1>0, <2>2, <3>1
      <4>. QED
        BY <4>1, <4>2
    <3>. HIDE DEF g
    <3>4. Len(r) + m \in 1..Len(g)
      BY <1>0, <2>2, <3>1, <3>3
    <3>5. Len(g) = Len(aof') /\ \A i \in 1..Len(aof') : g[i] = aof'[i].op
      BY <1>0, <3>2, RecordedFacts
    <3>. QED
      BY <2>2, <3>3, <3>4, <3>5 DEF Logged
  <2>. HIDE DEF o
  <2>5. store' = AppliedStore(store, indexed, o)
    BY <2>1 DEF o
  <2>6. AllLogged(AppliedStore(store, indexed, o), aof')
    BY <1>0, <1>2, <2>3, <2>4, ApplyLogged
  <2>. QED
    BY <1>1, <1>2, <2>1, <2>5, <2>6 DEF LoadInv
<1>6. CASE FsyncFails \/ SnapshotFlush \/ Flush \/ Indexing \/ MetaTruncate \/ MetaWrite
  <2>1. mode' = "open" /\ pc' # "fsync" /\ UNCHANGED <<store, snap>>
    BY <1>6 DEF FsyncFails, SnapshotFlush, Flush, Indexing, CreateIndex, CreateUnknownIndex,
                MetaTruncate, MetaWrite, Idle, mat, disk
  <2>. QED
    BY <1>1, <1>2, <2>1 DEF LoadInv
<1>7. CASE SnapshotRename
  <2>1. mode' = "open" /\ pc' # "fsync" /\ UNCHANGED store /\ snap' = {SnapshotNow}
    BY <1>7 DEF SnapshotRename, mat
  <2>2. AllLogged(SnapshotNow.store, aof')
    <3>. DEFINE st == [k \in Keys |-> IF store[k] = << >> THEN << >> ELSE <<store[k][Len(store[k])]>>]
    <3>1. AllLogged(st, aof')
      BY <1>0, <1>2, HeadLogged
    <3>2. SnapshotNow.store = st
      BY DEF SnapshotNow
    <3>. QED
      BY <3>1, <3>2
  <2>. QED
    BY <1>1, <1>2, <2>1, <2>2 DEF LoadInv
<1>8. CASE Close \/ Crash \/ ReplayRaises
  <2>1. mode' \in {"closed", "failed"} /\ pc' = "idle" /\ store' = EmptyStore /\ snap' = snap
    BY <1>8 DEF Close, Crash, ReplayRaises, Forget
  <2>. QED
    BY <1>1, <1>2, <1>3, <2>1 DEF LoadInv
<1>9. CASE OpenFails
  <2>1. mode' = "failed" /\ UNCHANGED <<store, snap, pc, ops, page>>
    BY <1>9 DEF OpenFails, log, mat, disk
  <2>. QED
    BY <1>0, <1>1, <1>2, <2>1 DEF LoadInv
<1>10. CASE OpenFull
  <2>1. /\ mode' = "replaying" /\ ops' = Decoded(aof) /\ snap = {} /\ snap' = snap /\ meta' = meta /\ pc' = "idle"
        /\ aof' = Repaired(aof) /\ UNCHANGED <<store, sorted>>
        /\ indexed' = ("eq" \in meta) /\ others' = meta \cap {"ordered"}
    BY <1>10 DEF OpenFull, LoadLog, TypeInv, NoCallUnlessOpen
  <2>2. ~Corrupt(aof') /\ ops' = Recorded(aof')
    BY <1>0, <2>1, RepairedFile, ReadToEnd
  <2>3. SavedKinds' = meta
    BY <2>1 DEF SavedKinds
  <2>4. sorted' = NoneSorted
    BY <1>10, <2>1 DEF OpenFull, LoadInv, Blank
  <2>5. \A p \in Docs \X Keys : ~ (sorted'[p] > 0)
    BY <2>4, SortedIn
  <2>6. ReplayedIndexes'
    BY <2>1, <2>3, <2>5 DEF ReplayedIndexes
  <2>. QED
    BY <1>1, <1>2, <2>1, <2>2, <2>6 DEF LoadInv
<1>11. CASE OpenSnapshot
  <2>1. PICK s \in snap :
          /\ mode' = "replaying" /\ ~Corrupt(aof) /\ indexed' = s.indexed /\ others' = s.others
          /\ store' = s.store /\ LoadLog(Decoded(aof)) /\ UNCHANGED <<pc, disk>>
          /\ sorted' = IF "ordered" \in s.others THEN SortedWith(NoneSorted, HeadPairs(s.store))
                                                 ELSE NoneSorted
    BY <1>11 DEF OpenSnapshot
  <2>2. /\ aof' = aof /\ snap' = snap /\ ops' = Decoded(aof) /\ pc' = "idle"
    BY <1>11, <2>1 DEF OpenSnapshot, disk, LoadLog, TypeInv, NoCallUnlessOpen
  <2>3. /\ s.indexed => "eq" \in SavedKinds'
        /\ "ordered" \in s.others => "ordered" \in SavedKinds'
    <3>1. snap # {} /\ SavedKinds' = UNION {x.others \cup (IF x.indexed THEN {"eq"} ELSE {}) : x \in snap}
      BY <2>2 DEF SavedKinds
    <3>. QED
      BY <3>1
  <2>4. ASSUME NEW p \in Docs \X Keys, sorted'[p] > 0
        PROVE  Logged(aof, p[1]) /\ p[1] \notin Unhashable /\ "ordered" \in s.others
    <3>1. "ordered" \in s.others /\ p \in HeadPairs(s.store) /\ p[1] \notin Unhashable
      BY <2>1, <2>4, SortedIn
    <3>2. PICK k \in Keys : Get(s.store, k) # NIL /\ p[1] = Get(s.store, k)
      BY <3>1 DEF HeadPairs
    <3>3. s.store \in [Keys -> Chains] /\ AllLogged(s.store, aof)
      BY <1>0 DEF TypeOK, Snapshots, LoadInv
    <3>. QED
      BY <3>1, <3>2, <3>3, GetLogged
  <2>5. ReplayedIndexes'
    BY <2>1, <2>2, <2>3, <2>4 DEF ReplayedIndexes
  <2>6. ops' = Recorded(aof)
    BY <1>0, <2>1, <2>2, ReadToEnd
  <2>. QED
    BY <1>1, <1>2, <2>1, <2>2, <2>5, <2>6 DEF LoadInv
<1>12. CASE Replay
  <2>. DEFINE o == ops[pos + 1]
  <2>1. /\ mode = "replaying" /\ mode' = "replaying"
        /\ UNCHANGED <<ops, snap, meta, aof, pc, page, indexed, others>>
        /\ pos + 1 \in 1..Len(ops)
    <3>1. pos \in Nat /\ pos < Len(ops) /\ Len(ops) \in Nat
      BY <1>0, <1>12, LenProperties DEF Replay, TypeOK
    <3>. QED
      BY <1>12, <3>1 DEF Replay, log, disk
  <2>2. o \in Ops /\ Logged(aof, o.payload.doc)
    <3>1. ops = Recorded(aof)
      BY <2>1 DEF LoadInv
    <3>2. pos + 1 \in 1..Len(aof) /\ o = aof[pos + 1].op
      BY <1>0, <2>1, <3>1, RecordedFacts
    <3>. QED
      BY <1>0, <2>1, <3>2, ElementOfSeq DEF Logged
  <2>3. /\ store' = store \/ store' = AppliedStore(store, indexed, o)
        /\ sorted' = sorted \/ sorted' = AppliedSorted(store, sorted, indexed, "ordered" \in others, o)
    BY <1>12 DEF Replay, Apply
  <2>. HIDE DEF o
  <2>4. AllLogged(store', aof')
    BY <1>0, <1>2, <2>1, <2>2, <2>3, ApplyLogged
  <2>5. SavedKinds' = SavedKinds
    BY <2>1 DEF SavedKinds
  <2>6. ReplayedIndexes
    BY <2>1 DEF LoadInv
  <2>7. ASSUME NEW p \in Docs \X Keys, sorted'[p] > 0
        PROVE  Logged(aof, p[1]) /\ p[1] \notin Unhashable /\ "ordered" \in SavedKinds
    <3>1. \/ sorted[p] > 0
          \/ "ordered" \in others /\ p[1] = o.payload.doc /\ p[1] \notin Unhashable
      <4>1. CASE sorted' = sorted
        BY <2>7, <4>1
      <4>2. CASE sorted' = AppliedSorted(store, sorted, indexed, "ordered" \in others, o)
        BY <1>0, <2>2, <2>7, <4>2, SortedOne
      <4>. QED
        BY <2>3, <4>1, <4>2
    <3>. QED
      BY <2>2, <2>6, <3>1 DEF ReplayedIndexes
  <2>8. ReplayedIndexes'
    BY <2>1, <2>5, <2>6, <2>7 DEF ReplayedIndexes
  <2>. QED
    BY <1>0, <1>1, <1>2, <2>1, <2>4, <2>8 DEF LoadInv
<1>13. CASE FinishOpen \/ Heal \/ DropSnapshot
  <2>1. mode' \in {"open", "healed"} /\ store' = store /\ pc' = "idle" /\ (snap' = snap \/ snap' = {})
    BY <1>13 DEF FinishOpen, Heal, DropSnapshot, TypeInv, NoCallUnlessOpen, mat, disk
  <2>. QED
    BY <1>1, <1>2, <2>1 DEF LoadInv
<1>14. CASE UNCHANGED vars
  <2>1. UNCHANGED <<mode, pc, ops, page, store, snap, aof, meta, indexed, others, sorted>>
    BY <1>14 DEF vars, log, mat, disk
  <2>2. SavedKinds' = SavedKinds /\ (ReplayedIndexes => ReplayedIndexes')
    BY <2>1 DEF SavedKinds, ReplayedIndexes
  <2>. QED
    BY <1>1, <2>1, <2>2 DEF LoadInv
<1>. QED
  BY <1>4, <1>5, <1>6, <1>7, <1>8, <1>9, <1>10, <1>11, <1>12, <1>13, <1>14, StepCases

\* Values of the log, when all of it can be read.
LEMMA LoggedReadable ==
  ASSUME NEW f \in Seq(FileLines), ~Corrupt(f), NEW v, Logged(f, v)
  PROVE  v \in {f[i].op.payload.doc : i \in 1..Readable(f)}
<1>1. Readable(f) = Len(f)
  BY ReadToEnd
<1>. QED
  BY <1>1 DEF Logged

\* A step that makes an open fail finds one of the five reasons.
LEMMA NextOpens ==
  ASSUME ~DeferSync, TypeInv, LoadInv, OpensUnlessDamaged, [Next]_vars
  PROVE  OpensUnlessDamaged'
<1>. SUFFICES ASSUME mode' = "failed" PROVE OpensUnlessDamaged'
  BY DEF OpensUnlessDamaged
<1>0. /\ aof \in Seq(FileLines) /\ ops \in Seq(Ops) /\ store \in [Keys -> Chains]
      /\ sorted \in [Docs \X Keys -> Nat]
      /\ \A sn \in snap : sn.store \in [Keys -> Chains] /\ AllLogged(sn.store, aof)
      /\ NIL \notin Unhashable /\ AllLogged(store, aof)
  BY DocsAssumption DEF TypeInv, TypeOK, Snapshots, LoadInv
<1>. DEFINE logged == {aof[i].op.payload.doc : i \in 1..Readable(aof)}
<1>1. ASSUME UNCHANGED <<snap, meta, aof>>,
             \/ snap = {} /\ meta = {"torn"}
             \/ snap # {} /\ Corrupt(aof)
             \/ "unknown" \in SavedKinds
             \/ "eq" \in SavedKinds /\ logged \cap Unhashable # {}
             \/ "ordered" \in SavedKinds /\ logged \cap Texts # {}
                                         /\ logged \cap (Docs \ (Texts \cup Unhashable)) # {}
      PROVE  OpensUnlessDamaged'
  <2>1. SavedKinds' = SavedKinds
    BY <1>1 DEF SavedKinds
  <2>2. logged = {aof'[i].op.payload.doc : i \in 1..Readable(aof')}
    BY <1>1
  <2>. QED
    BY <1>1, <2>1, <2>2 DEF OpensUnlessDamaged
<1>2. ASSUME NEW v \in Docs, NEW w \in Docs, ~Corrupt(aof), Logged(aof, v), Logged(aof, w),
             v \notin Unhashable, w \notin Unhashable, (v \in Texts) # (w \in Texts)
      PROVE  logged \cap Texts # {} /\ logged \cap (Docs \ (Texts \cup Unhashable)) # {}
  <2>1. v \in logged /\ w \in logged
    BY <1>0, <1>2, LoggedReadable
  <2>. HIDE DEF logged
  <2>. QED
    BY <1>2, <2>1
<1>3. ASSUME NEW v \in Unhashable, ~Corrupt(aof), Logged(aof, v)
      PROVE  logged \cap Unhashable # {}
  BY <1>0, <1>3, LoggedReadable
<1>. HIDE DEF logged
<1>4. CASE OpenFails
  <2>1. UNCHANGED <<snap, meta, aof>>
    BY <1>4 DEF OpenFails, disk
  <2>2. CASE snap = {} /\ ~MetaReadable
    <3>1. meta = {"torn"} \/ "unknown" \in SavedKinds
      BY <2>2 DEF MetaReadable, SavedKinds
    <3>. QED
      BY <1>1, <2>1, <2>2, <3>1
  <2>3. CASE snap # {} /\ Corrupt(aof)
    BY <1>1, <2>1, <2>3
  <2>4. ASSUME NEW s \in snap, Unloadable(s), ~Corrupt(aof) PROVE OpensUnlessDamaged'
    <3>1. \A kind : kind \in s.others \/ (s.indexed /\ kind = "eq") => kind \in SavedKinds
      <4>1. snap # {} /\ SavedKinds = UNION {x.others \cup (IF x.indexed THEN {"eq"} ELSE {}) : x \in snap}
        BY DEF SavedKinds
      <4>. QED
        BY <4>1
    <3>2. CASE "unknown" \in s.others
      BY <1>1, <2>1, <3>1, <3>2
    <3>3. ASSUME s.indexed, NEW k \in Keys, Get(s.store, k) \in Unhashable PROVE OpensUnlessDamaged'
      <4>1. Logged(aof, Get(s.store, k))
        BY <1>0, <3>3, GetLogged
      <4>2. logged \cap Unhashable # {}
        BY <1>3, <2>4, <3>3, <4>1
      <4>. QED
        BY <1>1, <2>1, <3>1, <3>3, <4>2
    <3>4. ASSUME "ordered" \in s.others, ~OneType(SortedWith(NoneSorted, HeadPairs(s.store)))
          PROVE  OpensUnlessDamaged'
      <4>. DEFINE bag == SortedWith(NoneSorted, HeadPairs(s.store))
      <4>1. ASSUME NEW p \in Docs \X Keys, bag[p] > 0
            PROVE  p[1] \in Docs /\ p[1] \notin Unhashable /\ Logged(aof, p[1])
        <5>1. p \in HeadPairs(s.store) /\ p[1] \notin Unhashable
          BY <4>1, SortedIn
        <5>2. PICK k \in Keys : Get(s.store, k) # NIL /\ p[1] = Get(s.store, k)
          BY <5>1 DEF HeadPairs
        <5>3. s.store \in [Keys -> Chains] /\ AllLogged(s.store, aof)
          BY <1>0
        <5>4. Logged(aof, Get(s.store, k))
          BY <5>2, <5>3, GetLogged
        <5>5. p[1] \in Docs
          OBVIOUS
        <5>. QED
          BY <5>1, <5>2, <5>4, <5>5
      <4>. HIDE DEF bag
      <4>2. PICK p \in Docs \X Keys, q \in Docs \X Keys :
              bag[p] > 0 /\ bag[q] > 0 /\ (p[1] \in Texts) # (q[1] \in Texts)
        BY <3>4 DEF OneType, bag
      <4>3. logged \cap Texts # {} /\ logged \cap (Docs \ (Texts \cup Unhashable)) # {}
        <5>1. /\ p[1] \in Docs /\ p[1] \notin Unhashable /\ Logged(aof, p[1])
              /\ q[1] \in Docs /\ q[1] \notin Unhashable /\ Logged(aof, q[1])
          BY <4>1, <4>2
        <5>. QED
          BY <1>2, <2>4, <4>2, <5>1
      <4>. QED
        BY <1>1, <2>1, <3>1, <3>4, <4>3
    <3>. QED
      BY <2>4, <3>2, <3>3, <3>4 DEF Unloadable
  <2>5. \/ snap = {} /\ ~MetaReadable
        \/ snap # {} /\ (Corrupt(aof) \/ \E s \in snap : Unloadable(s))
    BY <1>4, Zenon DEF OpenFails
  <2>. QED
    BY <2>2, <2>3, <2>4, <2>5, Zenon
<1>5. CASE ReplayRaises
  <2>. DEFINE o == ops[pos + 1]
  <2>1. /\ mode = "replaying" /\ ApplyRaises(store, indexed, sorted, o) /\ UNCHANGED <<snap, meta, aof>>
        /\ pos + 1 \in 1..Len(ops)
    <3>1. pos \in Nat /\ pos < Len(ops) /\ Len(ops) \in Nat
      BY <1>0, <1>5, LenProperties DEF ReplayRaises, TypeInv, TypeOK
    <3>. QED
      BY <1>5, <3>1 DEF ReplayRaises
  <2>2. ~Corrupt(aof) /\ ops = Recorded(aof) /\ ReplayedIndexes
    BY <2>1 DEF LoadInv
  <2>3. o \in Ops /\ Logged(aof, o.payload.doc)
    <3>1. pos + 1 \in 1..Len(aof) /\ o = aof[pos + 1].op
      BY <1>0, <2>1, <2>2, RecordedFacts
    <3>. QED
      BY <1>0, <2>1, <3>1, ElementOfSeq DEF Logged
  <2>. HIDE DEF o
  <2>4. CASE RaisesOnNew(indexed, o)
    <3>1. "eq" \in SavedKinds /\ o.payload.doc \in Unhashable
      BY <2>2, <2>4 DEF RaisesOnNew, ReplayedIndexes
    <3>2. logged \cap Unhashable # {}
      BY <1>3, <2>2, <2>3, <3>1
    <3>. QED
      BY <1>1, <2>1, <3>1, <3>2
  <2>5. CASE RaisesOnOld(store, indexed, o)
    <3>1. /\ "eq" \in SavedKinds /\ o.payload.on \in Keys
          /\ Get(store, o.payload.on) \in Unhashable
      BY <2>2, <2>3, <2>5, PayloadFacts DEF RaisesOnOld, ReplayedIndexes
    <3>2. Logged(aof, Get(store, o.payload.on))
      BY <1>0, <3>1, GetLogged
    <3>3. logged \cap Unhashable # {}
      BY <1>3, <2>2, <3>1, <3>2
    <3>. QED
      BY <1>1, <2>1, <3>1, <3>3
  <2>6. CASE RaisesOnSort(store, sorted, o)
    <3>1. /\ o.payload.op = "put" /\ o.payload.doc \notin Unhashable
          /\ \E p \in Docs \X Keys : /\ Unsorted(store, sorted, o)[p] > 0
                                     /\ (p[1] \in Texts) # (o.payload.doc \in Texts)
      BY <2>6 DEF RaisesOnSort, Mixes
    <3>2. PICK p \in Docs \X Keys : /\ Unsorted(store, sorted, o)[p] > 0
                                    /\ (p[1] \in Texts) # (o.payload.doc \in Texts)
      BY <3>1
    <3>3. sorted[p] > 0
      BY <1>0, <2>3, <3>1, <3>2, SortedOne
    <3>4. Logged(aof, p[1]) /\ p[1] \notin Unhashable /\ "ordered" \in SavedKinds /\ p[1] \in Docs
      BY <2>2, <3>3 DEF ReplayedIndexes
    <3>5. o.payload.doc \in Docs
      BY <2>3, <3>1, PayloadFacts
    <3>6. logged \cap Texts # {} /\ logged \cap (Docs \ (Texts \cup Unhashable)) # {}
      BY <1>2, <2>2, <2>3, <3>1, <3>2, <3>4, <3>5
    <3>. QED
      BY <1>1, <2>1, <3>4, <3>6
  <2>. QED
    BY <2>1, <2>4, <2>5, <2>6 DEF ApplyRaises
<1>6. CASE UNCHANGED vars
  <2>1. UNCHANGED <<mode, snap, meta, aof>>
    BY <1>6 DEF vars, disk
  <2>. QED
    BY <1>1, <2>1 DEF OpensUnlessDamaged, logged
<1>7. ~Call
  BY CallSteps DEF Refuses, Enters, Drops, Follows
<1>8. ~ (\/ Fsync \/ FsyncFails \/ SnapshotRename \/ SnapshotFlush \/ Flush
         \/ Indexing \/ MetaTruncate \/ MetaWrite \/ Close \/ Crash
         \/ OpenFull \/ OpenSnapshot \/ Replay \/ FinishOpen \/ Heal \/ DropSnapshot)
  BY DEF Fsync, FsyncFails, SnapshotRename, SnapshotFlush, Flush, Indexing, CreateIndex, CreateUnknownIndex,
         MetaTruncate, MetaWrite, Close, Crash, OpenFull, OpenSnapshot, Replay, FinishOpen, Heal,
         DropSnapshot, Idle
<1>. QED
  BY <1>4, <1>5, <1>6, <1>7, <1>8, StepCases

\* With per-op sync the database fails to open for one of five reasons only: a meta.json cut in
\* its rewrite, a damaged log under a snapshot, an index of an unknown kind that was saved, an
\* unhashable value that was logged under an equality index, or a text and a number that were
\* logged under an ordered one; whatever documents could not be written, whatever fsyncs failed
\* before, and however a crash left the last line of the log.
THEOREM OpensUnlessForAReason ==
  ASSUME ~DeferSync
  PROVE  Spec => []OpensUnlessDamaged
<1>. DEFINE I == TypeInv /\ LoadInv /\ OpensUnlessDamaged
<1>1. Init => I
  <2>. SUFFICES ASSUME Init PROVE LoadInv /\ OpensUnlessDamaged
    BY InitType
  <2>1. /\ mode = "closed" /\ pc = "idle" /\ store = EmptyStore /\ snap = {} /\ Blank
    BY DEF Init, Blank
  <2>. QED
    BY <2>1, EmptyLogged DEF LoadInv, OpensUnlessDamaged
<1>2. I /\ [Next]_vars => I'
  BY NextType, NextLoad, NextOpens
<1>. QED
  BY <1>1, <1>2, PTL DEF Spec

=============================================================================
