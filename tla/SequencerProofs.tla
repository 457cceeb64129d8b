-------------------------- MODULE SequencerProofs --------------------------
(***************************************************************************)
(* Theorems on Sequencer, for any number of writers, of calls and any size *)
(* of batch.                                                               *)
(***************************************************************************)
EXTENDS Sequencer, SequenceTheorems, TLAPS

-----------------------------------------------------------------------------
(* Type correctness.  A writer inside _submit has begun a call, and the     *)
(* committer holds no batch while it waits for the next intent.             *)

CallBegun == \A w \in Writers : wpc[w] \in {"checked", "waiting"} => calls[w] # 0

BatchHeld ==
  /\ cpc = "get" => batch = << >>
  /\ cpc = "drain" => bi = 1

TypeInv == TypeOK /\ CallBegun /\ BatchHeld

\* The call a writer is in is one of the intents.
LEMMA CurrentIsIntent ==
  ASSUME TypeInv, NEW w \in Writers, wpc[w] \in {"checked", "waiting"}
  PROVE  Current(w) \in Intents
BY SequencerAssumption DEF TypeInv, TypeOK, CallBegun, Current, Intents

\* The Sequencer starts well-formed.
LEMMA InitType == Init => TypeInv
<1>. SUFFICES ASSUME Init PROVE TypeInv
  OBVIOUS
<1>1. /\ q \in Seq(Intents \cup {STOP}) /\ batch \in Seq(Intents \cup {STOP}) /\ log \in Seq(Intents)
      /\ Len(batch) = 0 /\ Len(log) = 0
  BY EmptySeq DEF Init
<1>2. /\ wpc \in [Writers -> {"idle", "checked", "waiting"}] /\ calls \in [Writers -> 0..MaxCalls]
      /\ \A w \in Writers : wpc[w] = "idle"
  BY SequencerAssumption DEF Init
<1>3. /\ Len(batch) <= MaxBatch /\ bi \in 1..(Len(batch) + 1)
      /\ committed_seq \in -1..(Len(log) - 1) /\ written \in 0..Len(log) /\ durable \in 0..written
  BY <1>1, SequencerAssumption DEF Init
<1>4. TypeOK
  BY <1>1, <1>2, <1>3 DEF Init, TypeOK
<1>. QED
  BY <1>2, <1>4 DEF Init, TypeInv, CallBegun, BatchHeld

\* Every step of a writer, the committer or the closer keeps the fields well-formed.
LEMMA NextType ==
  ASSUME TypeInv, [Next]_vars
  PROVE  TypeInv'
<1>. USE SequencerAssumption DEF TypeInv, TypeOK, CallBegun, BatchHeld
<1>. DEFINE Slots == Intents \cup {STOP}
<1>0. /\ q \in Seq(Slots) /\ batch \in Seq(Slots) /\ log \in Seq(Intents)
      /\ Len(q) \in Nat /\ Len(batch) \in Nat /\ Len(log) \in Nat
  BY LenProperties
<1>1. ASSUME NEW w \in Writers, Check(w) PROVE TypeInv'
  BY <1>1 DEF Check, committer, engine
<1>2. ASSUME NEW w \in Writers, Enqueue(w) PROVE TypeInv'
  <2>1. Current(w) \in Slots
    BY <1>2, CurrentIsIntent DEF Enqueue
  <2>2. q' \in Seq(Slots)
    BY <1>0, <1>2, <2>1, AppendProperties DEF Enqueue
  <2>. QED
    BY <1>2, <2>2 DEF Enqueue, committer, engine
<1>3. ASSUME NEW w \in Writers, Return(w) PROVE TypeInv'
  BY <1>3, CurrentIsIntent DEF Return, committer, engine
<1>4. ASSUME Get PROVE TypeInv'
  <2>1. Head(q) \in Slots /\ q' \in Seq(Slots)
    BY <1>0, <1>4, HeadTailProperties DEF Get, Rest
  <2>2. CASE Head(q) = STOP
    BY <1>4, <2>1, <2>2 DEF Get, writers, engine
  <2>3. CASE Head(q) # STOP
    <3>1. batch' = <<Head(q)>> /\ cpc' = "drain"
      BY <1>4, <2>3 DEF Get
    <3>2. batch' \in Seq(Slots) /\ Len(batch') = 1
      BY <2>1, <3>1
    <3>3. bi = 1
      BY <1>4, EmptySeq DEF Get
    <3>. QED
      BY <1>4, <2>1, <3>1, <3>2, <3>3 DEF Get, writers, engine
  <2>. QED
    BY <2>2, <2>3
<1>5. ASSUME Drain PROVE TypeInv'
  <2>1. CASE Room /\ q # << >>
    <3>1. batch' = Append(batch, Head(q)) /\ q' = Tail(q) /\ cpc' = cpc
      BY <1>5, <2>1 DEF Drain
    <3>2. Head(q) \in Slots /\ q' \in Seq(Slots)
      BY <1>0, <2>1, <3>1, HeadTailProperties
    <3>3. batch' \in Seq(Slots) /\ Len(batch') = Len(batch) + 1
      BY <1>0, <3>1, <3>2, AppendProperties
    <3>. QED
      BY <1>0, <1>5, <2>1, <3>1, <3>2, <3>3 DEF Drain, Room, writers, engine
  <2>2. CASE ~ (Room /\ q # << >>)
    BY <1>5, <2>2 DEF Drain, writers, engine
  <2>. QED
    BY <2>1, <2>2
<1>6. ASSUME Apply PROVE TypeInv'
  <2>1. batch[bi] \in Slots
    BY <1>0, <1>6, ElementOfSeq DEF Apply
  <2>2. /\ bi' \in 1..(Len(batch) + 1)
        /\ UNCHANGED <<wpc, calls, answered, q, cpc, batch, done, committed_seq, aof_open, closed, clpc>>
        /\ cpc = "apply"
    BY <1>0, <1>6 DEF Apply, writers
  <2>3. CASE batch[bi] = STOP
    <3>1. saw_stop' = TRUE /\ UNCHANGED <<error, noop, log, written, durable>>
      BY <1>6, <2>3, Zenon DEF Apply
    <3>. QED
      BY <2>2, <3>1
  <2>4. CASE batch[bi] # STOP
    <3>0. ApplyOne(batch[bi]) /\ UNCHANGED saw_stop
      BY <1>6, <2>4, Zenon DEF Apply
    <3>1. error' \in {error, error \cup {batch[bi]}} /\ noop' \in {noop, noop \cup {batch[bi]}}
      BY <3>0 DEF ApplyOne
    <3>2. CASE UNCHANGED <<log, written, durable>>
      BY <2>1, <2>2, <2>4, <3>0, <3>1, <3>2
    <3>3. CASE Log(batch[bi]) /\ durable' \in {durable, IF aof_open THEN Len(log) + 1 ELSE durable}
      <4>1. log' \in Seq(Intents) /\ Len(log') = Len(log) + 1
        BY <1>0, <2>1, <2>4, <3>3, AppendProperties DEF Log
      <4>2. written' \in 0..Len(log') /\ durable' \in 0..written'
        BY <1>0, <3>3, <4>1 DEF Log
      <4>3. committed_seq' \in -1..(Len(log') - 1)
        BY <1>0, <2>2, <4>1
      <4>. QED
        BY <2>1, <2>2, <2>4, <3>0, <3>1, <4>1, <4>2, <4>3
    <3>. QED
      BY <3>0, <3>2, <3>3 DEF ApplyOne
  <2>. QED
    BY <2>3, <2>4
<1>7. ASSUME Flush \/ FlushFails PROVE TypeInv'
  BY <1>0, <1>7 DEF Flush, FlushFails, writers, engine
<1>8. ASSUME Publish PROVE TypeInv'
  BY <1>0, <1>8 DEF Publish, EngineSeq, writers, engine
<1>9. ASSUME Wake PROVE TypeInv'
  <2>1. batch[bi] \in Slots
    BY <1>0, <1>9, ElementOfSeq DEF Wake
  <2>. QED
    BY <1>0, <1>9, <2>1 DEF Wake, writers, engine
<1>10. ASSUME EndBatch PROVE TypeInv'
  <2>1. batch' \in Seq(Slots) /\ Len(batch') = 0
    BY <1>10, EmptySeq DEF EndBatch
  <2>. QED
    BY <1>10, <2>1 DEF EndBatch, Afterwards, writers, engine
<1>11. ASSUME Close \/ Join PROVE TypeInv'
  BY <1>11 DEF Close, Join, writers, committer, engine
<1>12. ASSUME PutStop PROVE TypeInv'
  <2>1. q' \in Seq(Slots)
    BY <1>0, <1>12, AppendProperties DEF PutStop
  <2>. QED
    BY <1>12, <2>1 DEF PutStop, writers, committer, engine
<1>13. ASSUME DbClose PROVE TypeInv'
  <2>1. durable' \in 0..written'
    BY <1>0, <1>13 DEF DbClose
  <2>. QED
    BY <1>0, <1>13, <2>1 DEF DbClose, writers, committer
<1>14. ASSUME UNCHANGED vars PROVE TypeInv'
  BY <1>14 DEF vars, writers, committer, engine
<1>. HIDE DEF TypeInv
<1>. QED
  BY <1>1, <1>2, <1>3, <1>4, <1>5, <1>6, <1>7, <1>8, <1>9, <1>10, <1>11, <1>12, <1>13, <1>14
     DEF Next, Committer, Closer

\* The Sequencer's fields have their types, and no batch exceeds max_batch, however
\* writers, committer and closer interleave.
THEOREM TypeCorrect == Spec => []TypeOK
<1>1. TypeInv /\ [Next]_vars => TypeInv'
  BY NextType
<1>2. TypeInv => TypeOK
  BY DEF TypeInv
<1>. QED
  BY InitType, <1>1, <1>2, PTL DEF Spec

-----------------------------------------------------------------------------
(* Read your writes.  ReadYourWrites speaks of answered calls only; what     *)
(* makes it inductive is where an intent of the batch is on its way: in the  *)
(* log once applied, and under committed_seq before it is woken.             *)

\* The intent left no op, or is among the first n ops of the log.
Kept(i, n) == i \in error \cup noop \/ \E m \in 1..n : log[m] = i

AnsweredAreDone == answered \subseteq done

DoneArePublished == \A i \in done : Kept(i, committed_seq + 1)

BatchOnItsWay ==
  /\ cpc = "apply"   => \A k \in 1..(bi - 1) : batch[k] # STOP => Kept(batch[k], Len(log))
  /\ cpc = "publish" => \A k \in 1..Len(batch) : batch[k] # STOP => Kept(batch[k], Len(log))
  /\ cpc = "wake"    => \A k \in 1..Len(batch) : batch[k] # STOP => Kept(batch[k], committed_seq + 1)

PublishInv == TypeInv /\ AnsweredAreDone /\ DoneArePublished /\ BatchOnItsWay

\* Apply extends the log, and its intent enters the log, error or noop.
LEMMA ApplyKeeps ==
  ASSUME TypeInv, Apply
  PROVE  /\ error \subseteq error' /\ noop \subseteq noop'
         /\ Len(log') \in Nat /\ Len(log) <= Len(log')
         /\ \A k \in 1..Len(log) : log'[k] = log[k]
         /\ batch[bi] # STOP => \/ batch[bi] \in error' \cup noop'
                                \/ \E m \in 1..Len(log') : log'[m] = batch[bi]
<1>0. /\ batch \in Seq(Intents \cup {STOP}) /\ log \in Seq(Intents)
      /\ Len(batch) \in Nat /\ Len(log) \in Nat
  BY LenProperties DEF TypeInv, TypeOK
<1>1. batch[bi] \in Intents \cup {STOP}
  BY <1>0, ElementOfSeq DEF Apply, TypeInv, TypeOK
<1>2. CASE batch[bi] = STOP
  <2>1. UNCHANGED <<error, noop, log>>
    BY <1>2, Zenon DEF Apply
  <2>. QED
    BY <1>0, <1>2, <2>1
<1>3. CASE batch[bi] # STOP
  <2>0. ApplyOne(batch[bi])
    BY <1>3, Zenon DEF Apply
  <2>1. error' \in {error, error \cup {batch[bi]}} /\ noop' \in {noop, noop \cup {batch[bi]}}
    BY <2>0 DEF ApplyOne
  <2>2. CASE log' = log /\ batch[bi] \in error' \cup noop'
    BY <1>0, <2>1, <2>2
  <2>3. CASE log' = Append(log, batch[bi])
    <3>1. /\ Len(log') = Len(log) + 1 /\ log'[Len(log) + 1] = batch[bi]
          /\ \A k \in 1..Len(log) : log'[k] = log[k]
      BY <1>0, <1>1, <1>3, <2>3, AppendProperties
    <3>. QED
      BY <1>0, <2>1, <3>1
  <2>. QED
    BY <2>0, <2>2, <2>3 DEF ApplyOne, Log
<1>. QED
  BY <1>2, <1>3

\* The invariant is inductive.
LEMMA NextPublish ==
  ASSUME PublishInv, [Next]_vars
  PROVE  PublishInv'
<1>. USE DEF PublishInv
<1>0. TypeInv' /\ TypeOK /\ TypeOK' /\ Len(log) \in Nat /\ Len(batch) \in Nat
      /\ committed_seq \in Int /\ committed_seq + 1 <= Len(log)
  <2>1. TypeInv' /\ TypeOK /\ TypeOK'
    BY NextType DEF TypeInv
  <2>2. Len(log) \in Nat /\ Len(batch) \in Nat
    BY <2>1, LenProperties DEF TypeOK
  <2>3. committed_seq \in -1..(Len(log) - 1)
    BY <2>1 DEF TypeOK
  <2>. QED
    BY <2>1, <2>2, <2>3
<1>1. ASSUME UNCHANGED <<answered, done, committed_seq, error, noop, log>>
      PROVE  AnsweredAreDone' /\ DoneArePublished'
  BY <1>1 DEF AnsweredAreDone, DoneArePublished, Kept
<1>2. ASSUME UNCHANGED <<cpc, batch, bi, committed_seq, error, noop, log>>
      PROVE  BatchOnItsWay'
  BY <1>2 DEF BatchOnItsWay, Kept
<1>3. ASSUME NEW w \in Writers, Check(w) \/ Enqueue(w) PROVE PublishInv'
  BY <1>0, <1>1, <1>2, <1>3 DEF Check, Enqueue, committer, engine
<1>4. ASSUME NEW w \in Writers, Return(w) PROVE PublishInv'
  <2>1. AnsweredAreDone'
    BY <1>4 DEF Return, AnsweredAreDone
  <2>2. DoneArePublished'
    BY <1>4 DEF Return, DoneArePublished, Kept, engine
  <2>. QED
    BY <1>0, <1>2, <1>4, <2>1, <2>2 DEF Return, committer, engine
<1>5. ASSUME Get \/ Drain PROVE PublishInv'
  <2>1. UNCHANGED <<answered, done, committed_seq, error, noop, log>>
    BY <1>5 DEF Get, Drain, writers, engine
  <2>2. cpc' \in {"exited", "drain"} \/ (cpc' = "apply" /\ bi' = 1)
    BY <1>5 DEF Get, Drain, TypeInv, BatchHeld
  <2>. QED
    BY <1>0, <1>1, <2>1, <2>2 DEF BatchOnItsWay
<1>6. ASSUME Apply PROVE PublishInv'
  <2>1. /\ UNCHANGED <<answered, done, committed_seq, batch, cpc>> /\ cpc = "apply"
        /\ bi' = bi + 1 /\ bi \in Nat
    BY <1>0, <1>6 DEF Apply, TypeOK, writers
  <2>2. /\ error \subseteq error' /\ noop \subseteq noop' /\ Len(log') \in Nat /\ Len(log) <= Len(log')
        /\ \A k \in 1..Len(log) : log'[k] = log[k]
        /\ batch[bi] # STOP => \/ batch[bi] \in error' \cup noop'
                               \/ \E m \in 1..Len(log') : log'[m] = batch[bi]
    BY <1>6, ApplyKeeps
  <2>3. DoneArePublished'
    BY <1>0, <2>1, <2>2 DEF DoneArePublished, Kept
  <2>4. BatchOnItsWay'
    <3>1. ASSUME NEW k \in 1..bi, batch[k] # STOP
          PROVE  batch[k] \in error' \cup noop' \/ \E m \in 1..Len(log') : log'[m] = batch[k]
      <4>1. CASE k = bi
        BY <2>2, <3>1, <4>1
      <4>2. CASE k \in 1..(bi - 1)
        BY <1>0, <2>1, <2>2, <3>1, <4>2, SMTT(30) DEF BatchOnItsWay, Kept
      <4>. QED
        BY <2>1, <4>1, <4>2
    <3>. QED
      BY <2>1, <3>1 DEF BatchOnItsWay, Kept
  <2>. QED
    BY <1>0, <2>1, <2>3, <2>4 DEF AnsweredAreDone
<1>7. ASSUME Flush \/ FlushFails PROVE PublishInv'
  <2>1. /\ UNCHANGED <<answered, done, committed_seq, error, noop, log, batch, bi>>
        /\ cpc = "apply" /\ cpc' = "publish" /\ bi > Len(batch)
    BY <1>7 DEF Flush, FlushFails, writers, engine
  <2>2. bi - 1 = Len(batch)
    BY <1>0, <2>1 DEF TypeOK
  <2>. QED
    BY <1>0, <1>1, <2>1, <2>2 DEF BatchOnItsWay, Kept
<1>8. ASSUME Publish PROVE PublishInv'
  <2>1. /\ UNCHANGED <<answered, done, error, noop, log, batch>> /\ committed_seq' + 1 = Len(log)
        /\ cpc = "publish" /\ cpc' = "wake"
    BY <1>0, <1>8 DEF Publish, EngineSeq, writers, engine
  <2>2. DoneArePublished'
    BY <1>0, <2>1 DEF DoneArePublished, Kept
  <2>3. BatchOnItsWay'
    BY <1>0, <2>1 DEF BatchOnItsWay, Kept
  <2>. QED
    BY <1>0, <2>1, <2>2, <2>3 DEF AnsweredAreDone
<1>9. ASSUME Wake PROVE PublishInv'
  <2>1. /\ UNCHANGED <<answered, committed_seq, error, noop, log, batch, cpc>>
        /\ cpc = "wake" /\ bi \in 1..Len(batch) /\ done' = done \cup ({batch[bi]} \ {STOP})
    BY <1>0, <1>9 DEF Wake, TypeOK, writers, engine
  <2>2. DoneArePublished'
    BY <2>1 DEF DoneArePublished, BatchOnItsWay, Kept
  <2>3. BatchOnItsWay'
    BY <2>1 DEF BatchOnItsWay, Kept
  <2>. QED
    BY <1>0, <2>1, <2>2, <2>3 DEF AnsweredAreDone
<1>10. ASSUME EndBatch PROVE PublishInv'
  <2>1. UNCHANGED <<answered, done, committed_seq, error, noop, log>> /\ cpc' \in {"exited", "get"}
    BY <1>10 DEF EndBatch, Afterwards, writers, engine
  <2>. QED
    BY <1>0, <1>1, <2>1 DEF BatchOnItsWay
<1>11. ASSUME Close \/ Closer PROVE PublishInv'
  <2>1. UNCHANGED <<answered, done, cpc, batch, bi, committed_seq, error, noop, log>>
    BY <1>11 DEF Close, Closer, PutStop, Join, DbClose, writers, committer, engine
  <2>. QED
    BY <1>0, <1>1, <1>2, <2>1
<1>12. ASSUME UNCHANGED vars PROVE PublishInv'
  BY <1>0, <1>1, <1>2, <1>12 DEF vars, writers, committer, engine
<1>. HIDE DEF PublishInv
<1>. QED
  BY <1>3, <1>4, <1>5, <1>6, <1>7, <1>8, <1>9, <1>10, <1>11, <1>12 DEF Next, Committer

\* A call that returned without an error is in the snapshot readers are pinned to,
\* whatever faults the disk, the join timeout and the calls themselves meet.
THEOREM CallersReadTheirWrites == Spec => []ReadYourWrites
<1>1. Init => PublishInv
  BY InitType DEF Init, PublishInv, AnsweredAreDone, DoneArePublished, BatchOnItsWay
<1>2. PublishInv /\ [Next]_vars => PublishInv'
  BY NextPublish
<1>3. PublishInv => ReadYourWrites
  BY DEF PublishInv, AnsweredAreDone, DoneArePublished, Kept, ReadYourWrites, Succeeded
<1>. QED
  BY <1>1, <1>2, <1>3, PTL DEF Spec

-----------------------------------------------------------------------------
(* Durability.  It needs the two things the fault runs take away: an fsync   *)
(* that does what it says, and a join that waits for the committer, so that  *)
(* nothing is applied once close() has taken the file away.                  *)

FileAlive ==
  /\ aof_open \/ clpc = "closed"
  /\ clpc = "none" \/ closed
  /\ clpc \in {"dbclose", "closed"} => cpc = "exited"

PublishedAreDurable ==
  /\ written = Len(log)
  /\ cpc = "publish" => durable = Len(log)
  /\ committed_seq + 1 <= durable

DurableInv == PublishInv /\ FileAlive /\ PublishedAreDurable

\* Without fsync failures and join timeouts the invariant is inductive.
LEMMA NextDurable ==
  ASSUME DurableInv, [Next]_vars, ~FsyncMayFail, ~JoinMayTimeOut
  PROVE  DurableInv'
<1>. USE DEF DurableInv
<1>0. /\ PublishInv' /\ Len(log) \in Nat /\ log \in Seq(Intents)
      /\ committed_seq \in Int /\ durable \in 0..Len(log)
  <2>1. TypeOK /\ PublishInv'
    BY NextPublish DEF PublishInv, TypeInv
  <2>. QED
    BY <2>1, LenProperties DEF TypeOK, PublishedAreDurable
<1>1. ASSUME UNCHANGED <<cpc, aof_open, closed, clpc>> PROVE FileAlive'
  BY <1>1 DEF FileAlive
<1>2. ASSUME UNCHANGED <<written, log, durable, committed_seq>>, cpc' # "publish" \/ cpc' = cpc
      PROVE  PublishedAreDurable'
  BY <1>2 DEF PublishedAreDurable
<1>3. ASSUME cpc # "exited", UNCHANGED <<aof_open, closed, clpc>> PROVE FileAlive' /\ aof_open
  BY <1>3 DEF FileAlive
<1>4. ASSUME NEW w \in Writers, Check(w) \/ Enqueue(w) \/ Return(w) PROVE DurableInv'
  BY <1>0, <1>1, <1>2, <1>4 DEF Check, Enqueue, Return, committer, engine
<1>5. ASSUME Get \/ Drain \/ Wake \/ EndBatch PROVE DurableInv'
  <2>1. /\ UNCHANGED <<written, log, durable, committed_seq, aof_open, closed, clpc>>
        /\ cpc # "exited" /\ cpc' # "publish"
    BY <1>5 DEF Get, Drain, Wake, EndBatch, Afterwards, engine
  <2>. QED
    BY <1>0, <1>2, <1>3, <2>1
<1>6. ASSUME Apply PROVE DurableInv'
  <2>1. cpc = "apply" /\ UNCHANGED <<cpc, committed_seq, aof_open, closed, clpc>>
    BY <1>6 DEF Apply
  <2>2. FileAlive' /\ aof_open
    BY <1>3, <2>1
  <2>3. \/ UNCHANGED <<log, written, durable>>
        \/ Log(batch[bi]) /\ durable' \in {durable, Len(log) + 1}
    <3>1. UNCHANGED <<log, written, durable>> \/ ApplyOne(batch[bi])
      BY <1>6, Zenon DEF Apply
    <3>. QED
      BY <2>2, <3>1 DEF ApplyOne
  <2>4. CASE UNCHANGED <<log, written, durable>>
    BY <1>0, <1>2, <2>1, <2>2, <2>4
  <2>5. CASE Log(batch[bi]) /\ durable' \in {durable, Len(log) + 1}
    <3>1. written' = Len(log) + 1 /\ log' = Append(log, batch[bi])
      BY <2>2, <2>5 DEF Log
    <3>2. Len(log') = Len(log) + 1
      BY <1>0, <3>1
    <3>. QED
      BY <1>0, <2>1, <2>2, <2>5, <3>1, <3>2 DEF PublishedAreDurable
  <2>. QED
    BY <2>3, <2>4, <2>5
<1>7. ASSUME Flush PROVE DurableInv'
  <2>1. aof_open /\ FileAlive'
    BY <1>3, <1>7 DEF Flush
  <2>. QED
    BY <1>0, <1>7, <2>1 DEF Flush, PublishedAreDurable
<1>8. ASSUME Publish PROVE DurableInv'
  <2>1. FileAlive'
    BY <1>3, <1>8 DEF Publish, engine
  <2>. QED
    BY <1>0, <1>8, <2>1 DEF Publish, EngineSeq, PublishedAreDurable, engine
<1>9. ASSUME Close \/ PutStop \/ Join PROVE DurableInv'
  <2>1. UNCHANGED <<written, log, durable, committed_seq, aof_open, cpc>>
    BY <1>9 DEF Close, PutStop, Join, committer, engine
  <2>2. FileAlive'
    <3>1. CASE Close
      <4>1. ~closed /\ closed' /\ clpc' = "stop"
        BY <3>1 DEF Close
      <4>. QED
        BY <2>1, <4>1 DEF FileAlive
    <3>2. CASE PutStop \/ Join
      BY <2>1, <3>2 DEF FileAlive, PutStop, Join
    <3>. QED
      BY <1>9, <3>1, <3>2
  <2>. QED
    BY <1>0, <1>2, <2>1, <2>2
<1>10. ASSUME DbClose PROVE DurableInv'
  <2>1. FileAlive'
    BY <1>10 DEF DbClose, FileAlive, committer
  <2>. QED
    BY <1>0, <1>10, <2>1 DEF DbClose, PublishedAreDurable, committer
<1>11. ASSUME UNCHANGED vars PROVE DurableInv'
  BY <1>0, <1>1, <1>2, <1>11 DEF vars, committer, engine
<1>12. ~FlushFails
  BY DEF FlushFails
<1>. HIDE DEF DurableInv
<1>. QED
  BY <1>4, <1>5, <1>6, <1>7, <1>8, <1>9, <1>10, <1>11, <1>12 DEF Next, Committer, Closer

\* A call that returned without an error is on disk, provided fsync does not fail and
\* close() waits for the committer.
THEOREM AnsweredMeansDurable ==
  ASSUME ~FsyncMayFail, ~JoinMayTimeOut
  PROVE  Spec => []AckedDurable
<1>1. Init => DurableInv
  <2>1. Init => PublishInv
    BY InitType DEF Init, PublishInv, AnsweredAreDone, DoneArePublished, BatchOnItsWay
  <2>. QED
    BY <2>1, EmptySeq DEF Init, DurableInv, FileAlive, PublishedAreDurable
<1>2. DurableInv /\ [Next]_vars => DurableInv'
  BY NextDurable
<1>3. DurableInv => AckedDurable
  <2>. SUFFICES ASSUME DurableInv, NEW i \in Succeeded PROVE \E n \in 1..durable : log[n] = i
    BY DEF AckedDurable
  <2>1. PICK n \in 1..(committed_seq + 1) : log[n] = i
    BY DEF DurableInv, PublishInv, AnsweredAreDone, DoneArePublished, Kept, Succeeded
  <2>2. committed_seq \in Int /\ durable \in Int /\ committed_seq + 1 <= durable
    BY LenProperties DEF DurableInv, PublishInv, TypeInv, TypeOK, PublishedAreDurable
  <2>. QED
    BY <2>1, <2>2
<1>. QED
  BY <1>1, <1>2, <1>3, PTL DEF Spec

-----------------------------------------------------------------------------
(* The commit log.  Sequencer implements CommitLog because an intent goes    *)
(* its way once: queue, batch, log (or error, or noop), done, answered.  The *)
(* invariant says where an intent can be, and where it cannot be yet.        *)

\* What w has handed to the queue: every call before the one it is about to enqueue.
Handed(i) == i[2] < calls[i[1]] \/ (i[2] = calls[i[1]] /\ wpc[i[1]] # "checked")

\* Only such calls leave a trace.
TracesAreHanded ==
  /\ \A n \in 1..Len(q) : q[n] # STOP => Handed(q[n])
  /\ \A n \in 1..Len(batch) : batch[n] # STOP => Handed(batch[n])
  /\ \A n \in 1..Len(log) : Handed(log[n])
  /\ \A i \in error \cup noop \cup done \cup answered : Handed(i)

\* No intent is twice in the queue, in the batch, or in both, or in the log.
HeldOnce ==
  /\ \A m, n \in 1..Len(q) : q[m] = q[n] => m = n \/ q[m] = STOP
  /\ \A m, n \in 1..Len(batch) : batch[m] = batch[n] => m = n \/ batch[m] = STOP
  /\ \A m \in 1..Len(batch), n \in 1..Len(q) : batch[m] = q[n] => batch[m] = STOP
  /\ \A m, n \in 1..Len(log) : log[m] = log[n] => m = n

\* The intent's writer waits for it, and it has not been woken.
Awaited(i) == i \in Intents /\ wpc[i[1]] = "waiting" /\ calls[i[1]] = i[2] /\ i \notin done

\* The committer has not applied the intent.
Untouched(i) == i \notin error \cup noop /\ \A n \in 1..Len(log) : log[n] # i

InCommit == cpc \in {"drain", "apply", "publish"}

\* Where the batch's intents are: awaited until they are woken, untouched until they
\* are applied, and not under committed_seq before the batch is published.
QueueAwaits ==
  \A n \in 1..Len(q) : q[n] # STOP => Awaited(q[n]) /\ Untouched(q[n])

BatchAwaits ==
  \A n \in 1..Len(batch) : batch[n] # STOP =>
    /\ InCommit \/ (cpc = "wake" /\ bi <= n) => Awaited(batch[n])
    /\ cpc = "drain" \/ (cpc = "apply" /\ bi <= n) => Untouched(batch[n])
    /\ InCommit => \A m \in 1..(committed_seq + 1) : log[m] # batch[n]

\* What is logged and not published is the work of the batch in hand.
UnpublishedInBatch ==
  \A n \in (committed_seq + 2)..Len(log) :
    cpc \in {"apply", "publish"} /\ log[n] \in InBatch

OnceInv == PublishInv /\ TracesAreHanded /\ HeldOnce /\ QueueAwaits /\ BatchAwaits /\ UnpublishedInBatch

\* The published log is the log as far as committed_seq.
LEMMA PublishedPrefix ==
  ASSUME TypeOK
  PROVE  /\ Len(Published) = committed_seq + 1 /\ committed_seq + 1 \in Nat
         /\ \A n \in 1..(committed_seq + 1) : Published[n] = log[n]
         /\ InPublished = {log[n] : n \in 1..(committed_seq + 1)}
<1>1. log \in Seq(Intents) /\ Len(log) \in Nat /\ committed_seq \in -1..(Len(log) - 1)
  BY LenProperties DEF TypeOK
<1>2. \A n \in 1..(committed_seq + 1) : log[n] \in Intents
  BY <1>1, ElementOfSeq
<1>3. /\ Len(Published) = committed_seq + 1 /\ committed_seq + 1 \in Nat
      /\ \A n \in 1..(committed_seq + 1) : Published[n] = log[n]
  BY <1>1, <1>2, SubSeqProperties DEF Published
<1>. QED
  BY <1>3 DEF InPublished

\* The steps of writers take no call back: what was handed over stays so, and who waits
\* for an intent not yet woken goes on waiting.
LEMMA WritersGoOn ==
  ASSUME TypeInv, NEW w \in Writers, Check(w) \/ Enqueue(w) \/ Return(w), NEW i \in Intents
  PROVE  (Handed(i) => Handed(i)') /\ (Awaited(i) => Awaited(i)')
<1>0. /\ wpc \in [Writers -> {"idle", "checked", "waiting"}] /\ calls \in [Writers -> 0..MaxCalls]
      /\ MaxCalls \in Nat /\ calls[w] \in Nat
  BY SequencerAssumption DEF TypeInv, TypeOK
<1>1. PICK v \in Writers, n \in 1..MaxCalls : i = <<v, n>>
  BY DEF Intents
<1>2. CASE Check(w)
  <2>1. /\ wpc[w] = "idle" /\ done' = done /\ wpc'[w] # "waiting"
        /\ calls'[w] = calls[w] + 1 /\ \A u \in Writers \ {w} : calls'[u] = calls[u] /\ wpc'[u] = wpc[u]
    BY <1>0, <1>2 DEF Check
  <2>. QED
    BY <1>0, <1>1, <2>1 DEF Handed, Awaited
<1>3. CASE Enqueue(w)
  <2>1. /\ wpc[w] = "checked" /\ done' = done /\ wpc'[w] = "waiting"
        /\ calls' = calls /\ \A u \in Writers \ {w} : wpc'[u] = wpc[u]
    BY <1>0, <1>3 DEF Enqueue
  <2>. QED
    BY <1>0, <1>1, <2>1 DEF Handed, Awaited
<1>4. CASE Return(w)
  <2>1. /\ wpc[w] = "waiting" /\ done' = done /\ wpc'[w] = "idle" /\ <<w, calls[w]>> \in done
        /\ calls' = calls /\ \A u \in Writers \ {w} : wpc'[u] = wpc[u]
    BY <1>0, <1>4 DEF Return, Current
  <2>. QED
    BY <1>0, <1>1, <2>1 DEF Handed, Awaited
<1>. QED
  BY <1>2, <1>3, <1>4

\* The invariant holds at the start: nothing has been handed over.
LEMMA InitOnce == Init => OnceInv
<1>. SUFFICES ASSUME Init PROVE OnceInv
  OBVIOUS
<1>1. PublishInv
  BY InitType DEF Init, PublishInv, AnsweredAreDone, DoneArePublished, BatchOnItsWay
<1>2. Len(q) = 0 /\ Len(batch) = 0 /\ Len(log) = 0
  BY EmptySeq DEF Init
<1>. QED
  BY <1>1, <1>2 DEF Init, OnceInv, TracesAreHanded, HeldOnce, QueueAwaits, BatchAwaits, UnpublishedInBatch

\* A writer's step keeps it: Enqueue brings an intent that left no trace before.
LEMMA WriterOnce ==
  ASSUME OnceInv, NEW w \in Writers, Check(w) \/ Enqueue(w) \/ Return(w)
  PROVE  TracesAreHanded' /\ HeldOnce' /\ QueueAwaits' /\ BatchAwaits' /\ UnpublishedInBatch'
<1>. USE DEF OnceInv, PublishInv
<1>0. /\ TypeInv /\ TypeOK /\ q \in Seq(Intents \cup {STOP}) /\ Len(q) \in Nat
      /\ batch \in Seq(Intents \cup {STOP}) /\ log \in Seq(Intents) /\ calls[w] \in Nat
      /\ STOP \notin Intents
  BY LenProperties, SequencerAssumption DEF TypeInv, TypeOK
<1>1. /\ \A n \in 1..Len(q) : q[n] \in Intents \cup {STOP}
      /\ \A n \in 1..Len(batch) : batch[n] \in Intents \cup {STOP}
      /\ \A n \in 1..Len(log) : log[n] \in Intents
  BY <1>0, ElementOfSeq
<1>2. /\ error \subseteq Intents /\ noop \subseteq Intents /\ done \subseteq Intents /\ answered \subseteq Intents
  BY <1>0 DEF TypeOK
<1>3. \A i \in Intents : (Handed(i) => Handed(i)') /\ (Awaited(i) => Awaited(i)')
  BY <1>0, WritersGoOn
<1>4. UNCHANGED <<cpc, batch, bi, error, noop, done, committed_seq, log>>
  BY DEF Check, Enqueue, Return, committer, engine
<1>5. /\ BatchAwaits' /\ UnpublishedInBatch'
  <2>1. BatchAwaits'
    <3>1. ASSUME NEW n \in 1..Len(batch), Untouched(batch[n]) PROVE Untouched(batch[n])'
      BY <1>4, <3>1 DEF Untouched
    <3>2. InCommit' = InCommit
      BY <1>4 DEF InCommit
    <3>. QED
      BY <1>1, <1>3, <1>4, <3>1, <3>2 DEF BatchAwaits
  <2>2. UnpublishedInBatch'
    BY <1>4 DEF UnpublishedInBatch, InBatch
  <2>. QED
    BY <2>1, <2>2
<1>6. /\ \A n \in 1..Len(batch') : batch'[n] # STOP => Handed(batch[n])'
      /\ \A n \in 1..Len(log') : Handed(log[n])'
      /\ \A i \in error' \cup noop' \cup done' : Handed(i)'
  BY <1>1, <1>2, <1>3, <1>4 DEF TracesAreHanded
<1>7. CASE Check(w) \/ Return(w)
  <2>1. q' = q /\ answered' \subseteq answered \cup done
    BY <1>7 DEF Check, Return
  <2>2. TracesAreHanded'
    BY <1>1, <1>2, <1>3, <1>4, <1>6, <2>1 DEF TracesAreHanded
  <2>3. HeldOnce'
    BY <1>4, <2>1 DEF HeldOnce
  <2>4. QueueAwaits'
    <3>1. ASSUME NEW n \in 1..Len(q), Untouched(q[n]) PROVE Untouched(q[n])'
      BY <1>4, <2>1, <3>1 DEF Untouched
    <3>. QED
      BY <1>1, <1>3, <2>1, <3>1 DEF QueueAwaits
  <2>. QED
    BY <1>5, <2>2, <2>3, <2>4
<1>8. CASE Enqueue(w)
  <2>. DEFINE i == <<w, calls[w]>>
  <2>1. /\ q' = Append(q, i) /\ i \in Intents /\ answered' = answered
        /\ wpc[w] = "checked" /\ wpc'[w] = "waiting" /\ calls' = calls
    BY <1>0, <1>8, CurrentIsIntent DEF Enqueue, Current, TypeOK
  <2>2. /\ Len(q') = Len(q) + 1 /\ q'[Len(q) + 1] = i
        /\ \A n \in 1..Len(q) : q'[n] = q[n]
    BY <1>0, <2>1, AppendProperties
  <2>3. ~Handed(i) /\ Handed(i)'
    BY <1>0, <2>1 DEF Handed
  <2>4. /\ \A n \in 1..Len(q) : q[n] # i
        /\ \A n \in 1..Len(batch) : batch[n] # i
        /\ \A n \in 1..Len(log) : log[n] # i
        /\ i \notin error \cup noop \cup done
    BY <1>0, <2>1, <2>3 DEF TracesAreHanded
  <2>5. \A n \in 1..Len(q') : n \in 1..Len(q) \/ n = Len(q) + 1
    BY <1>0, <2>2
  <2>6. \A n \in 1..Len(q') : q'[n] # STOP => Handed(q[n])'
    <3>. SUFFICES ASSUME NEW n \in 1..Len(q'), q'[n] # STOP PROVE Handed(q[n])'
      OBVIOUS
    <3>1. CASE n \in 1..Len(q)
      <4>1. q'[n] = q[n] /\ q[n] \in Intents /\ Handed(q[n])
        BY <1>1, <2>2, <3>1 DEF TracesAreHanded
      <4>2. Handed(q[n])'
        BY <1>3, <4>1
      <4>. QED
        BY <2>1, <4>1, <4>2 DEF Handed
    <3>2. CASE n = Len(q) + 1
      BY <2>1, <2>2, <2>3, <3>2 DEF Handed
    <3>. QED
      BY <2>5, <3>1, <3>2
  <2>7. TracesAreHanded'
    BY <1>1, <1>2, <1>3, <1>4, <1>6, <2>1, <2>6 DEF TracesAreHanded
  <2>8. HeldOnce'
    <3>1. \A m, n \in 1..Len(q') : q'[m] = q'[n] => m = n \/ q'[m] = STOP
      BY <2>2, <2>4, <2>5 DEF HeldOnce
    <3>2. \A m \in 1..Len(batch), n \in 1..Len(q') : batch[m] = q'[n] => batch[m] = STOP
      BY <2>2, <2>4, <2>5 DEF HeldOnce
    <3>. QED
      BY <1>4, <3>1, <3>2 DEF HeldOnce
  <2>9. QueueAwaits'
    <3>. SUFFICES ASSUME NEW n \in 1..Len(q'), q'[n] # STOP
                  PROVE  Awaited(q[n])' /\ Untouched(q[n])'
      BY DEF QueueAwaits
    <3>1. CASE n \in 1..Len(q)
      <4>1. q'[n] = q[n] /\ q[n] \in Intents /\ Awaited(q[n]) /\ Untouched(q[n])
        BY <1>1, <2>2, <3>1 DEF QueueAwaits
      <4>2. Awaited(q[n])'
        BY <1>3, <4>1
      <4>3. Untouched(q[n])'
        BY <1>4, <4>1 DEF Untouched
      <4>. QED
        BY <4>1, <4>2, <4>3 DEF Awaited
    <3>2. CASE n = Len(q) + 1
      BY <1>4, <2>1, <2>2, <2>4, <3>2 DEF Awaited, Untouched
    <3>. QED
      BY <2>5, <3>1, <3>2
  <2>. QED
    BY <1>5, <2>7, <2>8, <2>9
<1>. QED
  BY <1>7, <1>8

\* Taking the head off the queue moves every other intent one place up.
LEMMA QueueShifts ==
  ASSUME TypeOK, q # << >>, NEW t, t = Tail(q)
  PROVE  /\ Len(q) \in Nat \ {0} /\ Head(q) = q[1] /\ Len(t) = Len(q) - 1
         /\ \A n \in 1..Len(t) : t[n] = q[n + 1] /\ n + 1 \in 1..Len(q)
<1>1. q \in Seq(Intents \cup {STOP}) /\ Len(q) \in Nat
  BY LenProperties DEF TypeOK
<1>. QED
  BY <1>1, HeadTailProperties, EmptySeq

\* Get and Drain keep it: they move the head of the queue to the end of the batch, or drop
\* the _STOP that ends the committer.
LEMMA MovesOnce ==
  ASSUME OnceInv, Get \/ Drain
  PROVE  TracesAreHanded' /\ HeldOnce' /\ QueueAwaits' /\ BatchAwaits' /\ UnpublishedInBatch'
<1>. USE DEF OnceInv, PublishInv
<1>0. /\ TypeOK /\ batch \in Seq(Intents \cup {STOP}) /\ Len(batch) \in Nat /\ Len(log) \in Nat
      /\ Len(q) \in Nat /\ STOP \notin Intents /\ q \in Seq(Intents \cup {STOP})
      /\ committed_seq \in Int
  BY LenProperties, SequencerAssumption DEF TypeInv, TypeOK
<1>1. UNCHANGED <<wpc, calls, answered, bi, error, noop, done, committed_seq, log>>
  BY DEF Get, Drain, writers, engine
<1>2. /\ \A i : Handed(i)' <=> Handed(i)
      /\ \A i : Awaited(i)' <=> Awaited(i)
      /\ \A i : Untouched(i)' <=> Untouched(i)
  BY <1>1 DEF Handed, Awaited, Untouched
<1>3. (cpc = "get" => batch = << >>) /\ (cpc = "drain" => bi = 1)
  BY DEF TypeInv, BatchHeld
<1>4. \A n \in (committed_seq + 2)..Len(log) : FALSE
  BY DEF UnpublishedInBatch, Get, Drain
<1>5. UnpublishedInBatch'
  BY <1>1, <1>4 DEF UnpublishedInBatch
<1>6. CASE Drain /\ ~(Room /\ q # << >>)
  <2>1. q' = q /\ batch' = batch /\ cpc = "drain" /\ cpc' = "apply"
    BY <1>6 DEF Drain
  <2>. QED
    BY <1>1, <1>2, <1>3, <1>5, <2>1 DEF TracesAreHanded, HeldOnce, QueueAwaits, BatchAwaits, InCommit
<1>7. CASE Get /\ Head(q) = STOP
  <2>1. q' = Tail(q) /\ q # << >> /\ batch' = batch /\ cpc = "get" /\ cpc' = "exited"
    BY <1>7 DEF Get, Rest
  <2>2. /\ Len(q') = Len(q) - 1 /\ \A n \in 1..Len(q') : q'[n] = q[n + 1] /\ n + 1 \in 1..Len(q)
    BY <1>0, <2>1, QueueShifts
  <2>3. Len(batch) = 0
    BY <1>3, <2>1, EmptySeq
  <2>4. HeldOnce'
    BY <1>0, <1>1, <2>1, <2>2, <2>3 DEF HeldOnce
  <2>5. TracesAreHanded'
    BY <1>1, <1>2, <2>1, <2>2 DEF TracesAreHanded
  <2>6. QueueAwaits' /\ BatchAwaits'
    BY <1>1, <1>2, <2>1, <2>2, <2>3 DEF QueueAwaits, BatchAwaits
  <2>. QED
    BY <1>5, <2>4, <2>5, <2>6
<1>8. CASE (Get /\ Head(q) # STOP) \/ (Drain /\ Room /\ q # << >>)
  <2>1. /\ q' = Tail(q) /\ q # << >> /\ cpc' = "drain"
        /\ batch' = Append(batch, Head(q)) /\ Head(q) \in Intents \cup {STOP}
    <3>1. q # << >>
      BY <1>8 DEF Get
    <3>2. Head(q) \in Intents \cup {STOP}
      BY <1>0, <3>1, HeadTailProperties
    <3>3. CASE Get /\ Head(q) # STOP
      <4>1. q' = Tail(q) /\ batch = << >> /\ batch' = <<Head(q)>> /\ cpc' = "drain"
        BY <1>3, <3>3 DEF Get, Rest
      <4>. QED
        BY <3>1, <3>2, <4>1
    <3>4. CASE Drain /\ Room /\ q # << >>
      BY <3>1, <3>2, <3>4 DEF Drain
    <3>. QED
      BY <1>8, <3>3, <3>4
  <2>2. /\ Len(q') = Len(q) - 1 /\ \A n \in 1..Len(q') : q'[n] = q[n + 1] /\ n + 1 \in 1..Len(q)
        /\ Head(q) = q[1] /\ 1 \in 1..Len(q)
    BY <1>0, <2>1, QueueShifts
  <2>3. /\ Len(batch') = Len(batch) + 1 /\ batch'[Len(batch) + 1] = q[1]
        /\ \A n \in 1..Len(batch) : batch'[n] = batch[n]
    BY <1>0, <2>1, <2>2, AppendProperties
  <2>4. \A n \in 1..Len(batch') : n \in 1..Len(batch) \/ n = Len(batch) + 1
    BY <1>0, <2>3
  <2>5. HeldOnce'
    <3>1. \A m, n \in 1..Len(q') : q'[m] = q'[n] => m = n \/ q'[m] = STOP
      BY <1>0, <2>2, SMTT(30) DEF HeldOnce
    <3>2. \A m, n \in 1..Len(batch') : batch'[m] = batch'[n] => m = n \/ batch'[m] = STOP
      BY <1>0, <2>2, <2>3, <2>4 DEF HeldOnce
    <3>3. \A m \in 1..Len(batch'), n \in 1..Len(q') : batch'[m] = q'[n] => batch'[m] = STOP
      <4>. SUFFICES ASSUME NEW m \in 1..Len(batch'), NEW n \in 1..Len(q'), batch'[m] = q'[n]
                    PROVE  batch'[m] = STOP
        OBVIOUS
      <4>0. q'[n] = q[n + 1] /\ n + 1 \in 1..Len(q) /\ n + 1 # 1
        BY <1>0, <2>2
      <4>1. CASE m \in 1..Len(batch)
        BY <2>3, <4>0, <4>1 DEF HeldOnce
      <4>2. CASE m = Len(batch) + 1
        BY <2>2, <2>3, <4>0, <4>2 DEF HeldOnce
      <4>. QED
        BY <2>4, <4>1, <4>2
    <3>. QED
      BY <1>1, <3>1, <3>2, <3>3 DEF HeldOnce
  <2>6. TracesAreHanded'
    <3>1. \A n \in 1..Len(q') : q'[n] # STOP => Handed(q[n])'
      BY <1>2, <2>2 DEF TracesAreHanded
    <3>2. \A n \in 1..Len(batch') : batch'[n] # STOP => Handed(batch[n])'
      BY <1>2, <2>2, <2>3, <2>4 DEF TracesAreHanded
    <3>3. /\ \A n \in 1..Len(log') : Handed(log[n])'
          /\ \A i \in error' \cup noop' \cup done' \cup answered' : Handed(i)'
      BY <1>1, <1>2 DEF TracesAreHanded
    <3>. QED
      BY <3>1, <3>2, <3>3 DEF TracesAreHanded
  <2>7. QueueAwaits'
    BY <1>2, <2>2 DEF QueueAwaits
  <2>8. BatchAwaits'
    <3>. SUFFICES ASSUME NEW n \in 1..Len(batch'), batch'[n] # STOP
                  PROVE  /\ Awaited(batch[n])' /\ Untouched(batch[n])'
                         /\ \A m \in 1..(committed_seq' + 1) : log'[m] # batch'[n]
      BY <2>1 DEF BatchAwaits
    <3>1. CASE n \in 1..Len(batch)
      <4>1. cpc = "drain"
        <5>1. CASE cpc = "get"
          BY <1>3, <3>1, <5>1, EmptySeq
        <5>. QED
          BY <1>8, <5>1 DEF Get, Drain
      <4>. QED
        BY <1>1, <1>2, <2>3, <3>1, <4>1 DEF BatchAwaits, InCommit
    <3>2. CASE n = Len(batch) + 1
      <4>1. Awaited(q[1]) /\ Untouched(q[1])
        BY <2>2, <2>3, <3>2 DEF QueueAwaits
      <4>2. committed_seq + 1 <= Len(log)
        BY <1>0 DEF TypeOK
      <4>. QED
        BY <1>0, <1>1, <1>2, <2>3, <3>2, <4>1, <4>2, SMTT(30) DEF Untouched
    <3>. QED
      BY <2>4, <3>1, <3>2
  <2>. QED
    BY <1>5, <2>5, <2>6, <2>7, <2>8
<1>. QED
  BY <1>6, <1>7, <1>8 DEF Get

\* Apply keeps it: the intent it appends to the log was not in it, and it is in the batch.
LEMMA ApplyOnce ==
  ASSUME OnceInv, Apply
  PROVE  TracesAreHanded' /\ HeldOnce' /\ QueueAwaits' /\ BatchAwaits' /\ UnpublishedInBatch'
<1>. USE DEF OnceInv, PublishInv
<1>0. /\ TypeOK /\ batch \in Seq(Intents \cup {STOP}) /\ Len(batch) \in Nat
      /\ log \in Seq(Intents) /\ Len(log) \in Nat /\ STOP \notin Intents
      /\ committed_seq \in Int /\ committed_seq + 1 <= Len(log)
      /\ bi \in 1..Len(batch) /\ bi' = bi + 1 /\ cpc = "apply"
  <2>1. TypeOK
    BY DEF TypeInv
  <2>2. batch \in Seq(Intents \cup {STOP}) /\ Len(batch) \in Nat /\ log \in Seq(Intents) /\ Len(log) \in Nat
    BY <2>1, LenProperties DEF TypeOK
  <2>3. committed_seq \in -1..(Len(log) - 1) /\ bi \in 1..(Len(batch) + 1)
    BY <2>1 DEF TypeOK
  <2>. QED
    BY <2>1, <2>2, <2>3, SequencerAssumption DEF Apply
<1>1. UNCHANGED <<wpc, calls, answered, q, cpc, batch, done, committed_seq>>
  BY DEF Apply, writers
<1>2. /\ \A i : Handed(i)' <=> Handed(i)
      /\ \A i : Awaited(i)' <=> Awaited(i)
  BY <1>1 DEF Handed, Awaited
<1>. DEFINE b == batch[bi]
<1>3. CASE b = STOP
  <2>1. UNCHANGED <<error, noop, log>>
    BY <1>3, Zenon DEF Apply
  <2>2. \A i : Untouched(i)' <=> Untouched(i)
    BY <2>1 DEF Untouched
  <2>3. TracesAreHanded' /\ HeldOnce' /\ QueueAwaits'
    BY <1>1, <1>2, <2>1, <2>2 DEF TracesAreHanded, HeldOnce, QueueAwaits
  <2>4. BatchAwaits' /\ UnpublishedInBatch'
    BY <1>0, <1>1, <1>2, <2>1, <2>2 DEF BatchAwaits, UnpublishedInBatch, InCommit, InBatch
  <2>. QED
    BY <2>3, <2>4
<1>4. CASE b # STOP
  <2>0. ApplyOne(b) /\ b \in Intents /\ Handed(b) /\ Untouched(b)
    <3>1. ApplyOne(b)
      BY <1>4, Zenon DEF Apply
    <3>2. b \in Intents
      BY <1>0, <1>4, ElementOfSeq
    <3>. QED
      BY <1>0, <1>4, <3>1, <3>2 DEF TracesAreHanded, BatchAwaits
  <2>1. error' \subseteq error \cup {b} /\ noop' \subseteq noop \cup {b}
    BY <2>0 DEF ApplyOne
  <2>2. \/ log' = log
        \/ /\ log' = Append(log, b) /\ Len(log') = Len(log) + 1 /\ log'[Len(log) + 1] = b
           /\ \A n \in 1..Len(log) : log'[n] = log[n]
    <3>1. log' = log \/ log' = Append(log, b)
      BY <2>0 DEF ApplyOne, Log
    <3>. QED
      BY <1>0, <2>0, <3>1, AppendProperties
  <2>3. /\ Len(log') \in Nat /\ Len(log) <= Len(log')
        /\ \A n \in 1..Len(log') : (n \in 1..Len(log) /\ log'[n] = log[n])
                                     \/ (n = Len(log) + 1 /\ log'[n] = b)
        /\ \A n \in 1..Len(log) : log'[n] = log[n]
    BY <1>0, <2>2
  <2>4. \A i : i # b /\ Untouched(i) => Untouched(i)'
    BY <2>1, <2>3 DEF Untouched
  <2>5. TracesAreHanded'
    <3>1. \A n \in 1..Len(log') : Handed(log'[n])
      BY <2>0, <2>3 DEF TracesAreHanded
    <3>2. \A i \in error' \cup noop' \cup done' \cup answered' : Handed(i)
      BY <1>1, <2>0, <2>1 DEF TracesAreHanded
    <3>. QED
      BY <1>1, <1>2, <3>1, <3>2 DEF TracesAreHanded
  <2>6. HeldOnce'
    <3>1. \A n \in 1..Len(log) : log[n] # b
      BY <2>0 DEF Untouched
    <3>2. \A m, n \in 1..Len(log') : log'[m] = log'[n] => m = n
      BY <2>3, <3>1 DEF HeldOnce
    <3>. QED
      BY <1>1, <3>2 DEF HeldOnce
  <2>7. QueueAwaits'
    <3>1. \A n \in 1..Len(q) : q[n] # b
      BY <1>0, <1>4 DEF HeldOnce
    <3>. QED
      BY <1>1, <1>2, <2>4, <3>1 DEF QueueAwaits
  <2>8. BatchAwaits'
    <3>. SUFFICES ASSUME NEW n \in 1..Len(batch), batch[n] # STOP
                  PROVE  /\ Awaited(batch[n])'
                         /\ bi + 1 <= n => Untouched(batch[n])'
                         /\ \A m \in 1..(committed_seq' + 1) : log'[m] # batch[n]
      BY <1>0, <1>1 DEF BatchAwaits
    <3>1. Awaited(batch[n])'
      BY <1>0, <1>1, <1>2 DEF BatchAwaits, InCommit
    <3>2. ASSUME bi + 1 <= n PROVE Untouched(batch[n])'
      <4>1. batch[n] # b
        BY <1>0, <3>2 DEF HeldOnce
      <4>. QED
        BY <1>0, <1>1, <2>4, <3>2, <4>1 DEF BatchAwaits
    <3>3. \A m \in 1..(committed_seq + 1) : log'[m] # batch[n]
      BY <1>0, <2>3 DEF BatchAwaits, InCommit
    <3>. QED
      BY <1>1, <3>1, <3>2, <3>3
  <2>9. UnpublishedInBatch'
    <3>1. b \in InBatch
      BY <1>0 DEF InBatch
    <3>2. InBatch' = InBatch
      BY <1>1 DEF InBatch
    <3>3. ASSUME NEW n \in (committed_seq + 2)..Len(log') PROVE log'[n] \in InBatch
      <4>0. committed_seq + 1 \in Nat
        BY <1>0, PublishedPrefix
      <4>1. n \in 1..Len(log')
        BY <1>0, <2>3, <4>0
      <4>2. CASE n \in 1..Len(log) /\ log'[n] = log[n]
        BY <1>0, <4>2 DEF UnpublishedInBatch
      <4>3. CASE log'[n] = b
        BY <3>1, <4>3
      <4>. QED
        BY <2>3, <4>1, <4>2, <4>3
    <3>. QED
      BY <1>0, <1>1, <3>2, <3>3 DEF UnpublishedInBatch
  <2>. QED
    BY <2>5, <2>6, <2>7, <2>8, <2>9
<1>. QED
  BY <1>3, <1>4

\* The rest of the committer keeps it: publishing leaves nothing unpublished, and the
\* intents of a batch that are still asleep are still awaited.
LEMMA BatchEndOnce ==
  ASSUME OnceInv, Flush \/ FlushFails \/ Publish \/ Wake \/ EndBatch
  PROVE  TracesAreHanded' /\ HeldOnce' /\ QueueAwaits' /\ BatchAwaits' /\ UnpublishedInBatch'
<1>. USE DEF OnceInv, PublishInv
<1>0. /\ TypeOK /\ batch \in Seq(Intents \cup {STOP}) /\ Len(batch) \in Nat
      /\ Len(log) \in Nat /\ STOP \notin Intents /\ committed_seq \in Int /\ bi \in Nat
  BY LenProperties, SequencerAssumption DEF TypeInv, TypeOK
<1>1. UNCHANGED <<wpc, calls, answered, q, error, noop, log>>
  BY DEF Flush, FlushFails, Publish, Wake, EndBatch, writers, engine
<1>2. /\ \A i : Handed(i)' <=> Handed(i)
      /\ \A i : Untouched(i)' <=> Untouched(i)
  BY <1>1 DEF Handed, Untouched
<1>3. CASE Flush \/ FlushFails
  <2>1. UNCHANGED <<batch, bi, done, committed_seq>> /\ cpc = "apply" /\ cpc' = "publish"
    BY <1>3 DEF Flush, FlushFails
  <2>2. \A i : Awaited(i)' <=> Awaited(i)
    BY <1>1, <2>1 DEF Awaited
  <2>3. TracesAreHanded' /\ HeldOnce' /\ QueueAwaits'
    BY <1>1, <1>2, <2>1, <2>2 DEF TracesAreHanded, HeldOnce, QueueAwaits
  <2>4. BatchAwaits' /\ UnpublishedInBatch'
    BY <1>1, <1>2, <2>1, <2>2 DEF BatchAwaits, UnpublishedInBatch, InCommit, InBatch
  <2>. QED
    BY <2>3, <2>4
<1>4. CASE Publish
  <2>1. UNCHANGED <<batch, done>> /\ cpc = "publish" /\ cpc' = "wake" /\ committed_seq' = Len(log) - 1
    BY <1>4 DEF Publish, EngineSeq
  <2>2. \A i : Awaited(i)' <=> Awaited(i)
    BY <1>1, <2>1 DEF Awaited
  <2>3. TracesAreHanded' /\ HeldOnce' /\ QueueAwaits'
    BY <1>1, <1>2, <2>1, <2>2 DEF TracesAreHanded, HeldOnce, QueueAwaits
  <2>4. BatchAwaits'
    BY <1>1, <2>1, <2>2 DEF BatchAwaits, InCommit
  <2>5. UnpublishedInBatch'
    BY <1>0, <1>1, <2>1 DEF UnpublishedInBatch
  <2>. QED
    BY <2>3, <2>4, <2>5
<1>5. CASE Wake
  <2>1. /\ UNCHANGED <<batch, committed_seq, cpc>> /\ cpc = "wake" /\ bi' = bi + 1
        /\ bi \in 1..Len(batch) /\ done' = done \cup ({batch[bi]} \ {STOP})
    BY <1>0, <1>5 DEF Wake, TypeOK
  <2>2. \A i : i # batch[bi] /\ Awaited(i) => Awaited(i)'
    BY <1>1, <2>1 DEF Awaited
  <2>3. batch[bi] # STOP => Handed(batch[bi])
    BY <2>1 DEF TracesAreHanded
  <2>4. TracesAreHanded'
    BY <1>1, <1>2, <2>1, <2>3 DEF TracesAreHanded
  <2>5. HeldOnce'
    BY <1>1, <2>1 DEF HeldOnce
  <2>6. QueueAwaits'
    <3>1. \A n \in 1..Len(q) : q[n] = batch[bi] => q[n] = STOP
      BY <2>1 DEF HeldOnce
    <3>. QED
      BY <1>1, <1>2, <2>2, <3>1 DEF QueueAwaits
  <2>7. BatchAwaits'
    <3>1. \A n \in 1..Len(batch) : bi + 1 <= n /\ batch[n] # STOP => batch[n] # batch[bi]
      BY <1>0, <2>1 DEF HeldOnce
    <3>. QED
      BY <1>0, <2>1, <2>2, <3>1 DEF BatchAwaits, InCommit
  <2>8. UnpublishedInBatch'
    BY <1>1, <2>1 DEF UnpublishedInBatch
  <2>. QED
    BY <2>4, <2>5, <2>6, <2>7, <2>8
<1>6. CASE EndBatch
  <2>1. batch' = << >> /\ UNCHANGED <<done, committed_seq>> /\ cpc = "wake"
    BY <1>6 DEF EndBatch
  <2>2. \A i : Awaited(i)' <=> Awaited(i)
    BY <1>1, <2>1 DEF Awaited
  <2>3. Len(batch') = 0
    BY <2>1, EmptySeq
  <2>4. TracesAreHanded' /\ HeldOnce' /\ QueueAwaits'
    BY <1>1, <1>2, <2>1, <2>2, <2>3 DEF TracesAreHanded, HeldOnce, QueueAwaits
  <2>5. BatchAwaits' /\ UnpublishedInBatch'
    BY <1>1, <2>1, <2>3 DEF BatchAwaits, UnpublishedInBatch
  <2>. QED
    BY <2>4, <2>5
<1>. QED
  BY <1>3, <1>4, <1>5, <1>6

\* close() keeps it: its _STOP is no intent.
LEMMA CloserOnce ==
  ASSUME OnceInv, Close \/ Closer \/ UNCHANGED vars
  PROVE  TracesAreHanded' /\ HeldOnce' /\ QueueAwaits' /\ BatchAwaits' /\ UnpublishedInBatch'
<1>. USE DEF OnceInv, PublishInv
<1>0. q \in Seq(Intents \cup {STOP}) /\ Len(q) \in Nat
  BY LenProperties DEF TypeInv, TypeOK
<1>1. UNCHANGED <<wpc, calls, answered, cpc, batch, bi, error, noop, done, committed_seq, log>>
  BY DEF Close, Closer, PutStop, Join, DbClose, vars, writers, committer, engine
<1>2. /\ \A i : Handed(i)' <=> Handed(i)
      /\ \A i : Awaited(i)' <=> Awaited(i)
      /\ \A i : Untouched(i)' <=> Untouched(i)
  BY <1>1 DEF Handed, Awaited, Untouched
<1>3. q' = q \/ q' = Append(q, STOP)
  BY DEF Close, Closer, PutStop, Join, DbClose, vars
<1>4. /\ \A n \in 1..Len(q') : (n \in 1..Len(q) /\ q'[n] = q[n]) \/ q'[n] = STOP
  BY <1>0, <1>3, AppendProperties
<1>5. TracesAreHanded'
  BY <1>1, <1>2, <1>4 DEF TracesAreHanded
<1>6. HeldOnce'
  BY <1>1, <1>4 DEF HeldOnce
<1>7. QueueAwaits'
  BY <1>2, <1>4 DEF QueueAwaits
<1>8. BatchAwaits' /\ UnpublishedInBatch'
  BY <1>1, <1>2 DEF BatchAwaits, UnpublishedInBatch, InCommit, InBatch
<1>. QED
  BY <1>5, <1>6, <1>7, <1>8

\* The invariant is inductive.
LEMMA NextOnce ==
  ASSUME OnceInv, [Next]_vars
  PROVE  OnceInv'
<1>1. PublishInv'
  BY NextPublish DEF OnceInv
<1>2. TracesAreHanded' /\ HeldOnce' /\ QueueAwaits' /\ BatchAwaits' /\ UnpublishedInBatch'
  BY WriterOnce, MovesOnce, ApplyOnce, BatchEndOnce, CloserOnce DEF Next, Committer
<1>. QED
  BY <1>1, <1>2 DEF OnceInv

-----------------------------------------------------------------------------
(* The refinement mapping, step by step.                                     *)

\* Settled in one formula: it left no op, and its batch is not being committed.
LEMMA SettledMeans ==
  ASSUME TypeOK, NEW i
  PROVE  i \in Settled <=> /\ i \in error \cup noop
                           /\ \A n \in 1..Len(log) : log[n] # i
                           /\ ~ (cpc \in {"apply", "publish"} /\ i \in InBatch)
<1>1. Len(log) \in Nat /\ committed_seq \in -1..(Len(log) - 1)
  BY LenProperties DEF TypeOK
<1>2. \A n \in 1..Len(log) : n \in 1..(committed_seq + 1) \/ n \in (committed_seq + 2)..Len(log)
  BY <1>1
<1>3. i \in Unpublished \cup InPublished <=> \E n \in 1..Len(log) : log[n] = i
  <2>1. i \in InPublished <=> \E n \in 1..(committed_seq + 1) : log[n] = i
    BY PublishedPrefix, Zenon
  <2>2. i \in Unpublished <=> \E n \in (committed_seq + 2)..Len(log) : log[n] = i
    BY Zenon DEF Unpublished
  <2>3. /\ \A n \in 1..(committed_seq + 1) : n \in 1..Len(log)
        /\ \A n \in (committed_seq + 2)..Len(log) : n \in 1..Len(log)
    BY <1>1
  <2>. QED
    BY <1>2, <2>1, <2>2, <2>3, Zenon
<1>. QED
  BY <1>3 DEF Settled

\* Whoever is woken is published or settled.
LEMMA WokenIsSettled ==
  ASSUME OnceInv, NEW i \in done
  PROVE  i \in InPublished \cup Settled
<1>. SUFFICES ASSUME i \notin InPublished PROVE i \in Settled
  OBVIOUS
<1>0. TypeOK /\ Len(log) \in Nat /\ committed_seq \in Int /\ i \in Intents /\ STOP \notin Intents
  BY LenProperties, SequencerAssumption DEF OnceInv, PublishInv, TypeInv, TypeOK
<1>1. i \in error \cup noop
  BY <1>0, PublishedPrefix DEF OnceInv, PublishInv, DoneArePublished, Kept
<1>2. ~ (cpc \in {"apply", "publish"} /\ i \in InBatch)
  BY <1>0 DEF OnceInv, BatchAwaits, InCommit, Awaited, InBatch
<1>3. ASSUME NEW n \in 1..Len(log) PROVE log[n] # i
  <2>1. CASE n \in 1..(committed_seq + 1)
    BY <1>0, <2>1, PublishedPrefix
  <2>2. CASE n \in (committed_seq + 2)..Len(log)
    BY <1>2, <2>2 DEF OnceInv, UnpublishedInBatch
  <2>. QED
    BY <1>0, <2>1, <2>2
<1>. QED
  BY <1>0, <1>1, <1>2, <1>3, SettledMeans

\* The pending calls of the abstract state.
Pending == Waiting \ (InPublished \cup Settled)

\* Init maps to the abstract Init.
LEMMA InitMaps == Init => Abstract!Init
<1>. SUFFICES ASSUME Init PROVE Abstract!Init
  OBVIOUS
<1>1. TypeOK
  BY InitType DEF TypeInv
<1>2. Published = << >>
  BY SubSeqEmpty DEF Init, Published
<1>3. Waiting = {} /\ Settled = {} /\ answered = {}
  BY DEF Init, Waiting, Settled
<1>. QED
  BY <1>2, <1>3 DEF Abstract!Init

\* A step that leaves the committed part and the waiting writers alone is a stutter.
LEMMA Stutters ==
  ASSUME UNCHANGED <<Published, Settled, Waiting, answered>>
  PROVE  UNCHANGED Abstract!vars
<1>1. InPublished' = InPublished
  BY DEF InPublished
<1>. QED
  BY <1>1 DEF Abstract!vars

\* Enqueue is Submit, Return is Answer, and Check is not seen.
LEMMA WriterMaps ==
  ASSUME OnceInv, NEW w \in Writers, Check(w) \/ Enqueue(w) \/ Return(w)
  PROVE  [Abstract!Next]_(Abstract!vars)
<1>0. /\ TypeInv /\ TypeOK /\ wpc \in [Writers -> {"idle", "checked", "waiting"}]
      /\ calls \in [Writers -> 0..MaxCalls] /\ calls[w] \in Nat
  BY SequencerAssumption DEF OnceInv, PublishInv, TypeInv, TypeOK
<1>1. UNCHANGED <<cpc, batch, error, noop, done, committed_seq, log>>
  BY DEF Check, Enqueue, Return, committer, engine
<1>2. UNCHANGED <<Published, Settled, InPublished>>
  BY <1>1 DEF Published, Settled, InPublished, Unpublished, InBatch
<1>3. CASE Check(w)
  <2>1. wpc[w] = "idle" /\ wpc'[w] # "waiting" /\ answered' = answered
        /\ \A u \in Writers \ {w} : wpc'[u] = wpc[u] /\ calls'[u] = calls[u]
    BY <1>0, <1>3 DEF Check
  <2>2. Waiting' = Waiting
    BY <2>1 DEF Waiting
  <2>. QED
    BY <1>2, <2>1, <2>2, Stutters
<1>4. CASE Enqueue(w)
  <2>. DEFINE i == <<w, calls[w]>>
  <2>1. /\ wpc[w] = "checked" /\ wpc'[w] = "waiting" /\ answered' = answered /\ calls' = calls
        /\ \A u \in Writers \ {w} : wpc'[u] = wpc[u]
        /\ i \in Intents
    BY <1>0, <1>4, CurrentIsIntent DEF Enqueue, Current
  <2>2. Waiting' = Waiting \cup {i}
    BY <2>1 DEF Waiting
  <2>3. ~Handed(i)
    BY <1>0, <2>1 DEF Handed
  <2>4. i \notin error \cup noop \cup answered /\ \A n \in 1..Len(log) : log[n] # i
    BY <2>3 DEF OnceInv, TracesAreHanded
  <2>5. i \notin InPublished /\ i \notin Settled
    <3>1. \A n \in 1..(committed_seq + 1) : n \in 1..Len(log)
      BY <1>0, LenProperties DEF TypeOK
    <3>. QED
      BY <1>0, <2>4, <3>1, PublishedPrefix, SettledMeans
  <2>6. i \notin Waiting
    BY <2>1 DEF Waiting
  <2>7. Abstract!Submit(i)
    BY <1>2, <2>1, <2>2, <2>4, <2>5, <2>6 DEF Abstract!Submit, Abstract!InLog, InPublished
  <2>. QED
    BY <2>1, <2>7 DEF Abstract!Next
<1>5. CASE Return(w)
  <2>. DEFINE i == <<w, calls[w]>>
  <2>1. /\ wpc[w] = "waiting" /\ wpc'[w] = "idle" /\ answered' = answered \cup {i} /\ calls' = calls
        /\ \A u \in Writers \ {w} : wpc'[u] = wpc[u]
        /\ i \in Intents /\ i \in done
    BY <1>0, <1>5, CurrentIsIntent DEF Return, Current
  <2>2. Waiting' = Waiting \ {i}
    BY <2>1 DEF Waiting
  <2>3. i \in InPublished \cup Settled
    BY <2>1, WokenIsSettled
  <2>4. Abstract!Answer(i)
    BY <1>2, <2>1, <2>2, <2>3 DEF Abstract!Answer, Abstract!InLog, InPublished
  <2>. QED
    BY <2>1, <2>4 DEF Abstract!Next
<1>. QED
  BY <1>3, <1>4, <1>5

\* Publish is Commit: the batch's ops enter the published log, and its intents without an
\* op are settled.
LEMMA PublishMaps ==
  ASSUME OnceInv, Publish
  PROVE  Abstract!Commit
<1>0. /\ TypeOK /\ TypeOK' /\ log \in Seq(Intents) /\ Len(log) \in Nat /\ STOP \notin Intents
      /\ committed_seq + 1 \in 0..Len(log) /\ committed_seq \in Int
      /\ error \subseteq Intents /\ noop \subseteq Intents
  <2>1. TypeInv /\ TypeInv'
    BY NextType DEF OnceInv, PublishInv, Next, Committer
  <2>2. TypeOK /\ TypeOK'
    BY <2>1 DEF TypeInv
  <2>3. log \in Seq(Intents) /\ Len(log) \in Nat /\ committed_seq \in -1..(Len(log) - 1)
    BY <2>2, LenProperties DEF TypeOK
  <2>4. error \subseteq Intents /\ noop \subseteq Intents /\ STOP \notin Intents
    BY <2>2, SequencerAssumption DEF TypeOK
  <2>. QED
    BY <2>2, <2>3, <2>4
<1>1. /\ UNCHANGED <<wpc, calls, answered, error, noop, log, batch>>
      /\ cpc = "publish" /\ cpc' = "wake" /\ committed_seq' = Len(log) - 1
  BY DEF Publish, EngineSeq, writers, engine
<1>2. /\ Len(Published) = committed_seq + 1 /\ InPublished = {log[n] : n \in 1..(committed_seq + 1)}
      /\ \A n \in 1..(committed_seq + 1) : Published[n] = log[n]
  BY <1>0, PublishedPrefix
<1>3. /\ Len(Published') = Len(log) /\ InPublished' = {log[n] : n \in 1..Len(log)}
      /\ \A n \in 1..Len(log) : Published'[n] = log[n]
  <2>1. committed_seq' + 1 = Len(log)
    BY <1>0, <1>1
  <2>2. /\ Len(Published)' = committed_seq' + 1 /\ InPublished' = {log'[n] : n \in 1..(committed_seq' + 1)}
        /\ \A n \in 1..(committed_seq' + 1) : Published'[n] = log'[n]
    <3>1. Published' = SubSeq(log, 1, Len(log))
      BY <1>1, <2>1 DEF Published
    <3>2. Published' = log
      BY <1>0, <3>1, SubSeqFull
    <3>. QED
      BY <1>1, <2>1, <3>2 DEF InPublished
  <2>. QED
    BY <1>1, <2>1, <2>2
<1>. DEFINE New == {log[n] : n \in (committed_seq + 2)..Len(log)}
            Opless == Settled' \ Settled
<1>4. \A i : i \in Settled' <=> i \in error \cup noop /\ \A n \in 1..Len(log) : log[n] # i
  <2>1. Settled' = {i \in (error \cup noop) \ (Unpublished' \cup InPublished') : TRUE}
    BY <1>1 DEF Settled
  <2>2. Unpublished' = {}
    BY <1>0, <1>1 DEF Unpublished
  <2>. QED
    BY <1>3, <2>1, <2>2
<1>5. \A i : i \in Settled <=> /\ i \in error \cup noop /\ \A n \in 1..Len(log) : log[n] # i
                               /\ i \notin InBatch
  BY <1>0, <1>1, SettledMeans
<1>6. \A n \in 1..Len(batch) : batch[n] # STOP => Awaited(batch[n]) /\ batch[n] \notin InPublished
  BY <1>1, <1>2 DEF OnceInv, BatchAwaits, InCommit
<1>7. \A i \in Intents : Awaited(i) => i \in Waiting
  BY DEF Awaited, Waiting, Intents
<1>8. New \subseteq InBatch /\ New \subseteq Intents
  <2>1. New \subseteq InBatch
    BY DEF OnceInv, UnpublishedInBatch
  <2>2. \A n \in (committed_seq + 2)..Len(log) : log[n] \in Intents
    BY <1>0, ElementOfSeq
  <2>. QED
    BY <2>1, <2>2
<1>9. ASSUME NEW i \in InBatch \cap Intents PROVE i \in Waiting /\ i \notin InPublished /\ i \notin Settled
  BY <1>0, <1>5, <1>6, <1>7, <1>9 DEF InBatch
<1>10. New \subseteq Pending
  BY <1>8, <1>9 DEF Pending
<1>11. Settled \subseteq Settled' /\ Opless \subseteq Pending /\ Opless \cap New = {}
  <2>1. Opless \subseteq InBatch \cap Intents
    BY <1>0, <1>4, <1>5
  <2>2. Opless \cap New = {}
    <3>1. \A n \in (committed_seq + 2)..Len(log) : n \in 1..Len(log)
      BY <1>0
    <3>. QED
      BY <1>4, <3>1
  <2>. QED
    BY <1>4, <1>5, <1>9, <2>1, <2>2 DEF Pending
<1>12. Pending' = Pending \ (New \cup Opless)
  <2>1. Waiting' = Waiting
    BY <1>1 DEF Waiting
  <2>2. InPublished' = InPublished \cup New
    <3>1. \A n \in 1..Len(log) : n \in 1..(committed_seq + 1) \/ n \in (committed_seq + 2)..Len(log)
      BY <1>0
    <3>2. /\ \A n \in 1..(committed_seq + 1) : n \in 1..Len(log)
          /\ \A n \in (committed_seq + 2)..Len(log) : n \in 1..Len(log)
      BY <1>0
    <3>. QED
      BY <1>2, <1>3, <3>1, <3>2
  <2>. QED
    BY <1>11, <2>1, <2>2 DEF Pending
<1>13. {Published'[n] : n \in (Len(Published) + 1)..Len(Published')} = New
  <2>1. \A n \in (committed_seq + 2)..Len(log) : Published'[n] = log[n]
    BY <1>0, <1>3
  <2>2. Len(Published) + 1 = committed_seq + 2 /\ Len(Published') = Len(log)
    BY <1>0, <1>2, <1>3
  <2>. QED
    BY <2>1, <2>2
<1>14. /\ Len(Published) <= Len(Published')
       /\ \A n \in 1..Len(Published) : Published'[n] = Published[n]
       /\ \A m, n \in 1..Len(Published') : Published'[m] = Published'[n] => m = n
  BY <1>0, <1>2, <1>3 DEF OnceInv, HeldOnce
<1>. HIDE DEF New, Opless
<1>15. /\ New \subseteq Pending /\ Settled \subseteq Settled' /\ Opless \subseteq Pending
       /\ Opless \cap New = {} /\ Pending' = Pending \ (New \cup Opless) /\ answered' = answered
  BY <1>1, <1>10, <1>11, <1>12
<1>. QED
  BY <1>13, <1>14, <1>15 DEF Abstract!Commit, Pending, Opless

\* Every other step of the committer and the closer is a stutter: until the batch is
\* published, what it does is hidden.
LEMMA HiddenSteps ==
  ASSUME OnceInv, \/ Get \/ Drain \/ Apply \/ Flush \/ FlushFails \/ Wake \/ EndBatch
                  \/ Close \/ Closer \/ UNCHANGED vars
  PROVE  UNCHANGED Abstract!vars
<1>0. TypeOK /\ TypeOK' /\ (cpc = "drain" => bi = 1)
  <2>1. TypeInv /\ TypeInv'
    BY NextType DEF OnceInv, PublishInv, Next, Committer
  <2>. QED
    BY <2>1 DEF TypeInv, BatchHeld
<1>1. UNCHANGED <<wpc, calls, answered, committed_seq>>
  BY DEF Get, Drain, Apply, Flush, FlushFails, Wake, EndBatch, Close, Closer, PutStop, Join, DbClose,
         vars, writers
<1>2. Waiting' = Waiting
  BY <1>1 DEF Waiting
<1>3. CASE Apply
  <2>1. Published' = Published
    <3>1. log \in Seq(Intents) /\ log' \in Seq(Intents)
      BY <1>0 DEF TypeOK
    <3>2. /\ Len(Published) = committed_seq + 1 /\ committed_seq + 1 \in Nat
          /\ \A n \in 1..(committed_seq + 1) : Published[n] = log[n]
      BY <1>0, PublishedPrefix
    <3>3. committed_seq + 1 <= Len(log) /\ Len(log) \in Nat /\ Len(log') \in Nat /\ Len(log) <= Len(log')
          /\ \A n \in 1..Len(log) : log'[n] = log[n]
      BY <1>0, <1>3, <3>1, LenProperties, ApplyKeeps, SMTT(30) DEF TypeOK, OnceInv, PublishInv
    <3>4. \A n \in 1..(committed_seq + 1) : log'[n] = log[n] /\ log[n] \in Intents /\ log'[n] \in Intents
      BY <3>1, <3>2, <3>3, ElementOfSeq
    <3>5. /\ Published \in Seq(Intents)
      BY <3>2, <3>4, SubSeqProperties DEF Published
    <3>6. /\ SubSeq(log', 1, committed_seq + 1) \in Seq(Intents)
          /\ Len(SubSeq(log', 1, committed_seq + 1)) = committed_seq + 1
          /\ \A n \in 1..(committed_seq + 1) : SubSeq(log', 1, committed_seq + 1)[n] = log[n]
      BY <3>2, <3>4, SubSeqProperties
    <3>7. SubSeq(log', 1, committed_seq + 1) = Published
      BY <3>2, <3>5, <3>6, SeqEqual
    <3>. QED
      BY <1>1, <3>7 DEF Published
  <2>2. Settled' = Settled
    <3>. DEFINE b == batch[bi]
    <3>1. /\ UNCHANGED <<batch, cpc>> /\ cpc = "apply" /\ b \in InBatch
      BY <1>0, <1>3 DEF Apply, InBatch, TypeOK
    <3>2. /\ \A i : i # b => (i \in error' \cup noop' <=> i \in error \cup noop)
          /\ \A i : i # b => (i \in Unpublished' <=> i \in Unpublished)
      <4>0. /\ log \in Seq(Intents) /\ Len(log) \in Nat /\ b \in Intents \cup {STOP}
            /\ committed_seq \in Int /\ committed_seq + 1 <= Len(log)
        <5>1. log \in Seq(Intents) /\ Len(log) \in Nat /\ committed_seq \in -1..(Len(log) - 1)
          BY <1>0, LenProperties DEF TypeOK
        <5>2. b \in Intents \cup {STOP}
          BY <1>0, <1>3, ElementOfSeq DEF Apply, TypeOK
        <5>. QED
          BY <5>1, <5>2
      <4>1. CASE UNCHANGED <<error, noop, log>>
        BY <1>1, <4>1 DEF Unpublished
      <4>2. CASE ApplyOne(b) /\ b # STOP
        <5>1. \A i : i # b => (i \in error' \cup noop' <=> i \in error \cup noop)
          BY <4>2 DEF ApplyOne
        <5>2. log' = log \/ log' = Append(log, b)
          BY <4>2 DEF ApplyOne, Log
        <5>3. CASE log' = Append(log, b)
          <6>1. /\ Len(log') = Len(log) + 1 /\ log'[Len(log) + 1] = b
                /\ \A n \in 1..Len(log) : log'[n] = log[n]
            BY <4>0, <4>2, <5>3, AppendProperties
          <6>2. committed_seq + 1 \in Nat
            BY <1>0, PublishedPrefix
          <6>3. \A n \in (committed_seq + 2)..Len(log') :
                  n = Len(log) + 1 \/ (n \in (committed_seq + 2)..Len(log) /\ log'[n] = log[n])
            BY <4>0, <6>1, <6>2
          <6>4. \A n \in (committed_seq + 2)..Len(log) :
                  n \in (committed_seq + 2)..Len(log') /\ log'[n] = log[n]
            BY <4>0, <6>1, <6>2
          <6>. QED
            BY <1>1, <5>1, <6>1, <6>3, <6>4 DEF Unpublished
        <5>4. CASE log' = log
          BY <1>1, <5>1, <5>4 DEF Unpublished
        <5>. QED
          BY <5>2, <5>3, <5>4
      <4>. QED
        BY <1>3, <4>1, <4>2, Zenon DEF Apply
    <3>3. InPublished' = InPublished /\ InBatch' = InBatch
      BY <2>1, <3>1 DEF InPublished, InBatch
    <3>. QED
      BY <3>1, <3>2, <3>3 DEF Settled
  <2>. QED
    BY <1>1, <1>2, <2>1, <2>2, Stutters
<1>4. CASE ~Apply
  <2>1. UNCHANGED <<error, noop, log>>
    BY <1>4 DEF Get, Drain, Flush, FlushFails, Wake, EndBatch, Close, Closer, PutStop, Join, DbClose,
                vars, engine
  <2>2. UNCHANGED <<Published, InPublished, Unpublished>>
    BY <1>1, <2>1 DEF Published, InPublished, Unpublished
  <2>3. \A i \in error \cup noop :
          (cpc \in {"apply", "publish"} /\ i \in InBatch)' <=> (cpc \in {"apply", "publish"} /\ i \in InBatch)
    <3>1. CASE cpc' = "apply" /\ cpc = "drain" /\ batch' = batch
      <4>1. \A n \in 1..Len(batch) : batch[n] # STOP => Untouched(batch[n])
        BY <3>1 DEF OnceInv, BatchAwaits
      <4>2. error \cup noop \subseteq Intents /\ STOP \notin Intents
        BY <1>0, SequencerAssumption DEF TypeOK
      <4>. QED
        BY <3>1, <4>1, <4>2 DEF Untouched, InBatch
    <3>2. CASE UNCHANGED batch /\ (cpc' \in {"apply", "publish"} <=> cpc \in {"apply", "publish"})
      BY <3>2 DEF InBatch
    <3>3. CASE cpc \notin {"apply", "publish"} /\ cpc' \notin {"apply", "publish"}
      BY <3>3
    <3>. QED
      BY <1>4, <3>1, <3>2, <3>3
         DEF Get, Drain, Flush, FlushFails, Wake, EndBatch, Afterwards, Close, Closer, PutStop, Join, DbClose,
             vars, committer
  <2>4. Settled' = Settled
    BY <2>1, <2>2, <2>3 DEF Settled
  <2>. QED
    BY <1>1, <1>2, <2>2, <2>4, Stutters
<1>. QED
  BY <1>3, <1>4

\* Every step of the Sequencer is a step of the commit log, or leaves it alone.
LEMMA NextMaps ==
  ASSUME OnceInv, [Next]_vars
  PROVE  [Abstract!Next]_(Abstract!vars)
<1>1. CASE Publish
  BY <1>1, PublishMaps DEF Abstract!Next
<1>. QED
  BY <1>1, WriterMaps, HiddenSteps DEF Next, Committer

\* The Sequencer implements the commit log, for any number of writers and calls, with
\* fsync failures, join timeouts and close() at any time: one published log that grows by
\* whole batches of waiting calls, each call in it at most once and answered only when it
\* is in it or left no op.
THEOREM SequencerIsCommitLog == Spec => ImplementsCommitLog
<1>1. OnceInv /\ [Next]_vars => OnceInv'
  BY NextOnce
<1>2. OnceInv /\ [Next]_vars => [Abstract!Next]_(Abstract!vars)
  BY NextMaps
<1>. QED
  BY InitOnce, InitMaps, <1>1, <1>2, PTL DEF Spec, ImplementsCommitLog, Abstract!Spec

=============================================================================
