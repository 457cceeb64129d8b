---------------------------- MODULE AtRestProofs ----------------------------
(***************************************************************************)
(* Theorems on AtRest, for any keys, names, contents and numbers of        *)
(* sessions, rotations and ops: what keys and stops can do to the log and  *)
(* to the files, and what the proofs of chunks and ops prove.              *)
(***************************************************************************)
EXTENDS AtRest, BasicLemmas

-----------------------------------------------------------------------------
(* The inductive invariant.                                                 *)

\* key.enc holds one DEK at most, and it is the session's when the session has one.
KeyFile ==
  /\ deks \in Nat
  /\ keyenc \subseteq [tmk : TMKs, dek : Nat]
  /\ \A k, l \in keyenc : k = l
  /\ dek # NIL => \E k \in keyenc : k.dek = dek
  /\ mode = "down" => dek = NIL
  /\ mode \in {"backfill", "unsnap"} => dek # NIL
  /\ mode = "rewrap" => keyenc # {} /\ newTmk \in TMKs

\* The log on disk is what was acknowledged, line by line, under the DEK of key.enc or plain.
LogKept ==
  ~blind =>
    /\ IsSequence(aof) /\ IsSequence(promised)
    /\ Len(aof) = Len(promised)
    /\ \A i \in 1..Len(aof) :
         /\ aof[i].op = promised[i]
         /\ aof[i].key = NIL \/ \E k \in keyenc : k.dek = aof[i].key

\* Operations are served.
Serving == mode \in {"open", "snapshot", "rename", "rewrap"}

\* The log is plain as a whole or encrypted as a whole, a plain snapshot is not beside an
\* encrypted log but while a backfill removes it, and a session writes what the log has.
Uniform ==
  ~blind /\ ~bare =>
    /\ (\A i \in 1..Len(aof) : aof[i].key = NIL) \/ (\A i \in 1..Len(aof) : aof[i].key # NIL)
    /\ mode \in {"snapshot", "rename"} \/ snap # {} => Len(aof) > 0
    /\ mode # "unsnap" /\ (\E i \in 1..Len(aof) : aof[i].key # NIL) => \A s \in snap : s.key # NIL
    /\ Serving => \A i \in 1..Len(aof) : (aof[i].key = NIL) <=> (dek = NIL)
    /\ mode = "unsnap" => \A i \in 1..Len(aof) : aof[i].key # NIL

\* A temporary file is of the session that writes it, or was left by one that died: plain
\* only if that one had no key.  A session with the key has nothing to cut.
Temporary ==
  /\ temps = [snap |-> temps.snap, aof |-> temps.aof]
  /\ strewn = [snap |-> strewn.snap, aof |-> strewn.aof]
  /\ mode = "heal" /\ ~blind => dek = NIL
  /\ \A s \in temps.snap : (mode = "rename" => s.key = dek) /\ (s.key = NIL => strewn.snap \/ mode = "rename")
  /\ \A i \in DOMAIN temps.aof :
       (mode = "heal" => temps.aof[i].key = dek) /\ (temps.aof[i].key = NIL => strewn.aof \/ mode = "heal")

KeyInv == KeyFile /\ LogKept /\ Uniform /\ Temporary

-----------------------------------------------------------------------------
(* Lemmas on the lines of a log.                                            *)

\* When every line decodes, _load reads them all.
LEMMA ReadsAll ==
  ASSUME IsSequence(aof), \A i \in 1..Len(aof) : Reads(aof[i])
  PROVE  Readable = aof
<1>. DEFINE P(n) == (\A i \in 1..n : Reads(aof[i])) /\ (n < Len(aof) => ~Reads(aof[n + 1]))
            m == CHOOSE n \in 0..Len(aof) : P(n)
<1>1. Len(aof) \in Nat /\ aof = [i \in 1..Len(aof) |-> aof[i]]
  BY SequenceIsFunction
<1>2. P(Len(aof)) /\ Len(aof) \in 0..Len(aof)
  BY <1>1
<1>3. m \in 0..Len(aof) /\ P(m)
  BY <1>2
<1>4. m = Len(aof)
  BY <1>1, <1>3
<1>5. SubSeq(aof, 1, Len(aof)) = aof
  BY <1>1, SequenceIsFunction, SubSeqFull DEF IsSequence
<1>. QED
  BY <1>4, <1>5 DEF Readable

\* When _load reads no fewer lines than there are, every line decodes.
LEMMA ReadsOnlyDecoded ==
  ASSUME IsSequence(aof), ~(Len(Readable) < Len(aof))
  PROVE  \A i \in 1..Len(aof) : Reads(aof[i])
<1>. SUFFICES ASSUME NEW bad \in 1..Len(aof), ~Reads(aof[bad]) PROVE FALSE
  OBVIOUS
<1>. DEFINE Bad == {i \in 1..Len(aof) : ~Reads(aof[i])}
            P(n) == (\A i \in 1..n : Reads(aof[i])) /\ (n < Len(aof) => ~Reads(aof[n + 1]))
            m == CHOOSE n \in 0..Len(aof) : P(n)
<1>1. Len(aof) \in Nat
  BY SequenceIsFunction
<1>. DEFINE x == Min(Bad)
<1>2. x \in Bad /\ \A y \in Bad : x <= y
  <2>1. Bad \subseteq Nat /\ Bad # {}
    BY <1>1
  <2>. HIDE DEF Bad
  <2>. QED
    BY <2>1, MinOfNaturals
<1>. HIDE DEF x
<1>3. \A y \in Bad : ~(y < x)
  BY <1>1, <1>2
<1>4. P(x - 1) /\ x - 1 \in 0..Len(aof)
  BY <1>1, <1>2, <1>3
<1>5. m \in 0..Len(aof) /\ P(m)
  BY <1>4
<1>6. m < Len(aof)
  BY <1>1, <1>2, <1>5
<1>7. Len(SubSeq(aof, 1, m)) = m
  <2>1. PICK S : aof \in Seq(S)
    BY DEF IsSequence
  <2>2. \A i \in 1..m : aof[i] \in S
    BY <1>1, <1>5, <2>1, ElementOfSeq
  <2>. HIDE DEF m
  <2>. QED
    BY <1>1, <1>5, <2>2, SubSeqProperties
<1>. QED
  BY <1>6, <1>7 DEF Readable

-----------------------------------------------------------------------------
(* The steps.                                                               *)

\* What load_or_create_dek leaves is the DEK that key.enc held, if it held one.
LEMMA UnlockedKeeps ==
  ASSUME KeyFile, NEW tmk \in TMKs, NEW k \in Unlocked(tmk)
  PROVE  /\ k \in [tmk : TMKs, dek : Nat]
         /\ keyenc # {} => keyenc = {k}
BY DEF KeyFile, Unlocked

\* key.enc is empty at first.
LEMMA InitKeyFile == Init => KeyFile
BY DEF Init, KeyFile

\* Every step keeps the one DEK.
LEMMA NextKeyFile ==
  ASSUME KeyFile, [Next]_vars
  PROVE  KeyFile'
<1>1. ASSUME NEW tmk \in TMKs \cup {NIL}, Open(tmk) PROVE KeyFile'
  <2>1. CASE tmk = NIL
    BY <1>1, <2>1 DEF Open, KeyFile
  <2>2. ASSUME tmk # NIL, NEW k \in Unlocked(tmk), keyenc' = {k}, dek' = k.dek, mode' = "load",
               deks' = IF k.dek > deks THEN k.dek ELSE deks
        PROVE  KeyFile'
    <3>1. k \in [tmk : TMKs, dek : Nat]
      BY <2>2, UnlockedKeeps
    <3>. QED
      BY <2>2, <3>1 DEF KeyFile
  <2>3. CASE Unlocked(tmk) = {} /\ UNCHANGED <<mode, dek, keyenc, deks>>
    BY <1>1, <2>3 DEF Open, KeyFile
  <2>. QED
    BY <1>1, <2>1, <2>2, <2>3 DEF Open
<1>2. CASE LoadFromSnapshot
  BY <1>2 DEF LoadFromSnapshot, Stopped, disk, KeyFile
<1>3. CASE LoadFromLog
  BY <1>3 DEF LoadFromLog, KeyFile
<1>4. CASE Backfill
  BY <1>4 DEF Backfill, KeyFile
<1>5. CASE Unsnap
  BY <1>5 DEF Unsnap, KeyFile
<1>6. CASE Put
  BY <1>6 DEF Put, KeyFile
<1>7. CASE Checkpoint
  BY <1>7 DEF Checkpoint, LogAppend, KeyFile
<1>8. CASE SaveSnapshot
  BY <1>8 DEF SaveSnapshot, KeyFile
<1>9. ASSUME NEW name \in Names, NEW data \in Contents, PutFile(name, data) PROVE KeyFile'
  BY <1>9 DEF PutFile, KeyFile
<1>10. ASSUME NEW old \in TMKs, NEW new \in TMKs, Rotate(old, new) PROVE KeyFile'
  <2>1. ASSUME NEW k \in Unlocked(old), keyenc' = {k}, deks' = IF k.dek > deks THEN k.dek ELSE deks,
               newTmk' = new, mode' = "rewrap"
        PROVE  KeyFile'
    <3>1. k \in [tmk : TMKs, dek : Nat] /\ (keyenc # {} => keyenc = {k})
      BY <2>1, UnlockedKeeps
    <3>2. dek' = dek
      BY <1>10 DEF Rotate
    <3>. QED
      BY <2>1, <3>1, <3>2 DEF KeyFile
  <2>2. CASE UNCHANGED <<keyenc, deks, newTmk, mode>>
    BY <1>10, <2>2 DEF Rotate, KeyFile
  <2>. QED
    BY <1>10, <2>1, <2>2 DEF Rotate
<1>11. CASE Rewrap
  <2>1. PICK k \in keyenc : keyenc = {k}
    BY <1>11 DEF Rewrap, KeyFile
  <2>2. Rewrapped = {[k EXCEPT !.tmk = newTmk]}
    BY <2>1 DEF Rewrapped
  <2>3. k \in [tmk : TMKs, dek : Nat] /\ newTmk \in TMKs
    BY <1>11 DEF Rewrap, KeyFile
  <2>4. /\ [k EXCEPT !.tmk = newTmk] \in [tmk : TMKs, dek : Nat]
        /\ [k EXCEPT !.tmk = newTmk].dek = k.dek
    BY <2>3
  <2>5. dek' = k.dek
    BY <1>11, <2>2, <2>4 DEF Rewrap
  <2>6. deks' \in Nat
    BY <1>11, <2>3, <2>5 DEF Rewrap, KeyFile
  <2>. QED
    BY <1>11, <2>2, <2>4, <2>5, <2>6 DEF Rewrap, KeyFile
<1>12. CASE Stop
  BY <1>12 DEF Stop, Stopped, disk, KeyFile
<1>13. CASE Heal
  BY <1>13 DEF Heal, KeyFile
<1>14. CASE RenameSnapshot
  BY <1>14 DEF RenameSnapshot, KeyFile
<1>15. CASE UNCHANGED vars
  BY <1>15 DEF vars, KeyFile
<1>. QED
  BY <1>1, <1>2, <1>3, <1>4, <1>5, <1>6, <1>7, <1>8, <1>9, <1>10, <1>11, <1>12, <1>13, <1>14, <1>15 DEF Next

\* The log is empty at first.
LEMMA InitLogKept == Init => LogKept
<1>1. << >> \in Seq({}) /\ Len(<< >>) = 0
  BY EmptySeq
<1>. QED
  BY <1>1 DEF Init, LogKept, IsSequence

\* A line that _log_append adds is acknowledged, and under the session's key.
LEMMA AppendKeepsLog ==
  ASSUME KeyFile, LogKept, NEW op, LogAppend(op), UNCHANGED <<keyenc, blind>>
  PROVE  LogKept'
<1>. SUFFICES ASSUME ~blind PROVE LogKept'
  BY DEF LogKept
<1>. DEFINE line == [op |-> op, key |-> dek]
<1>1. aof' = Append(aof, line) /\ promised' = Append(promised, op)
  BY DEF LogAppend
<1>2. /\ IsSequence(aof) /\ IsSequence(promised) /\ Len(aof) = Len(promised)
      /\ Len(aof) \in Nat
  BY SequenceIsFunction DEF LogKept
<1>3. /\ IsSequence(aof') /\ Len(aof') = Len(aof) + 1
      /\ \A i \in 1..Len(aof) : aof'[i] = aof[i]
      /\ aof'[Len(aof) + 1] = line
  BY <1>1, <1>2, AppendToSequence
<1>4. /\ IsSequence(promised') /\ Len(promised') = Len(aof) + 1
      /\ \A i \in 1..Len(aof) : promised'[i] = promised[i]
      /\ promised'[Len(aof) + 1] = op
  BY <1>1, <1>2, AppendToSequence
<1>5. line.op = op /\ (line.key = NIL \/ \E k \in keyenc : k.dek = line.key)
  BY DEF KeyFile
<1>6. \A i \in 1..Len(aof') :
        /\ aof'[i].op = promised'[i]
        /\ aof'[i].key = NIL \/ \E k \in keyenc' : k.dek = aof'[i].key
  <2>. SUFFICES ASSUME NEW i \in 1..Len(aof')
                PROVE  /\ aof'[i].op = promised'[i]
                       /\ aof'[i].key = NIL \/ \E k \in keyenc : k.dek = aof'[i].key
    OBVIOUS
  <2>1. CASE i \in 1..Len(aof)
    BY <1>3, <1>4, <2>1 DEF LogKept
  <2>2. CASE i = Len(aof) + 1
    BY <1>3, <1>4, <1>5, <2>2
  <2>. QED
    BY <1>2, <1>3, <2>1, <2>2
<1>. QED
  BY <1>3, <1>4, <1>6 DEF LogKept

\* With the DEK of key.enc, or with no line cut off, _load reads the whole file.
LEMMA LoadReadsAll ==
  ASSUME KeyFile, LogKept, LoadFromLog, ~blind, dek # NIL \/ mode' # "heal"
  PROVE  /\ mode' # "heal" /\ UNCHANGED temps /\ Readable = aof
         /\ \A i \in 1..Len(aof) : Reads(aof[i])
<1>1. IsSequence(aof) /\ Len(aof) \in Nat
  BY SequenceIsFunction DEF LogKept
<1>2. CASE dek # NIL
  <2>1. PICK k \in keyenc : k.dek = dek /\ keyenc = {k}
    BY <1>2 DEF KeyFile
  <2>2. \A i \in 1..Len(aof) : Reads(aof[i])
    BY <2>1 DEF LogKept, Reads
  <2>3. Readable = aof
    BY <1>1, <2>2, ReadsAll
  <2>4. ~(Len(Readable) < Len(aof))
    BY <1>1, <2>3
  <2>. QED
    BY <1>2, <2>2, <2>3, <2>4 DEF LoadFromLog
<1>3. CASE mode' # "heal"
  <2>1. ~(Len(Readable) < Len(aof)) /\ UNCHANGED temps
    BY <1>3 DEF LoadFromLog
  <2>2. \A i \in 1..Len(aof) : Reads(aof[i])
    BY <1>1, <2>1, ReadsOnlyDecoded
  <2>3. Readable = aof
    BY <1>1, <2>2, ReadsAll
  <2>. QED
    BY <1>3, <2>1, <2>2, <2>3
<1>. QED
  BY <1>2, <1>3

\* The rewritten log has the same ops, each under the session's key.
LEMMA BackfilledLines ==
  ASSUME IsSequence(aof)
  PROVE  /\ IsSequence(Backfilled) /\ Len(Backfilled) = Len(aof)
         /\ \A i \in 1..Len(aof) : Backfilled[i] = [op |-> aof[i].op, key |-> dek]
<1>1. Len(aof) \in Nat /\ DOMAIN aof = 1..Len(aof)
  BY SequenceIsFunction
<1>2. Backfilled = [i \in 1..Len(aof) |-> [op |-> aof[i].op, key |-> dek]]
  BY <1>1 DEF Backfilled, Encoded, OpsOf
<1>3. Backfilled = [i \in 1..Len(aof) |-> Backfilled[i]]
  BY <1>2
<1>. QED
  BY <1>1, <1>2, <1>3, FunctionIsSequence

\* Every step keeps the acknowledged ops in the log.
LEMMA NextLogKept ==
  ASSUME KeyFile, LogKept, Temporary, [Next]_vars
  PROVE  LogKept'
<1>1. ASSUME NEW tmk \in TMKs \cup {NIL}, Open(tmk) PROVE LogKept'
  <2>1. UNCHANGED <<aof, promised, blind>>
    BY <1>1 DEF Open, history
  <2>2. keyenc = {} \/ keyenc' = keyenc
    <3>1. CASE UNCHANGED keyenc
      BY <3>1
    <3>2. ASSUME tmk # NIL, NEW k \in Unlocked(tmk), keyenc' = {k} PROVE keyenc = {} \/ keyenc' = keyenc
      BY <3>2, UnlockedKeeps
    <3>. QED
      BY <1>1, <3>1, <3>2 DEF Open
  <2>. QED
    BY <2>1, <2>2 DEF LogKept
<1>2. CASE LoadFromSnapshot
  BY <1>2 DEF LoadFromSnapshot, disk, LogKept
<1>3. CASE LoadFromLog
  BY <1>3 DEF LoadFromLog, LogKept
<1>4. CASE Backfill
  <2>1. UNCHANGED <<promised, blind, keyenc>>
    BY <1>4 DEF Backfill, history
  <2>2. CASE aof' = aof
    BY <2>1, <2>2 DEF LogKept
  <2>3. CASE aof' = Backfilled
    <3>. SUFFICES ASSUME ~blind PROVE LogKept'
      BY <2>1 DEF LogKept
    <3>1. \E k \in keyenc : k.dek = dek
      BY <1>4 DEF Backfill, KeyFile
    <3>2. /\ IsSequence(aof') /\ Len(aof') = Len(aof)
          /\ \A i \in 1..Len(aof) : aof'[i].op = aof[i].op /\ aof'[i].key = dek
      <4>1. IsSequence(aof)
        BY DEF LogKept
      <4>2. /\ IsSequence(Backfilled) /\ Len(Backfilled) = Len(aof)
            /\ \A i \in 1..Len(aof) : Backfilled[i] = [op |-> aof[i].op, key |-> dek]
        BY <4>1, BackfilledLines
      <4>3. IsSequence(aof') /\ Len(aof') = Len(aof)
        BY <2>3, <4>2, Zenon
      <4>4. ASSUME NEW i \in 1..Len(aof) PROVE aof'[i].op = aof[i].op /\ aof'[i].key = dek
        <5>1. aof'[i] = [op |-> aof[i].op, key |-> dek]
          BY <2>3, <4>2, Zenon
        <5>. QED
          BY <5>1
      <4>. QED
        BY <4>3, <4>4, Zenon
    <3>. QED
      BY <2>1, <3>1, <3>2 DEF LogKept
  <2>. QED
    BY <1>4, <2>2, <2>3 DEF Backfill
<1>5. CASE Unsnap
  BY <1>5 DEF Unsnap, history, LogKept
<1>6. CASE Put
  BY <1>6, AppendKeepsLog DEF Put
<1>7. CASE Checkpoint
  BY <1>7, AppendKeepsLog DEF Checkpoint
<1>8. CASE SaveSnapshot
  BY <1>8 DEF SaveSnapshot, history, LogKept
<1>9. ASSUME NEW name \in Names, NEW data \in Contents, PutFile(name, data) PROVE LogKept'
  BY <1>9, AppendKeepsLog DEF PutFile
<1>10. ASSUME NEW old \in TMKs, NEW new \in TMKs, Rotate(old, new) PROVE LogKept'
  <2>1. UNCHANGED <<aof, promised, blind>>
    BY <1>10 DEF Rotate, history
  <2>2. keyenc = {} \/ keyenc' = keyenc
    <3>1. ASSUME NEW k \in Unlocked(old), keyenc' = {k} PROVE keyenc = {} \/ keyenc' = keyenc
      BY <3>1, UnlockedKeeps
    <3>. QED
      BY <1>10, <3>1 DEF Rotate
  <2>. QED
    BY <2>1, <2>2 DEF LogKept
<1>11. CASE Rewrap
  <2>1. \A k \in keyenc : \E l \in keyenc' : l.dek = k.dek
    <3>. SUFFICES ASSUME NEW k \in keyenc PROVE \E l \in keyenc' : l.dek = k.dek
      OBVIOUS
    <3>1. k \in [tmk : TMKs, dek : Nat]
      BY DEF KeyFile
    <3>2. [k EXCEPT !.tmk = newTmk] \in keyenc' /\ [k EXCEPT !.tmk = newTmk].dek = k.dek
      BY <1>11, <3>1 DEF Rewrap, Rewrapped
    <3>. QED
      BY <3>2
  <2>2. UNCHANGED <<aof, promised, blind>>
    BY <1>11 DEF Rewrap
  <2>. QED
    BY <2>1, <2>2 DEF LogKept
<1>12. CASE Stop
  BY <1>12 DEF Stop, disk, LogKept
<1>13. CASE Heal
  <2>1. blind'
    BY <1>13 DEF Heal, Temporary
  <2>. QED
    BY <2>1 DEF LogKept
<1>14. CASE RenameSnapshot
  BY <1>14 DEF RenameSnapshot, LogKept
<1>15. CASE UNCHANGED vars
  BY <1>15 DEF vars, LogKept
<1>. QED
  BY <1>1, <1>2, <1>3, <1>4, <1>5, <1>6, <1>7, <1>8, <1>9, <1>10, <1>11, <1>12, <1>13, <1>14, <1>15 DEF Next

\* There is no temporary file at first.
LEMMA InitTemporary == Init => Temporary
<1>1. DOMAIN << >> = {}
  OBVIOUS
<1>. QED
  BY <1>1 DEF Init, NoTemps, Temporary

\* The lines that are encoded are under the session's key.
LEMMA EncodedKeys ==
  ASSUME NEW os
  PROVE  \A i \in DOMAIN Encoded(os) : Encoded(os)[i].key = dek
BY DEF Encoded

\* Every step leaves no plain temporary file but those of a keyless session that died.
LEMMA NextTemporary ==
  ASSUME KeyFile, LogKept, Temporary, [Next]_vars
  PROVE  Temporary'
<1>1. ASSUME UNCHANGED <<temps, strewn>>, mode \notin {"rename", "heal"}, mode' \notin {"rename", "heal"}
      PROVE  Temporary'
  BY <1>1 DEF Temporary
<1>2. ASSUME NEW tmk \in TMKs \cup {NIL}, Open(tmk) PROVE Temporary'
  <2>1. UNCHANGED <<temps, strewn>> /\ mode = "down" /\ mode' \in {"down", "load"}
    BY <1>2 DEF Open, history
  <2>. QED
    BY <1>1, <2>1
<1>3. CASE LoadFromSnapshot
  <2>1. UNCHANGED <<temps, strewn>> /\ mode = "load" /\ mode' \in {"down", "open", "backfill"}
    BY <1>3 DEF LoadFromSnapshot, disk
  <2>. QED
    BY <1>1, <2>1
<1>4. CASE LoadFromLog
  <2>1. UNCHANGED <<strewn, dek, blind>> /\ mode = "load"
    BY <1>4 DEF LoadFromLog
  <2>2. CASE mode' = "heal"
    <3>1. temps' = [temps EXCEPT !.aof = Encoded(OpsOf(Readable))]
      BY <1>4, <2>2 DEF LoadFromLog
    <3>2. temps' = [snap |-> temps.snap, aof |-> Encoded(OpsOf(Readable))]
      BY <3>1 DEF Temporary
    <3>3. \A i \in DOMAIN temps'.aof : temps'.aof[i].key = dek
      BY <3>2, EncodedKeys
    <3>4. ~blind => dek = NIL
      BY <1>4, <2>2, LoadReadsAll
    <3>. QED
      BY <2>1, <2>2, <3>2, <3>3, <3>4 DEF Temporary
  <2>3. CASE mode' # "heal"
    <3>1. UNCHANGED temps /\ mode' \in {"open", "backfill"}
      BY <1>4, <2>3 DEF LoadFromLog
    <3>. QED
      BY <1>1, <2>1, <3>1
  <2>. QED
    BY <2>2, <2>3
<1>5. CASE Heal
  <2>1. /\ temps' = [snap |-> temps.snap, aof |-> << >>] /\ strewn' = [snap |-> strewn.snap, aof |-> FALSE]
        /\ mode = "heal" /\ mode' \in {"open", "backfill"}
    BY <1>5 DEF Heal, Temporary
  <2>2. DOMAIN << >> = {}
    OBVIOUS
  <2>. QED
    BY <2>1, <2>2 DEF Temporary
<1>6. CASE Backfill
  <2>1. UNCHANGED <<temps, strewn>> /\ mode = "backfill" /\ mode' \in {"unsnap", "open"}
    BY <1>6 DEF Backfill, history
  <2>. QED
    BY <1>1, <2>1
<1>7. CASE Unsnap
  <2>1. UNCHANGED <<temps, strewn>> /\ mode = "unsnap" /\ mode' = "open"
    BY <1>7 DEF Unsnap, history
  <2>. QED
    BY <1>1, <2>1
<1>8. CASE Put
  <2>1. UNCHANGED <<temps, strewn>> /\ mode = "open" /\ mode' = "open"
    BY <1>8 DEF Put, LogAppend
  <2>. QED
    BY <1>1, <2>1
<1>9. CASE Checkpoint
  <2>1. UNCHANGED <<temps, strewn>> /\ mode = "open" /\ mode' = "snapshot"
    BY <1>9 DEF Checkpoint, LogAppend
  <2>. QED
    BY <1>1, <2>1
<1>10. CASE SaveSnapshot
  <2>. DEFINE new == [key |-> dek, seq |-> Len(ops), chunks |-> chunks, files |-> files]
  <2>1. new.key = dek
    OBVIOUS
  <2>2. /\ temps' = [temps EXCEPT !.snap = {new}] /\ UNCHANGED <<strewn, dek>>
        /\ mode = "snapshot" /\ mode' = "rename"
    BY <1>10 DEF SaveSnapshot, history
  <2>. HIDE DEF new
  <2>3. temps' = [snap |-> {new}, aof |-> temps.aof]
    BY <2>2 DEF Temporary
  <2>. QED
    BY <2>1, <2>2, <2>3 DEF Temporary
<1>11. CASE RenameSnapshot
  <2>1. /\ temps' = [snap |-> {}, aof |-> temps.aof] /\ strewn' = [snap |-> FALSE, aof |-> strewn.aof]
        /\ mode = "rename" /\ mode' = "open"
    BY <1>11 DEF RenameSnapshot, Temporary
  <2>. QED
    BY <2>1 DEF Temporary
<1>12. ASSUME NEW name \in Names, NEW data \in Contents, PutFile(name, data) PROVE Temporary'
  <2>1. UNCHANGED <<temps, strewn>> /\ mode = "open" /\ mode' = "open"
    BY <1>12 DEF PutFile, LogAppend
  <2>. QED
    BY <1>1, <2>1
<1>13. ASSUME NEW old \in TMKs, NEW new \in TMKs, Rotate(old, new) PROVE Temporary'
  <2>1. UNCHANGED <<temps, strewn>> /\ mode = "open" /\ mode' \in {"open", "rewrap"}
    BY <1>13 DEF Rotate, history
  <2>. QED
    BY <1>1, <2>1
<1>14. CASE Rewrap
  <2>1. UNCHANGED <<temps, strewn>> /\ mode = "rewrap" /\ mode' = "open"
    BY <1>14 DEF Rewrap
  <2>. QED
    BY <1>1, <2>1
<1>15. CASE Stop
  <2>1. /\ UNCHANGED temps /\ mode' = "down"
        /\ strewn' = [snap |-> strewn.snap \/ (mode = "rename" /\ dek = NIL),
                      aof |-> strewn.aof \/ (mode = "heal" /\ dek = NIL)]
    BY <1>15 DEF Stop, disk
  <2>2. ASSUME NEW s \in temps.snap, s.key = NIL PROVE strewn'.snap
    BY <2>1, <2>2 DEF Temporary
  <2>3. ASSUME NEW i \in DOMAIN temps.aof, temps.aof[i].key = NIL PROVE strewn'.aof
    BY <2>1, <2>3 DEF Temporary
  <2>4. strewn' = [snap |-> strewn'.snap, aof |-> strewn'.aof]
    BY <2>1
  <2>. QED
    BY <2>1, <2>2, <2>3, <2>4 DEF Temporary
<1>16. CASE UNCHANGED vars
  BY <1>16 DEF vars, Temporary
<1>. QED
  BY <1>2, <1>3, <1>4, <1>5, <1>6, <1>7, <1>8, <1>9, <1>10, <1>11, <1>12, <1>13, <1>14, <1>15, <1>16 DEF Next

\* Line by line is KeysKeepTheLog.
LEMMA KeptIsKept == LogKept => KeysKeepTheLog
<1>. SUFFICES ASSUME LogKept, ~blind
              PROVE  /\ OpsOf(aof) = promised
                     /\ \A i \in DOMAIN aof : aof[i].key = NIL \/ \E k \in keyenc : k.dek = aof[i].key
  BY DEF KeysKeepTheLog
<1>1. /\ DOMAIN aof = 1..Len(aof) /\ Len(aof) = Len(promised)
      /\ promised = [i \in 1..Len(promised) |-> promised[i]]
  BY SequenceIsFunction DEF LogKept
<1>. QED
  BY <1>1 DEF LogKept, OpsOf

\* No key loses an op: the log on disk is what was acknowledged, readable with the key that
\* key.enc holds, through opens with any keys, backfills, rotations and stops at any point,
\* unless a log with encrypted lines was opened without a key (crypto.aof_decode, _load,
\* _backfill_encrypt_if_needed, rewrap_key).
THEOREM NoKeyLosesTheLog == Spec => []KeysKeepTheLog
<1>1. Init => KeyFile /\ LogKept /\ Temporary
  BY InitKeyFile, InitLogKept, InitTemporary
<1>2. KeyFile /\ LogKept /\ Temporary /\ [Next]_vars => KeyFile' /\ LogKept' /\ Temporary'
  BY NextKeyFile, NextLogKept, NextTemporary
<1>3. KeyFile /\ LogKept /\ Temporary => KeysKeepTheLog
  BY KeptIsKept
<1>. QED
  BY <1>1, <1>2, <1>3, PTL DEF Spec

-----------------------------------------------------------------------------
(* Clear text.                                                              *)

\* Nothing is on disk at first.
LEMMA InitUniform == Init => Uniform
<1>1. Len(<< >>) = 0
  BY EmptySeq
<1>. QED
  BY <1>1 DEF Init, Uniform, Serving

\* A line that _log_append adds is of the kind the log has.
LEMMA AppendKeepsUniform ==
  ASSUME LogKept, Uniform, NEW op, LogAppend(op), mode' \in {"open", "snapshot"},
         UNCHANGED <<dek, snap, blind, bare>>
  PROVE  Uniform'
<1>. SUFFICES ASSUME ~blind, ~bare PROVE Uniform'
  BY DEF Uniform
<1>. DEFINE line == [op |-> op, key |-> dek]
<1>1. IsSequence(aof) /\ Len(aof) \in Nat
  BY SequenceIsFunction DEF LogKept
<1>2. aof' = Append(aof, line)
  BY DEF LogAppend
<1>3. /\ Len(aof') = Len(aof) + 1
      /\ \A i \in 1..Len(aof) : aof'[i] = aof[i]
      /\ aof'[Len(aof) + 1] = line
  BY <1>1, <1>2, AppendToSequence
<1>4. \A i \in 1..Len(aof) : (aof[i].key = NIL) <=> (dek = NIL)
  BY DEF LogAppend, Uniform, Serving
<1>5. \A i \in 1..Len(aof') : (aof'[i].key = NIL) <=> (dek = NIL)
  <2>. SUFFICES ASSUME NEW i \in 1..Len(aof') PROVE (aof'[i].key = NIL) <=> (dek = NIL)
    OBVIOUS
  <2>1. CASE i \in 1..Len(aof)
    BY <1>3, <1>4, <2>1
  <2>2. CASE i = Len(aof) + 1
    BY <1>3, <2>2
  <2>. QED
    BY <1>1, <1>3, <2>1, <2>2
<1>6. dek # NIL => \A s \in snap : s.key # NIL
  <2>. SUFFICES ASSUME dek # NIL, NEW s \in snap PROVE s.key # NIL
    OBVIOUS
  <2>1. 1 \in 1..Len(aof) /\ aof[1].key # NIL
    BY <1>1, <1>4 DEF Uniform
  <2>. QED
    BY <2>1 DEF LogAppend, Uniform
<1>7. Len(aof') > 0
  BY <1>1, <1>3
<1>. QED
  BY <1>5, <1>6, <1>7 DEF Uniform, Serving

\* Every step keeps plain and encrypted lines and snapshots apart.
LEMMA NextUniform ==
  ASSUME KeyFile, LogKept, Uniform, Temporary, [Next]_vars
  PROVE  Uniform'
<1>1. ASSUME NEW tmk \in TMKs \cup {NIL}, Open(tmk) PROVE Uniform'
  <2>1. UNCHANGED <<aof, snap, blind, bare>> /\ mode' \in {"load", "down"} /\ mode = "down"
    BY <1>1 DEF Open, history
  <2>. QED
    BY <2>1 DEF Uniform, Serving
<1>2. CASE LoadFromSnapshot
  <2>1. UNCHANGED <<aof, snap, blind, bare>> /\ mode = "load"
    BY <1>2 DEF LoadFromSnapshot, disk
  <2>2. CASE mode' = "down"
    BY <2>1, <2>2 DEF Uniform, Serving
  <2>3. CASE mode' = "backfill"
    BY <2>1, <2>3 DEF Uniform, Serving
  <2>4. CASE mode' = "open"
    <3>. SUFFICES ASSUME ~blind PROVE Uniform'
      BY <2>1 DEF Uniform
    <3>1. dek' = dek /\ dek = NIL /\ \A i \in DOMAIN aof : Reads(aof[i])
      BY <1>2, <2>4 DEF LoadFromSnapshot
    <3>2. DOMAIN aof = 1..Len(aof)
      BY SequenceIsFunction DEF LogKept
    <3>3. \A i \in 1..Len(aof) : aof[i].key = NIL
      BY <3>1, <3>2 DEF Reads
    <3>. QED
      BY <2>1, <2>4, <3>1, <3>3 DEF Uniform, Serving
  <2>. QED
    BY <1>2, <2>2, <2>3, <2>4 DEF LoadFromSnapshot
<1>3. CASE LoadFromLog
  <2>. SUFFICES ASSUME ~blind PROVE Uniform'
    BY <1>3 DEF LoadFromLog, Uniform
  <2>1. UNCHANGED <<aof, dek, snap, blind, bare>> /\ mode = "load" /\ mode' \in {"heal", "open", "backfill"}
    BY <1>3 DEF LoadFromLog
  <2>2. CASE mode' = "open"
    <3>1. dek = NIL /\ \A i \in 1..Len(aof) : aof[i].key = NIL
      BY <1>3, <2>2, LoadReadsAll DEF LoadFromLog, Reads
    <3>. QED
      BY <2>1, <2>2, <3>1 DEF Uniform, Serving
  <2>3. CASE mode' # "open"
    BY <2>1, <2>3 DEF Uniform, Serving
  <2>. QED
    BY <2>2, <2>3
<1>4. CASE Backfill
  <2>. SUFFICES ASSUME ~blind, ~bare PROVE Uniform'
    BY <1>4 DEF Backfill, history, Uniform
  <2>1. UNCHANGED <<dek, snap, blind, bare>> /\ mode = "backfill" /\ dek # NIL
    BY <1>4 DEF Backfill, history, KeyFile
  <2>2. IsSequence(aof) /\ Len(aof) \in Nat /\ aof = [i \in 1..Len(aof) |-> aof[i]]
    BY SequenceIsFunction DEF LogKept
  <2>3. CASE aof # << >> /\ aof[1].key = NIL
    <3>1. aof' = Backfilled /\ mode' = "unsnap"
      BY <1>4, <2>3 DEF Backfill
    <3>2. /\ Len(Backfilled) = Len(aof)
          /\ \A i \in 1..Len(aof) : Backfilled[i] = [op |-> aof[i].op, key |-> dek]
      BY <2>2, BackfilledLines
    <3>3. Len(aof') = Len(aof) /\ \A i \in 1..Len(aof) : aof'[i] = [op |-> aof[i].op, key |-> dek]
      BY <3>1, <3>2, Zenon
    <3>4. ASSUME NEW i \in 1..Len(aof') PROVE aof'[i].key # NIL
      <4>1. i \in 1..Len(aof)
        BY <3>3, Zenon
      <4>2. aof'[i] = [op |-> aof[i].op, key |-> dek]
        BY <3>3, <4>1, Zenon
      <4>. QED
        BY <2>1, <4>2
    <3>. QED
      BY <2>1, <3>1, <3>3, <3>4 DEF Uniform, Serving
  <2>4. CASE ~(aof # << >> /\ aof[1].key = NIL)
    <3>1. aof' = aof /\ mode' = "open"
      BY <1>4, <2>4 DEF Backfill
    <3>2. aof = << >> => Len(aof) = 0
      BY EmptySeq
    <3>3. \A i \in 1..Len(aof) : aof[i].key # NIL
      BY <2>2, <2>4, <3>2 DEF Uniform
    <3>. QED
      BY <2>1, <3>1, <3>3 DEF Uniform, Serving
  <2>. QED
    BY <2>3, <2>4
<1>5. CASE Unsnap
  <2>1. UNCHANGED <<dek, aof, blind, bare>> /\ mode = "unsnap" /\ mode' = "open" /\ snap' = {} /\ dek # NIL
    BY <1>5 DEF Unsnap, DropSnapshot, history, KeyFile
  <2>. QED
    BY <2>1 DEF Uniform, Serving
<1>6. CASE Put
  <2>1. mode' = "open"
    BY <1>6 DEF Put, LogAppend
  <2>. QED
    BY <1>6, <2>1, AppendKeepsUniform DEF Put
<1>7. CASE Checkpoint
  BY <1>7, AppendKeepsUniform DEF Checkpoint
<1>8. CASE SaveSnapshot
  <2>1. UNCHANGED <<dek, aof, snap, blind, bare>> /\ mode = "snapshot" /\ mode' = "rename"
    BY <1>8 DEF SaveSnapshot, history
  <2>. QED
    BY <2>1 DEF Uniform, Serving
<1>9. ASSUME NEW name \in Names, NEW data \in Contents, PutFile(name, data) PROVE Uniform'
  <2>1. mode' = "open"
    BY <1>9 DEF PutFile, LogAppend
  <2>. QED
    BY <1>9, <2>1, AppendKeepsUniform DEF PutFile
<1>10. ASSUME NEW old \in TMKs, NEW new \in TMKs, Rotate(old, new) PROVE Uniform'
  <2>1. UNCHANGED <<dek, aof, snap, blind, bare>> /\ mode = "open" /\ mode' \in {"open", "rewrap"}
    BY <1>10 DEF Rotate, history
  <2>. QED
    BY <2>1 DEF Uniform, Serving
<1>11. CASE Rewrap
  <2>1. UNCHANGED <<aof, snap, blind>> /\ mode = "rewrap" /\ mode' = "open" /\ bare' = (bare \/ dek = NIL)
    BY <1>11 DEF Rewrap
  <2>2. dek # NIL => dek' = dek
    <3>. SUFFICES ASSUME dek # NIL PROVE dek' = dek
      OBVIOUS
    <3>1. PICK k \in keyenc : k.dek = dek /\ keyenc = {k}
      BY DEF KeyFile
    <3>2. k \in [tmk : TMKs, dek : Nat]
      BY DEF KeyFile
    <3>3. Rewrapped = {[k EXCEPT !.tmk = newTmk]} /\ [k EXCEPT !.tmk = newTmk].dek = dek
      BY <3>1, <3>2 DEF Rewrapped
    <3>. QED
      BY <1>11, <3>3 DEF Rewrap
  <2>. QED
    BY <2>1, <2>2 DEF Uniform, Serving
<1>12. CASE Stop
  <2>1. /\ UNCHANGED <<aof, snap, blind>> /\ mode' = "down"
        /\ bare' = (bare \/ (mode = "unsnap" /\ snap # {}))
    BY <1>12 DEF Stop, disk
  <2>. QED
    BY <2>1 DEF Uniform, Serving
<1>13. CASE Heal
  <2>1. blind'
    BY <1>13 DEF Heal, Temporary
  <2>. QED
    BY <2>1 DEF Uniform
<1>14. CASE RenameSnapshot
  <2>1. /\ UNCHANGED <<dek, aof, blind, bare>> /\ mode = "rename" /\ mode' = "open"
        /\ \A s \in snap' : s.key = dek
    BY <1>14 DEF RenameSnapshot, Temporary
  <2>. QED
    BY <2>1 DEF Uniform, Serving
<1>15. CASE UNCHANGED vars
  BY <1>15 DEF vars, Uniform, Serving
<1>. QED
  BY <1>1, <1>2, <1>3, <1>4, <1>5, <1>6, <1>7, <1>8, <1>9, <1>10, <1>11, <1>12, <1>13, <1>14, <1>15 DEF Next

\* A database that is open with a key has no plain line, snapshot or temporary file on disk,
\* unless a backfill was cut, the key came to a session that had none, or the log was cut for
\* want of its key, and but for the temporary file of a keyless session that died before its
\* rename (engine.py:109-110, _backfill_encrypt_if_needed, save_snapshot, _rewrite_aof).
THEOREM NothingInTheClear == Spec => []NoCleartext
<1>1. Init => KeyInv
  BY InitKeyFile, InitLogKept, InitUniform, InitTemporary DEF KeyInv
<1>2. KeyInv /\ [Next]_vars => KeyInv'
  BY NextKeyFile, NextLogKept, NextUniform, NextTemporary DEF KeyInv
<1>3. KeyInv => NoCleartext
  <2>. SUFFICES ASSUME KeyInv, mode = "open", dek # NIL, ~bare, ~blind
                PROVE  /\ \A i \in DOMAIN aof : aof[i].key # NIL
                       /\ \A s \in snap : s.key # NIL
                       /\ ~strewn.snap => \A s \in temps.snap : s.key # NIL
                       /\ ~strewn.aof => \A i \in DOMAIN temps.aof : temps.aof[i].key # NIL
    BY DEF NoCleartext
  <2>1. Len(aof) \in Nat /\ DOMAIN aof = 1..Len(aof)
    BY SequenceIsFunction DEF KeyInv, LogKept
  <2>2. \A i \in 1..Len(aof) : aof[i].key # NIL
    BY DEF KeyInv, Uniform, Serving
  <2>3. ASSUME NEW s \in snap PROVE s.key # NIL
    <3>1. 1 \in 1..Len(aof)
      BY <2>1 DEF KeyInv, Uniform
    <3>. QED
      BY <2>2, <3>1 DEF KeyInv, Uniform
  <2>. QED
    BY <2>1, <2>2, <2>3 DEF KeyInv, Temporary
<1>. QED
  BY <1>1, <1>2, <1>3, PTL DEF Spec

-----------------------------------------------------------------------------
(* What is put together from the chunks of a file.                          *)

\* A chunk ends where it begins or later, and inside the data.
LEMMA CutFacts ==
  ASSUME NEW S, NEW data \in Seq(S), NEW from \in 1..Len(data)
  PROVE  Cut(data, from) \in from..Len(data)
<1>. DEFINE limit == IF from + MaxChunk - 1 < Len(data) THEN from + MaxChunk - 1 ELSE Len(data)
            cuts  == {to \in from..limit : to - from + 1 >= MinChunk /\ Rolling(data, from, to) % 2^Mask = 0}
<1>1. Len(data) \in Nat /\ MaxChunk \in Nat /\ MaxChunk >= 1
  BY LenProperties, MerkleAssumption
<1>2. limit \in from..Len(data)
  BY <1>1
<1>3. cuts \subseteq from..limit
  OBVIOUS
<1>. HIDE DEF limit
<1>4. Cut(data, from) = IF cuts = {} THEN limit ELSE CHOOSE to \in cuts : \A other \in cuts : to <= other
  BY Zenon DEF Cut, limit
<1>. HIDE DEF cuts
<1>5. CASE cuts = {}
  BY <1>1, <1>2, <1>4, <1>5
<1>6. CASE cuts # {}
  <2>1. cuts \subseteq Nat
    BY <1>1, <1>2, <1>3
  <2>2. Min(cuts) \in cuts /\ \A y \in cuts : Min(cuts) <= y
    BY <1>6, <2>1, MinOfNaturals
  <2>3. Cut(data, from) \in cuts
    BY <1>4, <1>6, <2>2, Zenon
  <2>4. Cut(data, from) \in from..limit
    BY <1>3, <2>3, Zenon
  <2>. HIDE DEF Cut
  <2>5. \A c \in from..limit : c \in from..Len(data)
    BY <1>1, <1>2
  <2>. QED
    BY <2>4, <2>5, Zenon
<1>. QED
  BY <1>5, <1>6

\* The chunks of data from byte i on, f having those of later bytes.
Split(data, f, i) ==
  IF i > Len(data) THEN << >> ELSE << SubSeq(data, i, Cut(data, i)) >> \o f[Cut(data, i) + 1]

\* The function by which the chunks are defined exists.
LEMMA ChunksRecursion ==
  ASSUME NEW S, NEW data \in Seq(S)
  PROVE  \E f : Chunks(data) = f[1] /\ f = [i \in 1..(Len(data) + 1) |-> Split(data, f, i)]
<1>. DEFINE L   == Len(data)
            Bad == {j \in 0..(L + 1) : ~ \E f : f = [i \in (L + 2 - j)..(L + 1) |-> Split(data, f, i)]}
            m   == Min(Bad)
<1>0. L \in Nat
  BY LenProperties
<1>1. Bad = {}
  <2>. SUFFICES ASSUME Bad # {} PROVE FALSE
    OBVIOUS
  <2>1. m \in Bad /\ \A j \in Bad : m <= j
    <3>1. Bad \subseteq Nat
      BY <1>0
    <3>. HIDE DEF Bad
    <3>. QED
      BY <3>1, MinOfNaturals
  <2>. HIDE DEF m
  <2>2. m # 0
    <3>. DEFINE e == [i \in (L + 2)..(L + 1) |-> 0]
    <3>1. e = [i \in (L + 2)..(L + 1) |-> Split(data, e, i)]
      <4>1. (L + 2)..(L + 1) = {}
        BY <1>0
      <4>. QED
        BY <4>1
    <3>2. L + 2 - 0 = L + 2
      BY <1>0
    <3>. HIDE DEF L, e
    <3>3. 0 \notin Bad
      BY <3>1, <3>2
    <3>. QED
      BY <2>1, <3>3
  <2>3. m \in 0..(L + 1) /\ m - 1 \in 0..(L + 1) /\ m - 1 \notin Bad /\ m \in Int
    <3>1. m \in 0..(L + 1)
      BY <2>1
    <3>. HIDE DEF Bad
    <3>. QED
      BY <1>0, <2>1, <2>2, <3>1
  <2>4. PICK f : f = [i \in (L + 2 - (m - 1))..(L + 1) |-> Split(data, f, i)]
    BY <2>3, Zenon
  <2>. DEFINE b == L + 2 - m
              g == [i \in b..(L + 1) |-> IF i = b THEN Split(data, f, i) ELSE f[i]]
  <2>5. /\ L + 2 - (m - 1) = b + 1 /\ b \in 1..(L + 1)
    BY <1>0, <2>2, <2>3
  <2>6. f = [i \in (b + 1)..(L + 1) |-> Split(data, f, i)]
    BY <2>4, <2>5
  <2>. HIDE DEF b
  <2>7. ASSUME NEW i \in b..(L + 1) PROVE Split(data, g, i) = Split(data, f, i)
    <3>1. CASE i > L
      BY <3>1 DEF Split
    <3>2. CASE i <= L
      <4>1. Cut(data, i) \in i..L
        <5>1. i \in 1..L
          BY <1>0, <2>5, <3>2
        <5>. QED
          BY <5>1, CutFacts
      <4>2. Cut(data, i) + 1 \in b..(L + 1) /\ Cut(data, i) + 1 # b
        BY <1>0, <2>5, <4>1
      <4>3. g[Cut(data, i) + 1] = f[Cut(data, i) + 1]
        BY <4>2
      <4>. HIDE DEF g
      <4>. QED
        BY <4>3, Zenon DEF Split
    <3>. QED
      BY <1>0, <2>5, <3>1, <3>2
  <2>8. ASSUME NEW i \in b..(L + 1) PROVE g[i] = Split(data, f, i)
    <3>1. CASE i = b
      BY <3>1
    <3>2. CASE i # b
      <4>1. i \in (b + 1)..(L + 1)
        BY <1>0, <2>5, <3>2
      <4>2. f[i] = Split(data, f, i)
        BY <2>6, <4>1, Zenon
      <4>. QED
        BY <3>2, <4>2
    <3>. QED
      BY <3>1, <3>2
  <2>9. g = [i \in b..(L + 1) |-> g[i]]
    OBVIOUS
  <2>. HIDE DEF g
  <2>10. g = [i \in b..(L + 1) |-> Split(data, g, i)]
    BY <2>7, <2>8, <2>9
  <2>11. m \notin Bad
    BY <2>10 DEF b
  <2>. QED
    BY <2>1, <2>11
<1>2. PICK f : f = [i \in 1..(L + 1) |-> Split(data, f, i)]
  <2>1. L + 1 \in 0..(L + 1) /\ L + 2 - (L + 1) = 1
    BY <1>0
  <2>2. ~(L + 1 \in Bad)
    BY <1>1
  <2>. HIDE DEF L
  <2>. QED
    BY <2>1, <2>2
<1>. DEFINE F == CHOOSE h : h = [i \in 1..(L + 1) |-> Split(data, h, i)]
<1>3. F = [i \in 1..(L + 1) |-> Split(data, F, i)]
  BY <1>2, Zenon
<1>4. Chunks(data) = F[1]
  BY Zenon DEF Chunks, Split
<1>. QED
  BY <1>3, <1>4

\* The first i elements of s put together, f having the first i - 1.
Join(s, f, i) == IF i = 1 THEN s[i] ELSE f[i - 1] \o s[i]

\* The function by which FlattenSeq is defined exists.
LEMMA FlattenRecursion ==
  ASSUME NEW S, NEW s \in Seq(S), s # << >>
  PROVE  \E f : FlattenSeq(s) = f[Len(s)] /\ \A i \in 1..Len(s) : f[i] = Join(s, f, i)
<1>. DEFINE n   == Len(s)
            Bad == {k \in 0..n : ~ \E f : f = [i \in 1..k |-> Join(s, f, i)]}
            m   == Min(Bad)
<1>0. n \in Nat /\ n # 0
  BY LenProperties, EmptySeq
<1>1. Bad = {}
  <2>. SUFFICES ASSUME Bad # {} PROVE FALSE
    OBVIOUS
  <2>1. m \in Bad /\ \A j \in Bad : m <= j
    <3>1. Bad \subseteq Nat
      BY <1>0
    <3>. HIDE DEF Bad
    <3>. QED
      BY <3>1, MinOfNaturals
  <2>. HIDE DEF m
  <2>2. m # 0
    <3>. DEFINE e == [i \in 1..0 |-> 0]
    <3>1. e = [i \in 1..0 |-> Join(s, e, i)]
      OBVIOUS
    <3>. HIDE DEF n, e
    <3>2. 0 \notin Bad
      BY <3>1
    <3>. QED
      BY <2>1, <3>2
  <2>3. m \in 1..n /\ m - 1 \in 0..n /\ m - 1 \notin Bad
    <3>1. m \in 0..n
      BY <2>1
    <3>. HIDE DEF Bad
    <3>. QED
      BY <1>0, <2>1, <2>2, <3>1
  <2>4. PICK f : f = [i \in 1..(m - 1) |-> Join(s, f, i)]
    BY <2>3, Zenon
  <2>. DEFINE g == [i \in 1..m |-> IF i = m THEN Join(s, f, i) ELSE f[i]]
  <2>5. ASSUME NEW i \in 1..m PROVE Join(s, g, i) = Join(s, f, i)
    <3>1. CASE i = 1
      BY <3>1 DEF Join
    <3>2. CASE i # 1
      <4>1. i - 1 \in 1..m /\ i - 1 # m
        BY <2>3, <3>2
      <4>2. g[i - 1] = f[i - 1]
        BY <4>1
      <4>. HIDE DEF g
      <4>. QED
        BY <4>2, Zenon DEF Join
    <3>. QED
      BY <3>1, <3>2
  <2>6. ASSUME NEW i \in 1..m PROVE g[i] = Join(s, f, i)
    <3>1. CASE i = m
      BY <3>1
    <3>2. CASE i # m
      <4>1. i \in 1..(m - 1)
        BY <2>3, <3>2
      <4>2. f[i] = Join(s, f, i)
        BY <2>4, <4>1, Zenon
      <4>. QED
        BY <3>2, <4>2
    <3>. QED
      BY <3>1, <3>2
  <2>7. g = [i \in 1..m |-> g[i]]
    OBVIOUS
  <2>. HIDE DEF g
  <2>8. g = [i \in 1..m |-> Join(s, g, i)]
    BY <2>5, <2>6, <2>7
  <2>9. m \notin Bad
    BY <2>8
  <2>. QED
    BY <2>1, <2>9
<1>2. PICK f : f = [i \in 1..n |-> Join(s, f, i)]
  <2>1. n \in 0..n /\ ~(n \in Bad)
    BY <1>0, <1>1
  <2>. HIDE DEF n
  <2>. QED
    BY <2>1
<1>. DEFINE F == CHOOSE h : h = [i \in 1..n |-> Join(s, h, i)]
<1>3. F = [i \in 1..n |-> Join(s, F, i)]
  BY <1>2, Zenon
<1>4. FlattenSeq(s) = F[n]
  BY <1>0, Zenon DEF FlattenSeq, Join
<1>. HIDE DEF F
<1>5. \A i \in 1..n : F[i] = Join(s, F, i)
  BY <1>3, Zenon
<1>. QED
  BY <1>4, <1>5, Zenon

\* Chunks follow each other from the first byte after at to the last one.
Covers(c, data, at) ==
  \E e \in [0..Len(c) -> 0..Len(data)] :
    /\ e[0] = at /\ e[Len(c)] = Len(data)
    /\ \A k \in 1..Len(c) : e[k - 1] <= e[k] /\ c[k] = SubSeq(data, e[k - 1] + 1, e[k])

\* The chunks of any data follow each other from its first byte to its last.
LEMMA ChunksCover ==
  ASSUME NEW S, NEW data \in Seq(S)
  PROVE  Chunks(data) \in Seq(Seq(S)) /\ Covers(Chunks(data), data, 0)
<1>. DEFINE L == Len(data)
<1>0. L \in Nat
  BY LenProperties
<1>1. PICK f : Chunks(data) = f[1] /\ f = [i \in 1..(L + 1) |-> Split(data, f, i)]
  BY ChunksRecursion
<1>. DEFINE Good(i) == f[i] \in Seq(Seq(S)) /\ Covers(f[i], data, i - 1)
            Bad == {j \in 0..L : ~Good(L + 1 - j)}
            m   == Min(Bad)
<1>2. Good(L + 1)
  <2>1. f[L + 1] = << >>
    <3>1. L + 1 \in 1..(L + 1) /\ L + 1 > L
      BY <1>0
    <3>2. f[L + 1] = Split(data, f, L + 1)
      BY <1>1, <3>1, Zenon
    <3>. QED
      BY <3>1, <3>2 DEF Split
  <2>2. << >> \in Seq(Seq(S)) /\ Len(<< >>) = 0
    BY EmptySeq
  <2>3. Covers(<< >>, data, L)
    <3>. DEFINE e == [k \in 0..0 |-> L]
    <3>1. /\ e \in [0..0 -> 0..L] /\ e[0] = L
          /\ \A k \in 1..0 : e[k - 1] <= e[k] /\ << >>[k] = SubSeq(data, e[k - 1] + 1, e[k])
      BY <1>0
    <3>. HIDE DEF e
    <3>. QED
      BY <2>2, <3>1 DEF Covers
  <2>4. L + 1 - 1 = L
    BY <1>0
  <2>. QED
    BY <2>1, <2>2, <2>3, <2>4
<1>3. ASSUME NEW i \in 1..L, \A j \in (i + 1)..(L + 1) : Good(j) PROVE Good(i)
  <2>. DEFINE c == Cut(data, i)
              b == SubSeq(data, i, c)
              t == f[c + 1]
  <2>1. c \in i..L
    BY CutFacts
  <2>2. f[i] = << b >> \o t
    <3>1. i \in 1..(L + 1) /\ ~(i > L)
      BY <1>0
    <3>2. f[i] = Split(data, f, i)
      BY <1>1, <3>1, Zenon
    <3>. QED
      BY <3>1, <3>2 DEF Split
  <2>. HIDE DEF c
  <2>3. t \in Seq(Seq(S)) /\ Covers(t, data, c)
    <3>1. c + 1 \in (i + 1)..(L + 1) /\ c + 1 - 1 = c
      BY <1>0, <2>1
    <3>2. PICK j \in (i + 1)..(L + 1) : j = c + 1 /\ j - 1 = c
      BY <1>0, <2>1, <3>1
    <3>3. f[j] \in Seq(Seq(S)) /\ Covers(f[j], data, j - 1)
      BY <1>3
    <3>. QED
      BY <3>2, <3>3
  <2>4. b \in Seq(S)
    BY <1>0, <2>1, SubSeqProperties
  <2>. HIDE DEF b, t
  <2>5. /\ << b >> \in Seq(Seq(S)) /\ Len(<< b >>) = 1 /\ << b >>[1] = b
    BY <2>4
  <2>. DEFINE a == << b >> \o t
              n == Len(t)
  <2>6. /\ a \in Seq(Seq(S)) /\ Len(a) = 1 + n /\ n \in Nat
        /\ \A k \in 1..(1 + n) : a[k] = IF k <= 1 THEN b ELSE t[k - 1]
    <3>1. n \in Nat
      BY <2>3, LenProperties
    <3>2. /\ a \in Seq(Seq(S)) /\ Len(a) = 1 + n
          /\ \A k \in 1..(1 + n) : a[k] = IF k <= 1 THEN << b >>[k] ELSE t[k - 1]
      BY <2>3, <2>5, ConcatProperties
    <3>. HIDE DEF a
    <3>3. \A k \in 1..(1 + n) : k <= 1 => k = 1
      BY <3>1
    <3>4. << b >>[1] = b
      BY <2>5
    <3>5. \A k \in 1..(1 + n) : a[k] = IF k <= 1 THEN b ELSE t[k - 1]
      BY <3>2, <3>3, <3>4, Zenon
    <3>. QED
      BY <3>1, <3>2, <3>5
  <2>7. PICK e \in [0..n -> 0..L] :
          /\ e[0] = c /\ e[n] = L
          /\ \A k \in 1..n : e[k - 1] <= e[k] /\ t[k] = SubSeq(data, e[k - 1] + 1, e[k])
    BY <2>3 DEF Covers
  <2>. HIDE DEF a, n
  <2>. DEFINE g == [k \in 0..(1 + n) |-> IF k = 0 THEN i - 1 ELSE e[k - 1]]
  <2>8. g \in [0..(1 + n) -> 0..L] /\ g[0] = i - 1 /\ \A k \in 1..(1 + n) : g[k] = e[k - 1]
    <3>1. \A k \in 1..(1 + n) : k \in 0..(1 + n) /\ k # 0 /\ k - 1 \in 0..n
      BY <2>6
    <3>2. i - 1 \in 0..L /\ 0 \in 0..(1 + n)
      BY <1>0, <2>6
    <3>3. \A k \in 0..(1 + n) : k = 0 \/ k \in 1..(1 + n)
      BY <2>6
    <3>. QED
      BY <3>1, <3>2, <3>3
  <2>. HIDE DEF g
  <2>9. g[1 + n] = L
    <3>1. PICK p \in 1..(1 + n) : p = 1 + n /\ p - 1 = n
      BY <2>6
    <3>2. g[p] = e[p - 1]
      BY <2>8
    <3>. QED
      BY <2>7, <3>1, <3>2
  <2>10. ASSUME NEW k \in 1..(1 + n)
         PROVE  g[k - 1] <= g[k] /\ a[k] = SubSeq(data, g[k - 1] + 1, g[k])
    <3>1. CASE k = 1
      <4>1. g[k - 1] = i - 1 /\ g[k] = c /\ a[k] = b
        BY <2>6, <2>7, <2>8, <3>1
      <4>2. i - 1 <= c /\ i - 1 + 1 = i
        BY <1>0, <2>1
      <4>. QED
        BY <4>1, <4>2 DEF b
    <3>2. CASE k # 1
      <4>. DEFINE p == k - 1
      <4>1. p \in 1..n /\ p \in 1..(1 + n) /\ ~(k <= 1)
        BY <2>6, <3>2
      <4>2. g[p] = e[p - 1] /\ g[k] = e[p] /\ a[k] = t[p]
        BY <2>6, <2>8, <4>1
      <4>. HIDE DEF p
      <4>3. e[p - 1] <= e[p] /\ t[p] = SubSeq(data, e[p - 1] + 1, e[p])
        BY <2>7, <4>1
      <4>4. g[p] <= g[k] /\ a[k] = SubSeq(data, g[p] + 1, g[k])
        BY <4>2, <4>3, Zenon
      <4>. QED
        BY <4>4 DEF p
    <3>. QED
      BY <3>1, <3>2
  <2>11. Covers(a, data, i - 1)
    BY <2>6, <2>8, <2>9, <2>10 DEF Covers
  <2>. QED
    BY <2>2, <2>6, <2>11 DEF a
<1>4. Bad = {}
  <2>. SUFFICES ASSUME Bad # {} PROVE FALSE
    OBVIOUS
  <2>1. m \in Bad /\ \A j \in Bad : m <= j
    <3>1. Bad \subseteq Nat
      BY <1>0
    <3>. HIDE DEF Bad
    <3>. QED
      BY <3>1, MinOfNaturals
  <2>2. m \in 0..L /\ ~Good(L + 1 - m)
    BY <2>1
  <2>. HIDE DEF m
  <2>3. m # 0
    <3>1. L + 1 - 0 = L + 1
      BY <1>0
    <3>. HIDE DEF Good
    <3>. QED
      BY <1>2, <2>2, <3>1
  <2>4. ASSUME NEW j \in (L + 2 - m)..(L + 1) PROVE Good(j)
    <3>1. /\ L + 1 - j \in 0..L /\ L + 1 - j < m /\ L + 1 - (L + 1 - j) = j
      BY <1>0, <2>2, <2>3
    <3>2. L + 1 - j \notin Bad
      <4>. HIDE DEF Bad
      <4>. QED
        BY <1>0, <2>1, <2>2, <3>1
    <3>. HIDE DEF Good
    <3>. QED
      BY <3>1, <3>2
  <2>5. L + 1 - m \in 1..L /\ L + 1 - m + 1 = L + 2 - m
    BY <1>0, <2>2, <2>3
  <2>. HIDE DEF Good, Bad
  <2>. QED
    BY <1>3, <2>2, <2>4, <2>5
<1>5. Good(1)
  <2>1. L \in 0..L /\ L + 1 - L = 1
    BY <1>0
  <2>. HIDE DEF Good
  <2>2. ~(L \in Bad)
    BY <1>4, Zenon
  <2>. QED
    BY <2>1, <2>2
<1>. QED
  BY <1>1, <1>5

\* Two adjacent parts of a sequence, and the whole of it.
LEMMA SubSeqJoins ==
  ASSUME NEW S, NEW s \in Seq(S), NEW a \in 0..Len(s), NEW b \in a..Len(s)
  PROVE  SubSeq(s, 1, a) \o SubSeq(s, a + 1, b) = SubSeq(s, 1, b)
<1>. DEFINE u == SubSeq(s, 1, a)
            v == SubSeq(s, a + 1, b)
            w == SubSeq(s, 1, b)
<1>0. Len(s) \in Nat /\ a \in Nat /\ b \in Nat
  BY LenProperties
<1>1. /\ u \in Seq(S) /\ Len(u) = a /\ \A i \in 1..a : u[i] = s[i]
  BY <1>0, SubSeqProperties
<1>2. /\ v \in Seq(S) /\ Len(v) = b - a /\ \A i \in 1..(b - a) : v[i] = s[a + i]
  BY <1>0, SubSeqProperties
<1>3. /\ w \in Seq(S) /\ Len(w) = b /\ \A i \in 1..b : w[i] = s[i]
  BY <1>0, SubSeqProperties
<1>. HIDE DEF u, v, w
<1>. DEFINE x == u \o v
<1>4. /\ x \in Seq(S) /\ Len(x) = Len(u) + Len(v)
      /\ \A i \in 1..(Len(u) + Len(v)) : x[i] = IF i <= Len(u) THEN u[i] ELSE v[i - Len(u)]
  BY <1>1, <1>2, ConcatProperties
<1>. HIDE DEF x
<1>5. Len(x) = b
  BY <1>0, <1>1, <1>2, <1>4
<1>6. ASSUME NEW i \in 1..b PROVE x[i] = w[i]
  <2>1. i \in 1..(Len(u) + Len(v)) /\ Len(u) = a
    BY <1>0, <1>1, <1>2
  <2>2. CASE i <= a
    <3>1. i \in 1..a /\ x[i] = u[i]
      BY <1>0, <1>4, <2>1, <2>2
    <3>. QED
      BY <1>1, <1>3, <3>1
  <2>3. CASE ~(i <= a)
    <3>1. PICK j \in 1..(b - a) : j = i - a /\ a + j = i
      BY <1>0, <2>3
    <3>2. x[i] = v[j]
      BY <1>4, <2>1, <2>3, <3>1
    <3>. QED
      BY <1>2, <1>3, <3>1, <3>2
  <2>. QED
    BY <2>2, <2>3
<1>7. x = w
  BY <1>3, <1>4, <1>5, <1>6, SeqEqual
<1>. QED
  BY <1>7 DEF u, v, w, x

\* The chunks of any data, put together, are the data.
LEMMA ChunksRejoin ==
  ASSUME NEW S, NEW data \in Seq(S)
  PROVE  IsSequence(Chunks(data)) /\ FlattenSeq(Chunks(data)) = data
<1>. DEFINE c == Chunks(data)
            L == Len(data)
            n == Len(c)
<1>0. L \in Nat
  BY LenProperties
<1>1. c \in Seq(Seq(S)) /\ Covers(c, data, 0)
  BY ChunksCover
<1>. HIDE DEF c
<1>2. PICK e \in [0..n -> 0..L] :
        /\ e[0] = 0 /\ e[n] = L
        /\ \A k \in 1..n : e[k - 1] <= e[k] /\ c[k] = SubSeq(data, e[k - 1] + 1, e[k])
  BY <1>1 DEF Covers
<1>3. n \in Nat
  BY <1>1, LenProperties
<1>6. IsSequence(c)
  BY <1>1 DEF IsSequence
<1>4. CASE n = 0
  <2>1. c = << >> /\ L = 0
    BY <1>1, <1>2, <1>4, EmptySeq
  <2>2. data = << >>
    BY <2>1, EmptySeq
  <2>3. FlattenSeq(c) = c
    BY <1>4, Zenon DEF FlattenSeq
  <2>. QED
    BY <1>6, <2>1, <2>2, <2>3 DEF c
<1>5. CASE n # 0
  <2>0. c # << >>
    BY <1>5
  <2>1. PICK f : FlattenSeq(c) = f[n] /\ \A i \in 1..n : f[i] = Join(c, f, i)
    BY <1>1, <2>0, FlattenRecursion
  <2>. DEFINE Bad == {k \in 1..n : f[k] # SubSeq(data, 1, e[k])}
              m   == Min(Bad)
  <2>2. Bad = {}
    <3>. SUFFICES ASSUME Bad # {} PROVE FALSE
      OBVIOUS
    <3>1. m \in Bad /\ \A j \in Bad : m <= j
      <4>1. Bad \subseteq Nat
        BY <1>3
      <4>. HIDE DEF Bad
      <4>. QED
        BY <4>1, MinOfNaturals
    <3>2. m \in 1..n /\ f[m] # SubSeq(data, 1, e[m])
      BY <3>1
    <3>. HIDE DEF m
    <3>3. f[m] = Join(c, f, m)
      BY <2>1, <3>2
    <3>4. PICK p \in 0..n : p = m - 1
      BY <1>3, <3>2
    <3>5. /\ e[p] \in 0..L /\ e[m] \in 0..L /\ e[p] <= e[m]
          /\ c[m] = SubSeq(data, e[p] + 1, e[m])
      <4>1. m \in 0..n
        BY <1>3, <3>2
      <4>2. e[m - 1] <= e[m] /\ c[m] = SubSeq(data, e[m - 1] + 1, e[m])
        BY <1>2, <3>2
      <4>. QED
        BY <1>2, <3>4, <4>1, <4>2
    <3>6. CASE m = 1
      <4>1. p = 0 /\ e[p] = 0
        BY <1>2, <3>4, <3>6
      <4>2. f[m] = c[m]
        BY <3>3, <3>6 DEF Join
      <4>3. e[p] + 1 = 1
        BY <4>1
      <4>. QED
        BY <3>2, <3>5, <4>2, <4>3
    <3>7. CASE m # 1
      <4>1. p \in 1..n /\ p < m
        BY <1>3, <3>2, <3>4, <3>7
      <4>2. f[p] = SubSeq(data, 1, e[p])
        <5>1. p \notin Bad
          <6>. HIDE DEF Bad
          <6>. QED
            BY <1>3, <3>1, <3>2, <4>1
        <5>. QED
          BY <4>1, <5>1
      <4>3. f[m] = f[p] \o c[m]
        BY <3>3, <3>4, <3>7 DEF Join
      <4>4. SubSeq(data, 1, e[p]) \o SubSeq(data, e[p] + 1, e[m]) = SubSeq(data, 1, e[m])
        <5>1. PICK a \in 0..L, b \in 0..L : a <= b /\ a = e[p] /\ b = e[m]
          BY <1>0, <3>5
        <5>3. a \in 0..Len(data) /\ b \in a..Len(data)
          BY <1>0, <5>1
        <5>2. SubSeq(data, 1, a) \o SubSeq(data, a + 1, b) = SubSeq(data, 1, b)
          BY <5>3, SubSeqJoins
        <5>. QED
          BY <5>1, <5>2
      <4>. QED
        BY <3>2, <3>5, <4>2, <4>3, <4>4, Zenon
    <3>. QED
      BY <3>6, <3>7
  <2>3. f[n] = SubSeq(data, 1, L)
    <3>1. n \in 1..n /\ ~(n \in Bad)
      BY <1>3, <1>5, <2>2
    <3>2. f[n] = SubSeq(data, 1, e[n])
      BY <3>1
    <3>. QED
      BY <1>2, <3>2
  <2>4. SubSeq(data, 1, L) = data
    BY SubSeqFull
  <2>. QED
    BY <1>6, <2>1, <2>3, <2>4 DEF c
<1>. QED
  BY <1>3, <1>4, <1>5, <1>6 DEF c

-----------------------------------------------------------------------------
(* The invariant of the files.                                              *)

\* What put_file logged.
Logged(o) ==
  /\ o.name \in Names /\ o.data \in Contents /\ o.version \in Nat
  /\ o.root = merkle_root([c \in DOMAIN Chunks(o.data) |-> << Chunks(o.data)[c] >>])

\* A version is stored under its number, chunk by chunk.
Stored(o, cs, fs) ==
  /\ o.version < Len(fs[o.name]) /\ fs[o.name][o.version + 1] = Chunks(o.data)
  /\ Range(Chunks(o.data)) \subseteq cs

\* The versions of the first n ops are stored.
Holds(cs, fs, n) == \A i \in 1..n : promised[i].kind = "put_file" => Stored(promised[i], cs, fs)

\* Every name has a sequence of versions.
Recipes(fs) == DOMAIN fs = Names /\ \A name \in Names : IsSequence(fs[name])

\* The log has been read.
Loaded == mode \notin {"down", "load", "heal"}

\* The snapshots on disk, under their name or not yet.
Snapshots == snap \cup temps.snap

\* The session has in memory the log, and in its stores the versions that the log has;
\* a snapshot those of the log up to its seq.
FilesKept ==
  ~blind =>
    /\ \A i \in 1..Len(promised) : promised[i].kind = "put_file" => Logged(promised[i])
    /\ Loaded => ops = promised /\ Recipes(files) /\ (~lost => Holds(chunks, files, Len(promised)))
    /\ \A s \in Snapshots :
         s.seq \in 0..Len(promised) /\ Recipes(s.files) /\ (~lost => Holds(s.chunks, s.files, s.seq))

\* No files, no recipes.
LEMMA NoRecipes == Recipes(NoFiles)
<1>1. IsSequence(<< >>)
  BY EmptySeq DEF IsSequence
<1>. QED
  BY <1>1 DEF Recipes, NoFiles

\* A step of an open database that logs an op and, for a file, stores it.
LEMMA AppendKeepsFiles ==
  ASSUME LogKept, FilesKept, NEW op, LogAppend(op), op.kind = "put_file" => Logged(op),
         mode' \in {"open", "snapshot"}, UNCHANGED <<snap, temps, blind, lost>>,
         ~blind => Recipes(files'),
         ~blind /\ ~lost => Holds(chunks', files', Len(promised)),
         ~blind /\ op.kind = "put_file" => Stored(op, chunks', files')
  PROVE  FilesKept'
<1>. SUFFICES ASSUME ~blind PROVE FilesKept'
  BY DEF FilesKept
<1>. DEFINE n == Len(promised)
<1>1. IsSequence(promised) /\ n \in Nat /\ Loaded /\ Loaded' /\ ops = promised
  BY SequenceIsFunction DEF LogKept, FilesKept, Loaded, LogAppend
<1>2. promised' = Append(promised, op) /\ ops' = promised'
  BY <1>1 DEF LogAppend
<1>3. /\ Len(promised') = n + 1 /\ promised'[n + 1] = op
      /\ \A i \in 1..n : promised'[i] = promised[i]
  BY <1>1, <1>2, AppendToSequence
<1>. HIDE DEF n
<1>4. \A i \in 1..(n + 1) : i \in 1..n \/ i = n + 1
  BY <1>1
<1>5. \A i \in 1..(n + 1) : promised'[i].kind = "put_file" => Logged(promised'[i])
  BY <1>3, <1>4 DEF FilesKept, n
<1>6. ~lost => \A i \in 1..(n + 1) : promised'[i].kind = "put_file" => Stored(promised'[i], chunks', files')
  <2>1. ~lost => \A i \in 1..n : promised[i].kind = "put_file" => Stored(promised[i], chunks', files')
    BY DEF Holds, n
  <2>. QED
    BY <1>3, <1>4, <2>1
<1>7. ASSUME NEW s \in Snapshots
      PROVE  /\ s.seq \in 0..(n + 1) /\ Recipes(s.files)
             /\ ~lost => \A i \in 1..s.seq : promised'[i].kind = "put_file" => Stored(promised'[i], s.chunks, s.files)
  <2>1. s.seq \in 0..n /\ Recipes(s.files) /\ (~lost => Holds(s.chunks, s.files, s.seq))
    BY DEF FilesKept, n
  <2>2. s.seq \in 0..(n + 1) /\ \A i \in 1..s.seq : i \in 1..n
    BY <1>1, <2>1
  <2>. QED
    BY <1>3, <2>1, <2>2 DEF Holds
<1>8. ~lost' => Holds(chunks, files, Len(promised))'
  BY <1>3, <1>6 DEF Holds
<1>9. \A s \in Snapshots' : /\ s.seq \in 0..Len(promised') /\ Recipes(s.files)
                            /\ ~lost' => \A i \in 1..s.seq : promised'[i].kind = "put_file" => Stored(promised'[i], s.chunks, s.files)
  <2>1. Snapshots' = Snapshots
    BY DEF Snapshots
  <2>. QED
    BY <1>3, <1>7, <2>1
<1>10. \A i \in 1..Len(promised') : promised'[i].kind = "put_file" => Logged(promised'[i])
  BY <1>3, <1>5
<1>. QED
  BY <1>1, <1>2, <1>8, <1>9, <1>10 DEF FilesKept, Holds

\* put_file stores the version that it logs and keeps the others.
LEMMA PutFileStores ==
  ASSUME LogKept, FilesKept, NEW name \in Names, NEW data \in Contents, PutFile(name, data), ~blind
  PROVE  LET o == Op("put_file", name, Len(files[name]), data) IN
         /\ Logged(o) /\ Recipes(files') /\ Stored(o, chunks', files')
         /\ ~lost => Holds(chunks', files', Len(promised))
<1>. DEFINE o == Op("put_file", name, Len(files[name]), data)
            c == Chunks(data)
            v == Len(files[name])
<1>1. /\ o.name = name /\ o.version = v /\ o.data = data
      /\ o.root = merkle_root([i \in DOMAIN c |-> << c[i] >>])
  BY DEF Op
<1>. HIDE DEF o, c
<1>2. chunks' = chunks \cup Range(c) /\ files' = [files EXCEPT ![name] = Append(@, c)]
  BY DEF PutFile, c
<1>3. Recipes(files) /\ (~lost => Holds(chunks, files, Len(promised)))
  BY DEF PutFile, LogAppend, FilesKept, Loaded
<1>4. IsSequence(files[name]) /\ v \in Nat
  BY <1>3, SequenceIsFunction DEF Recipes
<1>5. files'[name] = Append(files[name], c) /\ \A m \in Names : m # name => files'[m] = files[m]
  BY <1>2, <1>3 DEF Recipes
<1>6. /\ IsSequence(files'[name]) /\ Len(files'[name]) = v + 1
      /\ \A i \in 1..v : files'[name][i] = files[name][i]
      /\ files'[name][v + 1] = c
  BY <1>4, <1>5, AppendToSequence
<1>7. Recipes(files')
  BY <1>2, <1>3, <1>5, <1>6 DEF Recipes
<1>8. Logged(o)
  BY <1>1, <1>4 DEF Logged, c
<1>9. Stored(o, chunks', files')
  BY <1>1, <1>2, <1>4, <1>6 DEF Stored, c
<1>10. ASSUME NEW p, Logged(p), Stored(p, chunks, files) PROVE Stored(p, chunks', files')
  <2>1. p.name \in Names /\ p.version \in Nat /\ p.version < Len(files[p.name])
    BY <1>10 DEF Logged, Stored
  <2>2. CASE p.name = name
    <3>1. p.version + 1 \in 1..v /\ p.version < v + 1
      BY <1>4, <2>1, <2>2
    <3>2. Len(files'[p.name]) = v + 1 /\ files'[p.name][p.version + 1] = files[p.name][p.version + 1]
      BY <1>6, <2>2, <3>1
    <3>. QED
      BY <1>2, <1>10, <3>1, <3>2 DEF Stored
  <2>3. CASE p.name # name
    BY <1>2, <1>5, <1>10, <2>1, <2>3 DEF Stored
  <2>. QED
    BY <2>2, <2>3
<1>11. \A i \in 1..Len(promised) : promised[i].kind = "put_file" => Logged(promised[i])
  BY DEF FilesKept
<1>12. ~lost => Holds(chunks', files', Len(promised))
  BY <1>3, <1>10, <1>11 DEF Holds
<1>. QED
  BY <1>7, <1>8, <1>9, <1>12 DEF o

\* There is no file at first.
LEMMA InitFilesKept == Init => FilesKept
<1>1. Len(<< >>) = 0
  BY EmptySeq
<1>. QED
  BY <1>1 DEF Init, NoTemps, FilesKept, Loaded, Snapshots

\* The ops that _load takes from the log are the acknowledged ones.
LEMMA LoadsPromised ==
  ASSUME LogKept, ~blind
  PROVE  /\ OpsOf(aof) = promised /\ IsSequence(promised)
         /\ DOMAIN promised = 1..Len(promised) /\ Len(promised) \in Nat
  BY KeptIsKept, SequenceIsFunction DEF KeysKeepTheLog, LogKept

\* Every step keeps the files of the log stored.
LEMMA NextFilesKept ==
  ASSUME KeyFile, LogKept, Temporary, FilesKept, [Next]_vars
  PROVE  FilesKept'
<1>1. ASSUME NEW tmk \in TMKs \cup {NIL}, Open(tmk) PROVE FilesKept'
  <2>1. UNCHANGED <<Snapshots, promised, blind, lost>> /\ ~Loaded'
    BY <1>1 DEF Open, history, Loaded, Snapshots
  <2>. QED
    BY <2>1 DEF FilesKept, Holds
<1>2. CASE LoadFromSnapshot
  <2>. SUFFICES ASSUME ~blind PROVE FilesKept'
    BY <1>2 DEF LoadFromSnapshot, FilesKept
  <2>1. UNCHANGED <<Snapshots, promised, blind>> /\ (~lost' => ~lost)
    BY <1>2 DEF LoadFromSnapshot, disk, Snapshots
  <2>2. PICK s \in snap :
          \/ mode' = "down"
          \/ /\ ops' = promised /\ files' = s.files /\ chunks' = s.chunks
             /\ ~lost' => ~Uncovered(promised, s.seq)
    BY <1>2, LoadsPromised DEF LoadFromSnapshot, Restore
  <2>3. Loaded' => /\ ops' = promised /\ files' = s.files /\ chunks' = s.chunks
                   /\ ~lost' => ~Uncovered(promised, s.seq)
    BY <2>2 DEF Loaded
  <2>4. s.seq \in 0..Len(promised) /\ Recipes(s.files) /\ (~lost => Holds(s.chunks, s.files, s.seq))
    BY DEF FilesKept, Snapshots
  <2>5. ~lost' /\ Loaded' => Holds(s.chunks, s.files, Len(promised))
    <3>. SUFFICES ASSUME ~lost', Loaded', NEW i \in 1..Len(promised), promised[i].kind = "put_file"
                  PROVE  Stored(promised[i], s.chunks, s.files)
      BY DEF Holds
    <3>1. DOMAIN promised = 1..Len(promised) /\ Len(promised) \in Nat
      BY LoadsPromised
    <3>2. ~(i > s.seq)
      BY <2>3, <3>1 DEF Uncovered
    <3>3. i \in 1..s.seq
      BY <2>4, <3>1, <3>2
    <3>. QED
      BY <2>1, <2>4, <3>3 DEF Holds
  <2>. QED
    BY <2>1, <2>3, <2>4, <2>5 DEF FilesKept, Holds
<1>3. CASE LoadFromLog
  <2>. SUFFICES ASSUME ~blind PROVE FilesKept'
    BY <1>3 DEF LoadFromLog, FilesKept
  <2>0. UNCHANGED <<promised, blind>> /\ (~lost' => ~lost) /\ Snapshots' = Snapshots
    <3>1. temps'.snap = temps.snap
      BY <1>3 DEF LoadFromLog, Temporary
    <3>. QED
      BY <1>3, <3>1 DEF LoadFromLog, Snapshots
  <2>1. CASE mode' = "heal"
    BY <2>0, <2>1 DEF FilesKept, Holds, Loaded
  <2>2. CASE mode' # "heal"
    <3>1. Readable = aof
      BY <1>3, <2>2, LoadReadsAll
    <3>3. ops' = promised /\ chunks' = {} /\ files' = NoFiles /\ (~lost' => ~Uncovered(promised, 0))
      BY <1>3, <3>1, LoadsPromised DEF LoadFromLog
    <3>4. ~lost' => Holds({}, NoFiles, Len(promised))
      <4>. SUFFICES ASSUME ~lost', NEW i \in 1..Len(promised), promised[i].kind = "put_file" PROVE FALSE
        BY DEF Holds
      <4>1. DOMAIN promised = 1..Len(promised) /\ i > 0
        BY LoadsPromised
      <4>. QED
        BY <3>3, <4>1 DEF Uncovered
    <3>. QED
      BY <2>0, <3>3, <3>4, NoRecipes DEF FilesKept, Holds
  <2>. QED
    BY <2>1, <2>2
<1>4. CASE Backfill
  BY <1>4 DEF Backfill, memory, history, FilesKept, Holds, Loaded, Snapshots
<1>5. CASE Unsnap
  <2>1. UNCHANGED <<ops, chunks, files, promised, blind, lost>> /\ Snapshots' \subseteq Snapshots /\ Loaded
    BY <1>5 DEF Unsnap, DropSnapshot, memory, history, Loaded, Snapshots
  <2>. QED
    BY <2>1 DEF FilesKept, Holds
<1>6. CASE Put
  <2>. DEFINE o == Op("put", NIL, 0, << >>)
  <2>1. /\ LogAppend(o) /\ mode' = "open" /\ UNCHANGED <<snap, temps, blind, lost, chunks, files>> /\ Loaded
    BY <1>6 DEF Put, LogAppend, Loaded
  <2>2. o.kind # "put_file"
    BY DEF Op
  <2>. HIDE DEF o
  <2>3. ~blind => Recipes(files') /\ (~lost => Holds(chunks', files', Len(promised)))
    BY <2>1 DEF FilesKept
  <2>. QED
    BY <2>1, <2>2, <2>3, AppendKeepsFiles
<1>7. CASE Checkpoint
  <2>. DEFINE o == Op("checkpoint", NIL, 0, << >>)
  <2>1. /\ LogAppend(o) /\ mode' = "snapshot" /\ UNCHANGED <<snap, temps, blind, lost, chunks, files>> /\ Loaded
    BY <1>7 DEF Checkpoint, LogAppend, Loaded
  <2>2. o.kind # "put_file"
    BY DEF Op
  <2>. HIDE DEF o
  <2>3. ~blind => Recipes(files') /\ (~lost => Holds(chunks', files', Len(promised)))
    BY <2>1 DEF FilesKept
  <2>. QED
    BY <2>1, <2>2, <2>3, AppendKeepsFiles
<1>8. CASE SaveSnapshot
  <2>. SUFFICES ASSUME ~blind PROVE FilesKept'
    BY <1>8 DEF SaveSnapshot, history, FilesKept
  <2>. DEFINE new == [key |-> dek, seq |-> Len(ops), chunks |-> chunks, files |-> files]
  <2>1. /\ UNCHANGED <<ops, chunks, files, snap, promised, blind, lost>> /\ Loaded
        /\ temps' = [temps EXCEPT !.snap = {new}]
    BY <1>8 DEF SaveSnapshot, memory, history, Loaded
  <2>2. ops = promised /\ Recipes(files) /\ (~lost => Holds(chunks, files, Len(promised)))
    BY <2>1 DEF FilesKept
  <2>3. Len(promised) \in 0..Len(promised)
    BY LoadsPromised
  <2>4. new.seq \in 0..Len(promised) /\ Recipes(new.files) /\ (~lost => Holds(new.chunks, new.files, new.seq))
    BY <2>2, <2>3
  <2>. HIDE DEF new
  <2>5. temps'.snap = {new}
    BY <2>1 DEF Temporary
  <2>6. Snapshots' \subseteq Snapshots \cup {new}
    BY <2>1, <2>5 DEF Snapshots
  <2>. QED
    BY <2>1, <2>2, <2>4, <2>6 DEF FilesKept, Holds
<1>9. ASSUME NEW name \in Names, NEW data \in Contents, PutFile(name, data) PROVE FilesKept'
  <2>. SUFFICES ASSUME ~blind PROVE FilesKept'
    BY <1>9 DEF PutFile, FilesKept
  <2>. DEFINE o == Op("put_file", name, Len(files[name]), data)
  <2>1. /\ Logged(o) /\ Recipes(files') /\ Stored(o, chunks', files')
        /\ ~lost => Holds(chunks', files', Len(promised))
    BY <1>9, PutFileStores
  <2>2. LogAppend(o) /\ mode' = "open" /\ UNCHANGED <<snap, temps, blind, lost>>
    BY <1>9 DEF PutFile, LogAppend
  <2>. HIDE DEF o
  <2>. QED
    BY <2>1, <2>2, AppendKeepsFiles
<1>10. ASSUME NEW old \in TMKs, NEW new \in TMKs, Rotate(old, new) PROVE FilesKept'
  <2>1. UNCHANGED <<ops, chunks, files, Snapshots, promised, blind, lost>> /\ Loaded
    BY <1>10 DEF Rotate, memory, history, Loaded, Snapshots
  <2>. QED
    BY <2>1 DEF FilesKept, Holds
<1>11. CASE Rewrap
  BY <1>11 DEF Rewrap, memory, FilesKept, Holds, Loaded, Snapshots
<1>12. CASE Stop
  BY <1>12 DEF Stop, disk, FilesKept, Holds, Loaded, Snapshots
<1>13. CASE Heal
  <2>1. blind'
    BY <1>13 DEF Heal, Temporary
  <2>. QED
    BY <2>1 DEF FilesKept
<1>14. CASE RenameSnapshot
  <2>1. UNCHANGED <<ops, chunks, files, promised, blind, lost>> /\ Loaded
    BY <1>14 DEF RenameSnapshot, memory, Loaded
  <2>2. temps'.snap = {} /\ snap' = temps.snap
    BY <1>14 DEF RenameSnapshot, Temporary
  <2>3. Snapshots' \subseteq Snapshots
    BY <2>2 DEF Snapshots
  <2>. QED
    BY <2>1, <2>3 DEF FilesKept, Holds
<1>15. CASE UNCHANGED vars
  BY <1>15 DEF vars, FilesKept, Holds, Loaded, Snapshots
<1>. QED
  BY <1>1, <1>2, <1>3, <1>4, <1>5, <1>6, <1>7, <1>8, <1>9, <1>10, <1>11, <1>12, <1>13, <1>14, <1>15 DEF Next

\* Every version that put_file logged reads back as the bytes that were passed, with the root
\* that was logged, through restarts from snapshots, keys and rotations, unless the log has
\* had versions that no snapshot held or was opened without its key (BlobStore, cascade.chunk,
\* save_snapshot, load_snapshot).
THEOREM FilesReadBack == Spec => []FilesAsLogged
<1>1. Init => KeyFile /\ LogKept /\ Temporary /\ FilesKept
  BY InitKeyFile, InitLogKept, InitTemporary, InitFilesKept
<1>2. KeyFile /\ LogKept /\ Temporary /\ FilesKept /\ [Next]_vars
      => KeyFile' /\ LogKept' /\ Temporary' /\ FilesKept'
  BY NextKeyFile, NextLogKept, NextTemporary, NextFilesKept
<1>3. LogKept /\ FilesKept => FilesAsLogged
  <2>. SUFFICES ASSUME LogKept, FilesKept, mode = "open", ~lost, ~blind,
                       NEW i \in DOMAIN ops, ops[i].kind = "put_file"
                PROVE  LET o == ops[i] IN
                           /\ o.version < Len(files[o.name])
                           /\ Range(files[o.name][o.version + 1]) \subseteq chunks
                           /\ Bytes(o.name, o.version) = o.data
                           /\ merkle_root([c \in DOMAIN files[o.name][o.version + 1] |->
                                             << files[o.name][o.version + 1][c] >>]) = o.root
    BY DEF FilesAsLogged
  <2>1. ops = promised /\ Holds(chunks, files, Len(promised)) /\ i \in 1..Len(promised)
    BY LoadsPromised DEF FilesKept, Loaded
  <2>2. PICK o : o = ops[i] /\ Logged(o) /\ Stored(o, chunks, files)
    BY <2>1 DEF FilesKept, Holds
  <2>3. FlattenSeq(Chunks(o.data)) = o.data
    <3>1. o.data \in Seq(DOMAIN Gear)
      BY <2>2, AtRestAssumption DEF Logged
    <3>. QED
      BY <3>1, ChunksRejoin
  <2>4. Bytes(o.name, o.version) = o.data
    BY <2>2, <2>3 DEF Bytes, Stored
  <2>. QED
    BY <2>2, <2>4 DEF Stored, Logged
<1>. QED
  BY <1>1, <1>2, <1>3, PTL DEF Spec

-----------------------------------------------------------------------------
(* Chains of hashes, which the log's head and a Merkle path both are.       *)

\* The i-th value when x is hashed with s[1], s[2] and so on, on the left where left says so.
Link(f, x, left, s, i) ==
  IF i = 0 THEN x ELSE IF left[i] THEN << f[i - 1], s[i] >> ELSE << s[i], f[i - 1] >>

IsChain(f, n, x, left, s) == f = [i \in 0..n |-> Link(f, x, left, s, i)]

\* The values exist, step by step.
LEMMA ChainExists ==
  ASSUME NEW n \in Nat, NEW x, NEW left, NEW s
  PROVE  \E f : IsChain(f, n, x, left, s)
<1>. DEFINE Bad == {k \in 0..n : ~ \E f : f = [i \in 0..k |-> Link(f, x, left, s, i)]}
            m   == Min(Bad)
<1>1. Bad = {}
  <2>. SUFFICES ASSUME Bad # {} PROVE FALSE
    OBVIOUS
  <2>1. m \in Bad /\ \A j \in Bad : m <= j
    <3>1. Bad \subseteq Nat
      OBVIOUS
    <3>. HIDE DEF Bad
    <3>. QED
      BY <3>1, MinOfNaturals
  <2>. HIDE DEF m
  <2>2. m # 0
    <3>. DEFINE e == [i \in 0..0 |-> x]
    <3>1. e = [i \in 0..0 |-> Link(e, x, left, s, i)]
      BY DEF Link
    <3>. HIDE DEF e
    <3>2. 0 \notin Bad
      BY <3>1
    <3>. QED
      BY <2>1, <3>2
  <2>3. m \in 1..n /\ m - 1 \in 0..n /\ m - 1 \notin Bad
    <3>1. m \in 0..n
      BY <2>1
    <3>. HIDE DEF Bad
    <3>. QED
      BY <2>1, <2>2, <3>1
  <2>4. PICK f : f = [i \in 0..(m - 1) |-> Link(f, x, left, s, i)]
    BY <2>3, Zenon
  <2>. DEFINE g == [i \in 0..m |-> IF i = m THEN Link(f, x, left, s, i) ELSE f[i]]
  <2>5. ASSUME NEW i \in 0..m PROVE Link(g, x, left, s, i) = Link(f, x, left, s, i)
    <3>1. CASE i = 0
      BY <3>1 DEF Link
    <3>2. CASE i # 0
      <4>1. i - 1 \in 0..m /\ i - 1 # m
        BY <2>3, <3>2
      <4>2. g[i - 1] = f[i - 1]
        BY <4>1
      <4>. HIDE DEF g
      <4>. QED
        BY <4>2, Zenon DEF Link
    <3>. QED
      BY <3>1, <3>2
  <2>6. ASSUME NEW i \in 0..m PROVE g[i] = Link(f, x, left, s, i)
    <3>1. CASE i = m
      BY <3>1
    <3>2. CASE i # m
      <4>1. i \in 0..(m - 1)
        BY <2>3, <3>2
      <4>2. f[i] = Link(f, x, left, s, i)
        BY <2>4, <4>1, Zenon
      <4>. QED
        BY <3>2, <4>2
    <3>. QED
      BY <3>1, <3>2
  <2>7. g = [i \in 0..m |-> g[i]]
    OBVIOUS
  <2>. HIDE DEF g
  <2>8. g = [i \in 0..m |-> Link(g, x, left, s, i)]
    BY <2>5, <2>6, <2>7
  <2>9. m \notin Bad
    BY <2>8
  <2>. QED
    BY <2>1, <2>9
<1>2. n \in 0..n /\ ~(n \in Bad)
  BY <1>1
<1>3. \E f : f = [i \in 0..n |-> Link(f, x, left, s, i)]
  BY <1>2
<1>. QED
  BY <1>3, Zenon DEF IsChain

\* What a chain begins with, and how it goes on.
LEMMA ChainLinks ==
  ASSUME NEW n \in Nat, NEW x, NEW left, NEW s, NEW f, IsChain(f, n, x, left, s)
  PROVE  /\ f[0] = x
         /\ \A i \in 1..n : f[i] = IF left[i] THEN << f[i - 1], s[i] >> ELSE << s[i], f[i - 1] >>
<1>1. \A i \in 0..n : f[i] = Link(f, x, left, s, i)
  BY Zenon DEF IsChain
<1>2. f[0] = x
  <2>1. 0 \in 0..n
    OBVIOUS
  <2>. QED
    BY <1>1, <2>1, Zenon DEF Link
<1>3. ASSUME NEW i \in 1..n PROVE f[i] = IF left[i] THEN << f[i - 1], s[i] >> ELSE << s[i], f[i - 1] >>
  <2>1. i \in 0..n /\ i # 0
    OBVIOUS
  <2>. QED
    BY <1>1, <2>1, Zenon DEF Link
<1>. QED
  BY <1>2, <1>3

\* Chains of one shape over the same values end alike.
LEMMA ChainIsUnique ==
  ASSUME NEW n \in Nat, NEW x, NEW left, NEW s, NEW t, NEW f, NEW g,
         IsChain(f, n, x, left, s), IsChain(g, n, x, left, t), \A i \in 1..n : s[i] = t[i]
  PROVE  f[n] = g[n]
<1>. DEFINE Bad == {k \in 0..n : f[k] # g[k]}
            m   == Min(Bad)
<1>. SUFFICES ASSUME n \in Bad PROVE FALSE
  OBVIOUS
<1>1. m \in Bad /\ \A k \in Bad : m <= k
  <2>1. Bad \subseteq Nat
    OBVIOUS
  <2>. HIDE DEF Bad
  <2>. QED
    BY <2>1, MinOfNaturals
<1>. HIDE DEF m
<1>2. f[0] = x /\ g[0] = x
  BY ChainLinks
<1>3. m \in 1..n /\ m - 1 \in 0..n
  BY <1>1, <1>2
<1>4. f[m - 1] = g[m - 1]
  <2>1. m - 1 \notin Bad
    <3>. HIDE DEF Bad
    <3>. QED
      BY <1>1, <1>3
  <2>. QED
    BY <1>3, <2>1
<1>5. /\ f[m] = IF left[m] THEN << f[m - 1], s[m] >> ELSE << s[m], f[m - 1] >>
      /\ g[m] = IF left[m] THEN << g[m - 1], t[m] >> ELSE << t[m], g[m - 1] >>
      /\ s[m] = t[m]
  BY <1>3, ChainLinks
<1>6. f[m] = g[m]
  BY <1>4, <1>5, Zenon
<1>. QED
  BY <1>1, <1>6

\* Chains of one shape that end alike are over the same values: a hash has one preimage.
LEMMA ChainCommits ==
  ASSUME NEW n \in Nat, NEW x, NEW y, NEW left, NEW s, NEW t, NEW f, NEW g,
         IsChain(f, n, x, left, s), IsChain(g, n, y, left, t), f[n] = g[n]
  PROVE  x = y /\ \A i \in 1..n : s[i] = t[i]
<1>0. ASSUME NEW i \in 1..n, f[i] = g[i] PROVE f[i - 1] = g[i - 1] /\ s[i] = t[i]
  <2>1. /\ f[i] = IF left[i] THEN << f[i - 1], s[i] >> ELSE << s[i], f[i - 1] >>
        /\ g[i] = IF left[i] THEN << g[i - 1], t[i] >> ELSE << t[i], g[i - 1] >>
    BY ChainLinks
  <2>2. CASE left[i]
    <3>1. << f[i - 1], s[i] >> = << g[i - 1], t[i] >>
      BY <1>0, <2>1, <2>2, Zenon
    <3>. QED
      BY <3>1
  <2>3. CASE ~left[i]
    <3>1. << s[i], f[i - 1] >> = << t[i], g[i - 1] >>
      BY <1>0, <2>1, <2>3, Zenon
    <3>. QED
      BY <3>1
  <2>. QED
    BY <2>2, <2>3
<1>. DEFINE Bad == {k \in 0..n : f[n - k] # g[n - k]}
            m   == Min(Bad)
<1>1. Bad = {}
  <2>. SUFFICES ASSUME Bad # {} PROVE FALSE
    OBVIOUS
  <2>1. m \in Bad /\ \A k \in Bad : m <= k
    <3>1. Bad \subseteq Nat
      OBVIOUS
    <3>. HIDE DEF Bad
    <3>. QED
      BY <3>1, MinOfNaturals
  <2>. HIDE DEF m
  <2>2. m \in 1..n /\ m - 1 \in 0..n
    BY <2>1
  <2>3. m - 1 \notin Bad
    <3>. HIDE DEF Bad
    <3>. QED
      BY <2>1, <2>2
  <2>4. f[n - (m - 1)] = g[n - (m - 1)]
    BY <2>2, <2>3
  <2>5. n - (m - 1) \in 1..n /\ n - (m - 1) - 1 = n - m
    BY <2>2
  <2>6. f[n - m] = g[n - m]
    BY <1>0, <2>4, <2>5
  <2>. QED
    BY <2>1, <2>6
<1>2. ASSUME NEW i \in 0..n PROVE f[i] = g[i]
  <2>1. n - i \in 0..n /\ n - (n - i) = i
    OBVIOUS
  <2>. QED
    BY <1>1, <2>1
<1>3. x = y
  <2>1. f[0] = x /\ g[0] = y
    BY ChainLinks
  <2>. QED
    BY <1>2, <2>1
<1>4. ASSUME NEW i \in 1..n PROVE s[i] = t[i]
  BY <1>0, <1>2
<1>. QED
  BY <1>3, <1>4

\* The value so far is on the left, in all n places.
Left(n) == [i \in 1..n |-> TRUE]

\* fold_head follows a chain, every hash to the right of the head.
LEMMA FoldIsChain ==
  ASSUME NEW hashes, NEW start, Len(hashes) \in Nat
  PROVE  \E f : /\ IsChain(f, Len(hashes), start, Left(Len(hashes)), hashes)
                /\ fold_head(hashes, start) = f[Len(hashes)]
<1>. DEFINE n == Len(hashes)
            Body(f, i) == IF i = 0 THEN start ELSE << f[i - 1], hashes[i] >>
            F == CHOOSE f : f = [i \in 0..n |-> Body(f, i)]
<1>1. ASSUME NEW f, NEW i \in 0..n PROVE Body(f, i) = Link(f, start, Left(n), hashes, i)
  <2>1. i # 0 => Left(n)[i]
    BY DEF Left
  <2>. QED
    BY <2>1 DEF Link
<1>2. PICK g : IsChain(g, n, start, Left(n), hashes)
  BY ChainExists
<1>3. g = [i \in 0..n |-> Link(g, start, Left(n), hashes, i)]
  BY <1>2, Zenon DEF IsChain
<1>4. g = [i \in 0..n |-> Body(g, i)]
  <2>. HIDE DEF Body, n
  <2>. QED
    BY <1>1, <1>3
<1>5. F = [i \in 0..n |-> Body(F, i)]
  BY <1>4, Zenon
<1>6. fold_head(hashes, start) = F[n]
  BY Zenon DEF fold_head
<1>. HIDE DEF F
<1>7. F = [i \in 0..n |-> Link(F, start, Left(n), hashes, i)]
  <2>. HIDE DEF Body, n
  <2>. QED
    BY <1>1, <1>5
<1>8. IsChain(F, n, start, Left(n), hashes)
  BY <1>7, Zenon DEF IsChain
<1>. QED
  BY <1>6, <1>8

\* Where the siblings of a path go, and the siblings.
PathSides(path) == [i \in 1..Len(path) |-> path[i].side = "R"]
Siblings(path)  == [i \in 1..Len(path) |-> path[i].sib]

\* merkle_verify follows a chain from the leaf, over the siblings of the path.
LEMMA VerifyIsChain ==
  ASSUME NEW path, NEW leaf, NEW root, Len(path) \in Nat
  PROVE  \E f : /\ IsChain(f, Len(path), leaf, PathSides(path), Siblings(path))
                /\ merkle_verify(leaf, path, root) <=> root = f[Len(path)]
<1>. DEFINE n == Len(path)
            Body(f, i) == IF i = 0 THEN leaf
                          ELSE IF path[i].side = "R" THEN << f[i - 1], path[i].sib >>
                               ELSE << path[i].sib, f[i - 1] >>
            F == CHOOSE f : f = [i \in 0..n |-> Body(f, i)]
<1>1. ASSUME NEW f, NEW i \in 0..n PROVE Body(f, i) = Link(f, leaf, PathSides(path), Siblings(path), i)
  <2>1. i # 0 => PathSides(path)[i] = (path[i].side = "R") /\ Siblings(path)[i] = path[i].sib
    BY DEF PathSides, Siblings
  <2>. QED
    BY <2>1 DEF Link
<1>2. PICK g : IsChain(g, n, leaf, PathSides(path), Siblings(path))
  BY ChainExists
<1>3. g = [i \in 0..n |-> Link(g, leaf, PathSides(path), Siblings(path), i)]
  BY <1>2, Zenon DEF IsChain
<1>4. g = [i \in 0..n |-> Body(g, i)]
  <2>. HIDE DEF Body, n
  <2>. QED
    BY <1>1, <1>3
<1>5. F = [i \in 0..n |-> Body(F, i)]
  BY <1>4, Zenon
<1>6. merkle_verify(leaf, path, root) <=> root = F[n]
  BY Zenon DEF merkle_verify
<1>. HIDE DEF F
<1>7. F = [i \in 0..n |-> Link(F, leaf, PathSides(path), Siblings(path), i)]
  <2>. HIDE DEF Body, n
  <2>. QED
    BY <1>1, <1>5
<1>8. IsChain(F, n, leaf, PathSides(path), Siblings(path))
  BY <1>7, Zenon DEF IsChain
<1>. QED
  BY <1>6, <1>8
\* The proof of an op verifies for its hash and for no other.
LEMMA OpProofVerifies ==
  ASSUME NEW hashes, IsSequence(hashes), NEW i \in 1..Len(hashes), NEW h
  PROVE  verify_proof([OpProof(hashes, i - 1) EXCEPT !.hash = h]) <=> hashes[i] = h
<1>. DEFINE n == Len(hashes)
            a == SubSeq(hashes, 1, i - 1)
            b == << h >> \o SubSeq(hashes, i + 1, n)
            t == [k \in 1..n |-> IF k = i THEN h ELSE hashes[k]]
<1>1. PICK S : hashes \in Seq(S)
  BY DEF IsSequence
<1>2. n \in Nat /\ i \in Nat /\ i >= 1 /\ i <= n
  BY <1>1, LenProperties
<1>3. Len(a) = i - 1 /\ \A k \in 1..(i - 1) : a[k] = hashes[k]
  <2>1. 1 \in 1..(n + 1) /\ i - 1 \in (1 - 1)..n
    BY <1>2
  <2>2. Len(a) = IF 1 <= i - 1 THEN i - 1 - 1 + 1 ELSE 0
    BY <1>1, <1>2, SubSeqProperties
  <2>. QED
    BY <1>1, <1>2, <2>2, SubSeqProperties
<1>4. Len(b) = n - i + 1 /\ b[1] = h /\ \A k \in 2..(n - i + 1) : b[k] = hashes[i - 1 + k]
  <2>. DEFINE c == SubSeq(hashes, i + 1, n)
              T == S \cup {h}
  <2>1. hashes \in Seq(T) /\ << h >> \in Seq(T) /\ Len(<< h >>) = 1 /\ << h >>[1] = h
    <3>1. hashes \in Seq(T)
      BY <1>1, SeqDef
    <3>. QED
      BY <3>1
  <2>. HIDE DEF T
  <2>2. c \in Seq(T) /\ Len(c) = n - i /\ \A k \in 1..(n - i) : c[k] = hashes[i + k]
    <3>1. c \in Seq(T)
      BY <1>2, <2>1, SubSeqProperties
    <3>2. Len(c) = n - i
      BY <1>2, <2>1, SubSeqProperties
    <3>3. ASSUME NEW k \in 1..(n - i) PROVE c[k] = hashes[i + k]
      <4>1. c[k] = hashes[i + 1 + k - 1]
        BY <1>2, <2>1, <3>2, SubSeqProperties
      <4>2. i + 1 + k - 1 = i + k
        BY <1>2
      <4>. QED
        BY <4>1, <4>2, Zenon
    <3>. QED
      BY <3>1, <3>2, <3>3
  <2>. HIDE DEF c
  <2>3. /\ Len(<< h >> \o c) = 1 + Len(c)
        /\ \A k \in 1..(1 + Len(c)) : (<< h >> \o c)[k] = IF k <= 1 THEN << h >>[k] ELSE c[k - 1]
    BY <2>1, <2>2, ConcatProperties
  <2>4. b = << h >> \o c
    BY DEF c
  <2>5. Len(b) = n - i + 1 /\ b[1] = h
    BY <1>2, <2>1, <2>2, <2>3, <2>4
  <2>6. ASSUME NEW k \in 2..(n - i + 1) PROVE b[k] = hashes[i - 1 + k]
    <3>1. b[k] = c[k - 1]
      <4>1. k \in 1..(1 + Len(c)) /\ ~(k <= 1)
        BY <1>2, <2>2
      <4>. QED
        BY <2>3, <2>4, <4>1, Zenon
    <3>2. k - 1 \in 1..(n - i) /\ i + (k - 1) = i - 1 + k
      BY <1>2
    <3>. QED
      BY <2>2, <3>1, <3>2
  <2>. QED
    BY <2>5, <2>6
<1>. HIDE DEF a, b
<1>5. PICK f : IsChain(f, n, << >>, Left(n), hashes) /\ fold_head(hashes, << >>) = f[n]
  BY <1>2, FoldIsChain
<1>6. PICK p : IsChain(p, i - 1, << >>, Left(i - 1), a) /\ fold_head(a, << >>) = p[i - 1]
  <2>1. Len(a) \in Nat
    BY <1>2, <1>3
  <2>. QED
    BY <1>3, <2>1, FoldIsChain
<1>7. PICK q : IsChain(q, n - i + 1, p[i - 1], Left(n - i + 1), b) /\ fold_head(b, p[i - 1]) = q[n - i + 1]
  <2>1. Len(b) \in Nat
    BY <1>2, <1>4
  <2>. QED
    BY <1>4, <2>1, FoldIsChain
<1>. DEFINE g == [k \in 0..n |-> IF k <= i - 1 THEN p[k] ELSE q[k - (i - 1)]]
<1>8. IsChain(g, n, << >>, Left(n), t)
  <2>1. /\ p[0] = << >>
        /\ \A k \in 1..(i - 1) : p[k] = << p[k - 1], a[k] >>
    <3>1. i - 1 \in Nat
      BY <1>2
    <3>2. \A k \in 1..(i - 1) : Left(i - 1)[k]
      BY DEF Left
    <3>3. \A k \in 1..(i - 1) : p[k] = IF Left(i - 1)[k] THEN << p[k - 1], a[k] >> ELSE << a[k], p[k - 1] >>
      BY <1>6, <3>1, ChainLinks
    <3>4. p[0] = << >>
      BY <1>6, <3>1, ChainLinks
    <3>. QED
      BY <3>2, <3>3, <3>4, Zenon
  <2>2. /\ q[0] = p[i - 1]
        /\ \A k \in 1..(n - i + 1) : q[k] = << q[k - 1], b[k] >>
    <3>1. n - i + 1 \in Nat
      BY <1>2
    <3>2. \A k \in 1..(n - i + 1) : Left(n - i + 1)[k]
      BY DEF Left
    <3>3. \A k \in 1..(n - i + 1) :
            q[k] = IF Left(n - i + 1)[k] THEN << q[k - 1], b[k] >> ELSE << b[k], q[k - 1] >>
      BY <1>7, <3>1, ChainLinks
    <3>4. q[0] = p[i - 1]
      BY <1>7, <3>1, ChainLinks
    <3>. QED
      BY <3>2, <3>3, <3>4, Zenon
  <2>3. g[0] = << >>
    BY <1>2, <2>1
  <2>4. ASSUME NEW k \in 1..n PROVE g[k] = << g[k - 1], t[k] >>
    <3>1. k - 1 \in 0..n /\ k \in 0..n
      BY <1>2
    <3>2. CASE k <= i - 1
      <4>1. k \in 1..(i - 1) /\ k # i
        BY <1>2, <3>2
      <4>2. g[k] = p[k] /\ g[k - 1] = p[k - 1]
        BY <1>2, <3>1, <3>2
      <4>3. t[k] = a[k]
        BY <1>3, <4>1
      <4>. HIDE DEF g, t
      <4>. QED
        BY <2>1, <4>1, <4>2, <4>3
    <3>3. CASE k = i
      <4>1. g[k] = q[1]
        <5>1. ~(k <= i - 1) /\ k - (i - 1) = 1
          BY <1>2, <3>3
        <5>. QED
          BY <3>1, <5>1
      <4>2. g[k - 1] = p[i - 1]
        BY <1>2, <3>1, <3>3
      <4>3. t[k] = b[1]
        BY <1>4, <3>3
      <4>4. q[1] = << q[0], b[1] >>
        <5>1. 1 \in 1..(n - i + 1) /\ 1 - 1 = 0
          BY <1>2
        <5>. QED
          BY <2>2, <5>1
      <4>. HIDE DEF g, t
      <4>. QED
        BY <2>2, <4>1, <4>2, <4>3, <4>4
    <3>4. CASE k > i
      <4>. DEFINE l == k - (i - 1)
      <4>1. l \in 2..(n - i + 1) /\ l \in 1..(n - i + 1) /\ k - 1 - (i - 1) = l - 1 /\ i - 1 + l = k
        BY <1>2, <3>4
      <4>2. g[k] = q[l]
        BY <1>2, <3>1, <3>4
      <4>3. g[k - 1] = q[l - 1]
        <5>1. ~(k - 1 <= i - 1)
          BY <1>2, <3>4
        <5>. QED
          BY <3>1, <4>1, <5>1
      <4>4. t[k] = b[l]
        <5>1. k # i
          BY <1>2, <3>4
        <5>. HIDE DEF l
        <5>. QED
          BY <1>4, <4>1, <5>1
      <4>. HIDE DEF g, t, l
      <4>. QED
        BY <2>2, <4>1, <4>2, <4>3, <4>4
    <3>5. k <= i - 1 \/ k = i \/ k > i
      BY <1>2
    <3>. HIDE DEF g, t
    <3>. QED
      BY <3>2, <3>3, <3>4, <3>5
  <2>5. g = [k \in 0..n |-> g[k]]
    OBVIOUS
  <2>. HIDE DEF g, t
  <2>6. ASSUME NEW k \in 0..n PROVE g[k] = Link(g, << >>, Left(n), t, k)
    <3>1. CASE k = 0
      BY <2>3, <3>1 DEF Link
    <3>2. CASE k # 0
      <4>1. k \in 1..n /\ Left(n)[k]
        BY <1>2, <3>2 DEF Left
      <4>. QED
        BY <2>4, <3>2, <4>1 DEF Link
    <3>. QED
      BY <3>1, <3>2
  <2>7. g = [k \in 0..n |-> Link(g, << >>, Left(n), t, k)]
    BY <2>5, <2>6
  <2>. QED
    BY <2>7, Zenon DEF IsChain
<1>9. g[n] = q[n - i + 1]
  <2>1. ~(n <= i - 1) /\ n - (i - 1) = n - i + 1 /\ n \in 0..n
    BY <1>2
  <2>. QED
    BY <2>1
<1>10. verify_proof([OpProof(hashes, i - 1) EXCEPT !.hash = h]) <=> f[n] = q[n - i + 1]
  <2>1. i - 1 + 2 = i + 1
    BY <1>2
  <2>. DEFINE op == [OpProof(hashes, i - 1) EXCEPT !.hash = h]
  <2>2. /\ op.head = fold_head(hashes, << >>) /\ op.hash = h
        /\ op.prev_head = fold_head(a, << >>)
        /\ op.subsequent = SubSeq(hashes, i + 1, n)
    BY <2>1 DEF OpProof, a
  <2>. HIDE DEF op
  <2>3. verify_proof(op) <=> fold_head(hashes, << >>) = fold_head(b, fold_head(a, << >>))
    BY <2>2, Zenon DEF verify_proof, b
  <2>. QED
    BY <1>5, <1>6, <1>7, <2>3 DEF op
<1>. HIDE DEF g
<1>11. t[i] = h /\ \A k \in 1..n : k # i => t[k] = hashes[k]
  OBVIOUS
<1>. HIDE DEF t
<1>12. ASSUME f[n] = g[n] PROVE hashes[i] = h
  BY <1>2, <1>5, <1>8, <1>11, <1>12, ChainCommits
<1>13. ASSUME hashes[i] = h PROVE f[n] = g[n]
  <2>1. \A k \in 1..n : hashes[k] = t[k]
    BY <1>11, <1>13
  <2>. QED
    BY <1>2, <1>5, <1>8, <2>1, ChainIsUnique
<1>. QED
  BY <1>9, <1>10, <1>12, <1>13

\* A path leads to the root from one leaf only.
LEMMA OneLeafPerPath ==
  ASSUME NEW path, Len(path) \in Nat, NEW a, NEW b, NEW root, merkle_verify(a, path, root)
  PROVE  merkle_verify(b, path, root) <=> a = b
<1>. DEFINE n == Len(path)
<1>1. PICK f : IsChain(f, n, a, PathSides(path), Siblings(path)) /\ (merkle_verify(a, path, root) <=> root = f[n])
  BY VerifyIsChain
<1>2. PICK g : IsChain(g, n, b, PathSides(path), Siblings(path)) /\ (merkle_verify(b, path, root) <=> root = g[n])
  BY VerifyIsChain
<1>. HIDE DEF n
<1>3. root = f[n]
  BY <1>1
<1>4. ASSUME root = g[n] PROVE a = b
  <2>1. f[n] = g[n] /\ n \in Nat
    BY <1>3, <1>4 DEF n
  <2>. QED
    BY <1>1, <1>2, <2>1, ChainCommits
<1>5. ASSUME a = b PROVE root = g[n]
  BY <1>1, <1>2, <1>3, <1>5, ChainIsUnique DEF n
<1>. QED
  BY <1>2, <1>4, <1>5

-----------------------------------------------------------------------------
(* Merkle trees.                                                            *)

\* A node's parent is the pair of the node and the sibling that a path names.
LEMMA AboveFacts ==
  ASSUME NEW level, IsSequence(level), Len(level) >= 1
  PROVE  /\ IsSequence(Above(level)) /\ Len(Above(level)) = (Len(level) + 1) \div 2
         /\ \A i \in 0..(Len(level) - 1) :
              Above(level)[i \div 2 + 1] =
                IF i % 2 = 1 THEN << level[i], level[i + 1] >>
                ELSE << level[i + 1], IF i + 2 <= Len(level) THEN level[i + 2] ELSE level[i + 1] >>
<1>. DEFINE n == Len(level)
            m == (n + 1) \div 2
            Node(i) == << level[2 * i - 1], IF 2 * i <= n THEN level[2 * i] ELSE level[2 * i - 1] >>
<1>1. n \in Nat /\ n >= 1
  BY SequenceIsFunction
<1>. HIDE DEF n
<1>2. m \in Nat
  BY <1>1
<1>3. Above(level) = [i \in 1..m |-> Node(i)]
  BY Zenon DEF Above, n
<1>. HIDE DEF m, Node
<1>4. IsSequence(Above(level)) /\ Len(Above(level)) = m
  <2>1. Above(level) = [i \in 1..m |-> Above(level)[i]]
    BY <1>3
  <2>. QED
    BY <1>2, <2>1, FunctionIsSequence
<1>5. ASSUME NEW i \in 0..(n - 1)
      PROVE  Above(level)[i \div 2 + 1] =
                IF i % 2 = 1 THEN << level[i], level[i + 1] >>
                ELSE << level[i + 1], IF i + 2 <= n THEN level[i + 2] ELSE level[i + 1] >>
  <2>. DEFINE k == i \div 2 + 1
  <2>1. k \in 1..m
    BY <1>1 DEF m
  <2>2. Above(level)[k] = Node(k)
    BY <1>3, <2>1
  <2>3. CASE i % 2 = 1
    <3>1. 2 * k - 1 = i /\ 2 * k = i + 1 /\ 2 * k <= n
      BY <1>1, <2>3
    <3>. HIDE DEF k
    <3>. QED
      BY <2>2, <2>3, <3>1, Zenon DEF Node, k
  <2>4. CASE i % 2 # 1
    <3>1. 2 * k - 1 = i + 1 /\ 2 * k = i + 2
      BY <1>1, <2>4
    <3>. HIDE DEF k
    <3>. QED
      BY <2>2, <2>4, <3>1, Zenon DEF Node, k
  <2>. QED
    BY <2>3, <2>4
<1>. QED
  BY <1>4, <1>5 DEF n, m

\* One level more, unless the last one is the root alone.
Grow(levels) == IF Len(Last(levels)) = 1 THEN levels ELSE Append(levels, Above(Last(levels)))

\* The function by which the levels are defined exists.
LEMMA LevelsRecursion ==
  ASSUME NEW leaves, Len(leaves) \in Nat
  PROVE  \E f : /\ Levels(leaves) = f[Len(leaves)]
                /\ \A i \in 1..Len(leaves) : f[i] = IF i = 1 THEN << leaves >> ELSE Grow(f[i - 1])
<1>. DEFINE n == Len(leaves)
            Up(f, i) == IF i = 1 THEN << leaves >> ELSE Grow(f[i - 1])
            Bad == {k \in 0..n : ~ \E f : f = [i \in 1..k |-> Up(f, i)]}
            m   == Min(Bad)
<1>0. n \in Nat
  OBVIOUS
<1>1. Bad = {}
  <2>. SUFFICES ASSUME Bad # {} PROVE FALSE
    OBVIOUS
  <2>1. m \in Bad /\ \A j \in Bad : m <= j
    <3>1. Bad \subseteq Nat
      BY <1>0
    <3>. HIDE DEF Bad
    <3>. QED
      BY <3>1, MinOfNaturals
  <2>. HIDE DEF m
  <2>2. m # 0
    <3>. DEFINE e == [i \in 1..0 |-> 0]
    <3>1. e = [i \in 1..0 |-> Up(e, i)]
      OBVIOUS
    <3>. HIDE DEF n, e, Up
    <3>2. 0 \notin Bad
      BY <3>1
    <3>. QED
      BY <2>1, <3>2
  <2>3. m \in 1..n /\ m - 1 \in 0..n /\ m - 1 \notin Bad
    <3>1. m \in 0..n
      BY <2>1
    <3>. HIDE DEF Bad
    <3>. QED
      BY <1>0, <2>1, <2>2, <3>1
  <2>4. PICK f : f = [i \in 1..(m - 1) |-> Up(f, i)]
    BY <2>3, Zenon
  <2>. DEFINE g == [i \in 1..m |-> IF i = m THEN Up(f, i) ELSE f[i]]
  <2>5. ASSUME NEW i \in 1..m PROVE Up(g, i) = Up(f, i)
    <3>1. CASE i = 1
      BY <3>1
    <3>2. CASE i # 1
      <4>1. i - 1 \in 1..m /\ i - 1 # m
        BY <2>3, <3>2
      <4>2. g[i - 1] = f[i - 1]
        <5>. HIDE DEF Up
        <5>. QED
          BY <4>1
      <4>. HIDE DEF g
      <4>. QED
        BY <4>2, Zenon
    <3>. QED
      BY <3>1, <3>2
  <2>. HIDE DEF Up
  <2>6. ASSUME NEW i \in 1..m PROVE g[i] = Up(f, i)
    <3>1. CASE i = m
      BY <3>1
    <3>2. CASE i # m
      <4>1. i \in 1..(m - 1)
        BY <2>3, <3>2
      <4>2. f[i] = Up(f, i)
        BY <2>4, <4>1, Zenon
      <4>. QED
        BY <3>2, <4>2
    <3>. QED
      BY <3>1, <3>2
  <2>7. g = [i \in 1..m |-> g[i]]
    OBVIOUS
  <2>. HIDE DEF g
  <2>8. g = [i \in 1..m |-> Up(g, i)]
    BY <2>5, <2>6, <2>7
  <2>9. m \notin Bad
    BY <2>8
  <2>. QED
    BY <2>1, <2>9
<1>2. PICK f : f = [i \in 1..n |-> Up(f, i)]
  <2>1. n \in 0..n /\ ~(n \in Bad)
    BY <1>0, <1>1
  <2>. HIDE DEF n, Up
  <2>. QED
    BY <2>1
<1>. DEFINE F == CHOOSE h : h = [i \in 1..n |-> Up(h, i)]
<1>3. F = [i \in 1..n |-> Up(F, i)]
  BY <1>2, Zenon
<1>4. Levels(leaves) = F[n]
  BY Zenon DEF Levels, Grow
<1>. HIDE DEF F
<1>5. \A i \in 1..n : F[i] = Up(F, i)
  <2>. HIDE DEF Up
  <2>. QED
    BY <1>3, Zenon
<1>. QED
  BY <1>4, <1>5, Zenon

\* Every level is above the one before it, from the leaves on.
Tower(levels, leaves) ==
  /\ IsSequence(levels) /\ Len(levels) >= 1 /\ levels[1] = leaves
  /\ \A n \in 1..Len(levels) : IsSequence(levels[n]) /\ Len(levels[n]) >= 1
  /\ \A n \in 1..(Len(levels) - 1) : levels[n + 1] = Above(levels[n])

\* One level more keeps the tower, and halves the last level.
LEMMA GrowKeepsTower ==
  ASSUME NEW leaves, NEW levels, Tower(levels, leaves)
  PROVE  /\ Tower(Grow(levels), leaves)
         /\ Len(Last(Grow(levels))) = IF Len(Last(levels)) = 1 THEN 1 ELSE (Len(Last(levels)) + 1) \div 2
<1>. DEFINE n == Len(levels)
            t == levels[n]
            e == Append(levels, Above(t))
<1>1. n \in Nat /\ n >= 1 /\ IsSequence(levels)
  BY SequenceIsFunction DEF Tower
<1>2. Last(levels) = t
  BY DEF Last
<1>3. IsSequence(t) /\ Len(t) >= 1 /\ Len(t) \in Nat
  <2>1. IsSequence(t) /\ Len(t) >= 1
    BY <1>1 DEF Tower
  <2>. QED
    BY <2>1, SequenceIsFunction
<1>4. CASE Len(t) = 1
  BY <1>2, <1>4 DEF Grow
<1>5. CASE Len(t) # 1
  <2>1. Grow(levels) = e
    BY <1>2, <1>5 DEF Grow
  <2>2. /\ IsSequence(e) /\ Len(e) = n + 1 /\ e[n + 1] = Above(t)
        /\ \A i \in 1..n : e[i] = levels[i]
    BY <1>1, AppendToSequence
  <2>3. IsSequence(Above(t)) /\ Len(Above(t)) = (Len(t) + 1) \div 2
    BY <1>3, AboveFacts
  <2>4. Len(Above(t)) >= 1
    <3>. DEFINE l == Len(t)
    <3>1. l \in Nat /\ l >= 1 /\ Len(Above(t)) = (l + 1) \div 2
      BY <1>3, <2>3
    <3>. HIDE DEF l, t
    <3>2. (l + 1) \div 2 >= 1
      BY <3>1
    <3>. QED
      BY <3>1, <3>2
  <2>. HIDE DEF e
  <2>5. Last(e) = Above(t)
    BY <2>2 DEF Last
  <2>6. e[1] = leaves
    BY <1>1, <2>2 DEF Tower
  <2>7. ASSUME NEW k \in 1..(n + 1) PROVE IsSequence(e[k]) /\ Len(e[k]) >= 1
    <3>1. CASE k = n + 1
      BY <2>2, <2>3, <2>4, <3>1
    <3>2. CASE k # n + 1
      <4>1. k \in 1..n
        BY <1>1, <3>2
      <4>. QED
        BY <2>2, <4>1 DEF Tower
    <3>. QED
      BY <3>1, <3>2
  <2>8. ASSUME NEW k \in 1..n PROVE e[k + 1] = Above(e[k])
    <3>1. CASE k = n
      BY <2>2, <3>1
    <3>2. CASE k # n
      <4>1. k \in 1..(n - 1) /\ k + 1 \in 1..n
        BY <1>1, <3>2
      <4>2. levels[k + 1] = Above(levels[k])
        BY <4>1 DEF Tower
      <4>3. e[k + 1] = levels[k + 1] /\ e[k] = levels[k]
        BY <2>2, <4>1
      <4>. QED
        BY <4>2, <4>3, Zenon
    <3>. QED
      BY <3>1, <3>2
  <2>9. Len(e) >= 1 /\ Len(e) - 1 = n
    BY <1>1, <2>2
  <2>10. Tower(e, leaves)
    BY <2>2, <2>6, <2>7, <2>8, <2>9 DEF Tower
  <2>. QED
    BY <1>2, <1>5, <2>1, <2>3, <2>5, <2>10
<1>. QED
  BY <1>4, <1>5

\* The tree over one leaf or more ends in its root.
LEMMA LevelsTower ==
  ASSUME NEW leaves, IsSequence(leaves), Len(leaves) >= 1
  PROVE  Tower(Levels(leaves), leaves) /\ Len(Last(Levels(leaves))) = 1
<1>. DEFINE n == Len(leaves)
<1>0. n \in Nat /\ n >= 1
  BY SequenceIsFunction
<1>1. PICK f : /\ Levels(leaves) = f[n]
               /\ \A i \in 1..n : f[i] = IF i = 1 THEN << leaves >> ELSE Grow(f[i - 1])
  BY <1>0, LevelsRecursion
<1>. HIDE DEF n
<1>. DEFINE Good(i) == Tower(f[i], leaves) /\ (Len(Last(f[i])) = 1 \/ Len(Last(f[i])) <= n - i + 1)
            Bad == {i \in 1..n : ~Good(i)}
            m   == Min(Bad)
<1>2. Good(1)
  <2>1. f[1] = << leaves >>
    BY <1>0, <1>1
  <2>2. IsSequence(<< leaves >>) /\ Len(<< leaves >>) = 1 /\ << leaves >>[1] = leaves
    <3>1. << leaves >> \in Seq({leaves})
      OBVIOUS
    <3>. QED
      BY <3>1 DEF IsSequence
  <2>3. Last(f[1]) = leaves
    BY <2>1, <2>2 DEF Last
  <2>4. Tower(f[1], leaves)
    <3>1. \A k \in 1..1 : k = 1
      OBVIOUS
    <3>2. 1..(1 - 1) = {}
      OBVIOUS
    <3>. QED
      BY <2>1, <2>2, <3>1, <3>2 DEF Tower
  <2>. QED
    BY <1>0, <2>3, <2>4 DEF n
<1>3. Bad = {}
  <2>. SUFFICES ASSUME Bad # {} PROVE FALSE
    OBVIOUS
  <2>1. m \in Bad /\ \A j \in Bad : m <= j
    <3>1. Bad \subseteq Nat
      BY <1>0
    <3>. HIDE DEF Bad
    <3>. QED
      BY <3>1, MinOfNaturals
  <2>. HIDE DEF m
  <2>2. m \in 2..n /\ m - 1 \in 1..n /\ m \in Int
    <3>1. m \in 1..n /\ m # 1
      BY <1>2, <2>1
    <3>. QED
      BY <1>0, <3>1
  <2>3. Good(m - 1)
    <3>1. m - 1 \notin Bad
      <4>. HIDE DEF Bad
      <4>. QED
        BY <2>1, <2>2
    <3>. HIDE DEF Good
    <3>. QED
      BY <2>2, <3>1
  <2>4. f[m] = Grow(f[m - 1])
    <3>1. m \in 1..n /\ m # 1
      BY <2>2
    <3>. QED
      BY <1>1, <3>1
  <2>. DEFINE l == Len(Last(f[m - 1]))
  <2>5. Tower(f[m], leaves) /\ Len(Last(f[m])) = IF l = 1 THEN 1 ELSE (l + 1) \div 2
    BY <2>3, <2>4, GrowKeepsTower
  <2>6. l \in Nat /\ l >= 1
    <3>1. IsSequence(f[m - 1]) /\ Len(f[m - 1]) >= 1
      BY <2>3 DEF Tower
    <3>2. Len(f[m - 1]) \in 1..Len(f[m - 1])
      BY <3>1, SequenceIsFunction
    <3>3. IsSequence(Last(f[m - 1])) /\ l >= 1
      BY <2>3, <3>2 DEF Tower, Last
    <3>. QED
      BY <3>3, SequenceIsFunction
  <2>7. l = 1 \/ l <= n - (m - 1) + 1
    BY <2>3
  <2>. HIDE DEF l
  <2>8. l # 1 => (l + 1) \div 2 <= n - m + 1
    BY <1>0, <2>2, <2>6, <2>7
  <2>9. Good(m)
    BY <2>5, <2>8
  <2>. QED
    BY <2>1, <2>9
<1>4. Good(n)
  <2>. HIDE DEF Good
  <2>. QED
    BY <1>0, <1>3
<1>5. Len(Last(f[n])) = 1
  <2>1. IsSequence(f[n]) /\ Len(f[n]) >= 1
    BY <1>4 DEF Tower
  <2>2. Len(f[n]) \in 1..Len(f[n])
    BY <2>1, SequenceIsFunction
  <2>3. IsSequence(Last(f[n])) /\ Len(Last(f[n])) >= 1
    BY <1>4, <2>2 DEF Tower, Last
  <2>4. Len(Last(f[n])) \in Nat /\ n - n + 1 = 1
    BY <1>0, <2>3, SequenceIsFunction
  <2>5. Len(Last(f[n])) = 1 \/ Len(Last(f[n])) <= n - n + 1
    BY <1>4
  <2>. DEFINE l == Len(Last(f[n]))
  <2>6. l \in Nat /\ l >= 1 /\ (l = 1 \/ l <= 1)
    <3>. HIDE DEF Good, Bad, l
    <3>1. l \in Nat /\ l >= 1 /\ (l = 1 \/ l <= n - n + 1)
      BY <2>3, <2>4, <2>5, Zenon DEF l
    <3>. QED
      BY <2>4, <3>1
  <2>7. l = 1
    <3>. HIDE DEF Good, Bad, l
    <3>. QED
      BY <2>6
  <2>. QED
    BY <2>7
<1>. QED
  BY <1>1, <1>4, <1>5

\* The sibling of the node with index i (counted from 0), and its side.
Sibling(level, i) ==
  IF i % 2 = 1 THEN [sib |-> level[i], side |-> "L"]
  ELSE [sib |-> IF i + 2 <= Len(level) THEN level[i + 2] ELSE level[i + 1], side |-> "R"]

\* at has the index of the node at every level, and the proof the siblings of these nodes.
Follows(at, leaves, idx) ==
  /\ \A n \in 1..Len(Levels(leaves)) : at[n] = IF n = 1 THEN idx ELSE at[n - 1] \div 2
  /\ merkle_proof(leaves, idx) =
       [n \in 1..(Len(Levels(leaves)) - 1) |-> Sibling(Levels(leaves)[n], at[n])]

\* The function that halves the index exists.
LEMMA ProofRecursion ==
  ASSUME NEW leaves, NEW idx, Len(Levels(leaves)) \in Nat
  PROVE  \E at : Follows(at, leaves, idx)
<1>. DEFINE levels == Levels(leaves)
            n == Len(levels)
            Half(f, i) == IF i = 1 THEN idx ELSE f[i - 1] \div 2
            Bad == {k \in 0..n : ~ \E f : f = [i \in 1..k |-> Half(f, i)]}
            m   == Min(Bad)
<1>0. n \in Nat
  OBVIOUS
<1>1. Bad = {}
  <2>. SUFFICES ASSUME Bad # {} PROVE FALSE
    OBVIOUS
  <2>1. m \in Bad /\ \A j \in Bad : m <= j
    <3>1. Bad \subseteq Nat
      BY <1>0
    <3>. HIDE DEF Bad
    <3>. QED
      BY <3>1, MinOfNaturals
  <2>. HIDE DEF m, n
  <2>2. m # 0
    <3>. DEFINE e == [i \in 1..0 |-> 0]
    <3>1. e = [i \in 1..0 |-> Half(e, i)]
      OBVIOUS
    <3>. HIDE DEF e, Half
    <3>2. 0 \notin Bad
      BY <3>1
    <3>. QED
      BY <2>1, <3>2
  <2>3. m \in 1..n /\ m - 1 \in 0..n /\ m - 1 \notin Bad
    <3>1. m \in 0..n
      BY <2>1
    <3>. HIDE DEF Bad
    <3>. QED
      BY <1>0, <2>1, <2>2, <3>1
  <2>4. PICK f : f = [i \in 1..(m - 1) |-> Half(f, i)]
    BY <2>3, Zenon
  <2>. DEFINE g == [i \in 1..m |-> IF i = m THEN Half(f, i) ELSE f[i]]
  <2>5. ASSUME NEW i \in 1..m PROVE Half(g, i) = Half(f, i)
    <3>1. CASE i = 1
      BY <3>1
    <3>2. CASE i # 1
      <4>1. i - 1 \in 1..m /\ i - 1 # m
        BY <2>3, <3>2
      <4>2. g[i - 1] = f[i - 1]
        <5>. HIDE DEF Half
        <5>. QED
          BY <4>1
      <4>. HIDE DEF g
      <4>. QED
        BY <4>2, Zenon
    <3>. QED
      BY <3>1, <3>2
  <2>. HIDE DEF Half
  <2>6. ASSUME NEW i \in 1..m PROVE g[i] = Half(f, i)
    <3>1. CASE i = m
      BY <3>1
    <3>2. CASE i # m
      <4>1. i \in 1..(m - 1)
        BY <2>3, <3>2
      <4>2. f[i] = Half(f, i)
        BY <2>4, <4>1, Zenon
      <4>. QED
        BY <3>2, <4>2
    <3>. QED
      BY <3>1, <3>2
  <2>7. g = [i \in 1..m |-> g[i]]
    OBVIOUS
  <2>. HIDE DEF g
  <2>8. g = [i \in 1..m |-> Half(g, i)]
    BY <2>5, <2>6, <2>7
  <2>9. m \notin Bad
    BY <2>8
  <2>. QED
    BY <2>1, <2>9
<1>2. PICK f : f = [i \in 1..n |-> Half(f, i)]
  <2>1. n \in 0..n /\ ~(n \in Bad)
    BY <1>0, <1>1
  <2>. HIDE DEF n, Half
  <2>. QED
    BY <2>1
<1>. DEFINE At == CHOOSE h : h = [i \in 1..n |-> Half(h, i)]
<1>3. At = [i \in 1..n |-> Half(At, i)]
  BY <1>2, Zenon
<1>4. merkle_proof(leaves, idx) = [i \in 1..(n - 1) |-> Sibling(levels[i], At[i])]
  BY Zenon DEF merkle_proof, Sibling
<1>. HIDE DEF At
<1>5. \A i \in 1..n : At[i] = Half(At, i)
  <2>. HIDE DEF Half, n
  <2>. QED
    BY <1>3, Zenon
<1>. QED
  BY <1>4, <1>5, Zenon DEF Follows

\* The path of every leaf leads to the root of the tree.
LEMMA ProofVerifies ==
  ASSUME NEW leaves, IsSequence(leaves), NEW i \in 1..Len(leaves)
  PROVE  LET path == merkle_proof(leaves, i - 1) IN
         Len(path) \in Nat /\ merkle_verify(leaves[i], path, merkle_root(leaves))
<1>. DEFINE levels == Levels(leaves)
            path == merkle_proof(leaves, i - 1)
            k == Len(levels)
<1>1. i \in Nat /\ i >= 1 /\ Len(leaves) \in Nat /\ Len(leaves) >= 1 /\ i <= Len(leaves)
  BY SequenceIsFunction
<1>2. Tower(levels, leaves) /\ Len(Last(levels)) = 1
  BY <1>1, LevelsTower
<1>3. k \in Nat /\ k >= 1
  BY <1>2, SequenceIsFunction DEF Tower
<1>4. PICK at : /\ \A n \in 1..k : at[n] = IF n = 1 THEN i - 1 ELSE at[n - 1] \div 2
                /\ path = [n \in 1..(k - 1) |-> Sibling(levels[n], at[n])]
  <2>1. Len(Levels(leaves)) \in Nat
    BY <1>3
  <2>2. PICK at : Follows(at, leaves, i - 1)
    BY <2>1, ProofRecursion
  <2>. QED
    BY <2>2, Zenon DEF Follows
<1>. HIDE DEF path, levels, k
<1>5. Len(path) = k - 1
  <2>1. path = [n \in 1..(k - 1) |-> path[n]] /\ k - 1 \in Nat
    BY <1>3, <1>4
  <2>. QED
    BY <2>1, FunctionIsSequence
<1>6. PICK f : /\ IsChain(f, k - 1, leaves[i], PathSides(path), Siblings(path))
               /\ merkle_verify(leaves[i], path, merkle_root(leaves)) <=> merkle_root(leaves) = f[k - 1]
  <2>1. Len(path) \in Nat
    BY <1>3, <1>5
  <2>. QED
    BY <1>5, <2>1, VerifyIsChain
<1>7. /\ f[0] = leaves[i]
      /\ \A n \in 1..(k - 1) : f[n] = IF PathSides(path)[n] THEN << f[n - 1], Siblings(path)[n] >>
                                      ELSE << Siblings(path)[n], f[n - 1] >>
  <2>1. k - 1 \in Nat /\ IsChain(f, k - 1, leaves[i], PathSides(path), Siblings(path))
    BY <1>3, <1>6
  <2>. DEFINE n == k - 1
              l == PathSides(path)
              s == Siblings(path)
              x == leaves[i]
  <2>. HIDE DEF n, l, s, x
  <2>2. n \in Nat /\ IsChain(f, n, x, l, s)
    BY <2>1, Zenon DEF n, l, s, x
  <2>3. f[0] = x
    BY <2>2, ChainLinks
  <2>4. \A m \in 1..n : f[m] = IF l[m] THEN << f[m - 1], s[m] >> ELSE << s[m], f[m - 1] >>
    BY <2>2, ChainLinks
  <2>. QED
    BY <2>3, <2>4, Zenon DEF n, l, s, x
<1>. DEFINE Good(n) == at[n] \in 0..(Len(levels[n]) - 1) /\ f[n - 1] = levels[n][at[n] + 1]
            Bad == {n \in 1..k : ~Good(n)}
            m   == Min(Bad)
<1>8. Good(1)
  <2>1. levels[1] = leaves
    BY <1>2 DEF Tower
  <2>2. at[1] = i - 1
    BY <1>3, <1>4
  <2>3. i - 1 \in 0..(Len(leaves) - 1) /\ i - 1 + 1 = i /\ 1 - 1 = 0
    BY <1>1
  <2>. QED
    BY <1>7, <2>1, <2>2, <2>3
<1>9. ASSUME NEW n \in 1..(k - 1), Good(n) PROVE Good(n + 1)
  <2>. DEFINE level == levels[n]
              l == Len(level)
              a == at[n]
  <2>1. n \in 1..k /\ n + 1 \in 1..k /\ n + 1 # 1 /\ n + 1 - 1 = n
    BY <1>3
  <2>2. IsSequence(level) /\ l >= 1 /\ l \in Nat
    <3>1. IsSequence(level) /\ l >= 1
      BY <1>2, <2>1 DEF Tower, k
    <3>. QED
      BY <3>1, SequenceIsFunction
  <2>3. levels[n + 1] = Above(level)
    BY <1>2 DEF Tower, k
  <2>4. at[n + 1] = a \div 2
    BY <1>4, <2>1
  <2>5. a \in 0..(l - 1) /\ f[n - 1] = level[a + 1]
    BY <1>9
  <2>6. /\ Len(Above(level)) = (l + 1) \div 2
        /\ Above(level)[a \div 2 + 1] =
             IF a % 2 = 1 THEN << level[a], level[a + 1] >>
             ELSE << level[a + 1], IF a + 2 <= l THEN level[a + 2] ELSE level[a + 1] >>
    BY <2>2, <2>5, AboveFacts
  <2>7. /\ PathSides(path)[n] = (path[n].side = "R")
        /\ Siblings(path)[n] = path[n].sib
        /\ path[n] = Sibling(level, a)
    BY <1>4, <1>5 DEF PathSides, Siblings
  <2>8. f[n] = IF PathSides(path)[n] THEN << f[n - 1], Siblings(path)[n] >>
               ELSE << Siblings(path)[n], f[n - 1] >>
    BY <1>7
  <2>. HIDE DEF level, l, a
  <2>9. f[n] = Above(level)[a \div 2 + 1]
    <3>1. CASE a % 2 = 1
      <4>1. path[n].side = "L" /\ path[n].sib = level[a]
        BY <2>7, <3>1 DEF Sibling
      <4>2. ~PathSides(path)[n] /\ Siblings(path)[n] = level[a]
        BY <2>7, <4>1
      <4>. QED
        BY <2>5, <2>6, <2>8, <3>1, <4>2, Zenon
    <3>2. CASE a % 2 # 1
      <4>. DEFINE sib == IF a + 2 <= l THEN level[a + 2] ELSE level[a + 1]
      <4>0. path[n] = [sib |-> sib, side |-> "R"]
        BY <2>7, <3>2, Zenon DEF Sibling, l
      <4>. HIDE DEF sib
      <4>1. path[n].side = "R" /\ path[n].sib = sib
        BY <4>0
      <4>2. PathSides(path)[n] /\ Siblings(path)[n] = IF a + 2 <= l THEN level[a + 2] ELSE level[a + 1]
        BY <2>7, <4>1, Zenon DEF sib
      <4>. QED
        BY <2>5, <2>6, <2>8, <3>2, <4>2, Zenon
    <3>. QED
      BY <3>1, <3>2
  <2>10. a \div 2 \in 0..((l + 1) \div 2 - 1)
    BY <2>2, <2>5
  <2>. QED
    BY <2>1, <2>3, <2>4, <2>6, <2>9, <2>10
<1>. HIDE DEF Good
<1>10. Bad = {}
  <2>. SUFFICES ASSUME Bad # {} PROVE FALSE
    OBVIOUS
  <2>1. m \in Bad /\ \A j \in Bad : m <= j
    <3>1. Bad \subseteq Nat
      BY <1>3
    <3>. HIDE DEF Bad
    <3>. QED
      BY <3>1, MinOfNaturals
  <2>. HIDE DEF m
  <2>2. m \in 1..k /\ m # 1 /\ ~Good(m)
    BY <1>8, <2>1
  <2>3. m - 1 \in 1..(k - 1) /\ m - 1 \in 1..k /\ m - 1 + 1 = m
    BY <1>3, <2>2
  <2>4. m - 1 \notin Bad
    <3>. HIDE DEF Bad
    <3>. QED
      BY <2>1, <2>3
  <2>5. Good(m - 1)
    BY <2>3, <2>4
  <2>6. Good(m - 1 + 1)
    BY <1>9, <2>3, <2>5
  <2>. QED
    BY <2>2, <2>3, <2>6
<1>11. f[k - 1] = merkle_root(leaves)
  <2>1. Good(k)
    BY <1>3, <1>10
  <2>2. Len(levels[k]) = 1
    BY <1>2 DEF Last, k
  <2>3. at[k] \in 0..(1 - 1) /\ f[k - 1] = levels[k][at[k] + 1]
    BY <2>1, <2>2 DEF Good
  <2>4. at[k] = 0 /\ at[k] + 1 = 1
    BY <2>3
  <2>5. leaves # << >>
    BY <1>1, EmptySeq
  <2>6. merkle_root(leaves) = levels[k][1]
    BY <2>5 DEF merkle_root, Last, k, levels
  <2>. QED
    BY <2>3, <2>4, <2>6
<1>. QED
  BY <1>3, <1>5, <1>6, <1>11 DEF path

-----------------------------------------------------------------------------
(* What the proofs prove.                                                   *)

\* The ops of the log and of the session are numbered from 0 on, and are as many.
Numbered ==
  /\ IsSequence(aof) /\ \A i \in 1..Len(aof) : aof[i].op.seq = i - 1
  /\ IsSequence(ops) /\ \A i \in 1..Len(ops) : ops[i].seq = i - 1
  /\ Loaded => Len(ops) = Len(aof)
  /\ mode = "heal" => /\ IsSequence(temps.aof) /\ Len(temps.aof) = Len(ops)
                      /\ \A i \in 1..Len(temps.aof) : temps.aof[i].op.seq = i - 1

\* A version is a sequence of chunks.
Chunked(fs) == Recipes(fs) /\ \A name \in Names : \A v \in 1..Len(fs[name]) : IsSequence(fs[name][v])

Versions == Chunked(files) /\ \A s \in Snapshots : Chunked(s.files)

\* _load reads the lines of the file from the first one on.
LEMMA ReadablePrefix ==
  ASSUME IsSequence(aof)
  PROVE  /\ IsSequence(Readable) /\ Len(Readable) \in 0..Len(aof)
         /\ \A i \in 1..Len(Readable) : Readable[i] = aof[i]
<1>. DEFINE Bad == {i \in 1..Len(aof) : ~Reads(aof[i])}
            P(n) == (\A i \in 1..n : Reads(aof[i])) /\ (n < Len(aof) => ~Reads(aof[n + 1]))
            m == CHOOSE n \in 0..Len(aof) : P(n)
            x == Min(Bad)
<1>1. Len(aof) \in Nat
  BY SequenceIsFunction
<1>2. \E n \in 0..Len(aof) : P(n)
  <2>1. CASE Bad = {}
    <3>1. P(Len(aof)) /\ Len(aof) \in 0..Len(aof)
      BY <1>1, <2>1
    <3>. QED
      BY <3>1
  <2>2. CASE Bad # {}
    <3>1. x \in Bad /\ \A y \in Bad : x <= y
      <4>1. Bad \subseteq Nat
        BY <1>1
      <4>. HIDE DEF Bad
      <4>. QED
        BY <2>2, <4>1, MinOfNaturals
    <3>. HIDE DEF x
    <3>2. \A y \in Bad : ~(y < x)
      BY <1>1, <3>1
    <3>3. P(x - 1) /\ x - 1 \in 0..Len(aof)
      BY <1>1, <3>1, <3>2
    <3>. QED
      BY <3>3
  <2>. QED
    BY <2>1, <2>2
<1>3. m \in 0..Len(aof)
  <2>. HIDE DEF P
  <2>. QED
    BY <1>2
<1>4. Readable = SubSeq(aof, 1, m)
  BY DEF Readable
<1>5. PICK S : aof \in Seq(S)
  BY DEF IsSequence
<1>. HIDE DEF m
<1>6. \A i \in 1..m : aof[i] \in S
  BY <1>1, <1>3, <1>5, ElementOfSeq
<1>7. SubSeq(aof, 1, m) \in Seq(S) /\ Len(SubSeq(aof, 1, m)) = m
  BY <1>1, <1>3, <1>6, SubSeqProperties
<1>8. ASSUME NEW i \in 1..m PROVE SubSeq(aof, 1, m)[i] = aof[i]
  <2>1. m \in Int /\ i \in 1..(m - 1 + 1) /\ 1 + i - 1 = i
    BY <1>1, <1>3
  <2>2. SubSeq(aof, 1, m)[i] = aof[1 + i - 1]
    BY <1>6, <2>1, SubSeqProperties
  <2>. QED
    BY <2>1, <2>2, Zenon
<1>. QED
  BY <1>3, <1>4, <1>7, <1>8 DEF IsSequence

\* The ops of lines, and the lines that ops are encoded to.
LEMMA OpsOfLines ==
  ASSUME NEW lines, IsSequence(lines)
  PROVE  /\ IsSequence(OpsOf(lines)) /\ Len(OpsOf(lines)) = Len(lines)
         /\ \A i \in 1..Len(lines) : OpsOf(lines)[i] = lines[i].op
<1>1. Len(lines) \in Nat /\ DOMAIN lines = 1..Len(lines)
  BY SequenceIsFunction
<1>2. OpsOf(lines) = [i \in 1..Len(lines) |-> lines[i].op]
  BY <1>1 DEF OpsOf
<1>3. OpsOf(lines) = [i \in 1..Len(lines) |-> OpsOf(lines)[i]]
  BY <1>2
<1>. QED
  BY <1>1, <1>2, <1>3, FunctionIsSequence

\* A line has the op that was encoded to it.
LEMMA EncodedOps ==
  ASSUME NEW os, IsSequence(os)
  PROVE  /\ IsSequence(Encoded(os)) /\ Len(Encoded(os)) = Len(os)
         /\ \A i \in 1..Len(os) : Encoded(os)[i].op = os[i]
<1>1. Len(os) \in Nat /\ DOMAIN os = 1..Len(os)
  BY SequenceIsFunction
<1>2. Encoded(os) = [i \in 1..Len(os) |-> [op |-> os[i], key |-> dek]]
  BY <1>1 DEF Encoded
<1>3. Encoded(os) = [i \in 1..Len(os) |-> Encoded(os)[i]]
  BY <1>2
<1>4. ASSUME NEW i \in 1..Len(os) PROVE Encoded(os)[i].op = os[i]
  <2>1. Encoded(os)[i] = [op |-> os[i], key |-> dek]
    BY <1>2
  <2>. QED
    BY <2>1
<1>. QED
  BY <1>1, <1>3, <1>4, FunctionIsSequence

\* An op gets the next number.
LEMMA AppendKeepsNumbers ==
  ASSUME Numbered, NEW op, LogAppend(op), op.seq = Len(ops), mode' # "heal"
  PROVE  Numbered'
<1>. DEFINE line == [op |-> op, key |-> dek]
            n == Len(aof)
<1>1. /\ IsSequence(aof) /\ IsSequence(ops) /\ Len(ops) = n /\ n \in Nat
      /\ ops' = Append(ops, op) /\ aof' = Append(aof, line)
  BY SequenceIsFunction DEF Numbered, LogAppend, Loaded
<1>2. line.op = op
  OBVIOUS
<1>. HIDE DEF line, n
<1>3. /\ IsSequence(aof') /\ Len(aof') = n + 1 /\ aof'[n + 1] = line
      /\ \A i \in 1..n : aof'[i] = aof[i]
  BY <1>1, AppendToSequence DEF n
<1>4. /\ IsSequence(ops') /\ Len(ops') = n + 1 /\ ops'[n + 1] = op
      /\ \A i \in 1..n : ops'[i] = ops[i]
  BY <1>1, AppendToSequence
<1>5. \A i \in 1..(n + 1) : i \in 1..n \/ i = n + 1
  BY <1>1
<1>6. n + 1 - 1 = n
  BY <1>1
<1>7. ASSUME NEW i \in 1..(n + 1) PROVE aof'[i].op.seq = i - 1 /\ ops'[i].seq = i - 1
  <2>1. CASE i \in 1..n
    BY <1>1, <1>3, <1>4, <2>1 DEF Numbered, n
  <2>2. CASE i = n + 1
    <3>1. aof'[i].op = op /\ ops'[i] = op /\ op.seq = i - 1
      BY <1>1, <1>2, <1>3, <1>4, <1>6, <2>2
    <3>. QED
      BY <3>1
  <2>. QED
    BY <1>5, <2>1, <2>2
<1>. QED
  BY <1>3, <1>4, <1>7 DEF Numbered

\* There is no op at first.
LEMMA InitNumbered == Init => Numbered
<1>1. IsSequence(<< >>) /\ Len(<< >>) = 0
  BY EmptySeq DEF IsSequence
<1>. QED
  BY <1>1 DEF Init, Numbered, Loaded

\* Every step keeps the numbers, the cut of an unreadable end included.
LEMMA NextNumbered ==
  ASSUME Temporary, Numbered, [Next]_vars
  PROVE  Numbered'
<1>0. IsSequence(<< >>) /\ Len(<< >>) = 0
  BY EmptySeq DEF IsSequence
<1>1. IsSequence(aof) /\ Len(aof) \in Nat
  BY SequenceIsFunction DEF Numbered
<1>2. ASSUME NEW os, IsSequence(os), Len(os) = Len(aof'), \A i \in 1..Len(os) : os[i] = aof'[i].op,
             IsSequence(aof'), \A i \in 1..Len(aof') : aof'[i].op.seq = i - 1,
             ops' = os, mode' # "heal"
      PROVE  Numbered'
  BY <1>2 DEF Numbered
<1>3. ASSUME NEW tmk \in TMKs \cup {NIL}, Open(tmk) PROVE Numbered'
  <2>1. UNCHANGED <<aof, ops>> /\ mode' \in {"down", "load"}
    BY <1>3 DEF Open, memory
  <2>. QED
    BY <2>1 DEF Numbered, Loaded
<1>4. CASE LoadFromSnapshot
  <2>1. UNCHANGED aof /\ mode' # "heal"
    BY <1>4 DEF LoadFromSnapshot, disk
  <2>2. CASE ops' = OpsOf(aof)
    <3>1. /\ IsSequence(OpsOf(aof)) /\ Len(OpsOf(aof)) = Len(aof)
          /\ \A i \in 1..Len(aof) : OpsOf(aof)[i] = aof[i].op
      BY <1>1, OpsOfLines
    <3>. QED
      BY <1>2, <2>1, <2>2, <3>1 DEF Numbered
  <2>3. CASE ops' = << >> /\ ~Loaded'
    BY <1>0, <2>1, <2>3 DEF Numbered
  <2>. QED
    BY <1>4, <2>2, <2>3 DEF LoadFromSnapshot, Stopped, Loaded
<1>5. CASE LoadFromLog
  <2>. DEFINE r == Readable
              os == OpsOf(r)
  <2>1. /\ IsSequence(r) /\ Len(r) \in 0..Len(aof)
        /\ \A i \in 1..Len(r) : r[i] = aof[i]
    BY <1>1, ReadablePrefix
  <2>2. /\ ops' = os /\ aof' = aof
        /\ Len(r) < Len(aof) => mode' = "heal" /\ temps' = [temps EXCEPT !.aof = Encoded(os)]
        /\ ~(Len(r) < Len(aof)) => mode' # "heal"
    BY <1>5 DEF LoadFromLog
  <2>. HIDE DEF r
  <2>3. IsSequence(os) /\ Len(os) = Len(r) /\ \A i \in 1..Len(r) : os[i] = r[i].op
    BY <2>1, OpsOfLines
  <2>. HIDE DEF os
  <2>4. CASE Len(r) < Len(aof)
    <3>1. /\ IsSequence(Encoded(os)) /\ Len(Encoded(os)) = Len(os)
          /\ \A i \in 1..Len(os) : Encoded(os)[i].op = os[i]
      BY <2>3, EncodedOps
    <3>2. temps'.aof = Encoded(os) /\ mode' = "heal"
      BY <2>2, <2>4 DEF Temporary
    <3>3. \A i \in 1..Len(r) : i \in 1..Len(aof)
      BY <1>1, <2>1
    <3>4. \A i \in 1..Len(r) : os[i].seq = i - 1
      BY <2>1, <2>3, <3>3 DEF Numbered
    <3>5. IsSequence(temps'.aof) /\ Len(temps'.aof) = Len(ops')
      BY <2>2, <3>1, <3>2
    <3>6. \A i \in 1..Len(temps'.aof) : temps'.aof[i].op.seq = i - 1
      BY <2>3, <3>1, <3>2, <3>4
    <3>7. IsSequence(ops') /\ \A i \in 1..Len(ops') : ops'[i].seq = i - 1
      BY <2>2, <2>3, <3>4
    <3>. QED
      BY <2>2, <3>2, <3>5, <3>6, <3>7 DEF Numbered, Loaded
  <2>5. CASE ~(Len(r) < Len(aof))
    <3>1. Len(r) = Len(aof) /\ aof' = aof /\ mode' # "heal"
      BY <1>1, <2>1, <2>2, <2>5
    <3>. QED
      BY <1>1, <1>2, <2>1, <2>2, <2>3, <3>1 DEF Numbered
  <2>. QED
    BY <2>4, <2>5
<1>6. CASE Backfill
  <2>1. UNCHANGED ops /\ Loaded /\ mode' # "heal"
    BY <1>6 DEF Backfill, memory, Loaded
  <2>2. CASE aof' = aof
    BY <2>1, <2>2 DEF Numbered
  <2>3. CASE aof' = Backfilled
    <3>1. /\ IsSequence(OpsOf(aof)) /\ Len(OpsOf(aof)) = Len(aof)
          /\ \A i \in 1..Len(aof) : OpsOf(aof)[i] = aof[i].op
      BY <1>1, OpsOfLines
    <3>2. /\ IsSequence(aof') /\ Len(aof') = Len(aof)
          /\ \A i \in 1..Len(aof) : aof'[i].op = OpsOf(aof)[i]
      BY <2>3, <3>1, EncodedOps DEF Backfilled
    <3>. QED
      BY <2>1, <3>1, <3>2 DEF Numbered
  <2>. QED
    BY <1>6, <2>2, <2>3 DEF Backfill
<1>7. CASE Unsnap
  BY <1>7 DEF Unsnap, memory, Numbered, Loaded
<1>8. CASE Put
  <2>1. Op("put", NIL, 0, << >>).seq = Len(ops)
    BY DEF Op
  <2>. QED
    BY <1>8, <2>1, AppendKeepsNumbers DEF Put, LogAppend
<1>9. CASE Checkpoint
  <2>1. Op("checkpoint", NIL, 0, << >>).seq = Len(ops)
    BY DEF Op
  <2>. QED
    BY <1>9, <2>1, AppendKeepsNumbers DEF Checkpoint, LogAppend
<1>10. CASE SaveSnapshot
  BY <1>10 DEF SaveSnapshot, memory, Numbered, Loaded
<1>11. ASSUME NEW name \in Names, NEW data \in Contents, PutFile(name, data) PROVE Numbered'
  <2>1. Op("put_file", name, Len(files[name]), data).seq = Len(ops)
    BY DEF Op
  <2>. QED
    BY <1>11, <2>1, AppendKeepsNumbers DEF PutFile, LogAppend
<1>12. ASSUME NEW old \in TMKs, NEW new \in TMKs, Rotate(old, new) PROVE Numbered'
  BY <1>12 DEF Rotate, memory, Numbered, Loaded
<1>13. CASE Rewrap
  BY <1>13 DEF Rewrap, memory, Numbered, Loaded
<1>14. CASE Stop
  BY <1>0, <1>14 DEF Stop, Stopped, disk, Numbered, Loaded
<1>15. CASE Heal
  <2>1. /\ aof' = temps.aof /\ UNCHANGED ops /\ mode = "heal" /\ mode' # "heal"
    BY <1>15 DEF Heal, memory
  <2>. QED
    BY <2>1 DEF Numbered
<1>16. CASE RenameSnapshot
  BY <1>16 DEF RenameSnapshot, memory, Numbered, Loaded
<1>17. CASE UNCHANGED vars
  BY <1>17 DEF vars, Numbered, Loaded
<1>. QED
  BY <1>3, <1>4, <1>5, <1>6, <1>7, <1>8, <1>9, <1>10, <1>11, <1>12, <1>13, <1>14, <1>15, <1>16, <1>17 DEF Next

\* No files, no versions.
LEMMA NoVersions == Chunked(NoFiles)
<1>1. Len(<< >>) = 0
  BY EmptySeq
<1>2. \A name \in Names : 1..Len(NoFiles[name]) = {}
  BY <1>1 DEF NoFiles
<1>. QED
  BY <1>2, NoRecipes DEF Chunked

\* Every step keeps the versions sequences of chunks.
LEMMA NextVersions ==
  ASSUME Temporary, Versions, [Next]_vars
  PROVE  Versions'
<1>1. ASSUME NEW tmk \in TMKs \cup {NIL}, Open(tmk) PROVE Versions'
  BY <1>1 DEF Open, memory, Versions, Snapshots
<1>2. CASE LoadFromSnapshot
  <2>1. UNCHANGED Snapshots /\ (files' = NoFiles \/ \E s \in Snapshots : files' = s.files)
    BY <1>2 DEF LoadFromSnapshot, disk, Stopped, Restore, Snapshots
  <2>. QED
    BY <2>1, NoVersions DEF Versions
<1>3. CASE LoadFromLog
  <2>1. temps'.snap = temps.snap /\ snap' = snap /\ files' = NoFiles
    BY <1>3 DEF LoadFromLog, Temporary
  <2>. QED
    BY <2>1, NoVersions DEF Versions, Snapshots
<1>4. CASE Backfill
  BY <1>4 DEF Backfill, memory, Versions, Snapshots
<1>5. CASE Unsnap
  BY <1>5 DEF Unsnap, DropSnapshot, memory, Versions, Snapshots
<1>6. CASE Put
  BY <1>6 DEF Put, Versions, Snapshots
<1>7. CASE Checkpoint
  BY <1>7 DEF Checkpoint, Versions, Snapshots
<1>8. CASE SaveSnapshot
  <2>. DEFINE new == [key |-> dek, seq |-> Len(ops), chunks |-> chunks, files |-> files]
  <2>1. UNCHANGED <<files, snap>> /\ temps' = [temps EXCEPT !.snap = {new}] /\ new.files = files
    BY <1>8 DEF SaveSnapshot, memory
  <2>. HIDE DEF new
  <2>2. Snapshots' \subseteq Snapshots \cup {new}
    BY <2>1 DEF Snapshots, Temporary
  <2>. QED
    BY <2>1, <2>2 DEF Versions
<1>9. ASSUME NEW name \in Names, NEW data \in Contents, PutFile(name, data) PROVE Versions'
  <2>. DEFINE c == Chunks(data)
  <2>1. UNCHANGED Snapshots /\ files' = [files EXCEPT ![name] = Append(@, c)]
    BY <1>9 DEF PutFile, Snapshots
  <2>2. IsSequence(c)
    BY AtRestAssumption, ChunksRejoin
  <2>. HIDE DEF c
  <2>3. IsSequence(files[name]) /\ DOMAIN files = Names /\ Len(files[name]) \in Nat
    BY SequenceIsFunction DEF Versions, Chunked, Recipes
  <2>4. files'[name] = Append(files[name], c) /\ \A m \in Names : m # name => files'[m] = files[m]
    BY <2>1, <2>3
  <2>5. /\ IsSequence(files'[name]) /\ Len(files'[name]) = Len(files[name]) + 1
        /\ files'[name][Len(files[name]) + 1] = c
        /\ \A v \in 1..Len(files[name]) : files'[name][v] = files[name][v]
    BY <2>3, <2>4, AppendToSequence
  <2>6. \A v \in 1..(Len(files[name]) + 1) : v \in 1..Len(files[name]) \/ v = Len(files[name]) + 1
    BY <2>3
  <2>7. \A v \in 1..Len(files'[name]) : IsSequence(files'[name][v])
    BY <2>2, <2>5, <2>6 DEF Versions, Chunked
  <2>8. DOMAIN files' = Names
    BY <2>1, <2>3
  <2>9. ASSUME NEW m \in Names
        PROVE  IsSequence(files'[m]) /\ \A v \in 1..Len(files'[m]) : IsSequence(files'[m][v])
    BY <2>4, <2>5, <2>7 DEF Versions, Chunked, Recipes
  <2>. QED
    BY <2>1, <2>8, <2>9 DEF Versions, Chunked, Recipes
<1>10. ASSUME NEW old \in TMKs, NEW new \in TMKs, Rotate(old, new) PROVE Versions'
  BY <1>10 DEF Rotate, memory, Versions, Snapshots
<1>11. CASE Rewrap
  BY <1>11 DEF Rewrap, memory, Versions, Snapshots
<1>12. CASE Stop
  BY <1>12, NoVersions DEF Stop, Stopped, disk, Versions, Snapshots
<1>13. CASE Heal
  <2>1. temps'.snap = temps.snap /\ snap' = snap /\ files' = files
    BY <1>13 DEF Heal, memory, Temporary
  <2>. QED
    BY <2>1 DEF Versions, Snapshots
<1>14. CASE RenameSnapshot
  <2>1. temps'.snap = {} /\ snap' = temps.snap /\ files' = files
    BY <1>14 DEF RenameSnapshot, memory, Temporary
  <2>. QED
    BY <2>1 DEF Versions, Snapshots
<1>15. CASE UNCHANGED vars
  BY <1>15 DEF vars, Versions, Snapshots
<1>. QED
  BY <1>1, <1>2, <1>3, <1>4, <1>5, <1>6, <1>7, <1>8, <1>9, <1>10, <1>11, <1>12, <1>13, <1>14, <1>15 DEF Next

\* The hashes of a list, one for each element.
LEMMA HashesOf ==
  ASSUME NEW s, IsSequence(s), NEW h, h = [i \in DOMAIN s |-> h[i]]
  PROVE  IsSequence(h) /\ Len(h) = Len(s)
<1>1. Len(s) \in Nat /\ DOMAIN s = 1..Len(s)
  BY SequenceIsFunction
<1>. QED
  BY <1>1, FunctionIsSequence

\* A file proof is issued for every chunk, and verifies for it and for no other chunk of the
\* version (merkle.py); the log proof of an op verifies for it and for no other op of the log
\* (proof.py, and the proof endpoint of server.py).
THEOREM ProofsProve == Spec => []ProofsVerify
<1>. DEFINE Inv == KeyFile /\ LogKept /\ Temporary /\ Numbered /\ Versions
<1>1. Init => Inv
  <2>1. Init => Versions
    BY NoVersions DEF Init, NoTemps, Versions, Snapshots
  <2>. QED
    BY <2>1, InitKeyFile, InitLogKept, InitTemporary, InitNumbered
<1>2. Inv /\ [Next]_vars => Inv'
  <2>. SUFFICES ASSUME Inv, [Next]_vars PROVE Inv'
    OBVIOUS
  <2>. QED
    BY NextKeyFile, NextLogKept, NextTemporary, NextNumbered, NextVersions
<1>3. Numbered /\ Versions => ProofsVerify
  <2>. SUFFICES ASSUME Numbered, Versions PROVE ProofsVerify
    OBVIOUS
  <2>1. ASSUME NEW name \in Names, NEW v \in DOMAIN files[name]
        PROVE  LET leaves == [c \in DOMAIN files[name][v] |-> << files[name][v][c] >>]
                   root   == merkle_root(leaves)
               IN  \A i \in DOMAIN leaves :
                     \E path \in {merkle_proof(leaves, i - 1)} :
                       \A j \in DOMAIN leaves : merkle_verify(leaves[j], path, root) <=> leaves[i] = leaves[j]
    <3>. DEFINE leaves == [c \in DOMAIN files[name][v] |-> << files[name][v][c] >>]
    <3>1. IsSequence(files[name][v])
      <4>1. IsSequence(files[name])
        BY DEF Versions, Chunked, Recipes
      <4>2. v \in 1..Len(files[name])
        BY <4>1, SequenceIsFunction
      <4>. QED
        BY <4>2 DEF Versions, Chunked
    <3>2. leaves = [c \in DOMAIN files[name][v] |-> leaves[c]]
      OBVIOUS
    <3>. HIDE DEF leaves
    <3>3. IsSequence(leaves)
      BY <3>1, <3>2, HashesOf
    <3>4. DOMAIN leaves = 1..Len(leaves)
      BY <3>3, SequenceIsFunction
    <3>5. ASSUME NEW i \in DOMAIN leaves
          PROVE  \E path \in {merkle_proof(leaves, i - 1)} :
                   \A j \in DOMAIN leaves :
                     merkle_verify(leaves[j], path, merkle_root(leaves)) <=> leaves[i] = leaves[j]
      <4>. DEFINE path == merkle_proof(leaves, i - 1)
      <4>1. Len(path) \in Nat /\ merkle_verify(leaves[i], path, merkle_root(leaves))
        <5>1. i \in 1..Len(leaves)
          BY <3>4
        <5>. QED
          BY <3>3, <5>1, ProofVerifies
      <4>. HIDE DEF path
      <4>2. \A j \in DOMAIN leaves :
              merkle_verify(leaves[j], path, merkle_root(leaves)) <=> leaves[i] = leaves[j]
        BY <4>1, OneLeafPerPath
      <4>. QED
        BY <4>2, Zenon DEF path
    <3>. QED
      BY <3>5, Zenon DEF leaves
  <2>2. LET hashes == [i \in DOMAIN ops |-> << i >>] IN
        \A i, j \in DOMAIN ops :
          verify_proof([OpProof(hashes, ops[i].seq) EXCEPT !.hash = hashes[j]]) <=> i = j
    <3>. DEFINE hashes == [i \in DOMAIN ops |-> << i >>]
    <3>1. IsSequence(ops) /\ DOMAIN ops = 1..Len(ops)
      BY SequenceIsFunction DEF Numbered
    <3>2. hashes = [i \in DOMAIN ops |-> hashes[i]]
      OBVIOUS
    <3>3. \A i, j \in DOMAIN ops : hashes[i] = hashes[j] <=> i = j
      OBVIOUS
    <3>. HIDE DEF hashes
    <3>4. IsSequence(hashes) /\ Len(hashes) = Len(ops)
      BY <3>1, <3>2, HashesOf
    <3>5. ASSUME NEW i \in DOMAIN ops, NEW j \in DOMAIN ops
          PROVE  verify_proof([OpProof(hashes, ops[i].seq) EXCEPT !.hash = hashes[j]]) <=> i = j
      <4>1. ops[i].seq = i - 1 /\ i \in 1..Len(hashes)
        BY <3>1, <3>4 DEF Numbered
      <4>2. verify_proof([OpProof(hashes, i - 1) EXCEPT !.hash = hashes[j]]) <=> hashes[i] = hashes[j]
        BY <3>4, <4>1, OpProofVerifies
      <4>. QED
        BY <3>3, <4>1, <4>2
    <3>. QED
      BY <3>5, Zenon DEF hashes
  <2>. QED
    BY <2>1, <2>2 DEF ProofsVerify
<1>. QED
  BY <1>1, <1>2, <1>3, PTL DEF Spec

=============================================================================
