------------------------------- MODULE AtRest -------------------------------
(***************************************************************************)
(* What NEDB(path, tmk) keeps in its directory: log.aof, snapshot.json and *)
(* key.enc, each line, chunk and snapshot plain or encrypted under the     *)
(* data key (DEK), which key.enc holds wrapped under the operator's key    *)
(* (TMK).  The operator may open the database with any key or with none,   *)
(* and rotate the key; the process may stop at any point.  Ops are put,    *)
(* put_file and checkpoint; nonces, causes and documents are AofEngine's.  *)
(***************************************************************************)
EXTENDS Merkle, FiniteSets

CONSTANTS TMKs,
          Names, Contents,        \* file names, and the bytes put under them
          NIL,                    \* no key, no file
          MaxOps, MaxSessions, MaxRotations   \* bounds

\* Contents are of bytes, each of which the Gear table has an entry for.
ASSUME AtRestAssumption == Contents \subseteq Seq(DOMAIN Gear)

VARIABLES
  mode,       \* "down", "load", "heal", "backfill", "unsnap", "open", "snapshot", "rename",
              \* "rewrap"
  dek,        \* _dek of the session
  newTmk,     \* the key that a rotation in progress wraps the DEK under
  ops,        \* OpLog.ops
  chunks, files,   \* BlobStore: the stored chunks; by name, the recipes of its versions
  aof,        \* lines [op, key]; key NIL is a plain line
  snap,       \* a set, empty or with [key, seq, chunks, files]
  keyenc,     \* a set, empty or with [tmk, dek]
  temps,      \* the temporary files: [snap, aof], what snapshot.json.tmp and log.aof.heal_tmp hold
  sessions, rotations, deks,
  promised,   \* history: the ops that were acknowledged
  blind,      \* history: a log with encrypted lines was opened without a key
  lost,       \* history: the database was opened with versions in the log that no snapshot covers
  strewn,     \* history: by temporary file, a session without a key died before the rename
  bare        \* history: a backfill stopped before it removed the snapshot, or the key
              \* came from rewrap_key in a session that had none

vars == <<mode, dek, newTmk, ops, chunks, files, aof, snap, keyenc, temps, sessions, rotations,
          deks, promised, blind, lost, strewn, bare>>

NoFiles == [n \in Names |-> << >>]

NoTemps == [snap |-> {}, aof |-> << >>]

Init ==
  /\ mode = "down" /\ dek = NIL /\ newTmk = NIL
  /\ ops = << >> /\ chunks = {} /\ files = NoFiles
  /\ aof = << >> /\ snap = {} /\ keyenc = {} /\ temps = NoTemps
  /\ sessions = 0 /\ rotations = 0 /\ deks = 0
  /\ promised = << >> /\ blind = FALSE /\ lost = FALSE /\ bare = FALSE
  /\ strewn = [snap |-> FALSE, aof |-> FALSE]

disk == <<aof, snap, keyenc, temps>>
memory == <<ops, chunks, files>>
history == <<promised, blind, lost, strewn, bare>>

-----------------------------------------------------------------------------
(* Keys and encodings.                                                      *)

\* Mutant: a DEK that does not unwrap is replaced by a new one.
UnlockedAnew(tmk) ==
  IF \E k \in keyenc : k.tmk = tmk THEN keyenc ELSE {[tmk |-> tmk, dek |-> deks + 1]}

\* load_or_create_dek: what key.enc holds afterwards, {} when unwrap_dek raises.
Unlocked(tmk) ==
  IF keyenc = {} THEN {[tmk |-> tmk, dek |-> deks + 1]} ELSE {k \in keyenc : k.tmk = tmk}

\* aof_decode and from_dict: plain lines, and lines under the session's DEK.
Reads(line) == line.key \in {NIL, dek}

Encoded(os) == [i \in DOMAIN os |-> [op |-> os[i], key |-> dek]]

OpsOf(lines) == [i \in DOMAIN lines |-> lines[i].op]

\* The lines before the first one that does not decode.
Readable ==
  SubSeq(aof, 1, CHOOSE n \in 0..Len(aof) :
                   /\ \A i \in 1..n : Reads(aof[i])
                   /\ n < Len(aof) => ~Reads(aof[n + 1]))

-----------------------------------------------------------------------------
(* Opening.                                                                 *)

\* NEDB.__init__ with a key; resolve_tmk gives NIL when none is configured.
Open(tmk) ==
  /\ mode = "down" /\ sessions < MaxSessions
  /\ sessions' = sessions + 1
  /\ \/ /\ tmk = NIL /\ mode' = "load" /\ dek' = NIL
        /\ UNCHANGED <<keyenc, deks>>
     \/ /\ tmk # NIL
        /\ \E k \in Unlocked(tmk) :
             /\ keyenc' = {k} /\ dek' = k.dek /\ mode' = "load"
             /\ deks' = IF k.dek > deks THEN k.dek ELSE deks
     \/ /\ tmk # NIL /\ Unlocked(tmk) = {}     \* InvalidTag: the database stays closed
        /\ UNCHANGED <<mode, dek, keyenc, deks>>
  /\ UNCHANGED <<newTmk, memory, aof, snap, temps, rotations, history>>

\* The put_file ops of a log that are not in a snapshot taken at seq.
Uncovered(os, seq) == \E i \in DOMAIN os : os[i].kind = "put_file" /\ i > seq

Stopped == dek' = NIL /\ newTmk' = NIL /\ ops' = << >> /\ chunks' = {} /\ files' = NoFiles

\* Mutant: the versions are restored, but not the chunks.
RestoreFilesOnly(s) == files' = s.files /\ chunks' = {}

\* load_snapshot, the blob stores.
Restore(s) == files' = s.files /\ chunks' = s.chunks

\* _load with a snapshot that snapshot_decode can read: chunk_decode raises on the chunks
\* of a plain snapshot when there is a DEK, and a line that does not decode raises too.
LoadFromSnapshot ==
  /\ mode = "load"
  /\ \E s \in snap :
       /\ s.key \in {NIL, dek}
       /\ IF (s.key # dek /\ s.chunks # {}) \/ \E i \in DOMAIN aof : ~Reads(aof[i])
          THEN mode' = "down" /\ Stopped /\ UNCHANGED lost
          ELSE /\ mode' = (IF dek = NIL THEN "open" ELSE "backfill")
               /\ ops' = OpsOf(aof) /\ Restore(s)
               /\ lost' = (lost \/ Uncovered(OpsOf(aof), s.seq))
               /\ UNCHANGED <<dek, newTmk>>
  /\ UNCHANGED <<disk, sessions, rotations, deks, promised, blind, strewn, bare>>

\* _load without one: an envelope that was not decrypted has no version, which falls back
\* to full replay.  The first line that does not decode and all after it are left out of
\* the file that _rewrite_aof writes beside the log.
LoadFromLog ==
  /\ mode = "load" /\ \A s \in snap : s.key \notin {NIL, dek}
  /\ IF Len(Readable) < Len(aof)
     THEN temps' = [temps EXCEPT !.aof = Encoded(OpsOf(Readable))] /\ mode' = "heal"
     ELSE mode' = (IF dek = NIL THEN "open" ELSE "backfill") /\ UNCHANGED temps
  /\ ops' = OpsOf(Readable) /\ chunks' = {} /\ files' = NoFiles
  /\ lost' = (lost \/ Uncovered(OpsOf(Readable), 0))
  /\ UNCHANGED <<dek, newTmk, aof, snap, keyenc, sessions, rotations, deks, promised, blind,
                 strewn, bare>>

\* os.replace of the log in _rewrite_aof.
Heal ==
  /\ mode = "heal"
  /\ aof' = temps.aof
  /\ temps' = [temps EXCEPT !.aof = << >>]
  /\ strewn' = [strewn EXCEPT !.aof = FALSE]
  /\ mode' = IF dek = NIL THEN "open" ELSE "backfill"
  /\ blind' = (blind \/ dek = NIL)
  /\ UNCHANGED <<dek, newTmk, memory, snap, keyenc, sessions, rotations, deks, promised, lost, bare>>

\* The rewritten log: every line, encrypted.
Backfilled == Encoded(OpsOf(aof))

\* _backfill_encrypt_if_needed, up to os.replace: the first line tells.
Backfill ==
  /\ mode = "backfill"
  /\ IF aof # << >> /\ aof[1].key = NIL
     THEN aof' = Backfilled /\ mode' = "unsnap"
     ELSE mode' = "open" /\ UNCHANGED aof
  /\ UNCHANGED <<dek, newTmk, memory, snap, keyenc, temps, sessions, rotations, deks, history>>

\* Mutant: the old snapshot stays.
DropSnapshotNot == UNCHANGED snap

\* os.remove of the snapshot.
DropSnapshot == snap' = {}

Unsnap ==
  /\ mode = "unsnap"
  /\ DropSnapshot
  /\ mode' = "open"
  /\ UNCHANGED <<dek, newTmk, memory, aof, keyenc, temps, sessions, rotations, deks, history>>

-----------------------------------------------------------------------------
(* Operations of an open database.                                          *)

\* _log_append: the line, encrypted under the DEK, is on disk when the call returns.
LogAppend(op) ==
  /\ mode = "open" /\ Len(promised) < MaxOps
  /\ ops' = Append(ops, op)
  /\ aof' = Append(aof, [op |-> op, key |-> dek])
  /\ promised' = Append(promised, op)

Op(kind, name, version, data) ==
  [kind |-> kind, seq |-> Len(ops), name |-> name, version |-> version,
   root |-> merkle_root([i \in DOMAIN Chunks(data) |-> << Chunks(data)[i] >>]),
   data |-> data]    \* history: the bytes the caller passed

Put ==
  /\ LogAppend(Op("put", NIL, 0, << >>))
  /\ UNCHANGED <<mode, dek, newTmk, chunks, files, snap, keyenc, temps, sessions, rotations, deks, blind,
                 lost, strewn, bare>>

\* put_file: the chunks that are new are stored, the recipe is the next version.
PutFile(name, data) ==
  /\ LogAppend(Op("put_file", name, Len(files[name]), data))
  /\ chunks' = chunks \cup Range(Chunks(data))
  /\ files' = [files EXCEPT ![name] = Append(@, Chunks(data))]
  /\ UNCHANGED <<mode, dek, newTmk, snap, keyenc, temps, sessions, rotations, deks, blind, lost,
                 strewn, bare>>

\* get_file
Bytes(name, version) == FlattenSeq(files[name][version + 1])

\* save_snapshot: the checkpoint op, then the snapshot under the DEK.
Checkpoint ==
  /\ LogAppend(Op("checkpoint", NIL, 0, << >>))
  /\ mode' = "snapshot"
  /\ UNCHANGED <<dek, newTmk, chunks, files, snap, keyenc, temps, sessions, rotations, deks, blind,
                 lost, strewn, bare>>

\* The snapshot is written beside the old one
SaveSnapshot ==
  /\ mode = "snapshot"
  /\ temps' = [temps EXCEPT !.snap =
                  {[key |-> dek, seq |-> Len(ops), chunks |-> chunks, files |-> files]}]
  /\ mode' = "rename"
  /\ UNCHANGED <<dek, newTmk, memory, aof, snap, keyenc, sessions, rotations, deks, history>>

\* and os.replace puts it in its place.
RenameSnapshot ==
  /\ mode = "rename"
  /\ snap' = temps.snap
  /\ temps' = [temps EXCEPT !.snap = {}]
  /\ strewn' = [strewn EXCEPT !.snap = FALSE]
  /\ mode' = "open"
  /\ UNCHANGED <<dek, newTmk, memory, aof, keyenc, sessions, rotations, deks, promised, blind,
                 lost, bare>>

\* rewrap_key: rewrap_dek first loads the DEK under the old key, or makes one.
Rotate(old, new) ==
  /\ mode = "open" /\ rotations < MaxRotations
  /\ rotations' = rotations + 1
  /\ \/ \E k \in Unlocked(old) :
          /\ keyenc' = {k} /\ deks' = IF k.dek > deks THEN k.dek ELSE deks
          /\ newTmk' = new /\ mode' = "rewrap"
     \/ Unlocked(old) = {} /\ UNCHANGED <<keyenc, deks, newTmk, mode>>
  /\ UNCHANGED <<dek, memory, aof, snap, temps, sessions, history>>

\* _save_wrapped_dek of the DEK under the new key.
Rewrapped == {[k EXCEPT !.tmk = newTmk] : k \in keyenc}

Rewrap ==
  /\ mode = "rewrap"
  /\ keyenc' = Rewrapped
  /\ dek' = (CHOOSE k \in Rewrapped : TRUE).dek
  /\ deks' = IF dek' > deks THEN dek' ELSE deks
  /\ bare' = (bare \/ dek = NIL)
  /\ newTmk' = NIL /\ mode' = "open"
  /\ UNCHANGED <<memory, aof, snap, temps, sessions, rotations, promised, blind, lost, strewn>>

\* close(), or the process dies: the files stay as they are.
Stop ==
  /\ mode # "down" /\ mode' = "down"
  /\ Stopped
  /\ bare' = (bare \/ (mode = "unsnap" /\ snap # {}))
  /\ strewn' = [snap |-> strewn.snap \/ (mode = "rename" /\ dek = NIL),
                aof |-> strewn.aof \/ (mode = "heal" /\ dek = NIL)]
  /\ UNCHANGED <<disk, sessions, rotations, deks, promised, blind, lost>>

Next ==
  \/ \E tmk \in TMKs \cup {NIL} : Open(tmk)
  \/ LoadFromSnapshot \/ LoadFromLog \/ Heal \/ Backfill \/ Unsnap
  \/ Put \/ Checkpoint \/ SaveSnapshot \/ RenameSnapshot
  \/ \E name \in Names, data \in Contents : PutFile(name, data)
  \/ \E old, new \in TMKs : Rotate(old, new)
  \/ Rewrap \/ Stop

Spec == Init /\ [][Next]_vars

-----------------------------------------------------------------------------
(* Properties.                                                              *)

\* Whatever keys the database is opened with and wherever the process stops, log.aof holds
\* every acknowledged op, under the DEK that key.enc holds or plain, unless a log with
\* encrypted lines was opened without a key (crypto.aof_decode then hands the envelopes to
\* _load, whose self-repair cuts them off).
KeysKeepTheLog ==
  ~blind => /\ OpsOf(aof) = promised
            /\ \A i \in DOMAIN aof : aof[i].key = NIL \/ \E k \in keyenc : k.dek = aof[i].key

\* A database open with a key has no plain line, snapshot or temporary file on disk ("so no
\* cleartext survives", engine.py:111-112), unless a backfill was cut between the new log
\* and the removal of the old snapshot, or rewrap_key gave a key to a session that had none,
\* or the log was cut for want of one; and a temporary file stays plain from the death of a
\* keyless session before its os.replace until a later one replaces it.
NoCleartext ==
  mode = "open" /\ dek # NIL /\ ~bare /\ ~blind =>
    /\ \A i \in DOMAIN aof : aof[i].key # NIL
    /\ \A s \in snap : s.key # NIL
    /\ ~strewn.snap => \A s \in temps.snap : s.key # NIL
    /\ ~strewn.aof => \A i \in DOMAIN temps.aof : temps.aof[i].key # NIL

\* Every version that put_file logged reads back as the bytes it was given, and has the
\* root that was logged, across restarts, changes of key and encryption, unless the log has
\* had versions that no snapshot held (their bytes are in memory only).
FilesAsLogged ==
  mode = "open" /\ ~lost /\ ~blind =>
    \A i \in {j \in DOMAIN ops : ops[j].kind = "put_file"} :
      LET o == ops[i] IN
      /\ o.version < Len(files[o.name])
      /\ LET recipe == files[o.name][o.version + 1] IN
         /\ Range(recipe) \subseteq chunks
         /\ Bytes(o.name, o.version) = o.data
         /\ merkle_root([c \in DOMAIN recipe |-> << recipe[c] >>]) = o.root

\* Proofs verify for exactly what they prove: file_proof of every chunk of every version
\* against the version's root and for no other chunk of it, and the proof that the daemon
\* issues for an op of the log for no other op in its place.
ProofsVerify ==
  /\ \A name \in Names : \A v \in DOMAIN files[name] :
       LET leaves == [c \in DOMAIN files[name][v] |-> << files[name][v][c] >>]
           root   == merkle_root(leaves)
       IN  \A i \in DOMAIN leaves :
             \E path \in {merkle_proof(leaves, i - 1)} :
               \A j \in DOMAIN leaves : merkle_verify(leaves[j], path, root) <=> leaves[i] = leaves[j]
  /\ LET hashes == [i \in DOMAIN ops |-> << i >>] IN
     \A i, j \in DOMAIN ops :
       verify_proof([OpProof(hashes, ops[i].seq) EXCEPT !.hash = hashes[j]]) <=> i = j

=============================================================================
