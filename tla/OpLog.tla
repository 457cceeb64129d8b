------------------------------- MODULE OpLog -------------------------------
(***************************************************************************)
(* The hash-chained operation log of python/nedb/log.py, as operators on a *)
(* sequence of ops.  An op's hash is modelled by the very history it       *)
(* commits to: the hash of op n is the sequence of the bodies of ops 1..n. *)
(* Hash is then injective, as BLAKE2b is assumed to be, and nothing else   *)
(* about digests is used.                                                  *)
(***************************************************************************)
EXTENDS Integers, Sequences, FiniteSets, FiniteSetsExt

CONSTANTS Clients,      \* client names, the engine's own "__ttl__" and "__snapshot__" included
          IdemKeys,     \* idempotency keys a caller may attach to an op
          NoIdem        \* idem = None

ASSUME NoIdemAssumption == NoIdem \notin IdemKeys

GENESIS == << >>

NoSeq == -1

\* What append() and _op_body() put under the hash: every field but the two
\* hashes (ts is left out: no property reads it).
Body(o) ==
  [seq |-> o.seq, client |-> o.client, nonce |-> o.nonce, payload |-> o.payload,
   caused_by |-> o.caused_by, idem |-> o.idem]

Hash(prev, body) == Append(prev, body)

\* The record OpLog.append builds: its seq is the length of the log.
NewOp(ops, head, client, nonce, payload, caused_by, idem) ==
  LET body == [seq |-> Len(ops), client |-> client, nonce |-> nonce,
               payload |-> payload, caused_by |-> caused_by, idem |-> idem]
  IN  [seq |-> Len(ops), client |-> client, nonce |-> nonce, payload |-> payload,
       caused_by |-> caused_by, idem |-> idem, prev_hash |-> head,
       hash |-> Hash(head, body)]

PrevHash(ops, i) == IF i = 1 THEN GENESIS ELSE ops[i - 1].hash

HeadOf(ops) == PrevHash(ops, Len(ops) + 1)

\* OpLog.verify: re-walk the chain.
Verify(ops) ==
  \A i \in 1..Len(ops) :
     /\ ops[i].prev_hash = PrevHash(ops, i)
     /\ ops[i].hash = Hash(ops[i].prev_hash, Body(ops[i]))

\* Mutant: a client's ops are counted instead of taking its largest nonce.
CountedNonces(ops) ==
  [c \in Clients |-> Cardinality({j \in 1..Len(ops) : ops[j].client = c})]

\* OpLog.load: the largest nonce of every client, 0 when it wrote nothing.
LastNonces(ops) ==
  [c \in Clients |->
     Max({0} \cup {ops[i].nonce : i \in {j \in 1..Len(ops) : ops[j].client = c}})]

\* Mutant: a reload forgets the keys.
ForgottenIdem(ops) == [k \in IdemKeys |-> NoSeq]

\* OpLog.load: every idempotency key goes with the first op that carries it.
IdemMap(ops) ==
  [k \in IdemKeys |->
     LET uses == {j \in 1..Len(ops) : ops[j].idem = k}
     IN  IF uses = {} THEN NoSeq ELSE ops[Min(uses)].seq]

-----------------------------------------------------------------------------
(* NEDB._self_heal_if_needed (engine.py): re-link a log whose ops are each  *)
(* consistent with their own prev_hash, and leave any other log alone.      *)

InternallyValid(ops) ==
  \A i \in 1..Len(ops) : ops[i].hash = Hash(ops[i].prev_hash, Body(ops[i]))

\* Mutant: the ops keep their old prev_hash.
RelinkedOldPrev(ops) ==
  [i \in 1..Len(ops) |->
     [ops[i] EXCEPT !.hash = [j \in 1..i |-> Body(ops[j])], !.caused_by = {}]]

\* The rebuilt Op passes no caused_by on, although its hash was taken over it.
Relinked(ops) ==
  [i \in 1..Len(ops) |->
     [ops[i] EXCEPT !.prev_hash = [j \in 1..(i - 1) |-> Body(ops[j])],
                    !.hash      = [j \in 1..i |-> Body(ops[j])],
                    !.caused_by = {}]]

SelfHeal(ops) ==
  IF Verify(ops) \/ ~InternallyValid(ops) THEN ops ELSE Relinked(ops)

=============================================================================
