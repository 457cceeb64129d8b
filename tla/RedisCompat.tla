---------------------------- MODULE RedisCompat ----------------------------
(***************************************************************************)
(* RedisCompat behind RESP2 connections.  A command is what the code makes *)
(* of it: one or more parts, each of which reads once (pinned to           *)
(* committed_seq) and then sends its writes to the Sequencer one at a      *)
(* time.  Only the Sequencer orders the parts of different connections.    *)
(* A string or a hash field is a row, told apart by a number: how much was *)
(* added to it by INCRBY, HINCRBY or APPEND since it was set.  There is    *)
(* one hash, one set and one list, whose elements are told apart by their  *)
(* push; a key is used for one kind of value.                              *)
(***************************************************************************)
EXTENDS Integers, Sequences, FiniteSets, SequencesExt

CONSTANTS Conns,
          Strings,           \* ids in the collection "_kv"
          Fields,            \* ids in the collection of the hash
          Members,           \* of the set
          Odd,               \* the members with a character that _safe() encodes
          Commands,          \* the commands a client may send
          NIL,
          MaxCommands, MaxReboots   \* bounds

ASSUME RedisAssumption ==
  /\ Odd \subseteq Members /\ NIL \notin Nat /\ MaxCommands \in Nat
  /\ Strings \cap Fields = {} /\ Members \cap (Strings \cup Fields) = {}

VARIABLES
  rows,        \* the rows of strings and hashes
  links,       \* targets of the set's "member" relation
  list,        \* rows of the list's collection: [id, side, ts, v]
  conn,        \* the connections' threads
  clock,       \* time.monotonic_ns(), back at 0 after a reboot
  sent, reboots,
  ref,         \* history: what one Redis would hold, given the parts in the order they ended
  pushed, popped,   \* history: list elements
  raced,       \* history: what two overlapping parts both depended on
  unlike       \* history: what a command that differs from Redis's has left

store   == <<rows, links, list>>
history == <<ref, pushed, popped, raced, unlike>>
vars    == <<store, conn, clock, sent, reboots, history>>

Rows == Strings \cup Fields

Resting == [pc |-> "idle", parts |-> << >>, writes |-> << >>]

Init ==
  /\ rows = [k \in Rows |-> NIL] /\ links = {} /\ list = {}
  /\ conn = [c \in Conns |-> Resting] /\ clock = 0 /\ sent = 0 /\ reboots = 0
  /\ ref = [rows |-> rows, members |-> {}] /\ pushed = {} /\ popped = << >> /\ raced = {} /\ unlike = {}

\* _safe(member) in the name of a set's member: other than the member for an odd one.
Safe(m) == IF m \in Odd THEN <<"encoded", m>> ELSE m

\* _smembers: the members by the names they are stored under.
SMembers == links

\* _list_rows: sorted by side, then by time.
Before(a, b) == IF a.side = b.side THEN a.ts < b.ts ELSE a.side = "L"

ListRows == SetToSortSeq(list, Before)

-----------------------------------------------------------------------------
(* What a command does, part by part.                                       *)

Part(op, key, arg) == [op |-> op, key |-> key, arg |-> arg]

\* The keys of the hash and of the set.
Others == {"hash", "set"}

\* RedisCompat.execute: MSET, DEL and HSET take several keys one after the other; LPUSH
\* pushes its values in reverse order.
Parts(op) ==
  CASE op \in {"SET", "SETXX", "SETNX", "GETDEL", "INCR"} -> {<<Part(op, k, 1)>> : k \in Strings}
    [] op = "RENAME"  -> {<<Part(op, k[1], k[2])>> : k \in Strings \X Strings}
    [] op = "MSET"    -> {<<Part("SET", k[1], 2), Part("SET", k[2], 3)>> : k \in Strings \X Strings}
    [] op = "DEL"     -> {<<Part("DEL", k[1], 0), Part("DEL", k[2], 0)>> :
                            k \in (Strings \cup Others) \X Strings}
    [] op = "FLUSHDB" -> {<<Part(op, NIL, 0)>>}
    [] op \in {"HSETNX", "HINCRBY", "HDEL"} -> {<<Part(op, f, 1)>> : f \in Fields}
    [] op = "HSET"    -> {<<Part("HSET", f[1], 2), Part("HSET", f[2], 3)>> : f \in Fields \X Fields}
    [] op \in {"SADD", "SREM"} -> {<<Part(op, NIL, m)>> : m \in Members \X Members}
    [] op = "LPUSH"   -> {<<Part("LPUSH", NIL, "second"), Part("LPUSH", NIL, "first")>>}
    [] op \in {"RPUSH", "LPOP", "RPOP", "LSET"} -> {<<Part(op, NIL, "only")>>}

Put(k, v)  == [do |-> "put", key |-> k, v |-> v]
Erase(k)   == [do |-> "delete", key |-> k, v |-> NIL]
Link(m)    == [do |-> "link", key |-> m, v |-> NIL]
Unlink(m)  == [do |-> "unlink", key |-> m, v |-> NIL]
Push(side) == [do |-> "push", key |-> side, v |-> clock]     \* _ts is read before the put
PopRow(r)  == [do |-> "pop", key |-> r, v |-> NIL]
SetRow(r)  == [do |-> "lset", key |-> r, v |-> NIL]

OrZero(v) == IF v = NIL THEN 0 ELSE v

\* _set, _setnx, _getdel, _del, _incrby, _append and _rename: all of them see strings only,
\* and RENAME puts the new key and then deletes the old one, be they the same.
StringWrites(p) ==
  LET cur == IF p.key \in Strings THEN rows[p.key] ELSE NIL IN
  CASE p.op = "SET"    -> << Put(p.key, p.arg) >>
    [] p.op = "SETXX"  -> IF cur = NIL THEN << >> ELSE << Put(p.key, p.arg) >>
    [] p.op = "SETNX"  -> IF cur # NIL THEN << >> ELSE << Put(p.key, p.arg) >>
    [] p.op \in {"GETDEL", "DEL"} -> IF cur = NIL THEN << >> ELSE << Erase(p.key) >>
    [] p.op = "INCR"   -> << Put(p.key, OrZero(cur) + p.arg) >>
    [] p.op = "RENAME" -> IF cur = NIL THEN << >> ELSE << Put(p.arg, cur), Erase(p.key) >>

\* _flushdb: the strings, one by one.
FlushWrites ==
  LET keys == SetToSeq({k \in Strings : rows[k] # NIL})
  IN  [i \in 1..Len(keys) |-> Erase(keys[i])]

\* Mutant: HSETNX writes over a field that is there.
HashWritesAlways(p) ==
  CASE p.op = "HDEL"    -> IF rows[p.key] = NIL THEN << >> ELSE << Erase(p.key) >>
    [] p.op = "HINCRBY" -> << Put(p.key, OrZero(rows[p.key]) + p.arg) >>
    [] OTHER            -> << Put(p.key, p.arg) >>

\* _hset, _hsetnx, _hdel and _hincrby
HashWrites(p) ==
  CASE p.op = "HSET"    -> << Put(p.key, p.arg) >>
    [] p.op = "HSETNX"  -> IF rows[p.key] # NIL THEN << >> ELSE << Put(p.key, p.arg) >>
    [] p.op = "HDEL"    -> IF rows[p.key] = NIL THEN << >> ELSE << Erase(p.key) >>
    [] p.op = "HINCRBY" -> << Put(p.key, OrZero(rows[p.key]) + p.arg) >>

\* _sadd and _srem compare the given member with the stored, encoded names.
SetWrites(p) ==
  LET ms == IF p.arg[1] = p.arg[2] THEN <<p.arg[1]>> ELSE p.arg IN
  IF p.op = "SADD"
  THEN LET new == SelectSeq(ms, LAMBDA m : m \notin SMembers)
       IN  [i \in 1..Len(new) |-> Link(Safe(new[i]))]
  ELSE LET old == SelectSeq(ms, LAMBDA m : m \in SMembers)
       IN  [i \in 1..Len(old) |-> Unlink(Safe(old[i]))]

\* _lpush, _rpush, _lpop, _rpop and _lset (of the first element)
ListWrites(p) ==
  CASE p.op = "LPUSH" -> << Push("L") >>
    [] p.op = "RPUSH" -> << Push("R") >>
    [] p.op = "LPOP"  -> IF list = {} THEN << >> ELSE << PopRow(ListRows[1]) >>
    [] p.op = "RPOP"  -> IF list = {} THEN << >> ELSE << PopRow(Last(ListRows)) >>
    [] p.op = "LSET"  -> IF list = {} THEN << >> ELSE << SetRow(ListRows[1]) >>

Writes(p) ==
  CASE p.op \in {"SADD", "SREM"} -> SetWrites(p)
    [] p.op \in {"LPUSH", "RPUSH", "LPOP", "RPOP", "LSET"} -> ListWrites(p)
    [] p.op \in {"HSET", "HSETNX", "HDEL", "HINCRBY"} -> HashWrites(p)
    [] p.op = "FLUSHDB" -> FlushWrites
    [] OTHER -> StringWrites(p)

-----------------------------------------------------------------------------
(* The connection threads.                                                  *)

\* What a part depends on: two pushes, or two members of the set, never meet.
Touches(p) ==
  CASE p.op = "FLUSHDB" -> Strings
    [] p.op = "RENAME" -> {p.key, p.arg}
    [] p.op = "DEL" -> {p.key} \cap Strings
    [] p.op \in {"SADD", "SREM"} -> {p.arg[1], p.arg[2]}
    [] p.op \in {"LPUSH", "RPUSH"} -> {}
    [] p.op \in {"LPOP", "RPOP", "LSET"} -> {"pops"}
    [] OTHER -> {p.key}

Blind == {"SET", "HSET"}                          \* write whatever they would read
Several == {"RENAME", "FLUSHDB", "SADD", "SREM"}  \* parts of several writes

\* Parts between their read and their last write.
Writing(cs) == {Head(conn[d].parts) : d \in {e \in cs : conn[e].pc = "write"}}

\* RENAME makes one key depend on another.
Carried(p, xs) == IF p.op = "RENAME" /\ Touches(p) \cap xs # {} THEN xs \cup Touches(p) ELSE xs

\* raced after a write of p with the parts qs of other connections under way.
RacedBy(p, qs) ==
  LET met == Touches(p) \cap UNION {Touches(q) : q \in {r \in qs : r.op \notin Blind}}
  IN  Carried(p, (IF p.op \in Blind THEN raced \ Touches(p) ELSE raced) \cup met)

\* What Redis would make of the part (rows and set only).
Redis(p) ==
  LET cur == ref.rows[p.key]
      set(k, v)     == [ref EXCEPT !.rows[k] = v]
      without(gone) == [ref EXCEPT !.rows = [k \in Rows |-> IF k \in gone THEN NIL ELSE @[k]]]
  IN
  CASE p.op \in {"SET", "HSET"} -> set(p.key, p.arg)
    [] p.op = "SETXX" -> IF cur # NIL THEN set(p.key, p.arg) ELSE ref
    [] p.op \in {"SETNX", "HSETNX"} -> IF cur = NIL THEN set(p.key, p.arg) ELSE ref
    [] p.op \in {"GETDEL", "HDEL"} -> set(p.key, NIL)
    [] p.op \in {"INCR", "HINCRBY"} -> set(p.key, OrZero(cur) + p.arg)
    [] p.op = "RENAME" -> IF cur = NIL \/ p.key = p.arg THEN ref
                          ELSE [ref EXCEPT !.rows[p.arg] = cur, !.rows[p.key] = NIL]
    [] p.op = "DEL" -> IF p.key = "set" THEN [ref EXCEPT !.members = {}]
                       ELSE without(IF p.key = "hash" THEN Fields ELSE {p.key})
    [] p.op = "FLUSHDB" -> [rows |-> [k \in Rows |-> NIL], members |-> {}]
    [] p.op = "SADD" -> [ref EXCEPT !.members = @ \cup {p.arg[1], p.arg[2]}]
    [] p.op = "SREM" -> [ref EXCEPT !.members = @ \ {p.arg[1], p.arg[2]}]
    [] OTHER -> ref

\* Where the code is known to differ from Redis: RENAME of a key to itself deletes the key,
\* and DEL and FLUSHDB leave hashes and sets.
UnlikeBy(p) ==
  CASE p.op = "RENAME" /\ p.key = p.arg -> {p.key}
    [] p.op = "DEL" /\ p.key = "hash" -> {f \in Fields : rows[f] # NIL}
    [] p.op = "DEL" /\ p.key = "set"  -> SMembers
    [] p.op = "FLUSHDB" -> {f \in Fields : rows[f] # NIL} \cup SMembers
    [] OTHER -> {}

\* The commands after which the row or member is as in Redis, whatever it was before.
Settling == Blind \cup {"SADD", "SREM", "DEL", "GETDEL", "HDEL"}

\* unlike at the end of part p.
UnlikeAfter(p) ==
  Carried(p, IF p.op \in Settling THEN unlike \ Touches(p) ELSE unlike) \cup UnlikeBy(p)

\* _Handler.handle: the next command of the connection.
Receive(c, op) ==
  /\ conn[c].pc = "idle" /\ sent < MaxCommands
  /\ sent' = sent + 1
  /\ \E parts \in Parts(op) : conn' = [conn EXCEPT ![c].pc = "read", ![c].parts = parts]
  /\ UNCHANGED <<store, clock, reboots, history>>

\* After a part: the next one, or the reply.
Onward(c) == [conn[c] EXCEPT !.parts = Tail(@), !.writes = << >>,
                             !.pc = IF Len(conn[c].parts) > 1 THEN "read" ELSE "idle"]

\* The part reads what it needs; with nothing to write it is over.
Read(c) ==
  LET p == Head(conn[c].parts) IN
  /\ conn[c].pc = "read"
  /\ IF Writes(p) = << >>
     THEN conn' = [conn EXCEPT ![c] = Onward(c)] /\ ref' = Redis(p) /\ unlike' = UnlikeAfter(p)
     ELSE conn' = [conn EXCEPT ![c].pc = "write", ![c].writes = Writes(p)] /\ UNCHANGED <<ref, unlike>>
  /\ clock' = IF p.op \in {"LPUSH", "RPUSH"} THEN clock + 1 ELSE clock
  /\ raced' = Carried(p, raced)
  /\ UNCHANGED <<store, sent, reboots, pushed, popped>>

\* Mutant: the row's id is its side and time, without the uuid.
ListAfterById(w, elem) ==
  CASE w.do = "push" -> {r \in list : r.side # w.key \/ r.ts # w.v}
                          \cup {[side |-> w.key, ts |-> w.v, v |-> elem]}
    [] w.do = "pop"  -> list \ {w.key}
    [] w.do = "lset" -> list \cup {w.key}
    [] OTHER -> list

\* The list's rows after a put or a delete: an id has a uuid in it, so a push never meets
\* a row that is there, and LSET writes the row it read, be it popped since or not.
ListAfter(w, elem) ==
  CASE w.do = "push" -> list \cup {[side |-> w.key, ts |-> w.v, v |-> elem]}
    [] w.do = "pop"  -> list \ {w.key}
    [] w.do = "lset" -> list \cup {w.key}
    [] OTHER -> list

\* One put, delete, link or unlink returns from the Sequencer.
Write(c) ==
  LET p == Head(conn[c].parts)
      w == Head(conn[c].writes)
      done == Len(conn[c].writes) = 1
      elem == [by |-> c, side |-> w.key, n |-> Cardinality(pushed)]
  IN
  /\ conn[c].pc = "write"
  /\ rows' = IF w.do \in {"put", "delete"} THEN [rows EXCEPT ![w.key] = w.v] ELSE rows
  /\ links' = CASE w.do = "link" -> links \cup {w.key}
                [] w.do = "unlink" -> links \ {w.key}
                [] OTHER -> links
  /\ list' = ListAfter(w, elem)
  /\ pushed' = IF w.do = "push" THEN pushed \cup {elem} ELSE pushed
  /\ popped' = IF w.do = "pop" THEN Append(popped, w.key.v) ELSE popped
  /\ conn' = [conn EXCEPT ![c] = IF done THEN Onward(c) ELSE [@ EXCEPT !.writes = Tail(@)]]
  /\ IF done THEN ref' = Redis(p) /\ unlike' = UnlikeAfter(p) ELSE UNCHANGED <<ref, unlike>>
  /\ raced' = RacedBy(p, Writing(Conns \ {c}))
  /\ UNCHANGED <<clock, sent, reboots>>

\* The machine restarts: connections end between two writes, and the clock starts over.
Reboot ==
  /\ reboots < MaxReboots
  /\ reboots' = reboots + 1 /\ clock' = 0
  /\ raced' = raced \cup UNION {Touches(p) : p \in {q \in Writing(Conns) : q.op \in Several}}
  /\ conn' = [c \in Conns |-> Resting]
  /\ UNCHANGED <<store, sent, ref, pushed, popped, unlike>>

Next ==
  \/ \E c \in Conns : (\E op \in Commands : Receive(c, op)) \/ Read(c) \/ Write(c)
  \/ Reboot

Spec == Init /\ [][Next]_vars

-----------------------------------------------------------------------------
(* Properties.                                                              *)

\* No part that depends on x is between its read and its last write.
Quiet(x) == \A p \in Writing(Conns) : x \notin Touches(p)

\* Strings, hash fields and the plainly named members of sets are what one Redis that
\* took the commands' parts one after the other would hold.  Excepted, until they are set
\* again, are
\*   - what another connection wrote between the read and the last write of a part, and
\*     what a part of several writes was at when the machine went down;
\*   - what RENAME of a key to itself deleted, the hash or set that DEL of its key or
\*     FLUSHDB left, and a key that RENAME made from one of these.
MatchesRedis ==
  /\ \A k \in Rows \ (raced \cup unlike) : Quiet(k) => rows[k] = ref.rows[k]
  /\ \A m \in Members \ (Odd \cup raced \cup unlike) :
       Quiet(m) => (m \in SMembers <=> m \in ref.members)

\* A list is a queue.  It neither loses nor repeats an element, also when it is pushed to
\* while it is popped, and across reboots, unless two pops, or a pop and an LSET, overlap;
\* and while the machine stays up, LRANGE gives the elements that a connection pushed on
\* one side in the order of its pushes, and those from the left first.
ListIsQueue ==
  /\ "pops" \in raced \/
       \A e \in pushed : Cardinality({r \in list : r.v = e})
                           + Cardinality({i \in DOMAIN popped : popped[i] = e}) = 1
  /\ reboots = 0 =>
       \A i, j \in 1..Cardinality(list) : i < j =>
         LET a == ListRows[i].v
             b == ListRows[j].v
         IN  /\ a.side = b.side /\ a.by = b.by => a.n < b.n
             /\ a.side = "L" \/ b.side = "R"

=============================================================================
