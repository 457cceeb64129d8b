------------------------------- MODULE Mongo -------------------------------
(***************************************************************************)
(* mongo.py over module Documents: filters, updates and the calls of       *)
(* Collection.  A filter is how its conditions are combined and a set of   *)
(* them; "is" is {f: v}, the other operators are {f: {op: v}}.  An update  *)
(* is a sequence of [op, f, v].                                            *)
(***************************************************************************)
EXTENDS Documents

CONSTANTS Filters,      \* what find() is asked for
          Asked,        \* the filters of calls that write
          Updates       \* what updates do: [op, f, v]

VARIABLES raced,        \* history: ids written between a call's read and its write of them
          replaced      \* history: ids whose document an insert overwrote

ASSUME MongoAssumption == Asked \subseteq Filters

allvars == <<vars, raced, replaced>>

MongoInit == Init /\ raced = {} /\ replaced = {}

-----------------------------------------------------------------------------
(* Filters.                                                                 *)

\* _eq: null matches a field that is not there, a scalar matches a member of a list.
Eq(actual, v) ==
  CASE actual = MISSING -> v = Null
    [] IsList(actual) /\ ~IsList(v) -> v \in Elements(actual)
    [] OTHER -> actual = v

\* _cmp: a list compares if one of its elements does.
Cmp(actual, op, v) ==
  IF IsList(actual)
  THEN \E e \in Elements(actual) : Compare(e, op, v)
  ELSE Compare(actual, op, v)

\* _match_op; the operand of $in and $all is tagged with "set", that of $exists with "bool".
MatchOp(actual, op, v) ==
  CASE op \in {"is", "$eq"} -> Eq(actual, v)
    [] op = "$ne"  -> ~Eq(actual, v)
    [] op = "$gt"  -> Cmp(actual, ">", v)
    [] op = "$lt"  -> Cmp(actual, "<", v)
    [] op = "$in"  -> IF actual = MISSING THEN Null \in v[2]
                      ELSE IF IsList(actual) THEN Elements(actual) \cap v[2] # {} ELSE actual \in v[2]
    [] op = "$exists" -> (actual # MISSING) = v[2]
    [] op = "$size" -> IsList(actual) /\ Len(actual) - 1 = v[2]
    [] op = "$all" -> IsList(actual) /\ v[2] \subseteq Elements(actual)

\* _get_path and _match_field; _id is never a list, and never missing.
MatchField(doc, c) ==
  IF c.f = "_id"
  THEN IF c.op = "is" THEN doc["_id"] = c.v ELSE doc["_id"] \in c.v[2]
  ELSE MatchOp(doc[c.f], c.op, c.v)

\* _match
Match(doc, filt) ==
  CASE filt.how \in {"plain", "$and"} -> \A c \in filt.of : MatchField(doc, c)
    [] filt.how = "$or"  -> \E c \in filt.of : MatchField(doc, c)
    [] filt.how \in {"$nor", "$not"} -> ~\E c \in filt.of : MatchField(doc, c)

\* Mutant: a condition with an operator is narrowed as if it were an equality.
NarrowedByAny(filt) ==
  {c \in filt.of : filt.how = "plain" /\ c.f = Indexed /\ c.op \in {"is", "$gt"} /\ config}

\* The conditions _candidates leaves to the equality index: scalars only.
Narrowed(filt) ==
  {c \in filt.of : filt.how = "plain" /\ c.f = Indexed /\ c.op = "is" /\ ~IsList(c.v) /\ config}

\* _candidates: by _id, by the equality index, or all; ids under which documents are.
MongoCandidates(filt) ==
  LET byid == {c \in filt.of : filt.how = "plain" /\ c.f = "_id"} IN
  IF byid # {}
  THEN LET c == CHOOSE x \in byid : TRUE IN Live \cap (IF c.op = "is" THEN {c.v} ELSE c.v[2])
  ELSE Execute({[f |-> c.f, op |-> "=", v |-> c.v] : c \in Narrowed(filt)}, Len(ops))

\* _find_docs
Find(filt) == {id \in MongoCandidates(filt) : Match(Get(id), filt)}

-----------------------------------------------------------------------------
(* Updates.                                                                 *)

NumOrZero(v) == IF IsNum(v) THEN v[2] ELSE 0

Items(v) == IF IsList(v) THEN Tail(v) ELSE << >>

\* _sort_key for the types there are: null, numbers, the rest.
Rank(v) == CASE v \in {Null, MISSING} -> <<0, 0>> [] IsNum(v) -> <<2, v[2]>> [] OTHER -> <<4, 0>>

RankLess(a, b) == a[1] < b[1] \/ (a[1] = b[1] /\ a[2] < b[2])

\* _apply_update for one operator.
ApplyOne(doc, u) ==
  LET cur == doc[u.f]
      set(v) == [doc EXCEPT ![u.f] = v]
  IN
  CASE u.op = "$set" -> set(u.v)
    [] u.op = "$setOnInsert" -> doc
    [] u.op = "$unset" -> set(MISSING)
    [] u.op = "$inc" -> set(Num(NumOrZero(cur) + u.v[2]))
    [] u.op = "$mul" -> set(Num(NumOrZero(cur) * u.v[2]))
    [] u.op = "$min" -> IF cur = MISSING \/ RankLess(Rank(u.v), Rank(cur)) THEN set(u.v) ELSE doc
    [] u.op = "$max" -> IF cur = MISSING \/ RankLess(Rank(cur), Rank(u.v)) THEN set(u.v) ELSE doc
    [] u.op = "$rename" -> IF cur = MISSING THEN doc ELSE [doc EXCEPT ![u.f] = MISSING, ![u.v[2]] = cur]
    [] u.op = "$push" -> set(List(Append(Items(cur), u.v[2])))
    [] u.op = "$addToSet" -> IF u.v[2] \in Range(Items(cur)) THEN doc ELSE set(List(Append(Items(cur), u.v[2])))
    [] u.op = "$pull" -> IF IsList(cur) THEN set(List(SelectSeq(Items(cur), LAMBDA x : x # u.v[2]))) ELSE doc
    [] u.op = "$pop" -> IF IsList(cur) /\ Items(cur) # << >> THEN set(List(Tail(Items(cur)))) ELSE doc

\* Mutant: $set may change the _id.
UpdatedWithId(doc, us) == FoldLeft(ApplyOne, doc, us)

\* The loop of _update: the operators, and the _id it had.
Updated(doc, us) == [FoldLeft(ApplyOne, doc, us) EXCEPT !["_id"] = doc["_id"]]

OnInsert(us) == [i \in DOMAIN us |-> IF us[i].op = "$setOnInsert" THEN [us[i] EXCEPT !.op = "$set"] ELSE us[i]]

\* The document an upsert starts from: the plain equalities of the filter.
Seed(filt, id) ==
  LET given(f) == {c \in filt.of : filt.how = "plain" /\ c.f = f /\ c.op = "is" /\ ~IsList(c.v)}
  IN  Doc(id, [f \in Fields |-> IF given(f) = {} THEN MISSING ELSE (CHOOSE c \in given(f) : TRUE).v], {})

\* The _id of an upserted document: the filter's, or a new ObjectId.
UpsertIds(filt) ==
  LET named == {c.v : c \in {x \in filt.of : filt.how = "plain" /\ x.f = "_id" /\ x.op = "is"}}
  IN  IF named # {} THEN named ELSE {id \in Ids : \A s \in DOMAIN ops : ops[s].id # id}

-----------------------------------------------------------------------------
(* Calls of Collection.                                                     *)

Docs(ids) == {Get(id) : id \in ids}

\* Puts of the changed documents, each under the _id in the document.
Rewrites(docs, new) ==
  LET changed == SetToSeq({d \in docs : new[d] # d})
  IN  [i \in DOMAIN changed |-> PutOf(new[changed[i]]["_id"], new[changed[i]])]

Deletes(docs) ==
  LET seq == SetToSeq(docs) IN [i \in DOMAIN seq |-> DeleteOf(seq[i]["_id"])]

Calm == UNCHANGED <<raced, replaced>>

\* Mutant: insert_one puts without a look.
InsertOneBlind(t) ==
  \E id \in Ids, p \in Puts : Starts(t, "insert", << PutOf(id, Doc(id, p.vals, {})) >>) /\ Calm

\* insert_one; insert_many is a sequence of them.
InsertOne(t) ==
  \E id \in Ids, p \in Puts :
    /\ Starts(t, "insert", IF Get(id) # NIL THEN << >> ELSE << PutOf(id, Doc(id, p.vals, {})) >>)
    /\ Calm

\* update_one, update_many
Update(t) ==
  \E filt \in Asked :
    LET found == Docs(Find(filt)) IN
    \E u \in Updates, targets \in {found} \cup {{d} : d \in found} :
      /\ Starts(t, "update", Rewrites(targets, [d \in targets |-> Updated(d, u)]))
      /\ Calm

\* update_one, update_many and replace_one with upsert when nothing matches: they do not
\* look at what is stored under the _id.
Upsert(t) ==
  \E filt \in Asked :
    /\ Find(filt) = {}
    /\ \E id \in UpsertIds(filt) :
         \E doc \in {FoldLeft(ApplyOne, Seed(filt, id), OnInsert(u)) : u \in Updates}
                       \cup {Doc(id, p.vals, {}) : p \in Puts} :
           Starts(t, "upsert", << PutOf(doc["_id"], doc) >>)
    /\ Calm

\* replace_one
ReplaceOne(t) ==
  \E filt \in Asked, p \in Puts : \E d \in Docs(Find(filt)) :
    /\ Starts(t, "update", Rewrites({d}, [x \in {d} |-> Doc(x["_id"], p.vals, {})]))
    /\ Calm

\* delete_one, and delete_many and drop
DeleteOne(t) ==
  \E filt \in Asked : \E d \in Docs(Find(filt)) : Starts(t, "delete", Deletes({d})) /\ Calm

DeleteMany(t) ==
  \E filt \in Asked : Starts(t, "delete", Deletes(Docs(Find(filt)))) /\ Calm

\* Calls that are between their read and a write of this id.
Meets(id, threads) == {id} \cap {w.id : w \in UNION {Range(calls[s].writes) : s \in threads}}

\* A write of a call, with what it meets.
MongoStep(t) ==
  /\ Step(t)
  /\ LET w == Head(calls[t].writes) IN
     /\ raced' = raced \cup Meets(w.id, Threads \ {t})
     /\ replaced' = IF calls[t].kind = "insert" /\ Get(w.id) # NIL THEN replaced \cup {w.id} ELSE replaced

Other(id) == raced' = raced \cup Meets(id, Threads) /\ UNCHANGED replaced

MongoNext ==
  \/ \E t \in Threads :
       \/ SqlUpdate(t) /\ Calm
       \/ InsertOne(t) \/ Update(t) \/ Upsert(t) \/ ReplaceOne(t) \/ DeleteOne(t) \/ DeleteMany(t)
       \/ MongoStep(t)
  \/ \E id \in Ids : Other(id) /\ (SqlDelete(id) \/ \E p \in Puts : Put(id, p) \/ SqlInsert(id, p))
  \/ (Index \/ AutoQuery) /\ Calm

MongoSpec == MongoInit /\ [][MongoNext]_allvars

-----------------------------------------------------------------------------
(* Properties.                                                              *)

\* No document was ever put under another id than its own.
OwnId == \A s \in DOMAIN ops : ops[s].do = "put" => ops[s].doc["_id"] = ops[s].id

AsksNull(filt) == \E c \in Narrowed(filt) : c.v = Null

\* find() returns the documents that match its filter, all of them and only them, by
\* whichever of the three paths _candidates takes.  Excepted are filters for null on an
\* indexed field, indexes that a list met, and filters by _id once a document was put
\* under another id than its own.
FindIsMatch ==
  \A filt \in Filters :
    ~unfit /\ ~AsksNull(filt) /\ (OwnId \/ \A c \in filt.of : c.f # "_id") =>
      Find(filt) = {id \in Live : Match(Get(id), filt)}

\* insert_one never overwrites a document, unless another thread wrote its _id between its
\* look and its put.
InsertsAreNew == replaced \subseteq raced

\* An update or a replacement neither adds nor removes a document, unless the one it read
\* was deleted since or a document was put under another id than its own.
UpdatesKeepIds ==
  [][\A t \in Threads :
       calls[t].kind = "update" /\ calls'[t] # calls[t] /\ OwnId /\ ~unfit' =>
         Live' = Live \/ Head(calls[t].writes).id \in raced \cup raced']_allvars

=============================================================================
