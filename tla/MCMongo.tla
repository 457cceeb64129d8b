------------------------------ MODULE MCMongo ------------------------------
(***************************************************************************)
(* Mongo and Documents on documents with two fields: numbers, null, lists  *)
(* and no value.                                                           *)
(***************************************************************************)
EXTENDS Mongo

CONSTANTS i1, i2, t1, t2

Vals(a) == [f \in {"a", "b"} |-> IF f = "a" THEN a ELSE MISSING]
Given(a, causes) == [vals |-> Vals(a), own |-> NIL, causes |-> causes]

MCPuts ==
  {Given(Num(1), {}), Given(List(<<1>>), {}), Given(MISSING, {1}), Given(MISSING, {2})}

Is(f, v)    == [f |-> f, op |-> "is", v |-> v]
Op(f, o, v) == [f |-> f, op |-> o, v |-> v]
Plain(of)   == [how |-> "plain", of |-> of]

MCAsked == {Plain({}), Plain({Is("a", Num(1))}), Plain({Is("_id", i1), Is("a", Num(1))})}

MCFilters == MCAsked \cup
  {Plain({Is("a", Null)}), Plain({Op("a", "$gt", Num(1))}),
   Plain({Op("_id", "$in", <<"set", {i1, i2}>>), Op("b", "$exists", <<"bool", FALSE>>)}),
   [how |-> "$or", of |-> {Is("a", Num(2)), Op("a", "$size", Num(1))}],
   [how |-> "$nor", of |-> {Op("a", "$in", <<"set", {Null, Num(1)}>>), Op("a", "$all", <<"set", {Num(1)}>>)}]}

A(o, v) == Op("a", o, v)

MCUpdates ==
  {<< A("$rename", <<"field", "b">>), A("$inc", Num(1)), A("$mul", Num(1)), A("$max", Null), A("$min", Num(2)),
      Op("b", "$unset", Null) >>,
   << A("$push", Num(1)), A("$addToSet", Num(1)), A("$pull", Num(2)), A("$pop", Null),
      Op("_id", "$set", i2), A("$setOnInsert", Num(2)), Op("b", "$set", Null) >>}

=============================================================================
