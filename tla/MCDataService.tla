--------------------------- MODULE MCDataService ---------------------------
(***************************************************************************)
(* Instances of DataService for TLC: two items, in bulks of different      *)
(* order, with an item twice, and alone.                                   *)
(***************************************************************************)
EXTENDS DataService

CONSTANTS t1, t2, a, b

Of(id, value) == [id |-> id, value |-> value]

TwoItems == {<<Of(a, "x"), Of(b, "x")>>, <<Of(b, "y")>>, <<Of(a, "x"), Of(a, "y")>>}

Writes == {"insert", "update", "delete", "upsert", "truncate"}
All    == Writes \cup {"find", "findCounted"}
Reads  == {"find", "findCounted"}
==============================================================================
