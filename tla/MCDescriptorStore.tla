------------------------- MODULE MCDescriptorStore -------------------------
(***************************************************************************)
(* Instances of DescriptorStore for TLC: the primary key, a column of two  *)
(* types and another column.  Calls one after the other may be more than   *)
(* calls that overlap.                                                     *)
(***************************************************************************)
EXTENDS DescriptorStore, TLC

CONSTANTS t1, t2, c1

Col(n, type) == [name |-> n, type |-> type]

TwoColumns == {Col("_id", "text"), Col("a", "text"), Col("a", "number"), Col("b", "text")}

All     == {"mongo", "dynamo", "firestore"}
Calls   == {"create", "drop", "add", "remove", "change", "describe", "list"}

Symmetry == Permutations(Tasks)

(* Calls that overlap: four of them, or three and one failure.             *)
ShortOverlaps == shared # {} => requests + failures <= 4 /\ failures <= 1
==============================================================================
