---------------------------- MODULE MCSchemaCache ----------------------------
(***************************************************************************)
(* Instances of SchemaCache for TLC: collections and callers are alike,    *)
(* except that only one of two tables changes twice.                       *)
(***************************************************************************)
EXTENDS SchemaCache, TLC

CONSTANTS c1, c2, t1, t2

OneChangesTwice == ver[c2] <= 1
==============================================================================
