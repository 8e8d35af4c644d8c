-------------------------- MODULE MCDataUnderSchema --------------------------
(***************************************************************************)
(* Instances of DataUnderSchema for TLC: one table of two versions with    *)
(* the primary key and a column that may come or go between them.          *)
(***************************************************************************)
EXTENDS DataUnderSchema, TLC

CONSTANTS c1, t1, t2

OneColumn == {"_id", "a"}
AllKinds  == {"insert", "update", "upsert", "delete", "find", "project", "count",
              "aggregate"}

(* Behaviours are followed until the last request has been answered.       *)
Unanswered == requests < MaxRequests \/ \E t \in Tasks : step[t] # "idle"


(* The variables of the cache that no step reads are not told apart.       *)
Seen == <<ver, live, cache, pc, got, wait, shape, data, history, requests>>

Symmetry  == Permutations({t1, t2})
==============================================================================
