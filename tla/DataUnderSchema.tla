--------------------------- MODULE DataUnderSchema ---------------------------
(***************************************************************************)
(* SchemaAwareDataService on top of the schema cache: data requests that   *)
(* read the schema of their collection, some of them twice, check and cut  *)
(* down what they ask of the database by it, and then ask it               *)
(* (libs/velo-external-db-core/src/service/schema_aware_data.ts).          *)
(*                                                                         *)
(* The steps of the cache are those of SchemaCache, the requests for data  *)
(* being its callers.  A schema is a version of the table there; here      *)
(* shape gives the columns of every version.                               *)
(***************************************************************************)
EXTENDS Naturals, FiniteSets

CONSTANTS
    Collections, Tasks, TTL, Latency, MaxVersion,   \* of SchemaCache
    Columns,       \* the columns, PrimaryKeyFieldName among them
    Kinds,         \* the requests that arrive
    MaxRequests    \* bound on the requests for data

PrimaryKeyFieldName == "_id"

Writes  == {"insert", "update", "upsert"}
Queries == {"find", "project", "count", "aggregate"}

ASSUME CacheAssumption ==
    TTL \in Nat \ {0} /\ Latency \in Nat /\ MaxVersion \in Nat
ASSUME KindsAssumption == Kinds \subseteq Writes \cup Queries \cup {"delete"}

VARIABLES
    ver, live, cache, pc, want, got, wait, answer, clean,   \* of SchemaCache
    shape,      \* shape[c][v]: the columns of version v of table c
    step,       \* step[t]: where the request of t is
    req,        \* req[t]: its kind, its collection and the fields it names
    first,      \* first[t]: the columns in the first schema it read
    projection, \* projection[t]: the columns it will ask for
    stored,     \* stored[t]: the fields of its item that were stored
    result,     \* result[t]: how the last request of t ended
    age,        \* history: age[c][f]: ticks that f has been a column of c
    rest,       \* history: rest[c]: ticks since table c changed
    old,        \* history: old[t]: fields that were columns for Bound ticks
                \* when t began, and still are
    steady,     \* history: t began when its table had not changed for Bound
                \* ticks, and it has not changed since
    requests    \* requests so far

Cache == INSTANCE SchemaCache

caching == <<ver, live, cache, pc, want, got, wait, answer, clean>>
data    == <<step, req, first, projection, stored, result>>
history == <<age, rest, old, steady>>
vars    == <<caching, shape, data, history, requests>>

Shapes == {s \in SUBSET Columns : PrimaryKeyFieldName \in s}

(* The columns of the table now, or none.                                  *)
Table(c) == IF c \in live THEN shape[c][ver[c]] ELSE {}

Init ==
    /\ Cache!Init
    /\ shape \in [Collections -> [1 .. MaxVersion -> Shapes]]
    /\ step = [t \in Tasks |-> "idle"]
    /\ req = [t \in Tasks |-> [kind |-> "none", coll |-> want[t], fields |-> {}]]
    /\ first = [t \in Tasks |-> {}]
    /\ projection = [t \in Tasks |-> {}]
    /\ stored = [t \in Tasks |-> {}]
    /\ result = [t \in Tasks |-> "none"]
    /\ age = [c \in Collections |-> [f \in Columns |-> 0]]
    /\ rest = [c \in Collections |-> 0]
    /\ old = [t \in Tasks |-> {}]
    /\ steady = [t \in Tasks |-> FALSE]
    /\ requests = 0

-----------------------------------------------------------------------------
(* Requests.  fields are those of the item to write, or those that a query *)
(* names: in the filter of a find or a count, in the projection of a       *)
(* "project", which is a find with one, in the aggregation and the filter  *)
(* of an aggregation.                                                      *)

Begin(t, kind, c, fields) ==
    /\ step[t] = "idle" /\ pc[t] = "idle"
    /\ requests < MaxRequests
    /\ requests' = requests + 1
    /\ step' = [step EXCEPT ![t] = "first"]
    /\ req' = [req EXCEPT ![t] = [kind |-> kind, coll |-> c, fields |-> fields]]
    /\ result' = [result EXCEPT ![t] = "none"]
    /\ old' = [old EXCEPT ![t] = {f \in Columns : age[c][f] = Cache!Bound}]
    /\ steady' = [steady EXCEPT ![t] = (c \in live /\ rest[c] = Cache!Bound)]
    /\ UNCHANGED <<caching, shape, first, projection, stored, age, rest>>

End(t, how) ==
    /\ step' = [step EXCEPT ![t] = "idle"]
    /\ result' = [result EXCEPT ![t] = how]
    /\ first' = [first EXCEPT ![t] = {}]
    /\ projection' = [projection EXCEPT ![t] = {}]

(* schemaFieldsFor answered the columns s the first time.  Filters and     *)
(* aggregations are checked; a find and an aggregation read it again.      *)
FirstRead(t, s) ==
    IF req[t].kind \in Queries \ {"project"} /\ ~ (req[t].fields \subseteq s)
      THEN End(t, "FieldDoesNotExist")
      ELSE /\ step' = [step EXCEPT ![t] =
                         IF req[t].kind \in Queries \ {"count"} THEN "second" ELSE "asking"]
           /\ first' = [first EXCEPT ![t] = s]
           /\ projection' = [projection EXCEPT ![t] =
                               IF req[t].kind = "delete" THEN s ELSE {}]
           /\ UNCHANGED result

(* projectionFor: without a projection, all the columns.                   *)
projectionFor(t, s) ==
    IF req[t].kind = "project" /\ req[t].fields # {}
      THEN {PrimaryKeyFieldName} \cup req[t].fields
      ELSE s

(* The second time.  The projection of a find is made from the second      *)
(* schema and checked against the first; an aggregation checks its filter  *)
(* against the second.                                                     *)
SecondRead(t, s) ==
    LET finding == req[t].kind \in {"find", "project"}
        asked   == IF finding THEN projectionFor(t, s) ELSE {}
    IN  IF IF finding THEN asked \subseteq first[t] ELSE req[t].fields \subseteq s
          THEN /\ step' = [step EXCEPT ![t] = "asking"]
               /\ projection' = [projection EXCEPT ![t] = asked]
               /\ UNCHANGED <<first, result>>
          ELSE End(t, "FieldDoesNotExist")

SchemaRead(t, s) ==
    \/ step[t] = "first" /\ FirstRead(t, s)
    \/ step[t] = "second" /\ SecondRead(t, s)

Reading(t) == step[t] \in {"first", "second"}
Cached(c)  == shape[c][cache[c].ver]

-----------------------------------------------------------------------------
(* The steps of the cache on behalf of a request *)

Hit(t) ==
    /\ Reading(t)
    /\ Cache!SchemaForHit(t, req[t].coll)
    /\ SchemaRead(t, Cached(req[t].coll))
    /\ UNCHANGED <<shape, req, stored, history, requests>>

Miss(t) ==
    /\ Reading(t)
    /\ Cache!SchemaForMiss(t, req[t].coll)
    /\ UNCHANGED <<shape, data, history, requests>>

(* ".fields" of an undefined schema is a TypeError.                        *)
Missed(t) ==
    /\ Reading(t)
    /\ Cache!SchemaForReturn(t)
    /\ IF cache[want[t]] = Cache!NoEntry
         THEN End(t, "TypeError")
         ELSE SchemaRead(t, Cached(want[t]))
    /\ UNCHANGED <<shape, req, stored, history, requests>>

Fails(t) ==
    /\ Reading(t)
    /\ \/ Cache!UpdateThrows(t) /\ End(t, "CollectionDoesNotExists")
       \/ Cache!ProviderFails(t) /\ End(t, "ProviderError")
    /\ UNCHANGED <<shape, req, stored, history, requests>>

(* The steps of the cache that a request waits for, refreshes, and the     *)
(* callers of schemaFor whose requests are not modelled.                   *)
CacheOnly(t) ==
    /\ \/ Cache!DescribeAnswered(t) \/ Cache!Update(t)
       \/ Cache!ListAnswered(t) \/ Cache!RefreshStore(t)
       \/ /\ step[t] = "idle"
          /\ \/ Cache!Refresh(t) \/ \E c \in Collections : Cache!SchemaForMiss(t, c)
             \/ Cache!UpdateThrows(t) \/ Cache!SchemaForReturn(t) \/ Cache!ProviderFails(t)
    /\ UNCHANGED <<shape, data, history, requests>>

-----------------------------------------------------------------------------
(* The database *)

(* Mutant: an item is written with the fields the request names.           *)
WrittenUncut(t) == req[t].fields

(* The fields of an item that prepareItemsForInsert and -Update keep.      *)
Written(t) == req[t].fields \cap first[t]

(* The columns that the storage call names.  An insertion names all of the *)
(* schema it read.                                                         *)
Asked(t) ==
    CASE req[t].kind \in {"insert", "upsert"} -> first[t]
      [] req[t].kind = "update"  -> Written(t)
      [] req[t].kind = "delete"  -> projection[t]
      [] req[t].kind \in Queries -> req[t].fields \cup projection[t]

(* An UPDATE statement needs something to set.                             *)
Wellformed(t) ==
    req[t].kind = "update" => Written(t) \ {PrimaryKeyFieldName} # {}

Accepted(t) ==
    /\ req[t].coll \in live
    /\ Asked(t) \subseteq Table(req[t].coll)
    /\ Wellformed(t)

(* The results of insert, update and delete are told item by item, and the *)
(* items are deleted though they could not be read.                        *)
Ask(t) ==
    /\ step[t] = "asking"
    /\ stored' = [stored EXCEPT ![t] =
                    IF req[t].kind \in Writes /\ Accepted(t) THEN Written(t) ELSE {}]
    /\ End(t, IF Accepted(t) THEN "ok"
              ELSE IF req[t].kind \in {"insert", "update", "delete"} THEN "itemErrors"
              ELSE "DbError")
    /\ UNCHANGED <<caching, shape, req, history, requests>>

ChangeTable(c) ==
    /\ Cache!CreateOrAlterTable(c) \/ Cache!DropTable(c)
    /\ LET columns == IF c \in live' THEN shape[c][ver'[c]] ELSE {}
           kept    == Table(c) \cap columns
       IN  /\ age' = [age EXCEPT ![c] = [f \in Columns |->
                                            IF f \in kept THEN age[c][f] ELSE 0]]
           /\ old' = [t \in Tasks |-> IF req[t].coll = c THEN old[t] \cap kept ELSE old[t]]
    /\ rest' = [rest EXCEPT ![c] = 0]
    /\ steady' = [t \in Tasks |-> steady[t] /\ req[t].coll # c]
    /\ UNCHANGED <<shape, data, requests>>

Older(n) == IF n < Cache!Bound THEN n + 1 ELSE n

Tick ==
    /\ Cache!Tick
    /\ age' = [c \in Collections |-> [f \in Columns |->
                  IF f \in Table(c) THEN Older(age[c][f]) ELSE 0]]
    /\ rest' = [c \in Collections |-> Older(rest[c])]
    /\ UNCHANGED <<shape, data, old, steady, requests>>

-----------------------------------------------------------------------------
Arrive(t) ==
    \E kind \in Kinds, c \in Collections :
        \/ kind = "delete" /\ Begin(t, kind, c, {})
        \/ kind # "delete" /\ \E fields \in SUBSET Columns : Begin(t, kind, c, fields)

Next ==
    \/ \E t \in Tasks : Arrive(t) \/ Hit(t) \/ Miss(t) \/ Missed(t) \/ Fails(t)
                          \/ CacheOnly(t) \/ Ask(t)
    \/ \E c \in Collections : ChangeTable(c)
    \/ Tick

Spec == Init /\ [][Next]_vars

-----------------------------------------------------------------------------
(* Properties *)

(* A request about a table that has been as it is for the time to live of a*)
(* cached schema and one provider call sees exactly that table, whatever   *)
(* describes and refreshes of others run meanwhile: unknown fields of      *)
(* queries are refused, unknown fields of items are left out, all others   *)
(* are written, and the database is asked for nothing it does not have.  A *)
(* request whose describe failed, or that found the cache flushed, is      *)
(* answered an error of its own.                                           *)
StableExact ==
    \A t \in Tasks :
        steady[t] /\ result[t] \notin {"none", "ProviderError", "TypeError"} =>
            LET known == req[t].fields \cap Table(req[t].coll) IN
            /\ result[t] = CASE req[t].kind \in Queries /\ req[t].fields # known
                                   -> "FieldDoesNotExist"
                             [] req[t].kind = "update" /\ known \subseteq {PrimaryKeyFieldName}
                                   -> "itemErrors"
                             [] OTHER -> "ok"
            /\ result[t] = "ok" /\ req[t].kind \in Writes => stored[t] = known

(* An item loses fields silently: those that the schema it is prepared with*)
(* does not have.  But never, however the table changes meanwhile, a field *)
(* that has been a column for as long as a cached schema may be stale.     *)
OldFieldsKept ==
    \A t \in Tasks :
        result[t] = "ok" /\ req[t].kind \in Writes =>
            req[t].fields \cap old[t] \subseteq stored[t]
=============================================================================
