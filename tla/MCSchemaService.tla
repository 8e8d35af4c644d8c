--------------------------- MODULE MCSchemaService ---------------------------
(***************************************************************************)
(* Instances of SchemaService for TLC.  The requests ask for the primary   *)
(* key, which nobody removes, and for columns that differ pairwise in being*)
(* there and in their type.                                                *)
(***************************************************************************)
EXTENDS SchemaService, TLC

CONSTANTS t1, t2, c1

Plain(type)     == [type |-> type, encrypted |-> FALSE]
Encrypted(type) == [type |-> type, encrypted |-> TRUE]

Key == "_id" :> Plain("TEXT")

(* a comes and goes and changes its type, b is encrypted or a time of day, *)
(* which two of the requests keep, and one forgets the primary key.        *)
Retyping   == {Key @@ ("a" :> Plain("TEXT")),
               Key @@ ("a" :> Plain("NUMBER")) @@ ("b" :> Plain("TIME")),
               Key @@ ("a" :> Plain("NUMBER")) @@ ("b" :> Encrypted("TEXT")),
               "b" :> Plain("TIME")}
Adding     == {Key, Key @@ ("a" :> Plain("TEXT")) @@ ("b" :> Plain("TEXT"))}

(* What the providers support, and which of their operations are atomic.   *)
(* BigQuery removes a column by writing the table anew from what it reads: *)
(* whether two such statements see one another is left open.               *)
All       == {"create", "add", "remove", "change"}
Sql(d)    == [dialect |-> d, supported |-> All, throws |-> {}, twoSteps |-> {}]
Spanner   == [Sql("spanner") EXCEPT !.throws = {"change"}]
Bigquery  == [Sql("bigquery") EXCEPT !.supported = All \ {"change"}]
Rewriting == [Bigquery EXCEPT !.twoSteps = {"remove"}]
Firestore == [dialect |-> "descriptors", supported |-> All \ {"change"},
              throws |-> {}, twoSteps |-> {"add", "remove"}]

Changing      == {Sql("postgres"), Sql("mysql"), Sql("mssql")}
AllProviders  == Changing \cup {Spanner, Bigquery, Rewriting, Firestore}
OnlyFirestore == {Firestore}

-----------------------------------------------------------------------------
(* A client that creates a collection and then updates it, repeating each  *)
(* request until it is answered with success.                              *)
First  == Key @@ ("a" :> Plain("TEXT")) @@ ("b" :> Plain("TEXT"))
Second == Key @@ ("b" :> Plain("NUMBER")) @@ ("c" :> Plain("TEXT")) @@ ("d" :> Plain("DATE"))
Both   == {First, Second}

Retry(t) ==
    \/ outcome[t] # "ok" /\ fields[t] # Second /\ CreateStart(t, c1, First)
    \/ outcome[t] = "ok" /\ fields[t] = First /\ UpdateStart(t, c1, Second)
    \/ outcome[t] # "ok" /\ fields[t] = Second /\ UpdateStart(t, c1, Second)

RetryNext ==
    \/ \E t \in Tasks : Retry(t) \/ Proceed(t) \/ Fail(t)
    \/ Background
    \/ Restart

RetrySpec == Init /\ [][RetryNext]_vars /\ Fairness
                  /\ \A t \in Tasks : WF_vars(Retry(t))

(* A client that repeats its requests until they succeed gets the table it *)
(* asked for, and keeps it: nothing an attempt left half done, or still    *)
(* under way, makes the next ones fail for ever or undoes them later.  The *)
(* date among its columns is listed as a date and asked for as a datetime, *)
(* so every attempt that finds it there changes its type once more.        *)
RetriesConverge ==
    <>[](db = [c \in Collections |-> Stored(Second)] /\ cache = Shown)
==============================================================================
