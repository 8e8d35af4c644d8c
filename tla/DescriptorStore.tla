-------------------------- MODULE DescriptorStore --------------------------
(***************************************************************************)
(* The schema providers of databases without a schema: MongoDB, DynamoDB   *)
(* and Firestore keep the columns of every collection in a descriptor, a   *)
(* document of the collection "_descriptor"                                *)
(* (libs/external-db-{mongo,dynamodb,firestore}/src/*_schema_provider.ts). *)
(*                                                                         *)
(* Every operation reads the descriptor, decides, and writes; creating and *)
(* dropping a collection write the descriptor first and then, in MongoDB   *)
(* and DynamoDB, create or drop the table that holds the items.  The three *)
(* differ in what the write does if the descriptor is no longer what was   *)
(* read: MongoDB adds and removes inside the database but replaces the     *)
(* list to change a type, DynamoDB appends but replaces the list to remove *)
(* and to change, and Firestore replaces the list always.                  *)
(***************************************************************************)
EXTENDS Integers, Sequences, SequencesExt, FiniteSets

CONSTANTS
    Tasks,        \* concurrent calls of the provider
    Collections,  \* the collections
    Columns,      \* the columns, records [name, type]; their names include _id
    Stores,       \* the databases, among "mongo", "dynamo" and "firestore"
    Kinds,        \* the operations that are called
    MaxRequests,  \* bound on the calls
    MaxFailures   \* bound on the failures

PrimaryKeyFieldName == "_id"

ASSUME StoresAssumption == Stores \subseteq {"mongo", "dynamo", "firestore"}
ASSUME KindsAssumption ==
    Kinds \subseteq {"create", "drop", "add", "remove", "change", "describe", "list"}
ASSUME ColumnsAssumption == \E col \in Columns : col.name = PrimaryKeyFieldName

VARIABLES
    store,     \* the database
    system,    \* the collection of descriptors exists
    desc,      \* desc[c]: the descriptor of c, or NoDescriptor
    tables,    \* the collections that have a table
    pc,        \* pc[t]: what call t waits for
    req,       \* req[t]: what was called
    seen,      \* seen[t]: the columns that t read
    answer,    \* answer[t]: how t's last call ended, until the next call
    healed,    \* history: c was dropped, and not touched since
    shared,    \* history: the calls that overlap or overlapped another one
    requests,  \* calls so far
    failures   \* failures so far

vars == <<store, system, desc, tables, pc, req, seen, answer, healed, shared,
          requests, failures>>

NoDescriptor == [exists |-> FALSE, fields |-> <<>>]
Descriptor(fields) == [exists |-> TRUE, fields |-> fields]

Named(fields) == {fields[i].name : i \in DOMAIN fields}

(* The columns that do not have this name, in their order. *)
Without(fields, n) ==
    LET kept[i \in 0 .. Len(fields)] ==
            IF i = 0 THEN <<>>
            ELSE IF fields[i].name = n THEN kept[i - 1]
            ELSE Append(kept[i - 1], fields[i])
    IN  kept[Len(fields)]

Replaced(fields, col) ==
    [i \in DOMAIN fields |-> IF fields[i].name = col.name THEN col ELSE fields[i]]

(* $addToSet *)
AddToSet(fields, col) == IF Contains(fields, col) THEN fields ELSE Append(fields, col)

Key == CHOOSE col \in Columns : col.name = PrimaryKeyFieldName

NoCall == [kind |-> "none"]

ColumnKinds == {"add", "remove", "change"}

Init ==
    /\ store \in Stores
    /\ system = (store = "firestore")
    /\ desc = [c \in Collections |-> NoDescriptor]
    /\ tables = {}
    /\ pc = [t \in Tasks |-> "idle"]
    /\ req = [t \in Tasks |-> NoCall]
    /\ seen = [t \in Tasks |-> <<>>]
    /\ answer = [t \in Tasks |-> "none"]
    /\ healed = {}
    /\ shared = {}
    /\ requests = 0
    /\ failures = 0

-----------------------------------------------------------------------------
(* Calls *)

(* Every operation of DynamoDB starts with ensureSystemTableExists. *)
FirstStep(kind) ==
    IF store = "dynamo" \/ (store = "mongo" /\ kind = "list") THEN "ensuring"
    ELSE IF kind = "drop" THEN "writing"
    ELSE "reading"

(* Mutant: the primary key may be removed. *)
AllowedAlways(kind, col) == TRUE

(* validateSystemFields: changing a type is not checked by all of them.    *)
Allowed(kind, col) ==
    col.name = PrimaryKeyFieldName =>
        kind \notin ColumnKinds \/ (kind = "change" /\ store # "dynamo")

(* A collection is created with the primary key, named once; the service   *)
(* calls changeColumnType for a column it found described; some operations *)
(* name no column.                                                         *)
Planned(kind, c, col) ==
    CASE kind = "create" -> col.name = PrimaryKeyFieldName => col = Key
      [] kind = "change" -> store # "firestore" /\ col.name \in Named(desc[c].fields)
      [] kind \in {"drop", "describe", "list"} -> col = Key
      [] OTHER -> TRUE

(* The calls under way. *)
Busy == {t \in Tasks : pc[t] # "idle"}

Call(t, kind, c, col) ==
    /\ pc[t] = "idle"
    /\ requests < MaxRequests
    /\ Allowed(kind, col)
    /\ Planned(kind, c, col)
    /\ requests' = requests + 1
    /\ pc' = [pc EXCEPT ![t] = FirstStep(kind)]
    /\ req' = [u \in Tasks |-> IF u = t THEN [kind |-> kind, coll |-> c, col |-> col]
                               ELSE IF u \in Busy THEN req[u] ELSE NoCall]
    /\ seen' = [u \in Tasks |-> IF u \in Busy THEN seen[u] ELSE <<>>]
    /\ answer' = [u \in Tasks |-> "none"]
    /\ healed' = IF kind = "create" /\ Busy = {} THEN healed ELSE healed \ {c}
    /\ shared' = IF Busy = {} THEN shared \ {t} ELSE shared \cup Busy \cup {t}
    /\ UNCHANGED <<store, system, desc, tables, failures>>

Goto(t, step) ==
    /\ pc' = [pc EXCEPT ![t] = step]
    /\ UNCHANGED <<answer, failures>>

(* A call returns; the answer may get lost on its way from the database.   *)
Return(t, result) ==
    /\ pc' = [pc EXCEPT ![t] = "idle"]
    /\ \/ /\ answer' = [answer EXCEPT ![t] = result]
          /\ UNCHANGED failures
       \/ /\ failures < MaxFailures
          /\ failures' = failures + 1
          /\ answer' = [answer EXCEPT ![t] = "DbError"]

(* A drop that nobody interfered with, and whose answer arrives, heals. *)
Heals(t) == IF t \notin shared /\ failures' = failures THEN {req[t].coll} ELSE {}

(* Mutant: the system table is taken to be there. *)
EnsureNothing(t) ==
    /\ pc[t] = "ensuring"
    /\ Goto(t, IF req[t].kind = "drop" THEN "writing" ELSE "reading")
    /\ UNCHANGED <<store, system, desc, tables, req, seen, healed, shared, requests>>

EnsureSystemTable(t) ==
    /\ pc[t] = "ensuring"
    /\ IF system
         THEN Goto(t, IF req[t].kind = "drop" THEN "writing" ELSE "reading")
         ELSE Goto(t, "creatingSystem")
    /\ UNCHANGED <<store, system, desc, tables, req, seen, healed, shared, requests>>

(* Two calls that both found no system table both create it. *)
CreateSystemTable(t) ==
    /\ pc[t] = "creatingSystem"
    /\ system' = TRUE
    /\ IF system
         THEN Return(t, "DbError")
         ELSE Goto(t, IF req[t].kind = "drop" THEN "writing" ELSE "reading")
    /\ UNCHANGED <<store, desc, tables, req, seen, healed, shared, requests>>

(* Mutant: addColumn does not look for the column. *)
VerdictUnchecked(kind, d, name) ==
    IF kind = "list" THEN "ok"
    ELSE IF kind = "create" THEN IF d.exists THEN "ok" ELSE ""
    ELSE IF ~ d.exists THEN "CollectionDoesNotExists"
    ELSE IF kind = "describe" THEN "ok" ELSE ""

(* What an operation decides once it has read the descriptor: "" to go on. *)
Verdict(kind, d, name) ==
    IF kind = "list" THEN "ok"
    ELSE IF kind = "create" THEN IF d.exists THEN "ok" ELSE ""
    ELSE IF ~ d.exists THEN "CollectionDoesNotExists"
    ELSE CASE kind = "describe" -> "ok"
           [] kind = "add" -> IF name \in Named(d.fields) THEN "FieldAlreadyExists" ELSE ""
           [] kind = "remove" -> IF name \in Named(d.fields) THEN "" ELSE "FieldDoesNotExist"
           [] kind = "change" -> IF store = "dynamo" /\ name \notin Named(d.fields)
                                   THEN "FieldDoesNotExist" ELSE ""

Read(t) ==
    /\ pc[t] = "reading"
    /\ LET d == desc[req[t].coll]
           verdict == Verdict(req[t].kind, d, req[t].col.name)
       IN  /\ seen' = [seen EXCEPT ![t] = d.fields]
           /\ IF verdict = "" THEN Goto(t, "writing") ELSE Return(t, verdict)
    /\ UNCHANGED <<store, system, desc, tables, req, healed, shared, requests>>

-----------------------------------------------------------------------------
(* The write of an operation that read the columns r; d is the descriptor  *)
(* now.  Columns of a new collection: the primary key and one more.        *)

NewFields(col) == AddToSet(<<Key>>, col)

(* Mutant: the list that was read is written back without the column. *)
MongoWriteList(kind, col, r, d) ==
    IF ~ d.exists THEN IF kind = "create" THEN Descriptor(NewFields(col)) ELSE d
    ELSE CASE kind = "add"     -> Descriptor(AddToSet(d.fields, col))
           [] kind = "remove"  -> Descriptor(Without(r, col.name))
           [] kind = "change"  -> Descriptor(Append(Without(r, col.name), col))
           [] OTHER            -> d

MongoWrite(kind, col, r, d) ==
    IF ~ d.exists THEN IF kind = "create" THEN Descriptor(NewFields(col)) ELSE d
    ELSE CASE kind = "add"     -> Descriptor(AddToSet(d.fields, col))
           [] kind = "remove"  -> Descriptor(Without(d.fields, col.name))
           [] kind = "change"  -> Descriptor(Append(Without(r, col.name), col))
           [] OTHER            -> d

(* An update expression that sets the list creates the item if it is gone. *)
DynamoWrite(kind, col, r, d) ==
    CASE kind = "create"  -> Descriptor(NewFields(col))
      [] kind = "add"     -> IF d.exists THEN Descriptor(Append(d.fields, col)) ELSE d
      [] kind = "remove"  -> Descriptor(Without(r, col.name))
      [] kind = "change"  -> Descriptor(Replaced(r, col))

FirestoreWrite(kind, col, r, d) ==
    IF kind = "create" THEN Descriptor(NewFields(col))
    ELSE IF ~ d.exists THEN d
    ELSE CASE kind = "add"     -> Descriptor(Append(r, col))
           [] kind = "remove"  -> Descriptor(Without(r, col.name))

Written(kind, col, r, d) ==
    CASE store = "mongo"     -> MongoWrite(kind, col, r, d)
      [] store = "dynamo"    -> DynamoWrite(kind, col, r, d)
      [] store = "firestore" -> FirestoreWrite(kind, col, r, d)

(* insertOne finds the descriptor there; an append or an update of a       *)
(* document finds it gone.                                                 *)
WriteFails(kind, d) ==
    \/ kind = "create" /\ d.exists /\ store = "mongo"
    \/ kind = "add" /\ ~ d.exists /\ store # "mongo"
    \/ kind = "remove" /\ ~ d.exists /\ store = "firestore"

Write(t) ==
    /\ pc[t] = "writing"
    /\ req[t].kind # "drop"
    /\ LET c == req[t].coll
           kind == req[t].kind
       IN  IF WriteFails(kind, desc[c])
             THEN UNCHANGED <<desc, system>> /\ Return(t, "DbError")
             ELSE /\ desc' = [desc EXCEPT ![c] = Written(kind, req[t].col, seen[t], desc[c])]
                  /\ system' = (system \/ store = "mongo")
                  /\ IF kind = "create" /\ store # "firestore"
                       THEN Goto(t, "creating")
                       ELSE Return(t, "ok")
    /\ UNCHANGED <<store, tables, req, seen, healed, shared, requests>>

(* createCollection, createTable: an error if the table is there. *)
CreateTable(t) ==
    /\ pc[t] = "creating"
    /\ tables' = tables \cup {req[t].coll}
    /\ Return(t, IF req[t].coll \in tables THEN "DbError" ELSE "ok")
    /\ UNCHANGED <<store, system, desc, req, seen, healed, shared, requests>>

(* Mutant: the table goes first, and its absence ends the call. *)
DeleteAfterTable(t) ==
    /\ pc[t] = "writing"
    /\ req[t].kind = "drop"
    /\ IF store # "firestore" /\ req[t].coll \notin tables
         THEN /\ Return(t, "CollectionDoesNotExists")
              /\ healed' = healed \cup Heals(t)
              /\ UNCHANGED desc
         ELSE /\ Goto(t, "dropping")
              /\ desc' = [desc EXCEPT ![req[t].coll] = NoDescriptor]
              /\ UNCHANGED healed
    /\ UNCHANGED <<store, system, tables, req, seen, shared, requests>>

(* MongoDB drops the table only of a collection it found a descriptor of.  *)
DeleteDescriptor(t) ==
    /\ pc[t] = "writing"
    /\ req[t].kind = "drop"
    /\ desc' = [desc EXCEPT ![req[t].coll] = NoDescriptor]
    /\ IF store = "dynamo" \/ (store = "mongo" /\ desc[req[t].coll].exists)
         THEN Goto(t, "dropping") /\ UNCHANGED healed
         ELSE /\ Return(t, "ok")
              /\ healed' = healed \cup Heals(t)
    /\ UNCHANGED <<store, system, tables, req, seen, shared, requests>>

DropTable(t) ==
    /\ pc[t] = "dropping"
    /\ tables' = tables \ {req[t].coll}
    /\ Return(t, IF req[t].coll \in tables THEN "ok" ELSE "CollectionDoesNotExists")
    /\ healed' = healed \cup Heals(t)
    /\ UNCHANGED <<store, system, desc, req, seen, shared, requests>>

-----------------------------------------------------------------------------
(* The call fails before its next step: the database, or the process.      *)
Fail(t) ==
    /\ pc[t] # "idle"
    /\ failures < MaxFailures
    /\ failures' = failures + 1
    /\ pc' = [pc EXCEPT ![t] = "idle"]
    /\ answer' = [answer EXCEPT ![t] = "DbError"]
    /\ healed' = healed \ {req[t].coll}
    /\ UNCHANGED <<store, system, desc, tables, req, seen, shared, requests>>

(* MongoDB creates the table of an item that is inserted without one. *)
InsertItem(c) ==
    /\ store = "mongo"
    /\ desc[c].exists
    /\ tables' = tables \cup {c}
    /\ UNCHANGED <<store, system, desc, pc, req, seen, answer, healed, shared, requests, failures>>

Step(t) ==
    \/ EnsureSystemTable(t) \/ CreateSystemTable(t)
    \/ Read(t) \/ Write(t) \/ CreateTable(t)
    \/ DeleteDescriptor(t) \/ DropTable(t)

Next ==
    \/ \E t \in Tasks :
          \/ \E kind \in Kinds, c \in Collections, col \in Columns : Call(t, kind, c, col)
          \/ Step(t)
          \/ Fail(t)
    \/ \E c \in Collections : InsertItem(c)

Spec == Init /\ [][Next]_vars

-----------------------------------------------------------------------------
(* Properties *)

IsDescriptor(d) == d.fields \in Seq(Columns) /\ (~ d.exists => d.fields = <<>>)

TypeOK ==
    /\ \A c \in Collections : IsDescriptor(desc[c])
    /\ tables \subseteq Collections
    /\ \A t \in Tasks :
          /\ pc[t] \in {"idle", "ensuring", "creatingSystem", "reading", "writing",
                        "creating", "dropping"}
          /\ seen[t] \in Seq(Columns)
    /\ \A c \in Collections : desc[c].exists => system

(* The columns of every collection, as the descriptors have them.          *)
Described ==
    [c \in Collections |->
        [exists |-> desc[c].exists, columns |-> ToSet(desc[c].fields)]]

Catalogue == INSTANCE ColumnCatalogue WITH catalogue <- Described

(* Callers that come one after the other, and may be cut short anywhere,   *)
(* see a catalogue of columns with atomic operations: a half-done call has *)
(* changed the columns completely or not at all.  Overlapping calls of     *)
(* DynamoDB and Firestore do not: they write back the list they read.      *)
ImplementsCatalogue ==
    /\ Catalogue!Init
    /\ [][Busy \cap shared = {} => Catalogue!Next \/ UNCHANGED Described]_vars

(* However calls interleave and fail, a described collection lists its     *)
(* primary key, once.                                                      *)
KeyListedOnce ==
    \A c \in Collections :
        desc[c].exists =>
            Cardinality({i \in DOMAIN desc[c].fields :
                            desc[c].fields[i].name = PrimaryKeyFieldName}) = 1

(* In MongoDB a call to add or to remove a column leaves the other columns *)
(* as they are, whatever other calls have done since it read the           *)
(* descriptor.                                                             *)
OwnColumnOnly ==
    [][store = "mongo" => \A t \in Tasks, c \in Collections :
          (pc[t] = "writing" /\ pc'[t] = "idle" /\ req[t].kind \in {"add", "remove"}
             /\ req[t].coll = c)
          => Without(desc'[c].fields, req[t].col.name)
                = Without(desc[c].fields, req[t].col.name)]_vars

(* A collection whose creation was cut short has columns but no table, and *)
(* creating it again answers success and does nothing; but once a drop has *)
(* come back, with whatever answer, a creation that succeeds leaves a      *)
(* collection with columns and a table, as long as no calls overlap.       *)
DropHeals ==
    \A t \in Tasks :
        /\ answer[t] = "ok" /\ req[t].kind = "create" /\ req[t].coll \in healed
        /\ store # "firestore"
        => desc[req[t].coll].exists /\ req[t].coll \in tables
==============================================================================
