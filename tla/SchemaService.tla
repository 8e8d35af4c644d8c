---------------------------- MODULE SchemaService ----------------------------
(***************************************************************************)
(* SchemaService: the collections that requests create, update, delete and *)
(* list, on top of a schema provider and of the schema cache               *)
(* (libs/velo-external-db-core/src/service/schema.ts).                     *)
(*                                                                         *)
(* An update is not one operation of the database: it describes the table, *)
(* compares, and then alters it column by column, the columns of a phase   *)
(* concurrently (Promise.all).  A request answers an error as soon as one  *)
(* operation fails; the others of its phase run on by themselves.          *)
(*                                                                         *)
(* The providers differ in the operations they support, and in whether an  *)
(* operation on a column is one atomic step of the database, as ALTER TABLE*)
(* is, or reads the description of the collection and later writes all of  *)
(* it back.  DescriptorStore has the second sort in detail.                *)
(*                                                                         *)
(* They differ in the types of columns, too.  A column is created with a   *)
(* type of the database and described by what the adaptor makes of that    *)
(* type afterwards, which need not be what it was asked for: a DATE, asked *)
(* for as a datetime, is listed as a date by some.  An update compares with*)
(* the description, and alters by the request.                             *)
(***************************************************************************)
EXTENDS SchemaTypes, Naturals, FiniteSets, Functions

CONSTANTS
    Tasks,            \* concurrent schema requests
    Collections,      \* the collections they are about
    Requests,         \* the field lists of create and update requests
    Providers,        \* what a provider may be: its dialect, and the kinds
                      \* of operation in supportedOperations(), those that
                      \* throw all the same and those that are not atomic
    MaxFailures,      \* bound on the failures of the database
    MaxRequests       \* bound on the requests

ASSUME CollectionsAssumption == Collections # {}
ASSUME BoundsAssumption == MaxFailures \in Nat /\ MaxRequests \in Nat

(* A field type that wixDataEnumToFieldType refuses throws before anything *)
(* is done for the request.                                                *)
ASSUME RequestsAssumption ==
    \A fs \in Requests : \A n \in DOMAIN fs :
        wixDataEnumToFieldType(fs[n].type) # Unsupported

ASSUME ProvidersAssumption == \A p \in Providers : p.dialect \in Stores

PrimaryKeyFieldName == "_id"
SystemFields == {PrimaryKeyFieldName, "_createdDate", "_updatedDate", "_owner"}

(* A table is a function from column names to types: those of the database *)
(* in db, and those of the adaptor wherever it is listed or described.     *)
(* NoTable has no column.                                                  *)
NoTable == [n \in {} |-> ""]

VARIABLES
    store,     \* the provider of this adaptor
    db,        \* db[c]: the table of c, or NoTable
    cache,     \* cache[c]: the cached schema of c, or NoTable
    fills,     \* the answers to describeCollection on their way to the cache
    pc,        \* pc[t]: where request t is
    coll,      \* coll[t]: the collection of request t
    fields,    \* fields[t]: the fields it asks for
    described, \* described[t]: the table as update or delete found it
    pend,      \* pend[t]: the column operations of the phase under way
    detached,  \* column operations that outlived their request
    listing,   \* listing[t]: the answer to list() that refresh waits for
    outcome,   \* outcome[t]: how the last request of t ended
    alone,     \* history: nobody else was active since t began
    failures,  \* failures of the database so far
    requests   \* requests so far

provider == <<store, db, failures>>
request  == <<pc, coll, fields, described, pend, listing, outcome>>
vars == <<provider, cache, fills, request, detached, alone, requests>>

(* A column operation under way: before and after it has read the table.   *)
Issued(op)  == [op |-> op, read |-> FALSE, seen |-> NoTable]
HasRead(op, table) == [op |-> op, read |-> TRUE, seen |-> table]

Issue(ops) == {Issued(op) : op \in ops}

(* The table of WixFormatFieldsToInputFields, which CREATE TABLE makes if  *)
(* the database has a type for every column.                               *)
Stored(fs) ==
    [n \in DOMAIN fs |-> dbTypeFor(store.dialect, wixFormatFieldToInputFields(fs[n]))]

Expressible(fs) == \A n \in DOMAIN fs : Stored(fs)[n] # Unsupported

(* A table as list() and describeCollection() answer it.                   *)
AsListed(table) == ListedAs(store.dialect, table)

Init ==
    /\ store \in Providers
    /\ db = [c \in Collections |-> NoTable]
    /\ cache = [c \in Collections |-> NoTable]
    /\ fills = {}
    /\ pc = [t \in Tasks |-> "idle"]
    /\ coll = [t \in Tasks |-> CHOOSE c \in Collections : TRUE]
    /\ fields = [t \in Tasks |-> NoTable]
    /\ described = [t \in Tasks |-> NoTable]
    /\ pend = [t \in Tasks |-> {}]
    /\ detached = {}
    /\ listing = [t \in Tasks |-> cache]
    /\ outcome = [t \in Tasks |-> "none"]
    /\ alone = [t \in Tasks |-> FALSE]
    /\ failures = 0
    /\ requests = 0

-----------------------------------------------------------------------------
(* Requests *)

Quiet == detached = {} /\ fills = {} /\ \A u \in Tasks : pc[u] = "idle"

(* A request of t about c arrives; nobody else is alone any more. *)
Begin(t, c, step) ==
    /\ pc[t] = "idle"
    /\ requests < MaxRequests
    /\ requests' = requests + 1
    /\ pc' = [pc EXCEPT ![t] = step]
    /\ coll' = [coll EXCEPT ![t] = c]
    /\ alone' = [u \in Tasks |-> u = t /\ Quiet]
    /\ outcome' = [outcome EXCEPT ![t] = "none"]

(* The request of t answers. *)
Answer(t, result) ==
    /\ pc' = [pc EXCEPT ![t] = "idle"]
    /\ outcome' = [outcome EXCEPT ![t] = result]
    /\ pend' = [pend EXCEPT ![t] = {}]
    /\ listing' = [listing EXCEPT ![t] = [c \in Collections |-> NoTable]]

Reject(t) == Answer(t, "error")

(* The request of t goes on to its next await. *)
Goto(t, step) ==
    /\ pc' = [pc EXCEPT ![t] = step]
    /\ UNCHANGED <<outcome, pend, listing>>

Validated(kind) == kind \in store.supported

(* create: validateFields, then storage.create is called. *)
CreateStart(t, c, fs) ==
    /\ PrimaryKeyFieldName \in DOMAIN fs
    /\ Begin(t, c, "creating")
    /\ fields' = [fields EXCEPT ![t] = fs]
    /\ described' = [described EXCEPT ![t] = NoTable]
    /\ UNCHANGED <<provider, cache, fills, pend, listing, detached>>

(* Mutant: a type the dialect does not have goes into the statement. *)
CreateUnchecked(t) ==
    /\ pc[t] = "creating"
    /\ db' = IF db[coll[t]] = NoTable
               THEN [db EXCEPT ![coll[t]] = Stored(fields[t])]
               ELSE db
    /\ Goto(t, "changed")
    /\ UNCHANGED <<store, cache, fills, coll, fields, described, detached, alone,
                   failures, requests>>

(* Mutant: a collection that exists already is an error. *)
CreateTwiceFails(t) ==
    /\ pc[t] = "creating"
    /\ IF db[coll[t]] = NoTable /\ Expressible(fields[t])
         THEN /\ db' = [db EXCEPT ![coll[t]] = Stored(fields[t])]
              /\ Goto(t, "changed")
         ELSE UNCHANGED db /\ Reject(t)
    /\ UNCHANGED <<store, cache, fills, coll, fields, described, detached, alone,
                   failures, requests>>

(* CREATE TABLE IF NOT EXISTS, or its CollectionAlreadyExists ignored; the *)
(* statement cannot be built of a column the dialect has no type for.      *)
Create(t) ==
    /\ pc[t] = "creating"
    /\ IF Expressible(fields[t])
         THEN /\ db' = IF db[coll[t]] = NoTable
                         THEN [db EXCEPT ![coll[t]] = Stored(fields[t])]
                         ELSE db
              /\ Goto(t, "changed")
         ELSE UNCHANGED db /\ Reject(t)
    /\ UNCHANGED <<store, cache, fills, coll, fields, described, detached, alone,
                   failures, requests>>

(* delete: describeCollection, then drop. *)
DeleteStart(t, c) ==
    /\ Begin(t, c, "deleting")
    /\ described' = [described EXCEPT ![t] = NoTable]
    /\ UNCHANGED <<provider, cache, fills, fields, pend, listing, detached>>

DeleteDescribed(t) ==
    /\ pc[t] = "deleting"
    /\ IF db[coll[t]] = NoTable THEN Reject(t) ELSE Goto(t, "dropping")
    /\ UNCHANGED <<provider, cache, fills, coll, fields, described, detached, alone,
                   requests>>

Drop(t) ==
    /\ pc[t] = "dropping"
    /\ db' = [db EXCEPT ![coll[t]] = NoTable]
    /\ Goto(t, "changed")
    /\ UNCHANGED <<store, cache, fills, coll, fields, described, detached, alone,
                   failures, requests>>

-----------------------------------------------------------------------------
(* update *)

UpdateStart(t, c, fs) ==
    /\ Validated("create")
    /\ Begin(t, c, "updating")
    /\ fields' = [fields EXCEPT ![t] = fs]
    /\ described' = [described EXCEPT ![t] = NoTable]
    /\ UNCHANGED <<provider, cache, fills, pend, listing, detached>>

(* A phase is refused, or all its operations are issued at once. *)
Phase(t, kind, ops, step) ==
    IF ops # {} /\ ~ Validated(kind)
      THEN Reject(t)
      ELSE /\ pc' = [pc EXCEPT ![t] = step]
           /\ pend' = [pend EXCEPT ![t] = Issue(ops)]
           /\ UNCHANGED <<outcome, listing>>

UpdateDescribed(t) ==
    /\ pc[t] = "updating"
    /\ described' = [described EXCEPT ![t] = AsListed(db[coll[t]])]
    /\ IF db[coll[t]] = NoTable
         THEN Reject(t)
         ELSE Phase(t, "add", columnsToAdd(AsListed(db[coll[t]]), fields[t]), "adding")
    /\ UNCHANGED <<provider, cache, fills, coll, fields, detached, alone, requests>>

(* Mutant: the additions are issued but not awaited. *)
RemovePhaseEarly(t) ==
    /\ pc[t] = "adding"
    /\ pc' = [pc EXCEPT ![t] = "removing"]
    /\ pend' = [pend EXCEPT ![t] =
                  @ \cup Issue(columnsToRemove(described[t], fields[t]))]
    /\ UNCHANGED <<provider, cache, fills, coll, fields, described, listing, outcome,
                   detached, alone, requests>>

RemovePhase(t) ==
    /\ pc[t] = "adding"
    /\ pend[t] = {}
    /\ Phase(t, "remove", columnsToRemove(described[t], fields[t]), "removing")
    /\ UNCHANGED <<provider, cache, fills, coll, fields, described, detached, alone,
                   requests>>

ChangePhase(t) ==
    /\ pc[t] = "removing"
    /\ pend[t] = {}
    /\ Phase(t, "change", columnsToChangeType(described[t], fields[t]), "changing")
    /\ UNCHANGED <<provider, cache, fills, coll, fields, described, detached, alone,
                   requests>>

-----------------------------------------------------------------------------
(* addColumn, removeColumn and changeColumnType of the provider            *)

(* Mutant: a system field may be removed. *)
PossibleOnKey(op, table) ==
    /\ table # NoTable
    /\ (op.kind = "add") <=> (op.name \notin DOMAIN table)
    /\ op.kind \notin store.throws
    /\ op.kind # "remove" => dbTypeFor(store.dialect, op.input) # Unsupported

(* An operation on a table that lacks it, or already has it, fails; so does*)
(* one on a system field (validateSystemFields), one the provider throws   *)
(* at, and one that needs a type the dialect does not have.                *)
Possible(op, table) ==
    /\ table # NoTable
    /\ op.name \notin SystemFields
    /\ (op.kind = "add") <=> (op.name \notin DOMAIN table)
    /\ op.kind \notin store.throws
    /\ op.kind # "remove" => dbTypeFor(store.dialect, op.input) # Unsupported

Applied(op, table) ==
    IF op.kind = "remove"
      THEN Restrict(table, DOMAIN table \ {op.name})
      ELSE [n \in DOMAIN table \cup {op.name} |->
               IF n = op.name THEN dbTypeFor(store.dialect, op.input) ELSE table[n]]

TwoSteps(p) == p.op.kind \in store.twoSteps
Ready(p)    == TwoSteps(p) => p.read

(* What operation p works on: the table, or what it once read of it. *)
Base(p, c) == IF TwoSteps(p) THEN p.seen ELSE db[c]

Succeeds(p, c) == Ready(p) /\ db[c] # NoTable /\ Possible(p.op, Base(p, c))
Refused(p, c)  == Ready(p) /\ ~ Succeeds(p, c)

(* The tables after p, if it gets that far. *)
Effect(p, c) ==
    IF Succeeds(p, c) THEN [db EXCEPT ![c] = Applied(p.op, Base(p, c))] ELSE db

ColumnRead(t) ==
    /\ \E p \in pend[t] :
          /\ TwoSteps(p) /\ ~ p.read
          /\ pend' = [pend EXCEPT ![t] = (@ \ {p}) \cup {HasRead(p.op, db[coll[t]])}]
    /\ UNCHANGED <<provider, cache, fills, pc, coll, fields, described, listing,
                   outcome, detached, alone, requests>>

ColumnDone(t) ==
    /\ \E p \in pend[t] :
          /\ Succeeds(p, coll[t])
          /\ db' = Effect(p, coll[t])
          /\ pend' = [pend EXCEPT ![t] = @ \ {p}]
    /\ UNCHANGED <<store, cache, fills, pc, coll, fields, described, listing, outcome,
                   detached, alone, failures, requests>>

(* One operation rejects: Promise.all does, and the others are on their own*)
Outlive(t, p) ==
    detached' = detached \cup {[coll |-> coll[t], p |-> q] : q \in pend[t] \ {p}}

ColumnRefused(t) ==
    /\ \E p \in pend[t] : Refused(p, coll[t]) /\ Outlive(t, p)
    /\ Reject(t)
    /\ UNCHANGED <<provider, cache, fills, coll, fields, described, alone, requests>>

(* The database fails, before or after it has done what it was asked; or it*)
(* refuses to convert what is in a column to its new type.                 *)
ColumnFails(t) ==
    /\ failures < MaxFailures
    /\ failures' = failures + 1
    /\ \E p \in pend[t] :
          /\ Outlive(t, p)
          /\ db' \in {db, Effect(p, coll[t])}
    /\ Reject(t)
    /\ UNCHANGED <<store, cache, fills, coll, fields, described, alone, requests>>

DetachedRead ==
    /\ \E d \in detached :
          /\ TwoSteps(d.p) /\ ~ d.p.read
          /\ detached' = (detached \ {d}) \cup
                           {[coll |-> d.coll, p |-> HasRead(d.p.op, db[d.coll])]}
    /\ UNCHANGED <<provider, cache, fills, request, alone, requests>>

DetachedDone ==
    /\ \E d \in detached :
          /\ Ready(d.p)
          /\ db' = Effect(d.p, d.coll)
          /\ detached' = detached \ {d}
    /\ UNCHANGED <<store, cache, fills, request, alone, failures, requests>>

-----------------------------------------------------------------------------
(* refresh, which ends every successful request, and other storage calls   *)

RefreshStart(t) ==
    /\ pc[t] = "changed" \/ (pc[t] = "changing" /\ pend[t] = {})
    /\ cache' = [c \in Collections |-> NoTable]
    /\ Goto(t, "listing")
    /\ UNCHANGED <<provider, fills, coll, fields, described, detached, alone, requests>>

RefreshListed(t) ==
    /\ pc[t] = "listing"
    /\ pc' = [pc EXCEPT ![t] = "listed"]
    /\ listing' = [listing EXCEPT ![t] = [c \in Collections |-> AsListed(db[c])]]
    /\ UNCHANGED <<provider, cache, fills, coll, fields, described, pend, outcome,
                   detached, alone, requests>>

RefreshDone(t) ==
    /\ pc[t] = "listed"
    /\ cache' = [c \in Collections |->
                    IF listing[t][c] # NoTable THEN listing[t][c] ELSE cache[c]]
    /\ Answer(t, "ok")
    /\ UNCHANGED <<provider, fills, coll, fields, described, detached, alone, requests>>

(* A call other than a column operation fails, having taken effect or not. *)
StorageFails(t) ==
    /\ failures < MaxFailures
    /\ failures' = failures + 1
    /\ \/ pc[t] \in {"creating", "deleting", "dropping", "updating", "listing"} /\ db' = db
       \/ pc[t] = "creating" /\ db[coll[t]] = NoTable /\ Expressible(fields[t])
              /\ db' = [db EXCEPT ![coll[t]] = Stored(fields[t])]
       \/ pc[t] = "dropping" /\ db' = [db EXCEPT ![coll[t]] = NoTable]
    /\ Reject(t)
    /\ UNCHANGED <<store, cache, fills, coll, fields, described, detached, alone, requests>>

-----------------------------------------------------------------------------
(* The other users of the cache: schemaFor, for data requests and for list *)

Describe(c) ==
    /\ cache[c] = NoTable
    /\ db[c] # NoTable
    /\ requests < MaxRequests
    /\ requests' = requests + 1
    /\ fills' = fills \cup {[coll |-> c, table |-> AsListed(db[c])]}
    /\ alone' = [t \in Tasks |-> FALSE]
    /\ UNCHANGED <<provider, cache, request, detached>>

Fill ==
    /\ \E f \in fills :
          /\ cache' = [cache EXCEPT ![f.coll] = f.table]
          /\ fills' = fills \ {f}
    /\ UNCHANGED <<provider, request, detached, alone, requests>>

(* The process restarts: only the database survives, and those column      *)
(* operations that had already been sent to it.                            *)
InFlight == detached \cup UNION {{[coll |-> coll[t], p |-> p] : p \in pend[t]} : t \in Tasks}

Restart ==
    /\ failures < MaxFailures
    /\ failures' = failures + 1
    /\ cache' = [c \in Collections |-> NoTable]
    /\ fills' = {}
    /\ detached' \in SUBSET {d \in InFlight : Ready(d.p)}
    /\ pc' = [t \in Tasks |-> "idle"]
    /\ pend' = [t \in Tasks |-> {}]
    /\ listing' = [t \in Tasks |-> [c \in Collections |-> NoTable]]
    /\ outcome' = [t \in Tasks |-> "error"]
    /\ UNCHANGED <<store, db, coll, fields, described, alone, requests>>

-----------------------------------------------------------------------------
Arrive(t) ==
    \E c \in Collections :
        \/ \E fs \in Requests : CreateStart(t, c, fs) \/ UpdateStart(t, c, fs)
        \/ DeleteStart(t, c)

Proceed(t) ==
    \/ Create(t) \/ DeleteDescribed(t) \/ Drop(t)
    \/ UpdateDescribed(t) \/ RemovePhase(t) \/ ChangePhase(t)
    \/ ColumnRead(t) \/ ColumnDone(t) \/ ColumnRefused(t)
    \/ RefreshStart(t) \/ RefreshListed(t) \/ RefreshDone(t)

Background == DetachedRead \/ DetachedDone \/ Fill

Fail(t) == ColumnFails(t) \/ StorageFails(t)

Next ==
    \/ \E t \in Tasks : Arrive(t) \/ Proceed(t) \/ Fail(t)
    \/ Background
    \/ \E c \in Collections : Describe(c)
    \/ Restart

Spec == Init /\ [][Next]_vars

(* Once issued, storage calls are answered and continuations run. *)
Fairness ==
    /\ \A t \in Tasks : WF_vars(Proceed(t))
    /\ WF_vars(Background)

-----------------------------------------------------------------------------
(* Properties *)

Names == {PrimaryKeyFieldName} \cup UNION {DOMAIN fs : fs \in Requests}
Steps == {"idle", "creating", "deleting", "dropping", "updating", "adding",
          "removing", "changing", "changed", "listing", "listed"}

IsListing(x) == DOMAIN x \subseteq Names /\ \A n \in DOMAIN x : x[n] \in FieldTypes

TypeOK ==
    /\ \A c \in Collections :
          /\ Unsupported \notin Range(db[c])
          /\ IsListing(AsListed(db[c]))
          /\ IsListing(cache[c])
    /\ \A f \in fills : f.coll \in Collections /\ IsListing(f.table)
    /\ pc \in [Tasks -> Steps]
    /\ coll \in [Tasks -> Collections]
    /\ \A t \in Tasks : IsListing(described[t]) /\ outcome[t] \in {"none", "ok", "error"}
    /\ \A t \in Tasks : pend[t] # {} => pc[t] \in {"adding", "removing", "changing"}
    /\ failures \in 0 .. MaxFailures
    /\ requests \in 0 .. MaxRequests

(* The database alters tables atomically.                                  *)
Atomic == store.twoSteps = {}

(* The last request of t was an update, and it answered success.           *)
Updated(t) == outcome[t] = "ok" /\ described[t] # NoTable

(* A type of the adaptor, up to the kinds of texts and of points in time:  *)
(* the type of a column asked for by the Wix type it is listed with.       *)
Family(type) == wixDataEnumToFieldType(fieldTypeToWixDataEnum(type))

(* What the adaptor makes of the tables by the types they have now.        *)
Shown == [c \in Collections |-> AsListed(db[c])]

(* An update of a database with atomic operations that answers success, and*)
(* was the only request at work, leaves exactly the requested columns in   *)
(* the table, each field that is not encrypted listed again with a type of *)
(* the family it was asked for, whatever dialect it went through, and the  *)
(* cache showing exactly what the tables are listed with.                  *)
UpdateExact ==
    \A t \in Tasks : Atomic /\ Updated(t) /\ alone[t] =>
        /\ DOMAIN db[coll[t]] = DOMAIN fields[t]
        /\ \A n \in DOMAIN fields[t] :
              ~ fields[t][n].encrypted =>
                  Family(Shown[coll[t]][n]) = wixDataEnumToFieldType(fields[t][n].type)
        /\ cache = Shown

(* Renaming a column is adding one and removing another: whatever fails, and*)
(* even after the request was given up, no column has gone from the table  *)
(* unless every column the request adds is there, where operations are     *)
(* atomic.                                                                 *)
AddedBeforeRemoved ==
    \A t \in Tasks :
        /\ Atomic /\ alone[t]
        /\ DOMAIN described[t] \ DOMAIN db[coll[t]] # {}
        => \A op \in columnsToAdd(described[t], fields[t]) :
              op.name \in DOMAIN db[coll[t]]

(* However updates, creations and deletions of several requests interleave,*)
(* fail or are cut short, the primary key and every column that all the    *)
(* requests keep are never lost from a table that exists, and the cache    *)
(* never shows a table without them.  An update may well ask for a table   *)
(* without its primary key: only creations are checked for it.             *)
SharedColumns == {PrimaryKeyFieldName} \cup {n \in Names : \A fs \in Requests : n \in DOMAIN fs}

SharedColumnsKept ==
    \A c \in Collections :
        \A table \in {db[c], cache[c]} :
            table # NoTable => SharedColumns \subseteq DOMAIN table

(* "add column on a an existing collection": a column whose addition was   *)
(* answered with success is described; here, after an update, alone.       *)
AddedColumnsDescribed ==
    \A t \in Tasks : Updated(t) /\ alone[t] => DOMAIN fields[t] \subseteq DOMAIN db[coll[t]]
==============================================================================
