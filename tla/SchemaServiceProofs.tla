------------------------- MODULE SchemaServiceProofs -------------------------
(***************************************************************************)
(* Proofs about SchemaService, for any requests, any operations a provider *)
(* supports and any of them that it splits in two steps.                   *)
(*                                                                         *)
(* SharedColumnsKept speaks of the tables and the cache only.  What flows  *)
(* into them comes from the answers to describeCollection and list that    *)
(* are on their way, from the descriptions that a provider will write back,*)
(* and from the removals that are planned: the invariant IInv speaks of    *)
(* those as well.  TInv adds their types, and where a request may be while *)
(* it has column operations under way.                                     *)
(*                                                                         *)
(* UpdateExact and AddedBeforeRemoved are about a request that was alone:  *)
(* nobody else was active since it began, nor did anything it did not start*)
(* reach its table.  SInv says, for each place where such a request may be,*)
(* what its phase has done and what is left of it (AddingOK, RemovingOK,   *)
(* ChangingOK), and what may still happen after it was given up (LeftOK).  *)
(*                                                                         *)
(* What is read back from a column of each field type (ReadAs) is computed *)
(* for each dialect.  UpdateExact rests on it where a column is made, and  *)
(* so do the theorems about ColumnTypes, the life of one column: ColumnInv *)
(* says it of a column in any of them.                                     *)
(***************************************************************************)
EXTENDS SchemaService, ColumnTypes, TLAPS

Whole(table) == table # NoTable => SharedColumns \subseteq DOMAIN table

(* A planned removal is of a column that some request gives up, or of the  *)
(* primary key, which the provider will refuse.                            *)
Spares(op) == op.kind = "remove" => op.name \notin SharedColumns \ {PrimaryKeyFieldName}

OpOK(p) == Spares(p.op) /\ Whole(p.seen)

Functional ==
    /\ DOMAIN db = Collections
    /\ DOMAIN cache = Collections
    /\ coll \in [Tasks -> Collections]
    /\ DOMAIN pc = Tasks
    /\ DOMAIN fields = Tasks
    /\ DOMAIN described = Tasks
    /\ DOMAIN pend = Tasks
    /\ DOMAIN listing = Tasks

TablesWhole  == \A c \in Collections : Whole(db[c])
CacheWhole   == \A c \in Collections : Whole(cache[c])
FillsWhole   == \A f \in fills : Whole(f.table)
ListingWhole == \A t \in Tasks, c \in Collections : Whole(listing[t][c])

FieldsOK ==
    \A t \in Tasks :
        /\ pc[t] \in {"creating", "updating", "adding", "removing", "changing"} =>
              fields[t] \in Requests
        /\ pc[t] = "creating" => PrimaryKeyFieldName \in DOMAIN fields[t]

PendOK     == \A t \in Tasks : \A p \in pend[t] : OpOK(p)
DetachedOK == \A d \in detached : d.coll \in Collections /\ OpOK(d.p)

IInv ==
    /\ Functional
    /\ TablesWhole
    /\ CacheWhole
    /\ FillsWhole
    /\ ListingWhole
    /\ FieldsOK
    /\ PendOK
    /\ DetachedOK

-----------------------------------------------------------------------------
LEMMA InitIInv == Init => IInv
<1> SUFFICES ASSUME Init PROVE IInv
  OBVIOUS
<1>1. Functional
  BY CollectionsAssumption DEF Init, Functional
<1>2. TablesWhole /\ CacheWhole /\ FillsWhole /\ ListingWhole
  BY DEF Init, TablesWhole, CacheWhole, FillsWhole, ListingWhole, Whole
<1>3. FieldsOK /\ PendOK /\ DetachedOK
  BY DEF Init, FieldsOK, PendOK, DetachedOK
<1> QED BY <1>1, <1>2, <1>3 DEF IInv

(* The columns of a table are those it is listed with. *)
LEMMA ListedWhole ==
    ASSUME NEW table
    PROVE  /\ DOMAIN AsListed(table) = DOMAIN table
           /\ Whole(table) => Whole(AsListed(table))
           /\ AsListed(NoTable) = NoTable
<1>1. DOMAIN AsListed(table) = DOMAIN table
  BY DEF AsListed, ListedAs
<1>2. AsListed(NoTable) = NoTable
  BY DEF AsListed, ListedAs, NoTable
<1> QED BY <1>1, <1>2 DEF Whole

(* A column operation that the provider accepts keeps the shared columns.  *)
LEMMA AppliedWhole ==
    ASSUME NEW op, NEW table, Whole(table), Spares(op), Possible(op, table)
    PROVE  Whole(Applied(op, table))
<1>1. SharedColumns \subseteq DOMAIN table
  BY DEF Whole, Possible
<1>2. CASE op.kind = "remove"
  <2>1. Applied(op, table) = Restrict(table, DOMAIN table \ {op.name})
    BY <1>2 DEF Applied
  <2>2. DOMAIN Applied(op, table) = DOMAIN table \ {op.name}
    BY <2>1 DEF Restrict
  <2>3. op.name \notin SharedColumns
    BY <1>2 DEF Spares, Possible, SystemFields
  <2> QED BY <1>1, <2>2, <2>3 DEF Whole
<1>3. CASE op.kind # "remove"
  <2>1. DOMAIN Applied(op, table) = DOMAIN table \cup {op.name}
    BY <1>3 DEF Applied
  <2> QED BY <1>1, <2>1 DEF Whole
<1> QED BY <1>2, <1>3

LEMMA EffectWhole ==
    ASSUME DOMAIN db = Collections, TablesWhole,
           NEW c \in Collections, NEW p, OpOK(p)
    PROVE  /\ DOMAIN Effect(p, c) = Collections
           /\ \A d \in Collections : Whole(Effect(p, c)[d])
<1>1. CASE Succeeds(p, c)
  <2>1. Effect(p, c) = [db EXCEPT ![c] = Applied(p.op, Base(p, c))]
    BY <1>1 DEF Effect
  <2>2. Whole(Base(p, c))
    BY DEF Base, OpOK, TablesWhole
  <2>3. Possible(p.op, Base(p, c))
    BY <1>1 DEF Succeeds
  <2>4. Whole(Applied(p.op, Base(p, c)))
    BY <2>2, <2>3, AppliedWhole DEF OpOK
  <2> QED BY <2>1, <2>4 DEF TablesWhole
<1>2. CASE ~ Succeeds(p, c)
  BY <1>2 DEF Effect, TablesWhole
<1> QED BY <1>1, <1>2

(* What a request asks for has the shared columns. *)
LEMMA StoredWhole ==
    ASSUME NEW fs \in Requests, PrimaryKeyFieldName \in DOMAIN fs
    PROVE  Whole(Stored(fs))
BY DEF Whole, Stored, SharedColumns

(* The plan of a request removes no column that all requests keep. *)
LEMMA PlanOK ==
    ASSUME NEW fs \in Requests, NEW table
    PROVE  /\ \A p \in Issue(columnsToAdd(table, fs)) : OpOK(p)
           /\ \A p \in Issue(columnsToRemove(table, fs)) : OpOK(p)
           /\ \A p \in Issue(columnsToChangeType(table, fs)) : OpOK(p)
<1>1. \A op \in columnsToAdd(table, fs) : Spares(op)
  BY DEF columnsToAdd, Spares
<1>2. \A op \in columnsToRemove(table, fs) : Spares(op)
  BY DEF columnsToRemove, Spares, SharedColumns
<1>3. \A op \in columnsToChangeType(table, fs) : Spares(op)
  BY DEF columnsToChangeType, Spares
<1>4. ASSUME NEW ops, \A op \in ops : Spares(op)
      PROVE  \A p \in Issue(ops) : OpOK(p)
  BY <1>4 DEF Issue, Issued, OpOK, Whole
<1> QED BY <1>1, <1>2, <1>3, <1>4

-----------------------------------------------------------------------------
(* Ending a request, or moving to its next step, disturbs little. *)
LEMMA AnswerKeeps ==
    ASSUME IInv, NEW t \in Tasks, NEW result, Answer(t, result),
           UNCHANGED <<coll, fields, described>>
    PROVE  /\ DOMAIN pc' = Tasks /\ DOMAIN pend' = Tasks /\ DOMAIN listing' = Tasks
           /\ ListingWhole'
           /\ FieldsOK'
           /\ PendOK'
<1> USE DEF IInv, Functional, Answer
<1>1. DOMAIN pc' = Tasks /\ DOMAIN pend' = Tasks /\ DOMAIN listing' = Tasks
  OBVIOUS
<1>2. ListingWhole'
  BY DEF ListingWhole, Whole
<1>3. FieldsOK'
  BY DEF FieldsOK
<1>4. PendOK'
  BY DEF PendOK
<1> QED BY <1>1, <1>2, <1>3, <1>4

LEMMA GotoKeeps ==
    ASSUME IInv, NEW t \in Tasks, NEW step \in {"dropping", "changed", "listing", "listed"},
           Goto(t, step), UNCHANGED <<coll, fields, described>>
    PROVE  /\ DOMAIN pc' = Tasks /\ DOMAIN pend' = Tasks /\ DOMAIN listing' = Tasks
           /\ ListingWhole'
           /\ FieldsOK'
           /\ PendOK'
<1> USE DEF IInv, Functional, Goto
<1>1. FieldsOK'
  BY DEF FieldsOK
<1>2. ListingWhole' /\ PendOK'
  BY DEF ListingWhole, PendOK
<1> QED BY <1>1, <1>2

LEMMA PhaseKeeps ==
    ASSUME IInv, NEW t \in Tasks, fields[t] \in Requests, NEW kind, NEW ops,
           \A p \in Issue(ops) : OpOK(p),
           NEW step \in {"adding", "removing", "changing"},
           Phase(t, kind, ops, step), UNCHANGED <<coll, fields>>,
           DOMAIN described' = Tasks
    PROVE  /\ DOMAIN pc' = Tasks /\ DOMAIN pend' = Tasks /\ DOMAIN listing' = Tasks
           /\ ListingWhole'
           /\ FieldsOK'
           /\ PendOK'
<1>1. CASE ops # {} /\ ~ Validated(kind)
  <2> USE DEF IInv, Functional
  <2>1. Answer(t, "error")
    BY <1>1 DEF Phase, Reject
  <2>2. ListingWhole'
    BY <2>1 DEF ListingWhole, Whole, Answer
  <2>3. FieldsOK' /\ PendOK'
    BY <2>1 DEF FieldsOK, PendOK, Answer
  <2> QED BY <2>1, <2>2, <2>3 DEF Answer
<1>2. CASE ~ (ops # {} /\ ~ Validated(kind))
  <2> USE DEF IInv, Functional
  <2>1. /\ pc' = [pc EXCEPT ![t] = step]
        /\ pend' = [pend EXCEPT ![t] = Issue(ops)]
        /\ listing' = listing
    BY <1>2 DEF Phase
  <2>2. FieldsOK'
    BY <2>1 DEF FieldsOK
  <2>3. PendOK' /\ ListingWhole'
    BY <2>1 DEF PendOK, ListingWhole
  <2> QED BY <2>1, <2>2, <2>3
<1> QED BY <1>1, <1>2

-----------------------------------------------------------------------------
(* One lemma per group of actions.  A request arrives. *)
LEMMA ArriveKeeps ==
    ASSUME IInv, NEW t \in Tasks, Arrive(t)
    PROVE  IInv'
<1>1. PICK c \in Collections :
          (\E fs \in Requests : CreateStart(t, c, fs) \/ UpdateStart(t, c, fs))
          \/ DeleteStart(t, c)
  BY DEF Arrive
<1>2. ASSUME NEW fs \in Requests, CreateStart(t, c, fs)
      PROVE  IInv'
  <2> USE <1>2 DEF CreateStart, Begin, provider, IInv
  <2>1. Functional'
    BY DEF Functional
  <2>2. FieldsOK'
    BY DEF FieldsOK, Functional
  <2> QED BY <2>1, <2>2
       DEF TablesWhole, CacheWhole, FillsWhole, ListingWhole, PendOK, DetachedOK
<1>3. ASSUME NEW fs \in Requests, UpdateStart(t, c, fs)
      PROVE  IInv'
  <2> USE <1>3 DEF UpdateStart, Begin, provider, IInv
  <2>1. Functional'
    BY DEF Functional
  <2>2. FieldsOK'
    BY DEF FieldsOK, Functional
  <2> QED BY <2>1, <2>2
       DEF TablesWhole, CacheWhole, FillsWhole, ListingWhole, PendOK, DetachedOK
<1>4. ASSUME DeleteStart(t, c)
      PROVE  IInv'
  <2> USE <1>4 DEF DeleteStart, Begin, provider, IInv
  <2>1. Functional'
    BY DEF Functional
  <2>2. FieldsOK'
    BY DEF FieldsOK, Functional
  <2> QED BY <2>1, <2>2
       DEF TablesWhole, CacheWhole, FillsWhole, ListingWhole, PendOK, DetachedOK
<1> QED BY <1>1, <1>2, <1>3, <1>4

(* create and delete. *)
LEMMA CreateKeeps ==
    ASSUME IInv, NEW t \in Tasks, Create(t) \/ DeleteDescribed(t) \/ Drop(t)
    PROVE  IInv'
<1>1. CASE Create(t)
  <2>1. /\ Goto(t, "changed") \/ Answer(t, "error")
        /\ UNCHANGED <<coll, fields, described>>
    BY <1>1 DEF Create, Reject
  <2>2. Whole(Stored(fields[t]))
    BY <1>1, StoredWhole DEF Create, IInv, FieldsOK
  <2>3. DOMAIN db' = Collections /\ TablesWhole'
    BY <1>1, <2>2 DEF Create, IInv, Functional, TablesWhole
  <2> QED BY <1>1, <2>1, <2>3, GotoKeeps, AnswerKeeps
       DEF Create, IInv, Functional, CacheWhole, FillsWhole, DetachedOK
<1>2. CASE DeleteDescribed(t)
  <2>1. Goto(t, "dropping") \/ Answer(t, "error")
    BY <1>2 DEF DeleteDescribed, Reject
  <2>2. UNCHANGED <<db, cache, fills, coll, fields, described, detached>>
    BY <1>2 DEF DeleteDescribed, provider
  <2>3. /\ DOMAIN pc' = Tasks /\ DOMAIN pend' = Tasks /\ DOMAIN listing' = Tasks
        /\ ListingWhole' /\ FieldsOK' /\ PendOK'
    BY <2>1, <2>2, GotoKeeps, AnswerKeeps
  <2> QED BY <2>2, <2>3
       DEF IInv, Functional, TablesWhole, CacheWhole, FillsWhole, DetachedOK
<1>3. CASE Drop(t)
  <2>1. Goto(t, "changed") /\ UNCHANGED <<coll, fields, described>>
    BY <1>3 DEF Drop
  <2>2. DOMAIN db' = Collections /\ TablesWhole'
    BY <1>3 DEF Drop, IInv, Functional, TablesWhole, Whole
  <2> QED BY <1>3, <2>1, <2>2, GotoKeeps
       DEF Drop, IInv, Functional, CacheWhole, FillsWhole, DetachedOK
<1> QED BY <1>1, <1>2, <1>3

(* The phases of update. *)
LEMMA UpdateKeeps ==
    ASSUME IInv, NEW t \in Tasks, UpdateDescribed(t) \/ RemovePhase(t) \/ ChangePhase(t)
    PROVE  IInv'
<1>1. fields[t] \in Requests
  BY DEF IInv, FieldsOK, UpdateDescribed, RemovePhase, ChangePhase
<1>2. /\ UNCHANGED <<db, cache, fills, coll, fields, detached>>
      /\ DOMAIN described' = Tasks
  BY DEF UpdateDescribed, RemovePhase, ChangePhase, provider, IInv, Functional
<1>3. /\ DOMAIN pc' = Tasks /\ DOMAIN pend' = Tasks /\ DOMAIN listing' = Tasks
      /\ ListingWhole' /\ FieldsOK' /\ PendOK'
  <2>1. CASE UpdateDescribed(t) /\ db[coll[t]] = NoTable
    <3>1. Answer(t, "error") /\ pc[t] = "updating"
      BY <2>1 DEF UpdateDescribed, Reject
    <3> USE <3>1 DEF Answer, IInv, Functional
    <3>2. ListingWhole'
      BY DEF ListingWhole, Whole
    <3>3. FieldsOK' /\ PendOK'
      BY <1>2 DEF FieldsOK, PendOK
    <3> QED BY <3>2, <3>3
  <2>2. CASE UpdateDescribed(t) /\ db[coll[t]] # NoTable
    <3>1. Phase(t, "add", columnsToAdd(AsListed(db[coll[t]]), fields[t]), "adding")
      BY <2>2 DEF UpdateDescribed
    <3> QED BY <1>1, <1>2, <3>1, PlanOK, PhaseKeeps
  <2>3. CASE RemovePhase(t)
    <3>1. Phase(t, "remove", columnsToRemove(described[t], fields[t]), "removing")
      BY <2>3 DEF RemovePhase
    <3> QED BY <1>1, <1>2, <3>1, PlanOK, PhaseKeeps
  <2>4. CASE ChangePhase(t)
    <3>1. Phase(t, "change", columnsToChangeType(described[t], fields[t]), "changing")
      BY <2>4 DEF ChangePhase
    <3> QED BY <1>1, <1>2, <3>1, PlanOK, PhaseKeeps
  <2> QED BY <2>1, <2>2, <2>3, <2>4
<1> QED BY <1>2, <1>3
     DEF IInv, Functional, TablesWhole, CacheWhole, FillsWhole, DetachedOK

(* The operations of a phase that outlive it. *)
LEMMA OutliveKeeps ==
    ASSUME IInv, NEW t \in Tasks, NEW p, Outlive(t, p)
    PROVE  DetachedOK'
BY DEF IInv, Functional, Outlive, DetachedOK, PendOK

(* Column operations of a request. *)
LEMMA ColumnKeeps ==
    ASSUME IInv, NEW t \in Tasks,
           ColumnRead(t) \/ ColumnDone(t) \/ ColumnRefused(t) \/ ColumnFails(t)
    PROVE  IInv'
<1> USE DEF IInv
<1>1. CASE ColumnRead(t)
  <2>1. PICK p \in pend[t] :
           pend' = [pend EXCEPT ![t] = (@ \ {p}) \cup {HasRead(p.op, db[coll[t]])}]
    BY <1>1 DEF ColumnRead
  <2>2. UNCHANGED <<db, cache, fills, pc, coll, fields, described, listing, detached>>
    BY <1>1 DEF ColumnRead, provider
  <2>3. OpOK(HasRead(p.op, db[coll[t]]))
    BY DEF PendOK, OpOK, HasRead, TablesWhole, Functional
  <2>4. PendOK'
    BY <2>1, <2>3 DEF PendOK, Functional
  <2> QED BY <2>1, <2>2, <2>4
       DEF Functional, TablesWhole, CacheWhole, FillsWhole, ListingWhole, FieldsOK,
           DetachedOK
<1>2. CASE ColumnDone(t)
  <2>1. PICK p \in pend[t] : /\ db' = Effect(p, coll[t])
                             /\ pend' = [pend EXCEPT ![t] = @ \ {p}]
    BY <1>2 DEF ColumnDone
  <2>2. UNCHANGED <<cache, fills, pc, coll, fields, described, listing, detached>>
    BY <1>2 DEF ColumnDone
  <2>3. DOMAIN db' = Collections /\ TablesWhole'
    BY <2>1, EffectWhole DEF PendOK, TablesWhole, Functional
  <2>4. PendOK'
    BY <2>1 DEF PendOK, Functional
  <2> QED BY <2>1, <2>2, <2>3, <2>4
       DEF Functional, CacheWhole, FillsWhole, ListingWhole, FieldsOK, DetachedOK
<1>3. CASE ColumnRefused(t)
  <2>1. Answer(t, "error") /\ \E p \in pend[t] : Outlive(t, p)
    BY <1>3 DEF ColumnRefused, Reject
  <2>2. UNCHANGED <<db, cache, fills, coll, fields, described>>
    BY <1>3 DEF ColumnRefused, provider
  <2>3. DetachedOK'
    BY <2>1, OutliveKeeps
  <2> QED BY <2>1, <2>2, <2>3, AnswerKeeps DEF Functional, TablesWhole, CacheWhole, FillsWhole
<1>4. CASE ColumnFails(t)
  <2>1. PICK p \in pend[t] : Outlive(t, p) /\ db' \in {db, Effect(p, coll[t])}
    BY <1>4 DEF ColumnFails
  <2>2. Answer(t, "error") /\ UNCHANGED <<cache, fills, coll, fields, described>>
    BY <1>4 DEF ColumnFails, Reject
  <2>3. DOMAIN db' = Collections /\ TablesWhole'
    BY <2>1, EffectWhole DEF PendOK, TablesWhole, Functional
  <2>4. DetachedOK'
    BY <2>1, OutliveKeeps
  <2> QED BY <2>2, <2>3, <2>4, AnswerKeeps DEF Functional, CacheWhole, FillsWhole
<1> QED BY <1>1, <1>2, <1>3, <1>4

(* refresh, and the failures of the other storage calls. *)
LEMMA RefreshKeeps ==
    ASSUME IInv, NEW t \in Tasks,
           RefreshStart(t) \/ RefreshListed(t) \/ RefreshDone(t) \/ StorageFails(t)
    PROVE  IInv'
<1>1. CASE RefreshStart(t)
  <2>1. Goto(t, "listing") /\ UNCHANGED <<db, fills, coll, fields, described, detached>>
    BY <1>1 DEF RefreshStart, provider
  <2>2. DOMAIN cache' = Collections /\ CacheWhole'
    BY <1>1 DEF RefreshStart, CacheWhole, Whole
  <2> QED BY <2>1, <2>2, GotoKeeps DEF IInv, Functional, TablesWhole, FillsWhole, DetachedOK
<1>2. CASE RefreshListed(t)
  <2>1. /\ pc' = [pc EXCEPT ![t] = "listed"]
        /\ listing' = [listing EXCEPT ![t] = [c \in Collections |-> AsListed(db[c])]]
        /\ UNCHANGED <<db, cache, fills, coll, fields, described, pend, detached>>
    BY <1>2 DEF RefreshListed, provider
  <2>2. ListingWhole'
    <3>1. \A c \in Collections : Whole(AsListed(db[c]))
      BY ListedWhole DEF IInv, TablesWhole
    <3> QED BY <2>1, <3>1 DEF IInv, Functional, ListingWhole
  <2>3. FieldsOK'
    BY <2>1 DEF IInv, Functional, FieldsOK
  <2> QED BY <2>1, <2>2, <2>3
       DEF IInv, Functional, TablesWhole, CacheWhole, FillsWhole, PendOK, DetachedOK
<1>3. CASE RefreshDone(t)
  <2>1. Answer(t, "ok") /\ UNCHANGED <<db, fills, coll, fields, described, detached>>
    BY <1>3 DEF RefreshDone, provider
  <2>2. DOMAIN cache' = Collections /\ CacheWhole'
    BY <1>3 DEF RefreshDone, IInv, CacheWhole, ListingWhole
  <2> QED BY <2>1, <2>2, AnswerKeeps DEF IInv, Functional, TablesWhole, FillsWhole, DetachedOK
<1>4. CASE StorageFails(t)
  <2>1. Answer(t, "error")
    BY <1>4 DEF StorageFails, Reject
  <2>2. UNCHANGED <<cache, fills, coll, fields, described, detached>>
    BY <1>4 DEF StorageFails
  <2>3. DOMAIN db' = Collections /\ TablesWhole'
    <3>1. CASE db' = db
      BY <3>1 DEF IInv, Functional, TablesWhole
    <3>2. CASE pc[t] = "creating" /\ db' = [db EXCEPT ![coll[t]] = Stored(fields[t])]
      <4>1. Whole(Stored(fields[t]))
        BY <3>2, StoredWhole DEF IInv, FieldsOK
      <4> QED BY <3>2, <4>1 DEF IInv, Functional, TablesWhole
    <3>3. CASE db' = [db EXCEPT ![coll[t]] = NoTable]
      BY <3>3 DEF IInv, Functional, TablesWhole, Whole
    <3> QED BY <1>4, <3>1, <3>2, <3>3 DEF StorageFails
  <2> QED BY <2>1, <2>2, <2>3, AnswerKeeps DEF IInv, Functional, CacheWhole, FillsWhole, DetachedOK
<1> QED BY <1>1, <1>2, <1>3, <1>4

(* What happens beside the requests, and restarts. *)
LEMMA BackgroundKeeps ==
    ASSUME IInv, Background \/ Restart \/ \E c \in Collections : Describe(c)
    PROVE  IInv'
<1> USE DEF IInv
<1>1. CASE DetachedRead
  <2>1. PICK d \in detached :
           detached' = (detached \ {d}) \cup
                          {[coll |-> d.coll, p |-> HasRead(d.p.op, db[d.coll])]}
    BY <1>1 DEF DetachedRead
  <2>2. UNCHANGED <<db, cache, fills, pc, coll, fields, described, pend, listing>>
    BY <1>1 DEF DetachedRead, provider, request
  <2>3. OpOK(HasRead(d.p.op, db[d.coll]))
    BY DEF DetachedOK, OpOK, HasRead, TablesWhole
  <2>4. DetachedOK'
    BY <2>1, <2>3 DEF DetachedOK
  <2> QED BY <2>2, <2>4
       DEF Functional, TablesWhole, CacheWhole, FillsWhole, ListingWhole, FieldsOK, PendOK
<1>2. CASE DetachedDone
  <2>1. PICK d \in detached : db' = Effect(d.p, d.coll) /\ detached' = detached \ {d}
    BY <1>2 DEF DetachedDone
  <2>2. UNCHANGED <<cache, fills, pc, coll, fields, described, pend, listing>>
    BY <1>2 DEF DetachedDone, request
  <2>3. DOMAIN db' = Collections /\ TablesWhole'
    BY <2>1, EffectWhole DEF DetachedOK, TablesWhole, Functional
  <2>4. DetachedOK'
    BY <2>1 DEF DetachedOK
  <2> QED BY <2>2, <2>3, <2>4
       DEF Functional, CacheWhole, FillsWhole, ListingWhole, FieldsOK, PendOK
<1>3. CASE Fill
  <2>1. PICK f \in fills : /\ cache' = [cache EXCEPT ![f.coll] = f.table]
                           /\ fills' = fills \ {f}
    BY <1>3 DEF Fill
  <2>2. UNCHANGED <<db, pc, coll, fields, described, pend, listing, detached>>
    BY <1>3 DEF Fill, provider, request
  <2>3. DOMAIN cache' = Collections /\ CacheWhole' /\ FillsWhole'
    BY <2>1 DEF Functional, CacheWhole, FillsWhole
  <2> QED BY <2>2, <2>3
       DEF Functional, TablesWhole, ListingWhole, FieldsOK, PendOK, DetachedOK
<1>4. CASE Restart
  <2>1. /\ cache' = [c \in Collections |-> NoTable]
        /\ fills' = {}
        /\ pc' = [t \in Tasks |-> "idle"]
        /\ pend' = [t \in Tasks |-> {}]
        /\ listing' = [t \in Tasks |-> [c \in Collections |-> NoTable]]
        /\ UNCHANGED <<db, coll, fields, described>>
    BY <1>4 DEF Restart
  <2>2. \A d \in InFlight : d.coll \in Collections /\ OpOK(d.p)
    BY DEF InFlight, Functional, DetachedOK, PendOK
  <2>3. DetachedOK'
    <3>1. detached' \subseteq InFlight
      BY <1>4 DEF Restart
    <3> QED BY <2>2, <3>1 DEF DetachedOK
  <2>4. Functional'
    BY <2>1 DEF Functional
  <2>5. CacheWhole' /\ FillsWhole' /\ ListingWhole' /\ PendOK' /\ FieldsOK' /\ TablesWhole'
    BY <2>1 DEF CacheWhole, FillsWhole, ListingWhole, PendOK, FieldsOK, TablesWhole, Whole
  <2> QED BY <2>3, <2>4, <2>5
<1>5. ASSUME NEW c \in Collections, Describe(c)
      PROVE  IInv'
  <2>1. /\ fills' = fills \cup {[coll |-> c, table |-> AsListed(db[c])]}
        /\ UNCHANGED <<db, cache, pc, coll, fields, described, pend, listing, detached>>
    BY <1>5 DEF Describe, provider, request
  <2>2. FillsWhole'
    BY <2>1, ListedWhole DEF FillsWhole, TablesWhole
  <2> QED BY <2>1, <2>2
       DEF Functional, TablesWhole, CacheWhole, ListingWhole, FieldsOK, PendOK, DetachedOK
<1> QED BY <1>1, <1>2, <1>3, <1>4, <1>5 DEF Background

LEMMA StepKeeps == IInv /\ [Next]_vars => IInv'
<1> SUFFICES ASSUME IInv, [Next]_vars PROVE IInv'
  OBVIOUS
<1>1. ASSUME NEW t \in Tasks, Arrive(t) \/ Proceed(t) \/ Fail(t)
      PROVE  IInv'
  BY <1>1, ArriveKeeps, CreateKeeps, UpdateKeeps, ColumnKeeps, RefreshKeeps
     DEF Proceed, Fail
<1>2. ASSUME Background \/ Restart \/ \E c \in Collections : Describe(c)
      PROVE  IInv'
  BY <1>2, BackgroundKeeps
<1>3. CASE UNCHANGED vars
  BY <1>3 DEF vars, provider, request, IInv, Functional, TablesWhole, CacheWhole,
              FillsWhole, ListingWhole, FieldsOK, PendOK, DetachedOK
<1> QED BY <1>1, <1>2, <1>3 DEF Next

(* Whatever the requests do to the collections, and whatever fails between *)
(* them, neither the database nor the cache shows a table that has lost    *)
(* its primary key or a column every request keeps.                        *)
THEOREM SharedColumnsNeverLost == Spec => []SharedColumnsKept
<1>1. Init => IInv
  BY InitIInv
<1>2. IInv /\ [Next]_vars => IInv'
  BY StepKeeps
<1>3. IInv => SharedColumnsKept
  BY DEF IInv, TablesWhole, CacheWhole, Whole, SharedColumnsKept
<1> QED BY <1>1, <1>2, <1>3, PTL DEF Spec

-----------------------------------------------------------------------------
(* What is read back for a type is a type that the adaptor lists and stores*)
(* as it stored the first: the same one, or for a time another kind of     *)
(* time.                                                                   *)

Made == {"text", "datetime", "object", "number", "boolean", Unsupported}

ReadAs(k) == IF k = "datetime" THEN {"datetime", "date", "time"} ELSE {k}

LEMMA StoredAs ==
    ASSUME NEW w \in WixTypes
    PROVE  /\ wixDataEnumToFieldType(w) \in Made
           /\ wixDataEnumToFieldType(w) = "datetime" =>
                 fieldTypeToSubtype(w) \in {"date", "time", "datetime"}
<1>1. wixDataEnumToFieldType(w) \in Made
  BY DEF wixDataEnumToFieldType, Made
<1>2. wixDataEnumToFieldType(w) = "datetime" => w \in TimeTypes
  BY DEF wixDataEnumToFieldType, WixTypes, TextTypes, TimeTypes, ObjectTypes, Unsupported
<1>3. w \in TimeTypes => fieldTypeToSubtype(w) \in {"date", "time", "datetime"}
  BY DEF fieldTypeToSubtype, TimeTypes
<1> QED BY <1>1, <1>2, <1>3

LEMMA DialectReads ==
    ASSUME NEW d \in Stores, NEW k \in Made, NEW s,
           k = "datetime" => s \in {"date", "time", "datetime"},
           dbType(d, k, s) # Unsupported
    PROVE  /\ k # Unsupported
           /\ translateType(d, dbType(d, k, s)) \in ReadAs(k)
           /\ k = "datetime" /\ s = "datetime" =>
                 translateType(d, dbType(d, k, s)) = "datetime"
<1> USE DEF Made, ReadAs, Unsupported
<1>1. CASE d = "postgres"
  <2>1. dbType(d, k, s) = PostgresType(k, s)
        /\ translateType(d, dbType(d, k, s)) = FromPostgres(PostgresType(k, s))
    BY <1>1 DEF dbType, translateType
  <2> QED BY <2>1 DEF PostgresType, FromPostgres
<1>2. CASE d = "mysql"
  <2>1. dbType(d, k, s) = MysqlType(k, s)
        /\ translateType(d, dbType(d, k, s)) = FromMysql(MysqlType(k, s))
    BY <1>2 DEF dbType, translateType
  <2> QED BY <2>1 DEF MysqlType, FromMysql
<1>3. CASE d = "mssql"
  <2>1. dbType(d, k, s) = MssqlType(k, s)
        /\ translateType(d, dbType(d, k, s)) = FromMssql(MssqlType(k, s))
    BY <1>3 DEF dbType, translateType
  <2> QED BY <2>1 DEF MssqlType, FromMssql
<1>4. CASE d = "spanner"
  <2>1. dbType(d, k, s) = SpannerType(k, s)
        /\ translateType(d, dbType(d, k, s)) = FromSpanner(SpannerType(k, s))
    BY <1>4 DEF dbType, translateType
  <2> QED BY <2>1 DEF SpannerType, FromSpanner
<1>5. CASE d = "bigquery"
  <2>1. dbType(d, k, s) = BigqueryType(k, s)
        /\ translateType(d, dbType(d, k, s)) = FromBigquery(BigqueryType(k, s))
    BY <1>5 DEF dbType, translateType
  <2> QED BY <2>1 DEF BigqueryType, FromBigquery
<1>6. CASE d = "descriptors"
  BY <1>6 DEF dbType, translateType
<1> QED BY <1>1, <1>2, <1>3, <1>4, <1>5, <1>6 DEF Stores, Dialects

(* Listing what was read back. *)
LEMMA ListsBack ==
    ASSUME NEW k \in Made \ {Unsupported}, NEW f \in ReadAs(k)
    PROVE  /\ fieldTypeToWixDataEnum(f) \in WixTypes
           /\ wixDataEnumToFieldType(fieldTypeToWixDataEnum(f)) = k
           /\ fieldTypeToWixDataEnum(f) = "DATETIME" => f = "datetime"
<1>1. f \in {"text", "datetime", "date", "time", "object", "number", "boolean"}
      /\ (f \in {"date", "time"} => k = "datetime")
      /\ (f \notin {"date", "time"} => k = f)
  BY DEF Made, ReadAs
<1>2. fieldTypeToWixDataEnum(f) = CASE f = "text"     -> "TEXT"
                                    [] f = "datetime" -> "DATETIME"
                                    [] f = "date"     -> "DATE"
                                    [] f = "time"     -> "TIME"
                                    [] f = "object"   -> "OBJECT"
                                    [] f = "number"   -> "NUMBER"
                                    [] f = "boolean"  -> "BOOLEAN"
  BY <1>1 DEF fieldTypeToWixDataEnum
<1> QED BY <1>1, <1>2 DEF wixDataEnumToFieldType, WixTypes, TextTypes, TimeTypes, ObjectTypes

(* A column made for a field of a request is listed as what was asked for. *)
Askable(input) ==
    /\ input.type \in Made \ {Unsupported}
    /\ input.type = "datetime" => input.subtype \in {"date", "time", "datetime"}

IsColumn(d, made) == made # Unsupported /\ translateType(d, made) \in FieldTypes

AsAsked(d, made, field) ==
    ~ field.encrypted =>
        Family(translateType(d, made)) = wixDataEnumToFieldType(field.type)

LEMMA FieldAskable ==
    ASSUME NEW fs \in Requests, NEW n \in DOMAIN fs
    PROVE  /\ wixDataEnumToFieldType(fs[n].type) \in Made \ {Unsupported}
           /\ Askable(wixFormatFieldToInputFields(fs[n]))
<1>1. wixDataEnumToFieldType(fs[n].type) # Unsupported
  BY RequestsAssumption
<1>2. fs[n].type \in WixTypes
  BY <1>1 DEF wixDataEnumToFieldType, WixTypes
<1>3. /\ wixDataEnumToFieldType(fs[n].type) \in Made
      /\ wixDataEnumToFieldType(fs[n].type) = "datetime" =>
            fieldTypeToSubtype(fs[n].type) \in {"date", "time", "datetime"}
  BY <1>2, StoredAs
<1>4. \/ wixFormatFieldToInputFields(fs[n]) = [type |-> "object", subtype |-> ""]
      \/ wixFormatFieldToInputFields(fs[n]) =
            [type |-> wixDataEnumToFieldType(fs[n].type),
             subtype |-> fieldTypeToSubtype(fs[n].type)]
  BY DEF wixFormatFieldToInputFields
<1>5. Askable([type |-> "object", subtype |-> ""])
  BY DEF Askable, Made, Unsupported
<1>6. Askable([type |-> wixDataEnumToFieldType(fs[n].type),
               subtype |-> fieldTypeToSubtype(fs[n].type)])
  BY <1>1, <1>3 DEF Askable
<1>7. Askable(wixFormatFieldToInputFields(fs[n]))
  BY <1>4, <1>5, <1>6
<1> QED BY <1>1, <1>3, <1>7

LEMMA ColumnMade ==
    ASSUME NEW d \in Stores, NEW input, Askable(input), dbTypeFor(d, input) # Unsupported
    PROVE  /\ IsColumn(d, dbTypeFor(d, input))
           /\ translateType(d, dbTypeFor(d, input)) \in ReadAs(input.type)
<1>1. translateType(d, dbTypeFor(d, input)) \in ReadAs(input.type)
  BY DialectReads DEF Askable, dbTypeFor
<1>2. input.type \in Made \ {Unsupported} => ReadAs(input.type) \subseteq FieldTypes
  BY DEF ReadAs, Made, FieldTypes, Unsupported
<1> QED BY <1>1, <1>2 DEF IsColumn, Askable

LEMMA FieldMade ==
    ASSUME NEW d \in Stores, NEW fs \in Requests, NEW n \in DOMAIN fs,
           dbTypeFor(d, wixFormatFieldToInputFields(fs[n])) # Unsupported
    PROVE  AsAsked(d, dbTypeFor(d, wixFormatFieldToInputFields(fs[n])), fs[n])
<1> DEFINE input == wixFormatFieldToInputFields(fs[n])
           k == wixDataEnumToFieldType(fs[n].type)
<1> SUFFICES ASSUME ~ fs[n].encrypted
             PROVE  Family(translateType(d, dbTypeFor(d, input))) = k
  BY DEF AsAsked
<1>1. input.type = k
  BY DEF wixFormatFieldToInputFields
<1>2. Askable(input) /\ k \in Made \ {Unsupported}
  BY FieldAskable
<1>3. translateType(d, dbTypeFor(d, input)) \in ReadAs(k)
  BY <1>1, <1>2, ColumnMade
<1> HIDE DEF input, k
<1> QED BY <1>2, <1>3, ListsBack DEF Family

(* A column that is listed with the very type of the field needs no change.*)
LEMMA SameListed ==
    ASSUME NEW d, NEW made, NEW fs \in Requests, NEW n \in DOMAIN fs,
           translateType(d, made) = wixDataEnumToFieldType(fs[n].type)
    PROVE  AsAsked(d, made, fs[n])
<1> DEFINE k == wixDataEnumToFieldType(fs[n].type)
<1>1. k \in Made \ {Unsupported}
  BY FieldAskable
<1>2. k \in ReadAs(k)
  BY DEF ReadAs
<1> HIDE DEF k
<1>3. Family(k) = k
  BY <1>1, <1>2, ListsBack DEF Family
<1> QED BY <1>3 DEF AsAsked, k

-----------------------------------------------------------------------------
(* Type correctness: what the requests keep between their steps, and what  *)
(* is on its way to the database and to the cache, are tables of columns   *)
(* that some request named, with types the database has and the adaptor    *)
(* knows.                                                                  *)
IsTable(d, x) == DOMAIN x \subseteq Names /\ \A n \in DOMAIN x : IsColumn(d, x[n])

OpTyped(d, p) ==
    /\ p.op.name \in Names
    /\ p.op.kind # "remove" => Askable(p.op.input)
    /\ IsTable(d, p.seen)

TablesTyped    == \A c \in Collections : IsTable(store.dialect, db[c])
CacheTyped     == \A c \in Collections : IsListing(cache[c])
FillsTyped     == \A f \in fills : f.coll \in Collections /\ IsListing(f.table)
DescribedTyped == \A t \in Tasks : IsListing(described[t])
ListingTyped   == \A t \in Tasks, c \in Collections : IsListing(listing[t][c])
PendTyped      == \A t \in Tasks : \A p \in pend[t] : OpTyped(store.dialect, p)
DetachedTyped  == \A d \in detached : OpTyped(store.dialect, d.p)

(* Column operations belong to a phase, and who has answered is idle. *)
Control ==
    /\ pc \in [Tasks -> Steps]
    /\ DOMAIN outcome = Tasks
    /\ \A t \in Tasks :
          /\ outcome[t] \in {"none", "ok", "error"}
          /\ outcome[t] = "ok" => pc[t] = "idle"
          /\ pend[t] # {} => pc[t] \in {"adding", "removing", "changing"}
    /\ failures \in 0 .. MaxFailures
    /\ requests \in 0 .. MaxRequests

Typed ==
    /\ store \in Providers
    /\ TablesTyped
    /\ CacheTyped
    /\ FillsTyped
    /\ DescribedTyped
    /\ ListingTyped
    /\ PendTyped
    /\ DetachedTyped

TInv == IInv /\ Typed /\ Control

(* The provider stays the same. *)
LEMMA StoreStays == [Next]_vars => store' = store
BY DEF Next, Arrive, Proceed, Fail, Background, CreateStart, UpdateStart, DeleteStart,
       Create, DeleteDescribed, Drop, UpdateDescribed, RemovePhase, ChangePhase,
       ColumnRead, ColumnDone, ColumnRefused, ColumnFails, RefreshStart, RefreshListed,
       RefreshDone, StorageFails, DetachedRead, DetachedDone, Fill, Describe, Restart,
       vars, provider

LEMMA Dialected == Typed => store.dialect \in Stores
BY ProvidersAssumption DEF Typed

LEMMA NoTableTyped == IsListing(NoTable) /\ \A d : IsTable(d, NoTable)
BY DEF IsListing, IsTable, NoTable

LEMMA ListedTyped ==
    ASSUME NEW table, IsTable(store.dialect, table)
    PROVE  IsListing(AsListed(table))
BY DEF IsTable, IsColumn, IsListing, AsListed, ListedAs

LEMMA AppliedTyped ==
    ASSUME Typed, NEW op, NEW table, IsTable(store.dialect, table), Possible(op, table),
           op.name \in Names, op.kind # "remove" => Askable(op.input)
    PROVE  IsTable(store.dialect, Applied(op, table))
<1>1. CASE op.kind = "remove"
  BY <1>1 DEF Applied, Restrict, IsTable
<1>2. CASE op.kind # "remove"
  <2>1. IsColumn(store.dialect, dbTypeFor(store.dialect, op.input))
    BY <1>2, Dialected, ColumnMade DEF Possible
  <2> QED BY <1>2, <2>1 DEF Applied, IsTable
<1> QED BY <1>1, <1>2

LEMMA EffectTyped ==
    ASSUME DOMAIN db = Collections, Typed,
           NEW c \in Collections, NEW p, OpTyped(store.dialect, p)
    PROVE  \A d \in Collections : IsTable(store.dialect, Effect(p, c)[d])
<1>1. CASE Succeeds(p, c)
  <2>1. IsTable(store.dialect, Base(p, c))
    BY DEF Base, OpTyped, Typed, TablesTyped
  <2>2. IsTable(store.dialect, Applied(p.op, Base(p, c)))
    BY <1>1, <2>1, AppliedTyped DEF OpTyped, Succeeds
  <2> QED BY <1>1, <2>2 DEF Effect, Typed, TablesTyped
<1>2. CASE ~ Succeeds(p, c)
  BY <1>2 DEF Effect, Typed, TablesTyped
<1> QED BY <1>1, <1>2

LEMMA StoredTyped ==
    ASSUME Typed, NEW fs \in Requests, Expressible(fs)
    PROVE  IsTable(store.dialect, Stored(fs))
<1>1. \A n \in DOMAIN fs : IsColumn(store.dialect, Stored(fs)[n])
  BY Dialected, FieldAskable, ColumnMade DEF Expressible, Stored
<1> QED BY <1>1 DEF Stored, IsTable, Names

LEMMA PlanTyped ==
    ASSUME NEW fs \in Requests, NEW table, IsListing(table)
    PROVE  /\ \A p \in Issue(columnsToAdd(table, fs)) : OpTyped(store.dialect, p)
           /\ \A p \in Issue(columnsToRemove(table, fs)) : OpTyped(store.dialect, p)
           /\ \A p \in Issue(columnsToChangeType(table, fs)) : OpTyped(store.dialect, p)
<1> DEFINE Fine(op) == /\ op.name \in Names
                       /\ op.kind # "remove" => Askable(op.input)
<1>1. \A n \in DOMAIN fs : n \in Names /\ Askable(wixFormatFieldToInputFields(fs[n]))
  BY FieldAskable DEF Names
<1>2. \A n \in DOMAIN table : n \in Names
  BY DEF IsListing
<1>3. \A op \in columnsToAdd(table, fs) : Fine(op)
  BY <1>1 DEF columnsToAdd
<1>4. \A op \in columnsToRemove(table, fs) : Fine(op)
  BY <1>2 DEF columnsToRemove
<1>5. \A op \in columnsToChangeType(table, fs) : Fine(op)
  BY <1>1 DEF columnsToChangeType
<1>6. ASSUME NEW ops, \A op \in ops : Fine(op)
      PROVE  \A p \in Issue(ops) : OpTyped(store.dialect, p)
  BY <1>6, NoTableTyped DEF Issue, Issued, OpTyped
<1> HIDE DEF Fine
<1> QED BY <1>3, <1>4, <1>5, <1>6

LEMMA InitTyped == Init => Typed /\ Control
<1> SUFFICES ASSUME Init PROVE Typed /\ Control
  OBVIOUS
<1>1. Typed
  BY NoTableTyped DEF Init, Typed, TablesTyped, CacheTyped, FillsTyped, DescribedTyped,
     ListingTyped, PendTyped, DetachedTyped
<1>2. Control
  BY BoundsAssumption DEF Init, Control, Steps
<1> QED BY <1>1, <1>2

(* How a step of a request changes where it is. *)
LEMMA ControlKeeps ==
    ASSUME TInv, [Next]_vars
    PROVE  Control'
<1> USE DEF TInv, IInv, Functional, Control
<1>1. ASSUME NEW t \in Tasks, NEW result \in {"ok", "error"}, Answer(t, result),
             requests' = requests, failures' \in 0 .. MaxFailures
      PROVE  Control'
  BY <1>1 DEF Answer, Steps
<1>2. ASSUME NEW t \in Tasks, NEW step \in Steps \ {"idle"},
             pc[t] # "idle", pend[t] = {},
             Goto(t, step), requests' = requests, failures' = failures
      PROVE  Control'
  BY <1>2 DEF Goto
<1>3. ASSUME NEW t \in Tasks, NEW c \in Collections, NEW step \in Steps \ {"idle"},
             Begin(t, c, step), failures' = failures, pend' = pend
      PROVE  Control'
  BY <1>3, BoundsAssumption DEF Begin
<1>4. ASSUME NEW t \in Tasks, NEW kind, NEW ops, NEW step \in {"adding", "removing", "changing"},
             pc[t] # "idle", Phase(t, kind, ops, step), requests' = requests, failures' = failures
      PROVE  Control'
  <2>1. CASE ops # {} /\ ~ Validated(kind)
    BY <1>1, <1>4, <2>1 DEF Phase, Reject
  <2>2. CASE ~ (ops # {} /\ ~ Validated(kind))
    BY <1>4, <2>2 DEF Phase, Steps
  <2> QED BY <2>1, <2>2
<1>5. ASSUME NEW t \in Tasks, Arrive(t) PROVE Control'
  BY <1>3, <1>5 DEF Arrive, CreateStart, UpdateStart, DeleteStart, provider, Steps
<1>6. ASSUME NEW t \in Tasks, Create(t) \/ DeleteDescribed(t) \/ Drop(t) \/ RefreshStart(t)
      PROVE  Control'
  BY <1>1, <1>2, <1>6
     DEF Create, DeleteDescribed, Drop, RefreshStart, Reject, provider, Steps
<1>7. ASSUME NEW t \in Tasks, UpdateDescribed(t) \/ RemovePhase(t) \/ ChangePhase(t)
      PROVE  Control'
  BY <1>1, <1>4, <1>7 DEF UpdateDescribed, RemovePhase, ChangePhase, Reject, provider
<1>8. ASSUME NEW t \in Tasks, ColumnRead(t) \/ ColumnDone(t)
      PROVE  Control'
  BY <1>8 DEF ColumnRead, ColumnDone, provider
<1>9. ASSUME NEW t \in Tasks, RefreshListed(t) \/ RefreshDone(t)
      PROVE  Control'
  BY <1>1, <1>9 DEF RefreshListed, RefreshDone, provider, Steps
<1>10. ASSUME NEW t \in Tasks, ColumnRefused(t) \/ Fail(t)
       PROVE  Control'
  <2>1. Answer(t, "error") /\ requests' = requests /\ failures' \in 0 .. MaxFailures
    BY <1>10, BoundsAssumption
       DEF ColumnRefused, Fail, ColumnFails, StorageFails, Reject, provider
  <2> QED BY <1>1, <2>1
<1>11. ASSUME Background \/ \E c \in Collections : Describe(c)
       PROVE  Control'
  BY <1>11, BoundsAssumption DEF Background, DetachedRead, DetachedDone, Fill, Describe, provider, request
<1>12. ASSUME Restart
       PROVE  Control'
  BY <1>12, BoundsAssumption DEF Restart, Steps
<1>13. CASE UNCHANGED vars
  BY <1>13 DEF vars, provider, request
<1> QED BY <1>5, <1>6, <1>7, <1>8, <1>9, <1>10, <1>11, <1>12, <1>13 DEF Next, Proceed, Fail

(* What a step adds to the tables, and to what is on its way to them. *)
LEMMA AnswerTyped ==
    ASSUME TInv, NEW t \in Tasks, NEW result, Answer(t, result), store' = store
    PROVE  ListingTyped' /\ PendTyped'
<1> USE DEF TInv, IInv, Functional, Typed, Answer
<1>1. ListingTyped'
  BY NoTableTyped DEF ListingTyped
<1>2. PendTyped'
  BY DEF PendTyped
<1> QED BY <1>1, <1>2

LEMMA PhaseTyped ==
    ASSUME TInv, NEW t \in Tasks, NEW kind, NEW ops, NEW step, Phase(t, kind, ops, step),
           \A p \in Issue(ops) : OpTyped(store.dialect, p), store' = store
    PROVE  ListingTyped' /\ PendTyped'
<1>1. CASE ops # {} /\ ~ Validated(kind)
  BY <1>1, AnswerTyped DEF Phase, Reject
<1>2. CASE ~ (ops # {} /\ ~ Validated(kind))
  BY <1>2 DEF Phase, TInv, IInv, Functional, Typed, ListingTyped, PendTyped
<1> QED BY <1>1, <1>2

LEMMA OutliveTyped ==
    ASSUME TInv, NEW t \in Tasks, NEW p, Outlive(t, p), store' = store
    PROVE  DetachedTyped'
BY DEF TInv, Typed, PendTyped, DetachedTyped, Outlive

LEMMA TypedKeeps ==
    ASSUME TInv, [Next]_vars
    PROVE  Typed'
<1> USE DEF TInv, Typed
<1>0. store' = store
  BY StoreStays
<1> USE <1>0
<1>1. ASSUME NEW t \in Tasks, Arrive(t) PROVE Typed'
  <2>1. UNCHANGED <<db, cache, fills, listing, pend, detached>>
    BY <1>1 DEF Arrive, CreateStart, UpdateStart, DeleteStart, provider
  <2>2. described' = [described EXCEPT ![t] = NoTable]
    BY <1>1 DEF Arrive, CreateStart, UpdateStart, DeleteStart
  <2>3. DescribedTyped'
    BY <2>2, NoTableTyped DEF DescribedTyped, IInv, Functional
  <2> QED BY <2>1, <2>3
       DEF TablesTyped, CacheTyped, FillsTyped, ListingTyped, PendTyped, DetachedTyped
<1>2. ASSUME NEW t \in Tasks, Create(t) \/ DeleteDescribed(t) \/ Drop(t) \/ RefreshStart(t)
      PROVE  Typed'
  <2>1. UNCHANGED <<fills, described, detached>>
    BY <1>2 DEF Create, DeleteDescribed, Drop, RefreshStart
  <2>2. ListingTyped' /\ PendTyped'
    <3>1. Answer(t, "error") \/ UNCHANGED <<listing, pend>>
      BY <1>2 DEF Create, DeleteDescribed, Drop, RefreshStart, Goto, Reject
    <3> QED BY <3>1, AnswerTyped DEF ListingTyped, PendTyped
  <2>3. TablesTyped'
    <3>1. pc[t] = "creating" /\ Expressible(fields[t]) =>
              IsTable(store.dialect, Stored(fields[t]))
      BY StoredTyped DEF IInv, FieldsOK
    <3>2. \/ db' = db
          \/ /\ pc[t] = "creating" /\ Expressible(fields[t])
             /\ db' = [db EXCEPT ![coll[t]] = Stored(fields[t])]
          \/ db' = [db EXCEPT ![coll[t]] = NoTable]
      BY <1>2 DEF Create, DeleteDescribed, Drop, RefreshStart, provider
    <3> QED BY <3>1, <3>2, NoTableTyped DEF TablesTyped, IInv, Functional
  <2>4. CacheTyped'
    BY <1>2, NoTableTyped DEF Create, DeleteDescribed, Drop, RefreshStart, CacheTyped
  <2> QED BY <2>1, <2>2, <2>3, <2>4 DEF FillsTyped, DescribedTyped, DetachedTyped
<1>3. ASSUME NEW t \in Tasks, UpdateDescribed(t) \/ RemovePhase(t) \/ ChangePhase(t)
      PROVE  Typed'
  <2>1. fields[t] \in Requests
    BY <1>3 DEF IInv, FieldsOK, UpdateDescribed, RemovePhase, ChangePhase
  <2>2. UNCHANGED <<db, cache, fills, detached>>
    BY <1>3 DEF UpdateDescribed, RemovePhase, ChangePhase, provider
  <2>3. IsListing(AsListed(db[coll[t]])) /\ IsListing(described[t])
    BY ListedTyped DEF TablesTyped, DescribedTyped, IInv, Functional
  <2>4. DescribedTyped'
    BY <1>3, <2>3 DEF UpdateDescribed, RemovePhase, ChangePhase, DescribedTyped, IInv, Functional
  <2>5. \/ Answer(t, "error")
        \/ Phase(t, "add", columnsToAdd(AsListed(db[coll[t]]), fields[t]), "adding")
        \/ Phase(t, "remove", columnsToRemove(described[t], fields[t]), "removing")
        \/ Phase(t, "change", columnsToChangeType(described[t], fields[t]), "changing")
    BY <1>3 DEF UpdateDescribed, RemovePhase, ChangePhase, Reject
  <2>6. ListingTyped' /\ PendTyped'
    <3>1. CASE Answer(t, "error")
      BY <3>1, AnswerTyped
    <3>2. CASE Phase(t, "add", columnsToAdd(AsListed(db[coll[t]]), fields[t]), "adding")
      BY <2>1, <2>3, <3>2, PhaseTyped, PlanTyped
    <3>3. CASE Phase(t, "remove", columnsToRemove(described[t], fields[t]), "removing")
      BY <2>1, <2>3, <3>3, PhaseTyped, PlanTyped
    <3>4. CASE Phase(t, "change", columnsToChangeType(described[t], fields[t]), "changing")
      BY <2>1, <2>3, <3>4, PhaseTyped, PlanTyped
    <3> QED BY <2>5, <3>1, <3>2, <3>3, <3>4
  <2> QED BY <2>2, <2>4, <2>6 DEF TablesTyped, CacheTyped, FillsTyped, DetachedTyped
<1>4. ASSUME NEW t \in Tasks, ColumnRead(t) \/ ColumnDone(t)
      PROVE  Typed'
  <2>1. UNCHANGED <<cache, fills, described, listing, detached>>
    BY <1>4 DEF ColumnRead, ColumnDone
  <2>2. CASE ColumnRead(t)
    <3>1. PICK p \in pend[t] :
             pend' = [pend EXCEPT ![t] = (@ \ {p}) \cup {HasRead(p.op, db[coll[t]])}]
      BY <2>2 DEF ColumnRead
    <3>2. OpTyped(store.dialect, HasRead(p.op, db[coll[t]]))
      BY DEF PendTyped, OpTyped, HasRead, TablesTyped, IInv, Functional
    <3>3. PendTyped' /\ db' = db
      BY <2>2, <3>1, <3>2 DEF PendTyped, IInv, Functional, ColumnRead, provider
    <3> QED BY <2>1, <3>3
         DEF TablesTyped, CacheTyped, FillsTyped, DescribedTyped, ListingTyped, DetachedTyped
  <2>3. CASE ColumnDone(t)
    <3>1. PICK p \in pend[t] : /\ db' = Effect(p, coll[t])
                               /\ pend' = [pend EXCEPT ![t] = @ \ {p}]
      BY <2>3 DEF ColumnDone
    <3>2. TablesTyped'
      BY <3>1, EffectTyped DEF PendTyped, IInv, Functional, TablesTyped
    <3>3. PendTyped'
      BY <3>1 DEF PendTyped, IInv, Functional
    <3> QED BY <2>1, <3>2, <3>3
         DEF CacheTyped, FillsTyped, DescribedTyped, ListingTyped, DetachedTyped
  <2> QED BY <1>4, <2>2, <2>3
<1>5. ASSUME NEW t \in Tasks, ColumnRefused(t) \/ ColumnFails(t)
      PROVE  Typed'
  <2>1. PICK p \in pend[t] : Outlive(t, p) /\ db' \in {db, Effect(p, coll[t])}
    BY <1>5 DEF ColumnRefused, ColumnFails, provider
  <2>2. Answer(t, "error") /\ UNCHANGED <<cache, fills, described>>
    BY <1>5 DEF ColumnRefused, ColumnFails, Reject
  <2>3. TablesTyped'
    BY <2>1, EffectTyped DEF PendTyped, IInv, Functional, TablesTyped
  <2> QED BY <2>1, <2>2, <2>3, OutliveTyped, AnswerTyped
       DEF CacheTyped, FillsTyped, DescribedTyped
<1>6. ASSUME NEW t \in Tasks, RefreshListed(t) \/ RefreshDone(t)
      PROVE  Typed'
  <2>1. UNCHANGED <<db, fills, described, detached>>
    BY <1>6 DEF RefreshListed, RefreshDone, provider
  <2>2. ListingTyped' /\ PendTyped'
    <3>1. CASE RefreshListed(t)
      <4>1. \A c \in Collections : IsListing(AsListed(db[c]))
        BY ListedTyped DEF TablesTyped
      <4> QED BY <3>1, <4>1 DEF RefreshListed, ListingTyped, PendTyped, IInv, Functional
    <3>2. CASE RefreshDone(t)
      BY <3>2, AnswerTyped DEF RefreshDone
    <3> QED BY <1>6, <3>1, <3>2
  <2>3. CacheTyped'
    BY <1>6 DEF RefreshListed, RefreshDone, CacheTyped, ListingTyped
  <2> QED BY <2>1, <2>2, <2>3 DEF TablesTyped, FillsTyped, DescribedTyped, DetachedTyped
<1>7. ASSUME NEW t \in Tasks, StorageFails(t)
      PROVE  Typed'
  <2>1. Answer(t, "error") /\ UNCHANGED <<cache, fills, described, detached>>
    BY <1>7 DEF StorageFails, Reject
  <2>2. pc[t] = "creating" /\ Expressible(fields[t]) =>
            IsTable(store.dialect, Stored(fields[t]))
    BY StoredTyped DEF IInv, FieldsOK
  <2>3. TablesTyped'
    BY <1>7, <2>2, NoTableTyped DEF StorageFails, TablesTyped, IInv, Functional
  <2> QED BY <2>1, <2>3, AnswerTyped
       DEF CacheTyped, FillsTyped, DescribedTyped, DetachedTyped
<1>8. ASSUME Background
      PROVE  Typed'
  <2>1. UNCHANGED <<described, pend, listing>>
    BY <1>8 DEF Background, DetachedRead, DetachedDone, Fill, request
  <2>2. CASE DetachedRead
    <3>1. PICK d \in detached :
             detached' = (detached \ {d}) \cup
                            {[coll |-> d.coll, p |-> HasRead(d.p.op, db[d.coll])]}
      BY <2>2 DEF DetachedRead
    <3>2. OpTyped(store.dialect, HasRead(d.p.op, db[d.coll]))
      BY DEF DetachedTyped, DetachedOK, OpTyped, HasRead, TablesTyped, IInv
    <3>3. DetachedTyped' /\ UNCHANGED <<db, cache, fills>>
      BY <2>2, <3>1, <3>2 DEF DetachedTyped, DetachedRead, provider
    <3> QED BY <2>1, <3>3
         DEF TablesTyped, CacheTyped, FillsTyped, DescribedTyped, ListingTyped, PendTyped
  <2>3. CASE DetachedDone
    <3>1. PICK d \in detached : db' = Effect(d.p, d.coll) /\ detached' = detached \ {d}
      BY <2>3 DEF DetachedDone
    <3>2. TablesTyped'
      BY <3>1, EffectTyped DEF DetachedTyped, DetachedOK, IInv, Functional, TablesTyped
    <3>3. DetachedTyped' /\ UNCHANGED <<cache, fills>>
      BY <2>3, <3>1 DEF DetachedTyped, DetachedDone
    <3> QED BY <2>1, <3>2, <3>3
         DEF CacheTyped, FillsTyped, DescribedTyped, ListingTyped, PendTyped
  <2>4. CASE Fill
    <3>1. PICK f \in fills : /\ cache' = [cache EXCEPT ![f.coll] = f.table]
                             /\ fills' = fills \ {f}
      BY <2>4 DEF Fill
    <3>2. CacheTyped' /\ FillsTyped'
      BY <3>1 DEF IInv, Functional, CacheTyped, FillsTyped
    <3>3. UNCHANGED <<db, detached>>
      BY <2>4 DEF Fill, provider
    <3> QED BY <2>1, <3>2, <3>3
         DEF TablesTyped, DescribedTyped, ListingTyped, PendTyped, DetachedTyped
  <2> QED BY <1>8, <2>2, <2>3, <2>4 DEF Background
<1>9. ASSUME NEW c \in Collections, Describe(c)
      PROVE  Typed'
  <2>1. /\ fills' = fills \cup {[coll |-> c, table |-> AsListed(db[c])]}
        /\ UNCHANGED <<db, cache, described, pend, listing, detached>>
    BY <1>9 DEF Describe, provider, request
  <2>2. FillsTyped'
    BY <2>1, ListedTyped DEF FillsTyped, TablesTyped
  <2> QED BY <2>1, <2>2
       DEF TablesTyped, CacheTyped, DescribedTyped, ListingTyped, PendTyped, DetachedTyped
<1>10. ASSUME Restart
       PROVE  Typed'
  <2>1. /\ cache' = [c \in Collections |-> NoTable]
        /\ fills' = {}
        /\ pend' = [t \in Tasks |-> {}]
        /\ listing' = [t \in Tasks |-> [c \in Collections |-> NoTable]]
        /\ UNCHANGED <<db, described>>
    BY <1>10 DEF Restart
  <2>2. \A d \in InFlight : OpTyped(store.dialect, d.p)
    BY DEF InFlight, DetachedTyped, PendTyped
  <2>3. DetachedTyped'
    BY <1>10, <2>2 DEF Restart, DetachedTyped
  <2>4. CacheTyped' /\ FillsTyped' /\ ListingTyped' /\ PendTyped'
    BY <2>1, NoTableTyped DEF CacheTyped, FillsTyped, ListingTyped, PendTyped
  <2> QED BY <2>1, <2>3, <2>4 DEF TablesTyped, DescribedTyped
<1>11. CASE UNCHANGED vars
  BY <1>11 DEF vars, provider, request, TablesTyped, CacheTyped, FillsTyped,
               DescribedTyped, ListingTyped, PendTyped, DetachedTyped
<1> QED BY <1>1, <1>2, <1>3, <1>4, <1>5, <1>6, <1>7, <1>8, <1>9, <1>10, <1>11
     DEF Next, Proceed, Fail

(* Every request, table, description and plan stays within the names and   *)
(* types that the requests brought.                                        *)
THEOREM TypeCorrect == Spec => []TypeOK
<1>1. Init => TInv
  BY InitIInv, InitTyped DEF TInv
<1>2. TInv /\ [Next]_vars => TInv'
  BY StepKeeps, TypedKeeps, ControlKeeps DEF TInv
<1>3. ASSUME TInv PROVE TypeOK
  <2>1. ASSUME NEW c \in Collections
        PROVE  Unsupported \notin Range(db[c]) /\ IsListing(AsListed(db[c]))
    <3>1. IsTable(store.dialect, db[c])
      BY <1>3 DEF TInv, Typed, TablesTyped
    <3> QED BY <3>1, ListedTyped DEF IsTable, IsColumn, Range
  <2> QED BY <1>3, <2>1 DEF TInv, Typed, Control, IInv, Functional, TypeOK, CacheTyped,
                            FillsTyped, DescribedTyped
<1> QED BY <1>1, <1>2, <1>3, PTL DEF Spec

-----------------------------------------------------------------------------
(* An update by itself, on a database with atomic operations, of dialect d.*)
(* T is the table, D how the update found it listed, F the fields it asks  *)
(* for, and P the operations of the phase under way: each phase has done   *)
(* what is not in P.                                                       *)
AddingOK(d, T, D, F, P) ==
    /\ DOMAIN D \subseteq DOMAIN T
    /\ DOMAIN T \subseteq DOMAIN D \cup DOMAIN F
    /\ \A n \in DOMAIN D : translateType(d, T[n]) = D[n]
    /\ \A n \in DOMAIN T \ DOMAIN D : AsAsked(d, T[n], F[n])
    /\ \A n \in DOMAIN F \ DOMAIN D : n \in DOMAIN T \/ \E p \in P : p.op.name = n
    /\ \A p \in P : p.op \in columnsToAdd(D, F)

RemovingOK(d, T, D, F, P) ==
    /\ DOMAIN F \subseteq DOMAIN T
    /\ DOMAIN T \subseteq DOMAIN D \cup DOMAIN F
    /\ \A n \in DOMAIN F \cap DOMAIN D : translateType(d, T[n]) = D[n]
    /\ \A n \in DOMAIN F \ DOMAIN D : AsAsked(d, T[n], F[n])
    /\ \A n \in DOMAIN D \ DOMAIN F : n \notin DOMAIN T \/ \E p \in P : p.op.name = n
    /\ \A p \in P : p.op \in columnsToRemove(D, F)

ChangingOK(d, T, D, F, P) ==
    /\ DOMAIN T = DOMAIN F
    /\ \A n \in DOMAIN F : AsAsked(d, T[n], F[n]) \/ \E p \in P : p.op.name = n
    /\ \A p \in P : p.op \in columnsToChangeType(D, F)

Exact(d, T, F) ==
    /\ DOMAIN T = DOMAIN F
    /\ \A n \in DOMAIN F : AsAsked(d, T[n], F[n])

(* What a request leaves behind when it is given up, P being what is still *)
(* on its way: nothing is gone yet, or all that it asked for is there.     *)
LeftOK(T, D, F, P) ==
    \/ DOMAIN D \subseteq DOMAIN T /\ \A p \in P : p.op.kind # "remove"
    \/ /\ DOMAIN F \subseteq DOMAIN T
       /\ \A p \in P : p.op.kind = "remove" => p.op.name \notin DOMAIN F

LEMMA DomainApplied ==
    ASSUME NEW op, NEW T
    PROVE  /\ op.kind = "remove" =>
                 /\ DOMAIN Applied(op, T) = DOMAIN T \ {op.name}
                 /\ \A n \in DOMAIN T \ {op.name} : Applied(op, T)[n] = T[n]
           /\ op.kind # "remove" =>
                 /\ DOMAIN Applied(op, T) = DOMAIN T \cup {op.name}
                 /\ Applied(op, T)[op.name] = dbTypeFor(store.dialect, op.input)
                 /\ \A n \in DOMAIN T \ {op.name} : Applied(op, T)[n] = T[n]
BY DEF Applied, Restrict

LEMMA AddingStarts ==
    ASSUME NEW T, NEW F
    PROVE  AddingOK(store.dialect, T, AsListed(T), F, Issue(columnsToAdd(AsListed(T), F)))
<1> DEFINE D == AsListed(T)
<1>1. \A op \in columnsToAdd(D, F) : Issued(op) \in Issue(columnsToAdd(D, F))
  BY DEF Issue
<1>2. \A p \in Issue(columnsToAdd(D, F)) : p.op \in columnsToAdd(D, F)
  BY DEF Issue, Issued
<1>3. DOMAIN D = DOMAIN T /\ \A n \in DOMAIN D : translateType(store.dialect, T[n]) = D[n]
  BY DEF AsListed, ListedAs
<1> HIDE DEF D
<1>4. ASSUME NEW n \in DOMAIN F \ DOMAIN D
      PROVE  \E p \in Issue(columnsToAdd(D, F)) : p.op.name = n
  <2> DEFINE op == [kind |-> "add", name |-> n, input |-> wixFormatFieldToInputFields(F[n])]
  <2>1. op \in columnsToAdd(D, F)
    BY DEF columnsToAdd
  <2> QED BY <1>1, <2>1 DEF Issued
<1>5. AddingOK(store.dialect, T, D, F, Issue(columnsToAdd(D, F)))
  BY <1>2, <1>3, <1>4 DEF AddingOK
<1> QED BY <1>5 DEF D

LEMMA RemovingStarts ==
    ASSUME NEW T, NEW D, NEW F, AddingOK(store.dialect, T, D, F, {})
    PROVE  RemovingOK(store.dialect, T, D, F, Issue(columnsToRemove(D, F)))
<1>1. \A op \in columnsToRemove(D, F) : Issued(op) \in Issue(columnsToRemove(D, F))
  BY DEF Issue
<1>2. \A p \in Issue(columnsToRemove(D, F)) : p.op \in columnsToRemove(D, F)
  BY DEF Issue, Issued
<1>3. ASSUME NEW n \in DOMAIN D \ DOMAIN F
      PROVE  \E p \in Issue(columnsToRemove(D, F)) : p.op.name = n
  <2> DEFINE op == [kind |-> "remove", name |-> n]
  <2>1. op \in columnsToRemove(D, F)
    BY DEF columnsToRemove
  <2> QED BY <1>1, <2>1 DEF Issued
<1> QED BY <1>2, <1>3 DEF RemovingOK, AddingOK

LEMMA ChangingStarts ==
    ASSUME NEW T, NEW D, NEW F \in Requests, RemovingOK(store.dialect, T, D, F, {})
    PROVE  ChangingOK(store.dialect, T, D, F, Issue(columnsToChangeType(D, F)))
<1>1. \A op \in columnsToChangeType(D, F) : Issued(op) \in Issue(columnsToChangeType(D, F))
  BY DEF Issue
<1>2. \A p \in Issue(columnsToChangeType(D, F)) : p.op \in columnsToChangeType(D, F)
  BY DEF Issue, Issued
<1>3. ASSUME NEW n \in DOMAIN F, ~ AsAsked(store.dialect, T[n], F[n])
      PROVE  \E p \in Issue(columnsToChangeType(D, F)) : p.op.name = n
  <2> DEFINE op == [kind |-> "change", name |-> n, input |-> wixFormatFieldToInputFields(F[n])]
  <2>1. n \in DOMAIN D /\ D[n] = translateType(store.dialect, T[n])
    BY <1>3 DEF RemovingOK
  <2>2. D[n] # wixDataEnumToFieldType(F[n].type)
    BY <1>3, <2>1, SameListed
  <2>3. op \in columnsToChangeType(D, F)
    BY <2>1, <2>2 DEF columnsToChangeType
  <2> QED BY <1>1, <2>3 DEF Issued
<1>4. DOMAIN T = DOMAIN F
  BY DEF RemovingOK
<1> QED BY <1>2, <1>3, <1>4 DEF ChangingOK

LEMMA ChangingEnds ==
    ASSUME NEW T, NEW D, NEW F, ChangingOK(store.dialect, T, D, F, {})
    PROVE  Exact(store.dialect, T, F)
BY DEF ChangingOK, Exact

(* Each phase does what it has planned. *)
LEMMA AddingGoesOn ==
    ASSUME Typed, NEW T, NEW D, NEW F \in Requests, NEW P, NEW p \in P,
           Possible(p.op, T), AddingOK(store.dialect, T, D, F, P)
    PROVE  AddingOK(store.dialect, Applied(p.op, T), D, F, P \ {p})
<1>1. /\ p.op.kind = "add" /\ p.op.name \in DOMAIN F \ DOMAIN D
      /\ p.op.input = wixFormatFieldToInputFields(F[p.op.name])
  BY DEF AddingOK, columnsToAdd
<1>2. p.op.name \notin DOMAIN T /\ dbTypeFor(store.dialect, p.op.input) # Unsupported
  BY <1>1 DEF Possible
<1>3. AsAsked(store.dialect, dbTypeFor(store.dialect, p.op.input), F[p.op.name])
  BY <1>1, <1>2, Dialected, FieldMade
<1>4. /\ DOMAIN Applied(p.op, T) = DOMAIN T \cup {p.op.name}
      /\ AsAsked(store.dialect, Applied(p.op, T)[p.op.name], F[p.op.name])
      /\ \A n \in DOMAIN T \ {p.op.name} : Applied(p.op, T)[n] = T[n]
  BY <1>1, <1>3, DomainApplied
<1> QED BY <1>1, <1>2, <1>4 DEF AddingOK

LEMMA RemovingGoesOn ==
    ASSUME NEW T, NEW D, NEW F, NEW P, NEW p \in P, RemovingOK(store.dialect, T, D, F, P)
    PROVE  RemovingOK(store.dialect, Applied(p.op, T), D, F, P \ {p})
<1>1. p.op.kind = "remove" /\ p.op.name \in DOMAIN D \ DOMAIN F
  BY DEF RemovingOK, columnsToRemove
<1>2. /\ DOMAIN Applied(p.op, T) = DOMAIN T \ {p.op.name}
      /\ \A n \in DOMAIN T \ {p.op.name} : Applied(p.op, T)[n] = T[n]
  BY <1>1, DomainApplied
<1> QED BY <1>1, <1>2 DEF RemovingOK

LEMMA ChangingGoesOn ==
    ASSUME Typed, NEW T, NEW D, NEW F \in Requests, NEW P, NEW p \in P,
           Possible(p.op, T), ChangingOK(store.dialect, T, D, F, P)
    PROVE  ChangingOK(store.dialect, Applied(p.op, T), D, F, P \ {p})
<1>1. /\ p.op.kind = "change" /\ p.op.name \in DOMAIN F
      /\ p.op.input = wixFormatFieldToInputFields(F[p.op.name])
  BY DEF ChangingOK, columnsToChangeType
<1>2. AsAsked(store.dialect, dbTypeFor(store.dialect, p.op.input), F[p.op.name])
  BY <1>1, Dialected, FieldMade DEF Possible
<1>3. /\ DOMAIN Applied(p.op, T) = DOMAIN T \cup {p.op.name}
      /\ AsAsked(store.dialect, Applied(p.op, T)[p.op.name], F[p.op.name])
      /\ \A n \in DOMAIN T \ {p.op.name} : Applied(p.op, T)[n] = T[n]
  BY <1>1, <1>2, DomainApplied
<1> QED BY <1>1, <1>3 DEF ChangingOK

LEMMA LeftGoesOn ==
    ASSUME NEW T, NEW D, NEW F, NEW P, NEW p \in P, NEW Q, Q \subseteq P,
           LeftOK(T, D, F, P)
    PROVE  LeftOK(Applied(p.op, T), D, F, Q)
<1>1. CASE p.op.kind = "remove"
  <2>1. DOMAIN Applied(p.op, T) = DOMAIN T \ {p.op.name}
    BY <1>1, DomainApplied
  <2> QED BY <1>1, <2>1 DEF LeftOK
<1>2. CASE p.op.kind # "remove"
  <2>1. DOMAIN Applied(p.op, T) = DOMAIN T \cup {p.op.name}
    BY <1>2, DomainApplied
  <2> QED BY <2>1 DEF LeftOK
<1> QED BY <1>1, <1>2

(* Any phase may be given up; so may a request that does not alter columns.*)
LEMMA PhaseLeft ==
    ASSUME NEW T, NEW D, NEW F, NEW P, NEW Q, Q \subseteq P,
           AddingOK(store.dialect, T, D, F, P) \/ RemovingOK(store.dialect, T, D, F, P) \/ ChangingOK(store.dialect, T, D, F, P)
    PROVE  LeftOK(T, D, F, Q)
<1>1. CASE AddingOK(store.dialect, T, D, F, P)
  <2>1. \A p \in P : p.op.kind # "remove"
    BY <1>1 DEF AddingOK, columnsToAdd
  <2> QED BY <1>1, <2>1 DEF AddingOK, LeftOK
<1>2. CASE RemovingOK(store.dialect, T, D, F, P)
  <2>1. \A p \in P : p.op.name \notin DOMAIN F
    BY <1>2 DEF RemovingOK, columnsToRemove
  <2> QED BY <1>2, <2>1 DEF RemovingOK, LeftOK
<1>3. CASE ChangingOK(store.dialect, T, D, F, P)
  <2>1. \A p \in P : p.op.kind # "remove"
    BY <1>3 DEF ChangingOK, columnsToChangeType
  <2> QED BY <1>3, <2>1 DEF ChangingOK, LeftOK
<1> QED BY <1>1, <1>2, <1>3

LEMMA RestLeft ==
    ASSUME NEW T, NEW D, NEW F, D = NoTable \/ Exact(store.dialect, T, F)
    PROVE  LeftOK(T, D, F, {})
BY DEF NoTable, Exact, LeftOK

(* What holds while a request t is, and then was, the only one at work. *)
Succeeded(t) == pc[t] = "idle" /\ outcome[t] = "ok"

Staged(t) ==
    LET T == db[coll[t]]
        D == described[t]
        F == fields[t]
    IN  /\ pc[t] \in {"creating", "deleting", "dropping", "updating", "changed"} => D = NoTable
        /\ pc[t] = "adding" => AddingOK(store.dialect, T, D, F, pend[t])
        /\ pc[t] = "removing" => RemovingOK(store.dialect, T, D, F, pend[t])
        /\ pc[t] = "changing" => ChangingOK(store.dialect, T, D, F, pend[t])
        /\ pc[t] \in {"listing", "listed"} \/ Succeeded(t) => D = NoTable \/ Exact(store.dialect, T, F)
        /\ pc[t] = "idle" => LeftOK(T, D, F, {d.p : d \in detached})

Displayed(t) ==
    /\ pc[t] \in {"listing", "listed"} => \A c \in Collections : cache[c] = NoTable
    /\ pc[t] = "listed" =>
          listing[t] = [c \in Collections |-> ListedAs(store.dialect, db[c])]
    /\ Succeeded(t) => cache = [c \in Collections |-> ListedAs(store.dialect, db[c])]

Others(t) ==
    /\ \A u \in Tasks : u # t => pc[u] = "idle"
    /\ fills = {}
    /\ pc[t] # "idle" \/ Succeeded(t) => detached = {}
    /\ \A d \in detached : d.coll = coll[t]

Solo(t) == Others(t) /\ Staged(t) /\ Displayed(t)

Solos == \A t \in Tasks : alone[t] /\ Atomic => Solo(t)

SInv ==
    /\ TInv
    /\ Solos

(* Wherever the request is, it may be given up there. *)
LEMMA AnyLeft ==
    ASSUME SInv, NEW t \in Tasks, Solo(t),
           NEW Q, Q \subseteq pend[t] \cup {d.p : d \in detached}
    PROVE  LeftOK(db[coll[t]], described[t], fields[t], Q)
<1> DEFINE T == db[coll[t]]
           D == described[t]
           F == fields[t]
           P == {d.p : d \in detached}
<1>1. pc[t] # "idle" => P = {}
  BY DEF Solo, Others
<1>2. pc[t] \notin {"adding", "removing", "changing"} => pend[t] = {}
  BY DEF SInv, TInv, Control
<1>3. /\ pc[t] \in {"creating", "deleting", "dropping", "updating", "changed"} => D = NoTable
      /\ pc[t] = "adding" => AddingOK(store.dialect, T, D, F, pend[t])
      /\ pc[t] = "removing" => RemovingOK(store.dialect, T, D, F, pend[t])
      /\ pc[t] = "changing" => ChangingOK(store.dialect, T, D, F, pend[t])
      /\ pc[t] \in {"listing", "listed"} => D = NoTable \/ Exact(store.dialect, T, F)
      /\ pc[t] = "idle" => LeftOK(T, D, F, P)
  BY DEF Solo, Staged
<1>4. Q \subseteq pend[t] \cup P
  OBVIOUS
<1>5. pc[t] \in Steps
  BY DEF SInv, TInv, Control
<1> HIDE DEF T, D, F, P
<1>6. CASE pc[t] \in {"adding", "removing", "changing"}
  <2>1. Q \subseteq pend[t]
    BY <1>1, <1>4, <1>6
  <2> QED BY <1>3, <1>6, <2>1, PhaseLeft DEF T, D, F
<1>7. CASE pc[t] = "idle"
  BY <1>2, <1>3, <1>4, <1>7 DEF LeftOK, T, D, F
<1>8. CASE pc[t] \in {"creating", "deleting", "dropping", "updating", "changed", "listing", "listed"}
  <2>1. Q = {}
    BY <1>1, <1>2, <1>4, <1>8
  <2> QED BY <1>3, <1>8, <2>1, RestLeft DEF T, D, F
<1> QED BY <1>5, <1>6, <1>7, <1>8 DEF Steps

(* Giving it up. *)
LEMMA SoloRejected ==
    ASSUME SInv, NEW t \in Tasks, Solo(t), Answer(t, "error"),
           UNCHANGED <<coll, fills>>, \A d \in detached' : d.coll = coll[t],
           LeftOK(db'[coll[t]], described'[t], fields'[t], {d.p : d \in detached'})
    PROVE  Solo(t)'
<1> USE DEF SInv, TInv, Control, Answer
<1>1. pc' = [pc EXCEPT ![t] = "idle"] /\ outcome' = [outcome EXCEPT ![t] = "error"]
  OBVIOUS
<1>2. pc'[t] = "idle" /\ outcome'[t] = "error" /\ coll'[t] = coll[t]
  BY <1>1
<1>3. Others(t)'
  BY <1>1, <1>2 DEF Solo, Others, Succeeded
<1>4. Staged(t)' /\ Displayed(t)'
  BY <1>2 DEF Staged, Displayed, Succeeded
<1> QED BY <1>3, <1>4 DEF Solo

LEMMA AtomicEffect ==
    ASSUME SInv, Atomic, NEW c \in Collections, NEW p
    PROVE  \/ Effect(p, c) = db
           \/ /\ Possible(p.op, db[c])
              /\ Effect(p, c)[c] = Applied(p.op, db[c])
<1>1. ~ TwoSteps(p)
  BY DEF Atomic, TwoSteps
<1>2. Base(p, c) = db[c]
  BY <1>1 DEF Base
<1> QED BY <1>2 DEF Effect, Succeeds, SInv, TInv, IInv, Functional

(* Going on. *)
LEMMA OthersGoOn ==
    ASSUME SInv, NEW t \in Tasks, pc[t] # "idle", Solo(t),
           UNCHANGED <<coll, fills, detached>>,
           NEW step, pc' = [pc EXCEPT ![t] = step]
    PROVE  Others(t)'
BY DEF SInv, TInv, Control, Solo, Others, Succeeded

(* A request creates or drops a table, and refreshes the cache. *)
LEMMA SoloGoesOn ==
    ASSUME SInv, NEW t \in Tasks, Solo(t),
           Create(t) \/ DeleteDescribed(t) \/ Drop(t)
               \/ RefreshStart(t) \/ RefreshListed(t)
    PROVE  Solo(t)'
<1> USE DEF SInv, TInv, Control
<1>1. UNCHANGED <<store, coll, fields, described, fills, detached>>
  BY DEF Create, DeleteDescribed, Drop, RefreshStart, RefreshListed, provider
<1>2. CASE \/ DeleteDescribed(t) /\ db[coll[t]] = NoTable
           \/ Create(t) /\ ~ Expressible(fields[t])
  <2>1. Answer(t, "error") /\ db' = db /\ detached = {}
    BY <1>2 DEF DeleteDescribed, Create, Reject, provider, Solo, Others
  <2>2. LeftOK(db[coll[t]], described[t], fields[t], {d.p : d \in detached})
    BY AnyLeft
  <2> QED BY <1>1, <2>1, <2>2, SoloRejected DEF Solo, Others
<1>3. CASE \/ Create(t) /\ Expressible(fields[t])
           \/ Drop(t)
           \/ DeleteDescribed(t) /\ db[coll[t]] # NoTable
  <2>1. PICK step \in {"dropping", "changed"} : pc' = [pc EXCEPT ![t] = step] /\ pc[t] # "idle"
    BY <1>3 DEF Create, Drop, DeleteDescribed, Goto
  <2>2. described[t] = NoTable
    BY <1>3 DEF Create, Drop, DeleteDescribed, Solo, Staged
  <2>3. Others(t)'
    BY <1>1, <2>1, OthersGoOn
  <2>4. Staged(t)' /\ Displayed(t)'
    BY <1>1, <2>1, <2>2 DEF Staged, Displayed, Succeeded
  <2> QED BY <2>3, <2>4 DEF Solo
<1>4. CASE RefreshStart(t)
  <2>1. pc' = [pc EXCEPT ![t] = "listing"] /\ pc[t] # "idle" /\ UNCHANGED <<db, outcome>>
    BY <1>4 DEF RefreshStart, Goto, provider
  <2>2. described[t] = NoTable \/ Exact(store.dialect, db[coll[t]], fields[t])
    <3>1. CASE pc[t] = "changed"
      BY <3>1 DEF Solo, Staged
    <3>2. CASE pc[t] = "changing" /\ pend[t] = {}
      BY <3>2, ChangingEnds DEF Solo, Staged
    <3> QED BY <1>4, <3>1, <3>2 DEF RefreshStart
  <2>3. Others(t)'
    BY <1>1, <2>1, OthersGoOn
  <2>4. Staged(t)'
    BY <1>1, <2>1, <2>2 DEF Staged, Succeeded
  <2>5. \A c \in Collections : cache'[c] = NoTable
    BY <1>4 DEF RefreshStart
  <2>6. Displayed(t)'
    BY <2>1, <2>5 DEF Displayed, Succeeded
  <2> QED BY <2>3, <2>4, <2>6 DEF Solo
<1>5. CASE RefreshListed(t)
  <2>1. /\ pc' = [pc EXCEPT ![t] = "listed"] /\ pc[t] = "listing"
        /\ listing' = [listing EXCEPT ![t] =
                         [c \in Collections |-> ListedAs(store.dialect, db[c])]]
        /\ UNCHANGED <<db, cache, outcome>>
    BY <1>5 DEF RefreshListed, provider, AsListed
  <2>2. Others(t)'
    BY <1>1, <2>1, OthersGoOn
  <2>3. Staged(t)'
    BY <1>1, <2>1 DEF Solo, Staged, Succeeded
  <2>4. Displayed(t)'
    BY <1>1, <2>1 DEF Solo, Displayed, Succeeded, IInv, Functional
  <2> QED BY <2>2, <2>3, <2>4 DEF Solo
<1> QED BY <1>2, <1>3, <1>4, <1>5

LEMMA SoloDone ==
    ASSUME SInv, NEW t \in Tasks, Solo(t), RefreshDone(t)
    PROVE  Solo(t)'
<1> USE DEF SInv, TInv, Control
<1>1. UNCHANGED <<store, coll, fields, described, fills, detached, db>>
  BY DEF RefreshDone, provider
<1>2. /\ pc' = [pc EXCEPT ![t] = "idle"]
      /\ outcome' = [outcome EXCEPT ![t] = "ok"]
      /\ pc[t] = "listed"
  BY DEF RefreshDone, Answer
<1>3. detached = {} /\ (described[t] = NoTable \/ Exact(store.dialect, db[coll[t]], fields[t]))
  BY <1>2 DEF Solo, Others, Staged
<1>4. cache' = [c \in Collections |-> ListedAs(store.dialect, db[c])]
  <2>1. /\ listing[t] = [c \in Collections |-> ListedAs(store.dialect, db[c])]
        /\ \A c \in Collections : cache[c] = NoTable
    BY <1>2 DEF Solo, Displayed
  <2>2. \A c \in Collections :
           (IF listing[t][c] # NoTable THEN listing[t][c] ELSE cache[c])
               = ListedAs(store.dialect, db[c])
    BY <2>1
  <2> QED BY <2>2 DEF RefreshDone
<1>5. Others(t)'
  BY <1>1, <1>2, <1>3 DEF Solo, Others, Succeeded
<1>6. Displayed(t)'
  BY <1>1, <1>2, <1>4 DEF Displayed, Succeeded
<1>7. LeftOK(db[coll[t]], described[t], fields[t], {})
  BY <1>3, RestLeft
<1>8. {d.p : d \in detached'} = {}
  BY <1>1, <1>3
<1>9. Staged(t)'
  BY <1>1, <1>2, <1>3, <1>7, <1>8 DEF Staged, Succeeded
<1> QED BY <1>5, <1>6, <1>9 DEF Solo

(* An update finds its table, and goes from phase to phase. *)
LEMMA SoloUpdates ==
    ASSUME SInv, NEW t \in Tasks, Solo(t),
           UpdateDescribed(t) \/ RemovePhase(t) \/ ChangePhase(t)
    PROVE  Solo(t)'
<1> USE DEF SInv, TInv, Control
<1> DEFINE T == db[coll[t]]
           D == described[t]
           F == fields[t]
<1>1. UNCHANGED <<store, coll, fields, fills, detached, db>> /\ pc[t] # "idle"
  BY DEF UpdateDescribed, RemovePhase, ChangePhase, provider
<1>2. detached = {} /\ {d.p : d \in detached'} = {}
  BY <1>1 DEF Solo, Others
<1>3. CASE Answer(t, "error")
  <2>1. LeftOK(T, D, F, {})
    BY AnyLeft
  <2>2. described'[t] = D \/ described'[t] = AsListed(T)
    BY DEF UpdateDescribed, RemovePhase, ChangePhase, IInv, Functional
  <2>3. LeftOK(T, AsListed(T), F, {})
    BY ListedWhole DEF LeftOK
  <2>4. LeftOK(db'[coll[t]], described'[t], fields'[t], {d.p : d \in detached'})
    BY <1>1, <1>2, <2>1, <2>2, <2>3
  <2> QED BY <1>1, <1>2, <1>3, <2>4, SoloRejected
<1>4. ASSUME NEW kind, NEW ops, NEW step \in {"adding", "removing", "changing"},
             ~ Answer(t, "error"), Phase(t, kind, ops, step),
             step = "adding" => AddingOK(store.dialect, T, described'[t], F, Issue(ops)),
             step = "removing" => RemovingOK(store.dialect, T, described'[t], F, Issue(ops)),
             step = "changing" => ChangingOK(store.dialect, T, described'[t], F, Issue(ops))
      PROVE  Solo(t)'
  <2>1. /\ pc' = [pc EXCEPT ![t] = step]
        /\ pend' = [pend EXCEPT ![t] = Issue(ops)]
    BY <1>4 DEF Phase, Reject
  <2>2. pc'[t] = step /\ pend'[t] = Issue(ops)
    BY <2>1 DEF IInv, Functional
  <2>3. Others(t)'
    BY <1>1, <2>1, OthersGoOn
  <2>4. Staged(t)'
    BY <1>1, <1>4, <2>2 DEF Staged, Succeeded
  <2>5. Displayed(t)'
    BY <2>2 DEF Displayed, Succeeded
  <2> QED BY <2>3, <2>4, <2>5 DEF Solo
<1>5. CASE UpdateDescribed(t)
  <2>1. described'[t] = AsListed(T)
    BY <1>5 DEF UpdateDescribed, IInv, Functional
  <2>2. AddingOK(store.dialect, T, AsListed(T), F, Issue(columnsToAdd(AsListed(T), F)))
    BY AddingStarts
  <2>3. Answer(t, "error") \/ Phase(t, "add", columnsToAdd(AsListed(T), F), "adding")
    BY <1>5 DEF UpdateDescribed, Reject
  <2> HIDE DEF T, F
  <2> QED BY <1>3, <1>4, <2>1, <2>2, <2>3
<1>6. CASE RemovePhase(t)
  <2>1. described'[t] = D
    BY <1>6 DEF RemovePhase
  <2>2. RemovingOK(store.dialect, T, D, F, Issue(columnsToRemove(D, F)))
    BY <1>6, RemovingStarts DEF RemovePhase, Solo, Staged
  <2>3. Phase(t, "remove", columnsToRemove(D, F), "removing")
    BY <1>6 DEF RemovePhase
  <2> HIDE DEF T, D, F
  <2> QED BY <1>3, <1>4, <2>1, <2>2, <2>3
<1>7. CASE ChangePhase(t)
  <2>1. described'[t] = D
    BY <1>7 DEF ChangePhase
  <2>2. ChangingOK(store.dialect, T, D, F, Issue(columnsToChangeType(D, F)))
    BY <1>7, ChangingStarts DEF ChangePhase, Solo, Staged, IInv, FieldsOK
  <2>3. Phase(t, "change", columnsToChangeType(D, F), "changing")
    BY <1>7 DEF ChangePhase
  <2> HIDE DEF T, D, F
  <2> QED BY <1>3, <1>4, <2>1, <2>2, <2>3
<1> QED BY <1>5, <1>6, <1>7

(* A column operation of its takes effect, which leaves it in its phase.   *)
LEMMA PhaseGoesOn ==
    ASSUME SInv, Atomic, NEW t \in Tasks, Solo(t), NEW p \in pend[t],
           Possible(p.op, db[coll[t]])
    PROVE  LET T == Applied(p.op, db[coll[t]])
               D == described[t]
               F == fields[t]
               P == pend[t] \ {p}
           IN  /\ pc[t] \in {"adding", "removing", "changing"}
               /\ pc[t] = "adding" => AddingOK(store.dialect, T, D, F, P)
               /\ pc[t] = "removing" => RemovingOK(store.dialect, T, D, F, P)
               /\ pc[t] = "changing" => ChangingOK(store.dialect, T, D, F, P)
<1>1. pc[t] \in {"adding", "removing", "changing"} /\ fields[t] \in Requests /\ Typed
  BY DEF SInv, TInv, Control, IInv, FieldsOK
<1> QED BY <1>1, AddingGoesOn, RemovingGoesOn, ChangingGoesOn DEF Solo, Staged

LEMMA SoloColumn ==
    ASSUME SInv, Atomic, NEW t \in Tasks, Solo(t), ColumnDone(t)
    PROVE  Solo(t)'
<1> USE DEF SInv, TInv, Control
<1>1. UNCHANGED <<store, pc, outcome, coll, fields, described, fills, detached>>
  BY DEF ColumnDone
<1>2. PICK p \in pend[t] : /\ Succeeds(p, coll[t])
                           /\ db' = Effect(p, coll[t])
                           /\ pend' = [pend EXCEPT ![t] = @ \ {p}]
  BY DEF ColumnDone
<1>3. coll[t] \in Collections
  BY DEF IInv, Functional
<1>4. Possible(p.op, db[coll[t]]) /\ db'[coll[t]] = Applied(p.op, db[coll[t]])
  <2>1. Base(p, coll[t]) = db[coll[t]]
    BY DEF Base, TwoSteps, Atomic
  <2> QED BY <1>2, <1>3, <2>1 DEF Effect, Succeeds, IInv, Functional
<1>5. pend'[t] = pend[t] \ {p}
  BY <1>2 DEF IInv, Functional
<1>6. pc[t] \in {"adding", "removing", "changing"}
  BY <1>2
<1>7. Others(t)'
  BY <1>1 DEF Solo, Others, Succeeded
<1>8. Staged(t)'
  BY <1>1, <1>4, <1>5, <1>6, PhaseGoesOn DEF Staged, Succeeded
<1>9. Displayed(t)'
  BY <1>1, <1>6 DEF Displayed, Succeeded
<1> QED BY <1>7, <1>8, <1>9 DEF Solo

(* A column operation fails; the others outlive the request. *)
LEMMA SoloColumnFails ==
    ASSUME SInv, Atomic, NEW t \in Tasks, Solo(t), ColumnRefused(t) \/ ColumnFails(t)
    PROVE  Solo(t)'
<1> USE DEF SInv, TInv, Control
<1>1. UNCHANGED <<coll, fields, described, fills>> /\ Answer(t, "error")
  BY DEF ColumnRefused, ColumnFails, Reject
<1>2. PICK p \in pend[t] : Outlive(t, p) /\ db' \in {db, Effect(p, coll[t])}
  BY DEF ColumnRefused, ColumnFails, provider
<1>3. detached' = {[coll |-> coll[t], p |-> q] : q \in pend[t] \ {p}}
  BY <1>2 DEF Outlive, Solo, Others
<1>4. {d.p : d \in detached'} = pend[t] \ {p}
  <2>1. \A d \in detached' : d.p \in pend[t] \ {p}
    BY <1>3
  <2>2. ASSUME NEW q \in pend[t] \ {p}
        PROVE  \E d \in detached' : d.p = q
    <3>1. [coll |-> coll[t], p |-> q] \in detached'
      BY <1>3
    <3> QED BY <3>1
  <2> QED BY <2>1, <2>2
<1>5. \A d \in detached' : d.coll = coll[t]
  BY <1>3
<1>6. LeftOK(db[coll[t]], described[t], fields[t], pend[t] \ {p})
  BY AnyLeft
<1>7. Possible(p.op, db[coll[t]]) =>
          LeftOK(Applied(p.op, db[coll[t]]), described[t], fields[t], pend[t] \ {p})
  BY PhaseGoesOn, PhaseLeft
<1>8. LeftOK(db'[coll[t]], described[t], fields[t], pend[t] \ {p})
  <2>1. coll[t] \in Collections
    BY DEF IInv, Functional
  <2> QED BY <1>2, <1>6, <1>7, <2>1, AtomicEffect
<1> QED BY <1>1, <1>4, <1>5, <1>8, SoloRejected

LEMMA SoloStorageFails ==
    ASSUME SInv, NEW t \in Tasks, Solo(t), StorageFails(t)
    PROVE  Solo(t)'
<1>1. /\ UNCHANGED <<coll, fields, described, fills, detached>>
      /\ Answer(t, "error") /\ pc[t] # "idle"
  BY DEF StorageFails, Reject
<1>2. detached = {}
  BY <1>1 DEF Solo, Others
<1>3. LeftOK(db[coll[t]], described[t], fields[t], {d.p : d \in detached})
  BY AnyLeft
<1>4. db' = db \/ described[t] = NoTable
  BY DEF StorageFails, Solo, Staged
<1>5. LeftOK(db'[coll[t]], NoTable, fields[t], {})
  BY RestLeft
<1>6. LeftOK(db'[coll[t]], described[t], fields[t], {d.p : d \in detached})
  BY <1>2, <1>3, <1>4, <1>5
<1> QED BY <1>1, <1>2, <1>6, SoloRejected

-----------------------------------------------------------------------------
(* Whoever is the only one at work takes the step. *)
LEMMA OnlyOne ==
    ASSUME SInv, NEW t \in Tasks, pc[t] # "idle", UNCHANGED <<alone, store>>,
           Atomic /\ Solo(t) => Solo(t)'
    PROVE  Solos'
<1> SUFFICES ASSUME NEW s \in Tasks, alone'[s], Atomic'
             PROVE  Solo(s)'
  BY DEF Solos
<1>1. Solo(s) /\ Atomic
  BY DEF SInv, Solos, Atomic
<1>2. s = t
  BY <1>1 DEF Solo, Others
<1> QED BY <1>1, <1>2

LEMMA ArriveSolos ==
    ASSUME SInv, NEW t \in Tasks, Arrive(t)
    PROVE  Solos'
<1> USE DEF SInv, TInv, Control
<1> SUFFICES ASSUME NEW s \in Tasks, alone'[s]
             PROVE  Solo(s)'
  BY DEF Solos
<1>1. PICK c \in Collections, step \in {"creating", "updating", "deleting"} : Begin(t, c, step)
  BY DEF Arrive, CreateStart, UpdateStart, DeleteStart
<1>2. s = t /\ Quiet
  <2>1. alone' = [u \in Tasks |-> u = t /\ Quiet]
    BY <1>1 DEF Begin
  <2>2. alone'[s] = (s = t /\ Quiet)
    BY <2>1, Zenon
  <2> QED BY <2>2
<1>3. /\ described' = [described EXCEPT ![t] = NoTable]
      /\ UNCHANGED <<fills, detached>>
  BY DEF Arrive, CreateStart, UpdateStart, DeleteStart
<1>4. pc' = [pc EXCEPT ![t] = step]
  BY <1>1 DEF Begin
<1>5. Others(t)'
  BY <1>2, <1>3, <1>4 DEF Quiet, Others
<1>6. Staged(t)' /\ Displayed(t)'
  BY <1>3, <1>4 DEF Staged, Displayed, Succeeded, IInv, Functional
<1> QED BY <1>2, <1>5, <1>6 DEF Solo

(* What an earlier request left on its way takes effect. *)
LEMMA DetachedSolos ==
    ASSUME SInv, DetachedDone
    PROVE  Solos'
<1> USE DEF SInv, TInv, Control
<1> SUFFICES ASSUME NEW s \in Tasks, alone'[s], Atomic'
             PROVE  Solo(s)'
  BY DEF Solos
<1>1. UNCHANGED <<store, fills, cache, pc, coll, fields, described, pend, listing, outcome, alone>>
  BY DEF DetachedDone, request
<1>2. Solo(s) /\ Atomic
  BY <1>1 DEF Solos, Atomic
<1>3. PICK d \in detached : db' = Effect(d.p, d.coll) /\ detached' = detached \ {d}
  BY DEF DetachedDone
<1>4. pc[s] = "idle" /\ ~ Succeeded(s) /\ d.coll = coll[s] /\ coll[s] \in Collections
  BY <1>2 DEF Solo, Others, IInv, Functional
<1>5. LeftOK(db[coll[s]], described[s], fields[s], {x.p : x \in detached})
  BY <1>2, <1>4 DEF Solo, Staged
<1>6. {x.p : x \in detached'} \subseteq {x.p : x \in detached} /\ d.p \in {x.p : x \in detached}
  BY <1>3
<1>7. LeftOK(db'[coll[s]], described[s], fields[s], {x.p : x \in detached'})
  <2>1. db'[coll[s]] = db[coll[s]] \/ db'[coll[s]] = Applied(d.p.op, db[coll[s]])
    BY <1>2, <1>3, <1>4, AtomicEffect
  <2>2. LeftOK(db[coll[s]], described[s], fields[s], {x.p : x \in detached'})
    BY <1>5, <1>6 DEF LeftOK
  <2>3. LeftOK(Applied(d.p.op, db[coll[s]]), described[s], fields[s], {x.p : x \in detached'})
    BY <1>5, <1>6, LeftGoesOn
  <2> QED BY <2>1, <2>2, <2>3
<1>8. Others(s)'
  BY <1>1, <1>2, <1>3, <1>4 DEF Solo, Others, Succeeded
<1>9. Staged(s)'
  BY <1>1, <1>4, <1>7 DEF Staged, Succeeded
<1>10. Displayed(s)'
  BY <1>1, <1>4 DEF Displayed, Succeeded
<1> QED BY <1>8, <1>9, <1>10 DEF Solo

(* The process restarts, and what had been sent goes on. *)
LEMMA RestartSolos ==
    ASSUME SInv, Restart
    PROVE  Solos'
<1> USE DEF SInv, TInv, Control
<1> SUFFICES ASSUME NEW s \in Tasks, alone'[s], Atomic'
             PROVE  Solo(s)'
  BY DEF Solos
<1>1. /\ UNCHANGED <<store, db, coll, fields, described, alone>>
      /\ fills' = {}
      /\ detached' \subseteq InFlight
      /\ pc' = [t \in Tasks |-> "idle"]
      /\ outcome' = [t \in Tasks |-> "error"]
  BY DEF Restart
<1>2. Solo(s)
  BY <1>1 DEF Solos, Atomic
<1>3. pc'[s] = "idle" /\ outcome'[s] = "error" /\ coll'[s] = coll[s]
  BY <1>1
<1>4. \A u \in Tasks : u # s => pend[u] = {}
  BY <1>2 DEF Solo, Others
<1>5. \A d \in detached' : d \in detached \/ \E p \in pend[s] : d = [coll |-> coll[s], p |-> p]
  BY <1>1, <1>4 DEF InFlight
<1>6. {d.p : d \in detached'} \subseteq pend[s] \cup {d.p : d \in detached}
  BY <1>5
<1>7. LeftOK(db[coll[s]], described[s], fields[s], {d.p : d \in detached'})
  BY <1>2, <1>6, AnyLeft
<1>8. \A d \in detached' : d.coll = coll[s]
  BY <1>2, <1>5 DEF Solo, Others
<1>9. Others(s)'
  BY <1>1, <1>3, <1>8 DEF Others, Succeeded
<1>10. Staged(s)'
  BY <1>1, <1>3, <1>7 DEF Staged, Succeeded
<1>11. Displayed(s)'
  BY <1>3 DEF Displayed, Succeeded
<1> QED BY <1>9, <1>10, <1>11 DEF Solo

LEMMA SolosKeep ==
    ASSUME SInv, [Next]_vars
    PROVE  Solos'
<1>1. ASSUME NEW t \in Tasks, Proceed(t) \/ Fail(t)
      PROVE  Solos'
  <2>1. pc[t] # "idle" /\ UNCHANGED <<alone, store>>
    <3>1. pend[t] # {} => pc[t] # "idle"
      BY DEF SInv, TInv, Control
    <3> QED BY <1>1, <3>1
         DEF Proceed, Fail, Create, DeleteDescribed, Drop, UpdateDescribed, RemovePhase,
             ChangePhase, ColumnRead, ColumnDone, ColumnRefused, RefreshStart,
             RefreshListed, RefreshDone, ColumnFails, StorageFails, provider
  <2>2. ASSUME Atomic, Solo(t)
        PROVE  Solo(t)'
    <3>1. ~ ColumnRead(t)
      BY <2>2 DEF ColumnRead, TwoSteps, Atomic
    <3> QED BY <1>1, <2>2, <3>1, SoloGoesOn, SoloDone, SoloUpdates, SoloColumn,
               SoloColumnFails, SoloStorageFails DEF Proceed, Fail
  <2> QED BY <2>1, <2>2, OnlyOne
<1>2. ASSUME NEW t \in Tasks, Arrive(t)
      PROVE  Solos'
  BY <1>2, ArriveSolos
<1>3. CASE DetachedRead
  <2>1. \A s \in Tasks : ~ Atomic'
    BY <1>3 DEF DetachedRead, TwoSteps, Atomic, provider
  <2> QED BY <2>1 DEF Solos
<1>4. CASE DetachedDone
  BY <1>4, DetachedSolos
<1>5. CASE Fill
  <2>1. fills # {} /\ UNCHANGED <<store, alone>>
    BY <1>5 DEF Fill, provider
  <2>2. \A s \in Tasks : ~ (alone'[s] /\ Atomic')
    BY <2>1 DEF SInv, Solos, Solo, Others, Atomic
  <2> QED BY <2>2 DEF Solos
<1>6. CASE \E c \in Collections : Describe(c)
  <2>1. \A s \in Tasks : ~ alone'[s]
    BY <1>6 DEF Describe
  <2> QED BY <2>1 DEF Solos
<1>7. CASE Restart
  BY <1>7, RestartSolos
<1>8. CASE UNCHANGED vars
  BY <1>8 DEF SInv, Solos, Solo, Others, Staged, Displayed, Succeeded, Atomic, vars, provider, request
<1> QED BY <1>1, <1>2, <1>3, <1>4, <1>5, <1>6, <1>7, <1>8 DEF Next, Background

LEMMA SInvKeeps == SInv /\ [Next]_vars => SInv'
<1> SUFFICES ASSUME SInv, [Next]_vars PROVE SInv'
  OBVIOUS
<1>1. TInv'
  BY StepKeeps, TypedKeeps, ControlKeeps DEF SInv, TInv
<1>2. Solos'
  BY SolosKeep
<1> QED BY <1>1, <1>2 DEF SInv

LEMMA InitSInv == Init => SInv
<1> SUFFICES ASSUME Init PROVE SInv
  OBVIOUS
<1>1. TInv
  BY InitIInv, InitTyped DEF TInv
<1>2. Solos
  BY DEF Init, Solos
<1> QED BY <1>1, <1>2 DEF SInv

(* An update that was alone and answers success has left exactly the       *)
(* columns it was asked for, each listed by the database it is in as the   *)
(* sort of field it was asked for, and the cache shows that listing,       *)
(* whatever the fields, the table it found, the dialect and the kinds of   *)
(* operation that the database supports.                                   *)
THEOREM UpdatesAreExact == Spec => []UpdateExact
<1>1. Init => SInv
  BY InitSInv
<1>2. SInv /\ [Next]_vars => SInv'
  BY SInvKeeps
<1>3. SInv => UpdateExact
  <2> SUFFICES ASSUME SInv, NEW t \in Tasks, Atomic, Updated(t), alone[t]
               PROVE  /\ DOMAIN db[coll[t]] = DOMAIN fields[t]
                      /\ \A n \in DOMAIN fields[t] :
                            ~ fields[t][n].encrypted =>
                                Family(Shown[coll[t]][n]) =
                                    wixDataEnumToFieldType(fields[t][n].type)
                      /\ cache = Shown
    BY DEF UpdateExact
  <2>1. Succeeded(t) /\ described[t] # NoTable
    BY DEF Updated, Succeeded, SInv, TInv, Control
  <2>2. Staged(t) /\ Displayed(t)
    BY DEF SInv, Solos, Solo
  <2>3. /\ Exact(store.dialect, db[coll[t]], fields[t])
        /\ cache = [c \in Collections |-> ListedAs(store.dialect, db[c])]
    BY <2>1, <2>2 DEF Staged, Displayed
  <2>4. \A n \in DOMAIN db[coll[t]] :
            Shown[coll[t]][n] = translateType(store.dialect, db[coll[t]][n])
    BY DEF Shown, AsListed, ListedAs, SInv, TInv, IInv, Functional
  <2> QED BY <2>3, <2>4 DEF Exact, AsAsked, Shown, AsListed
<1> QED BY <1>1, <1>2, <1>3, PTL DEF Spec

(* Nothing that fails in an update, and nothing it leaves on its way when  *)
(* it is given up, takes a column away before every new one is there.      *)
THEOREM AdditionsComeFirst == Spec => []AddedBeforeRemoved
<1>1. Init => SInv
  BY InitSInv
<1>2. SInv /\ [Next]_vars => SInv'
  BY SInvKeeps
<1>3. SInv => AddedBeforeRemoved
  <2> SUFFICES ASSUME SInv, NEW t \in Tasks, Atomic, alone[t],
                      DOMAIN described[t] \ DOMAIN db[coll[t]] # {},
                      NEW op \in columnsToAdd(described[t], fields[t])
               PROVE  op.name \in DOMAIN db[coll[t]]
    BY DEF AddedBeforeRemoved
  <2>1. Solo(t)
    BY DEF SInv, Solos
  <2>2. LeftOK(db[coll[t]], described[t], fields[t], {})
    BY <2>1, AnyLeft
  <2>3. DOMAIN fields[t] \subseteq DOMAIN db[coll[t]]
    BY <2>2 DEF LeftOK
  <2> QED BY <2>3 DEF columnsToAdd
<1> QED BY <1>1, <1>2, <1>3, PTL DEF Spec
-----------------------------------------------------------------------------
(* The life of a column, ColumnTypes. *)

LEMMA ReadsBack ==
    ASSUME NEW d \in Dialects, NEW w \in Creatable(d)
    PROVE  /\ w \in WixTypes
           /\ wixDataEnumToFieldType(w) \in Made \ {Unsupported}
           /\ ReadBack(d, w) \in ReadAs(wixDataEnumToFieldType(w))
           /\ w = "DATETIME" => ReadBack(d, w) = "datetime"
<1>1. w \in WixTypes /\ DbColumn(d, w) # Unsupported
  BY DEF Creatable
<1>2. w = "DATETIME" => /\ wixDataEnumToFieldType(w) = "datetime"
                        /\ fieldTypeToSubtype(w) = "datetime"
  BY DEF wixDataEnumToFieldType, fieldTypeToSubtype, TextTypes, TimeTypes, ObjectTypes
<1>3. d \in Stores
  BY DEF Stores
<1> QED BY <1>1, <1>2, <1>3, StoredAs, DialectReads DEF DbColumn, ReadBack

(* Wherever the column is, it is what was asked for; a listing as a point  *)
(* in time is of one.                                                      *)
ColumnInv ==
    LET k == wixDataEnumToFieldType(asked)
    IN  /\ k \in Made \ {Unsupported}
        /\ column \in ReadAs(k)
        /\ listed # "" => wixDataEnumToFieldType(listed) = k
        /\ listed = "DATETIME" => column = "datetime"

LEMMA ColumnInvInit == ColumnInit => ColumnInv
BY ReadsBack DEF ColumnInit, ColumnInv

LEMMA ColumnInvKeeps == ColumnInv /\ [ColumnNext]_columnVars => ColumnInv'
<1> SUFFICES ASSUME ColumnInv, [ColumnNext]_columnVars PROVE ColumnInv'
  OBVIOUS
<1> USE DEF ColumnInv
<1>1. CASE ListColumn
  BY <1>1, ListsBack DEF ListColumn
<1>2. ASSUME NEW d \in Dialects, CopyTo(d) PROVE ColumnInv'
  BY <1>2, ReadsBack DEF CopyTo
<1>3. CASE UNCHANGED columnVars
  BY <1>3 DEF columnVars
<1> QED BY <1>1, <1>2, <1>3 DEF ColumnNext

(* However often a column is listed and created again, in any of the SQL   *)
(* databases, its listing is stored as the type it was first asked for.    *)
THEOREM FamiliesArePreserved == ColumnSpec => []FamilyPreserved
<1>1. ColumnInv => FamilyPreserved
  BY DEF ColumnInv, FamilyPreserved
<1> QED BY <1>1, ColumnInvInit, ColumnInvKeeps, PTL DEF ColumnSpec

(* A point in time stays one in whatever database it is created: no step   *)
(* lists as anything else what was listed as one.                          *)
THEOREM KindsAreNotInvented == ColumnSpec => KindNeverInvented
<1>1. ColumnInv /\ [ColumnNext]_columnVars =>
          [listed = "DATETIME" => listed' = "DATETIME"]_columnVars
  <2> SUFFICES ASSUME ColumnInv, ColumnNext, listed = "DATETIME" PROVE listed' = "DATETIME"
    BY DEF columnVars
  <2>1. CASE ListColumn
    BY <2>1 DEF ColumnInv, ListColumn, fieldTypeToWixDataEnum
  <2>2. CASE \E d \in Dialects : CopyTo(d)
    BY <2>2 DEF CopyTo
  <2> QED BY <2>1, <2>2 DEF ColumnNext
<1> QED BY <1>1, ColumnInvInit, ColumnInvKeeps, PTL DEF ColumnSpec, KindNeverInvented
==============================================================================
