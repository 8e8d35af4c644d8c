-------------------------- MODULE SchemaCacheProofs --------------------------
(***************************************************************************)
(* Proofs about SchemaCache, for every set of collections and of tasks and *)
(* every time to live, latency and number of changes.                      *)
(*                                                                         *)
(* BoundedStaleness is not inductive: an entry inherits the lag of the     *)
(* answer it was made from, so the invariant also has to bound the lag of  *)
(* an answer by the time its call has been out, and to tie the lag of an   *)
(* entry to the time it has left.                                          *)
(***************************************************************************)
EXTENDS SchemaCache, TLAPS

(* An entry has spent in the cache at least what it lags beyond Latency. *)
EntryOK(c) ==
    cache[c] # NoEntry =>
        /\ cache[c].ver <= ver[c]
        /\ cache[c].lag + cache[c].left <= Bound
        /\ cache[c].ver = ver[c] => cache[c].lag = 0

(* An answer lags no more than its call has been out. *)
AnswerOK(t, c) ==
    got[t][c] # NoSchema =>
        /\ got[t][c].ver \in 1 .. ver[c]
        /\ got[t][c].lag <= wait[t]
        /\ got[t][c].ver = ver[c] => got[t][c].lag = 0

IdleOK(t) ==
    pc[t] = "idle" => \A c \in Collections : got[t][c] = NoSchema

IInv ==
    /\ TypeOK
    /\ \A c \in Collections : EntryOK(c)
    /\ \A t \in Tasks, c \in Collections : AnswerOK(t, c)
    /\ \A t \in Tasks : IdleOK(t)

LEMMA InitIInv == Init => IInv
<1> USE SchemaCacheAssumption
<1>1. ASSUME Init PROVE TypeOK
  BY <1>1 DEF Init, TypeOK, Versions, Entries, Schemas, Lags, Bound, NoEntry, NoSchema
<1>2. ASSUME Init PROVE \A c \in Collections : EntryOK(c)
  BY <1>2 DEF Init, EntryOK
<1>3. ASSUME Init PROVE \A t \in Tasks : IdleOK(t) /\ \A c \in Collections : AnswerOK(t, c)
  BY <1>3 DEF Init, IdleOK, AnswerOK
<1> QED BY <1>1, <1>2, <1>3 DEF IInv

(* Ending a call touches neither the tables nor the cache. *)
LEMMA FinishIInv ==
    ASSUME NEW t \in Tasks, NEW outcome \in
              {"schema", "undefined", "refreshed", "CollectionDoesNotExists", "DbError"},
           TypeOK, \A u \in Tasks : IdleOK(u), 
           \A u \in Tasks, c \in Collections : AnswerOK(u, c),
           Finish(t, outcome), tables' = tables
    PROVE  /\ pc' \in [Tasks -> {"idle", "describing", "described", "stored",
                                 "listing", "listed"}]
           /\ want' \in [Tasks -> Collections]
           /\ got' \in [Tasks -> [Collections -> Schemas]]
           /\ wait' \in [Tasks -> 0 .. Latency]
           /\ answer' \in [Tasks -> {"none", "schema", "undefined", "refreshed",
                                     "CollectionDoesNotExists", "DbError"}]
           /\ \A u \in Tasks : IdleOK(u)'
           /\ \A u \in Tasks, c \in Collections : AnswerOK(u, c)'
<1> USE SchemaCacheAssumption DEF TypeOK, Finish, tables
<1>1. NoSchema \in Schemas
  BY DEF NoSchema, Schemas, Versions, Lags, Bound
<1>2. got' \in [Tasks -> [Collections -> Schemas]]
  BY <1>1
<1>3. \A u \in Tasks : IdleOK(u)'
  BY DEF IdleOK
<1>4. \A u \in Tasks, c \in Collections : AnswerOK(u, c)'
  BY DEF AnswerOK
<1> QED BY <1>2, <1>3, <1>4

LEMMA CurrentOK ==
    ASSUME TypeOK, NEW c \in Collections
    PROVE  /\ Current(c) \in Schemas
           /\ Current(c).lag = 0
           /\ Current(c) # NoSchema => Current(c).ver = ver[c] /\ ver[c] >= 1
BY SchemaCacheAssumption DEF TypeOK, Current, NoSchema, Schemas, Versions, Lags, Bound

(* What enters the cache from an answer has all its time to live ahead. *)
LEMMA EntryFromAnswer ==
    ASSUME TypeOK, NEW t \in Tasks, NEW c \in Collections,
           AnswerOK(t, c), got[t][c] # NoSchema
    PROVE  LET e == Entry(got[t][c])
           IN  /\ e \in Entries
               /\ e.ver <= ver[c]
               /\ e.lag + e.left <= Bound
               /\ e.ver = ver[c] => e.lag = 0
BY SchemaCacheAssumption
   DEF TypeOK, AnswerOK, Entry, Entries, Schemas, Versions, Lags, Bound

LEMMA TickEntry ==
    ASSUME TypeOK, NEW c \in Collections, EntryOK(c)
    PROVE  LET e == AgedEntry(c)
           IN  /\ e \in Entries \cup {NoEntry}
               /\ e # NoEntry =>
                     /\ e.ver <= ver[c]
                     /\ e.lag + e.left <= Bound
                     /\ e.ver = ver[c] => e.lag = 0
<1> USE SchemaCacheAssumption
<1>1. CASE cache[c].left <= 1
  BY <1>1 DEF AgedEntry
<1>2. CASE ~ (cache[c].left <= 1)
  <2>1. cache[c] \in Entries /\ cache[c] # NoEntry
    BY <1>2 DEF TypeOK, NoEntry
  <2>2. ver[c] \in Versions
    BY DEF TypeOK
  <2>3. /\ cache[c].ver \in 1 .. MaxVersion
        /\ cache[c].lag \in 0 .. Bound
        /\ cache[c].left \in 1 .. TTL
    BY <2>1 DEF Entries, Lags
  <2>4. /\ cache[c].ver <= ver[c]
        /\ cache[c].lag + cache[c].left <= Bound
        /\ cache[c].ver = ver[c] => cache[c].lag = 0
    BY <2>1 DEF EntryOK
  <2>5. /\ Lagging(c, cache[c]) \in 0 .. Bound
        /\ Lagging(c, cache[c]) <= cache[c].lag + 1
        /\ cache[c].ver = ver[c] => Lagging(c, cache[c]) = 0
    BY <2>3, <2>4 DEF Lagging, Bound
  <2>6. AgedEntry(c) = [ver |-> cache[c].ver, lag |-> Lagging(c, cache[c]),
                        left |-> cache[c].left - 1]
    BY <1>2 DEF AgedEntry
  <2>7. AgedEntry(c) \in Entries
    BY <1>2, <2>3, <2>5, <2>6 DEF Entries, Lags
  <2> QED BY <2>3, <2>4, <2>5, <2>6, <2>7 DEF Bound
<1> QED BY <1>1, <1>2

LEMMA TickAnswer ==
    ASSUME TypeOK, NEW t \in Tasks, NEW c \in Collections, AnswerOK(t, c)
    PROVE  /\ Lagging(c, got[t][c]) \in Lags
           /\ got[t][c] # NoSchema =>
                 /\ Lagging(c, got[t][c]) <= wait[t] + 1
                 /\ got[t][c].ver = ver[c] => Lagging(c, got[t][c]) = 0
           /\ got[t][c] = NoSchema => Lagging(c, got[t][c]) = 0
<1> USE SchemaCacheAssumption
<1>1. /\ got[t][c] \in Schemas
      /\ got[t][c].lag \in 0 .. Bound
      /\ wait[t] \in 0 .. Latency
  BY DEF TypeOK, Schemas, Lags
<1>2. CASE got[t][c] = NoSchema
  BY <1>2 DEF Lagging, NoSchema, Lags, Bound
<1>3. CASE got[t][c] # NoSchema
  BY <1>1, <1>3 DEF Lagging, AnswerOK, Lags, Bound
<1> QED BY <1>2, <1>3

LEMMA StepIInv == IInv /\ [Next]_vars => IInv'
<1> SUFFICES ASSUME IInv, [Next]_vars PROVE IInv'
  OBVIOUS
<1> USE SchemaCacheAssumption DEF IInv
<1>1. ASSUME NEW t \in Tasks, NEW c \in Collections, SchemaForHit(t, c)
      PROVE  IInv'
  BY <1>1 DEF SchemaForHit, TypeOK, EntryOK, AnswerOK, IdleOK, tables
<1>2. ASSUME NEW t \in Tasks, NEW c \in Collections, SchemaForMiss(t, c)
      PROVE  IInv'
  BY <1>2 DEF SchemaForMiss, TypeOK, EntryOK, AnswerOK, IdleOK, tables
<1>3. ASSUME NEW t \in Tasks, Refresh(t)
      PROVE  IInv'
  BY <1>3 DEF Refresh, TypeOK, EntryOK, AnswerOK, IdleOK, tables
<1>4. ASSUME NEW t \in Tasks, DescribeAnswered(t)
      PROVE  IInv'
  <2> USE <1>4 DEF DescribeAnswered, tables
  <2>1. \A d \in Collections : got'[t][d] \in {Current(d), NoSchema}
    BY DEF TypeOK
  <2>2. NoSchema \in Schemas
    BY DEF NoSchema, Schemas, Versions, Lags, Bound
  <2>3. TypeOK'
    BY <2>2, CurrentOK DEF TypeOK
  <2>4. \A u \in Tasks, d \in Collections : AnswerOK(u, d)'
    BY <2>1, CurrentOK DEF TypeOK, AnswerOK, Versions
  <2>5. (\A d \in Collections : EntryOK(d)') /\ (\A u \in Tasks : IdleOK(u)')
    BY DEF TypeOK, EntryOK, IdleOK
  <2> QED BY <2>3, <2>4, <2>5
<1>5. ASSUME NEW t \in Tasks, Update(t)
      PROVE  IInv'
  <2> USE <1>5 DEF Update, tables
  <2> DEFINE w == want[t]
  <2>1. w \in Collections
    BY DEF TypeOK
  <2>2. cache' = [cache EXCEPT ![w] = Entry(got[t][w])]
    OBVIOUS
  <2>3. \A d \in Collections : EntryOK(d)'
    BY <2>1, <2>2, EntryFromAnswer DEF TypeOK, EntryOK
  <2>4. TypeOK'
    BY <2>1, <2>2, EntryFromAnswer DEF TypeOK
  <2>5. \A u \in Tasks : IdleOK(u)' /\ \A d \in Collections : AnswerOK(u, d)'
    BY DEF TypeOK, AnswerOK, IdleOK
  <2> QED BY <2>3, <2>4, <2>5
<1>6. ASSUME NEW t \in Tasks, UpdateThrows(t)
      PROVE  IInv'
  BY <1>6, FinishIInv DEF UpdateThrows, TypeOK, EntryOK, tables
<1>7. ASSUME NEW t \in Tasks, SchemaForReturn(t)
      PROVE  IInv'
  <2> DEFINE outcome == IF cache[want[t]] = NoEntry THEN "undefined" ELSE "schema"
  <2>1. outcome \in {"schema", "undefined"} /\ Finish(t, outcome)
    BY <1>7 DEF SchemaForReturn
  <2> HIDE DEF outcome
  <2> QED BY <1>7, <2>1, FinishIInv DEF SchemaForReturn, TypeOK, EntryOK, tables
<1>8. ASSUME NEW t \in Tasks, ListAnswered(t)
      PROVE  IInv'
  <2> USE <1>8 DEF ListAnswered, tables
  <2>1. TypeOK'
    BY CurrentOK DEF TypeOK
  <2>2. \A u \in Tasks, d \in Collections : AnswerOK(u, d)'
    BY CurrentOK DEF TypeOK, AnswerOK, Versions
  <2>3. (\A d \in Collections : EntryOK(d)') /\ (\A u \in Tasks : IdleOK(u)')
    BY DEF TypeOK, EntryOK, IdleOK
  <2> QED BY <2>1, <2>2, <2>3
<1>9. ASSUME NEW t \in Tasks, RefreshStore(t)
      PROVE  IInv'
  <2> USE <1>9 DEF RefreshStore, tables
  <2>1. \A d \in Collections : EntryOK(d)'
    BY EntryFromAnswer DEF TypeOK, EntryOK
  <2>2. cache' \in [Collections -> Entries \cup {NoEntry}]
    BY EntryFromAnswer DEF TypeOK
  <2> QED BY <2>1, <2>2, FinishIInv DEF TypeOK
<1>10. ASSUME NEW t \in Tasks, ProviderFails(t)
       PROVE  IInv'
  BY <1>10, FinishIInv DEF ProviderFails, TypeOK, EntryOK, tables
<1>11. ASSUME NEW c \in Collections, NEW exists \in BOOLEAN, ChangeTable(c, exists)
       PROVE  IInv'
  <2> USE <1>11 DEF ChangeTable, calls
  <2>1. /\ ver' \in [Collections -> Versions]
        /\ \A d \in Collections : ver'[d] >= ver[d]
        /\ \A d \in Collections : d # c => ver'[d] = ver[d]
        /\ ver'[c] = ver[c] + 1
    BY DEF TypeOK, Versions
  <2>2. TypeOK'
    BY <2>1 DEF TypeOK, Versions
  <2>3. \A d \in Collections : EntryOK(d)'
    BY <2>1 DEF TypeOK, EntryOK, Versions, Entries
  <2>4. \A u \in Tasks, d \in Collections : AnswerOK(u, d)'
    BY <2>1 DEF TypeOK, AnswerOK, Versions
  <2>5. \A u \in Tasks : IdleOK(u)'
    BY DEF IdleOK
  <2> QED BY <2>2, <2>3, <2>4, <2>5
<1>12. ASSUME Tick
       PROVE  IInv'
  <2> USE <1>12 DEF Tick, tables
  <2>1. cache' \in [Collections -> Entries \cup {NoEntry}]
    BY TickEntry
  <2>2. \A d \in Collections : EntryOK(d)'
    BY TickEntry DEF EntryOK
  <2>3. got' \in [Tasks -> [Collections -> Schemas]]
    BY TickAnswer DEF TypeOK, Schemas
  <2>4. wait' \in [Tasks -> 0 .. Latency]
    BY DEF TypeOK
  <2>5. TypeOK'
    BY <2>1, <2>3, <2>4 DEF TypeOK
  <2>6. \A u \in Tasks : IdleOK(u)'
    BY TickAnswer DEF IdleOK, NoSchema
  <2>7. \A u \in Tasks, d \in Collections : AnswerOK(u, d)'
    <3> SUFFICES ASSUME NEW u \in Tasks, NEW d \in Collections PROVE AnswerOK(u, d)'
      OBVIOUS
    <3>1. CASE pc[u] = "idle"
      BY <3>1, <2>6 DEF IdleOK, AnswerOK
    <3>2. CASE pc[u] # "idle"
      <4>1. got'[u][d] = [ver |-> got[u][d].ver, lag |-> Lagging(d, got[u][d])]
        OBVIOUS
      <4>2. wait'[u] = wait[u] + 1
        BY <3>2
      <4>3. got[u][d] \in Schemas
        BY DEF TypeOK
      <4>4. got[u][d] = NoSchema => got'[u][d] = NoSchema
        BY <4>1, TickAnswer DEF NoSchema
      <4> QED BY <4>1, <4>2, <4>3, <4>4, TickAnswer DEF AnswerOK
    <3> QED BY <3>1, <3>2
  <2> QED BY <2>2, <2>5, <2>6, <2>7
<1>13. ASSUME UNCHANGED vars
       PROVE  IInv'
  BY <1>13 DEF vars, tables, calls, TypeOK, EntryOK, AnswerOK, IdleOK
<1> QED
  BY <1>1, <1>2, <1>3, <1>4, <1>5, <1>6, <1>7, <1>8, <1>9, <1>10, <1>11, <1>12, <1>13
     DEF Next, Proceed, CreateOrAlterTable, DropTable

(* The cache, the calls and the history keep their types: in particular no *)
(* entry is ever made of a collection the provider did not find.           *)
THEOREM TypeCorrect == Spec => []TypeOK
<1>1. IInv => TypeOK
  BY DEF IInv
<1> QED BY InitIInv, StepIInv, <1>1, PTL DEF Spec

(* What schemaFor can read was the table's definition within the time to   *)
(* live and one provider call, for any number of collections and requests. *)
THEOREM StalenessBounded == Spec => []BoundedStaleness
<1>1. IInv => BoundedStaleness
  <2> SUFFICES ASSUME IInv, NEW c \in Collections, cache[c] # NoEntry
               PROVE  cache[c].lag < Bound
    BY DEF BoundedStaleness
  <2>1. cache[c] \in Entries
    BY DEF IInv, TypeOK
  <2> QED BY <2>1, SchemaCacheAssumption DEF IInv, EntryOK, Entries, Lags, Bound
<1> QED BY InitIInv, StepIInv, <1>1, PTL DEF Spec

-----------------------------------------------------------------------------
(* The refinement of BoundedStaleView *)

LEMMA InitRefines == Init => Promise!Init
BY DEF Init, Promise!Init, View, Promise!Nothing, NoEntry

LEMMA EntryView ==
    ASSUME NEW c \in Collections
    PROVE  /\ View[c] = [ver |-> cache[c].ver, lag |-> cache[c].lag]
           /\ View'[c] = [ver |-> cache'[c].ver, lag |-> cache'[c].lag]
           /\ cache'[c] = NoEntry => View'[c] = Promise!Nothing
           /\ cache'[c] = cache[c] => View'[c] = View[c]
           /\ DOMAIN View' = Collections
BY DEF View, NoEntry, Promise!Nothing

(* An answer that is stored is a definition learnt. *)
LEMMA StoredIsLearnt ==
    ASSUME IInv, NEW t \in Tasks, NEW c \in Collections, got[t][c] # NoSchema,
           cache'[c] = Entry(got[t][c])
    PROVE  Promise!Learnt(c, View'[c])
<1> USE SchemaCacheAssumption
<1>1. View'[c] = [ver |-> got[t][c].ver, lag |-> got[t][c].lag]
  BY DEF View, Entry
<1>2. /\ got[t][c].ver \in 1 .. ver[c]
      /\ got[t][c].lag <= wait[t]
      /\ got[t][c].ver = ver[c] => got[t][c].lag = 0
      /\ got[t][c].lag \in 0 .. Bound
      /\ wait[t] \in 0 .. Latency
  BY DEF IInv, AnswerOK, TypeOK, Schemas, Lags
<1>3. /\ View'[c].ver = got[t][c].ver
      /\ View'[c].lag = got[t][c].lag
  BY <1>1
<1>4. got[t][c].lag \in 0 .. Latency
  BY <1>2 DEF Bound
<1>5. /\ View'[c].ver \in 1 .. ver[c]
      /\ View'[c].lag \in 0 .. Latency
      /\ View'[c].ver = ver[c] => View'[c].lag = 0
  BY <1>2, <1>3, <1>4
<1> QED BY <1>5 DEF Promise!Learnt

LEMMA StepRefines ==
    IInv /\ IInv' /\ [Next]_vars => [Promise!Next]_<<ver, View>>
<1> SUFFICES ASSUME IInv, IInv', [Next]_vars
             PROVE  [Promise!Next]_<<ver, View>>
  OBVIOUS
<1> USE SchemaCacheAssumption
<1>0. cache' \in [Collections -> Entries \cup {NoEntry}]
  BY DEF IInv, TypeOK
<1>1. ASSUME UNCHANGED <<ver, cache>>
      PROVE  UNCHANGED <<ver, View>>
  BY <1>1 DEF View
<1>2. ASSUME ver' = ver, NEW t \in Tasks,
             \A c \in Collections :
                \/ cache'[c] \in {cache[c], NoEntry}
                \/ got[t][c] # NoSchema /\ cache'[c] = Entry(got[t][c])
      PROVE  Promise!Learn
  <2>1. ASSUME NEW c \in Collections
        PROVE  View'[c] \in {View[c], Promise!Nothing} \/ Promise!Learnt(c, View'[c])
    <3>1. CASE got[t][c] # NoSchema /\ cache'[c] = Entry(got[t][c])
      BY <3>1, StoredIsLearnt
    <3>2. CASE cache'[c] \in {cache[c], NoEntry}
      BY <3>2, EntryView
    <3> QED BY <1>2, <3>1, <3>2
  <2>2. DOMAIN View' = Collections
    BY DEF View
  <2> QED BY <1>2, <2>1, <2>2 DEF Promise!Learn
<1>3. ASSUME NEW t \in Tasks, NEW c \in Collections,
             SchemaForHit(t, c) \/ SchemaForMiss(t, c)
      PROVE  UNCHANGED <<ver, cache>>
  BY <1>3 DEF SchemaForHit, SchemaForMiss, tables
<1>4. ASSUME NEW t \in Tasks, Refresh(t)
      PROVE  Promise!Learn
  BY <1>2, <1>4 DEF Refresh, tables
<1>5. ASSUME NEW t \in Tasks,
             \/ DescribeAnswered(t) \/ UpdateThrows(t) \/ SchemaForReturn(t)
             \/ ListAnswered(t) \/ ProviderFails(t)
      PROVE  UNCHANGED <<ver, cache>>
  BY <1>5 DEF DescribeAnswered, UpdateThrows, SchemaForReturn, ListAnswered,
              ProviderFails, tables
<1>6. ASSUME NEW t \in Tasks, Update(t)
      PROVE  Promise!Learn
  BY <1>2, <1>6 DEF Update, tables, IInv, TypeOK
<1>7. ASSUME NEW t \in Tasks, RefreshStore(t)
      PROVE  Promise!Learn
  BY <1>2, <1>7 DEF RefreshStore, tables
<1>8. ASSUME NEW c \in Collections, NEW exists \in BOOLEAN, ChangeTable(c, exists)
      PROVE  Promise!Change(c)
  BY <1>8 DEF ChangeTable, Promise!Change, View
<1>9. ASSUME Tick
      PROVE  Promise!Age
  <2>1. ASSUME NEW c \in Collections, cache'[c] # NoEntry
        PROVE  View'[c] = Promise!Older(c) /\ Promise!Older(c).lag < Bound
    <3>1. cache'[c] = [ver |-> cache[c].ver, lag |-> Lagging(c, cache[c]),
                       left |-> cache[c].left - 1]
          /\ cache[c].left > 1
      <4>1. cache'[c] = AgedEntry(c)
        BY <1>9 DEF Tick
      <4>2. cache[c].left \in Nat
        BY DEF IInv, TypeOK, Entries, NoEntry
      <4> QED BY <2>1, <4>1, <4>2 DEF AgedEntry
    <3>2. cache[c] # NoEntry /\ cache[c] \in Entries
      BY <3>1 DEF IInv, TypeOK, NoEntry
    <3>3. /\ cache[c].ver \in 1 .. MaxVersion
          /\ cache[c].lag \in Nat
          /\ cache[c].left \in Nat
          /\ cache[c].lag + cache[c].left <= Bound
          /\ cache[c].ver = ver[c] => cache[c].lag = 0
      BY <3>2 DEF IInv, EntryOK, Entries, Lags, Bound
    <3>4. Lagging(c, cache[c]) = IF cache[c].ver = ver[c] THEN cache[c].lag
                                                          ELSE cache[c].lag + 1
      BY <3>1, <3>3 DEF Lagging, Bound
    <3>5. View[c] = [ver |-> cache[c].ver, lag |-> cache[c].lag]
      BY DEF View
    <3>6. View'[c] = [ver |-> cache[c].ver, lag |-> Lagging(c, cache[c])]
      BY <3>1 DEF View
    <3>7. Promise!Older(c) = [ver |-> cache[c].ver, lag |-> Lagging(c, cache[c])]
      BY <3>4, <3>5 DEF Promise!Older
    <3>8. Lagging(c, cache[c]) < Bound
      BY <3>1, <3>3, <3>4 DEF Bound
    <3> QED BY <3>6, <3>7, <3>8
  <2>2. ver' = ver
    BY <1>9 DEF Tick, tables
  <2>3. DOMAIN View' = Collections
    BY DEF View
  <2>4. ASSUME NEW c \in Collections, cache'[c] = NoEntry
        PROVE  View'[c] = Promise!Nothing
    BY <2>4 DEF View, NoEntry, Promise!Nothing
  <2> QED BY <2>1, <2>2, <2>3, <2>4 DEF Promise!Age
<1>10. ASSUME UNCHANGED vars
       PROVE  UNCHANGED <<ver, View>>
  BY <1>1, <1>10 DEF vars, tables
<1> QED
  BY <1>1, <1>3, <1>4, <1>5, <1>6, <1>7, <1>8, <1>9, <1>10
     DEF Next, Proceed, CreateOrAlterTable, DropTable, Promise!Next

(* Every behaviour of the cache is one of the bounded stale view.          *)
THEOREM CacheKeepsPromise == Spec => KeepsPromise
BY InitIInv, StepIInv, InitRefines, StepRefines, PTL
   DEF Spec, KeepsPromise, Promise!Spec

-----------------------------------------------------------------------------
(* The undisturbed refresh *)

(* Nobody else is reading, so nothing can enter the cache before the answer*)
(* of the refresh does, and that answer is what the tables still are.      *)
CleanOK(t) ==
    clean[t] /\ Refreshing(t) =>
        /\ \A u \in Tasks : u # t => pc[u] = "idle"
        /\ \A c \in Collections : cache[c] = NoEntry
        /\ pc[t] = "listed" => \A c \in Collections :
              IF c \in live THEN got[t][c] # NoSchema /\ got[t][c].ver = ver[c]
                            ELSE got[t][c] = NoSchema

CInv == TypeOK /\ \A t \in Tasks : CleanOK(t)

LEMMA StepCInv == CInv /\ TypeOK' /\ [Next]_vars => CInv'
<1> SUFFICES ASSUME CInv, TypeOK', [Next]_vars, NEW t \in Tasks PROVE CleanOK(t)'
  BY DEF CInv
<1> USE DEF CInv, Refreshing
<1>1. ASSUME NEW u \in Tasks, NEW c \in Collections, SchemaForHit(u, c)
      PROVE  CleanOK(t)'
  BY <1>1 DEF SchemaForHit, CleanOK, tables
<1>2. ASSUME NEW u \in Tasks, NEW c \in Collections, SchemaForMiss(u, c)
      PROVE  CleanOK(t)'
  BY <1>2 DEF SchemaForMiss, CleanOK, tables
<1>3. ASSUME NEW u \in Tasks, Refresh(u)
      PROVE  CleanOK(t)'
  BY <1>3 DEF Refresh, CleanOK, TypeOK, tables
<1>4. ASSUME NEW u \in Tasks, ListAnswered(u)
      PROVE  CleanOK(t)'
  <2>1. CASE u = t
    <3>1. ASSUME NEW c \in Collections
          PROVE  got'[t][c] = Current(c)
      BY <1>4, <2>1 DEF ListAnswered, TypeOK
    <3>2. ASSUME NEW c \in Collections
          PROVE  IF c \in live THEN Current(c) # NoSchema /\ Current(c).ver = ver[c]
                               ELSE Current(c) = NoSchema
      BY DEF Current, NoSchema, TypeOK, Versions
    <3> QED BY <1>4, <2>1, <3>1, <3>2 DEF ListAnswered, CleanOK, TypeOK, tables
  <2>2. CASE u # t
    BY <1>4, <2>2 DEF ListAnswered, CleanOK, TypeOK, tables
  <2> QED BY <2>1, <2>2
<1>5. ASSUME NEW u \in Tasks, Fetching(u), clean' = clean,
             \/ u = t /\ ~ Refreshing(t)'
             \/ u # t /\ pc'[t] = pc[t]
      PROVE  CleanOK(t)'
  BY <1>5 DEF CleanOK, Fetching
<1>6. ASSUME NEW u \in Tasks,
             DescribeAnswered(u) \/ Update(u) \/ UpdateThrows(u) \/ SchemaForReturn(u)
      PROVE  CleanOK(t)'
  <2>1. Fetching(u) /\ clean' = clean
    BY <1>6 DEF DescribeAnswered, Update, UpdateThrows, SchemaForReturn, Fetching
  <2>2. \/ u = t /\ ~ Refreshing(t)'
        \/ u # t /\ pc'[t] = pc[t]
    BY <1>6 DEF DescribeAnswered, Update, UpdateThrows, SchemaForReturn, Finish, TypeOK
  <2> QED BY <1>5, <2>1, <2>2
<1>7. ASSUME NEW u \in Tasks, RefreshStore(u) \/ ProviderFails(u)
      PROVE  CleanOK(t)'
  BY <1>7 DEF RefreshStore, ProviderFails, Finish, CleanOK, TypeOK, tables
<1>8. ASSUME NEW c \in Collections, NEW exists \in BOOLEAN, ChangeTable(c, exists)
      PROVE  CleanOK(t)'
  BY <1>8 DEF ChangeTable, CleanOK, calls
<1>9. ASSUME Tick
      PROVE  CleanOK(t)'
  <2>1. ASSUME NEW c \in Collections, cache[c] = NoEntry
        PROVE  cache'[c] = NoEntry
    BY <1>9, <2>1 DEF Tick, AgedEntry, NoEntry
  <2>2. ASSUME NEW c \in Collections
        PROVE  /\ got'[t][c].ver = got[t][c].ver
               /\ got[t][c] = NoSchema => got'[t][c] = NoSchema
    BY <1>9 DEF Tick, Lagging, NoSchema
  <2>3. ASSUME NEW c \in live
        PROVE  c \in Collections /\ ver[c] # 0
    BY DEF TypeOK
  <2> QED BY <1>9, <2>1, <2>2, <2>3 DEF Tick, CleanOK, NoSchema, tables
<1>10. ASSUME UNCHANGED vars
       PROVE  CleanOK(t)'
  BY <1>10 DEF vars, tables, calls, CleanOK
<1> QED
  BY <1>1, <1>2, <1>3, <1>4, <1>6, <1>7, <1>8, <1>9, <1>10
     DEF Next, Proceed, CreateOrAlterTable, DropTable

(* A refresh nobody disturbs makes the cache exactly the database, for any *)
(* number of tables created, altered and dropped before it.                *)
THEOREM RefreshIsExact == Spec => RefreshExact
<1> DEFINE Exact == \A t \in Tasks : RefreshStore(t) /\ clean[t] =>
                        \A c \in Collections :
                            IF c \in live THEN cache'[c].ver = ver[c]
                                          ELSE cache'[c] = NoEntry
<1>1. Init => CInv
  BY InitIInv DEF Init, CInv, CleanOK, IInv
<1>2. CInv => Exact
  BY DEF CInv, CleanOK, Refreshing, RefreshStore, Entry
<1>3. IInv => TypeOK
  BY DEF IInv
<1> HIDE DEF Exact
<1>4. CInv /\ [Next]_vars => [Exact]_vars
  BY <1>2
<1>5. Spec => [][Exact]_vars
  BY <1>1, <1>3, <1>4, InitIInv, StepIInv, StepCInv, PTL DEF Spec
<1> QED BY <1>5 DEF Exact, RefreshExact

=============================================================================
