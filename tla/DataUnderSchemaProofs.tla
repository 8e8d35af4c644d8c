----------------------- MODULE DataUnderSchemaProofs -----------------------
(***************************************************************************)
(* Proofs about DataUnderSchema: what a request for data makes of a cached *)
(* schema that may be stale.                                               *)
(*                                                                         *)
(* The invariant joins that of the cache, which SchemaCacheProofs proves   *)
(* (every step here is one of the cache's or none of it: CacheSteps), to   *)
(* the columns: HistoryOK says what the lag of a version says of the       *)
(* columns of the table since, for every entry and every answer on its     *)
(* way, and RequestsOK says of every request what it has read so far.      *)
(* What a step does to the request of its own task is one lemma per        *)
(* action; that it leaves the requests of the others alone is Bystander.   *)
(***************************************************************************)
EXTENDS DataUnderSchema, TLAPS

Bound == Cache!Bound

(* What is known of the cache, from its own proofs. *)
CacheOK ==
    /\ ver \in [Collections -> 0 .. MaxVersion]
    /\ live \subseteq Collections /\ \A c \in live : ver[c] >= 1
    /\ DOMAIN cache = Collections /\ DOMAIN pc = Tasks /\ want \in [Tasks -> Collections]
    /\ DOMAIN got = Tasks /\ \A t \in Tasks : DOMAIN got[t] = Collections
    /\ \A c \in Collections : cache[c] # Cache!NoEntry =>
          /\ cache[c].ver \in 1 .. ver[c]
          /\ cache[c].lag \in 0 .. Bound - 1
          /\ cache[c].ver = ver[c] => cache[c].lag = 0
    /\ \A t \in Tasks, c \in Collections : got[t][c] # Cache!NoSchema =>
          /\ got[t][c].ver \in 1 .. ver[c]
          /\ got[t][c].lag \in 0 .. Bound
          /\ got[t][c].ver = ver[c] => got[t][c].lag = 0

(* A version that ended lag ticks ago has every column that has been one   *)
(* for longer, and a table that has rested longer has none but its own.    *)
Held(c, v, lag) ==
    /\ \A f \in Columns : age[c][f] > lag => f \in shape[c][v]
    /\ v # ver[c] => lag >= rest[c]

TypesOK ==
    /\ shape \in [Collections -> [1 .. MaxVersion -> Shapes]]
    /\ age \in [Collections -> [Columns -> 0 .. Bound]]
    /\ rest \in [Collections -> 0 .. Bound]
    /\ DOMAIN req = Tasks /\ \A t \in Tasks : req[t].coll \in Collections
    /\ step \in [Tasks -> {"idle", "first", "second", "asking"}]
    /\ DOMAIN first = Tasks /\ DOMAIN projection = Tasks /\ DOMAIN stored = Tasks
    /\ DOMAIN result = Tasks /\ DOMAIN old = Tasks /\ steady \in [Tasks -> BOOLEAN]

HistoryOK ==
    /\ \A c \in Collections, f \in Columns : age[c][f] > 0 => f \in Table(c)
    /\ \A c \in Collections : cache[c] # Cache!NoEntry => Held(c, cache[c].ver, cache[c].lag)
    /\ \A t \in Tasks, c \in Collections :
          got[t][c] # Cache!NoSchema => Held(c, got[t][c].ver, got[t][c].lag)
    /\ \A t \in Tasks :
          /\ \A f \in old[t] : f \in Columns /\ age[req[t].coll][f] = Bound
          /\ steady[t] => req[t].coll \in live /\ rest[req[t].coll] = Bound

WriteKept(t) ==
    /\ step[t] = "asking" /\ req[t].kind \in Writes => old[t] \subseteq first[t]
    /\ result[t] = "ok" /\ req[t].kind \in Writes => req[t].fields \cap old[t] \subseteq stored[t]

ReadOf(t) ==
    /\ step[t] # "idle" => req[t].kind \in Kinds
    /\ step[t] = "second" => req[t].kind \in Queries \ {"count"}
    /\ Reading(t) /\ pc[t] # "idle" => want[t] = req[t].coll

KnownIs(t) == req[t].fields \cap Table(req[t].coll)

ResultExact(t) ==
    result[t] \notin {"none", "ProviderError", "TypeError"} =>
        /\ result[t] = CASE req[t].kind \in Queries /\ req[t].fields # KnownIs(t)
                               -> "FieldDoesNotExist"
                         [] req[t].kind = "update" /\ KnownIs(t) \subseteq {PrimaryKeyFieldName}
                               -> "itemErrors"
                         [] OTHER -> "ok"
        /\ result[t] = "ok" /\ req[t].kind \in Writes => stored[t] = KnownIs(t)

(* What a request about a settled table has read. *)
Exact(t) ==
    LET kind == req[t].kind
        table == Table(req[t].coll)
    IN  /\ Reading(t) /\ pc[t] = "described" => got[t][req[t].coll] # Cache!NoSchema
        /\ step[t] = "second" => first[t] = table
        /\ step[t] = "second" /\ kind # "project" => req[t].fields \subseteq table
        /\ step[t] = "asking" =>
              /\ kind \in Queries => req[t].fields \subseteq table
              /\ kind \in Writes => first[t] = table
              /\ projection[t] \subseteq table
        /\ ResultExact(t)

RequestsOK == \A t \in Tasks : ReadOf(t) /\ WriteKept(t) /\ (steady[t] => Exact(t))


-----------------------------------------------------------------------------
(* The cache: its invariant is proved in SchemaCacheProofs. *)
Proofs == INSTANCE SchemaCacheProofs

LEMMA InitCache == Init => Proofs!IInv
<1>1. Init => Proofs!Init
  BY DEF Init, Cache!Init, Proofs!Init, Cache!NoEntry, Proofs!NoEntry,
         Cache!NoSchema, Proofs!NoSchema
<1>2. Proofs!Init => Proofs!IInv
  BY CacheAssumption, Proofs!InitIInv
<1> QED BY <1>1, <1>2

LEMMA SameCalls ==
    ASSUME NEW t, NEW c
    PROVE  /\ Cache!SchemaForHit(t, c) => Proofs!SchemaForHit(t, c)
           /\ Cache!SchemaForMiss(t, c) => Proofs!SchemaForMiss(t, c)
           /\ Cache!Refresh(t) => Proofs!Refresh(t)
           /\ Cache!DescribeAnswered(t) => Proofs!DescribeAnswered(t)
           /\ Cache!ListAnswered(t) => Proofs!ListAnswered(t)
           /\ Cache!Update(t) => Proofs!Update(t)
           /\ Cache!UpdateThrows(t) => Proofs!UpdateThrows(t)
           /\ Cache!SchemaForReturn(t) => Proofs!SchemaForReturn(t)
           /\ Cache!RefreshStore(t) => Proofs!RefreshStore(t)
           /\ Cache!ProviderFails(t) => Proofs!ProviderFails(t)
<1> USE DEF Cache!NoEntry, Proofs!NoEntry, Cache!NoSchema, Proofs!NoSchema,
            Cache!tables, Proofs!tables
<1>1. Cache!SchemaForHit(t, c) => Proofs!SchemaForHit(t, c)
  BY DEF Cache!SchemaForHit, Proofs!SchemaForHit
<1>2. Cache!SchemaForMiss(t, c) => Proofs!SchemaForMiss(t, c)
  BY DEF Cache!SchemaForMiss, Proofs!SchemaForMiss
<1>3. Cache!Refresh(t) => Proofs!Refresh(t)
  BY DEF Cache!Refresh, Proofs!Refresh
<1>4. Cache!DescribeAnswered(t) => Proofs!DescribeAnswered(t)
  BY DEF Cache!DescribeAnswered, Proofs!DescribeAnswered, Cache!Current, Proofs!Current
<1>5. Cache!ListAnswered(t) => Proofs!ListAnswered(t)
  BY DEF Cache!ListAnswered, Proofs!ListAnswered, Cache!Current, Proofs!Current
<1>6. Cache!Update(t) => Proofs!Update(t)
  BY DEF Cache!Update, Proofs!Update, Cache!Entry, Proofs!Entry
<1>7. Cache!UpdateThrows(t) => Proofs!UpdateThrows(t)
  BY DEF Cache!UpdateThrows, Proofs!UpdateThrows, Cache!Finish, Proofs!Finish
<1>8. Cache!SchemaForReturn(t) => Proofs!SchemaForReturn(t)
  BY DEF Cache!SchemaForReturn, Proofs!SchemaForReturn, Cache!Finish, Proofs!Finish
<1>9. Cache!RefreshStore(t) => Proofs!RefreshStore(t)
  BY DEF Cache!RefreshStore, Proofs!RefreshStore, Cache!Finish, Proofs!Finish,
         Cache!Entry, Proofs!Entry
<1>10. Cache!ProviderFails(t) => Proofs!ProviderFails(t)
  BY DEF Cache!ProviderFails, Proofs!ProviderFails, Cache!Finish, Proofs!Finish
<1> QED BY <1>1, <1>2, <1>3, <1>4, <1>5, <1>6, <1>7, <1>8, <1>9, <1>10

LEMMA SameWorld ==
    ASSUME NEW c
    PROVE  /\ Cache!CreateOrAlterTable(c) => Proofs!CreateOrAlterTable(c)
           /\ Cache!DropTable(c) => Proofs!DropTable(c)
           /\ Cache!Tick => Proofs!Tick
<1>1. Cache!CreateOrAlterTable(c) => Proofs!CreateOrAlterTable(c)
  BY DEF Cache!CreateOrAlterTable, Proofs!CreateOrAlterTable, Cache!ChangeTable,
         Proofs!ChangeTable, Cache!calls, Proofs!calls
<1>2. Cache!DropTable(c) => Proofs!DropTable(c)
  BY DEF Cache!DropTable, Proofs!DropTable, Cache!ChangeTable,
         Proofs!ChangeTable, Cache!calls, Proofs!calls
<1>3. Cache!Tick => Proofs!Tick
  BY DEF Cache!Tick, Proofs!Tick, Cache!AgedEntry, Proofs!AgedEntry, Cache!NoEntry,
         Proofs!NoEntry, Cache!tables, Proofs!tables, Cache!Lagging, Proofs!Lagging,
         Cache!Bound, Proofs!Bound
<1> QED BY <1>1, <1>2, <1>3

(* Every step here is a step of the cache, or none of it. *)
LEMMA CacheSteps ==
    ASSUME \A t \in Tasks : req[t].coll \in Collections, Next
    PROVE  Proofs!Next \/ UNCHANGED Proofs!vars
<1>1. ASSUME NEW t \in Tasks, Hit(t) \/ Miss(t) PROVE Proofs!Next
  BY <1>1, SameCalls DEF Hit, Miss, Proofs!Next
<1>2. ASSUME NEW t \in Tasks, Missed(t) \/ Fails(t) PROVE Proofs!Next
  BY <1>2, SameCalls DEF Missed, Fails, Proofs!Next, Proofs!Proceed
<1>3. ASSUME NEW t \in Tasks, CacheOnly(t) PROVE Proofs!Next
  <2>1. \/ Cache!DescribeAnswered(t) \/ Cache!Update(t)
        \/ Cache!ListAnswered(t) \/ Cache!RefreshStore(t)
        \/ Cache!Refresh(t) \/ (\E c \in Collections : Cache!SchemaForMiss(t, c))
        \/ Cache!UpdateThrows(t) \/ Cache!SchemaForReturn(t) \/ Cache!ProviderFails(t)
    BY <1>3 DEF CacheOnly
  <2> QED BY <2>1, SameCalls DEF Proofs!Next, Proofs!Proceed
<1>4. ASSUME NEW t \in Tasks, Arrive(t) \/ Ask(t) PROVE UNCHANGED caching
  BY <1>4 DEF Arrive, Begin, Ask
<1>5. ASSUME NEW c \in Collections, ChangeTable(c) PROVE Proofs!Next
  BY <1>5, SameWorld DEF ChangeTable, Proofs!Next
<1>6. ASSUME Tick PROVE Proofs!Next
  BY <1>6, SameWorld DEF Tick, Proofs!Next
<1>7. UNCHANGED caching => UNCHANGED Proofs!vars
  BY DEF caching, Proofs!vars, Proofs!tables, Proofs!calls
<1> QED BY <1>1, <1>2, <1>3, <1>4, <1>5, <1>6, <1>7 DEF Next

LEMMA CacheKept ==
    ASSUME \A t \in Tasks : req[t].coll \in Collections, Proofs!IInv, [Next]_vars
    PROVE  Proofs!IInv'
<1>1. UNCHANGED vars => UNCHANGED Proofs!vars
  BY DEF vars, caching, Proofs!vars, Proofs!tables, Proofs!calls
<1>2. [Proofs!Next]_Proofs!vars
  BY <1>1, CacheSteps
<1> QED BY <1>2, CacheAssumption, Proofs!StepIInv

LEMMA CacheFacts == Proofs!IInv => CacheOK
<1> SUFFICES ASSUME Proofs!IInv PROVE CacheOK
  OBVIOUS
<1> USE CacheAssumption
<1>1. Proofs!TypeOK
  BY DEF Proofs!IInv
<1>2. /\ ver \in [Collections -> 0 .. MaxVersion]
      /\ live \subseteq Collections /\ \A c \in live : ver[c] >= 1
      /\ DOMAIN cache = Collections /\ DOMAIN pc = Tasks /\ want \in [Tasks -> Collections]
      /\ DOMAIN got = Tasks /\ \A t \in Tasks : DOMAIN got[t] = Collections
  BY <1>1 DEF Proofs!TypeOK, Proofs!Versions
<1>3. ASSUME NEW c \in Collections, cache[c] # Cache!NoEntry
      PROVE  /\ cache[c].ver \in 1 .. ver[c]
             /\ cache[c].lag \in 0 .. Bound - 1
             /\ cache[c].ver = ver[c] => cache[c].lag = 0
  <2>1. cache[c] \in Proofs!Entries /\ Proofs!EntryOK(c) /\ cache[c] # Proofs!NoEntry
    BY <1>1, <1>3 DEF Proofs!TypeOK, Proofs!IInv, Proofs!NoEntry, Cache!NoEntry
  <2>2. /\ cache[c].ver \in 1 .. MaxVersion
        /\ cache[c].lag \in 0 .. Bound
        /\ cache[c].left \in 1 .. TTL
    BY <2>1 DEF Proofs!Entries, Proofs!Lags, Proofs!Bound, Bound, Cache!Bound
  <2>3. /\ cache[c].ver <= ver[c]
        /\ cache[c].lag + cache[c].left <= Bound
        /\ cache[c].ver = ver[c] => cache[c].lag = 0
    BY <2>1 DEF Proofs!EntryOK, Proofs!Bound, Bound, Cache!Bound
  <2>4. ver[c] \in 0 .. MaxVersion /\ Bound \in Nat
    BY <1>2 DEF Bound, Cache!Bound
  <2> QED BY <2>2, <2>3, <2>4
<1>4. ASSUME NEW t \in Tasks, NEW c \in Collections, got[t][c] # Cache!NoSchema
      PROVE  /\ got[t][c].ver \in 1 .. ver[c]
             /\ got[t][c].lag \in 0 .. Bound
             /\ got[t][c].ver = ver[c] => got[t][c].lag = 0
  <2>1. got[t][c] \in Proofs!Schemas /\ Proofs!AnswerOK(t, c) /\ got[t][c] # Proofs!NoSchema
    BY <1>1, <1>4 DEF Proofs!TypeOK, Proofs!IInv, Proofs!NoSchema, Cache!NoSchema
  <2> QED BY <2>1 DEF Proofs!Schemas, Proofs!Lags, Proofs!AnswerOK, Proofs!Bound, Bound, Cache!Bound
<1> QED BY <1>2, <1>3, <1>4 DEF CacheOK

-----------------------------------------------------------------------------
(* What the ages of columns say of the versions that are held. *)
LEMMA Bounds == Bound \in Nat /\ Bound >= 1
BY CacheAssumption DEF Bound, Cache!Bound

(* Of a table that is read, the version is what it is now. *)
LEMMA CurrentHeld ==
    ASSUME CacheOK, TypesOK, HistoryOK, NEW c \in Collections,
           Cache!Current(c) # Cache!NoSchema
    PROVE  Held(c, Cache!Current(c).ver, Cache!Current(c).lag)
<1>1. c \in live /\ Cache!Current(c) = [ver |-> ver[c], lag |-> 0]
  BY DEF Cache!Current
<1>2. Table(c) = shape[c][ver[c]]
  BY <1>1 DEF Table
<1>3. \A f \in Columns : age[c][f] > 0 => f \in Table(c)
  BY DEF HistoryOK
<1> QED BY <1>1, <1>2, <1>3 DEF Held

(* The cached schema of a request has its old columns, and is the table of *)
(* a steady one.                                                           *)
LEMMA EntryRead ==
    ASSUME CacheOK, TypesOK, HistoryOK, NEW t \in Tasks,
           cache[req[t].coll] # Cache!NoEntry
    PROVE  /\ old[t] \subseteq Cached(req[t].coll)
           /\ steady[t] => Cached(req[t].coll) = Table(req[t].coll)
<1> DEFINE c == req[t].coll
           e == cache[c]
<1>1. c \in Collections
  BY DEF TypesOK
<1>2. e.lag \in 0 .. Bound - 1 /\ Held(c, e.ver, e.lag)
  BY <1>1 DEF CacheOK, HistoryOK
<1>3. ASSUME NEW f \in old[t] PROVE f \in shape[c][e.ver]
  <2>1. f \in Columns /\ age[c][f] = Bound
    BY DEF HistoryOK
  <2> QED BY <1>2, <2>1, Bounds DEF Held
<1>4. ASSUME steady[t] PROVE shape[c][e.ver] = Table(c)
  <2>1. c \in live /\ rest[c] = Bound
    BY <1>4 DEF HistoryOK
  <2>2. e.ver = ver[c]
    BY <1>2, <2>1, Bounds DEF Held
  <2> QED BY <2>1, <2>2 DEF Table
<1> QED BY <1>3, <1>4 DEF Cached

(* What a step other than a tick or a change of a table leaves as it is.   *)
Still == UNCHANGED <<ver, live, shape, age, rest>>

(* Entries come from answers, answers from the tables. *)
Fed ==
    /\ \A c \in Collections :
          \/ cache'[c] \in {cache[c], Cache!NoEntry}
          \/ \E t \in Tasks : got[t][c] # Cache!NoSchema /\ cache'[c] = Cache!Entry(got[t][c])
    /\ \A t \in Tasks, c \in Collections :
          got'[t][c] \in {got[t][c], Cache!NoSchema, Cache!Current(c)}

LEMMA FedCallers ==
    ASSUME CacheOK, NEW t \in Tasks,
           \/ \E c \in Collections : Cache!SchemaForHit(t, c) \/ Cache!SchemaForMiss(t, c)
           \/ Cache!DescribeAnswered(t) \/ Cache!Update(t) \/ Cache!UpdateThrows(t)
           \/ Cache!SchemaForReturn(t) \/ Cache!Refresh(t) \/ Cache!ListAnswered(t)
           \/ Cache!RefreshStore(t) \/ Cache!ProviderFails(t)
    PROVE  Fed /\ UNCHANGED <<ver, live>>
<1> USE DEF CacheOK, Cache!tables
<1>1. CASE \E c \in Collections : Cache!SchemaForHit(t, c) \/ Cache!SchemaForMiss(t, c)
  BY <1>1 DEF Cache!SchemaForHit, Cache!SchemaForMiss, Fed
<1>2. CASE Cache!DescribeAnswered(t)
  BY <1>2 DEF Cache!DescribeAnswered, Fed
<1>3. CASE Cache!ListAnswered(t)
  BY <1>3 DEF Cache!ListAnswered, Fed
<1>4. CASE Cache!Update(t)
  <2>1. want[t] \in Collections
    OBVIOUS
  <2>2. cache' = [cache EXCEPT ![want[t]] = Cache!Entry(got[t][want[t]])]
        /\ got[t][want[t]] # Cache!NoSchema /\ UNCHANGED <<ver, live, got>>
    BY <1>4 DEF Cache!Update
  <2> QED BY <2>1, <2>2 DEF Fed
<1>5. CASE Cache!UpdateThrows(t) \/ Cache!SchemaForReturn(t) \/ Cache!ProviderFails(t)
  BY <1>5 DEF Cache!UpdateThrows, Cache!SchemaForReturn, Cache!ProviderFails, Cache!Finish, Fed
<1>6. CASE Cache!Refresh(t)
  BY <1>6 DEF Cache!Refresh, Fed
<1>7. CASE Cache!RefreshStore(t)
  <2>1. \A c \in Collections :
           cache'[c] = IF got[t][c] # Cache!NoSchema THEN Cache!Entry(got[t][c]) ELSE cache[c]
    BY <1>7 DEF Cache!RefreshStore
  <2>2. \A u \in Tasks, c \in Collections : got'[u][c] \in {got[u][c], Cache!NoSchema}
    BY <1>7 DEF Cache!RefreshStore, Cache!Finish
  <2>3. UNCHANGED <<ver, live>>
    BY <1>7 DEF Cache!RefreshStore
  <2> QED BY <2>1, <2>2, <2>3 DEF Fed
<1> QED BY <1>1, <1>2, <1>3, <1>4, <1>5, <1>6, <1>7

LEMMA FedHeld ==
    ASSUME CacheOK, TypesOK, HistoryOK, Still, Fed
    PROVE  /\ \A c \in Collections, f \in Columns : age'[c][f] > 0 => f \in Table(c)'
           /\ \A c \in Collections :
                 cache'[c] # Cache!NoEntry => Held(c, cache[c].ver, cache[c].lag)'
           /\ \A t \in Tasks, c \in Collections :
                 got'[t][c] # Cache!NoSchema => Held(c, got[t][c].ver, got[t][c].lag)'
<1>1. \A c \in Collections, f \in Columns : age'[c][f] > 0 => f \in Table(c)'
  BY DEF HistoryOK, Still, Table
<1>2. ASSUME NEW c \in Collections, cache'[c] # Cache!NoEntry
      PROVE  Held(c, cache[c].ver, cache[c].lag)'
  <2>1. Held(c, cache'[c].ver, cache'[c].lag)
    <3>1. CASE cache'[c] = cache[c]
      BY <1>2, <3>1 DEF HistoryOK
    <3>2. CASE \E t \in Tasks : got[t][c] # Cache!NoSchema /\ cache'[c] = Cache!Entry(got[t][c])
      <4>1. PICK t \in Tasks : got[t][c] # Cache!NoSchema /\ cache'[c] = Cache!Entry(got[t][c])
        BY <3>2
      <4>2. cache'[c].ver = got[t][c].ver /\ cache'[c].lag = got[t][c].lag
        BY <4>1 DEF Cache!Entry
      <4>3. Held(c, got[t][c].ver, got[t][c].lag)
        BY <4>1 DEF HistoryOK
      <4> QED BY <4>2, <4>3
    <3> QED BY <1>2, <3>1, <3>2 DEF Fed
  <2> QED BY <2>1 DEF Held, Still
<1>3. ASSUME NEW t \in Tasks, NEW c \in Collections, got'[t][c] # Cache!NoSchema
      PROVE  Held(c, got[t][c].ver, got[t][c].lag)'
  <2>1. Held(c, got'[t][c].ver, got'[t][c].lag)
    <3>1. CASE got'[t][c] = got[t][c]
      BY <1>3, <3>1 DEF HistoryOK
    <3>2. CASE got'[t][c] = Cache!Current(c)
      BY <1>3, <3>2, CurrentHeld
    <3> QED BY <1>3, <3>1, <3>2 DEF Fed
  <2> QED BY <2>1 DEF Held, Still
<1> QED BY <1>1, <1>2, <1>3

(* A tick: columns and superseded versions age alike. *)
LEMMA OlderIs ==
    ASSUME NEW n \in 0 .. Bound
    PROVE  /\ Older(n) \in 0 .. Bound
           /\ Older(n) <= n + 1
           /\ Older(Bound) = Bound
BY Bounds DEF Older, Bound

LEMMA TickHeld ==
    ASSUME CacheOK, TypesOK, HistoryOK, Tick, NEW c \in Collections, NEW s, NEW lag,
           s.ver \in 1 .. ver[c], s.lag \in 0 .. Bound, s.ver = ver[c] => s.lag = 0,
           Held(c, s.ver, s.lag), lag = Cache!Lagging(c, s)
    PROVE  /\ \A f \in Columns : age'[c][f] > lag => f \in shape'[c][s.ver]
           /\ s.ver # ver'[c] => lag >= rest'[c]
<1>1. /\ age' = [d \in Collections |-> [f \in Columns |->
                    IF f \in Table(d) THEN Older(age[d][f]) ELSE 0]]
      /\ rest' = [d \in Collections |-> Older(rest[d])]
      /\ UNCHANGED <<ver, live, shape>>
  BY DEF Tick, Cache!Tick, Cache!tables
<1>2. ver[c] \in 0 .. MaxVersion /\ rest[c] \in 0 .. Bound /\ \A f \in Columns : age[c][f] \in 0 .. Bound
  BY DEF CacheOK, TypesOK
<1>3. lag = IF s.ver # ver[c] /\ s.lag < Bound THEN s.lag + 1 ELSE s.lag
  BY <1>2, CacheAssumption DEF Cache!Lagging, Bound
<1>4. ASSUME NEW f \in Columns, age'[c][f] > lag PROVE f \in shape[c][s.ver]
  <2>1. f \in Table(c) /\ age'[c][f] = Older(age[c][f])
    BY <1>1, <1>3, <1>4, Bounds
  <2>2. CASE s.ver = ver[c]
    BY <2>1, <2>2 DEF Table
  <2>3. CASE s.ver # ver[c]
    <3>1. age[c][f] > s.lag
      BY <1>2, <1>3, <1>4, <2>1, <2>3, OlderIs, Bounds
    <3> QED BY <3>1 DEF Held
  <2> QED BY <2>2, <2>3
<1>5. ASSUME s.ver # ver[c] PROVE lag >= rest'[c]
  <2>1. rest'[c] = Older(rest[c]) /\ s.lag >= rest[c]
    BY <1>1, <1>5 DEF Held
  <2> QED BY <1>2, <1>3, <1>5, <2>1, OlderIs, Bounds
<1> QED BY <1>1, <1>4, <1>5

LEMMA TickHistory ==
    ASSUME CacheOK, TypesOK, HistoryOK, Tick
    PROVE  HistoryOK' /\ TypesOK'
<1>1. /\ age' = [d \in Collections |-> [f \in Columns |->
                    IF f \in Table(d) THEN Older(age[d][f]) ELSE 0]]
      /\ rest' = [d \in Collections |-> Older(rest[d])]
      /\ cache' = [d \in Collections |-> Cache!AgedEntry(d)]
      /\ got' = [t \in Tasks |-> [d \in Collections |->
                    [ver |-> got[t][d].ver, lag |-> Cache!Lagging(d, got[t][d])]]]
      /\ UNCHANGED <<ver, live, shape, data, old, steady>>
  BY DEF Tick, Cache!Tick, Cache!tables
<1>2. TypesOK'
  <2>1. 0 \in 0 .. Bound
    BY Bounds
  <2>2. age' \in [Collections -> [Columns -> 0 .. Bound]] /\ rest' \in [Collections -> 0 .. Bound]
    BY <1>1, <2>1, OlderIs DEF TypesOK
  <2> QED BY <1>1, <2>2 DEF TypesOK, data, Bound
<1>3. \A c \in Collections, f \in Columns : age'[c][f] > 0 => f \in Table(c)'
  BY <1>1 DEF Table
<1>4. ASSUME NEW c \in Collections, cache'[c] # Cache!NoEntry
      PROVE  Held(c, cache[c].ver, cache[c].lag)'
  <2> DEFINE e == cache[c]
  <2>1. /\ cache'[c] = [ver |-> e.ver, lag |-> Cache!Lagging(c, e), left |-> e.left - 1]
        /\ e # Cache!NoEntry
    BY <1>1, <1>4, CacheAssumption DEF Cache!AgedEntry, Cache!NoEntry
  <2>2. e.ver \in 1 .. ver[c] /\ e.lag \in 0 .. Bound /\ (e.ver = ver[c] => e.lag = 0)
    BY <2>1, Bounds DEF CacheOK
  <2>3. Held(c, e.ver, e.lag)
    BY <2>1 DEF HistoryOK
  <2>4. cache'[c].ver = e.ver /\ cache'[c].lag = Cache!Lagging(c, e)
    BY <2>1
  <2> HIDE DEF e
  <2> DEFINE lag == Cache!Lagging(c, e)
  <2>5. lag = Cache!Lagging(c, e)
    OBVIOUS
  <2> HIDE DEF lag
  <2>6. /\ \A f \in Columns : age'[c][f] > lag => f \in shape'[c][e.ver]
        /\ e.ver # ver'[c] => lag >= rest'[c]
    BY <2>2, <2>3, <2>5, TickHeld
  <2> QED BY <2>4, <2>5, <2>6 DEF Held
<1>5. ASSUME NEW t \in Tasks, NEW c \in Collections, got'[t][c] # Cache!NoSchema
      PROVE  Held(c, got[t][c].ver, got[t][c].lag)'
  <2> DEFINE e == got[t][c]
  <2>1. got'[t][c] = [ver |-> e.ver, lag |-> Cache!Lagging(c, e)]
    BY <1>1
  <2>2. e # Cache!NoSchema
    BY <1>5, <2>1 DEF Cache!NoSchema, Cache!Lagging
  <2>3. e.ver \in 1 .. ver[c] /\ e.lag \in 0 .. Bound /\ (e.ver = ver[c] => e.lag = 0)
    BY <2>2 DEF CacheOK
  <2>4. Held(c, e.ver, e.lag)
    BY <2>2 DEF HistoryOK
  <2>5. got'[t][c].ver = e.ver /\ got'[t][c].lag = Cache!Lagging(c, e)
    BY <2>1
  <2> HIDE DEF e
  <2> DEFINE lag == Cache!Lagging(c, e)
  <2>6. lag = Cache!Lagging(c, e)
    OBVIOUS
  <2> HIDE DEF lag
  <2>7. /\ \A f \in Columns : age'[c][f] > lag => f \in shape'[c][e.ver]
        /\ e.ver # ver'[c] => lag >= rest'[c]
    BY <2>3, <2>4, <2>6, TickHeld
  <2> QED BY <2>5, <2>6, <2>7 DEF Held
<1>6. ASSUME NEW t \in Tasks
      PROVE  /\ \A f \in old'[t] : f \in Columns /\ age'[req'[t].coll][f] = Bound
             /\ steady'[t] => req'[t].coll \in live' /\ rest'[req'[t].coll] = Bound
  <2> DEFINE c == req[t].coll
  <2>1. c \in Collections /\ UNCHANGED <<req, old, steady, live>>
    BY <1>1 DEF TypesOK, data
  <2>2. ASSUME NEW f \in old[t] PROVE f \in Columns /\ age'[c][f] = Bound
    <3>1. f \in Columns /\ age[c][f] = Bound
      BY DEF HistoryOK
    <3>2. f \in Table(c)
      BY <2>1, <3>1, Bounds DEF HistoryOK
    <3>3. age'[c][f] = Older(Bound)
      BY <1>1, <2>1, <3>1, <3>2
    <3> QED BY <3>1, <3>3, Bounds, OlderIs
  <2>3. ASSUME steady[t] PROVE c \in live /\ rest'[c] = Bound
    <3>1. c \in live /\ rest[c] = Bound
      BY <2>3 DEF HistoryOK
    <3> QED BY <1>1, <2>1, <3>1, Bounds, OlderIs
  <2> QED BY <2>1, <2>2, <2>3
<1>7. Bound' = Bound
  BY DEF Bound, Cache!Bound
<1>8. HistoryOK'
  BY <1>3, <1>4, <1>5, <1>6 DEF HistoryOK, Bound
<1> QED BY <1>2, <1>8

(* A change of a table starts its rest anew, and a column it loses has     *)
(* been none.                                                              *)
LEMMA ChangeHistory ==
    ASSUME CacheOK, TypesOK, HistoryOK, NEW c \in Collections, ChangeTable(c)
    PROVE  HistoryOK' /\ TypesOK'
<1> DEFINE columns == IF c \in live' THEN shape[c][ver'[c]] ELSE {}
           kept    == Table(c) \cap columns
<1>1. /\ age' = [age EXCEPT ![c] = [f \in Columns |-> IF f \in kept THEN age[c][f] ELSE 0]]
      /\ old' = [t \in Tasks |-> IF req[t].coll = c THEN old[t] \cap kept ELSE old[t]]
      /\ rest' = [rest EXCEPT ![c] = 0]
      /\ steady' = [t \in Tasks |-> steady[t] /\ req[t].coll # c]
      /\ UNCHANGED <<shape, step, req, first, projection, stored, result>>
  BY DEF ChangeTable, data
<1>2. /\ ver' = [ver EXCEPT ![c] = @ + 1]
      /\ live' \in {live \cup {c}, live \ {c}}
      /\ UNCHANGED <<cache, got>>
  BY DEF ChangeTable, Cache!CreateOrAlterTable, Cache!DropTable, Cache!ChangeTable, Cache!calls
<1>3. columns = Table(c)'
  BY <1>1 DEF Table
<1>4. \A d \in Collections \ {c} :
         /\ ver'[d] = ver[d] /\ age'[d] = age[d] /\ rest'[d] = rest[d]
         /\ (d \in live') = (d \in live)
  <2>1. DOMAIN ver = Collections /\ DOMAIN age = Collections /\ DOMAIN rest = Collections
    BY DEF CacheOK, TypesOK
  <2> QED BY <1>1, <1>2, <2>1
<1>5. /\ \A f \in Columns : age'[c][f] = IF f \in kept THEN age[c][f] ELSE 0
      /\ rest'[c] = 0
  BY <1>1 DEF TypesOK
<1> HIDE DEF columns, kept
<1>6. kept = Table(c) \cap Table(c)'
  BY <1>3 DEF kept
<1>7. ASSUME NEW d \in Collections, NEW v, NEW lag \in 0 .. Bound, Held(d, v, lag)
      PROVE  /\ \A f \in Columns : age'[d][f] > lag => f \in shape'[d][v]
             /\ v # ver'[d] => lag >= rest'[d]
  <2>1. CASE d = c
    BY <1>1, <1>5, <1>7, <2>1, Bounds DEF Held
  <2>2. CASE d # c
    BY <1>1, <1>4, <1>7, <2>2 DEF Held
  <2> QED BY <2>1, <2>2
<1>8. ASSUME NEW d \in Collections, NEW f \in Columns, age'[d][f] > 0
      PROVE  f \in Table(d)'
  <2>1. CASE d = c
    BY <1>5, <1>6, <1>8, <2>1
  <2>2. CASE d # c
    <3>1. Table(d)' = Table(d)
      BY <1>1, <1>4, <2>2 DEF Table
    <3> QED BY <1>4, <1>8, <2>2, <3>1 DEF HistoryOK
  <2> QED BY <2>1, <2>2
<1>9. ASSUME NEW d \in Collections, cache'[d] # Cache!NoEntry
      PROVE  Held(d, cache[d].ver, cache[d].lag)'
  <2>1. cache'[d] = cache[d] /\ cache[d] # Cache!NoEntry
    BY <1>2, <1>9
  <2>2. cache[d].lag \in 0 .. Bound /\ Held(d, cache[d].ver, cache[d].lag)
    BY <2>1, Bounds DEF CacheOK, HistoryOK
  <2> QED BY <1>7, <2>1, <2>2 DEF Held
<1>10. ASSUME NEW t \in Tasks, NEW d \in Collections, got'[t][d] # Cache!NoSchema
       PROVE  Held(d, got[t][d].ver, got[t][d].lag)'
  <2>1. got'[t][d] = got[t][d] /\ got[t][d] # Cache!NoSchema
    BY <1>2, <1>10
  <2>2. got[t][d].lag \in 0 .. Bound /\ Held(d, got[t][d].ver, got[t][d].lag)
    BY <2>1 DEF CacheOK, HistoryOK
  <2> QED BY <1>7, <2>1, <2>2 DEF Held
<1>11. ASSUME NEW t \in Tasks
       PROVE  /\ \A f \in old'[t] : f \in Columns /\ age'[req'[t].coll][f] = Bound
              /\ steady'[t] => req'[t].coll \in live' /\ rest'[req'[t].coll] = Bound
  <2>1. req[t].coll \in Collections /\ req' = req
    BY <1>1 DEF TypesOK
  <2>2. \A f \in old[t] : f \in Columns /\ age[req[t].coll][f] = Bound
    BY DEF HistoryOK
  <2>3. CASE req[t].coll = c
    <3>1. old'[t] = old[t] \cap kept /\ ~ steady'[t]
      BY <1>1, <2>3
    <3> QED BY <1>5, <2>1, <2>2, <2>3, <3>1
  <2>4. CASE req[t].coll # c
    <3>1. old'[t] = old[t] /\ (steady'[t] => steady[t])
      BY <1>1, <2>4
    <3>2. steady[t] => req[t].coll \in live /\ rest[req[t].coll] = Bound
      BY DEF HistoryOK
    <3> QED BY <1>4, <2>1, <2>2, <2>4, <3>1, <3>2
  <2> QED BY <2>3, <2>4
<1>12. HistoryOK'
  BY <1>8, <1>9, <1>10, <1>11 DEF HistoryOK, Bound
<1>13. age' \in [Collections -> [Columns -> 0 .. Bound]] /\ rest' \in [Collections -> 0 .. Bound]
  BY <1>1, Bounds DEF TypesOK
<1>14. TypesOK'
  BY <1>1, <1>13 DEF TypesOK, Bound
<1> QED BY <1>12, <1>14

(* A request begins, or goes on. *)
LEMMA StillHistory ==
    ASSUME CacheOK, TypesOK, HistoryOK, Still, Fed,
           \/ UNCHANGED <<req, old, steady>>
           \/ \E t \in Tasks, c \in Collections : \E kind, fields : Begin(t, kind, c, fields)
    PROVE  HistoryOK'
<1>1. ASSUME NEW u \in Tasks
      PROVE  /\ \A f \in old'[u] : f \in Columns /\ age'[req'[u].coll][f] = Bound
             /\ steady'[u] => req'[u].coll \in live' /\ rest'[req'[u].coll] = Bound
  <2>1. CASE UNCHANGED <<req, old, steady>>
    BY <2>1 DEF HistoryOK, Still
  <2>2. ASSUME NEW t \in Tasks, NEW c \in Collections, NEW kind, NEW fields,
               Begin(t, kind, c, fields)
        PROVE  /\ \A f \in old'[u] : f \in Columns /\ age'[req'[u].coll][f] = Bound
               /\ steady'[u] => req'[u].coll \in live' /\ rest'[req'[u].coll] = Bound
    <3>1. /\ req' = [req EXCEPT ![t] = [kind |-> kind, coll |-> c, fields |-> fields]]
          /\ old' = [old EXCEPT ![t] = {f \in Columns : age[c][f] = Bound}]
          /\ steady' = [steady EXCEPT ![t] = (c \in live /\ rest[c] = Bound)]
      BY <2>2 DEF Begin, Bound
    <3>2. CASE u = t
      <4>1. req'[u].coll = c /\ old'[u] = {f \in Columns : age[c][f] = Bound}
        BY <3>1, <3>2 DEF TypesOK
      <4>2. steady'[u] = (c \in live /\ rest[c] = Bound)
        BY <3>1, <3>2 DEF TypesOK
      <4> QED BY <4>1, <4>2 DEF Still
    <3>3. CASE u # t
      <4>1. req'[u] = req[u] /\ old'[u] = old[u] /\ steady'[u] = steady[u]
        BY <3>1, <3>3 DEF TypesOK
      <4> QED BY <4>1 DEF HistoryOK, Still
    <3> QED BY <3>2, <3>3
  <2> QED BY <2>1, <2>2
<1> QED BY <1>1, FedHeld DEF HistoryOK, Bound

-----------------------------------------------------------------------------
(* What the steps do to the requests. *)
LEMMA ArriveIs ==
    ASSUME NEW t \in Tasks, Arrive(t)
    PROVE  \E kind \in Kinds, c \in Collections, fields \in SUBSET Columns :
              Begin(t, kind, c, fields)
<1>1. PICK kind \in Kinds, c \in Collections :
         \/ kind = "delete" /\ Begin(t, kind, c, {})
         \/ kind # "delete" /\ \E fields \in SUBSET Columns : Begin(t, kind, c, fields)
  BY DEF Arrive
<1>2. {} \in SUBSET Columns
  OBVIOUS
<1> QED BY <1>1, <1>2

LEMMA RequestTypes ==
    ASSUME TypesOK, NEW t \in Tasks,
           Arrive(t) \/ Hit(t) \/ Miss(t) \/ Missed(t) \/ Fails(t) \/ CacheOnly(t) \/ Ask(t)
    PROVE  TypesOK'
<1>1. CASE Arrive(t)
  <2>1. PICK kind \in Kinds, c \in Collections, fields \in SUBSET Columns :
           Begin(t, kind, c, fields)
    BY <1>1, ArriveIs
  <2>2. (c \in live /\ rest[c] = Bound) \in BOOLEAN
    OBVIOUS
  <2>3. steady' = [steady EXCEPT ![t] = (c \in live /\ rest[c] = Bound)]
    BY <2>1 DEF Begin, Bound
  <2>4. steady' \in [Tasks -> BOOLEAN]
    BY <2>2, <2>3 DEF TypesOK
  <2>5. /\ step' = [step EXCEPT ![t] = "first"]
        /\ req' = [req EXCEPT ![t] = [kind |-> kind, coll |-> c, fields |-> fields]]
        /\ DOMAIN result' = DOMAIN result /\ DOMAIN old' = DOMAIN old
        /\ UNCHANGED <<shape, first, projection, stored, age, rest>>
    BY <2>1 DEF Begin
  <2>6. /\ step' \in [Tasks -> {"idle", "first", "second", "asking"}]
        /\ DOMAIN req' = Tasks /\ \A u \in Tasks : req'[u].coll \in Collections
    BY <2>5 DEF TypesOK
  <2> QED BY <2>4, <2>5, <2>6 DEF TypesOK, Bound
<1>2. CASE Miss(t) \/ CacheOnly(t)
  BY <1>2 DEF Miss, CacheOnly, data, history, TypesOK, Bound
<1>3. ASSUME NEW s, SchemaRead(t, s) \/ \E how : End(t, how),
             UNCHANGED <<shape, req, history>>, DOMAIN stored' = DOMAIN stored
      PROVE  TypesOK'
  <2>1. /\ step' \in [Tasks -> {"idle", "first", "second", "asking"}]
        /\ DOMAIN first' = Tasks /\ DOMAIN projection' = Tasks /\ DOMAIN result' = Tasks
    BY <1>3 DEF SchemaRead, FirstRead, SecondRead, End, TypesOK
  <2> QED BY <1>3, <2>1 DEF TypesOK, history, Bound
<1>4. CASE Hit(t) \/ Missed(t) \/ Fails(t)
  BY <1>3, <1>4 DEF Hit, Missed, Fails
<1>5. CASE Ask(t)
  <2>1. \E how : End(t, how)
    BY <1>5 DEF Ask
  <2>2. UNCHANGED <<shape, req, history>> /\ DOMAIN stored' = DOMAIN stored
    BY <1>5 DEF Ask
  <2> QED BY <1>3, <2>1, <2>2
<1> QED BY <1>1, <1>2, <1>4, <1>5

(* A task that does nothing, of whose table nothing is changed. *)
Same(u) ==
    /\ step'[u] = step[u] /\ req'[u] = req[u] /\ first'[u] = first[u]
    /\ projection'[u] = projection[u] /\ stored'[u] = stored[u] /\ result'[u] = result[u]
    /\ old'[u] \subseteq old[u]
    /\ steady'[u] => steady[u]
    /\ pc'[u] = pc[u] /\ want'[u] = want[u]

RequestOK(u) == ReadOf(u) /\ WriteKept(u) /\ (steady[u] => Exact(u))

LEMMA Bystander ==
    ASSUME NEW u \in Tasks, RequestOK(u), Same(u), NEW c, c = req[u].coll,
           steady'[u] => /\ UNCHANGED <<shape, ver>> /\ (c \in live') = (c \in live)
                         /\ got[u][c] # Cache!NoSchema => got'[u][c] # Cache!NoSchema
    PROVE  RequestOK(u)'
<1>1. ReadOf(u)'
  BY DEF Same, RequestOK, ReadOf, Reading
<1>2. WriteKept(u)'
  BY DEF Same, RequestOK, WriteKept
<1>3. ASSUME steady'[u] PROVE Exact(u)'
  <2>1. Exact(u)
    BY <1>3 DEF RequestOK, Same
  <2> QED BY <1>3, <2>1 DEF Exact, ResultExact, KnownIs, Table, Reading, Same
<1> QED BY <1>1, <1>2, <1>3 DEF RequestOK

(* What a task does is nobody else's business. *)
Calls(t) ==
    \/ \E c \in Collections : Cache!SchemaForHit(t, c) \/ Cache!SchemaForMiss(t, c)
    \/ Cache!DescribeAnswered(t) \/ Cache!Update(t) \/ Cache!UpdateThrows(t)
    \/ Cache!SchemaForReturn(t) \/ Cache!Refresh(t) \/ Cache!ListAnswered(t)
    \/ Cache!RefreshStore(t) \/ Cache!ProviderFails(t)

LEMMA CallsOfOthers ==
    ASSUME CacheOK, NEW t \in Tasks, NEW u \in Tasks, u # t, Calls(t)
    PROVE  pc'[u] = pc[u] /\ want'[u] = want[u] /\ got'[u] = got[u]
<1> USE DEF CacheOK
<1>1. CASE \E c \in Collections : Cache!SchemaForHit(t, c) \/ Cache!SchemaForMiss(t, c)
  BY <1>1 DEF Cache!SchemaForHit, Cache!SchemaForMiss
<1>2. CASE Cache!DescribeAnswered(t) \/ Cache!ListAnswered(t)
  BY <1>2 DEF Cache!DescribeAnswered, Cache!ListAnswered
<1>3. CASE Cache!Update(t) \/ Cache!Refresh(t)
  BY <1>3 DEF Cache!Update, Cache!Refresh
<1>4. CASE Cache!UpdateThrows(t) \/ Cache!SchemaForReturn(t) \/ Cache!RefreshStore(t)
           \/ Cache!ProviderFails(t)
  BY <1>4 DEF Cache!UpdateThrows, Cache!SchemaForReturn, Cache!RefreshStore,
              Cache!ProviderFails, Cache!Finish
<1> QED BY <1>1, <1>2, <1>3, <1>4 DEF Calls

LEMMA ActsAre ==
    ASSUME TypesOK, NEW t \in Tasks, Hit(t) \/ Miss(t) \/ Missed(t) \/ Fails(t) \/ CacheOnly(t)
    PROVE  Calls(t)
<1>1. req[t].coll \in Collections
  BY DEF TypesOK
<1>2. CASE Hit(t) \/ Miss(t)
  BY <1>1, <1>2 DEF Hit, Miss, Calls
<1>3. CASE Missed(t) \/ Fails(t)
  BY <1>3 DEF Missed, Fails, Calls
<1>4. CASE CacheOnly(t)
  <2>1. \/ Cache!DescribeAnswered(t) \/ Cache!Update(t)
        \/ Cache!ListAnswered(t) \/ Cache!RefreshStore(t)
        \/ Cache!Refresh(t) \/ (\E c \in Collections : Cache!SchemaForMiss(t, c))
        \/ Cache!UpdateThrows(t) \/ Cache!SchemaForReturn(t) \/ Cache!ProviderFails(t)
    BY <1>4 DEF CacheOnly
  <2> QED BY <2>1 DEF Calls
<1> QED BY <1>2, <1>3, <1>4

(* What a step of a request writes of the data: its own part of it. *)
Own(t) ==
    \A u \in Tasks \ {t} :
        /\ step'[u] = step[u] /\ req'[u] = req[u] /\ first'[u] = first[u]
        /\ projection'[u] = projection[u] /\ stored'[u] = stored[u]
        /\ result'[u] = result[u] /\ old'[u] = old[u] /\ steady'[u] = steady[u]

LEMMA OwnOnly ==
    ASSUME TypesOK, NEW t \in Tasks,
           Arrive(t) \/ Hit(t) \/ Miss(t) \/ Missed(t) \/ Fails(t) \/ CacheOnly(t) \/ Ask(t)
    PROVE  Own(t) /\ UNCHANGED <<shape, age, rest>>
<1>1. CASE Arrive(t)
  <2>1. PICK kind \in Kinds, c \in Collections, fields \in SUBSET Columns :
           Begin(t, kind, c, fields)
    BY <1>1, ArriveIs
  <2> QED BY <2>1 DEF Begin, Own, TypesOK
<1>2. CASE Miss(t) \/ CacheOnly(t)
  BY <1>2 DEF Miss, CacheOnly, data, history, Own
<1>3. ASSUME NEW s, SchemaRead(t, s) \/ \E how : End(t, how)
      PROVE  \A u \in Tasks \ {t} :
                /\ step'[u] = step[u] /\ first'[u] = first[u]
                /\ projection'[u] = projection[u] /\ result'[u] = result[u]
  BY <1>3 DEF SchemaRead, FirstRead, SecondRead, End, TypesOK
<1>4. CASE Hit(t) \/ Missed(t) \/ Fails(t)
  <2>1. \/ \E s : SchemaRead(t, s)
        \/ \E how : End(t, how)
    BY <1>4 DEF Hit, Missed, Fails
  <2>2. UNCHANGED <<shape, req, stored, history>>
    BY <1>4 DEF Hit, Missed, Fails
  <2> QED BY <1>3, <2>1, <2>2 DEF Own, history
<1>5. CASE Ask(t)
  <2>1. \E how : End(t, how)
    BY <1>5 DEF Ask
  <2>2. /\ UNCHANGED <<shape, req, history>>
        /\ \A u \in Tasks \ {t} : stored'[u] = stored[u]
    BY <1>5 DEF Ask, TypesOK
  <2> QED BY <1>3, <2>1, <2>2 DEF Own, history
<1> QED BY <1>1, <1>2, <1>4, <1>5

LEMMA Others ==
    ASSUME CacheOK, TypesOK, NEW t \in Tasks,
           Arrive(t) \/ Hit(t) \/ Miss(t) \/ Missed(t) \/ Fails(t) \/ CacheOnly(t) \/ Ask(t)
    PROVE  /\ Still /\ Fed
           /\ \A u \in Tasks \ {t} : RequestOK(u) => RequestOK(u)'
<1>1. Own(t) /\ UNCHANGED <<shape, age, rest>>
  BY OwnOnly
<1>2. CASE Calls(t)
  <2>1. Fed /\ UNCHANGED <<ver, live>>
    BY <1>2, FedCallers DEF Calls
  <2>2. ASSUME NEW u \in Tasks \ {t}, RequestOK(u) PROVE RequestOK(u)'
    <3>1. pc'[u] = pc[u] /\ want'[u] = want[u] /\ got'[u] = got[u]
      BY <1>2, CallsOfOthers
    <3>2. Same(u)
      BY <1>1, <3>1 DEF Own, Same
    <3> QED BY <1>1, <2>1, <2>2, <3>1, <3>2, Bystander
  <2> QED BY <1>1, <2>1, <2>2 DEF Still
<1>3. CASE UNCHANGED caching
  <2>1. Fed /\ UNCHANGED <<ver, live, pc, want, got>>
    BY <1>3 DEF caching, Fed
  <2>2. ASSUME NEW u \in Tasks \ {t}, RequestOK(u) PROVE RequestOK(u)'
    <3>1. Same(u)
      BY <1>1, <2>1 DEF Own, Same
    <3> QED BY <1>1, <2>1, <2>2, <3>1, Bystander
  <2> QED BY <1>1, <2>1, <2>2 DEF Still
<1>4. Arrive(t) \/ Ask(t) => UNCHANGED caching
  BY DEF Arrive, Begin, Ask
<1> QED BY <1>2, <1>3, <1>4, ActsAre

-----------------------------------------------------------------------------
(* What a request makes of the schema it reads. *)
LEMMA TableHasKey ==
    ASSUME CacheOK, TypesOK, NEW c \in Collections, c \in live
    PROVE  PrimaryKeyFieldName \in Table(c)
<1>1. ver[c] \in 1 .. MaxVersion
  BY CacheAssumption DEF CacheOK
<1>2. shape[c][ver[c]] \in Shapes
  BY <1>1 DEF TypesOK
<1> QED BY <1>2 DEF Shapes, Table

(* A request whose schema is read is idle in the cache afterwards. *)
ReadIs(t) ==
    /\ UNCHANGED <<shape, ver, live, req, stored, old, steady>>
    /\ pc'[t] = "idle"

LEMMA EndedRead ==
    ASSUME TypesOK, NEW t \in Tasks, NEW how, ReadIs(t), End(t, how), how # "ok",
           steady[t] => ResultExact(t)'
    PROVE  RequestOK(t)'
<1>1. step'[t] = "idle" /\ result'[t] = how
  BY DEF End, TypesOK
<1>2. ReadOf(t)' /\ WriteKept(t)'
  BY <1>1 DEF ReadIs, ReadOf, Reading, WriteKept
<1>3. steady'[t] => Exact(t)'
  BY <1>1 DEF ReadIs, Exact, Reading
<1> QED BY <1>2, <1>3 DEF RequestOK

LEMMA Refused ==
    ASSUME TypesOK, NEW t \in Tasks, ReadIs(t), End(t, "FieldDoesNotExist"),
           steady[t] => req[t].kind \in Queries /\ req[t].fields # KnownIs(t)
    PROVE  RequestOK(t)'
<1>1. result'[t] = "FieldDoesNotExist"
  BY DEF End, TypesOK
<1>2. ASSUME steady[t] PROVE ResultExact(t)'
  <2>1. "FieldDoesNotExist" # "ok"
    OBVIOUS
  <2>2. req[t].kind \in Queries /\ req[t].fields # req[t].fields \cap Table(req[t].coll)
    BY <1>2 DEF KnownIs
  <2> QED BY <1>1, <2>1, <2>2 DEF ReadIs, ResultExact, KnownIs, Table, Queries
<1> QED BY <1>2, EndedRead

(* A result is that of the request before, until there is another. *)
LEMMA SameResult ==
    ASSUME NEW t \in Tasks, ReadIs(t), UNCHANGED result
    PROVE  ResultExact(t)' = ResultExact(t)
BY DEF ReadIs, ResultExact, KnownIs, Table

LEMMA KindsAre ==
    ASSUME NEW t \in Tasks, ReadOf(t), step[t] # "idle"
    PROVE  req[t].kind \in Writes \cup Queries \cup {"delete"}
BY KindsAssumption DEF ReadOf

LEMMA FirstReadOK ==
    ASSUME CacheOK, TypesOK, HistoryOK, NEW t \in Tasks, RequestOK(t), NEW s, ReadIs(t),
           step[t] = "first", FirstRead(t, s), old[t] \subseteq s,
           steady[t] => s = Table(req[t].coll)
    PROVE  RequestOK(t)'
<1>1. CASE req[t].kind \in Queries \ {"project"} /\ ~ (req[t].fields \subseteq s)
  BY <1>1, Refused DEF FirstRead, KnownIs
<1>2. CASE ~ (req[t].kind \in Queries \ {"project"} /\ ~ (req[t].fields \subseteq s))
  <2>1. /\ step'[t] = IF req[t].kind \in Queries \ {"count"} THEN "second" ELSE "asking"
        /\ first'[t] = s
        /\ projection'[t] = IF req[t].kind = "delete" THEN s ELSE {}
        /\ result' = result
    BY <1>2 DEF FirstRead, TypesOK
  <2>2. ReadOf(t)'
    BY <2>1 DEF RequestOK, ReadOf, ReadIs, Reading
  <2>3. WriteKept(t)'
    BY <2>1 DEF RequestOK, WriteKept, ReadIs
  <2>4. ASSUME steady'[t] PROVE Exact(t)'
    <3>1. s = Table(req[t].coll) /\ Table(req[t].coll)' = s /\ Exact(t)
      BY <2>4 DEF ReadIs, RequestOK, Table
    <3>2. ResultExact(t)'
      BY <2>1, <3>1, SameResult DEF Exact
    <3>3. req[t].kind \in Writes \cup Queries \cup {"delete"}
      BY KindsAre DEF RequestOK
    <3>4. /\ step'[t] = "second" => first'[t] = s
          /\ step'[t] = "second" /\ req[t].kind # "project" => req[t].fields \subseteq s
      BY <1>2, <2>1
    <3>5. step'[t] = "asking" =>
             /\ req[t].kind \in Queries => req[t].fields \subseteq s
             /\ req[t].kind \in Writes => first'[t] = s
             /\ projection'[t] \subseteq s
      BY <1>2, <2>1 DEF Queries
    <3>6. UNCHANGED <<req, shape, ver, live>> /\ pc'[t] = "idle"
      BY DEF ReadIs
    <3> QED BY <3>1, <3>2, <3>4, <3>5, <3>6 DEF Exact, Table
  <2> QED BY <2>2, <2>3, <2>4 DEF RequestOK
<1> QED BY <1>1, <1>2

LEMMA SecondReadOK ==
    ASSUME CacheOK, TypesOK, HistoryOK, NEW t \in Tasks, RequestOK(t), NEW s, ReadIs(t),
           step[t] = "second", SecondRead(t, s), steady[t] => s = Table(req[t].coll)
    PROVE  RequestOK(t)'
<1> DEFINE finding == req[t].kind \in {"find", "project"}
           asked   == IF finding THEN projectionFor(t, s) ELSE {}
           table   == Table(req[t].coll)
<1>1. req[t].kind \in {"find", "project", "aggregate"}
  BY DEF RequestOK, ReadOf, Queries
<1>2. ASSUME steady[t]
      PROVE  /\ s = table /\ first[t] = table /\ PrimaryKeyFieldName \in table
             /\ req[t].kind # "project" => req[t].fields \subseteq table
             /\ ResultExact(t)
  <2>1. Exact(t) /\ s = table /\ req[t].coll \in live
    BY <1>2 DEF RequestOK, HistoryOK
  <2>2. PrimaryKeyFieldName \in table
    BY <2>1, TableHasKey DEF TypesOK
  <2> QED BY <2>1, <2>2 DEF Exact
<1>3. CASE IF finding THEN asked \subseteq first[t] ELSE req[t].fields \subseteq s
  <2>1. /\ step'[t] = "asking" /\ projection'[t] = asked
        /\ UNCHANGED <<first, result>>
    BY <1>3 DEF SecondRead, TypesOK
  <2>2. ReadOf(t)'
    BY <2>1 DEF RequestOK, ReadOf, ReadIs, Reading
  <2>3. WriteKept(t)'
    BY <1>1, <2>1 DEF RequestOK, WriteKept, ReadIs, Writes
  <2>4. ASSUME steady'[t] PROVE Exact(t)'
    <3>1. s = table /\ first[t] = table /\ ResultExact(t)
          /\ (req[t].kind # "project" => req[t].fields \subseteq table)
      BY <1>2, <2>4 DEF ReadIs
    <3>2. asked \subseteq table
      BY <1>3, <3>1
    <3>3. req[t].fields \subseteq table
      BY <3>1, <3>2 DEF projectionFor
    <3>4. ResultExact(t)'
      BY <2>1, <3>1, SameResult
    <3>5. UNCHANGED <<req, shape, ver, live>> /\ pc'[t] = "idle"
      BY DEF ReadIs
    <3>6. req[t].kind \notin Writes
      BY <1>1 DEF Writes
    <3> QED BY <2>1, <3>2, <3>3, <3>4, <3>5, <3>6 DEF Exact, Table
  <2> QED BY <2>2, <2>3, <2>4 DEF RequestOK
<1>4. CASE ~ IF finding THEN asked \subseteq first[t] ELSE req[t].fields \subseteq s
  <2>1. End(t, "FieldDoesNotExist")
    BY <1>4 DEF SecondRead
  <2>2. ASSUME steady[t] PROVE req[t].kind \in Queries /\ req[t].fields # KnownIs(t)
    <3>1. req[t].kind = "project" /\ ~ (req[t].fields \subseteq table)
      BY <1>1, <1>2, <1>4, <2>2 DEF projectionFor
    <3> QED BY <3>1 DEF KnownIs, Queries
  <2> QED BY <2>1, <2>2, Refused
<1> QED BY <1>3, <1>4

LEMMA ReadOK ==
    ASSUME CacheOK, TypesOK, HistoryOK, NEW t \in Tasks, RequestOK(t), ReadIs(t),
           cache[req[t].coll] # Cache!NoEntry, SchemaRead(t, Cached(req[t].coll))
    PROVE  RequestOK(t)'
<1> DEFINE s == Cached(req[t].coll)
<1>1. old[t] \subseteq s /\ (steady[t] => s = Table(req[t].coll))
  BY EntryRead
<1> HIDE DEF s
<1>2. SchemaRead(t, s)
  BY DEF s
<1> QED BY <1>1, <1>2, FirstReadOK, SecondReadOK DEF SchemaRead

-----------------------------------------------------------------------------
(* Each step of a request keeps what is said of it. *)
LEMMA BeginOK ==
    ASSUME CacheOK, TypesOK, NEW t \in Tasks, RequestOK(t), Arrive(t)
    PROVE  RequestOK(t)'
<1>1. PICK kind \in Kinds, c \in Collections, fields \in SUBSET Columns :
         Begin(t, kind, c, fields)
  BY ArriveIs
<1>2. /\ step'[t] = "first" /\ req'[t].kind = kind /\ result'[t] = "none"
      /\ pc'[t] = "idle"
  BY <1>1 DEF Begin, TypesOK, caching
<1>3. ReadOf(t)' /\ WriteKept(t)' /\ Exact(t)'
  BY <1>2 DEF ReadOf, WriteKept, Exact, ResultExact, Reading
<1> QED BY <1>3 DEF RequestOK

LEMMA HitOK ==
    ASSUME CacheOK, TypesOK, HistoryOK, NEW t \in Tasks, RequestOK(t), Hit(t)
    PROVE  RequestOK(t)'
<1>1. ReadIs(t) /\ cache[req[t].coll] # Cache!NoEntry
  BY DEF Hit, Cache!SchemaForHit, Cache!tables, ReadIs, history
<1> QED BY <1>1, ReadOK DEF Hit

LEMMA MissOK ==
    ASSUME CacheOK, TypesOK, HistoryOK, NEW t \in Tasks, RequestOK(t), Miss(t)
    PROVE  RequestOK(t)'
<1>1. /\ pc'[t] = "describing" /\ want'[t] = req[t].coll
      /\ UNCHANGED <<shape, ver, live, got, step, req, first, projection, stored, result, old, steady>>
  BY DEF Miss, Cache!SchemaForMiss, Cache!tables, CacheOK, data, history
<1>2. ReadOf(t)' /\ WriteKept(t)'
  BY <1>1 DEF RequestOK, ReadOf, WriteKept, Reading
<1>3. steady'[t] => Exact(t)'
  BY <1>1 DEF RequestOK, Exact, ResultExact, KnownIs, Table, Reading
<1> QED BY <1>2, <1>3 DEF RequestOK

LEMMA MissedOK ==
    ASSUME CacheOK, TypesOK, HistoryOK, NEW t \in Tasks, RequestOK(t), Missed(t)
    PROVE  RequestOK(t)'
<1>1. ReadIs(t) /\ pc[t] = "stored"
  BY DEF Missed, Cache!SchemaForReturn, Cache!Finish, Cache!tables, ReadIs, history, CacheOK
<1>2. want[t] = req[t].coll
  BY <1>1 DEF Missed, RequestOK, ReadOf
<1>3. CASE cache[want[t]] = Cache!NoEntry
  <2>1. End(t, "TypeError")
    BY <1>3 DEF Missed
  <2>2. result'[t] = "TypeError"
    BY <2>1 DEF End, TypesOK
  <2>3. ResultExact(t)'
    BY <2>2 DEF ResultExact
  <2> QED BY <1>1, <2>1, <2>3, EndedRead
<1>4. CASE cache[want[t]] # Cache!NoEntry
  <2>1. SchemaRead(t, Cached(want[t]))
    BY <1>4 DEF Missed
  <2> QED BY <1>1, <1>2, <1>4, <2>1, ReadOK
<1> QED BY <1>3, <1>4

(* The table of a steady request can be described. *)
LEMMA FailsOK ==
    ASSUME CacheOK, TypesOK, HistoryOK, NEW t \in Tasks, RequestOK(t), Fails(t)
    PROVE  RequestOK(t)'
<1>1. ReadIs(t)
  BY DEF Fails, Cache!UpdateThrows, Cache!ProviderFails, Cache!Finish, Cache!tables,
         ReadIs, history, CacheOK
<1>2. CASE Cache!UpdateThrows(t) /\ End(t, "CollectionDoesNotExists")
  <2>1. Reading(t) /\ pc[t] = "described" /\ got[t][want[t]] = Cache!NoSchema
    BY <1>2 DEF Fails, Cache!UpdateThrows
  <2>2. want[t] = req[t].coll
    BY <2>1 DEF RequestOK, ReadOf
  <2>3. ~ steady[t]
    BY <2>1, <2>2 DEF RequestOK, Exact
  <2> QED BY <1>1, <1>2, <2>3, EndedRead
<1>3. CASE Cache!ProviderFails(t) /\ End(t, "ProviderError")
  <2>1. result'[t] = "ProviderError"
    BY <1>3 DEF End, TypesOK
  <2>2. ResultExact(t)'
    BY <2>1 DEF ResultExact
  <2> QED BY <1>1, <1>3, <2>2, EndedRead
<1> QED BY <1>2, <1>3 DEF Fails

LEMMA CacheOnlyOK ==
    ASSUME CacheOK, TypesOK, HistoryOK, NEW t \in Tasks, RequestOK(t), CacheOnly(t)
    PROVE  RequestOK(t)'
<1>1. UNCHANGED <<shape, step, req, first, projection, stored, result, old, steady>>
  BY DEF CacheOnly, data, history
<1>2. UNCHANGED <<ver, live>>
  BY ActsAre, FedCallers DEF Calls
<1>3. WriteKept(t)'
  BY <1>1 DEF RequestOK, WriteKept
<1>4. CASE Reading(t)
  <2>1. \/ Cache!DescribeAnswered(t) \/ Cache!Update(t)
        \/ Cache!ListAnswered(t) \/ Cache!RefreshStore(t)
    BY <1>4 DEF CacheOnly, Reading
  <2>2. pc[t] # "idle" /\ want' = want
    BY <2>1 DEF Cache!DescribeAnswered, Cache!Update, Cache!ListAnswered, Cache!RefreshStore,
                Cache!Finish
  <2>3. ReadOf(t)'
    BY <1>1, <2>2 DEF RequestOK, ReadOf, Reading
  <2>4. ASSUME steady[t], pc'[t] = "described" PROVE got'[t][req[t].coll] # Cache!NoSchema
    <3>1. Cache!DescribeAnswered(t)
      BY <2>1, <2>4 DEF CacheOK, Cache!Update, Cache!ListAnswered, Cache!RefreshStore, Cache!Finish
    <3>2. want[t] = req[t].coll /\ req[t].coll \in Collections
      BY <1>4, <2>2 DEF RequestOK, ReadOf, TypesOK
    <3>3. got'[t][req[t].coll] = Cache!Current(req[t].coll)
      BY <3>1, <3>2 DEF Cache!DescribeAnswered, CacheOK
    <3>4. req[t].coll \in live /\ ver[req[t].coll] >= 1
      BY <2>4, <3>2 DEF HistoryOK, CacheOK
    <3> QED BY <3>2, <3>3, <3>4 DEF Cache!Current, Cache!NoSchema
  <2>5. steady'[t] => Exact(t)'
    BY <1>1, <1>2, <2>4 DEF RequestOK, Exact, ResultExact, KnownIs, Table, Reading
  <2> QED BY <1>3, <2>3, <2>5 DEF RequestOK
<1>5. CASE ~ Reading(t)
  <2>1. ReadOf(t)'
    BY <1>1, <1>5 DEF RequestOK, ReadOf, Reading
  <2>2. steady'[t] => Exact(t)'
    BY <1>1, <1>2, <1>5 DEF RequestOK, Exact, ResultExact, KnownIs, Table, Reading
  <2> QED BY <1>3, <2>1, <2>2 DEF RequestOK
<1> QED BY <1>4, <1>5

(* A steady request asks for columns its table has. *)
LEMMA AskedIs ==
    ASSUME TypesOK, HistoryOK, NEW t \in Tasks, RequestOK(t), step[t] = "asking", steady[t]
    PROVE  Accepted(t) <=> Wellformed(t)
<1> DEFINE table == Table(req[t].coll)
<1>1. req[t].coll \in live /\ Exact(t) /\ req[t].kind \in Writes \cup Queries \cup {"delete"}
  BY KindsAre DEF HistoryOK, RequestOK
<1>2. /\ req[t].kind \in Queries => req[t].fields \subseteq table
      /\ req[t].kind \in Writes => first[t] = table
      /\ projection[t] \subseteq table
  BY <1>1 DEF Exact
<1>3. CASE req[t].kind \in Queries
  <2>1. Asked(t) = req[t].fields \cup projection[t]
    BY <1>3 DEF Asked, Queries
  <2> QED BY <1>1, <1>2, <1>3, <2>1 DEF Accepted
<1>4. CASE req[t].kind \in {"insert", "upsert"}
  <2>1. Asked(t) = first[t]
    BY <1>4 DEF Asked, Queries
  <2> QED BY <1>1, <1>2, <1>4, <2>1 DEF Accepted, Writes
<1>5. CASE req[t].kind = "update"
  <2>1. Asked(t) = req[t].fields \cap first[t]
    BY <1>5 DEF Asked, Written, Queries
  <2> QED BY <1>1, <1>2, <1>5, <2>1 DEF Accepted, Writes
<1>6. CASE req[t].kind = "delete"
  <2>1. Asked(t) = projection[t]
    BY <1>6 DEF Asked, Queries
  <2> QED BY <1>1, <1>2, <2>1 DEF Accepted
<1> QED BY <1>1, <1>3, <1>4, <1>5, <1>6 DEF Writes

LEMMA AskOK ==
    ASSUME CacheOK, TypesOK, HistoryOK, NEW t \in Tasks, RequestOK(t), Ask(t)
    PROVE  RequestOK(t)'
<1> DEFINE how == IF Accepted(t) THEN "ok"
                  ELSE IF req[t].kind \in {"insert", "update", "delete"} THEN "itemErrors"
                  ELSE "DbError"
<1>1. /\ step[t] = "asking"
      /\ stored'[t] = IF req[t].kind \in Writes /\ Accepted(t) THEN Written(t) ELSE {}
      /\ step'[t] = "idle" /\ result'[t] = how
      /\ UNCHANGED <<shape, ver, live, req, old, steady>>
  BY DEF Ask, End, TypesOK, caching, history
<1>2. ReadOf(t)'
  BY <1>1 DEF ReadOf, Reading
<1>3. WriteKept(t)'
  <2>1. req[t].kind \in Writes => old[t] \subseteq first[t]
    BY <1>1 DEF RequestOK, WriteKept
  <2>2. result'[t] = "ok" => Accepted(t)
    BY <1>1
  <2> QED BY <1>1, <2>1, <2>2 DEF WriteKept, Written
<1>4. ASSUME steady[t] PROVE ResultExact(t)'
  <2> DEFINE table == Table(req[t].coll)
             known == req[t].fields \cap table
  <2>1. Accepted(t) <=> Wellformed(t)
    BY <1>1, <1>4, AskedIs
  <2>2. /\ req[t].kind \in Queries => req[t].fields \subseteq table
        /\ req[t].kind \in Writes => first[t] = table
    BY <1>1, <1>4 DEF RequestOK, Exact
  <2>3. KnownIs(t)' = known
    BY <1>1 DEF KnownIs, Table
  <2>4. req[t].kind \in Writes => Written(t) = known
    BY <2>2 DEF Written
  <2>5. req[t].kind \in Queries => req[t].fields = known
    BY <2>2
  <2>6. req[t].kind = "update" => Written(t) = known
    BY <2>4 DEF Writes
  <2> HIDE DEF table, known
  <2>7. Accepted(t) <=> ~ (req[t].kind = "update" /\ known \subseteq {PrimaryKeyFieldName})
    BY <2>1, <2>6 DEF Wellformed
  <2>8. how = CASE req[t].kind \in Queries /\ req[t].fields # known -> "FieldDoesNotExist"
                [] req[t].kind = "update" /\ known \subseteq {PrimaryKeyFieldName} -> "itemErrors"
                [] OTHER -> "ok"
    BY <2>5, <2>7
  <2>9. how = "ok" /\ req[t].kind \in Writes => stored'[t] = known
    BY <1>1, <2>4
  <2> HIDE DEF how
  <2> QED BY <1>1, <2>3, <2>8, <2>9 DEF ResultExact
<1>5. steady'[t] => Exact(t)'
  BY <1>1, <1>4 DEF Exact, Reading
<1> QED BY <1>2, <1>3, <1>5 DEF RequestOK

(* A request about a table that changes is no longer steady. *)
LEMMA ChangeOK ==
    ASSUME CacheOK, TypesOK, NEW c \in Collections, ChangeTable(c),
           NEW u \in Tasks, RequestOK(u)
    PROVE  RequestOK(u)'
<1> DEFINE d == req[u].coll
<1>1. /\ old'[u] \subseteq old[u]
      /\ steady'[u] = (steady[u] /\ d # c)
      /\ UNCHANGED <<shape, step, req, first, projection, stored, result>>
  BY DEF ChangeTable, data
<1>2. /\ ver' = [ver EXCEPT ![c] = @ + 1]
      /\ live' \in {live \cup {c}, live \ {c}}
      /\ UNCHANGED <<pc, want, got>>
  BY DEF ChangeTable, Cache!CreateOrAlterTable, Cache!DropTable, Cache!ChangeTable, Cache!calls
<1>3. Same(u)
  BY <1>1, <1>2 DEF Same
<1>4. ReadOf(u)' /\ WriteKept(u)'
  BY <1>3 DEF Same, RequestOK, ReadOf, WriteKept, Reading
<1>5. ASSUME steady'[u] PROVE Exact(u)'
  <2>1. Exact(u) /\ d # c
    BY <1>1, <1>5 DEF RequestOK
  <2>2. (d \in live') = (d \in live) /\ ver'[d] = ver[d] /\ req' = req
    BY <1>1, <1>2, <2>1 DEF CacheOK, TypesOK
  <2> QED BY <1>1, <1>2, <2>1, <2>2 DEF Exact, ResultExact, KnownIs, Table, Reading
<1> QED BY <1>4, <1>5 DEF RequestOK

LEMMA TickOK ==
    ASSUME CacheOK, TypesOK, Tick, NEW u \in Tasks, RequestOK(u)
    PROVE  RequestOK(u)'
<1>1. /\ UNCHANGED <<shape, ver, live, step, req, first, projection, stored, result, old,
                     steady, pc, want>>
      /\ got' = [t \in Tasks |-> [c \in Collections |->
                    [ver |-> got[t][c].ver, lag |-> Cache!Lagging(c, got[t][c])]]]
  BY DEF Tick, Cache!Tick, Cache!tables, data
<1>2. Same(u)
  BY <1>1 DEF Same
<1>3. ASSUME NEW c \in Collections, got[u][c] # Cache!NoSchema
      PROVE  got'[u][c] # Cache!NoSchema
  <2>1. got[u][c].ver \in 1 .. ver[c] /\ ver[c] \in Nat
    BY <1>3 DEF CacheOK
  <2>2. got'[u][c].ver = got[u][c].ver
    BY <1>1
  <2> QED BY <2>1, <2>2 DEF Cache!NoSchema
<1>4. req[u].coll \in Collections
  BY DEF TypesOK
<1> QED BY <1>1, <1>2, <1>3, <1>4, Bystander

-----------------------------------------------------------------------------
(* The invariant *)
IInv == Proofs!IInv /\ TypesOK /\ HistoryOK /\ RequestsOK

LEMMA InitIInv == Init => IInv
<1> SUFFICES ASSUME Init PROVE IInv
  OBVIOUS
<1>1. Proofs!IInv
  BY InitCache
<1>2. want \in [Tasks -> Collections]
  BY DEF Init, Cache!Init
<1>3. TypesOK
  BY <1>2, Bounds DEF Init, TypesOK
<1>4. HistoryOK
  <2>1. \A c \in Collections : cache[c] = Cache!NoEntry
    BY DEF Init, Cache!Init
  <2>2. \A t \in Tasks, c \in Collections : got[t][c] = Cache!NoSchema
    BY DEF Init, Cache!Init
  <2>3. \A c \in Collections, f \in Columns : age[c][f] = 0
    BY DEF Init
  <2>4. \A t \in Tasks : old[t] = {} /\ ~ steady[t]
    BY DEF Init
  <2> QED BY <2>1, <2>2, <2>3, <2>4 DEF HistoryOK
<1>5. RequestsOK
  BY DEF Init, RequestsOK, ReadOf, WriteKept, Reading
<1> QED BY <1>1, <1>3, <1>4, <1>5 DEF IInv

LEMMA RequestsAre == RequestsOK <=> \A u \in Tasks : RequestOK(u)
BY DEF RequestsOK, RequestOK

LEMMA StepIInv == IInv /\ [Next]_vars => IInv'
<1> SUFFICES ASSUME IInv, [Next]_vars PROVE IInv'
  OBVIOUS
<1>1. CacheOK /\ TypesOK /\ HistoryOK /\ \A u \in Tasks : RequestOK(u)
  BY CacheFacts, RequestsAre DEF IInv
<1>2. Proofs!IInv'
  <2>1. \A t \in Tasks : req[t].coll \in Collections
    BY <1>1 DEF TypesOK
  <2> QED BY <2>1, CacheKept DEF IInv
<1>3. ASSUME NEW t \in Tasks,
             Arrive(t) \/ Hit(t) \/ Miss(t) \/ Missed(t) \/ Fails(t) \/ CacheOnly(t) \/ Ask(t)
      PROVE  TypesOK' /\ HistoryOK' /\ \A u \in Tasks : RequestOK(u)'
  <2>1. Still /\ Fed /\ \A u \in Tasks \ {t} : RequestOK(u)'
    BY <1>1, <1>3, Others
  <2>2. TypesOK'
    BY <1>1, <1>3, RequestTypes
  <2>3. \/ UNCHANGED <<req, old, steady>>
        \/ \E u \in Tasks, c \in Collections : \E kind, fields : Begin(u, kind, c, fields)
    <3>1. CASE Arrive(t)
      BY <3>1, ArriveIs
    <3>2. CASE Hit(t) \/ Miss(t) \/ Missed(t) \/ Fails(t) \/ CacheOnly(t) \/ Ask(t)
      BY <3>2 DEF Hit, Miss, Missed, Fails, CacheOnly, Ask, data, history
    <3> QED BY <1>3, <3>1, <3>2
  <2>4. HistoryOK'
    BY <1>1, <2>1, <2>3, StillHistory
  <2>5. RequestOK(t)'
    BY <1>1, <1>3, BeginOK, HitOK, MissOK, MissedOK, FailsOK, CacheOnlyOK, AskOK
  <2> QED BY <2>1, <2>2, <2>4, <2>5
<1>4. ASSUME NEW c \in Collections, ChangeTable(c)
      PROVE  TypesOK' /\ HistoryOK' /\ \A u \in Tasks : RequestOK(u)'
  BY <1>1, <1>4, ChangeHistory, ChangeOK
<1>5. ASSUME Tick
      PROVE  TypesOK' /\ HistoryOK' /\ \A u \in Tasks : RequestOK(u)'
  BY <1>1, <1>5, TickHistory, TickOK
<1>6. ASSUME UNCHANGED vars
      PROVE  TypesOK' /\ HistoryOK' /\ \A u \in Tasks : RequestOK(u)'
  <2>1. UNCHANGED <<ver, live, cache, pc, want, got, shape, step, req, first, projection,
                    stored, result, age, rest, old, steady>>
    BY <1>6 DEF vars, caching, data, history
  <2>2. TypesOK'
    BY <1>1, <2>1 DEF TypesOK, Bound
  <2>3. Still /\ Fed
    BY <2>1 DEF Still, Fed
  <2>4. HistoryOK'
    BY <1>1, <2>1, <2>3, StillHistory
  <2>5. ASSUME NEW u \in Tasks PROVE RequestOK(u)'
    BY <1>1, <2>1, Bystander DEF Same
  <2> QED BY <2>2, <2>4, <2>5
<1>7. TypesOK' /\ HistoryOK' /\ \A u \in Tasks : RequestOK(u)'
  BY <1>3, <1>4, <1>5, <1>6 DEF Next
<1>8. RequestsOK'
  BY <1>7 DEF RequestsOK, RequestOK
<1> QED BY <1>2, <1>7, <1>8 DEF IInv

-----------------------------------------------------------------------------
LEMMA Invariant == Spec => []IInv
BY InitIInv, StepIInv, PTL DEF Spec

(* A field that had been a column for as long as a cached schema may be    *)
(* stale when the request to write it began, and still is one when the     *)
(* database is asked, is never cut from the item by a stale schema: what   *)
(* prepareItemsForInsert and -Update leave out is newer, or gone.          *)
THEOREM NothingOldIsCut == Spec => []OldFieldsKept
<1>1. IInv => OldFieldsKept
  BY DEF IInv, RequestsOK, WriteKept, OldFieldsKept
<1> QED BY <1>1, Invariant, PTL

(* A request about a table that has rested for as long as a cached schema  *)
(* may be stale is checked, cut and answered by exactly that table, though *)
(* the cache is flushed, filled and refreshed by others meanwhile, and     *)
(* though a find and an aggregation read the schema twice.                 *)
THEOREM SettledTablesAreSeen == Spec => []StableExact
<1>1. IInv => StableExact
  BY DEF IInv, RequestsOK, Exact, ResultExact, KnownIs, StableExact
<1> QED BY <1>1, Invariant, PTL
==============================================================================
