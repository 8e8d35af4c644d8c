----------------------------- MODULE SchemaCache -----------------------------
(***************************************************************************)
(* CacheableSchemaInformation: the cache of collection schemas in front of *)
(* the schema provider                                                     *)
(* (libs/velo-external-db-core/src/service/schema_information.ts).         *)
(*                                                                         *)
(* Every request of the adaptor that needs the fields of a collection calls*)
(* schemaFor; every schema operation of the adaptor ends with refresh.     *)
(* The requests run concurrently on one event loop, so a task here is one  *)
(* such call and each "await" of the code separates two of its steps.      *)
(* The tables are altered by the adaptor's own requests and by anybody     *)
(* else who uses the database.                                             *)
(*                                                                         *)
(* A schema is abstracted to the version number of the table definition it *)
(* was read from.  "lag" is history: for how long a version that somebody  *)
(* holds has no longer been the table's definition.                        *)
(***************************************************************************)
EXTENDS Naturals

CONSTANTS
    Collections,   \* the collection names requests mention
    Tasks,         \* concurrent calls into the cache
    TTL,           \* FiveMinutes, in ticks of the clock
    Latency,       \* the longest a provider call takes (external)
    MaxVersion     \* bound on the number of changes to one table

ASSUME SchemaCacheAssumption ==
    /\ TTL \in Nat \ {0}
    /\ Latency \in Nat
    /\ MaxVersion \in Nat

VARIABLES
    ver,     \* ver[c]: version of the definition of table c
    live,    \* the tables that exist
    cache,   \* cache[c]: the cached schema, or NoEntry
    pc,      \* pc[t]: where the call of task t is
    want,    \* want[t]: the collection task t asked for
    got,     \* got[t][c]: what the provider answered task t about c
    wait,    \* wait[t]: for how long the provider call of t has been out
    answer,  \* answer[t]: how the last call of t ended
    clean    \* history: the refresh of t has overlapped nothing so far

tables == <<ver, live>>
calls  == <<pc, want, got, wait, answer>>
vars   == <<tables, cache, calls, clean>>

NoEntry  == [ver |-> 0, lag |-> 0, left |-> 0]
NoSchema == [ver |-> 0, lag |-> 0]

(* No entry gets this stale; lags are counted up to it. *)
Bound    == TTL + Latency
Versions == 0 .. MaxVersion
Lags     == 0 .. Bound
Schemas  == [ver : Versions, lag : Lags]
Entries  == [ver : 1 .. MaxVersion, lag : Lags, left : 1 .. TTL]

Refreshing(t) == pc[t] \in {"listing", "listed"}
Fetching(t)   == pc[t] \in {"describing", "described", "stored"}

(* cache.set(name, schema, FiveMinutes) *)
Entry(s) == [ver |-> s.ver, lag |-> s.lag, left |-> TTL]

(* What the provider says of table c at the instant it reads it. *)
Current(c) == IF c \in live THEN [ver |-> ver[c], lag |-> 0] ELSE NoSchema

Init ==
    /\ ver = [c \in Collections |-> 0]
    /\ live = {}
    /\ cache = [c \in Collections |-> NoEntry]
    /\ pc = [t \in Tasks |-> "idle"]
    /\ want \in [Tasks -> Collections]
    /\ got = [t \in Tasks |-> [c \in Collections |-> NoSchema]]
    /\ wait = [t \in Tasks |-> 0]
    /\ answer = [t \in Tasks |-> "none"]
    /\ clean = [t \in Tasks |-> FALSE]

(* Task t goes back to idle with the given outcome. *)
Finish(t, outcome) ==
    /\ pc' = [pc EXCEPT ![t] = "idle"]
    /\ want' = want
    /\ got' = [got EXCEPT ![t] = [c \in Collections |-> NoSchema]]
    /\ wait' = [wait EXCEPT ![t] = 0]
    /\ answer' = [answer EXCEPT ![t] = outcome]

-----------------------------------------------------------------------------
(* schemaFor *)

(* Mutant: a hit renews the time to live. *)
SchemaForHitRenewing(t, c) ==
    /\ pc[t] = "idle"
    /\ cache[c] # NoEntry
    /\ want' = [want EXCEPT ![t] = c]
    /\ answer' = [answer EXCEPT ![t] = "schema"]
    /\ cache' = [cache EXCEPT ![c].left = TTL]
    /\ UNCHANGED <<tables, pc, got, wait, clean>>

SchemaForHit(t, c) ==
    /\ pc[t] = "idle"
    /\ cache[c] # NoEntry
    /\ want' = [want EXCEPT ![t] = c]
    /\ answer' = [answer EXCEPT ![t] = "schema"]
    /\ UNCHANGED <<tables, cache, pc, got, wait, clean>>

(* The entry is missing: update issues describeCollection and waits. *)
SchemaForMiss(t, c) ==
    /\ pc[t] = "idle"
    /\ cache[c] = NoEntry
    /\ pc' = [pc EXCEPT ![t] = "describing"]
    /\ want' = [want EXCEPT ![t] = c]
    /\ clean' = [u \in Tasks |-> FALSE]
    /\ UNCHANGED <<tables, cache, got, wait, answer>>

DescribeAnswered(t) ==
    /\ pc[t] = "describing"
    /\ pc' = [pc EXCEPT ![t] = "described"]
    /\ got' = [got EXCEPT ![t] = [c \in Collections |->
                  IF c = want[t] THEN Current(c) ELSE NoSchema]]
    /\ UNCHANGED <<tables, cache, want, wait, answer, clean>>

(* Mutant: a missing collection is cached like any other. *)
UpdateUnchecked(t) ==
    /\ pc[t] = "described"
    /\ cache' = [cache EXCEPT ![want[t]] = Entry(got[t][want[t]])]
    /\ pc' = [pc EXCEPT ![t] = "stored"]
    /\ UNCHANGED <<tables, want, got, wait, answer, clean>>

(* The rest of update: the schema enters the cache. *)
Update(t) ==
    /\ pc[t] = "described"
    /\ got[t][want[t]] # NoSchema
    /\ cache' = [cache EXCEPT ![want[t]] = Entry(got[t][want[t]])]
    /\ pc' = [pc EXCEPT ![t] = "stored"]
    /\ UNCHANGED <<tables, want, got, wait, answer, clean>>

(* throw new CollectionDoesNotExists *)
UpdateThrows(t) ==
    /\ pc[t] = "described"
    /\ got[t][want[t]] = NoSchema
    /\ Finish(t, "CollectionDoesNotExists")
    /\ UNCHANGED <<tables, cache, clean>>

(* schemaFor resumes after "await this.update" and reads the cache again. *)
SchemaForReturn(t) ==
    /\ pc[t] = "stored"
    /\ Finish(t, IF cache[want[t]] = NoEntry THEN "undefined" ELSE "schema")
    /\ UNCHANGED <<tables, cache, clean>>

-----------------------------------------------------------------------------
(* refresh *)

(* Mutant: the cache is not flushed first. *)
RefreshWithoutClear(t) ==
    /\ pc[t] = "idle"
    /\ pc' = [pc EXCEPT ![t] = "listing"]
    /\ clean' = [u \in Tasks |-> u = t /\ \A v \in Tasks : pc[v] = "idle"]
    /\ UNCHANGED <<tables, cache, want, got, wait, answer>>

(* clear() flushes the cache and list() is called. *)
Refresh(t) ==
    /\ pc[t] = "idle"
    /\ cache' = [c \in Collections |-> NoEntry]
    /\ pc' = [pc EXCEPT ![t] = "listing"]
    /\ clean' = [u \in Tasks |-> u = t /\ \A v \in Tasks : pc[v] = "idle"]
    /\ UNCHANGED <<tables, want, got, wait, answer>>

ListAnswered(t) ==
    /\ pc[t] = "listing"
    /\ pc' = [pc EXCEPT ![t] = "listed"]
    /\ got' = [got EXCEPT ![t] = [c \in Collections |-> Current(c)]]
    /\ UNCHANGED <<tables, cache, want, wait, answer, clean>>

(* Every listed collection is set; an entry of another one stays. *)
RefreshStore(t) ==
    /\ pc[t] = "listed"
    /\ cache' = [c \in Collections |->
                    IF got[t][c] # NoSchema THEN Entry(got[t][c]) ELSE cache[c]]
    /\ Finish(t, "refreshed")
    /\ UNCHANGED <<tables, clean>>

(* describeCollection or list rejects, and with it the call of t. *)
ProviderFails(t) ==
    /\ pc[t] \in {"describing", "listing"}
    /\ Finish(t, "DbError")
    /\ UNCHANGED <<tables, cache, clean>>

-----------------------------------------------------------------------------
(* The database, and time *)

ChangeTable(c, exists) ==
    /\ ver[c] < MaxVersion
    /\ ver' = [ver EXCEPT ![c] = @ + 1]
    /\ live' = IF exists THEN live \cup {c} ELSE live \ {c}
    /\ clean' = [t \in Tasks |-> clean[t] /\ pc[t] # "listed"]
    /\ UNCHANGED <<cache, calls>>

CreateOrAlterTable(c) == ChangeTable(c, TRUE)
DropTable(c)          == c \in live /\ ChangeTable(c, FALSE)

(* A tick passes over what was read of table c. *)
Lagging(c, s) ==
    IF s.ver # 0 /\ s.ver # ver[c] /\ s.lag < Bound THEN s.lag + 1 ELSE s.lag

(* Mutants: an entry that lives one tick too long, and one set for ever. *)
AgedEntryTooLong(c) ==
    LET e == cache[c]
    IN  IF e.left = 0 THEN NoEntry
        ELSE [ver |-> e.ver, lag |-> Lagging(c, e), left |-> e.left - 1]

AgedEntryForEver(c) ==
    [ver |-> cache[c].ver, lag |-> Lagging(c, cache[c]), left |-> cache[c].left]

(* cache.get finds nothing once the time to live is over. *)
AgedEntry(c) ==
    LET e == cache[c]
    IN  IF e.left <= 1 THEN NoEntry
        ELSE [ver |-> e.ver, lag |-> Lagging(c, e), left |-> e.left - 1]

Tick ==
    /\ \A t \in Tasks : /\ pc[t] # "stored"
                        /\ pc[t] # "idle" => wait[t] < Latency
    /\ cache' = [c \in Collections |-> AgedEntry(c)]
    /\ wait' = [t \in Tasks |-> IF pc[t] = "idle" THEN 0 ELSE wait[t] + 1]
    /\ got' = [t \in Tasks |-> [c \in Collections |->
                  [ver |-> got[t][c].ver, lag |-> Lagging(c, got[t][c])]]]
    /\ UNCHANGED <<tables, pc, want, answer, clean>>

-----------------------------------------------------------------------------
Proceed(t) ==
    \/ DescribeAnswered(t) \/ Update(t) \/ UpdateThrows(t)
    \/ SchemaForReturn(t) \/ ListAnswered(t) \/ RefreshStore(t)
    \/ ProviderFails(t)

Next ==
    \/ \E t \in Tasks, c \in Collections : SchemaForHit(t, c)
    \/ \E t \in Tasks, c \in Collections : SchemaForMiss(t, c)
    \/ \E t \in Tasks : Refresh(t)
    \/ \E t \in Tasks : Proceed(t)
    \/ \E c \in Collections : CreateOrAlterTable(c)
    \/ \E c \in Collections : DropTable(c)
    \/ Tick

Spec == Init /\ [][Next]_vars

(* The event loop runs every continuation, the provider answers or fails,  *)
(* and time passes.  Nothing obliges a request to come or a table to       *)
(* change.                                                                 *)
Fairness == (\A t \in Tasks : WF_vars(Proceed(t))) /\ WF_vars(Tick)

FairSpec == Spec /\ Fairness

-----------------------------------------------------------------------------
(* Properties *)

TypeOK ==
    /\ ver \in [Collections -> Versions]
    /\ live \subseteq {c \in Collections : ver[c] >= 1}
    /\ cache \in [Collections -> Entries \cup {NoEntry}]
    /\ pc \in [Tasks -> {"idle", "describing", "described", "stored",
                          "listing", "listed"}]
    /\ want \in [Tasks -> Collections]
    /\ got \in [Tasks -> [Collections -> Schemas]]
    /\ wait \in [Tasks -> 0 .. Latency]
    /\ answer \in [Tasks -> {"none", "schema", "undefined", "refreshed",
                              "CollectionDoesNotExists", "DbError"}]
    /\ clean \in [Tasks -> BOOLEAN]

(* However the describes, the refreshes and the changes of the tables are  *)
(* interleaved, late answers that overwrite newer entries included, what   *)
(* schemaFor can read from the cache was the definition of the table less  *)
(* than the time to live of an entry and one provider call ago.            *)
BoundedStaleness ==
    \A c \in Collections : cache[c] # NoEntry => cache[c].lag < Bound

(* "force refresh will invalidate cache": a refresh during which no other  *)
(* describe or refresh was under way, and no table changed after it was    *)
(* listed, leaves exactly the existing tables in the cache, each as it is. *)
RefreshExact ==
    [][\A t \in Tasks : RefreshStore(t) /\ clean[t] =>
            \A c \in Collections :
                IF c \in live THEN cache'[c].ver = ver[c]
                              ELSE cache'[c] = NoEntry]_vars

(* Entries expire and late answers run out: once the tables stop changing, *)
(* the cache ends up agreeing with them, whatever it was left with.        *)
Coherent ==
    \A c \in Collections : cache[c] # NoEntry => cache[c].ver = ver[c]

EventuallyCoherent == <>[]Coherent

(* The cache refines the promise of BoundedStaleView, whatever order the   *)
(* answers of the provider are processed in.                               *)
View == [c \in Collections |-> [ver |-> cache[c].ver, lag |-> cache[c].lag]]

Promise == INSTANCE BoundedStaleView WITH Fresh <- Latency, view <- View

KeepsPromise == Promise!Spec
==============================================================================
