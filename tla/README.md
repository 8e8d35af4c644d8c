# A verification of velo-external-db

velo-external-db is an adaptor: a Node.js process that lets Wix sites use an
external database (Postgres, MySQL, SQL Server, Spanner, BigQuery, MongoDB,
DynamoDB, Firestore, Airtable, Google Sheets) as collections of items. It keeps
no data of its own. What it does keep is a cache of the schemas of the
collections, and, for databases without schemas, a descriptor of the columns in
the database itself. Most of what can go wrong lies in what happens between two
`await`s: two requests of one process, several calls of one request, requests of
other users of the database.

This directory has TLA+ modules that model those parts, TLC configurations that
check them on small instances, and TLAPS proofs of theorems about them for
instances of every size. `PROJECT.json` maps every definition to the lines it
models, and lists runs, mutants, hazards and theorems.

Throughout, `core` is `libs/velo-external-db-core/src`.

## 1. The system

| Component | State it keeps | Operations | Module |
|---|---|---|---|
| Schema information cache, `core/service/schema_information.ts` | `NodeCache`: collection -> schema, five minutes | `schemaFor`, `schemaFieldsFor`, `update`, `refresh`, `clear` | `SchemaCache` (abstractly `BoundedStaleView`) |
| Schema service, `core/service/schema.ts` | none; it changes tables and the cache | `list`, `create`, `update`, `delete` | `SchemaService` |
| Comparison and conversion of columns, `core/utils/schema_utils.ts`; translators `libs/external-db-*/src/sql_schema_translator.ts` | none | type conversions, `compareColumnsInDbAndRequest`, `dbType`, `translateType` | `SchemaTypes`, `ColumnTypes` |
| Schema providers with tables (SQL) | the database's tables | one DDL statement per operation | storage of `SchemaService` |
| Schema providers with descriptors (MongoDB, DynamoDB, Firestore) | a `_descriptor` document per collection, a table per collection | `create`, `drop`, `addColumn`, `removeColumn`, `changeColumnType`, `describeCollection`, `list` | `DescriptorStore` (abstractly `ColumnCatalogue`) |
| Data service, `core/service/data.ts` | none; it changes items | `find`, `count`, bulk insert, update, upsert, delete, `truncate`, `aggregate` | `DataService` |
| Schema-aware data service, `core/service/schema_aware_data.ts` | none; reads the cache | the same, validated, projected and cut to the schema | `DataUnderSchema` |
| Query validator, filter and aggregation transformers, item transformer, `core/converters` | none | pure | `AdapterQuery`, `QueryTranslation`; items in `ItemStatements`, `WriteTranslation`; field checks also in `DataUnderSchema` |
| Data providers, `libs/external-db-*/src` | the database's items | statements; writes and truncations of several calls | `SqlStatements` and one `*Queries` module per database; `ItemStatements`; `RowStore`; storage of `DataService` |
| Indexing service and index providers, `core/service/indexing.ts`, `libs/external-db-{postgres,mysql}/src/*_index_provider.ts` | indexes of the database, indexes in progress | `list`, `create`, `remove` | `IndexBuild` |
| Router, hooks, middlewares, error translators, `core/router.ts`, `core/web`, `core/*_hooks_utils.ts`, `*exception_translator.ts` | the tables of hooks; a timer per request | every route | `RequestPipeline`, `ErrorTranslation` |
| Operation service, health | none | `/`, `/connectionStatus` | two routes of `RequestPipeline` |
| Configuration, security, logger, testkit, wiring | none after the start | - | not modelled |

How they interact. A data request goes router -> hooks -> schema-aware data
service -> (cache, validator, item transformer) -> data service -> data
provider. A schema request goes router -> hooks -> schema service -> schema
provider, and ends with `refresh`, which flushes the cache and fills it from
`list()`. All run on one event loop; between two `await`s a step is atomic, and
at every `await` another request, or somebody else who uses the database, may
take any number of steps. The components share the cache, the database and the
tables of hooks, and nothing else.

What is hard, and what makes each component correct:

* **Cache.** An answer of the provider is stored when it arrives, not when it
  was true: describes and refreshes overlap, and the older answer can be stored
  last, with a new time to live. Correct means that nothing is ever staler than
  the time to live plus one provider call, and that the cache heals.
* **Schema service.** An update is a describe and three phases of concurrent
  column operations. One failure ends the request, while the rest of its phase
  runs on; the process may end anywhere. Correct means that a successful update
  is exact, that nothing is removed before everything is added, that shared
  columns survive all interleavings, and that repeating a request converges. It
  plans by what the database lists, and what is listed is not always what was asked
  for: a DATE comes back as a date and is asked for as a datetime.
* **Descriptors.** Every operation reads, decides and writes, and a collection
  is a descriptor and a table that are made in two steps. Correct means that
  half-done calls look atomic to the reader of columns, that a drop heals, and
  that concurrent calls do not damage the primary key or others' columns.
* **Types.** What is listed can be created again: the family of a type survives
  every chain of databases.
* **Data service.** Calls of a bulk settle in any order and some fail, and whether
  an id may be there twice is up to the database. Correct means that the results
  tell the truth by position, and that what was told is inserted stays.
* **Data under a schema.** Requests read the cached schema up to twice, check
  queries against it, and cut items down to it silently. Correct means that a
  settled table is served exactly, and that no settled field is cut off.
* **Items in statements.** The values of a bulk become one list of parameters, one
  list per item, or parameters with names made up on the way, in another order for
  each database. Correct means that each column of each row gets its own value.
* **Queries.** A filter goes through two languages into a statement of one of
  eight databases, with its values beside it, bound by position, by number or by
  a name made up on the way. Correct means that the rows that come back are those
  Wix means, in all databases alike.
* **Requests.** Hooks and operations may be slow, fail or never end; the timer
  answers in between, and what was started goes on. Correct means that an answer
  tells what was done, that every request gets one, and that a failure has one
  name for the client.
* **Indexes.** The database builds them on its own time. Correct means that a
  creation is answered anyway, and that a listing made of two answers tells what
  is there.
* **Writes of several calls.** Rows without keys, tables that are emptied batch
  by batch. Correct means that the rows written are those that were meant, and
  that what was answered is done.

## 2. Modules

**`SchemaCache`** has one task per call into the cache and one action per stretch
of code between two awaits: `SchemaForHit`, or `SchemaForMiss` ->
`DescribeAnswered` (the provider reads the table) -> `Update` (the continuation
stores it) or `UpdateThrows` -> `SchemaForReturn` (the second `get`, after
`await this.update`); `Refresh` -> `ListAnswered` -> `RefreshStore`. A schema is a
version number of the table; `lag` counts the ticks since that version was
superseded. `Tick` ages entries and outstanding calls together. Two assumptions
are made about time: a provider call takes at most `Latency` ticks, and a
continuation that is ready runs within the tick.

**`BoundedStaleView`** is the promise: a view that learns versions which are at
most `Fresh` ticks out of date and forgets them before they are `Bound` ticks out
of date. `SchemaCache` implements it (`KeepsPromise`) by forgetting expiry times,
calls and answers.

**`SchemaTypes`** has the type functions of `schema_utils.ts` and of the five SQL
translators, as functions on finite sets of types, and the three parts of
`compareColumnsInDbAndRequest`. Sizes and precisions are left out.
**`ColumnTypes`** is the life of one column that is created, listed and created
again in any dialect.

**`SchemaService`** `EXTENDS SchemaTypes`. A table is a function from column names
to types of the database. `create`, `addColumn` and `changeColumnType` put there
what the dialect's `dbType` makes of a requested column (`Stored`, `Applied`), or
are refused where it has no such type: SQL Server has none for objects, to which
encrypted fields are turned. `list` and `describeCollection` answer what
`translateType` makes of the types in the table (`AsListed`), which is what an
update compares with and what is cached. So a column asked for as a DATE is a
`date` in Postgres, MySQL and SQL Server, is listed as 'date', and is compared
with 'datetime': the next update plans a change of its type.

A provider is a record of its dialect (or `descriptors`, which keep the adaptor's
types as they are), of the operations it supports, of those that throw though
supported (Spanner's `changeColumnType`) and of those that are two steps (read the
description, write it all back) rather than one statement. BigQuery removes a
column by writing the table anew from what it reads (`CREATE OR REPLACE TABLE ...
AS SELECT`); whether two such statements see one another is not in this code, and
the run has both. A conversion of what is in a column that the database refuses
(no cast, a text that is no number) is one of the failures, `ColumnFails`.

`UpdateDescribed`, `RemovePhase` and `ChangePhase` are the three phases; `pend[t]`
are the column operations of the phase under way and `detached` those that
outlived their request, since `Promise.all` rejects with the first rejection and
leaves the others running. Failures happen before or after the effect; `Restart`
keeps the database and any subset of the statements already sent.
`Describe`/`Fill` stand for all other users of the cache, `list` included: it
changes nothing but the cache.

Two things are left to `DescriptorStore`. In DynamoDB an update of a descriptor
that has been dropped meanwhile creates it again; `SchemaService` models a write
to a table that is gone as refused. And MongoDB's `changeColumnType`, which
replaces the list it read.

**`DescriptorStore`** models the three descriptor providers in detail, with the
difference that matters in `MongoWrite` ($addToSet, $pull; a change of type
replaces the list), `DynamoWrite` (append; replace to remove or change) and
`FirestoreWrite` (replace always), DynamoDB's system table that every operation
ensures, and calls that fail between any two steps. **`ColumnCatalogue`** is
`ISchemaProvider`'s promise about columns, each operation atomic: a column is
added where there is none of its name, and the columns of a name are removed or
change their type together. That it speaks of names matters: two overlapping
additions of one name in DynamoDB or Firestore list the column twice, and a later
call that removes it, alone, takes both.

**`DataService`** has one task per request and one action per storage call that
settles. `rows[id]` is the sequence of rows with that id. The service does not look
whether an id is there before it inserts (`data.ts:43-50`): a database with a key
refuses it (`keyed`), and BigQuery appends a second row (`appending`:
`bigquery_data_provider.ts:41-48` inserts without a key and ignores `upsert`, and what
`update` answers at `:50-68` is the length of a result set, so the model lets it be
one or not). Google Sheets and Airtable insert by appending, too; Sheets answers an
update with the number of items whatever it found, and its calls are in
`RowStore`. `effects` records which positions really changed the table, so that
the answers can be compared with what happened. `UnhandledRejection` models Node's
default: a rejected promise without a handler ends the process.

**`DataUnderSchema`** composes `SchemaCache` (`Cache == INSTANCE SchemaCache`, the
same variables) with the requests of `schema_aware_data.ts`: every step of a
request that reads a schema is a step of the cache. `shape[c][v]` gives the
columns of each version. The write drops the fields that the schema does not
have, as the item transformer does; the database refuses statements about columns
it lacks. Abstractions: every table has `_id`, so `projectionFor` always adds it;
an item is the set of its field names; a bulk is one item (`DataService` has
bulks); a default that replaces a falsy value is not a change of the field set.

**`AdapterQuery`** has the meaning of a Wix filter on a row (`Meaning`, in three
values, as rows where a missing value decides are left open) and then, definition
by definition, the filter and aggregation transformers and the validator. A text
is a word over small letters, a number a word of one. A specification of `$matches` is
a list of words and of sets of letters ("any of"), and means that some stretch of
the text has them in order; `ignoreCase` is left out, there being no capitals.
**`SqlStatements`** is what becomes of a statement: its conditions with their
placeholders, the binding of parameters to them (by position, by number, by
name), the refusal of malformed ones, and the evaluation on the rows, regular
expressions and LIKE patterns included.
**`PostgresQueries`, `MysqlQueries`, `MssqlQueries`, `SpannerQueries`,
`BigqueryQueries`, `MongoQueries`, `DynamoQueries`, `FirestoreQueries`** are the
`parseFilter`s, aggregation and sort parsers and the `find`, `count` and
`aggregate` of the providers: each threads its counters and offsets as its source
does, since that is where they differ. **`QueryTranslation`** composes them: one
request is transformed, validated, stated and answered, and every outcome
(refused, thrown, refused by the database, answered) is a phase.

**`ItemStatements`** has the item transformer and, for each database, what its
`insert` and `update` make of the prepared items: for every item the placeholders
its columns are set to, and the parameters of the statement it is part of, as a
list by position or as a record by name. An item is a function from fields to
values. **`WriteTranslation`** is the way of one request: `Prepare`, `StateWrite`,
`RunWrite`; the database refuses a placeholder without a value (`Unbound`) and an
UPDATE that sets nothing (`SetsNothing`), and writes the rest. A bulk has at least
one item. Neither module has a RECURSIVE operator, so both can be proved about;
`QueryTranslation` `EXTENDS WriteTranslation` and adds the queries to its variables.

**`RequestPipeline`** is the router: a request is sent over a connection, verified,
timed, goes through three hooks, its operation and three hooks, and is answered;
the error middleware (`Answer`) answers errors and destroys the connection when
an answer has been sent already. Every `await`, even of a hook that is not there,
is a step, so that `Timeout` and `ReloadHooks` come anywhere. A hook changes its
payload, empties it, throws or never returns; an operation succeeds, fails before,
halfway, or the way its database fails. **`ErrorTranslation`** has the codes the
eight databases raise for ten failures, six of them ways in which a change of a
column's type fails (a text that is no integer, no number, no date or no object, a
number out of range, types without a cast), the translators of the providers and
of the core, and which calls translate at all.

**`IndexBuild`** has both index providers: the statement and the timer of `create`
(`Issue`, `Timer`, `Rejected`), MySQL's questions about the columns before, the
two questions of `list` and their merge, `remove`; and the database: statements
under way that finish, are refused, break, or lose their connection and go on
(the connection is lost, the statement is not), indexes built by hand, and columns
that others change.

**`RowStore`** has the writes of four providers in their calls. In Google Sheets:
look up, then save or delete by number; three rows at a time; read the header,
clear, write the header. Elsewhere: read a page of ids, delete it; Firestore again
until none is left, on `process.nextTick`. Services fail, DynamoDB leaves
deletions unprocessed, and operations go on after `Promise.all` has rejected.

`MC*` modules hold the instances. `MCProviders` holds two that have nothing in
common: it extends `RowStore`, and a behaviour is one of it or one of
`ColumnTypes`. `*Proofs` modules hold the theorems about the module of that name
(section 5); `SchemaServiceProofs` has those about `ColumnTypes` too, and
`ProviderWritesProofs` is about `RowStore` and `WriteTranslation`. Operators with a comment `Mutant:` are plausible bugs; for every
property of a passing run one of them, put in place of the definition after it,
breaks that property.

Constants carry assumptions, each with a name, where a proof needs one: they say
what the instances of a module may be (databases that exist, bulks that are lists
of items) and nothing about behaviour; TLC evaluates them in every run.

## 3. Runs

| Run | What it shows | Bounds, and why they are enough |
|---|---|---|
| `schema_cache` | types; `BoundedStaleness`; `RefreshExact`; refinement of `BoundedStaleView`; liveness: `EventuallyCoherent` | 2 collections, 2 calls, TTL 2, latency 1, 2 changes of one table and 1 of the other. A late answer overtaken by a newer one needs two calls and one change; a dropped collection cached after the flush needs a second change. No symmetry, because of the liveness. All but the liveness is also proved for all sizes |
| `schema_service` | `TypeOK`, `UpdateExact`, `AddedBeforeRemoved`, `SharedColumnsKept` | 2 concurrent requests out of 3, one failure or restart, 7 providers (Postgres, MySQL, SQL Server, Spanner, BigQuery with removals that are atomic and that are not, Firestore), field lists that add, remove, retype, encrypt, keep a TIME and forget the key. Two operations per phase are needed for one to outlive the other, and the field lists have them; a TIME that two lists keep is what an update compares as something else than it asked for |
| `schema_service_retry` | liveness: a client that repeats its requests converges | 1 client, 8 attempts, 2 failures or restarts: operations that outlived two attempts meet a third. Postgres, MySQL and SQL Server, which change types; the table wanted has a DATE, changed again by every attempt that finds it |
| `schema_service_firestore` | finding: two additions, one lost | |
| `descriptor_store` | `TypeOK`, `KeyListedOnce`, `DropHeals`, `OwnColumnOnly`, refinement of `ColumnCatalogue` | 2 callers, a key, a column of two types, another column. Calls one after the other: 5, cut short up to twice (create, failed, drop, create again, and one more). Once calls overlap (`ShortOverlaps`): 4 calls, or 3 and a failure, enough for two to race and the others to see what is left and to act on it |
| `data_service` | `TypeOK`, `ResultsTell`, `InsertedKept`, `DeleteReturnsItems` | 3 requests of 2 clients over 2 ids, one storage failure, with a key and without; bulks that overlap, and one that repeats an id |
| `data_service_rejection` | finding: a failing count ends the process | |
| `data_under_schema` | `StableExact`, `OldFieldsKept` | 1 request of each of eight kinds against 1 table of two versions, beside 1 caller that refreshes or fills the cache. The request reads twice at most, so a change in between needs one version more than it started with. A behaviour is followed until the request is answered (`Unanswered`), and history of the cache that no step reads is not told apart (`Seen`) |
| `query_translation` | `FilterExact`, `PageExact`, `AggregateExact`, `AcceptedRuns`, `StoredWhole` | 8 databases; 5 rows whose values share letters and lack some, so that a value in the wrong place, or a comparison that is off by one, changes the answer; every operator on a text, a number, a nested and a missing field; `$matches` with a literal, a choice of letters, two of them in a row and no specification; all pairs of eight conditions, and junctions three deep, of 11 conditions, with 10 values, empty ones (counters of two digits, names that run into their number); 3 pages; 6 aggregations with 6 final filters; bulks of 1, 2 and 12 items. `StoredWhole` is also proved for all sizes |
| `request_pipeline` | `TypeOK`, `HonestAnswers`, `ConnectionsKept`, `ReloadTakesHold`, `FailuresTold`, liveness: `EveryRequestEnds` | 2 requests on 1 or 2 connections, 6 routes (a read, a write, a schema update, an index, one without catch, one without hooks), 2 tables of hooks, the failures of 8 databases. Two requests are what it takes for one to lose its connection by another's late answer. Both requests are in flight only with one database, as what a database does to a request is up to that request |
| `index_build` | `ListExact`, liveness: `CreateAnswered` | 2 tasks, 3 requests (the third beside a listing), 3 indexes of which one has two columns and two share a name, 1 failure, 1 change by others |
| `providers` | `DoneAsTold`, `OthersRowsKept`; `FamilyPreserved`, `KindNeverInvented` | Rows: 3 rows, 2 tasks, 3 calls that overlap in any way, 2 failures; pages of 2, batches of 2 and 2 rows at once, so that three rows are one too many for each. Columns: no bound: all types, all dialects, chains of any length |

`CHECK_DEADLOCK FALSE` is set where the bounds on requests let everything end.
`SchemaCache` never stops, and deadlock is checked there. A
`CONSTRAINT` bounds only how many events come together, as the table says; TLC
still checks every property on the states at the bound.

The properties in words. The ones below are the ones to read first.

* `BoundedStaleness`: every entry of the cache, however describes and refreshes
  interleave, was the table's definition less than TTL + Latency ago.
* `RefreshExact`: a refresh that overlapped nothing leaves exactly the tables.
* `EventuallyCoherent`: once tables stop changing the cache agrees for good.
* `UpdateExact`: an update that answers success and ran alone on an atomic
  database leaves exactly the requested columns; what the database lists for each is
  of the family it was asked for, after the way there and back, and the cache
  shows just that. Kinds of a family (a DATE that becomes a datetime in BigQuery, a
  TIME in Spanner) are not promised, and encrypted fields are objects that the
  comparison takes for what they would be unencrypted.
* `AddedBeforeRemoved`: whatever fails, no column is gone before every column
  the update adds is there: renaming loses no column without the new one.
* `SharedColumnsKept`: the primary key and the columns all requests keep are
  never lost, from tables or cache, even for providers that write back lists.
* `RetriesConverge`: repeated requests end with the requested table, for good.
* `DropHeals`: creation cut short leaves columns without a table, and creating
  again answers success and does nothing; a drop and a creation repair it.
* `KeyListedOnce`, `OwnColumnOnly`: what concurrent descriptor calls do keep.
* `ResultsTell`: `ok` is answered for written items only; the errors of the
  table (exists already, does not exist) only for items that were not written.
* `InsertedKept`: an insertion that was told `ok` has a row of its own until its id is
  deleted, whatever other insertions, updates and upserts do meanwhile. Where there
  is a key there is one row, so one insertion of an id is told `ok`, even within one
  bulk; BigQuery has as many rows as it was given.
* `StableExact`: a request about a table unchanged for Bound ticks sees exactly
  that table, whatever runs meanwhile.
* `OldFieldsKept`: a field that has been a column for Bound ticks is never cut
  off a written item, even if the table changes meanwhile.

* `FilterExact`, `PageExact`, `AggregateExact`: rows, order, page and groups are
  those of the meaning, in every database.
* `AcceptedRuns`: what the validator lets pass is a statement the database takes.
* `StoredWhole`: every item of an insertion or an update is written, no placeholder
  lacking its value, and each column of it gets the value of its own field; nothing
  is refused but an update that sets nothing.
* `HonestAnswers`: success is answered for what was done, with a valid token and
  no hook that threw; an error for what was not, or was cut short, or was
  followed by a hook that failed.
* `ConnectionsKept`: connections are destroyed only by a late answer, and the
  process ends only by a route without a catch.
* `ReloadTakesHold`: no request uses hooks that had been replaced when it came.
* `FailuresTold`: one failure has one name, whatever database and call met it, but for
  the cases of `Untold`.
* `EveryRequestEnds`: the timer answers when nothing else does.
* `ListExact`: an index that was there from the start of a listing to its end is
  listed as it is, and nothing is listed that was not there meanwhile.
* `CreateAnswered`: creations are answered, even if the database never does.
* `OthersRowsKept`: no row goes or changes but for a call that names it.
* `DoneAsTold`: what a call answered with success has done is done.

### Findings

1. An update that adds two columns to a Firestore collection issues both
   additions at once (`schema.ts:67`); each writes back the list it read, one is
   lost, and the update answers success.
2. A `find` with a count, and an `aggregate` with one, has no handler on the
   count while it awaits the items (`data.ts:15`, `data.ts:90`). A count that is
   rejected first ends the process and every other request in it.

### What the properties except

The code does not always do what these properties say. Where it does not, the
property names the case, in a definition of its own where it is not a line, and
holds in all others:

* `schemaFor` is declared to answer a `Table`, and can answer `undefined`
  (`schema_information.ts:24`): a refresh may flush the cache between the set in
  `update` and the second `get`. `SchemaCache` has that answer, and in
  `DataUnderSchema` it is the `TypeError` that `schemaFieldsFor` makes of it.
* `schema_utils.ts:260-264` compares the listed type with what the request asks for,
  where dates, times and datetimes are all 'datetime'. Every update that keeps a DATE
  or TIME column of Postgres, MySQL or SQL Server changes its type to what it is,
  which does no harm (`UpdateExact` and `RetriesConverge` hold of it). In BigQuery,
  which lists a TIME as 'time', such an update is refused after its columns have
  been added and removed, so that a table with a TIME is never updated
  successfully: `UpdateExact` is about updates that answer success, and
  `RetriesConverge` is checked of the other three. Spanner lists all points in time
  as datetimes, so there it does not happen; any other change of a type fails there
  as late. A column newly marked encrypted is not changed.
* Two callers that add one column at once both find it free, in all three
  descriptor stores; DynamoDB brings back the descriptor of a collection dropped
  meanwhile, and an addition can be lost to a list written back. `ImplementsCatalogue`
  is about steps of calls that do not overlap, and `KeyListedOnce` about the key
  alone: neither says that these do not happen.
* `ResultsTell` says of BigQuery's bulks what became of insertions, and nothing of
  updates, which it counts by a result set that has no rows to count.
* `SharesParameter`: SQL Server, Spanner and DynamoDB name a value after its field
  and a number (`mssql_utils.ts:31`), so that `a1` with 0 and `a` with 10 are one
  name; and the parameters of WHERE and HAVING, which both count from zero, are
  merged (`mssql_data_provider.ts:90`, `spanner_data_provider.ts:123`).
* `LosesMatches`: Firestore's parser and DynamoDB's have no branch for `$matches`
  (`libs/external-db-firestore/src/sql_filter_transformer.ts:54`,
  `libs/external-db-dynamodb/src/sql_filter_transformer.ts:138`) and answer as if
  nothing had been asked. Both leave it out of their `supportedOperations`, which
  decides what is tested (`data_provider.spec.ts:199`), but the validator accepts it in
  every database for texts and objects (`schema_commons.ts:27`, `:32`). SQL Server
  searches with LIKE, which takes the whole text, where the regular expressions of
  Postgres, MySQL, BigQuery, Spanner and MongoDB look for it anywhere: the meaning
  taken here is theirs. `FilterExact`, `PageExact` and `AggregateExact` hold of those
  five.
* `SharesAttribute`: DynamoDB's names of a projection replace those of the filter
  (`dynamo_data_provider.ts:28`), and a nested name is cut at one digit.
* `FiltersOnGroup`: MongoDB looks for a grouping column of a final filter where it
  is not (`libs/external-db-mongo/src/sql_filter_transformer.ts:32`).
* SQL Server leaves the limit out unless rows are skipped, and wants an order
  when they are (`mssql_data_provider.ts:109`); DynamoDB's limit bounds the scan.
* `Sayable`: empty conditions inside junctions, comparisons of order with a
  missing value, empty lists, text operators on nested fields and what a database
  has no operator for end in a statement that is refused or not built. A `$matches`
  inside a junction is a TypeError in DynamoDB (`sql_filter_transformer.ts:51` reads
  the first of no conditions), one without a specification an `InvalidQuery`, one of a
  nested field is built by MongoDB and Firestore only, and one of an alias in a final
  filter is not built by Postgres, SQL Server and Spanner.
* `SetsNothing`: an update of an item that has no field but `_id` is a statement with
  nothing after SET in Postgres, MySQL, SQL Server, BigQuery and DynamoDB.
* `UpdatesMixed`, `InsertsMixed`: Postgres and MySQL update all items in the
  fields of the first, BigQuery does not write a missing value, SQL Server's bulk
  of more than ten rows gives two values one name.
* `Untold`: SQL Server's 208 has no case, BigQuery's number 404 is compared with a
  text, and Spanner, BigQuery and DynamoDB leave calls without a translator. Of the
  ways a change of type fails, the translators know few, and the others end as
  UNKNOWN_ERROR: Postgres's 22007 (no date), 22003 (out of range) and 42846 (no
  cast); MySQL's 1292 (`ER_TRUNCATED_WRONG_VALUE`, no date),
  `ER_WARN_DATA_OUT_OF_RANGE` and `ER_INVALID_JSON_TEXT`; SQL Server's 241 (no date),
  245 (no integer), 8115 (out of range) and 206 (no cast); all of Spanner's and
  BigQuery's, which cannot change a type.
* `Recognized`, `Right`: Postgres looks for one blank after CREATE and none before
  the columns, which is not how `create` writes its statement, so that a creation
  under way is never listed, and gives several columns as one; MySQL does not
  recognise columns with lengths. An index finished between the two questions of
  a listing is in neither answer.
* `Clear`: a row of a sheet is written by the number it had when it was looked up.
  A call that overlaps another, or deletes several rows at once, may hit others:
  `OthersRowsKept` does not say it does not.
* `Limited`, `skipped`: a sheet deletes at most three rows and one of those with
  the same id, and does not tell of an update of no row; a header that could not
  be read is lost by a truncation; Spanner's and DynamoDB's truncations delete
  what one read returns; DynamoDB's unprocessed deletions are not read.

## 4. Fairness

* `SchemaCache!Fairness`: weak fairness of `Proceed(t)`, because the event loop
  runs every ready continuation and each provider call is answered or rejected,
  and of `Tick`, because time passes. The adaptor sets no timeout of its own on
  provider calls, so that they end, within `Latency`, is an assumption about the
  database. Nothing obliges requests to come or tables to change.
* `SchemaService!Fairness`: weak fairness of `Proceed(t)` and of the background
  operations, for the same reason: a statement sent ends some time.
  `RetrySpec` adds that its client keeps retrying: an assumption about the client.
  Failures are never fair, and bounded.
* `RequestPipeline!FairSpec`: weak fairness of `Receive` and `Timeout`: the event
  loop handles what has arrived, and timers go off. Nothing is assumed of hooks,
  operations and clients, which may be silent for ever.
* `IndexBuild!FairSpec`: weak fairness of `Creating(t)`: the timer, the statement
  that is sent, and MySQL's questions to the catalogue. Not of the statement's
  end: that is the point of the timer.

## 5. Proofs

Every safety property that a run checks of a module named here is proved of that
module's specification, for all values of its constants that meet the assumptions; the
runs show the same on small instances, and TLC checked each invariant below
before it was proved. What a property says is in section 3; this section says
what it rests on. Most properties speak of the moment a request is answered. To
follow from a step they need what holds of it on the way, and that is what the
invariants add.

`SchemaCacheProofs` (assumption: `SchemaCacheAssumption`, TTL positive, the others
natural numbers; collections, tasks, TTL, latency and changes arbitrary):

* `TypeCorrect`, `StalenessBounded`. `BoundedStaleness` is not inductive: an
  entry inherits its lag from the answer it is made of. `IInv` adds that an
  answer lags no more than its call has been out (`AnswerOK`), that
  `lag + left <= TTL + Latency` for every entry (`EntryOK`), that a current
  version does not lag, and that an idle task holds no answer (`IdleOK`).
* `RefreshIsExact`: a second invariant, on top of the first, says of a refresh
  that has overlapped nothing what cache and answer are.
* `CacheKeepsPromise`: every initial state and step maps to one of
  `BoundedStaleView`, a stutter included; it needs `IInv`.

`SchemaServiceProofs` (assumptions: there is a collection; bounds are natural
numbers; every field of a request has a type that the service converts; a provider's
dialect is one of those of `SchemaTypes`; what it supports, throws at and splits, and
the number of tasks, are arbitrary). It also has the theorems about
`ColumnTypes`, which has no constants:

* `SharedColumnsNeverLost`. What flows into tables and cache comes from elsewhere:
  answers on their way to the cache, listings, descriptions that a provider will
  write back, planned removals. `IInv` says of all of them that they have the
  shared columns (`FillsWhole`, `ListingWhole`, `PendOK`, `DetachedOK`), and of
  plans that they remove only what some request gives up, or the key, which the
  provider refuses.
* `TypeCorrect`. `TInv` adds to the types where a request may be while it has
  column operations under way.
* `UpdatesAreExact`, `AdditionsComeFirst`. Both are about an update that was alone.
  `SInv` says, phase by phase, what has been done of the plan, what is left of it
  and what the table is between (`AddingOK`, `RemovingOK`, `ChangingOK`), and
  what operations may still do after their request was given up (`LeftOK`). That a
  column lists as its family rests on what every dialect reads back from a column it
  made (`ReadAs`), once where a column is made and once where the comparison found
  nothing to change; `AsAsked` carries it through the phases.

* `FamiliesArePreserved`, `KindsAreNotInvented`. A column is listed and created again
  from its listing, in any databases, any number of times. `ColumnInv` says that
  whatever a column has become reads as the type first asked for, dates and times
  of day being listed as datetimes; the lemma under it (`ReadsBack`) computes, for
  every database and type, what a column created from it is read back as.

`DescriptorStoreProofs` (assumptions: the databases are the three, the calls those
of the provider, and some column is the primary key):

* `TypeCorrect`, `KeyStaysListed`, `OthersStay`. `TInv` survives every
  interleaving: it says of every list that is stored, and of every list that a
  call has read and will write back, that it has the primary key once.
* `CatalogueIsImplemented`. A step is one of `ColumnCatalogue`, or none, while no
  call that overlapped another is under way: `SolosOK` says of a call that
  overlaps no other that nothing has changed since it read.
* `DropsHeal`. `HealedOK` follows a collection from its drop to the next call
  about it.
* `WithoutKeeps`. A list without a name is a recursive function; that it is total,
  and what it keeps, is shown for lists of any length.

`DataServiceProofs` (assumption `DataServiceAssumption`: bulks are lists of items,
and a database has a key or appends):

* `InsertionsKept`. There is a lemma for what each operation makes of the rows of one
  id: an insertion adds one, an update keeps their number, an upsert never lessens
  it, and where rows go the count starts anew. The key's part is that no operation
  of a keyed database leaves two rows.
* `ResultsAreTrue`. `ResultsTell` speaks of answered requests; the invariant
  `RInv` says it of the positions of a bulk that have settled, and of the others
  that they have had no effect (`Writing`). It also says that only a bulk is ever
  writing, and that no request under way has been answered (`UnderWay`).
* `TypeCorrect`. The counts that no `find` waits for are bounded because each had a
  request of its own.
* `DeletesReturnItems`. Of a delete that has the table to itself, `DInv` says that
  nobody else is active and that the rows are those it read.

`DataUnderSchemaProofs` (assumptions: the cache's, and the kinds of requests are
those of the service):

* `NothingOldIsCut`, `SettledTablesAreSeen`. Every step is one of the cache's or
  leaves the cache alone (`CacheSteps`), so the invariant of `SchemaCacheProofs`
  holds here. `HistoryOK` turns what it says of versions into what a reader of
  columns wants to know: a version that ended some ticks ago has every column that
  has been one for longer, and a table that has rested for longer has no other
  version. It is stated for entries and for answers on their way, as a request may
  read either; `RequestsOK` says what a request has read so far.

`RequestPipelineProofs` (assumptions: the databases are among the eight, and a table
of hooks is a set of names of hooks; requests, connections and routes arbitrary):

* `FailuresAreTold`. Which name an error gets is computed database by database,
  through the three translators, for every failure and every call that meets it, the
  six ways of a failing change of type included; `Untold` is what remains.
* `TypeCorrect`, `AnswersAreHonest`, `ConnectionsAreKept`, `ReloadsTakeHold`. The
  invariant says of a request under way which hooks are left, that nothing has
  been done before its operation, that it was let in (`UnderWay`), and which
  tables of hooks it may have used (`TablesKnown`). A request is moved by its own
  steps (`Moves`); a step of another can only take its connection (`Bystander`).

`IndexBuildProofs` (no assumption: tasks, indexes, columns and bounds arbitrary):

* `ListingIsExact`. A listing asks twice, and what it says of active indexes is as
  old as its first question. `ListExact` compares its answer with what it had
  before it; the invariant says of the first answer, while the second is awaited,
  that it has every active index that was there all the time (`SeenAll`) and none
  that was not there at any time (`SeenOnce`), and of every listing that the
  present lies between the two histories (`Watched`). A step either is such a first
  answer or touches none (`Elsewhere`), which leaves two cases to prove.

`ProviderWritesProofs`, on `RowStore` (assumptions: finitely many ids, of which the
blank row's is none; the services are the four; deletions are lists of ids, not
empty; a page and a call have room for one row):

* `OthersStay`, `AnswersAreTrue`. A row of a sheet is written and deleted by its
  number, so the invariant has to keep numbers true: of a call that overlaps no
  other, the row of the number is the row that was looked up, a page that was read
  is all the rows there are when they fit on one, and a header that was read is
  the header (`Finds`). That a deleted row is gone needs that no row is in a sheet
  twice (`RowsOnce`), which holds because a call writes its row once. `StepTypes`,
  `StepOnce` and `StepSolos` say what any step of a call has to keep of its own for
  the invariant to hold of all.

`ProviderWritesProofs`, on `WriteTranslation` (assumptions: the columns are a list of
names, `_id` among them; the databases are among the eight; a bulk is a list of
items, not empty, and the items of an update have an `_id`; columns, items, their
number and their values arbitrary):

* `ItemsAreStoredWhole`. There is a lemma for the insertion and one for the update of
  each database that builds a statement of its own (`PostgresInsertWrites`,
  `MssqlInsertWrites`, `BigqueryUpdateWrites`...): every placeholder has a value
  (`BindsItems`), and it is the one of its own column in its own item
  (`WritesItems`), on the condition that `StoredWhole` names, if any. Where several
  items share one list of parameters, `FlatPlaces` says where each part of a joined
  list is, and the lemma compares that with the position that the provider counts:
  row times number of columns in Postgres, offsets of equal statements in MySQL, the
  lengths of all statements before in BigQuery. In SQL Server the rows' names are
  merged one row after another, and a value survives if no later name is the same
  (`NamesApart`). `WriteInv` says what a request has become at each phase. The run
  checks `StoredWhole` under a specification that has the queries as well; their
  actions and those of `WriteSpec` are for requests of different kinds.

How the proofs treat lists. The library's induction theorems take a predicate as a
parameter, which the provers used here cannot instantiate. Where a proof needs what
a recursive function over a list computes (`DescriptorStore`, `RowStore`,
`ItemStatements`: `Those`, `Flat` and the merged names of SQL Server), it takes
the set of the numbers for which the claim holds, and shows that it has 0 and, with
each number, the next (`PrefixInduction`, by well-foundedness).

Only model-checked:

* liveness (`EventuallyCoherent`, `RetriesConverge`, `EveryRequestEnds`,
  `CreateAnswered`): fairness and ENABLED are out of the provers' reach;
* `FilterExact`, `PageExact`, `AggregateExact` and `AcceptedRuns`: the modules of
  queries are recursive over conditions nested in conditions, which calls for
  induction over data and for RECURSIVE operators.

## 6. Not modelled

* Airtable, and the reads of Google Sheets (which ignore filters but those on
  `_id`): their services do the work. The text of statements and of column
  definitions: strings; queries are modelled by their conditions and parameters.
* Of queries: aggregations with an order or pages, and orders by more than one field.
* Dates and their formats: the conversions between the texts, `Date` objects and
  types of databases on the way in and out.
* `getById` of the schema-aware service, which no route calls: it does not await
  its `validateProjection`, so a rejection there would be unhandled. It counts
  among the callers of the cache.
* Connections and pools: what the drivers do with them is theirs.
* Logging, configuration, security set-up, testkit, start-up: no state after the
  start, or pure I/O.
* Several adaptor processes share nothing but the database, where the others are
  "somebody else who changes tables" (`SchemaCache`, `DataUnderSchema`).

## 7. Plan

Done, in order: `SchemaCache` and its proofs; `SchemaTypes`, `ColumnTypes`;
`SchemaService` and its first proof; `DescriptorStore`; `DataService` and its
proofs; `DataUnderSchema`; the query translation; `RequestPipeline` and
`ErrorTranslation`; `IndexBuild` with its proof and `RowStore`; the proofs of the
other safety properties, module by module; the writing of items apart from the
queries (`ItemStatements`, `WriteTranslation`), and the proofs about it and about
`ColumnTypes`. To come, most important first:

1. The conversions of dates, as functions with what they lose.
2. Proofs about queries. The conditions would have to be numbered, so that a
   statement is a function on numbers of conditions and what holds of the parts of
   a condition can be carried to it as the proofs do for lists.
