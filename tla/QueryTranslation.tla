---------------------------- MODULE QueryTranslation ----------------------------
(***************************************************************************)
(* The way of a data request: it is transformed for the adaptor, validated *)
(* against the schema, turned into a statement of one of the databases and *)
(* run there.                                                              *)
(***************************************************************************)
EXTENDS SqlStatements, WriteTranslation

CONSTANT Types   \* the types of the columns

Postgres  == INSTANCE PostgresQueries
Mysql     == INSTANCE MysqlQueries
Mssql     == INSTANCE MssqlQueries
Spanner   == INSTANCE SpannerQueries
Bigquery  == INSTANCE BigqueryQueries
Mongo     == INSTANCE MongoQueries
Dynamo    == INSTANCE DynamoQueries
Firestore == INSTANCE FirestoreQueries

Init == Requested /\ (request.kind = "aggregate" => dialect # "dynamodb")

-----------------------------------------------------------------------------
(* The routes find, count and aggregate of the router, up to the call of   *)
(* the service: the conversions of the request.                            *)
Adapted(r) ==
    CASE r.kind \in {"find", "count"} ->
             [filter |-> transformFilter(r.filter)]
      [] r.kind = "aggregate" ->
             [filter      |-> transformFilter(r.filter),
              aggregation |-> transformAggregation(r.aggregation, r.finalFilter)]

Unrecognized(a) ==
    \E f \in Leaves(a.filter) : f.operator = "unrecognized"

Transform ==
    /\ phase = "asked"
    /\ request.kind \notin Kinds
    /\ adapter' = Adapted(request)
    /\ IF Unrecognized(adapter')
       THEN phase' = "refused" /\ response' = Failure("InvalidQuery")
       ELSE phase' = "transformed" /\ response' = response
    /\ UNCHANGED <<request, dialect, statement>>

(* SchemaAwareDataService validates the aggregation before the filter, and *)
(* the projection after it.                                                *)
Validated(r, a) ==
    LET filtered == validateFilter(Types, a.filter)
    IN CASE r.kind = "count" -> filtered
         [] r.kind = "find"  ->
                IF filtered # "ok" THEN filtered ELSE validateFieldsExist(Types, ToSet(r.projection))
         [] r.kind = "aggregate" ->
                LET grouped == validateAggregation(Types, a.aggregation)
                IN IF grouped # "ok" THEN grouped ELSE filtered

Validate ==
    /\ phase = "transformed"
    /\ LET verdict == Validated(request, adapter)
       IN IF verdict = "ok"
          THEN phase' = "validated" /\ response' = response
          ELSE phase' = "refused" /\ response' = Failure(verdict)
    /\ UNCHANGED <<request, dialect, adapter, statement>>

-----------------------------------------------------------------------------
(* The data provider of the database builds the statement.                 *)

Find(f, r) ==
    CASE dialect = "postgres"  -> Postgres!find(f, r.sort, r.skip, r.limit)
      [] dialect = "mysql"     -> Mysql!find(f, r.sort, r.skip, r.limit)
      [] dialect = "mssql"     -> Mssql!find(f, r.sort, r.skip, r.limit)
      [] dialect = "spanner"   -> Spanner!find(f, r.sort, r.skip, r.limit)
      [] dialect = "bigquery"  -> Bigquery!find(f, r.sort, r.skip, r.limit)
      [] dialect = "mongo"     -> Mongo!find(f, r.sort, r.skip, r.limit)
      [] dialect = "dynamodb"  -> Dynamo!find(f, r.limit, r.projection)
      [] dialect = "firestore" -> Firestore!find(f, r.sort, r.skip, r.limit)

Count(f) ==
    CASE dialect = "postgres"  -> Postgres!count(f)
      [] dialect = "mysql"     -> Mysql!count(f)
      [] dialect = "mssql"     -> Mssql!count(f)
      [] dialect = "spanner"   -> Spanner!count(f)
      [] dialect = "bigquery"  -> Bigquery!count(f)
      [] dialect = "mongo"     -> Mongo!count(f)
      [] dialect = "dynamodb"  -> Dynamo!count(f)
      [] dialect = "firestore" -> Firestore!count(f)

(* DynamoDB has no aggregate at all.                                       *)
Aggregate(f, a, r) ==
    CASE dialect = "postgres"  -> Postgres!aggregate(f, a, r.sort, r.skip, r.limit)
      [] dialect = "mysql"     -> Mysql!aggregate(f, a, r.sort, r.skip, r.limit)
      [] dialect = "mssql"     -> Mssql!aggregate(f, a, r.sort, r.skip, r.limit)
      [] dialect = "spanner"   -> Spanner!aggregate(f, a, r.sort, r.skip, r.limit)
      [] dialect = "bigquery"  -> Bigquery!aggregate(f, a, r.sort, r.skip, r.limit)
      [] dialect = "mongo"     -> Mongo!aggregate(f, a, r.sort, r.skip, r.limit)
      [] dialect = "firestore" -> Firestore!aggregate

StateQuery ==
    /\ phase = "validated"
    /\ request.kind \in {"find", "count", "aggregate"}
    /\ statement' = CASE request.kind = "find"      -> Find(adapter.filter, request)
                      [] request.kind = "count"     -> Count(adapter.filter)
                      [] request.kind = "aggregate" ->
                             Aggregate(adapter.filter, adapter.aggregation, request)
    /\ IF Thrown(statement')
       THEN phase' = "thrown" /\ response' = Failure("thrown")
       ELSE phase' = "stated" /\ response' = response
    /\ UNCHANGED <<request, dialect, adapter>>

-----------------------------------------------------------------------------
(* The database *)

Refuses ==
    CASE dialect = "postgres"  -> Postgres!PostgresRefuses(statement)
      [] dialect = "mssql"     -> Mssql!MssqlRefuses(statement)
      [] dialect = "bigquery"  -> Bigquery!BigqueryRefuses(statement)
      [] dialect = "mongo"     -> Mongo!MongoRefuses(statement)
      [] dialect = "dynamodb"  -> Dynamo!DynamoRefuses(statement)
      [] dialect = "firestore" -> Firestore!FirestoreRefuses(statement)
      [] OTHER                 -> Refused(statement)

RowsAnswered ==
    CASE dialect = "mongo"     -> Mongo!MongoAnswered(statement)
      [] dialect = "dynamodb"  -> Dynamo!DynamoAnswered(statement)
      [] dialect = "firestore" -> Firestore!FirestoreAnswered(statement)
      [] OTHER                 -> Answered(statement)

GroupsAnswered ==
    IF dialect = "mongo" THEN Mongo!MongoAnsweredGroups(statement) ELSE AnsweredGroups(statement)

RunQuery ==
    /\ phase = "stated"
    /\ request.kind \in {"find", "count", "aggregate"}
    /\ IF Refuses
       THEN phase' = "failed" /\ response' = Failure("refused by the database")
       ELSE /\ phase' = "answered"
            /\ response' = IF request.kind = "aggregate"
                         THEN [of |-> "groups", groups |-> GroupsAnswered]
                         ELSE [of |-> "rows", rows |-> RowsAnswered]
    /\ UNCHANGED <<request, dialect, adapter, statement>>

Next == Transform \/ Validate \/ StateQuery \/ RunQuery \/ WriteNext

Spec == Init /\ [][Next]_requestVars

-----------------------------------------------------------------------------
(* Where the translation is known to lose its way.  SQL Server, Spanner and*)
(* DynamoDB name a value after its field and a number, so that two values  *)
(* get one name: a1 with 0 and a with 10, or WHERE and HAVING, which both  *)
(* count from zero.                                                        *)
SharesParameter ==
    /\ dialect \in {"mssql", "spanner", "dynamodb"}
    /\ statement # Nothing
    /\ LET refs == AllRefs(statement) IN Cardinality(ToSet(refs)) < Len(refs)

(* DynamoDB and Firestore drop $matches, and answer as if nothing had been *)
(* asked; SQL Server searches with LIKE, which takes the whole text.       *)
Asked == {adapter.filter}
         \cup (IF request.kind = "aggregate" THEN {adapter.aggregation.postFilter} ELSE {})

LosesMatches ==
    /\ dialect \in {"dynamodb", "firestore", "mssql"}
    /\ \E f \in UNION {Leaves(g) : g \in Asked} : f.operator = "matches"

(* In DynamoDB the names of a projection, which bear no number, take over  *)
(* those of the filter; and the number behind a nested attribute is taken  *)
(* for one digit.                                                          *)
SharesAttribute ==
    /\ dialect = "dynamodb"
    /\ \/ /\ request.kind = "find"
          /\ \E f \in Leaves(adapter.filter), i \in DOMAIN request.projection, k \in 0 .. 20 :
                 request.projection[i] = Head(f.fieldName) \o ToString(k)
       \/ /\ Cardinality(Leaves(adapter.filter)) > 10
          /\ \E f \in Leaves(adapter.filter) : Len(f.fieldName) > 1

Certain  == {r \in ToSet(Rows) : Meaning(request.filter, r) = True}
Possible == {r \in ToSet(Rows) : Meaning(request.filter, r) # False}

Page(rows) == SubSeq(rows, Head(request.skip) + 1,
                     Min({Len(rows), Head(request.skip) + Head(request.limit)}))

(* Every database answers a filter with the rows that Wix means by it, and *)
(* with no other: whatever the statement looks like, its placeholders find *)
(* their own values.  Rows where a missing value decides are up to it, and *)
(* a page may leave rows out.                                              *)
FilterExact ==
    phase = "answered" /\ request.kind \in {"find", "count"}
        /\ ~SharesParameter /\ ~SharesAttribute /\ ~LosesMatches
    => /\ ToSet(response.rows) \subseteq Possible
       /\ request.kind = "count" => Certain \subseteq ToSet(response.rows)

(* What find answers in an order is the page asked for of all rows that    *)
(* match in that order.  SQL Server leaves the limit out unless rows are   *)
(* skipped, and DynamoDB scans as many rows as the limit says.             *)
PageExact ==
    phase = "answered" /\ request.kind = "find" /\ request.sort # <<>> /\ Certain = Possible
        /\ ~SharesParameter /\ ~LosesMatches
        /\ dialect # "dynamodb" /\ (dialect = "mssql" => request.skip # Zero)
    => response.rows = Page(Ordered(SelectSeq(Rows, LAMBDA r : r \in Certain),
                                  [i \in DOMAIN request.sort |->
                                      [on   |-> <<request.sort[i].fieldName>>,
                                       desc |-> request.sort[i].direction = "desc"]]))

(* The groups of the rows that match, with what was to be computed.        *)
GroupMeant(group) ==
    [c \in {<<g>> : g \in ToSet(request.aggregation.groupingFields)} |-> group[1][c]]
    @@ [a \in {<<o.resultFieldName>> : o \in ToSet(request.aggregation.operations)} |->
           LET o == CHOOSE o \in ToSet(request.aggregation.operations) : <<o.resultFieldName>> = a
           IN Apply(SqlFunctions[AdapterFunctions[o.calculate]], <<o.itemFieldName>>, group)]

GroupsMeant ==
    LET matching == SelectSeq(Rows, LAMBDA r : r \in Certain)
        columns  == [i \in DOMAIN request.aggregation.groupingFields |->
                        <<request.aggregation.groupingFields[i]>>]
    IN {GroupMeant(g) : g \in GroupsOf(matching, columns)}

(* MongoDB looks for a grouping field in the wrong place after grouping.   *)
FiltersOnGroup ==
    /\ dialect = "mongo"
    /\ \E f \in Leaves(adapter.aggregation.postFilter) :
           Head(f.fieldName) \in ToSet(request.aggregation.groupingFields)

(* An aggregation answers the groups of the rows that match the filter     *)
(* whose results match the final filter, with their results.               *)
AggregateExact ==
    phase = "answered" /\ request.kind = "aggregate" /\ Certain = Possible
        /\ ~SharesParameter /\ ~FiltersOnGroup /\ ~LosesMatches
        /\ (\A g \in GroupsMeant : Meaning(request.finalFilter, g) # Unknown)
    => response.groups = {g \in GroupsMeant : Meaning(request.finalFilter, g) = True}

(* What no dialect, or not this one, can say; all else that was validated  *)
(* is answered.                                                            *)
Sayable ==
    LET leaves  == UNION {Leaves(f) : f \in Asked}
        aliases == {<<o.resultFieldName>> : o \in ToSet(request.aggregation.operations)}
    IN /\ \A f \in Asked : ~HasEmptyPart(f)
       /\ \A f \in leaves : f.value = <<Null>> => f.operator \in {"eq", "ne"}
       /\ \A f \in leaves : f.value # <<>>
       /\ \A f \in leaves : Len(f.fieldName) > 1 =>
              /\ dialect # "mssql"
              /\ \/ f.operator \notin {"contains", "begins", "ends", "matches"}
                 \/ dialect \in {"mongo", "firestore"}
              /\ f.operator = "in" => dialect # "dynamodb"
       /\ dialect = "dynamodb" =>
              \A f \in leaves : /\ f.operator # "ends"
                                /\ f.operator = "matches" => adapter.filter = f
                                /\ f.fieldName = <<"_id">> => f.value # <<Null>>
       /\ dialect \in {"postgres", "mssql", "spanner"} /\ request.kind = "aggregate" =>
              \A f \in leaves : f.operator = "matches" => f.fieldName \notin aliases
       /\ dialect = "firestore" =>
              /\ request.kind # "aggregate"
              /\ request.filter \in {WixEmpty} \/ adapter.filter \in leaves
              /\ \A f \in leaves : f.operator \notin {"contains", "ends"} /\ f.value # <<Null>>
              /\ request.kind = "find" => request.sort = <<>>
       /\ dialect = "mssql" /\ request.kind # "count" /\ request.skip # Zero => request.sort # <<>>

(* A query that passed the validator is a statement that the database      *)
(* takes: no placeholder without its value or value without a placeholder, *)
(* no text that cannot be parsed, nothing thrown on the way.               *)
AcceptedRuns ==
    request.kind \in {"find", "count", "aggregate"} /\ phase \in {"thrown", "failed"} => ~Sayable
==============================================================================
