--------------------------- MODULE WriteTranslation ---------------------------
(***************************************************************************)
(* The way of the items of an insertion or an update: they are prepared by *)
(* the schema, become the parameters of a statement of one of the          *)
(* databases, and are written there (schema_aware_data.ts, data.ts).       *)
(***************************************************************************)
EXTENDS ItemStatements

CONSTANTS Requests,   \* what clients ask
          Dialects    \* the databases

VARIABLES
    request,    \* what was asked
    dialect,    \* the database it is asked of
    phase,      \* how far it came
    adapter,    \* the request of the adaptor: filters, aggregation or items
    statement,  \* what is sent to the database
    response    \* what came back, or the error

requestVars == <<request, dialect, phase, adapter, statement, response>>

Kinds == {"insert", "update"}

ASSUME DialectsAssumption ==
    Dialects \subseteq {"postgres", "mysql", "mssql", "spanner", "bigquery", "mongo",
                        "dynamodb", "firestore"}

(* There are items, and those of an update say which ones they are.        *)
ASSUME ItemsAssumption ==
    \A r \in Requests : r.kind \in Kinds =>
        /\ r.items \in Seq(ToSet(r.items)) /\ r.items # <<>>
        /\ r.kind = "update" => \A i \in DOMAIN r.items : "_id" \in DOMAIN r.items[i]

Nothing == [of |-> "nothing"]
Failure(name) == [of |-> "error", error |-> name]

Requested ==
    /\ request \in Requests
    /\ dialect \in Dialects
    /\ phase = "asked"
    /\ adapter = Nothing
    /\ statement = Nothing
    /\ response = Nothing

-----------------------------------------------------------------------------
(* SchemaAwareDataService prepares the items by the schema, and nothing    *)
(* checks them.                                                            *)
Prepared(r) ==
    [items |-> [i \in DOMAIN r.items |-> IF r.kind = "insert" THEN prepareForInsert(r.items[i])
                                         ELSE prepareForUpdate(r.items[i])]]

Prepare ==
    /\ phase = "asked"
    /\ request.kind \in Kinds
    /\ adapter' = Prepared(request)
    /\ phase' = "validated"
    /\ UNCHANGED <<request, dialect, statement, response>>

(* The data provider of the database builds the statement.                 *)
Insert(d, items) ==
    CASE d = "postgres"  -> PostgresInsert(items)
      [] d = "mysql"     -> MysqlInsert(items)
      [] d = "mssql"     -> MssqlInsert(items)
      [] d = "spanner"   -> SpannerInsert(items)
      [] d = "bigquery"  -> BigqueryInsert(items)
      [] d = "mongo"     -> insertExpressionFor(items)
      [] d = "dynamodb"  -> DynamoInsert(items)
      [] d = "firestore" -> FirestoreInsert(items)

Update(d, items) ==
    CASE d = "postgres"  -> PostgresUpdate(items)
      [] d = "mysql"     -> MysqlUpdate(items)
      [] d = "mssql"     -> MssqlUpdate(items)
      [] d = "spanner"   -> SpannerUpdate(items)
      [] d = "bigquery"  -> BigqueryUpdate(items)
      [] d = "mongo"     -> updateExpressionFor(items)
      [] d = "dynamodb"  -> DynamoUpdate(items)
      [] d = "firestore" -> FirestoreUpdate(items)

StateWrite ==
    /\ phase = "validated"
    /\ request.kind \in Kinds
    /\ statement' = [writes |-> IF request.kind = "insert" THEN Insert(dialect, adapter.items)
                                ELSE Update(dialect, adapter.items)]
    /\ phase' = "stated"
    /\ UNCHANGED <<request, dialect, adapter, response>>

(* UPDATE with nothing after SET is no statement; the databases that take  *)
(* items as objects do not mind.                                           *)
SetsNothing ==
    /\ request.kind = "update"
    /\ dialect \in {"postgres", "mysql", "mssql", "bigquery", "dynamodb"}
    /\ \E i \in DOMAIN statement.writes : DOMAIN statement.writes[i].cells \subseteq {"_id"}

(* The database.                                                           *)
RunWrite ==
    /\ phase = "stated"
    /\ request.kind \in Kinds
    /\ IF SetsNothing \/ \E i \in DOMAIN statement.writes : Unbound(statement.writes[i])
       THEN phase' = "failed" /\ response' = Failure("refused by the database")
       ELSE /\ phase' = "answered"
            /\ response' = [of |-> "written",
                            items |-> [i \in DOMAIN statement.writes |->
                                          RowWritten(statement.writes[i])]]
    /\ UNCHANGED <<request, dialect, adapter, statement>>

WriteNext == Prepare \/ StateWrite \/ RunWrite

WriteSpec == Requested /\ request.kind \in Kinds /\ [][WriteNext]_requestVars

-----------------------------------------------------------------------------
(* Postgres and MySQL update all items in the fields of the first, and     *)
(* BigQuery leaves a field whose new value is missing as it was.           *)
UpdatesMixed ==
    /\ request.kind = "update"
    /\ \/ dialect \in {"postgres", "mysql"}
          /\ \E i \in DOMAIN adapter.items : DOMAIN adapter.items[i] # DOMAIN adapter.items[1]
       \/ dialect = "bigquery"
          /\ \E i \in DOMAIN adapter.items : \E c \in DOMAIN adapter.items[i] :
                 isNull(adapter.items[i][c])

(* The names of SQL Server's bulk insert: a1 in row 1 and a in row 11 are  *)
(* the same, and so are xa1 in row 0 and a in row 1.                       *)
SqlServerName(c, i) == IF i = 0 THEN c ELSE "x" \o c \o ToString(i)

InsertsMixed ==
    /\ request.kind = "insert"
    /\ dialect = "mssql"
    /\ \E i, j \in DOMAIN request.items, c, d \in ToSet(Columns) :
           /\ i # j \/ c # d
           /\ SqlServerName(c, i - 1) = SqlServerName(d, j - 1)

(* Every item is written, no placeholder of a statement being without its  *)
(* value, and is written as the client sent it: each column gets the value *)
(* of its own field in its own item, in the fields that were sent and no   *)
(* other.  Inserting gives the others a default, and a falsy value as well.*)
StoredWhole ==
    /\ phase = "failed" /\ request.kind \in Kinds => SetsNothing
    /\ phase = "answered" /\ request.kind \in Kinds /\ ~UpdatesMixed /\ ~InsertsMixed
       => /\ Len(response.items) = Len(request.items)
          /\ \A i \in DOMAIN request.items :
                 LET sent   == request.items[i]
                     stored == response.items[i]
                     kept   == {c \in DOMAIN sent \cap ToSet(Columns) :
                                   request.kind = "update" \/ ~Falsy(sent[c])}
                 IN /\ \A c \in kept : c \in DOMAIN stored /\ stored[c] = sent[c]
                    /\ request.kind = "insert" =>
                          /\ DOMAIN stored = ToSet(Columns)
                          /\ ~isNull(stored["_id"])
                    /\ request.kind = "update" => DOMAIN stored = kept
==============================================================================
