---------------------------- MODULE ErrorTranslation ----------------------------
(***************************************************************************)
(* The way of a failure to the client: the error a database raises, what   *)
(* the provider's exception translator makes of it (a domain error of      *)
(* velo-external-db-commons), and what domainToSpiErrorTranslator makes of *)
(* that (the code and the HTTP status of the answer).                      *)
(*                                                                         *)
(* A database error is what the translators look at: its code, number or   *)
(* name, as text or as a number, which differ for JavaScript's switch, and *)
(* the words of its message they search for. Messages are left out.        *)
(***************************************************************************)
EXTENDS Naturals, Sequences, FiniteSets

Databases == {"postgres", "mysql", "mssql", "spanner", "bigquery", "dynamodb", "mongodb", "firestore"}

\* What can be wrong with a change of a column's type: a row holds a text that is no integer (no other number, no date, no
\* object), or a number the new type has no room for, or the database converts nothing of the one type to the other.
ChangeFailures == {"notAnInteger", "notANumber", "notADate", "notAnObject", "outOfRange", "noCast"}

\* What can be wrong with a call the database gets.
Failures == {"collectionMissing", "itemExists", "fieldExists", "fieldMissing"} \cup ChangeFailures

\* The calls of a provider, and those that meet each failure.
DataCalls == {"find", "count", "insert", "update", "delete", "truncate", "aggregate"}
SchemaCalls == {"addColumn", "removeColumn", "changeColumnType"}
Meets == [failure \in Failures |->
            CASE failure = "collectionMissing" -> DataCalls \cup {"addColumn", "removeColumn"}
              [] failure = "itemExists" -> {"insert"}
              [] failure = "fieldExists" -> {"addColumn"}
              [] failure = "fieldMissing" -> {"removeColumn"}
              [] failure \in ChangeFailures -> {"changeColumnType"}]

Text(code) == <<"text", code>>
Number(code) == <<"number", code>>
Raised(code, words) == [code |-> code, words |-> words]

-----------------------------------------------------------------------------
(* The errors of the databases. A call the database does not refuse (a     *)
(* collection that an insert creates, keys that need not differ) raises no *)
(* error; a provider that finds the fault itself throws the domain error.  *)

NotRaised == Raised(Text("none"), {})
ItselfThrown(name) == Raised(Text("thrown"), {name})

PostgresRaises(failure, call) ==
    Raised(Text(CASE failure = "collectionMissing" -> "42P01" [] failure = "itemExists" -> "23505"
                  [] failure = "fieldExists" -> "42701" [] failure = "fieldMissing" -> "42703"
                  [] failure \in {"notAnInteger", "notANumber", "notAnObject"} -> "22P02"
                  [] failure = "notADate" -> "22007" [] failure = "outOfRange" -> "22003"
                  [] failure = "noCast" -> "42846"), {})

\* MySQL converts every type to every other, row by row.
MysqlRaises(failure, call) ==
    IF failure = "noCast" THEN NotRaised
    ELSE Raised(Text(CASE failure = "collectionMissing" -> "ER_NO_SUCH_TABLE" [] failure = "itemExists" -> "ER_DUP_ENTRY"
                       [] failure = "fieldExists" -> "ER_DUP_FIELDNAME" [] failure = "fieldMissing" -> "ER_CANT_DROP_FIELD_OR_KEY"
                       [] failure = "notAnInteger" -> "ER_TRUNCATED_WRONG_VALUE_FOR_FIELD"
                       [] failure = "notANumber" -> "WARN_DATA_TRUNCATED"
                       [] failure = "notADate" -> "ER_TRUNCATED_WRONG_VALUE"
                       [] failure = "notAnObject" -> "ER_INVALID_JSON_TEXT"
                       [] failure = "outOfRange" -> "ER_WARN_DATA_OUT_OF_RANGE"), {})

\* A statement on rows of a missing table is error 208, an alteration of it error 4902. No column of SQL Server is an object's.
MssqlRaises(failure, call) ==
    IF failure = "notAnObject" THEN NotRaised
    ELSE Raised(Number(CASE failure = "collectionMissing" -> IF call \in SchemaCalls THEN "4902" ELSE "208"
                         [] failure = "itemExists" -> "2627" [] failure = "fieldExists" -> "2705"
                         [] failure = "fieldMissing" -> "4924" [] failure = "notAnInteger" -> "245"
                         [] failure = "notANumber" -> "8114" [] failure = "notADate" -> "241"
                         [] failure = "outOfRange" -> "8115" [] failure = "noCast" -> "206"), {})

\* changeColumnType of Spanner refuses whatever it is asked.
SpannerRaises(failure, call) ==
    CASE failure = "collectionMissing" -> Raised(Number("5"), {"Table"})
      [] failure = "itemExists" -> Raised(Number("6"), {"Row", "alreadyExists"})
      [] failure = "fieldExists" -> Raised(Number("9"), {"column"})
      [] failure = "fieldMissing" -> Raised(Number("5"), {"Column"})
      [] failure \in ChangeFailures -> ItselfThrown("UnsupportedSchemaOperation")

\* BigQuery's errors carry the HTTP status as a number, and its tables have no keys.
BigqueryRaises(failure, call) ==
    CASE failure = "collectionMissing" -> Raised(Number("404"), {"notFoundTable"})
      [] failure = "itemExists" -> NotRaised
      [] failure \in {"fieldExists", "fieldMissing"} -> Raised(Number("400"), {})
      [] failure \in ChangeFailures -> ItselfThrown("Error")

\* The descriptors the three document databases keep: their schema providers look for themselves.
DescriptorRaises(failure) ==
    CASE failure = "collectionMissing" -> ItselfThrown("CollectionDoesNotExists")
      [] failure = "fieldExists" -> ItselfThrown("FieldAlreadyExists")
      [] failure = "fieldMissing" -> ItselfThrown("FieldDoesNotExist")
      [] failure \in ChangeFailures -> NotRaised

DynamoRaises(failure, call) ==
    IF call \in SchemaCalls THEN DescriptorRaises(failure)
    ELSE IF failure = "itemExists" THEN Raised(Text("TransactionCanceledException"), {"ConditionalCheckFailed"})
         ELSE Raised(Text("ResourceNotFoundException"), {})

MongoRaises(failure, call) ==
    IF call \in SchemaCalls THEN DescriptorRaises(failure)
    ELSE IF failure = "itemExists" THEN Raised(Number("11000"), {}) ELSE NotRaised

FirestoreRaises(failure, call) ==
    IF call \in SchemaCalls THEN DescriptorRaises(failure)
    ELSE IF failure = "itemExists" THEN Raised(Number("6"), {}) ELSE NotRaised

Raises(db, failure, call) ==
    CASE db = "postgres" -> PostgresRaises(failure, call) [] db = "mysql" -> MysqlRaises(failure, call)
      [] db = "mssql" -> MssqlRaises(failure, call) [] db = "spanner" -> SpannerRaises(failure, call)
      [] db = "bigquery" -> BigqueryRaises(failure, call) [] db = "dynamodb" -> DynamoRaises(failure, call)
      [] db = "mongodb" -> MongoRaises(failure, call) [] db = "firestore" -> FirestoreRaises(failure, call)

-----------------------------------------------------------------------------
(* The exception translators: from the error to the name of a domain error *)

\* The name whose codes hold that of the error; otherwise an error of no class the core knows.
ByCode(codes, err) ==
    IF \E name \in DOMAIN codes: err.code \in codes[name]
    THEN CHOOSE name \in DOMAIN codes: err.code \in codes[name]
    ELSE "Error"

PostgresError(err) ==
    ByCode([FieldDoesNotExist |-> {Text("42703")}, FieldAlreadyExists |-> {Text("42701")},
            ItemAlreadyExists |-> {Text("23505")}, CollectionDoesNotExists |-> {Text("42P01")},
            DbConnectionError |-> {Text("28P01"), Text("3D000"), Text("ENOTFOUND"), Text("EAI_AGAIN")},
            CollectionChangeNotSupportedError |-> {Text("22P02")}], err)

MysqlError(err) ==
    ByCode([FieldDoesNotExist |-> {Text("ER_CANT_DROP_FIELD_OR_KEY")}, FieldAlreadyExists |-> {Text("ER_DUP_FIELDNAME")},
            CollectionDoesNotExists |-> {Text("ER_NO_SUCH_TABLE")},
            DbConnectionError |-> {Text("ER_DBACCESS_DENIED_ERROR"), Text("ER_BAD_DB_ERROR"), Text("ER_ACCESS_DENIED_ERROR"),
                                   Text("EAI_AGAIN"), Text("ENOTFOUND")},
            ItemAlreadyExists |-> {Text("ER_DUP_ENTRY")},
            CollectionChangeNotSupportedError |-> {Text("ER_TRUNCATED_WRONG_VALUE_FOR_FIELD"), Text("WARN_DATA_TRUNCATED")}], err)

MssqlError(err) ==
    ByCode([CollectionDoesNotExists |-> {Number("4902")}, FieldAlreadyExists |-> {Number("2705")},
            ItemAlreadyExists |-> {Number("2627")}, FieldDoesNotExist |-> {Number("4924")},
            CollectionAlreadyExists |-> {Number("2714")}, CollectionChangeNotSupportedError |-> {Number("8114")},
            DbConnectionError |-> {Text("ELOGIN"), Text("ESOCKET")}], err)

SpannerError(err) ==
    CASE err.code = Number("9") -> IF "column" \in err.words THEN "FieldAlreadyExists" ELSE "CollectionAlreadyExists"
      [] err.code = Number("5") ->
            IF "Column" \in err.words THEN "FieldDoesNotExist"
            ELSE IF err.words \cap {"Instance", "Database"} # {} THEN "DbConnectionError"
            ELSE IF {"Row", "notFound"} \subseteq err.words THEN "ItemDoesNotExists"
            ELSE IF "Table" \in err.words THEN "CollectionDoesNotExists" ELSE "InvalidQuery"
      [] err.code = Number("6") -> IF "alreadyExists" \in err.words THEN "ItemAlreadyExists" ELSE "InvalidQuery"
      [] err.code = Number("7") -> "DbConnectionError"
      [] OTHER -> "Error"

BigqueryError(err, call) ==
    IF call = "addColumn" /\ "notFoundTable" \in err.words THEN "CollectionDoesNotExists"
    ELSE IF call = "addColumn" /\ err.code = Number("400") THEN "FieldAlreadyExists"
    ELSE IF call = "removeColumn" /\ err.code = Number("400") THEN "FieldDoesNotExist"
    ELSE IF err.code = Text("404") THEN "CollectionDoesNotExists" ELSE "Error"

\* A transaction cancelled for another reason goes on to the texts of messages, all of them about the connection.
DynamoError(err) ==
    CASE err.code = Text("ResourceNotFoundException") -> "CollectionDoesNotExists"
      [] err.code \in {Text("CredentialsProviderError"), Text("InvalidSignatureException")} -> "DbConnectionError"
      [] err.code = Text("TransactionCanceledException") /\ "ConditionalCheckFailed" \in err.words -> "ItemAlreadyExists"
      [] OTHER -> "Error"

MongoError(err) == ByCode([ItemAlreadyExists |-> {Number("11000")}], err)

FirestoreError(err) ==
    ByCode([ItemDoesNotExists |-> {Number("5")}, ItemAlreadyExists |-> {Number("6")},
            DbConnectionError |-> {Number("7"), Number("16")}], err)

\* The calls a provider translates the errors of; the error of another call reaches the router as it is.
\* DynamoDB's update has a translator of its own, which reads the reasons of a cancelled transaction.
Catching == [postgres |-> DataCalls \cup SchemaCalls, mysql |-> DataCalls \cup SchemaCalls, mssql |-> DataCalls \cup SchemaCalls,
             spanner |-> {"insert", "update"} \cup SchemaCalls,
             bigquery |-> (DataCalls \ {"count", "insert"}) \cup {"addColumn", "removeColumn"},
             dynamodb |-> {"insert"}, mongodb |-> {"insert"}, firestore |-> {"find", "count", "insert", "update"}]

\* The domain error the provider's call is rejected with.
DomainError(db, failure, call) ==
    LET err == Raises(db, failure, call)
    IN  CASE err.code = Text("thrown") -> CHOOSE name \in err.words: TRUE
          [] err.code # Text("thrown") /\ call \notin Catching[db] -> "Error"
          [] err.code # Text("thrown") /\ call \in Catching[db] ->
                CASE db = "postgres" -> PostgresError(err) [] db = "mysql" -> MysqlError(err)
                  [] db = "mssql" -> MssqlError(err) [] db = "spanner" -> SpannerError(err)
                  [] db = "bigquery" -> BigqueryError(err, call) [] db = "dynamodb" -> DynamoError(err)
                  [] db = "mongodb" -> MongoError(err) [] db = "firestore" -> FirestoreError(err)

-----------------------------------------------------------------------------
\* The classes of velo-external-db-commons that the storage, the services and the middlewares throw.
DomainErrors == {"UnauthorizedError", "CollectionDoesNotExists", "CollectionAlreadyExists", "FieldAlreadyExists", "ItemAlreadyExists",
                 "ItemDoesNotExists", "FieldDoesNotExist", "CannotModifySystemField", "InvalidQuery", "InvalidRequest", "DbConnectionError",
                 "ItemNotFound", "UnsupportedSchemaOperation", "UnsupportedDatabase", "UnrecognizedError",
                 "CollectionChangeNotSupportedError", "IndexAlreadyExists", "IndexDoesNotExist"}

\* The errors of the protocol: their code and their status, which only the unknown one is given.
SpiErrors(status) ==
    [CollectionNotFoundError |-> [code |-> "COLLECTION_NOT_FOUND", status |-> 404],
     CollectionAlreadyExistsError |-> [code |-> "COLLECTION_ALREADY_EXISTS", status |-> 409],
     ItemNotFoundError |-> [code |-> "ITEM_NOT_FOUND", status |-> 404],
     ItemAlreadyExistsError |-> [code |-> "ITEM_ALREADY_EXISTS", status |-> 409],
     CollectionChangeNotSupportedError |-> [code |-> "COLLECTION_CHANGE_NOT_SUPPORTED", status |-> 400],
     UnknownError |-> [code |-> "UNKNOWN_ERROR", status |-> status],
     FieldDoesNotExist |-> [code |-> "FIELD_DOESNT_EXIST", status |-> 400],
     UnauthorizedError |-> [code |-> "UNAUTHORIZED", status |-> 401],
     FieldAlreadyExistsError |-> [code |-> "FIELD_ALREADY_EXISTS", status |-> 409],
     UnsupportedSchemaOperation |-> [code |-> "UNSUPPORTED_OPERATION", status |-> 400]]

SpiClasses == [ItemAlreadyExists |-> "ItemAlreadyExistsError", CollectionDoesNotExists |-> "CollectionNotFoundError",
               FieldAlreadyExists |-> "FieldAlreadyExistsError", FieldDoesNotExist |-> "FieldDoesNotExist",
               UnsupportedSchemaOperation |-> "UnsupportedSchemaOperation", CollectionAlreadyExists |-> "CollectionAlreadyExistsError",
               ItemDoesNotExists |-> "ItemNotFoundError", UnauthorizedError |-> "UnauthorizedError",
               CollectionChangeNotSupportedError |-> "CollectionChangeNotSupportedError"]

(* Mutant: the case of a missing field is forgotten. *)
domainToSpiWithoutField(name, status) ==
    IF name \in DOMAIN SpiClasses \ {"FieldDoesNotExist"} THEN SpiErrors(status)[SpiClasses[name]] ELSE SpiErrors(status).UnknownError

\* The answer for an error: its class decides, and what has no case is an unknown error with the
\* status the error carries, if it does (500 otherwise).
domainToSpiErrorTranslator(name, status) ==
    IF name \in DOMAIN SpiClasses THEN SpiErrors(status)[SpiClasses[name]] ELSE SpiErrors(status).UnknownError

\* The code a client is told for each failure, whatever the database.
Promised == [failure \in Failures |->
               CASE failure = "collectionMissing" -> "COLLECTION_NOT_FOUND"
                 [] failure = "itemExists" -> "ITEM_ALREADY_EXISTS"
                 [] failure = "fieldExists" -> "FIELD_ALREADY_EXISTS"
                 [] failure = "fieldMissing" -> "FIELD_DOESNT_EXIST"
                 [] failure \in ChangeFailures -> "COLLECTION_CHANGE_NOT_SUPPORTED"]

\* The failures some databases do not tell: SQL Server's 208 has no case, BigQuery's 404 is compared with a
\* text, Spanner, BigQuery and DynamoDB leave calls without a translator, two cannot change a column's type, and
\* of the ways a change of type can fail the translators of the other three know few: none knows a text that is no
\* date or a number out of range.
Untold(db, failure, call) ==
    \/ failure \in ChangeFailures /\ db \in {"spanner", "bigquery"}
    \/ failure \in {"notADate", "outOfRange", "noCast"} /\ db = "postgres"
    \/ failure \in {"notADate", "outOfRange", "notAnObject"} /\ db = "mysql"
    \/ failure \in {"notADate", "outOfRange", "noCast", "notAnInteger"} /\ db = "mssql"
    \/ /\ failure = "collectionMissing"
       /\ \/ db = "mssql" /\ call \in DataCalls
          \/ db = "bigquery" /\ call # "addColumn"
          \/ db = "spanner" /\ call \in DataCalls \ {"insert", "update"}
          \/ db = "dynamodb" /\ call \in DataCalls \ {"insert"}
=============================================================================
