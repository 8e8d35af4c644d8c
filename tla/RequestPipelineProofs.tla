------------------------- MODULE RequestPipelineProofs -------------------------
(***************************************************************************)
(* Proofs about the router: for any requests, connections, routes, tables  *)
(* of hooks and databases. The properties of RequestPipeline say what has  *)
(* become of a request when it is over; to follow from a step they need    *)
(* what holds of it on the way: which hooks are left, that nothing has     *)
(* been done in the stage before the operation, that it was let in, and    *)
(* which tables it may have used (UnderWay and TablesKnown). A request     *)
(* is moved by its own steps, and by those of others only when its         *)
(* connection or the process is lost while it waits (Bystander), which     *)
(* leaves all but its answer alone.                                        *)
(*                                                                         *)
(* What a failure is called is a fact about the translators of the eight   *)
(* databases and comes first: FailureTold, database by database.           *)
(***************************************************************************)
EXTENDS RequestPipeline, FiniteSetTheorems, SequenceTheorems, TLAPS

-----------------------------------------------------------------------------
(* The translation of errors *)

(* A code that one name has is translated to that name.                    *)
LEMMA ByCodeOne ==
    ASSUME NEW codes, NEW err, NEW name \in DOMAIN codes, err.code \in codes[name],
           \A other \in DOMAIN codes : err.code \in codes[other] => other = name
    PROVE  ByCode(codes, err) = name
BY DEF ByCode

LEMMA ByCodeNone ==
    ASSUME NEW codes, NEW err, \A name \in DOMAIN codes : err.code \notin codes[name]
    PROVE  ByCode(codes, err) = "Error"
BY DEF ByCode

(* The domain error of each failure.                                       *)
Named == [failure \in Failures |->
            CASE failure = "collectionMissing" -> "CollectionDoesNotExists"
              [] failure = "itemExists" -> "ItemAlreadyExists"
              [] failure = "fieldExists" -> "FieldAlreadyExists"
              [] failure = "fieldMissing" -> "FieldDoesNotExist"
              [] failure \in ChangeFailures -> "CollectionChangeNotSupportedError"]

Told(store, failure, call) ==
    IF Untold(store, failure, call) THEN DomainError(store, failure, call) \in DomainErrors \cup {"Error"}
                                    ELSE DomainError(store, failure, call) = Named[failure]

(* The three databases whose schema providers translate every error: what  *)
(* is told is what their tables of codes know.                             *)
LEMMA PostgresTells ==
    ASSUME NEW failure \in Failures, NEW call \in Meets[failure]
    PROVE  Told("postgres", failure, call)
<1>1. call \in Catching["postgres"]
  BY DEF Meets, Failures, ChangeFailures, Catching, DataCalls, SchemaCalls
<1>2. DomainError("postgres", failure, call) = PostgresError(PostgresRaises(failure, call))
  BY <1>1 DEF DomainError, Raises, PostgresRaises, Failures, ChangeFailures, Raised, Text
<1>3. CASE failure \in {"notADate", "outOfRange", "noCast"}
  <2>1. PostgresError(PostgresRaises(failure, call)) = "Error"
    BY <1>3, ByCodeNone DEF PostgresError, PostgresRaises, Raised, Text
  <2> QED BY <1>2, <1>3, <2>1 DEF Told, Untold
<1>4. CASE failure \notin {"notADate", "outOfRange", "noCast"}
  <2>1. PostgresError(PostgresRaises(failure, call)) = Named[failure]
    BY <1>4, ByCodeOne DEF PostgresError, PostgresRaises, Raised, Text, Failures, ChangeFailures, Named
  <2>2. ~ Untold("postgres", failure, call)
    BY <1>4 DEF Untold
  <2> QED BY <1>2, <2>1, <2>2 DEF Told
<1> QED BY <1>3, <1>4

LEMMA MysqlTells ==
    ASSUME NEW failure \in Failures, NEW call \in Meets[failure], Raises("mysql", failure, call) # NotRaised
    PROVE  Told("mysql", failure, call)
<1>1. call \in Catching["mysql"]
  BY DEF Meets, Failures, ChangeFailures, Catching, DataCalls, SchemaCalls
<1>2. failure # "noCast"
  BY DEF Raises, MysqlRaises
<1>3. DomainError("mysql", failure, call) = MysqlError(MysqlRaises(failure, call))
  BY <1>1, <1>2 DEF DomainError, Raises, MysqlRaises, Failures, ChangeFailures, Raised, Text
<1>4. CASE failure \in {"notADate", "outOfRange", "notAnObject"}
  <2>1. MysqlError(MysqlRaises(failure, call)) = "Error"
    BY <1>4, ByCodeNone DEF MysqlError, MysqlRaises, Raised, Text
  <2> QED BY <1>3, <1>4, <2>1 DEF Told, Untold
<1>5. CASE failure \notin {"notADate", "outOfRange", "notAnObject"}
  <2>1. MysqlError(MysqlRaises(failure, call)) = Named[failure]
    BY <1>2, <1>5, ByCodeOne DEF MysqlError, MysqlRaises, Raised, Text, Failures, ChangeFailures, Named
  <2>2. ~ Untold("mysql", failure, call)
    BY <1>5 DEF Untold
  <2> QED BY <1>3, <2>1, <2>2 DEF Told
<1> QED BY <1>4, <1>5

LEMMA MssqlTells ==
    ASSUME NEW failure \in Failures, NEW call \in Meets[failure], Raises("mssql", failure, call) # NotRaised
    PROVE  Told("mssql", failure, call)
<1> DEFINE Unknown == \/ failure = "collectionMissing" /\ call \in DataCalls
                      \/ failure \in {"notADate", "outOfRange", "noCast", "notAnInteger"}
<1>1. call \in Catching["mssql"]
  BY DEF Meets, Failures, ChangeFailures, Catching, DataCalls, SchemaCalls
<1>2. failure # "notAnObject"
  BY DEF Raises, MssqlRaises
<1>3. DomainError("mssql", failure, call) = MssqlError(MssqlRaises(failure, call))
  BY <1>1, <1>2 DEF DomainError, Raises, MssqlRaises, Failures, ChangeFailures, Raised, Text, Number
<1>4. CASE Unknown
  <2>1. MssqlError(MssqlRaises(failure, call)) = "Error"
    BY <1>4, ByCodeNone DEF MssqlError, MssqlRaises, Raised, Text, Number, DataCalls, SchemaCalls
  <2> QED BY <1>3, <1>4, <2>1 DEF Told, Untold
<1>5. CASE ~ Unknown
  <2>1. MssqlError(MssqlRaises(failure, call)) = Named[failure]
    BY <1>2, <1>5, ByCodeOne DEF MssqlError, MssqlRaises, Raised, Text, Number, Failures, ChangeFailures, Named, Meets, SchemaCalls
  <2>2. ~ Untold("mssql", failure, call)
    BY <1>5 DEF Untold
  <2> QED BY <1>3, <2>1, <2>2 DEF Told
<1> QED BY <1>4, <1>5

LEMMA SpannerTells ==
    ASSUME NEW failure \in Failures, NEW call \in Meets[failure]
    PROVE  Told("spanner", failure, call)
<1>1. CASE failure \in ChangeFailures
  <2>1. DomainError("spanner", failure, call) = "UnsupportedSchemaOperation"
    BY <1>1 DEF DomainError, Raises, SpannerRaises, ItselfThrown, Raised, Text, ChangeFailures
  <2> QED BY <1>1, <2>1 DEF Told, Untold, DomainErrors, ChangeFailures
<1>2. CASE failure \notin ChangeFailures /\ call \notin Catching["spanner"]
  <2>1. DomainError("spanner", failure, call) = "Error"
    BY <1>2 DEF DomainError, Raises, SpannerRaises, Raised, Text, Number, Failures, ChangeFailures
  <2>2. failure = "collectionMissing" /\ call \in DataCalls \ {"insert", "update"}
    BY <1>2 DEF Catching, Meets, Failures, DataCalls, SchemaCalls, ChangeFailures
  <2> QED BY <2>1, <2>2 DEF Told, Untold, ChangeFailures
<1>3. CASE failure \notin ChangeFailures /\ call \in Catching["spanner"]
  <2>1. DomainError("spanner", failure, call) = SpannerError(SpannerRaises(failure, call))
    BY <1>3 DEF DomainError, Raises, SpannerRaises, Raised, Text, Number, Failures, ChangeFailures
  <2>2. SpannerError(SpannerRaises(failure, call)) = Named[failure]
    <3>1. CASE failure = "collectionMissing"
      BY <3>1 DEF SpannerError, SpannerRaises, Raised, Number, Named, ChangeFailures
    <3>2. CASE failure = "itemExists"
      BY <3>2 DEF SpannerError, SpannerRaises, Raised, Number, Named, ChangeFailures
    <3>3. CASE failure = "fieldExists"
      BY <3>3 DEF SpannerError, SpannerRaises, Raised, Number, Named, ChangeFailures
    <3>4. CASE failure = "fieldMissing"
      BY <3>4 DEF SpannerError, SpannerRaises, Raised, Number, Named, ChangeFailures
    <3> QED BY <1>3, <3>1, <3>2, <3>3, <3>4 DEF Failures, ChangeFailures
  <2>3. ~ Untold("spanner", failure, call)
    BY <1>3 DEF Untold, Catching, DataCalls, SchemaCalls, ChangeFailures
  <2> QED BY <2>1, <2>2, <2>3 DEF Told
<1> QED BY <1>1, <1>2, <1>3

LEMMA Bigquery400 ==
    ASSUME NEW err, err.code = Number("400"), "notFoundTable" \notin err.words
    PROVE  /\ BigqueryError(err, "addColumn") = "FieldAlreadyExists"
           /\ BigqueryError(err, "removeColumn") = "FieldDoesNotExist"
BY DEF BigqueryError

LEMMA BigqueryTells ==
    ASSUME NEW failure \in Failures, NEW call \in Meets[failure],
           Raises("bigquery", failure, call) # NotRaised
    PROVE  Told("bigquery", failure, call)
<1>0. failure # "itemExists"
  BY DEF Raises, BigqueryRaises, ChangeFailures
<1>1. CASE failure \in ChangeFailures
  <2>1. DomainError("bigquery", failure, call) = "Error"
    BY <1>1 DEF DomainError, Raises, BigqueryRaises, ItselfThrown, Raised, Text, ChangeFailures
  <2> QED BY <1>1, <2>1 DEF Told, Untold, ChangeFailures
<1>2. CASE failure = "collectionMissing"
  <2>1. CASE call = "addColumn"
    <3>1. DomainError("bigquery", failure, call) = BigqueryError(BigqueryRaises(failure, call), call)
      BY <1>2, <2>1 DEF DomainError, Raises, BigqueryRaises, Raised, Text, Number, Catching, ChangeFailures
    <3>2. BigqueryError(BigqueryRaises(failure, call), call) = "CollectionDoesNotExists"
      BY <1>2, <2>1 DEF BigqueryError, BigqueryRaises, Raised, ChangeFailures
    <3>3. ~ Untold("bigquery", failure, call)
      BY <1>2, <2>1 DEF Untold, ChangeFailures
    <3> QED BY <1>2, <3>1, <3>2, <3>3 DEF Told, Named, ChangeFailures
  <2>2. CASE call # "addColumn"
    <3>1. DomainError("bigquery", failure, call) = "Error"
      BY <1>2, <2>2 DEF DomainError, Raises, BigqueryRaises, BigqueryError, Raised, Text, Number, ChangeFailures,
                        Meets
    <3> QED BY <1>2, <2>2, <3>1 DEF Told, Untold, ChangeFailures
  <2> QED BY <2>1, <2>2
<1>3. CASE failure \in {"fieldExists", "fieldMissing"}
  <2>1. call = (IF failure = "fieldExists" THEN "addColumn" ELSE "removeColumn")
    BY <1>3 DEF Meets, ChangeFailures
  <2>2. DomainError("bigquery", failure, call) = BigqueryError(BigqueryRaises(failure, call), call)
    BY <1>3, <2>1 DEF DomainError, Raises, BigqueryRaises, Raised, Text, Number, Catching, ChangeFailures
  <2>3. BigqueryRaises(failure, call) = Raised(Number("400"), {})
    BY <1>3 DEF BigqueryRaises, ChangeFailures
  <2>4. BigqueryError(BigqueryRaises(failure, call), call) = Named[failure]
    <3>1. Raised(Number("400"), {}).code = Number("400") /\ Raised(Number("400"), {}).words = {}
      BY DEF Raised
    <3>2. /\ BigqueryError(Raised(Number("400"), {}), "addColumn") = "FieldAlreadyExists"
          /\ BigqueryError(Raised(Number("400"), {}), "removeColumn") = "FieldDoesNotExist"
      BY <3>1, Bigquery400
    <3> QED BY <1>3, <2>1, <2>3, <3>2 DEF Named, ChangeFailures
  <2>5. ~ Untold("bigquery", failure, call)
    BY <1>3 DEF Untold, ChangeFailures
  <2> QED BY <2>2, <2>4, <2>5 DEF Told
<1> QED BY <1>0, <1>1, <1>2, <1>3 DEF Failures, ChangeFailures

(* The documents' providers find missing and present columns themselves.   *)
LEMMA DescriptorTells ==
    ASSUME NEW store \in {"dynamodb", "mongodb", "firestore"}, NEW failure \in Failures,
           NEW call \in Meets[failure], Raises(store, failure, call) # NotRaised,
           call \in SchemaCalls
    PROVE  Told(store, failure, call)
<1>1. Raises(store, failure, call) = DescriptorRaises(failure)
  BY DEF Raises, DynamoRaises, MongoRaises, FirestoreRaises, ChangeFailures
<1>2. failure \in {"collectionMissing", "fieldExists", "fieldMissing"}
  BY <1>1 DEF DescriptorRaises, Failures, Meets, SchemaCalls, ChangeFailures
<1>3. DescriptorRaises(failure) = ItselfThrown(Named[failure])
  BY <1>2 DEF DescriptorRaises, Named, ChangeFailures
<1>4. DomainError(store, failure, call) = Named[failure]
  BY <1>1, <1>3 DEF DomainError, ItselfThrown, Raised, Text
<1>5. ~ Untold(store, failure, call)
  BY DEF Untold, DataCalls, SchemaCalls, ChangeFailures
<1> QED BY <1>4, <1>5 DEF Told

LEMMA DynamoTells ==
    ASSUME NEW failure \in Failures, NEW call \in Meets[failure], call \notin SchemaCalls
    PROVE  Told("dynamodb", failure, call)
<1>1. Raises("dynamodb", failure, call) = DynamoRaises(failure, call)
  BY DEF Raises, ChangeFailures
<1>2. failure \in {"collectionMissing", "itemExists"} /\ call \in DataCalls
  BY DEF Failures, Meets, SchemaCalls, DataCalls, ChangeFailures
<1>3. CASE call = "insert"
  <2>1. DomainError("dynamodb", failure, call) = DynamoError(DynamoRaises(failure, call))
    BY <1>1, <1>2, <1>3 DEF DomainError, DynamoRaises, SchemaCalls, Raised, Text, Catching, ChangeFailures
  <2>2. DynamoError(DynamoRaises(failure, call)) = Named[failure]
    BY <1>2, <1>3 DEF DynamoError, DynamoRaises, SchemaCalls, Raised, Text, Named, ChangeFailures
  <2>3. ~ Untold("dynamodb", failure, call)
    BY <1>3 DEF Untold, ChangeFailures
  <2> QED BY <2>1, <2>2, <2>3 DEF Told
<1>4. CASE call # "insert"
  <2>1. failure = "collectionMissing"
    BY <1>2, <1>4 DEF Meets, ChangeFailures
  <2>2. DomainError("dynamodb", failure, call) = "Error"
    BY <1>1, <1>2, <1>4, <2>1 DEF DomainError, DynamoRaises, SchemaCalls, Raised, Text, Catching, ChangeFailures
  <2> QED BY <1>2, <1>4, <2>1, <2>2 DEF Told, Untold, ChangeFailures
<1> QED BY <1>3, <1>4

LEMMA MongoTells ==
    ASSUME NEW failure \in Failures, NEW call \in Meets[failure], call \notin SchemaCalls,
           Raises("mongodb", failure, call) # NotRaised
    PROVE  DomainError("mongodb", failure, call) = Named[failure]
<1>1. failure = "itemExists" /\ call = "insert"
  BY DEF Raises, MongoRaises, Meets, ChangeFailures
<1>2. Raises("mongodb", failure, call) = Raised(Number("11000"), {})
  BY <1>1 DEF Raises, MongoRaises, SchemaCalls, ChangeFailures
<1>3. DomainError("mongodb", failure, call) = MongoError(Raised(Number("11000"), {}))
  BY <1>1, <1>2 DEF DomainError, Raised, Text, Number, Catching
<1>4. MongoError(Raised(Number("11000"), {})) = "ItemAlreadyExists"
  BY ByCodeOne DEF MongoError, Raised, Number
<1> QED BY <1>1, <1>3, <1>4 DEF Named, ChangeFailures

LEMMA FirestoreTells ==
    ASSUME NEW failure \in Failures, NEW call \in Meets[failure], call \notin SchemaCalls,
           Raises("firestore", failure, call) # NotRaised
    PROVE  DomainError("firestore", failure, call) = Named[failure]
<1>1. failure = "itemExists" /\ call = "insert"
  BY DEF Raises, FirestoreRaises, Meets, ChangeFailures
<1>2. Raises("firestore", failure, call) = Raised(Number("6"), {})
  BY <1>1 DEF Raises, FirestoreRaises, SchemaCalls, ChangeFailures
<1>3. DomainError("firestore", failure, call) = FirestoreError(Raised(Number("6"), {}))
  BY <1>1, <1>2 DEF DomainError, Raised, Text, Number, Catching
<1>4. FirestoreError(Raised(Number("6"), {})) = "ItemAlreadyExists"
  BY ByCodeOne DEF FirestoreError, Raised, Number
<1> QED BY <1>1, <1>3, <1>4 DEF Named, ChangeFailures

(* Every database tells every failure by its name, but for those of Untold.*)
LEMMA FailureTold ==
    ASSUME NEW store \in Databases, NEW failure \in Failures, NEW call \in Meets[failure],
           Raises(store, failure, call) # NotRaised
    PROVE  Told(store, failure, call)
<1>1. CASE store \in {"mongodb", "firestore"} /\ call \notin SchemaCalls
  <2>1. ~ Untold(store, failure, call)
    BY <1>1 DEF Untold, ChangeFailures
  <2> QED BY <1>1, <2>1, MongoTells, FirestoreTells DEF Told
<1> QED BY <1>1, PostgresTells, MysqlTells, MssqlTells, SpannerTells, BigqueryTells, DynamoTells, DescriptorTells
        DEF Databases

(* The protocol's error for a domain error: none of the answers that are   *)
(* not errors, and for a failure that is told the code that was promised.  *)
LEMMA TranslatedIsError ==
    ASSUME NEW name, NEW status
    PROVE  domainToSpiErrorTranslator(name, status) \notin {NoAnswer, Done, TimedOut, Reset}
<1>1. \A class \in DOMAIN SpiErrors(status) :
         SpiErrors(status)[class].code \notin {"none", "ok", "timeout", "reset"}
  BY DEF SpiErrors
<1>2. \A class \in DOMAIN SpiClasses : SpiClasses[class] \in DOMAIN SpiErrors(status)
  BY DEF SpiErrors, SpiClasses
<1>3. \E class \in DOMAIN SpiErrors(status) :
         domainToSpiErrorTranslator(name, status) = SpiErrors(status)[class]
  BY <1>2 DEF domainToSpiErrorTranslator, SpiErrors
<1> QED BY <1>1, <1>3 DEF NoAnswer, Done, TimedOut, Reset

LEMMA TranslatedAsPromised ==
    ASSUME NEW failure \in Failures, NEW status
    PROVE  domainToSpiErrorTranslator(Named[failure], status).code = Promised[failure]
<1>1. CASE failure \in ChangeFailures
  BY <1>1 DEF domainToSpiErrorTranslator, Named, Failures, ChangeFailures, SpiClasses, SpiErrors, Promised
<1>2. CASE failure \notin ChangeFailures
  BY <1>2 DEF domainToSpiErrorTranslator, Named, Failures, SpiClasses, SpiErrors, Promised
<1> QED BY <1>1, <1>2

LEMMA TranslatedIsAnswer ==
    ASSUME NEW name \in DomainErrors \cup {"Error", "TypeError"}, NEW status \in {403, 500}
    PROVE  domainToSpiErrorTranslator(name, status) \in Answers
<1>1. CASE name \in DomainErrors
  BY <1>1 DEF Answers
<1>2. CASE name \in {"Error", "TypeError"}
  <2>1. domainToSpiErrorTranslator(name, status) = SpiErrors(status).UnknownError
    BY <1>2 DEF domainToSpiErrorTranslator, SpiClasses
  <2>2. domainToSpiErrorTranslator("UnrecognizedError", status) = SpiErrors(status).UnknownError
    BY DEF domainToSpiErrorTranslator, SpiClasses
  <2>3. "UnrecognizedError" \in DomainErrors
    BY DEF DomainErrors
  <2> QED BY <2>1, <2>2, <2>3 DEF Answers
<1> QED BY <1>1, <1>2

-----------------------------------------------------------------------------
(* The invariant *)

Handling == {"hooks", "inHook", "operating"}

(* The hooks that may be left of three, and of those of any request.       *)
Rests(h) == {h, <<h[2], h[3]>>, <<h[3]>>, <<>>}

Rest == {<<>>} \cup UNION {Rests(HooksForAction(stage, route)) :
                              stage \in {"before", "after"}, route \in DataRoutes \cup SchemaRoutes}

(* The fields of a request, whatever its place.                            *)
Places   == {"unsent", "sent", "over"} \cup Handling
Tokens   == {"valid", "wrong", "empty", "none"}
Stages   == {"before", "after"}
Payloads == {"given", "hollow"}
Effects  == {"no", "half", "yes", "late"}
Versions == 1 .. Len(Hooks)
Reasons  == (Failures \cup {"none", "other"}) \X (DataCalls \cup SchemaCalls \cup {"none"})

CallSet ==
    [at : Places, route : Routes \cup {"none"}, conn : Connections \cup {"none"},
     token : Tokens, todo : Rest, stage : Stages, payload : Payloads, answer : Answers,
     since : Versions \cup {0}, used : SUBSET Versions, applied : Effects,
     threw : SUBSET Stages, failure : Reasons]

(* A request that is waiting to be handled has met nothing yet.            *)
Fresh(c) ==
    /\ c.answer \in {NoAnswer, Reset}
    /\ c.applied = "no" /\ c.used = {} /\ c.threw = {} /\ c.failure = NoFailure
    /\ c.stage = "before"
    /\ c.at = "sent" => c.token # "none"

(* A request under way has been let in and is unanswered, but for the timer*)
(* and the loss of its connection; what it has done it did in the stage it *)
(* is in.                                                                  *)
UnderWay(c) ==
    /\ c.answer \in {NoAnswer, TimedOut, Reset}
    /\ Unverified(c.route) \/ c.token = "valid"
    /\ c.threw = {} /\ c.failure = NoFailure
    /\ c.stage = "before" => c.applied = "no"
    /\ c.stage = "after" => c.applied \in {"yes", "late"} /\ c.at # "operating"
    /\ c.at \in {"hooks", "inHook"} =>
          /\ c.todo \in Rests(HooksForAction(c.stage, c.route))
          /\ c.route \in DataRoutes \cup SchemaRoutes
    /\ c.at = "inHook" => c.todo # <<>>

(* What the properties say of one request.                                 *)
Honest(c) ==
    /\ c.answer = Done =>
          /\ (c.applied = "yes" \/ c.route \in FixedRoutes)
          /\ (Unverified(c.route) \/ c.token = "valid")
          /\ c.threw = {} /\ c.failure = NoFailure
    /\ c.answer \notin {NoAnswer, Done, TimedOut, Reset} /\ c.applied # "no" =>
          (c.applied = "half" \/ c.threw = {"after"})
    /\ c.applied = "late" => c.answer \in {TimedOut, Reset}
    /\ c.token # "valid" /\ ~ Unverified(c.route) =>
          c.applied = "no" /\ c.used = {} /\ c.threw = {}

FailureNamed(store, c) ==
    c.failure[1] \in Failures =>
        /\ DomainError(store, c.failure[1], c.failure[2]) \in DomainErrors \cup {"Error"}
        /\ c.answer \notin {TimedOut, Reset} /\ ~ Untold(store, c.failure[1], c.failure[2])
              => c.answer.code = Promised[c.failure[1]]

TablesKnown(version, c) == c.used \subseteq c.since .. version /\ c.since <= version

(* All of this, of a request to database store under the given tables.     *)
CallOK(store, version, c) ==
    /\ c \in CallSet
    /\ c.at \in {"unsent", "sent"} => Fresh(c)
    /\ c.at \in Handling => UnderWay(c)
    /\ Honest(c)
    /\ FailureNamed(store, c)
    /\ TablesKnown(version, c)

StateOK ==
    /\ db \in Stores /\ process \in {"up", "down"} /\ open \subseteq Connections
    /\ \E n \in 1 .. Len(Hooks) : tables = [data |-> n, schema |-> n]
    /\ DOMAIN calls = Requests

IInv ==
    /\ StateOK
    /\ \A r \in Requests : CallOK(db, tables["data"], calls[r])
    /\ ConnectionsKept

-----------------------------------------------------------------------------
(* What becomes of one request *)

LEMMA AnswersDiffer ==
    /\ NoAnswer # Done /\ NoAnswer # TimedOut /\ NoAnswer # Reset
    /\ Done # TimedOut /\ Done # Reset /\ TimedOut # Reset
    /\ {NoAnswer, Done, TimedOut, Reset} \subseteq Answers
BY DEF NoAnswer, Done, TimedOut, Reset, Answers

(* Its connection is lost while it waits. *)
LEMMA LostOK ==
    ASSUME NEW store, NEW version, NEW c, CallOK(store, version, c), Waiting(c)
    PROVE  CallOK(store, version, [c EXCEPT !.answer = Reset])
<1> DEFINE d == [c EXCEPT !.answer = Reset]
<1>1. d \in CallSet /\ d.answer = Reset
  BY AnswersDiffer DEF CallOK, CallSet
<1>2. /\ d.at = c.at /\ d.route = c.route /\ d.token = c.token /\ d.todo = c.todo
      /\ d.stage = c.stage /\ d.since = c.since /\ d.used = c.used /\ d.applied = c.applied
      /\ d.threw = c.threw /\ d.failure = c.failure
  BY DEF CallOK, CallSet
<1> HIDE DEF d
<1>3. (d.at \in {"unsent", "sent"} => Fresh(d)) /\ (d.at \in Handling => UnderWay(d))
  BY <1>1, <1>2 DEF CallOK, Fresh, UnderWay
<1>4. Honest(d) /\ FailureNamed(store, d) /\ TablesKnown(version, d)
  BY <1>1, <1>2, AnswersDiffer DEF CallOK, Honest, FailureNamed, TablesKnown
<1> QED BY <1>1, <1>3, <1>4 DEF CallOK, d

(* The tables are set anew. *)
LEMMA LaterOK ==
    ASSUME NEW store, NEW version \in Int, NEW later \in Int, version <= later, NEW c,
           CallOK(store, version, c)
    PROVE  CallOK(store, later, c)
<1>1. c.since \in Int
  BY DEF CallOK, CallSet, Versions
<1> QED BY <1>1 DEF CallOK, TablesKnown

(* Its handler ends. *)
Ended(c, answer) == [Over(c) EXCEPT !.answer = IF c.answer = NoAnswer THEN answer ELSE c.answer]

LEMMA EndedFields ==
    ASSUME NEW c \in CallSet, NEW answer
    PROVE  LET d == Ended(c, answer) IN
           /\ d.answer = IF c.answer = NoAnswer THEN answer ELSE c.answer
           /\ d.at = "over" /\ d.route = c.route /\ d.conn = c.conn /\ d.token = c.token
           /\ d.since = c.since /\ d.used = c.used /\ d.applied = c.applied
           /\ d.threw = c.threw /\ d.failure = c.failure
           /\ answer \in Answers => d \in CallSet
<1> DEFINE o == Over(c)
           d == Ended(c, answer)
<1>0. "over" \in Places /\ <<>> \in Rest /\ "before" \in Stages /\ "given" \in Payloads
  BY DEF Places, Rest, Stages, Payloads
<1>1. /\ o.at = "over" /\ o.route = c.route /\ o.conn = c.conn
      /\ o.token = c.token /\ o.since = c.since /\ o.used = c.used
      /\ o.applied = c.applied /\ o.threw = c.threw /\ o.failure = c.failure
  BY DEF Over, CallSet
<1>5. o \in CallSet
  BY <1>0 DEF Over, CallSet
<1>2. d = [o EXCEPT !.answer = IF c.answer = NoAnswer THEN answer ELSE c.answer]
  BY DEF Ended
<1> HIDE DEF o, d
<1>3. /\ d.answer = IF c.answer = NoAnswer THEN answer ELSE c.answer
      /\ d.at = o.at /\ d.route = o.route /\ d.conn = o.conn /\ d.token = o.token
      /\ d.since = o.since /\ d.used = o.used /\ d.applied = o.applied
      /\ d.threw = o.threw /\ d.failure = o.failure
  BY <1>2, <1>5 DEF CallSet
<1>4. ASSUME answer \in Answers PROVE d \in CallSet
  <2>1. (IF c.answer = NoAnswer THEN answer ELSE c.answer) \in Answers
    BY <1>4 DEF CallSet
  <2> QED BY <1>2, <1>5, <2>1 DEF CallSet
<1> QED BY <1>1, <1>3, <1>4 DEF d

LEMMA EndedOK ==
    ASSUME NEW store, NEW version, NEW c \in CallSet, c.answer \in {NoAnswer, TimedOut, Reset},
           NEW answer \in Answers, Honest(Ended(c, answer)), FailureNamed(store, Ended(c, answer)),
           TablesKnown(version, c)
    PROVE  CallOK(store, version, Ended(c, answer))
<1> DEFINE d == Ended(c, answer)
<1>1. d \in CallSet /\ d.at = "over" /\ d.since = c.since /\ d.used = c.used
  BY EndedFields
<1> HIDE DEF d
<1>2. TablesKnown(version, d)
  BY <1>1 DEF TablesKnown
<1>3. Honest(d) /\ FailureNamed(store, d)
  BY DEF d
<1> QED BY <1>1, <1>2, <1>3 DEF CallOK, Handling, d

-----------------------------------------------------------------------------
(* What a step does to the requests *)

(* To all but the one it is about.                                         *)
Bystander(q) ==
    \/ calls'[q] = calls[q]
    \/ /\ Waiting(calls[q])
       /\ calls'[q] = [calls[q] EXCEPT !.answer = Reset]
       /\ process' = "down" \/ calls[q].conn \notin open'

(* To the one, over whose answer alone a connection or the process may go. *)
Moves(r, d) ==
    /\ calls[r].at # "over" /\ process = "up"
    /\ DOMAIN calls' = Requests /\ calls'[r] = d
    /\ \A q \in Requests \ {r} : Bystander(q)
    /\ d.answer = Reset => \/ calls[r].answer = Reset /\ d.conn = calls[r].conn
                           \/ process' = "down"
    /\ open' \subseteq open
    /\ \A conn \in open \ open' : d.conn = conn /\ d.answer = TimedOut /\ d.at = "over"
    /\ process' \in {"up", "down"}
    /\ process' = "down" => /\ d.route \in InfoRoutes /\ d.at = "over"
                            /\ (d.failure # NoFailure \/ d.answer = TimedOut)

LEMMA SetMoves ==
    ASSUME StateOK, NEW r \in Requests, NEW d, Set(r, d), UNCHANGED <<process, open>>,
           calls[r].at # "over", process = "up",
           d.answer = Reset => calls[r].answer = Reset /\ d.conn = calls[r].conn
    PROVE  Moves(r, d)
BY DEF Set, Moves, Bystander, StateOK

LEMMA AnswerMoves ==
    ASSUME StateOK, NEW r \in Requests, NEW c \in CallSet, NEW answer \in Answers \ {Reset},
           c.answer = calls[r].answer, c.conn = calls[r].conn,
           calls[r].at # "over", process = "up", Answer(r, c, answer)
    PROVE  Moves(r, Ended(c, answer))
<1> DEFINE d == Ended(c, answer)
<1>1. /\ d.answer = IF c.answer = NoAnswer THEN answer ELSE c.answer
      /\ d.at = "over" /\ d.route = c.route /\ d.conn = c.conn
  BY EndedFields
<1>2. c.answer # NoAnswer => d = Over(c)
  BY DEF Ended, Over, CallSet
<1>3. c.answer = NoAnswer => d = [Over(c) EXCEPT !.answer = answer]
  BY DEF Ended
<1> HIDE DEF d
<1>4. CASE c.answer = NoAnswer /\ Set(r, [Over(c) EXCEPT !.answer = answer]) /\ UNCHANGED <<process, open>>
  BY <1>1, <1>3, <1>4, SetMoves DEF d
<1>5. CASE c.answer = Reset /\ Set(r, Over(c)) /\ UNCHANGED <<process, open>>
  BY <1>1, <1>2, <1>5, SetMoves, AnswersDiffer DEF d
<1>6. CASE /\ c.answer = TimedOut /\ c.route \notin InfoRoutes
           /\ open' = open \ {c.conn}
           /\ calls' = [Lost({q \in Requests: calls[q].conn = c.conn}) EXCEPT ![r] = Over(c)]
           /\ UNCHANGED process
  <2>1. calls'[r] = d /\ DOMAIN calls' = Requests
    BY <1>2, <1>6, AnswersDiffer DEF Lost, StateOK
  <2>2. \A q \in Requests \ {r} : Bystander(q)
    BY <1>6 DEF Lost, StateOK, Bystander
  <2> QED BY <1>1, <1>6, <2>1, <2>2, AnswersDiffer DEF Moves, d
<1>7. CASE /\ c.answer = TimedOut /\ c.route \in InfoRoutes
           /\ process' = "down"
           /\ calls' = [Lost(Requests) EXCEPT ![r] = Over(c)]
           /\ UNCHANGED open
  <2>1. calls'[r] = d /\ DOMAIN calls' = Requests
    BY <1>2, <1>7, AnswersDiffer DEF Lost, StateOK
  <2>2. \A q \in Requests \ {r} : Bystander(q)
    BY <1>7 DEF Lost, StateOK, Bystander
  <2> QED BY <1>1, <1>7, <2>1, <2>2, AnswersDiffer DEF Moves, d
<1> QED BY <1>4, <1>5, <1>6, <1>7 DEF Answer

(* Connections and the process go with a reason, and take along only those *)
(* who wait for them.                                                      *)
LEMMA MovesKeep ==
    ASSUME StateOK, ConnectionsKept, \A q \in Requests : calls[q] \in CallSet,
           NEW r \in Requests, NEW d, Moves(r, d)
    PROVE  ConnectionsKept'
<1>1. \A q \in Requests : calls[q].at = "over" => calls'[q] = calls[q]
  BY DEF Moves, Bystander, Waiting
<1>2. \A conn \in Connections \ open' : \E q \in Requests :
         calls'[q].conn = conn /\ calls'[q].answer = TimedOut /\ calls'[q].at = "over"
  BY <1>1 DEF ConnectionsKept, Moves
<1>3. process' = "down" => \E q \in Requests :
         /\ calls'[q].route \in InfoRoutes /\ calls'[q].at = "over"
         /\ (calls'[q].failure # NoFailure \/ calls'[q].answer = TimedOut)
  BY DEF Moves
<1>4. ASSUME NEW q \in Requests, calls'[q].answer = Reset
      PROVE  process' = "down" \/ calls'[q].conn \notin open'
  <2>1. CASE q = r
    BY <1>4, <2>1 DEF Moves, ConnectionsKept
  <2>2. CASE q # r
    <3>1. CASE calls'[q] = calls[q]
      BY <1>4, <3>1 DEF Moves, ConnectionsKept
    <3>2. CASE calls'[q] = [calls[q] EXCEPT !.answer = Reset]
      <4> calls'[q].conn = calls[q].conn
        BY <3>2 DEF CallSet
      <4> QED BY <1>4, <2>2, <3>2 DEF Moves, Bystander, ConnectionsKept
    <3> QED BY <2>2, <3>1, <3>2 DEF Moves, Bystander
  <2> QED BY <2>1, <2>2
<1> QED BY <1>2, <1>3, <1>4 DEF ConnectionsKept

(* A step that moves one request, to where it may be, keeps the invariant. *)
LEMMA MoveStep ==
    ASSUME IInv, NEW r \in Requests, NEW d, Moves(r, d), CallOK(db, tables["data"], d),
           UNCHANGED <<db, tables>>
    PROVE  IInv'
<1>1. ASSUME NEW q \in Requests PROVE CallOK(db, tables["data"], calls'[q])
  <2>1. CASE q = r
    BY <2>1 DEF Moves
  <2>2. CASE q # r
    <3>1. CallOK(db, tables["data"], calls[q]) /\ Bystander(q)
      BY <2>2 DEF IInv, Moves
    <3> QED BY <3>1, LostOK DEF Bystander
  <2> QED BY <2>1, <2>2
<1>2. StateOK'
  BY DEF IInv, StateOK, Moves
<1>3. ConnectionsKept'
  BY MovesKeep DEF IInv, CallOK
<1> QED BY <1>1, <1>2, <1>3 DEF IInv

-----------------------------------------------------------------------------
(* The ways in which a handler ends *)

(* What a request that ends must have to its name, whatever it is told.    *)
MayEnd(c) ==
    /\ c \in CallSet /\ c.answer \in {NoAnswer, TimedOut, Reset}
    /\ c.applied = "late" => c.answer \in {TimedOut, Reset}
    /\ c.token # "valid" /\ ~ Unverified(c.route) => c.applied = "no" /\ c.used = {} /\ c.threw = {}

LEMMA EndStep ==
    ASSUME IInv, NEW r \in Requests, NEW c, MayEnd(c), NEW answer \in Answers \ {NoAnswer, TimedOut, Reset},
           Answer(r, c, answer), c.answer = calls[r].answer, c.conn = calls[r].conn,
           calls[r].at # "over", process = "up", UNCHANGED <<db, tables>>,
           TablesKnown(tables["data"], c),
           Honest(Ended(c, answer)), FailureNamed(db, Ended(c, answer))
    PROVE  IInv'
<1>1. Moves(r, Ended(c, answer))
  BY AnswerMoves DEF IInv, MayEnd
<1>2. CallOK(db, tables["data"], Ended(c, answer))
  BY EndedOK DEF MayEnd
<1> QED BY <1>1, <1>2, MoveStep

(* With success: the operation is done, and nothing has gone wrong.        *)
LEMMA DoneStep ==
    ASSUME IInv, NEW r \in Requests, NEW c, MayEnd(c), Answer(r, c, Done),
           c.answer = calls[r].answer, c.conn = calls[r].conn,
           calls[r].at # "over", process = "up", UNCHANGED <<db, tables>>,
           TablesKnown(tables["data"], c),
           c.applied \in {"yes", "late"} \/ c.route \in FixedRoutes,
           Unverified(c.route) \/ c.token = "valid", c.threw = {}, c.failure = NoFailure
    PROVE  IInv'
<1> DEFINE d == Ended(c, Done)
<1>1. /\ d.answer = IF c.answer = NoAnswer THEN Done ELSE c.answer
      /\ d.route = c.route /\ d.token = c.token /\ d.used = c.used
      /\ d.applied = c.applied /\ d.threw = c.threw /\ d.failure = c.failure
  BY EndedFields DEF MayEnd
<1> HIDE DEF d
<1>2. Honest(d)
  BY <1>1, AnswersDiffer DEF Honest, MayEnd
<1>3. FailureNamed(db, d)
  BY <1>1 DEF FailureNamed, NoFailure, Failures, ChangeFailures
<1> QED BY <1>2, <1>3, EndStep, AnswersDiffer DEF d

(* With an error: the operation is not done, or a hook after it threw.     *)
LEMMA FailStep ==
    ASSUME IInv, NEW r \in Requests, NEW c, MayEnd(c),
           NEW name \in DomainErrors \cup {"Error", "TypeError"}, NEW status \in {403, 500},
           Fail(r, c, name, status),
           c.answer = calls[r].answer, c.conn = calls[r].conn,
           calls[r].at # "over", process = "up", UNCHANGED <<db, tables>>,
           TablesKnown(tables["data"], c),
           c.applied \in {"no", "half"} \/ c.threw = {"after"},
           \/ c.failure \in {NoFailure, <<"other", "none">>}
           \/ /\ c.failure[1] \in Failures /\ c.failure[2] \in Meets[c.failure[1]]
              /\ Raises(db, c.failure[1], c.failure[2]) # NotRaised
              /\ name = DomainError(db, c.failure[1], c.failure[2])
    PROVE  IInv'
<1> DEFINE answer == domainToSpiErrorTranslator(name, status)
           d == Ended(c, answer)
<1>1. answer \in Answers /\ answer \notin {NoAnswer, Done, TimedOut, Reset}
  BY TranslatedIsError, TranslatedIsAnswer
<1>2. Answer(r, c, answer)
  BY DEF Fail
<1>3. /\ d.answer = IF c.answer = NoAnswer THEN answer ELSE c.answer
      /\ d.route = c.route /\ d.token = c.token /\ d.used = c.used
      /\ d.applied = c.applied /\ d.threw = c.threw /\ d.failure = c.failure
  BY EndedFields DEF MayEnd
<1>4. ASSUME c.failure[1] \in Failures
      PROVE  /\ DomainError(db, c.failure[1], c.failure[2]) \in DomainErrors \cup {"Error"}
             /\ ~ Untold(db, c.failure[1], c.failure[2]) => answer.code = Promised[c.failure[1]]
  <2> DEFINE failure == c.failure[1]
             call    == c.failure[2]
  <2>1. failure \in Failures /\ call \in Meets[failure] /\ Raises(db, failure, call) # NotRaised
        /\ name = DomainError(db, failure, call)
    BY <1>4 DEF Failures, ChangeFailures, NoFailure
  <2>2. db \in Databases
    BY StoresAssumption DEF IInv, StateOK
  <2> HIDE DEF failure, call
  <2>3. Told(db, failure, call)
    BY <2>1, <2>2, FailureTold
  <2>4. Named[failure] \in DomainErrors
    BY <2>1 DEF Named, DomainErrors, Failures, ChangeFailures
  <2>5. DomainError(db, failure, call) \in DomainErrors \cup {"Error"}
    BY <2>3, <2>4 DEF Told
  <2>6. ~ Untold(db, failure, call) => answer.code = Promised[failure]
    BY <2>1, <2>3, TranslatedAsPromised DEF Told
  <2> QED BY <2>5, <2>6 DEF failure, call
<1> HIDE DEF answer, d
<1>5. Honest(d)
  BY <1>1, <1>3, AnswersDiffer DEF Honest, MayEnd
<1>6. FailureNamed(db, d)
  BY <1>1, <1>3, <1>4 DEF FailureNamed, MayEnd
<1> QED BY <1>1, <1>2, <1>5, <1>6, EndStep DEF d

-----------------------------------------------------------------------------
(* The steps *)

LEMMA HooksLength == Len(Hooks) \in Nat \ {0}
BY HooksAssumption

LEMMA UnsentOK ==
    ASSUME NEW store, NEW version \in Versions
    PROVE  CallOK(store, version, Unsent)
<1>1. Unsent \in CallSet
  BY AnswersDiffer DEF Unsent, CallSet, Places, Tokens, Rest, Stages, Payloads, Effects, Reasons, NoFailure
<1>2. Fresh(Unsent)
  BY DEF Unsent, Fresh
<1>3. Honest(Unsent)
  BY AnswersDiffer DEF Unsent, Honest
<1>4. FailureNamed(store, Unsent)
  BY DEF Unsent, FailureNamed, NoFailure, Failures, ChangeFailures
<1>5. TablesKnown(version, Unsent)
  BY DEF Unsent, TablesKnown, Versions
<1>6. Unsent.at = "unsent"
  BY DEF Unsent
<1> QED BY <1>1, <1>2, <1>3, <1>4, <1>5, <1>6 DEF CallOK, Handling

LEMMA InitIInv == Init => IInv
<1> SUFFICES ASSUME Init PROVE IInv
  OBVIOUS
<1>1. StateOK
  BY HooksLength DEF Init, StateOK
<1>2. tables["data"] = 1 /\ 1 \in Versions
  BY HooksLength DEF Init, Versions
<1>3. \A r \in Requests : CallOK(db, tables["data"], calls[r])
  BY <1>2, UnsentOK DEF Init
<1>4. ConnectionsKept
  BY AnswersDiffer DEF Init, ConnectionsKept, Unsent
<1> QED BY <1>1, <1>3, <1>4 DEF IInv

(* The number of the tables, which are set together.                       *)
LEMMA TablesSame ==
    ASSUME StateOK
    PROVE  /\ tables["data"] \in Versions /\ tables["schema"] = tables["data"]
           /\ \A route : tables[TableOf(route)] = tables["data"]
BY DEF StateOK, TableOf, Versions

LEMMA SendStep == ASSUME IInv, NEW r \in Requests, Send(r) PROVE IInv'
<1>1. PICK route \in Routes, conn \in open, token \in {"valid", "wrong", "empty"} :
         Set(r, [Unsent EXCEPT !.at = "sent", !.route = route, !.conn = conn, !.token = token])
  BY DEF Send
<1> DEFINE d == [Unsent EXCEPT !.at = "sent", !.route = route, !.conn = conn, !.token = token]
<1>2. CallOK(db, tables["data"], Unsent)
  BY UnsentOK, TablesSame DEF IInv
<1>3. d \in CallSet
  <2>1. "sent" \in Places /\ token \in Tokens /\ conn \in Connections
    BY DEF Places, Tokens, IInv, StateOK
  <2> QED BY <1>2, <2>1 DEF CallSet, CallOK
<1>4. /\ d.at = "sent" /\ d.answer = NoAnswer /\ d.applied = "no" /\ d.used = {} /\ d.threw = {}
      /\ d.failure = NoFailure /\ d.stage = "before" /\ d.since = 0 /\ d.token # "none"
  BY DEF Unsent
<1> HIDE DEF d
<1>5. CallOK(db, tables["data"], d)
  <2>1. TablesKnown(tables["data"], d)
    BY <1>4, TablesSame DEF TablesKnown, Versions, IInv
  <2> QED BY <1>3, <1>4, <2>1, AnswersDiffer
          DEF CallOK, Fresh, Handling, Honest, FailureNamed, NoFailure, Failures, ChangeFailures
<1>6. Moves(r, d)
  BY <1>1, <1>4, SetMoves, AnswersDiffer DEF Send, IInv, d
<1> QED BY <1>5, <1>6, MoveStep DEF Send

(* What is left of the hooks of a stage when the first of them is done.    *)
LEMMA RestsOK ==
    ASSUME NEW stage \in Stages, NEW route \in DataRoutes \cup SchemaRoutes
    PROVE  LET h == HooksForAction(stage, route) IN
           /\ h \in Rests(h) /\ Rests(h) \subseteq Rest
           /\ \A todo \in Rests(h) : todo # <<>> => Tail(todo) \in Rests(h)
<1> DEFINE h == HooksForAction(stage, route)
<1>1. h \in Rests(h)
  BY DEF Rests
<1>2. Rests(h) \subseteq Rest
  BY DEF Rest, Stages
<1>3. PICK a, b, c : h = <<a, b, c>>
  BY DEF HooksForAction
<1> HIDE DEF h
<1>4. Rests(h) = {<<a, b, c>>, <<b, c>>, <<c>>, <<>>}
  BY <1>3 DEF Rests
<1>5. Tail(<<a, b, c>>) = <<b, c>>
  OBVIOUS
<1>6. Tail(<<b, c>>) = <<c>>
  OBVIOUS
<1>7. Tail(<<c>>) = <<>>
  OBVIOUS
<1> QED BY <1>1, <1>2, <1>4, <1>5, <1>6, <1>7 DEF h

(* A request goes on, to the next place of its handler.                    *)
LEMMA GoOnStep ==
    ASSUME IInv, NEW r \in Requests, NEW d \in CallSet, Set(r, d), UNCHANGED <<process, open>>,
           UNCHANGED <<db, tables>>, calls[r].at # "over", process = "up",
           d.answer = Reset => calls[r].answer = Reset /\ d.conn = calls[r].conn,
           d.at \in Handling, UnderWay(d), TablesKnown(tables["data"], d),
           d.applied = "late" => d.answer \in {TimedOut, Reset}
    PROVE  IInv'
<1>1. Honest(d)
  BY AnswersDiffer DEF UnderWay, Honest
<1>2. FailureNamed(db, d)
  BY DEF UnderWay, FailureNamed, NoFailure, Failures, ChangeFailures
<1>3. CallOK(db, tables["data"], d)
  BY <1>1, <1>2 DEF CallOK, Handling
<1>4. Moves(r, d)
  BY SetMoves DEF IInv
<1> QED BY <1>3, <1>4, MoveStep

LEMMA ReceiveStep == ASSUME IInv, NEW r \in Requests, Receive(r) PROVE IInv'
<1> DEFINE c == [calls[r] EXCEPT !.since = tables["data"]]
           refusal == IF ~ Unverified(c.route) /\ TokenError(c.token) # "none" THEN TokenError(c.token)
                      ELSE IF NeedsRole(c.route) THEN "UnauthorizedError" ELSE "none"
<1>1. /\ c.at = "sent" /\ process = "up" /\ UNCHANGED <<db, tables>>
      /\ \/ refusal # "none" /\ Fail(r, c, refusal, 500)
         \/ refusal = "none" /\ c.route \in FixedRoutes /\ Answer(r, c, Done)
         \/ /\ refusal = "none" /\ c.route \in IndexRoutes \cup InfoRoutes
            /\ Set(r, [c EXCEPT !.at = "operating"]) /\ UNCHANGED <<process, open>>
         \/ /\ refusal = "none" /\ c.route \in DataRoutes \cup SchemaRoutes
            /\ Set(r, [c EXCEPT !.at = "hooks", !.todo = HooksForAction("before", c.route)])
            /\ UNCHANGED <<process, open>>
  BY DEF Receive
<1>2. CallOK(db, tables["data"], calls[r]) /\ tables["data"] \in Versions
  BY TablesSame DEF IInv
<1>3. c \in CallSet /\ c.since = tables["data"]
  BY <1>2 DEF CallOK, CallSet
<1>4. /\ c.at = calls[r].at /\ c.route = calls[r].route /\ c.conn = calls[r].conn /\ c.token = calls[r].token
      /\ c.stage = calls[r].stage /\ c.answer = calls[r].answer /\ c.used = calls[r].used
      /\ c.applied = calls[r].applied /\ c.threw = calls[r].threw /\ c.failure = calls[r].failure
  BY <1>2 DEF CallOK, CallSet
<1> HIDE DEF c
<1>5. /\ c.answer \in {NoAnswer, Reset} /\ c.applied = "no" /\ c.used = {} /\ c.threw = {}
      /\ c.failure = NoFailure /\ c.stage = "before" /\ c.token \in {"valid", "wrong", "empty"}
  BY <1>1, <1>2, <1>4 DEF CallOK, Fresh, CallSet, Tokens
<1>6. MayEnd(c) /\ TablesKnown(tables["data"], c)
  BY <1>2, <1>3, <1>5 DEF MayEnd, TablesKnown, Versions
<1>7. /\ refusal = "none" => Unverified(c.route) \/ c.token = "valid"
      /\ refusal \in {"none", "UnauthorizedError", "TypeError"}
  BY <1>5 DEF TokenError
<1> HIDE DEF refusal
<1>8. CASE refusal # "none" /\ Fail(r, c, refusal, 500)
  <2>1. refusal \in DomainErrors \cup {"Error", "TypeError"}
    BY <1>7, <1>8 DEF DomainErrors
  <2> QED BY <1>1, <1>4, <1>5, <1>6, <1>8, <2>1, FailStep
<1>9. CASE refusal = "none" /\ c.route \in FixedRoutes /\ Answer(r, c, Done)
  BY <1>1, <1>4, <1>5, <1>6, <1>7, <1>9, DoneStep
<1>10. CASE /\ refusal = "none" /\ c.route \in IndexRoutes \cup InfoRoutes
            /\ Set(r, [c EXCEPT !.at = "operating"]) /\ UNCHANGED <<process, open>>
  <2> DEFINE d == [c EXCEPT !.at = "operating"]
  <2>1. d \in CallSet /\ d.at = "operating"
    BY <1>3 DEF CallSet, Places, Handling
  <2>2. /\ d.route = c.route /\ d.conn = c.conn /\ d.token = c.token /\ d.stage = c.stage /\ d.answer = c.answer
        /\ d.since = c.since /\ d.used = c.used /\ d.applied = c.applied /\ d.threw = c.threw /\ d.failure = c.failure
    BY <1>3 DEF CallSet
  <2> HIDE DEF d
  <2>3. UnderWay(d) /\ TablesKnown(tables["data"], d)
    BY <1>5, <1>6, <1>7, <1>10, <2>1, <2>2 DEF UnderWay, TablesKnown
  <2> QED BY <1>1, <1>4, <1>5, <1>10, <2>1, <2>2, <2>3, GoOnStep DEF d, Handling
<1>11. CASE /\ refusal = "none" /\ c.route \in DataRoutes \cup SchemaRoutes
            /\ Set(r, [c EXCEPT !.at = "hooks", !.todo = HooksForAction("before", c.route)])
            /\ UNCHANGED <<process, open>>
  <2> DEFINE h == HooksForAction("before", c.route)
             d == [c EXCEPT !.at = "hooks", !.todo = h]
  <2>0. h \in Rests(h) /\ h \in Rest
    BY <1>11, RestsOK DEF Stages
  <2> HIDE DEF h
  <2>1. d \in CallSet /\ d.at = "hooks" /\ d.todo = h
    BY <1>3, <2>0 DEF CallSet, Places, Handling
  <2>2. /\ d.route = c.route /\ d.conn = c.conn /\ d.token = c.token /\ d.stage = c.stage /\ d.answer = c.answer
        /\ d.since = c.since /\ d.used = c.used /\ d.applied = c.applied /\ d.threw = c.threw /\ d.failure = c.failure
    BY <1>3 DEF CallSet
  <2>5. Set(r, d)
    BY <1>11 DEF h
  <2> HIDE DEF d
  <2>3. HooksForAction(d.stage, d.route) = h
    BY <1>5, <2>2 DEF h
  <2>4. UnderWay(d) /\ TablesKnown(tables["data"], d)
    BY <1>5, <1>6, <1>7, <1>11, <2>0, <2>1, <2>2, <2>3 DEF UnderWay, TablesKnown
  <2> QED BY <1>1, <1>4, <1>5, <1>11, <2>1, <2>2, <2>4, <2>5, GoOnStep DEF Handling
<1> QED BY <1>1, <1>8, <1>9, <1>10, <1>11

LEMMA CallHookStep == ASSUME IInv, NEW r \in Requests, CallHook(r) PROVE IInv'
<1> DEFINE c == calls[r]
           table == tables[TableOf(c.route)]
           d == [c EXCEPT !.at = "inHook", !.used = c.used \cup {table}]
           e == [c EXCEPT !.todo = Tail(c.todo)]
<1>1. /\ c.at = "hooks" /\ c.todo # <<>> /\ process = "up" /\ UNCHANGED <<db, process, open, tables>>
      /\ Set(r, d) \/ Set(r, e)
  BY DEF CallHook
<1>2. CallOK(db, tables["data"], c) /\ tables["data"] \in Versions /\ table = tables["data"]
  BY TablesSame DEF IInv
<1> HIDE DEF c, table
<1>3. c \in CallSet /\ UnderWay(c) /\ TablesKnown(tables["data"], c)
      /\ (c.applied = "late" => c.answer \in {TimedOut, Reset})
  BY <1>1, <1>2 DEF CallOK, Handling, Honest
<1>4. /\ c.route \in DataRoutes \cup SchemaRoutes /\ c.stage \in Stages
      /\ c.todo \in Rests(HooksForAction(c.stage, c.route))
  BY <1>1, <1>3 DEF UnderWay, CallSet
<1>5. CASE Set(r, d)
  <2>1. c.used \cup {table} \in SUBSET Versions
    BY <1>2, <1>3 DEF CallSet
  <2>2. d \in CallSet /\ d.at = "inHook" /\ d.used = c.used \cup {table}
    BY <1>3, <2>1 DEF CallSet, Places, Handling
  <2>3. /\ d.route = c.route /\ d.conn = c.conn /\ d.token = c.token /\ d.todo = c.todo /\ d.stage = c.stage
        /\ d.answer = c.answer /\ d.since = c.since /\ d.applied = c.applied /\ d.threw = c.threw
        /\ d.failure = c.failure
    BY <1>3 DEF CallSet
  <2> HIDE DEF d
  <2>4. UnderWay(d)
    BY <1>1, <1>3, <1>4, <2>2, <2>3 DEF UnderWay
  <2>5. TablesKnown(tables["data"], d)
    BY <1>2, <1>3, <2>2, <2>3 DEF TablesKnown, Versions, CallSet
  <2> QED BY <1>1, <1>3, <1>5, <2>2, <2>3, <2>4, <2>5, GoOnStep DEF c, Handling
<1>6. CASE Set(r, e)
  <2>1. Tail(c.todo) \in Rests(HooksForAction(c.stage, c.route)) /\ Tail(c.todo) \in Rest
    BY <1>1, <1>4, RestsOK
  <2>2. e \in CallSet /\ e.todo = Tail(c.todo)
    BY <1>3, <2>1 DEF CallSet
  <2>3. /\ e.at = c.at /\ e.route = c.route /\ e.conn = c.conn /\ e.token = c.token /\ e.stage = c.stage
        /\ e.answer = c.answer /\ e.since = c.since /\ e.used = c.used /\ e.applied = c.applied
        /\ e.threw = c.threw /\ e.failure = c.failure
    BY <1>3 DEF CallSet
  <2> HIDE DEF e
  <2>4. UnderWay(e) /\ TablesKnown(tables["data"], e)
    BY <1>1, <1>3, <1>4, <2>1, <2>2, <2>3 DEF UnderWay, TablesKnown
  <2> QED BY <1>1, <1>3, <1>6, <2>2, <2>3, <2>4, GoOnStep DEF c, Handling
<1> QED BY <1>1, <1>5, <1>6

LEMMA HookReturnsStep == ASSUME IInv, NEW r \in Requests, HookReturns(r) PROVE IInv'
<1> DEFINE c == calls[r]
<1>1. /\ c.at = "inHook" /\ process = "up" /\ UNCHANGED <<db, process, open, tables>>
      /\ \E result \in {"falsy", "given", "hollow"} :
            Set(r, [c EXCEPT !.at = "hooks", !.todo = Tail(c.todo),
                             !.payload = IF result = "falsy" THEN @ ELSE result])
  BY DEF HookReturns
<1>2. CallOK(db, tables["data"], c)
  BY DEF IInv
<1> HIDE DEF c
<1>3. c \in CallSet /\ UnderWay(c) /\ TablesKnown(tables["data"], c)
      /\ (c.applied = "late" => c.answer \in {TimedOut, Reset})
  BY <1>1, <1>2 DEF CallOK, Handling, Honest
<1>4. /\ c.route \in DataRoutes \cup SchemaRoutes /\ c.stage \in Stages /\ c.todo # <<>>
      /\ c.todo \in Rests(HooksForAction(c.stage, c.route))
  BY <1>1, <1>3 DEF UnderWay, CallSet
<1>5. PICK payload : payload \in Payloads /\ Set(r, [c EXCEPT !.at = "hooks", !.todo = Tail(c.todo), !.payload = payload])
  BY <1>1, <1>3 DEF Payloads, CallSet
<1> DEFINE d == [c EXCEPT !.at = "hooks", !.todo = Tail(c.todo), !.payload = payload]
<1>6. Tail(c.todo) \in Rests(HooksForAction(c.stage, c.route)) /\ Tail(c.todo) \in Rest
  BY <1>4, RestsOK
<1>7. d \in CallSet /\ d.at = "hooks" /\ d.todo = Tail(c.todo)
  BY <1>3, <1>5, <1>6 DEF CallSet, Places, Handling
<1>8. /\ d.route = c.route /\ d.conn = c.conn /\ d.token = c.token /\ d.stage = c.stage
      /\ d.answer = c.answer /\ d.since = c.since /\ d.used = c.used /\ d.applied = c.applied
      /\ d.threw = c.threw /\ d.failure = c.failure
  BY <1>3 DEF CallSet
<1>9. Set(r, d)
  BY <1>5
<1> HIDE DEF d
<1>10. UnderWay(d) /\ TablesKnown(tables["data"], d)
  BY <1>1, <1>3, <1>4, <1>6, <1>7, <1>8 DEF UnderWay, TablesKnown
<1> QED BY <1>1, <1>3, <1>7, <1>8, <1>9, <1>10, GoOnStep DEF c, Handling

LEMMA HookThrowsStep == ASSUME IInv, NEW r \in Requests, HookThrows(r) PROVE IInv'
<1> DEFINE c == [calls[r] EXCEPT !.threw = @ \cup {calls[r].stage}]
<1>1. PICK status \in {403, 500} : Fail(r, c, IF status = 500 THEN "UnrecognizedError" ELSE "Error", status)
  BY DEF HookThrows
<1>2. calls[r].at = "inHook" /\ process = "up" /\ UNCHANGED <<db, tables>>
  BY DEF HookThrows
<1>3. calls[r] \in CallSet /\ UnderWay(calls[r]) /\ TablesKnown(tables["data"], calls[r])
      /\ (calls[r].applied = "late" => calls[r].answer \in {TimedOut, Reset})
  BY <1>2 DEF IInv, CallOK, Handling, Honest
<1>4. calls[r].threw = {} /\ calls[r].stage \in Stages
  BY <1>3 DEF UnderWay, CallSet
<1>5. c \in CallSet /\ c.threw = {calls[r].stage}
  BY <1>3, <1>4 DEF CallSet
<1>6. /\ c.route = calls[r].route /\ c.conn = calls[r].conn /\ c.token = calls[r].token
      /\ c.stage = calls[r].stage /\ c.answer = calls[r].answer /\ c.since = calls[r].since
      /\ c.used = calls[r].used /\ c.applied = calls[r].applied /\ c.failure = calls[r].failure
  BY <1>3 DEF CallSet
<1> HIDE DEF c
<1>7. MayEnd(c) /\ TablesKnown(tables["data"], c)
  BY <1>3, <1>5, <1>6 DEF UnderWay, MayEnd, TablesKnown
<1>8. c.failure = NoFailure /\ (c.applied = "no" \/ c.threw = {"after"})
  BY <1>3, <1>4, <1>5, <1>6 DEF UnderWay, Stages
<1>9. (IF status = 500 THEN "UnrecognizedError" ELSE "Error") \in DomainErrors \cup {"Error", "TypeError"}
  BY DEF DomainErrors
<1> QED BY <1>1, <1>2, <1>6, <1>7, <1>8, <1>9, FailStep

(* A request whose operation is due or going on has had no effect yet.     *)
LEMMA BeforeIt ==
    ASSUME IInv, NEW r \in Requests, calls[r].at \in Handling,
           calls[r].at = "operating" \/ calls[r].stage = "before"
    PROVE  /\ calls[r] \in CallSet /\ UnderWay(calls[r]) /\ TablesKnown(tables["data"], calls[r])
           /\ calls[r].stage = "before" /\ calls[r].applied = "no"
<1>1. calls[r] \in CallSet /\ UnderWay(calls[r]) /\ TablesKnown(tables["data"], calls[r])
  BY DEF IInv, CallOK
<1>2. calls[r].stage = "before"
  BY <1>1 DEF UnderWay, CallSet, Stages
<1> QED BY <1>1, <1>2 DEF UnderWay

LEMMA OperateStep == ASSUME IInv, NEW r \in Requests, Operate(r) PROVE IInv'
<1> DEFINE c == calls[r]
           d == [c EXCEPT !.at = "operating"]
<1>1. /\ c.at = "hooks" /\ c.stage = "before" /\ process = "up" /\ UNCHANGED <<db, tables>>
      /\ \/ Fail(r, c, "TypeError", 500)
         \/ Set(r, d) /\ UNCHANGED <<process, open>>
  BY DEF Operate
<1>2. c \in CallSet /\ UnderWay(c) /\ TablesKnown(tables["data"], c) /\ c.applied = "no"
  BY <1>1, BeforeIt DEF Handling
<1>3. CASE Fail(r, c, "TypeError", 500)
  <2>1. MayEnd(c) /\ c.failure = NoFailure
    BY <1>2 DEF MayEnd, UnderWay
  <2>2. c.answer = calls[r].answer /\ c.conn = calls[r].conn
    OBVIOUS
  <2> HIDE DEF c
  <2>3. calls[r].at # "over"
    BY <1>1 DEF c
  <2> QED BY <1>1, <1>2, <1>3, <2>1, <2>2, <2>3, FailStep
<1>4. CASE Set(r, d) /\ UNCHANGED <<process, open>>
  <2> HIDE DEF c
  <2>1. d \in CallSet /\ d.at = "operating"
    BY <1>2 DEF CallSet, Places, Handling
  <2>2. /\ d.route = c.route /\ d.conn = c.conn /\ d.token = c.token /\ d.stage = c.stage
        /\ d.answer = c.answer /\ d.since = c.since /\ d.used = c.used /\ d.applied = c.applied
        /\ d.threw = c.threw /\ d.failure = c.failure
    BY <1>2 DEF CallSet
  <2> HIDE DEF d
  <2>3. UnderWay(d) /\ TablesKnown(tables["data"], d)
    BY <1>1, <1>2, <2>1, <2>2 DEF UnderWay, TablesKnown
  <2> QED BY <1>1, <1>2, <1>4, <2>1, <2>2, <2>3, GoOnStep DEF c, Handling
<1> QED BY <1>1, <1>3, <1>4

LEMMA OperationDoneStep == ASSUME IInv, NEW r \in Requests, OperationDone(r) PROVE IInv'
<1> DEFINE applied == IF calls[r].answer = NoAnswer THEN "yes" ELSE "late"
           c == [calls[r] EXCEPT !.applied = applied]
           h == HooksForAction("after", c.route)
           d == [c EXCEPT !.at = "hooks", !.stage = "after", !.payload = "given", !.todo = h]
<1>1. /\ calls[r].at = "operating" /\ process = "up" /\ UNCHANGED <<db, tables>>
      /\ \/ Answer(r, c, Done)
         \/ c.route \in DataRoutes \cup SchemaRoutes /\ Set(r, d) /\ UNCHANGED <<process, open>>
  <2>1. c.at = calls[r].at
    BY BeforeIt DEF OperationDone, CallSet
  <2> QED BY <2>1 DEF OperationDone
<1>2. calls[r] \in CallSet /\ UnderWay(calls[r]) /\ TablesKnown(tables["data"], calls[r])
  BY <1>1, BeforeIt DEF Handling
<1>3. applied \in {"yes", "late"} /\ (applied = "late" => calls[r].answer \in {TimedOut, Reset})
  BY <1>2 DEF UnderWay
<1> HIDE DEF applied
<1>4. c \in CallSet /\ c.applied = applied
  BY <1>2, <1>3 DEF CallSet, Effects
<1>5. /\ c.at = calls[r].at /\ c.route = calls[r].route /\ c.conn = calls[r].conn /\ c.token = calls[r].token
      /\ c.answer = calls[r].answer /\ c.since = calls[r].since /\ c.used = calls[r].used
      /\ c.threw = calls[r].threw /\ c.failure = calls[r].failure
  BY <1>2 DEF CallSet
<1> HIDE DEF c
<1>6. /\ c.answer \in {NoAnswer, TimedOut, Reset} /\ (Unverified(c.route) \/ c.token = "valid")
      /\ c.threw = {} /\ c.failure = NoFailure /\ TablesKnown(tables["data"], c)
  BY <1>2, <1>5 DEF UnderWay, TablesKnown
<1>7. CASE Answer(r, c, Done)
  <2>1. MayEnd(c)
    BY <1>3, <1>4, <1>5, <1>6 DEF MayEnd
  <2> QED BY <1>1, <1>3, <1>4, <1>5, <1>6, <1>7, <2>1, DoneStep
<1>8. CASE c.route \in DataRoutes \cup SchemaRoutes /\ Set(r, d) /\ UNCHANGED <<process, open>>
  <2>0. h \in Rests(h) /\ h \in Rest
    BY <1>8, RestsOK DEF Stages
  <2> HIDE DEF h
  <2>1. d \in CallSet /\ d.at = "hooks" /\ d.stage = "after" /\ d.todo = h
    BY <1>4, <2>0 DEF CallSet, Places, Handling, Stages, Payloads
  <2>2. /\ d.route = c.route /\ d.conn = c.conn /\ d.token = c.token /\ d.answer = c.answer
        /\ d.since = c.since /\ d.used = c.used /\ d.applied = c.applied /\ d.threw = c.threw /\ d.failure = c.failure
    BY <1>4 DEF CallSet
  <2> HIDE DEF d
  <2>3. HooksForAction(d.stage, d.route) = h
    BY <2>1, <2>2 DEF h
  <2>4. UnderWay(d) /\ TablesKnown(tables["data"], d)
    BY <1>3, <1>4, <1>6, <1>8, <2>0, <2>1, <2>2, <2>3 DEF UnderWay, TablesKnown
  <2> QED BY <1>1, <1>3, <1>4, <1>5, <1>8, <2>1, <2>2, <2>4, GoOnStep DEF Handling
<1> QED BY <1>1, <1>7, <1>8

LEMMA RespondStep == ASSUME IInv, NEW r \in Requests, Respond(r) PROVE IInv'
<1> DEFINE c == calls[r]
           e == [c EXCEPT !.threw = @ \cup {"after"}]
<1>1. /\ c.at = "hooks" /\ c.stage = "after" /\ process = "up" /\ UNCHANGED <<db, tables>>
      /\ Fail(r, e, "TypeError", 500) \/ Answer(r, c, Done)
  BY DEF Respond
<1>2. c \in CallSet /\ UnderWay(c) /\ TablesKnown(tables["data"], c)
      /\ (c.applied = "late" => c.answer \in {TimedOut, Reset})
  BY <1>1 DEF IInv, CallOK, Handling, Honest
<1> HIDE DEF c
<1>3. CASE Fail(r, e, "TypeError", 500)
  <2>1. e \in CallSet /\ e.threw = {"after"}
    BY <1>2 DEF CallSet, Stages, UnderWay
  <2>2. /\ e.route = c.route /\ e.conn = c.conn /\ e.token = c.token /\ e.answer = c.answer
        /\ e.since = c.since /\ e.used = c.used /\ e.applied = c.applied /\ e.failure = c.failure
    BY <1>2 DEF CallSet
  <2> HIDE DEF e
  <2>3. MayEnd(e) /\ e.failure = NoFailure /\ TablesKnown(tables["data"], e)
    BY <1>2, <2>1, <2>2 DEF UnderWay, MayEnd, TablesKnown
  <2>4. /\ calls[r].at # "over" /\ process = "up" /\ UNCHANGED <<db, tables>>
        /\ e.answer = calls[r].answer /\ e.conn = calls[r].conn
    BY <1>1, <2>2 DEF c
  <2> QED BY <1>3, <2>1, <2>3, <2>4, FailStep
<1>4. CASE Answer(r, c, Done)
  <2>1. /\ c.applied \in {"yes", "late"} /\ (Unverified(c.route) \/ c.token = "valid")
        /\ c.threw = {} /\ c.failure = NoFailure
    BY <1>1, <1>2 DEF UnderWay
  <2>2. MayEnd(c)
    BY <1>2 DEF MayEnd, UnderWay
  <2>3. /\ calls[r].at # "over" /\ process = "up" /\ UNCHANGED <<db, tables>>
        /\ c.answer = calls[r].answer /\ c.conn = calls[r].conn
    BY <1>1 DEF c
  <2> QED BY <1>2, <1>4, <2>1, <2>2, <2>3, DoneStep
<1> QED BY <1>1, <1>3, <1>4

LEMMA TimeoutStep == ASSUME IInv, NEW r \in Requests, Timeout(r) PROVE IInv'
<1> DEFINE c == calls[r]
           d == [c EXCEPT !.answer = TimedOut]
<1>1. /\ c.at \in Handling /\ process = "up" /\ UNCHANGED <<db, process, open, tables>> /\ Set(r, d)
  BY DEF Timeout, Handling
<1>2. c \in CallSet /\ UnderWay(c) /\ TablesKnown(tables["data"], c)
  BY <1>1 DEF IInv, CallOK
<1> HIDE DEF c
<1>3. d \in CallSet /\ d.answer = TimedOut
  BY <1>2, AnswersDiffer DEF CallSet
<1>4. /\ d.at = c.at /\ d.route = c.route /\ d.conn = c.conn /\ d.token = c.token /\ d.todo = c.todo
      /\ d.stage = c.stage /\ d.since = c.since /\ d.used = c.used /\ d.applied = c.applied
      /\ d.threw = c.threw /\ d.failure = c.failure
  BY <1>2 DEF CallSet
<1> HIDE DEF d
<1>5. UnderWay(d) /\ TablesKnown(tables["data"], d)
  BY <1>2, <1>3, <1>4 DEF UnderWay, TablesKnown
<1>6. calls[r].at # "over" /\ d.at \in Handling /\ d.answer # Reset
  BY <1>1, <1>3, <1>4, AnswersDiffer DEF c, Handling
<1> QED BY <1>1, <1>3, <1>5, <1>6, GoOnStep

LEMMA ReloadStep == ASSUME IInv, ReloadHooks PROVE IInv'
<1>1. tables["data"] \in Versions /\ tables["data"] + 1 \in Versions
      /\ tables' = [data |-> tables["data"] + 1, schema |-> tables["data"] + 1]
      /\ UNCHANGED <<db, process, open, calls>>
  BY TablesSame, HooksLength DEF IInv, ReloadHooks, Versions
<1>2. StateOK'
  BY <1>1 DEF IInv, StateOK, Versions
<1>3. \A q \in Requests : CallOK(db, tables["data"] + 1, calls[q])
  BY <1>1, LaterOK DEF IInv, Versions
<1>4. ConnectionsKept'
  BY <1>1 DEF IInv, ConnectionsKept
<1> QED BY <1>1, <1>2, <1>3, <1>4 DEF IInv

(* The three ways in which an operation fails.                             *)
LEMMA RefusedStep ==
    ASSUME IInv, NEW r \in Requests, calls[r].at = "operating", process = "up", UNCHANGED <<db, tables>>,
           NEW failure \in Failures, NEW call \in Meets[failure], Raises(db, failure, call) # NotRaised,
           Fail(r, [calls[r] EXCEPT !.failure = <<failure, call>>], DomainError(db, failure, call), 500)
    PROVE  IInv'
<1> DEFINE c == [calls[r] EXCEPT !.failure = <<failure, call>>]
<1>1. /\ calls[r] \in CallSet /\ UnderWay(calls[r]) /\ TablesKnown(tables["data"], calls[r])
      /\ calls[r].applied = "no"
  BY BeforeIt DEF Handling
<1>2. <<failure, call>> \in Reasons
  BY DEF Reasons, Meets, Failures, ChangeFailures, DataCalls, SchemaCalls
<1>3. c \in CallSet /\ c.failure = <<failure, call>>
  BY <1>1, <1>2 DEF CallSet
<1>4. /\ c.route = calls[r].route /\ c.conn = calls[r].conn /\ c.token = calls[r].token
      /\ c.answer = calls[r].answer /\ c.since = calls[r].since /\ c.used = calls[r].used
      /\ c.applied = calls[r].applied /\ c.threw = calls[r].threw
  BY <1>1 DEF CallSet
<1>5. Fail(r, c, DomainError(db, failure, call), 500)
  OBVIOUS
<1> HIDE DEF c
<1>6. MayEnd(c) /\ TablesKnown(tables["data"], c)
  BY <1>1, <1>3, <1>4 DEF UnderWay, MayEnd, TablesKnown
<1>7. DomainError(db, failure, call) \in DomainErrors \cup {"Error", "TypeError"}
  <2>1. Told(db, failure, call)
    BY FailureTold, StoresAssumption DEF IInv, StateOK
  <2> QED BY <2>1 DEF Told, Named, Failures, ChangeFailures, DomainErrors
<1>8. c.failure[1] = failure /\ c.failure[2] = call
  BY <1>3
<1> QED BY <1>1, <1>4, <1>5, <1>6, <1>7, <1>8, FailStep

LEMMA HalfDoneStep ==
    ASSUME IInv, NEW r \in Requests, calls[r].at = "operating", process = "up", UNCHANGED <<db, tables>>,
           NEW half \in {"no", "half"},
           Fail(r, [calls[r] EXCEPT !.applied = half, !.failure = <<"other", "none">>], "Error", 500)
    PROVE  IInv'
<1> DEFINE c == [calls[r] EXCEPT !.applied = half, !.failure = <<"other", "none">>]
<1>1. /\ calls[r] \in CallSet /\ UnderWay(calls[r]) /\ TablesKnown(tables["data"], calls[r])
  BY BeforeIt DEF Handling
<1>2. <<"other", "none">> \in Reasons
  BY DEF Reasons
<1>3. c \in CallSet /\ c.failure = <<"other", "none">> /\ c.applied = half
  BY <1>1, <1>2 DEF CallSet, Effects
<1>4. /\ c.route = calls[r].route /\ c.conn = calls[r].conn /\ c.token = calls[r].token
      /\ c.answer = calls[r].answer /\ c.since = calls[r].since /\ c.used = calls[r].used
      /\ c.threw = calls[r].threw
  BY <1>1 DEF CallSet
<1>5. Fail(r, c, "Error", 500)
  OBVIOUS
<1> HIDE DEF c
<1>6. MayEnd(c) /\ TablesKnown(tables["data"], c)
  BY <1>1, <1>3, <1>4 DEF UnderWay, MayEnd, TablesKnown
<1> QED BY <1>3, <1>4, <1>5, <1>6, FailStep

LEMMA RejectedStep ==
    ASSUME IInv, NEW r \in Requests, calls[r].at = "operating", process = "up", UNCHANGED <<db, open, tables>>,
           calls[r].route \in InfoRoutes, process' = "down",
           calls' = [Lost(Requests) EXCEPT ![r] = [Over(calls[r]) EXCEPT !.failure = <<"other", "none">>,
                        !.answer = IF calls[r].answer = NoAnswer THEN Reset ELSE calls[r].answer]]
    PROVE  IInv'
<1> DEFINE c == [calls[r] EXCEPT !.failure = <<"other", "none">>]
           d == Ended(c, Reset)
<1>1. /\ calls[r] \in CallSet /\ UnderWay(calls[r]) /\ TablesKnown(tables["data"], calls[r])
      /\ calls[r].applied = "no"
  BY BeforeIt DEF Handling
<1>2. <<"other", "none">> \in Reasons
  BY DEF Reasons
<1>3. c \in CallSet /\ c.failure = <<"other", "none">>
  BY <1>1, <1>2 DEF CallSet
<1>4. /\ c.route = calls[r].route /\ c.conn = calls[r].conn /\ c.token = calls[r].token
      /\ c.answer = calls[r].answer /\ c.since = calls[r].since /\ c.used = calls[r].used
      /\ c.applied = calls[r].applied /\ c.threw = calls[r].threw
  BY <1>1 DEF CallSet
<1>5. d = [Over(calls[r]) EXCEPT !.failure = <<"other", "none">>,
              !.answer = IF calls[r].answer = NoAnswer THEN Reset ELSE calls[r].answer]
  BY <1>1, <1>4 DEF Ended, Over, CallSet
<1>6. /\ d.answer = IF c.answer = NoAnswer THEN Reset ELSE c.answer
      /\ d.at = "over" /\ d.route = c.route /\ d.conn = c.conn /\ d.token = c.token
      /\ d.used = c.used /\ d.applied = c.applied /\ d.threw = c.threw /\ d.failure = c.failure
  BY <1>3, EndedFields
<1> HIDE DEF c, d
<1>7. calls'[r] = d /\ DOMAIN calls' = Requests
  BY <1>5 DEF Lost, IInv, StateOK
<1>8. \A q \in Requests \ {r} : Bystander(q)
  <2> SUFFICES ASSUME NEW q \in Requests \ {r} PROVE Bystander(q)
    OBVIOUS
  <2>1. calls'[q] = Lost(Requests)[q]
    BY DEF Lost, IInv, StateOK
  <2> QED BY <2>1 DEF Lost, Bystander
<1>9. Moves(r, d)
  BY <1>3, <1>4, <1>6, <1>7, <1>8, AnswersDiffer DEF Moves, IInv, StateOK, NoFailure
<1>10. d.answer \in {TimedOut, Reset}
  BY <1>1, <1>4, <1>6 DEF UnderWay
<1>11. Honest(d) /\ FailureNamed(db, d) /\ TablesKnown(tables["data"], c)
  BY <1>1, <1>3, <1>4, <1>6, <1>10, AnswersDiffer DEF Honest, FailureNamed, UnderWay, TablesKnown, Failures, ChangeFailures
<1>12. CallOK(db, tables["data"], d)
  <2>1. c.answer \in {NoAnswer, TimedOut, Reset} /\ Reset \in Answers
    BY <1>1, <1>4, AnswersDiffer DEF UnderWay
  <2> QED BY <1>3, <1>11, <2>1, EndedOK DEF d
<1> QED BY <1>9, <1>12, MoveStep

LEMMA OperationFailsStep == ASSUME IInv, NEW r \in Requests, OperationFails(r) PROVE IInv'
<1>1. calls[r].at = "operating" /\ process = "up" /\ UNCHANGED <<db, tables>>
  BY DEF OperationFails
<1>2. CASE \E call \in ProviderCalls(calls[r].route), failure \in Failures :
             /\ call \in Meets[failure] /\ Raises(db, failure, call) # NotRaised
             /\ Fail(r, [calls[r] EXCEPT !.failure = <<failure, call>>], DomainError(db, failure, call), 500)
  BY <1>1, <1>2, RefusedStep
<1>3. CASE \E half \in {"no", "half"} :
             Fail(r, [calls[r] EXCEPT !.applied = half, !.failure = <<"other", "none">>], "Error", 500)
  BY <1>1, <1>3, HalfDoneStep
<1>4. CASE /\ calls[r].route \in InfoRoutes /\ process' = "down" /\ UNCHANGED open
           /\ calls' = [Lost(Requests) EXCEPT ![r] = [Over(calls[r]) EXCEPT !.failure = <<"other", "none">>,
                           !.answer = IF calls[r].answer = NoAnswer THEN Reset ELSE calls[r].answer]]
  BY <1>1, <1>4, RejectedStep
<1> QED BY <1>2, <1>3, <1>4 DEF OperationFails

LEMMA StepIInv == ASSUME IInv, [Next]_vars PROVE IInv'
<1>1. CASE UNCHANGED vars
  BY <1>1 DEF vars, IInv, StateOK, ConnectionsKept
<1>2. CASE ReloadHooks
  BY <1>2, ReloadStep
<1>3. ASSUME NEW r \in Requests,
             \/ Send(r) \/ Receive(r) \/ CallHook(r) \/ HookReturns(r) \/ HookThrows(r) \/ Operate(r)
             \/ OperationDone(r) \/ OperationFails(r) \/ Respond(r) \/ Timeout(r)
      PROVE  IInv'
  BY <1>3, SendStep, ReceiveStep, CallHookStep, HookReturnsStep, HookThrowsStep, OperateStep,
     OperationDoneStep, OperationFailsStep, RespondStep, TimeoutStep
<1> QED BY <1>1, <1>2, <1>3 DEF Next

THEOREM Invariance == Spec => []IInv
<1>1. Init => IInv
  BY InitIInv
<1>2. IInv /\ [Next]_vars => IInv'
  BY StepIInv
<1> QED BY <1>1, <1>2, PTL DEF Spec

-----------------------------------------------------------------------------
(* The properties *)

(* Of TypeOK: the hooks that are left are the last ones of their stage.    *)
LEMMA LastOnes ==
    ASSUME NEW stage, NEW route, NEW todo \in Rests(HooksForAction(stage, route))
    PROVE  todo = SubSeq(HooksForAction(stage, route), 4 - Len(todo), 3)
<1> DEFINE h == HooksForAction(stage, route)
<1>1. PICK a, b, c : h = <<a, b, c>>
  BY DEF HooksForAction
<1> HIDE DEF h
<1>2. todo \in {<<a, b, c>>, <<b, c>>, <<c>>, <<>>}
  BY <1>1 DEF Rests, h
<1> DEFINE s == <<a, b, c>>
           S == {a, b, c}
<1>3. \A m \in 1 .. 4 : /\ SubSeq(s, m, 3) \in Seq(S) /\ Len(SubSeq(s, m, 3)) = 4 - m
                        /\ \A i \in 1 .. 4 - m : SubSeq(s, m, 3)[i] = s[m + i - 1]
  <2> SUFFICES ASSUME NEW m \in 1 .. 4
               PROVE  /\ SubSeq(s, m, 3) \in Seq(S) /\ Len(SubSeq(s, m, 3)) = 4 - m
                      /\ \A i \in 1 .. 4 - m : SubSeq(s, m, 3)[i] = s[m + i - 1]
    OBVIOUS
  <2>1. \A i \in m .. 3 : s[i] \in S
    OBVIOUS
  <2> HIDE DEF s, S
  <2> QED BY <2>1, SubSeqProperties
<1>4. /\ <<a, b, c>> \in Seq(S) /\ <<b, c>> \in Seq(S) /\ <<c>> \in Seq(S)
      /\ s[1] = a /\ s[2] = b /\ s[3] = c
  OBVIOUS
<1> HIDE DEF s, S
<1>5. SubSeq(s, 1, 3) = <<a, b, c>>
  <2> DEFINE u == SubSeq(s, 1, 3)
  <2>1. u \in Seq(S) /\ Len(u) = 3 /\ u[1] = a /\ u[2] = b /\ u[3] = c
    BY <1>3, <1>4
  <2> HIDE DEF u
  <2>2. u = <<a, b, c>>
    BY <2>1
  <2> QED BY <2>2 DEF u
<1>6. SubSeq(s, 2, 3) = <<b, c>>
  <2> DEFINE u == SubSeq(s, 2, 3)
  <2>1. u \in Seq(S) /\ Len(u) = 2 /\ u[1] = b /\ u[2] = c
    BY <1>3, <1>4
  <2> HIDE DEF u
  <2>2. u = <<b, c>>
    BY <2>1
  <2> QED BY <2>2 DEF u
<1>7. SubSeq(s, 3, 3) = <<c>>
  <2> DEFINE u == SubSeq(s, 3, 3)
  <2>1. u \in Seq(S) /\ Len(u) = 1 /\ u[1] = c
    BY <1>3, <1>4
  <2> HIDE DEF u
  <2>2. u = <<c>>
    BY <2>1
  <2> QED BY <2>2 DEF u
<1>8. SubSeq(s, 4, 3) = <<>>
  BY SubSeqEmpty
<1>9. /\ Len(<<a, b, c>>) = 3 /\ Len(<<b, c>>) = 2 /\ Len(<<c>>) = 1 /\ Len(<<>>) = 0
      /\ 4 - 3 = 1 /\ 4 - 2 = 2 /\ 4 - 1 = 3 /\ 4 - 0 = 4
  OBVIOUS
<1>10. todo = SubSeq(s, 4 - Len(todo), 3)
  BY <1>2, <1>5, <1>6, <1>7, <1>8, <1>9, Zenon
<1> QED BY <1>1, <1>10 DEF h, s

(* A request is at a place of its handler with what that place needs, and  *)
(* with what its failure is called by the database (TypeOK).               *)
THEOREM TypeCorrect == Spec => []TypeOK
<1>1. IInv => TypeOK
  <2> SUFFICES ASSUME IInv PROVE TypeOK
    OBVIOUS
  <2>1. /\ db \in Stores /\ process \in {"up", "down"} /\ open \subseteq Connections
        /\ tables \in [{"data", "schema"} -> 1..Len(Hooks)]
    BY DEF IInv, StateOK
  <2>2. ASSUME NEW r \in Requests
        PROVE  LET c == calls[r] IN
          /\ c.at \in {"unsent", "sent", "hooks", "inHook", "operating", "over"}
          /\ c.route \in Routes \cup {"none"} /\ c.conn \in Connections \cup {"none"}
          /\ c.token \in {"valid", "wrong", "empty", "none"}
          /\ c.answer \in Answers /\ c.payload \in {"given", "hollow"}
          /\ c.stage \in {"before", "after"} /\ c.threw \subseteq {"before", "after"}
          /\ c.at \in {"hooks", "inHook"} =>
                /\ c.todo = SubSeq(HooksForAction(c.stage, c.route), 4 - Len(c.todo), 3)
                /\ c.route \in DataRoutes \cup SchemaRoutes
          /\ c.at = "inHook" => c.todo # <<>>
          /\ c.since \in 0..Len(Hooks) /\ c.used \subseteq 1..Len(Hooks)
          /\ c.applied \in {"no", "half", "yes", "late"}
          /\ c.failure[1] \in Failures \cup {"none", "other"} /\ c.failure[2] \in DataCalls \cup SchemaCalls \cup {"none"}
          /\ c.failure[1] \in Failures => DomainError(db, c.failure[1], c.failure[2]) \in DomainErrors \cup {"Error"}
    <3> DEFINE c == calls[r]
    <3>1. CallOK(db, tables["data"], c)
      BY DEF IInv
    <3> HIDE DEF c
    <3>2. /\ c.at \in {"unsent", "sent", "hooks", "inHook", "operating", "over"}
          /\ c.route \in Routes \cup {"none"} /\ c.conn \in Connections \cup {"none"}
          /\ c.token \in {"valid", "wrong", "empty", "none"}
          /\ c.answer \in Answers /\ c.payload \in {"given", "hollow"}
          /\ c.stage \in {"before", "after"} /\ c.threw \subseteq {"before", "after"}
          /\ c.applied \in {"no", "half", "yes", "late"}
      BY <3>1 DEF CallOK, CallSet, Places, Handling, Tokens, Payloads, Stages, Effects
    <3>3. c.since \in 0..Len(Hooks) /\ c.used \subseteq 1..Len(Hooks)
      BY <3>1, HooksLength DEF CallOK, CallSet, Versions
    <3>4. /\ c.failure[1] \in Failures \cup {"none", "other"}
          /\ c.failure[2] \in DataCalls \cup SchemaCalls \cup {"none"}
          /\ c.failure[1] \in Failures => DomainError(db, c.failure[1], c.failure[2]) \in DomainErrors \cup {"Error"}
      BY <3>1 DEF CallOK, CallSet, Reasons, FailureNamed
    <3>5. /\ c.at \in {"hooks", "inHook"} =>
                /\ c.todo = SubSeq(HooksForAction(c.stage, c.route), 4 - Len(c.todo), 3)
                /\ c.route \in DataRoutes \cup SchemaRoutes
          /\ c.at = "inHook" => c.todo # <<>>
      BY <3>1, LastOnes DEF CallOK, UnderWay, Handling
    <3> QED BY <3>2, <3>3, <3>4, <3>5 DEF c
  <2> QED BY <2>1, <2>2 DEF TypeOK
<1> QED BY <1>1, Invariance, PTL

(* What a client is told agrees with what was done for it, and nothing is  *)
(* done for a request without its token (HonestAnswers).                   *)
THEOREM AnswersAreHonest == Spec => []HonestAnswers
<1>1. IInv => HonestAnswers
  BY DEF IInv, CallOK, Honest, HonestAnswers
<1> QED BY <1>1, Invariance, PTL

(* Connections and the process go down only by a request that ended after  *)
(* its 408, or by an information route that failed (ConnectionsKept).      *)
THEOREM ConnectionsAreKept == Spec => []ConnectionsKept
<1>1. IInv => ConnectionsKept
  BY DEF IInv
<1> QED BY <1>1, Invariance, PTL

(* A reload takes hold of all requests that arrive after it, and mixes     *)
(* tables only in those that it meets on their way (ReloadTakesHold).      *)
THEOREM ReloadsTakeHold == Spec => []ReloadTakesHold
<1>1. IInv => ReloadTakesHold
  <2> SUFFICES ASSUME IInv, NEW r \in Requests
               PROVE  /\ \A version \in calls[r].used : version >= calls[r].since
                      /\ Cardinality(calls[r].used) > 1 => calls[r].since < tables[TableOf(calls[r].route)]
    BY DEF ReloadTakesHold
  <2> DEFINE c == calls[r]
             now == tables["data"]
  <2>1. CallOK(db, now, c) /\ now \in Int /\ tables[TableOf(c.route)] = now
    BY TablesSame DEF IInv, Versions
  <2> HIDE DEF c, now
  <2>2. c.used \subseteq c.since .. now /\ c.since <= now /\ c.since \in Int
    BY <2>1 DEF CallOK, TablesKnown, CallSet, Versions
  <2>3. ASSUME c.since >= now PROVE Cardinality(c.used) <= 1
    <3>1. c.used = {} \/ c.used = {now}
      BY <2>1, <2>2, <2>3
    <3>2. Cardinality({}) = 0 /\ Cardinality({now}) = 1
      BY FS_EmptySet, FS_Singleton
    <3> QED BY <3>1, <3>2
  <2>4. Cardinality(c.used) > 1 => c.since < now
    <3>1. c.used \subseteq c.since .. now /\ IsFiniteSet(c.since .. now)
      BY <2>1, <2>2, FS_Interval
    <3>2. Cardinality(c.used) \in Nat
      BY <3>1, FS_Subset, FS_CardinalityType
    <3> QED BY <2>1, <2>2, <2>3, <3>2
  <2> QED BY <2>1, <2>2, <2>4 DEF c
<1> QED BY <1>1, Invariance, PTL

(* A failure has one name for the client, whichever of the eight databases *)
(* had it, but for those that Untold lists (FailuresTold).                 *)
THEOREM FailuresAreTold == Spec => []FailuresTold
<1>1. IInv => FailuresTold
  BY DEF IInv, CallOK, FailureNamed, FailuresTold
<1> QED BY <1>1, Invariance, PTL

=============================================================================
