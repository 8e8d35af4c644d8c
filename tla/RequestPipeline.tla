---------------------------- MODULE RequestPipeline ----------------------------
(***************************************************************************)
(* The router of velo-external-db-core: what happens to a request from its *)
(* arrival to its answer. A request is a token, verified and decoded; then *)
(* a timer is set, the hooks that come before the operation are called one *)
(* after the other, the operation, the hooks that come after it, and the   *)
(* answer is sent; whatever is thrown goes to the error middleware.        *)
(*                                                                         *)
(* Steps that a request takes without waiting are one action. Between two  *)
(* hooks the handler waits, even for a hook that is not there, so other    *)
(* requests, the timer and a reload of the hooks come in between. A hook   *)
(* and an operation may take for ever.                                     *)
(***************************************************************************)
EXTENDS ErrorTranslation, SequencesExt

CONSTANTS Requests,     \* the requests that are sent
          Connections,  \* the kept-alive connections they are sent over
          Routes,       \* the routes they ask for
          Stores,       \* the databases behind the router
          Hooks         \* the tables of hooks that initServices is given in turn: a sequence of sets of hook names

VARIABLES db,       \* the database
          process,  \* "up", or "down" after a rejection nobody handles
          open,     \* the connections that have not been destroyed
          tables,   \* dataHooks and schemaHooks, each the number of the table it was set from
          calls     \* the requests

vars == <<db, process, open, tables, calls>>

-----------------------------------------------------------------------------
DataRoutes == {"query", "count", "aggregate", "insert", "update", "remove", "truncate"}
SchemaRoutes == {"get", "create", "updateSchema", "delete"}
IndexRoutes == {"listIndexes", "createIndex", "removeIndex"}
InfoRoutes == {"info", "connectionStatus"}  \* "/" and /connectionStatus
FixedRoutes == {"capabilities", "provision"}

PathOf(route) ==
    CASE route \in DataRoutes -> <<"v3", "items", route>> [] route \in IndexRoutes -> <<"v3", "indexes", route>>
      [] route \in SchemaRoutes -> <<"v3", "collections", route>> [] route = "capabilities" -> <<"v3", "capabilities", "get">>
      [] route = "provision" -> <<"v3", "provision">> [] route = "info" -> <<>> [] route = "connectionStatus" -> <<"connectionStatus">>
      [] route = "none" -> <<"none">>

\* unless: the paths that need no token, of which those of capabilities and provision are not their routes' any more.
Unverified(route) ==
    PathOf(route) \in {<<>>, <<"info">>, <<"capabilities">>, <<"favicon.ico">>, <<"provision">>, <<"connectionStatus">>}

\* includes, authRoleMiddleware: the paths of roles-config.json want a role in the body's requestContext, which the requests
\* of this protocol do not have: they would be refused, if their paths began like that.
NeedsRole(route) ==
    \E prefix \in {<<"schemas", "column">>, <<"schemas", "create">>, <<"schemas", "list">>, <<"schemas", "find">>}:
        IsPrefix(prefix, PathOf(route))

\* verifyAndDecode and its middleware: what a token is thrown out with. "empty" is one whose data names no request.
TokenError(token) == CASE token = "valid" -> "none" [] token = "wrong" -> "UnauthorizedError" [] token = "empty" -> "TypeError"

\* The call of the provider that a data route ends in; a schema update makes the three that change a column.
ProviderCalls(route) ==
    CASE route = "query" -> {"find", "count"} [] route = "count" -> {"count"} [] route = "aggregate" -> {"aggregate"}
      [] route = "insert" -> {"insert"} [] route = "update" -> {"update"} [] route = "remove" -> {"delete"}
      [] route = "truncate" -> {"truncate"} [] route = "updateSchema" -> SchemaCalls
      [] route \notin DataRoutes \cup {"updateSchema"} -> {}

Reads == {"query", "count", "aggregate", "get"}

\* DataHooksForAction and SchemaHooksForAction.
HooksForAction(stage, route) ==
    << <<stage, "All">>, <<stage, IF route \in Reads THEN "Read" ELSE "Write">>, <<stage, route>> >>

HookNames == {<<stage, which>>: stage \in {"before", "after"}, which \in {"All", "Read", "Write"} \cup DataRoutes \cup SchemaRoutes}

ASSUME StoresAssumption == Stores \subseteq Databases

ASSUME HooksAssumption == Hooks \in Seq(SUBSET HookNames) /\ Hooks # <<>>

TableOf(route) == IF route \in DataRoutes THEN "data" ELSE "schema"

-----------------------------------------------------------------------------
NoAnswer == [code |-> "none", status |-> 0]
Done == [code |-> "ok", status |-> 200]
TimedOut == [code |-> "timeout", status |-> 408]
Reset == [code |-> "reset", status |-> 0]  \* the connection or the process is gone

NoFailure == <<"none", "none">>

\* A request before it is sent.
Unsent == [at |-> "unsent", route |-> "none", conn |-> "none", token |-> "none", todo |-> <<>>, stage |-> "before",
           payload |-> "given", answer |-> NoAnswer, since |-> 0, used |-> {}, applied |-> "no", threw |-> {}, failure |-> NoFailure]

Waiting(c) == c.at \notin {"unsent", "over"} /\ c.answer = NoAnswer

Init ==
    /\ db \in Stores
    /\ process = "up"
    /\ open = Connections
    /\ tables = [data |-> 1, schema |-> 1]
    /\ calls = [r \in Requests |-> Unsent]

Set(r, c) == calls' = [calls EXCEPT ![r] = c]

\* A client sends its next request over a connection when the last one has been answered.
Send(r) ==
    /\ calls[r].at = "unsent" /\ process = "up"
    /\ \E route \in Routes, conn \in open, token \in {"valid", "wrong", "empty"}:
          /\ \A other \in Requests: calls[other].conn = conn => ~Waiting(calls[other])
          /\ Set(r, [Unsent EXCEPT !.at = "sent", !.route = route, !.conn = conn, !.token = token])
    /\ UNCHANGED <<db, process, open, tables>>

\* Those who wait on what goes down with it are never answered.
Lost(who) == [r \in Requests |-> IF r \in who /\ Waiting(calls[r]) THEN [calls[r] EXCEPT !.answer = Reset] ELSE calls[r]]

\* The handler has ended; what it worked on is garbage.
Over(c) == [c EXCEPT !.at = "over", !.todo = <<>>, !.stage = "before", !.payload = "given"]

(* Mutant: the handlers of data and collections have no catch either. *)
AnswerUncaught(r, c, answer) ==
    \/ /\ c.answer # TimedOut
       /\ Set(r, [Over(c) EXCEPT !.answer = IF @ = Reset THEN @ ELSE answer])
       /\ UNCHANGED <<process, open>>
    \/ /\ c.answer = TimedOut
       /\ process' = "down"
       /\ calls' = [Lost(Requests) EXCEPT ![r] = Over(c)]
       /\ UNCHANGED open

\* The handler ends with an answer. Nobody sees it when the connection is gone. When the timer has answered, sending
\* throws: the routes without a catch end the process, the others pass the error to the error middleware, which throws
\* for the same reason, and Express destroys the socket of the request, by now perhaps that of the client's next one.
Answer(r, c, answer) ==
    \/ /\ c.answer = NoAnswer
       /\ Set(r, [Over(c) EXCEPT !.answer = answer])
       /\ UNCHANGED <<process, open>>
    \/ /\ c.answer = Reset
       /\ Set(r, Over(c))
       /\ UNCHANGED <<process, open>>
    \/ /\ c.answer = TimedOut /\ c.route \notin InfoRoutes
       /\ open' = open \ {c.conn}
       /\ calls' = [Lost({q \in Requests: calls[q].conn = c.conn}) EXCEPT ![r] = Over(c)]
       /\ UNCHANGED process
    \/ /\ c.answer = TimedOut /\ c.route \in InfoRoutes
       /\ process' = "down"
       /\ calls' = [Lost(Requests) EXCEPT ![r] = Over(c)]
       /\ UNCHANGED open

\* next(e): the error middleware answers what the translator makes of the error.
Fail(r, c, name, status) == Answer(r, c, domainToSpiErrorTranslator(name, status))

(* Mutant: the refusal does not keep the request from going on. *)
ReceiveUnstopped(r) ==
    LET c == calls[r]
    IN  /\ c.at = "sent"
        /\ process = "up"
        /\ IF c.route \in FixedRoutes THEN Answer(r, c, Done)
           ELSE /\ Set(r, [c EXCEPT !.since = tables["data"], !.at = IF c.route \in IndexRoutes \cup InfoRoutes THEN "operating" ELSE "hooks",
                                    !.todo = IF c.route \in IndexRoutes \cup InfoRoutes THEN <<>> ELSE HooksForAction("before", c.route)])
                /\ UNCHANGED <<process, open>>
        /\ UNCHANGED <<db, tables>>

\* From the body to the first wait of the handler: the token, the roles, the timer, and the handler, of which those of
\* indexes and information call their service at once.
Receive(r) ==
    LET c == [calls[r] EXCEPT !.since = tables["data"]]
        refusal == IF ~Unverified(c.route) /\ TokenError(c.token) # "none" THEN TokenError(c.token)
                   ELSE IF NeedsRole(c.route) THEN "UnauthorizedError" ELSE "none"
    IN  /\ c.at = "sent"
        /\ process = "up"
        /\ \/ refusal # "none" /\ Fail(r, c, refusal, 500)
           \/ refusal = "none" /\ c.route \in FixedRoutes /\ Answer(r, c, Done)
           \/ /\ refusal = "none" /\ c.route \in IndexRoutes \cup InfoRoutes
              /\ Set(r, [c EXCEPT !.at = "operating"])
              /\ UNCHANGED <<process, open>>
           \/ /\ refusal = "none" /\ c.route \in DataRoutes \cup SchemaRoutes
              /\ Set(r, [c EXCEPT !.at = "hooks", !.todo = HooksForAction("before", c.route)])
              /\ UNCHANGED <<process, open>>
        /\ UNCHANGED <<db, tables>>

\* executeHook: the hook is looked up when its turn comes, in the table of that moment; one that is missing is skipped.
CallHook(r) ==
    LET c == calls[r]
        table == tables[TableOf(c.route)]
    IN  /\ c.at = "hooks" /\ c.todo # <<>> /\ process = "up"
        /\ IF Head(c.todo) \in Hooks[table]
           THEN Set(r, [c EXCEPT !.at = "inHook", !.used = c.used \cup {table}])
           ELSE Set(r, [c EXCEPT !.todo = Tail(c.todo)])
        /\ UNCHANGED <<db, process, open, tables>>

\* What a hook gives back takes the place of the payload unless it is falsy; it may lack what the handler looks for.
HookReturns(r) ==
    LET c == calls[r]
    IN  /\ c.at = "inHook" /\ process = "up"
        /\ \E result \in {"falsy", "given", "hollow"}:
              Set(r, [c EXCEPT !.at = "hooks", !.todo = Tail(c.todo), !.payload = IF result = "falsy" THEN @ ELSE result])
        /\ UNCHANGED <<db, process, open, tables>>

\* An error with a status keeps it, any other becomes an UnrecognizedError.
HookThrows(r) ==
    LET c == [calls[r] EXCEPT !.threw = @ \cup {calls[r].stage}]
    IN  /\ c.at = "inHook" /\ process = "up"
        /\ \E status \in {403, 500}: Fail(r, c, IF status = 500 THEN "UnrecognizedError" ELSE "Error", status)
        /\ UNCHANGED <<db, tables>>

\* The handler takes its arguments from the payload, of which query reads a property at once, and calls the service.
Operate(r) ==
    LET c == calls[r]
    IN  /\ c.at = "hooks" /\ c.todo = <<>> /\ c.stage = "before" /\ process = "up"
        /\ IF c.payload = "hollow" /\ c.route = "query"
           THEN Fail(r, c, "TypeError", 500)
           ELSE Set(r, [c EXCEPT !.at = "operating"]) /\ UNCHANGED <<process, open>>
        /\ UNCHANGED <<db, tables>>

(* Mutant: the hooks that come before the operation are called again after it. *)
OperationDoneBeforeAgain(r) ==
    LET c == [calls[r] EXCEPT !.applied = IF calls[r].answer = NoAnswer THEN "yes" ELSE "late"]
    IN  /\ c.at = "operating" /\ process = "up" /\ (c.payload = "hollow" => c.route = "get")
        /\ IF c.route \in DataRoutes \cup SchemaRoutes
           THEN /\ Set(r, [c EXCEPT !.at = "hooks", !.stage = "after", !.payload = "given", !.todo = HooksForAction("before", c.route)])
                /\ UNCHANGED <<process, open>>
           ELSE Answer(r, c, Done)
        /\ UNCHANGED <<db, tables>>

\* The operation is done; the results are the payload of the hooks that come after it.
OperationDone(r) ==
    LET c == [calls[r] EXCEPT !.applied = IF calls[r].answer = NoAnswer THEN "yes" ELSE "late"]
    IN  /\ c.at = "operating" /\ process = "up" /\ (c.payload = "hollow" => c.route = "get")
        /\ IF c.route \in DataRoutes \cup SchemaRoutes
           THEN /\ Set(r, [c EXCEPT !.at = "hooks", !.stage = "after", !.payload = "given", !.todo = HooksForAction("after", c.route)])
                /\ UNCHANGED <<process, open>>
           ELSE Answer(r, c, Done)
        /\ UNCHANGED <<db, tables>>

\* The database refuses the call for one of the reasons it has, or the operation fails otherwise, at once or halfway;
\* without a collection to work on it always does. A rejected information route is nobody's to catch.
OperationFails(r) ==
    LET c == calls[r]
    IN  /\ c.at = "operating" /\ process = "up"
        /\ \/ \E call \in ProviderCalls(c.route), failure \in Failures:
                 /\ call \in Meets[failure] /\ c.payload # "hollow"
                 /\ Raises(db, failure, call) # NotRaised
                 /\ Fail(r, [c EXCEPT !.failure = <<failure, call>>], DomainError(db, failure, call), 500)
           \/ \E half \in IF c.route \in Reads \cup IndexRoutes \/ c.payload = "hollow" THEN {"no"} ELSE {"no", "half"}:
                 /\ c.route \notin InfoRoutes
                 /\ Fail(r, [c EXCEPT !.applied = half, !.failure = <<"other", "none">>], "Error", 500)
           \/ /\ c.route \in InfoRoutes
              /\ process' = "down"
              /\ calls' = [Lost(Requests) EXCEPT ![r] = [Over(c) EXCEPT !.failure = <<"other", "none">>,
                                                        !.answer = IF c.answer = NoAnswer THEN Reset ELSE c.answer]]
              /\ UNCHANGED open
        /\ UNCHANGED <<db, tables>>

\* All hooks have been called. query and aggregate count the items, which a hook may have left out.
Respond(r) ==
    LET c == calls[r]
    IN  /\ c.at = "hooks" /\ c.todo = <<>> /\ c.stage = "after" /\ process = "up"
        /\ IF c.payload = "hollow" /\ c.route \in {"query", "aggregate"}
           THEN Fail(r, [c EXCEPT !.threw = @ \cup {"after"}], "TypeError", 500)
           ELSE Answer(r, c, Done)
        /\ UNCHANGED <<db, tables>>

(* Mutant: the timer watches the operation only. *)
TimeoutOfOperation(r) ==
    /\ calls[r].at = "operating" /\ calls[r].answer = NoAnswer /\ process = "up"
    /\ Set(r, [calls[r] EXCEPT !.answer = TimedOut])
    /\ UNCHANGED <<db, process, open, tables>>

\* Two minutes without an answer: 408, while the handler goes on.
Timeout(r) ==
    /\ calls[r].at \in {"hooks", "inHook", "operating"} /\ calls[r].answer = NoAnswer /\ process = "up"
    /\ Set(r, [calls[r] EXCEPT !.answer = TimedOut])
    /\ UNCHANGED <<db, process, open, tables>>

(* Mutant: the hooks of collections are not set again. *)
ReloadDataHooks ==
    /\ tables["data"] < Len(Hooks) /\ process = "up"
    /\ tables' = [tables EXCEPT !["data"] = @ + 1]
    /\ UNCHANGED <<db, process, open, calls>>

\* reloadHooks: initServices sets both tables, under the requests that are being handled.
ReloadHooks ==
    /\ tables["data"] < Len(Hooks) /\ process = "up"
    /\ tables' = [data |-> tables["data"] + 1, schema |-> tables["data"] + 1]
    /\ UNCHANGED <<db, process, open, calls>>

Next ==
    \/ ReloadHooks
    \/ \E r \in Requests:
          Send(r) \/ Receive(r) \/ CallHook(r) \/ HookReturns(r) \/ HookThrows(r) \/ Operate(r)
            \/ OperationDone(r) \/ OperationFails(r) \/ Respond(r) \/ Timeout(r)

Spec == Init /\ [][Next]_vars

\* The event loop runs what is ready and the timer goes off; nothing is assumed of hooks, operations and clients.
FairSpec == Spec /\ \A r \in Requests: WF_vars(Receive(r)) /\ WF_vars(Timeout(r))

-----------------------------------------------------------------------------
(* Properties *)

Answers == {NoAnswer, Done, TimedOut, Reset} \cup {domainToSpiErrorTranslator(name, status): name \in DomainErrors, status \in {403, 500}}

\* Every request is at a place of its handler with what that place needs: hooks are left of the stage it is in, and the
\* versions of tables it has used exist.
TypeOK ==
    /\ db \in Stores /\ process \in {"up", "down"} /\ open \subseteq Connections
    /\ tables \in [{"data", "schema"} -> 1..Len(Hooks)]
    /\ \A r \in Requests: LET c == calls[r] IN
          /\ c.at \in {"unsent", "sent", "hooks", "inHook", "operating", "over"}
          /\ c.route \in Routes \cup {"none"} /\ c.conn \in Connections \cup {"none"}
          /\ c.token \in {"valid", "wrong", "empty", "none"}
          /\ c.answer \in Answers /\ c.payload \in {"given", "hollow"}
          /\ c.stage \in {"before", "after"} /\ c.threw \subseteq {"before", "after"}
          /\ c.at \in {"hooks", "inHook"} =>
                /\ c.todo = SubSeq(HooksForAction(c.stage, c.route), 4 - Len(c.todo), 3)
                /\ c.route \in DataRoutes \cup SchemaRoutes
          /\ c.at = "inHook" => c.todo # <<>>
          /\ c.since \in 0..Len(Hooks) /\ c.used \subseteq 1..Len(Hooks)
          /\ c.applied \in {"no", "half", "yes", "late"}
          /\ c.failure[1] \in Failures \cup {"none", "other"} /\ c.failure[2] \in DataCalls \cup SchemaCalls \cup {"none"}
          /\ c.failure[1] \in Failures => DomainError(db, c.failure[1], c.failure[2]) \in DomainErrors \cup {"Error"}

\* What the client is told against what was done (router.ts, the handlers and the error middleware). Success: the
\* operation was done, with a token where one is needed, and no hook threw. An error: nothing was done, unless the
\* operation stopped halfway or a hook that came after it failed. An operation goes on after an answer only when the
\* timer gave it or the connection was lost, and one that is refused calls no hook and has no effect.
HonestAnswers ==
    \A r \in Requests: LET c == calls[r] IN
        /\ c.answer = Done =>
              /\ (c.applied = "yes" \/ c.route \in FixedRoutes)
              /\ (Unverified(c.route) \/ c.token = "valid")
              /\ c.threw = {} /\ c.failure = NoFailure
        /\ c.answer \notin {NoAnswer, Done, TimedOut, Reset} /\ c.applied # "no" =>
              (c.applied = "half" \/ c.threw = {"after"})
        /\ c.applied = "late" => c.answer \in {TimedOut, Reset}
        /\ c.token # "valid" /\ ~Unverified(c.route) => c.applied = "no" /\ c.used = {} /\ c.threw = {}

\* A connection is destroyed, and with it whatever its client has asked since, only after a request on it was answered
\* 408 and its handler ended later; the process ends only by a route that has no catch, whose operation was rejected or
\* ended after the 408 (router.ts:110-118 and 121-153).
ConnectionsKept ==
    /\ \A conn \in Connections \ open: \E r \in Requests:
          calls[r].conn = conn /\ calls[r].answer = TimedOut /\ calls[r].at = "over"
    /\ process = "down" => \E r \in Requests:
          /\ calls[r].route \in InfoRoutes /\ calls[r].at = "over"
          /\ (calls[r].failure # NoFailure \/ calls[r].answer = TimedOut)
    /\ \A r \in Requests: calls[r].answer = Reset => (process = "down" \/ calls[r].conn \notin open)

\* A request calls no hook of a table that had been replaced when it arrived, whether it is about data or about
\* collections; hooks of two tables serve one request only when the tables were replaced while it was handled
\* (executeHook reads the module's table at each hook; index.ts:77).
ReloadTakesHold ==
    \A r \in Requests: LET c == calls[r] IN
        /\ \A version \in c.used: version >= c.since
        /\ Cardinality(c.used) > 1 => c.since < tables[TableOf(c.route)]

\* One failure has one name for the client, whichever database had it and whichever call met it, but for the pairs Untold
\* names (the exception translators and domainToSpiErrorTranslator).
FailuresTold ==
    \A r \in Requests: LET c == calls[r] IN
        /\ c.failure[1] \in Failures /\ ~Untold(db, c.failure[1], c.failure[2])
        /\ c.answer \notin {TimedOut, Reset}
        => c.answer.code = Promised[c.failure[1]]

\* Every request that is sent is answered, if only by the timer, or its connection or the process is gone, although a
\* hook or an operation may never end (router.ts:110-118).
EveryRequestEnds == \A r \in Requests: calls[r].at = "sent" ~> (calls[r].answer # NoAnswer \/ process = "down")

=============================================================================
