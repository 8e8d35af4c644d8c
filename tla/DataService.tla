----------------------------- MODULE DataService -----------------------------
(***************************************************************************)
(* DataService: the requests that read and write the items of a collection *)
(* (libs/velo-external-db-core/src/service/data.ts).                       *)
(*                                                                         *)
(* A bulk insert or update is one storage call per item, all issued at     *)
(* once, and answers a list of results, one per position, when all have    *)
(* settled.  A bulk delete reads every item, and then deletes them in one  *)
(* call.  A find with a total count issues two calls and awaits the items  *)
(* first: the count has no handler until the items are there, and a        *)
(* rejection that has none ends the process (Node 20, and the repository   *)
(* installs no handler of its own).                                        *)
(*                                                                         *)
(* The service leaves it to the database whether an id may be there twice. *)
(* Most have a key and refuse that; BigQuery appends what it is given.     *)
(***************************************************************************)
EXTENDS Naturals, Sequences, SequencesExt

CONSTANTS
    Tasks,        \* concurrent requests
    Ids,          \* the identifiers of items
    Values,       \* what an item holds besides its identifier
    Bulks,        \* the lists of items that requests come with
    Kinds,        \* the requests that arrive
    Stores,       \* the databases: with a key, or appending as BigQuery does
    MaxRequests,  \* bound on the requests
    MaxFailures   \* bound on the storage calls that fail

ASSUME DataServiceAssumption ==
    /\ Bulks \subseteq Seq([id : Ids, value : Values])
    /\ Stores \subseteq {"keyed", "appending"}
    /\ MaxRequests \in Nat /\ MaxFailures \in Nat

VARIABLES
    store,     \* the database
    rows,      \* rows[id]: the values of the rows with this id
    pc,        \* pc[t]: what request t waits for
    req,       \* req[t]: its kind and its list of items
    todo,      \* todo[t]: positions whose storage call has not settled
    result,    \* result[t]: the results by position
    orphans,   \* counts under way whose find has ended
    answer,    \* answer[t]: how the last request of t ended
    effects,   \* history: <<t, i>>, position i of t has changed the table
    winners,   \* history: insertions of an id answered ok since a removal
    before,    \* history: the table when t began
    alone,     \* history: nobody else was active since t began
    requests,  \* requests so far
    failures   \* failures so far

history == <<effects, winners, before, alone>>
vars == <<store, rows, pc, req, todo, result, orphans, answer, history, requests, failures>>

Positions(t) == DOMAIN req[t].items
Item(t, i)   == req[t].items[i]

Init ==
    /\ store \in Stores
    /\ rows = [id \in Ids |-> <<>>]
    /\ pc = [t \in Tasks |-> "idle"]
    /\ req = [t \in Tasks |-> [kind |-> "none", items |-> <<>>]]
    /\ todo = [t \in Tasks |-> {}]
    /\ result = [t \in Tasks |-> <<>>]
    /\ orphans = 0
    /\ answer = [t \in Tasks |-> "none"]
    /\ effects = {}
    /\ winners = [id \in Ids |-> 0]
    /\ before = [t \in Tasks |-> rows]
    /\ alone = [t \in Tasks |-> FALSE]
    /\ requests = 0
    /\ failures = 0

-----------------------------------------------------------------------------
FirstStep(kind) ==
    CASE kind \in {"insert", "update"}    -> "writing"
      [] kind = "delete"                  -> "reading"
      [] kind \in {"upsert", "truncate"}  -> "calling"
      [] kind \in {"find", "findCounted"} -> "finding"

Begin(t, kind, items) ==
    /\ pc[t] = "idle"
    /\ requests < MaxRequests
    /\ requests' = requests + 1
    /\ pc' = [pc EXCEPT ![t] = FirstStep(kind)]
    /\ req' = [req EXCEPT ![t] = [kind |-> kind, items |-> items]]
    /\ todo' = [todo EXCEPT ![t] = IF kind = "upsert" THEN {} ELSE DOMAIN items]
    /\ result' = [result EXCEPT ![t] = [i \in DOMAIN items |-> "pending"]]
    /\ answer' = [answer EXCEPT ![t] = "none"]
    /\ effects' = {e \in effects : e[1] # t}
    /\ before' = [before EXCEPT ![t] = rows]
    /\ alone' = [u \in Tasks |-> u = t /\ \A v \in Tasks : pc[v] = "idle"]
    /\ UNCHANGED <<rows, orphans, winners, failures>>

End(t, how) ==
    /\ pc' = [pc EXCEPT ![t] = "idle"]
    /\ answer' = [answer EXCEPT ![t] = how]

(* Mutant: results are listed in the order in which the calls settle. *)
SettleInOrder(t, i, r) ==
    /\ todo' = [todo EXCEPT ![t] = @ \ {i}]
    /\ result' = [result EXCEPT ![t][Len(req[t].items) - Cardinality(todo[t]) + 1] = r]

(* The call of position i settles with r. *)
Settle(t, i, r) ==
    /\ todo' = [todo EXCEPT ![t] = @ \ {i}]
    /\ result' = [result EXCEPT ![t][i] = r]

(* A storage call is answered, or it breaks, within the bound on failures.  *)
Works  == UNCHANGED failures
Breaks == failures < MaxFailures /\ failures' = failures + 1

-----------------------------------------------------------------------------
(* bulkInsert and bulkUpdate *)

Missing(id) == rows[id] = <<>>
Refused(id) == store = "keyed" /\ ~ Missing(id)
Added(item) == [rows EXCEPT ![item.id] = Append(@, item.value)]
Set(item)   == [rows EXCEPT ![item.id] = [n \in DOMAIN @ |-> item.value]]

UpdateResults(id) ==
    IF store = "appending" THEN {"ok", "ItemDoesNotExists"}
    ELSE IF Missing(id) THEN {"ItemDoesNotExists"} ELSE {"ok"}

(* Mutant: items are inserted as an upsert does, over what is there. *)
InsertOver(t, i) ==
    /\ pc[t] = "writing" /\ req[t].kind = "insert" /\ i \in todo[t]
    /\ Works
    /\ LET item == Item(t, i)
       IN  /\ Settle(t, i, "ok")
           /\ rows' = IF Refused(item.id) THEN Set(item) ELSE Added(item)
           /\ winners' = [winners EXCEPT ![item.id] = @ + 1]
           /\ effects' = effects \cup {<<t, i>>}
    /\ UNCHANGED <<pc, req, orphans, answer, before, alone, requests>>

Insert(t, i) ==
    /\ pc[t] = "writing" /\ req[t].kind = "insert" /\ i \in todo[t]
    /\ Works
    /\ LET item == Item(t, i)
       IN  IF Refused(item.id)
             THEN /\ Settle(t, i, "ItemAlreadyExists")
                  /\ UNCHANGED <<rows, effects, winners>>
             ELSE /\ Settle(t, i, "ok")
                  /\ rows' = Added(item)
                  /\ winners' = [winners EXCEPT ![item.id] = @ + 1]
                  /\ effects' = effects \cup {<<t, i>>}
    /\ UNCHANGED <<pc, req, orphans, answer, before, alone, requests>>

(* The provider answers the number of rows, and any but one is an error.   *)
(* BigQuery's counts the rows that a statement answers, which for an update*)
(* is not for this code to say.                                            *)
Update(t, i) ==
    /\ pc[t] = "writing" /\ req[t].kind = "update" /\ i \in todo[t]
    /\ Works
    /\ LET item == Item(t, i)
       IN  /\ \E r \in UpdateResults(item.id) : Settle(t, i, r)
           /\ rows' = Set(item)
           /\ effects' = IF Missing(item.id) THEN effects ELSE effects \cup {<<t, i>>}
    /\ UNCHANGED <<pc, req, orphans, answer, winners, before, alone, requests>>

(* A call that fails may have been carried out. *)
WriteFails(t, i) ==
    /\ pc[t] = "writing" /\ i \in todo[t]
    /\ Breaks
    /\ Settle(t, i, "UnknownError")
    /\ LET item == Item(t, i)
       IN  \/ UNCHANGED <<rows, effects>>
           \/ /\ \/ req[t].kind = "insert" /\ ~ Refused(item.id) /\ rows' = Added(item)
                 \/ req[t].kind = "update" /\ ~ Missing(item.id) /\ rows' = Set(item)
              /\ effects' = effects \cup {<<t, i>>}
    /\ UNCHANGED <<pc, req, orphans, answer, winners, before, alone, requests>>

(* Mutant: the answer does not wait for the calls. *)
WritesUnawaited(t) ==
    /\ pc[t] = "writing"
    /\ End(t, "sent")
    /\ UNCHANGED <<rows, req, todo, result, orphans, history, requests, failures>>

WritesSettled(t) ==
    /\ pc[t] = "writing" /\ todo[t] = {}
    /\ End(t, "sent")
    /\ UNCHANGED <<rows, req, todo, result, orphans, history, requests, failures>>

-----------------------------------------------------------------------------
(* bulkDelete *)

(* getById of every item; the result is an item that was found.            *)
ReadForDelete(t, i) ==
    /\ pc[t] = "reading" /\ i \in todo[t]
    /\ \/ /\ Works
          /\ LET found == rows[Item(t, i).id]
             IN  \E r \in IF found = <<>> THEN {"ItemDoesNotExists"} ELSE ToSet(found) :
                     Settle(t, i, r)
       \/ Breaks /\ Settle(t, i, "UnknownError")
    /\ UNCHANGED <<rows, pc, req, orphans, answer, history, requests>>

Without(t) == [id \in Ids |-> IF \E i \in Positions(t) : Item(t, i).id = id THEN <<>>
                              ELSE rows[id]]

(* Where rows are gone, insertions are counted from none.                  *)
Recounted == [id \in Ids |-> IF Len(rows'[id]) < Len(rows[id]) THEN 0 ELSE winners[id]]

(* Mutant: what was read is not awaited. *)
DeleteUnawaited(t) ==
    /\ pc[t] = "reading"
    /\ rows' = Without(t)
    /\ winners' = Recounted
    /\ End(t, "sent")
    /\ todo' = [todo EXCEPT ![t] = {}]
    /\ UNCHANGED <<req, result, orphans, effects, before, alone, requests, failures>>

(* storage.delete of all of them, those with an error included. *)
Delete(t) ==
    /\ pc[t] = "reading" /\ todo[t] = {}
    /\ \/ Works /\ rows' = Without(t) /\ End(t, "sent")
       \/ Breaks /\ rows' \in {rows, Without(t)} /\ End(t, "error")
    /\ winners' = Recounted
    /\ UNCHANGED <<req, todo, result, orphans, effects, before, alone, requests>>

(* bulkUpsert and truncate: one storage call.  With a key, the last item of*)
(* an id takes its place; without, all of them are appended.               *)
Upserted(items, id) ==
    LET named == {i \in DOMAIN items : items[i].id = id}
        last  == SelectLastInSeq(items, LAMBDA x : x.id = id)
        new   == SetToSeq(named)
    IN  IF named = {} THEN rows[id]
        ELSE IF store = "keyed" THEN <<items[last].value>>
        ELSE rows[id] \o [n \in DOMAIN new |-> items[new[n]].value]

OneCall(t) ==
    /\ pc[t] = "calling"
    /\ LET after == [id \in Ids |->
                        IF req[t].kind = "truncate" THEN <<>> ELSE Upserted(req[t].items, id)]
       IN  \/ Works /\ rows' = after /\ End(t, "sent")
           \/ Breaks /\ rows' \in {rows, after} /\ End(t, "error")
    /\ winners' = IF req[t].kind = "truncate" THEN Recounted ELSE winners
    /\ UNCHANGED <<req, todo, result, orphans, effects, before, alone, requests>>

-----------------------------------------------------------------------------
(* find and aggregate, and the process *)

Counted(t) == req[t].kind = "findCounted"

ItemsFound(t) ==
    /\ pc[t] = "finding"
    /\ IF Counted(t)
         THEN pc' = [pc EXCEPT ![t] = "counting"] /\ UNCHANGED answer
         ELSE End(t, "sent")
    /\ UNCHANGED <<rows, req, todo, result, orphans, history, requests, failures>>

(* The request ends; its count goes on without a handler. *)
ItemsFail(t) ==
    /\ pc[t] = "finding"
    /\ Breaks
    /\ End(t, "error")
    /\ orphans' = IF Counted(t) THEN orphans + 1 ELSE orphans
    /\ UNCHANGED <<rows, req, todo, result, history, requests>>

CountSettles(t) ==
    /\ pc[t] = "counting"
    /\ \/ Works /\ End(t, "sent")
       \/ Breaks /\ End(t, "error")
    /\ UNCHANGED <<rows, req, todo, result, orphans, history, requests>>

OrphanSettles ==
    /\ orphans > 0
    /\ orphans' = orphans - 1
    /\ UNCHANGED <<rows, pc, req, todo, result, answer, history, requests, failures>>

(* A count is rejected before its find awaits it, or after that has ended: *)
(* the process exits, and every request under way with it.  What they had  *)
(* asked of the database has been carried out or not.                      *)
UnhandledRejection ==
    /\ Breaks
    /\ orphans > 0 \/ \E t \in Tasks : pc[t] = "finding" /\ Counted(t)
    /\ answer' = [t \in Tasks |-> IF pc[t] = "idle" THEN answer[t] ELSE "lost"]
    /\ pc' = [t \in Tasks |-> "idle"]
    /\ todo' = [t \in Tasks |-> {}]
    /\ orphans' = 0
    /\ UNCHANGED <<rows, req, result, history, requests>>

Arrive(t) ==
    \/ \E kind \in Kinds \cap {"insert", "update", "delete", "upsert"}, items \in Bulks :
          Begin(t, kind, items)
    \/ \E kind \in Kinds \cap {"truncate", "find", "findCounted"} : Begin(t, kind, <<>>)

Proceed(t) ==
    \/ \E i \in Positions(t) : Insert(t, i) \/ Update(t, i) \/ WriteFails(t, i)
    \/ WritesSettled(t)
    \/ \E i \in Positions(t) : ReadForDelete(t, i)
    \/ Delete(t) \/ OneCall(t)
    \/ ItemsFound(t) \/ ItemsFail(t) \/ CountSettles(t)

Next ==
    /\ UNCHANGED store
    /\ \/ \E t \in Tasks : Arrive(t) \/ Proceed(t)
       \/ OrphanSettles
       \/ UnhandledRejection

Spec == Init /\ [][Next]_vars

-----------------------------------------------------------------------------
(* Properties *)

TypeOK ==
    /\ store \in Stores
    /\ rows \in [Ids -> Seq(Values)]
    /\ pc \in [Tasks -> {"idle", "writing", "reading", "calling", "finding", "counting"}]
    /\ \A t \in Tasks :
          /\ todo[t] \subseteq Positions(t)
          /\ todo[t] # {} => pc[t] \in {"writing", "reading"}
          /\ DOMAIN result[t] = Positions(t)
    /\ orphans \in 0 .. requests
    /\ requests \in 0 .. MaxRequests
    /\ failures \in 0 .. MaxFailures

(* The kinds of request whose results the store lets one rely on.          *)
Telling == IF store = "keyed" THEN {"insert", "update"} ELSE {"insert"}

(* The answer to a bulk insert or update tells of every position what      *)
(* became of the item at that position, whatever the order in which the    *)
(* calls came back and whatever the other positions met: ok is said of     *)
(* items that were written, and the errors of the table of items that were *)
(* not.  What BigQuery tells of an update is not to be relied on.          *)
ResultsTell ==
    \A t \in Tasks :
        answer[t] = "sent" /\ req[t].kind \in Telling =>
            \A i \in Positions(t) :
                /\ result[t][i] \in {"ok", "ItemAlreadyExists", "ItemDoesNotExists",
                                     "UnknownError"}
                /\ result[t][i] = "ok" => <<t, i>> \in effects
                /\ <<t, i>> \in effects => result[t][i] \in {"ok", "UnknownError"}

(* An insertion that was answered ok has put a row of its own into the     *)
(* table, and there it stays until the id is deleted or the table emptied: *)
(* no other insertion, update or upsert takes it away, however they race   *)
(* and fail, and even if a bulk names an id twice.  So at most one of them *)
(* is answered ok where there is a key.                                    *)
InsertedKept ==
    \A id \in Ids :
        /\ winners[id] <= Len(rows[id])
        /\ store = "keyed" => Len(rows[id]) <= 1

(* A bulk delete that had the table to itself answers, position by         *)
(* position, the items as they were, and leaves none of them.              *)
DeleteReturnsItems ==
    \A t \in Tasks :
        answer[t] = "sent" /\ req[t].kind = "delete" /\ alone[t] =>
            \A i \in Positions(t) :
                LET id == Item(t, i).id IN
                /\ rows[id] = <<>>
                /\ result[t][i] \in {"UnknownError"} \cup
                       IF before[t][id] = <<>> THEN {"ItemDoesNotExists"} ELSE ToSet(before[t][id])

(* "converts unknown error with message and default status code of 500": a *)
(* request is answered, if only with an error, when the database fails.    *)
FailureAnswered == \A t \in Tasks : answer[t] # "lost"
==============================================================================
