----------------------------- MODULE IndexBuild -----------------------------
(***************************************************************************)
(* The index providers of Postgres and MySQL, and the service and routes   *)
(* above them (libs/external-db-{postgres,mysql}/src/*_index_provider.ts,  *)
(* libs/velo-external-db-core/src/service/indexing.ts, router.ts).         *)
(*                                                                         *)
(* A creation sends its statement and answers after a second, or when the  *)
(* statement fails before; the database builds the index on its own time.  *)
(* A listing asks twice: for the indexes that are there, and for the       *)
(* statements under way, whose text it has to understand.                  *)
(***************************************************************************)
EXTENDS Naturals, Sequences, SequencesExt

CONSTANTS
    Tasks,       \* concurrent requests
    Indexes,     \* what is created: [coll, name, columns, unique]
    Types,       \* the columns at first, "text" or "number"
    MaxCalls,    \* bound on the requests
    MaxFaults,   \* bound on failures of the database
    MaxChanges   \* bound on what others do to the tables

VARIABLES
    db,        \* the database
    types,     \* types[c]: the type of column c; "none" when it is not there
    active,    \* the indexes there are
    building,  \* the statements under way: [id, index, prefixed, tight]
    pc,        \* pc[t]: what request t waits for
    call,      \* call[t]: the request
    prefix,    \* prefix[t]: what t found out about the columns of its index
    seen,      \* seen[t]: the active indexes that a listing read
    answer,    \* answer[t]: the answer to t's last request, until the next request
    steady,    \* history: what was there from the start of t's listing on
    ever,      \* history: what was there at some time during it
    calls, faults, changes

database == <<db, types, active, building>>
request  == <<pc, call, prefix, seen, answer>>
history  == <<steady, ever>>
vars     == <<database, request, history, calls, faults, changes>>

Columns     == UNION {ToSet(i.columns) : i \in Indexes}
Collections == {i.coll : i \in Indexes}

Said(what) == [of |-> what]

NoCall == [kind |-> "none", id |-> 0]

Init ==
    /\ db \in {"postgres", "mysql"}
    /\ types = Types
    /\ active = {}
    /\ building = {}
    /\ pc = [t \in Tasks |-> "idle"]
    /\ call = [t \in Tasks |-> NoCall]
    /\ prefix = [t \in Tasks |-> <<>>]
    /\ seen = [t \in Tasks |-> {}]
    /\ answer = [t \in Tasks |-> Said("none")]
    /\ steady = [t \in Tasks |-> {}]
    /\ ever = [t \in Tasks |-> {}]
    /\ calls = 0
    /\ faults = 0
    /\ changes = 0

(* What a listing says of an index.                                        *)
Shown(i, status) == [name |-> i.name, columns |-> i.columns, unique |-> i.unique,
                     status |-> status]

(* What is there of collection c, as one would like to see it.             *)
Present(c, indexes, statements) ==
    {Shown(i, "ACTIVE") : i \in {j \in indexes : j.coll = c}}
    \cup {Shown(s.index, "BUILDING") : s \in {r \in statements : r.index.coll = c}}

(* What the listings under way have had before them. *)
Watch ==
    LET now(t) == IF pc'[t] \in {"listing", "listed"} THEN Present(call'[t].coll, active', building') ELSE {}
    IN /\ steady' = [t \in Tasks |-> IF pc[t] = "idle" THEN now(t) ELSE steady[t] \cap now(t)]
       /\ ever'   = [t \in Tasks |-> IF pc[t] = "idle" \/ pc'[t] = "idle" THEN now(t)
                                     ELSE ever[t] \cup now(t)]

-----------------------------------------------------------------------------
(* Requests *)

Begin(t, step, c) ==
    /\ pc[t] = "idle"
    /\ calls < MaxCalls
    /\ calls' = calls + 1
    /\ pc' = [pc EXCEPT ![t] = step]
    /\ call' = [call EXCEPT ![t] = c]
    /\ answer' = [u \in Tasks |-> Said("none")]
    /\ UNCHANGED <<database, seen, faults, changes>>

Answer(t, result) ==
    /\ pc' = [pc EXCEPT ![t] = "idle"]
    /\ call' = [call EXCEPT ![t] = NoCall]
    /\ prefix' = [prefix EXCEPT ![t] = <<>>]
    /\ seen' = [seen EXCEPT ![t] = {}]
    /\ answer' = [answer EXCEPT ![t] = result]

Fault == faults < MaxFaults /\ faults' = faults + 1

(* create *)
CreateStart(t, i) ==
    /\ Begin(t, "typing", [kind |-> "create", id |-> calls + 1, index |-> i])
    /\ prefix' = [prefix EXCEPT ![t] =
                    [c \in ToSet(i.columns) |-> IF db = "mysql" THEN "unread" ELSE "plain"]]
    /\ Watch

(* MySQL's partialStringFor: the type of a column, where a failure counts  *)
(* as a type that is no text...                                            *)
ReadType(t, c) ==
    /\ pc[t] = "typing"
    /\ c \in DOMAIN prefix[t] /\ prefix[t][c] = "unread"
    /\ \/ /\ prefix' = [prefix EXCEPT ![t][c] = IF types[c] = "text" THEN "text" ELSE "plain"]
          /\ UNCHANGED faults
       \/ Fault /\ prefix' = [prefix EXCEPT ![t][c] = "plain"]
    /\ UNCHANGED <<database, pc, call, seen, answer, calls, changes>>
    /\ Watch

(* ...and then its length, where a column that has gone is a TypeError.    *)
ReadLength(t, c) ==
    /\ pc[t] = "typing"
    /\ c \in DOMAIN prefix[t] /\ prefix[t][c] = "text"
    /\ \/ /\ types[c] # "none"
          /\ prefix' = [prefix EXCEPT ![t][c] =
                          IF types[c] = "text" THEN "prefixed" ELSE "plain"]
          /\ UNCHANGED <<pc, call, seen, answer, faults>>
       \/ types[c] = "none" /\ Answer(t, Said("error")) /\ UNCHANGED faults
       \/ Fault /\ Answer(t, Said("error"))
    /\ UNCHANGED <<database, calls, changes>>
    /\ Watch

Statement(id, i, prefixed, tight) ==
    [id |-> id, index |-> i, prefixed |-> prefixed, tight |-> tight]

(* The statement is sent, and the timer is set.                            *)
Issue(t) ==
    /\ pc[t] = "typing"
    /\ \A c \in DOMAIN prefix[t] : prefix[t][c] \in {"plain", "prefixed"}
    /\ building' = building \cup
          {Statement(call[t].id, call[t].index,
                     {c \in DOMAIN prefix[t] : prefix[t][c] = "prefixed"}, FALSE)}
    /\ pc' = [pc EXCEPT ![t] = "waiting"]
    /\ UNCHANGED <<db, types, active, call, prefix, seen, answer, calls, faults, changes>>
    /\ Watch

(* Mutant: the answer waits for the statement. *)
TimerAwaiting(t) ==
    /\ pc[t] = "waiting"
    /\ \A s \in building : s.id # call[t].id
    /\ Answer(t, Said("BUILDING"))
    /\ UNCHANGED <<database, calls, faults, changes>>
    /\ Watch

(* A second has passed: BUILDING, whatever has become of the statement.    *)
Timer(t) ==
    /\ pc[t] = "waiting"
    /\ Answer(t, Said("BUILDING"))
    /\ UNCHANGED <<database, calls, faults, changes>>
    /\ Watch

(* A statement is rejected: FAILED if its request still waits, a line of   *)
(* the log otherwise.                                                      *)
Rejected(s) ==
    \/ \E t \in Tasks : pc[t] = "waiting" /\ call[t].id = s.id /\ Answer(t, Said("FAILED"))
    \/ /\ \A t \in Tasks : ~ (pc[t] = "waiting" /\ call[t].id = s.id)
       /\ UNCHANGED request

(* remove: Postgres names no collection. *)
RemoveStart(t, c, n) ==
    /\ Begin(t, "removing", [kind |-> "remove", id |-> calls + 1, coll |-> c, name |-> n])
    /\ UNCHANGED prefix
    /\ Watch

Meant(i, c, n) == i.name = n /\ (db = "mysql" => i.coll = c)

RemoveIndex(t) ==
    /\ pc[t] = "removing"
    /\ LET gone == {i \in active : Meant(i, call[t].coll, call[t].name)}
       IN \/ /\ \A s \in building : s.index.coll # call[t].coll
             /\ active' = active \ gone
             /\ Answer(t, Said(IF gone = {} THEN "error" ELSE "removed"))
             /\ UNCHANGED faults
          \/ Fault /\ Answer(t, Said("error")) /\ UNCHANGED active
    /\ UNCHANGED <<db, types, building, calls, changes>>
    /\ Watch

-----------------------------------------------------------------------------
(* list *)

(* Postgres puts all columns in one text.                                  *)
ActiveShown(i) ==
    IF db = "postgres" THEN [Shown(i, "ACTIVE") EXCEPT !.columns = <<FlattenSeq(@)>>]
                       ELSE Shown(i, "ACTIVE")

(* Postgres looks for one blank after CREATE and none before the columns,  *)
(* which is not how create writes it; MySQL for columns without lengths.   *)
Recognized(s) == IF db = "postgres" THEN s.tight ELSE s.prefixed = {}

ListStart(t, c) ==
    /\ Begin(t, "listing", [kind |-> "list", id |-> calls + 1, coll |-> c])
    /\ UNCHANGED prefix
    /\ Watch

getActiveIndexesFor(t) ==
    /\ pc[t] = "listing"
    /\ seen' = [seen EXCEPT ![t] = {ActiveShown(i) : i \in {j \in active : j.coll = call[t].coll}}]
    /\ pc' = [pc EXCEPT ![t] = "listed"]
    /\ UNCHANGED <<database, call, prefix, answer, calls, faults, changes>>
    /\ Watch

(* Mutant: what is under way hides what is there. *)
MergedOver(activeOnes, inProgress) ==
    inProgress \cup {a \in activeOnes : \A p \in inProgress : p.name # a.name}

(* { ...inProgressIndexes, ...activeIndexes } *)
Merged(activeOnes, inProgress) ==
    activeOnes \cup {p \in inProgress : \A a \in activeOnes : a.name # p.name}

getInProgressIndexesFor(t) ==
    /\ pc[t] = "listed"
    /\ LET inProgress == {Shown(s.index, "BUILDING") :
                             s \in {r \in building : r.index.coll = call[t].coll /\ Recognized(r)}}
       IN Answer(t, [of |-> "list", indexes |-> Merged(seen[t], inProgress)])
    /\ UNCHANGED <<database, calls, faults, changes>>
    /\ Watch

ListFails(t) ==
    /\ pc[t] \in {"listing", "listed"}
    /\ Fault
    /\ Answer(t, Said("error"))
    /\ UNCHANGED <<database, calls, changes>>
    /\ Watch

-----------------------------------------------------------------------------
(* The database, and others who use it *)

Taken(i) == \E j \in active : Meant(j, i.coll, i.name)

(* A text column of MySQL needs a length, and no other may have one.       *)
Wrong(s) ==
    \/ Taken(s.index)
    \/ \E c \in ToSet(s.index.columns) :
          \/ types[c] = "none"
          \/ db = "mysql" /\ (types[c] = "text") # (c \in s.prefixed)

Refuse(s) ==
    /\ Wrong(s)
    /\ building' = building \ {s}
    /\ Rejected(s)
    /\ UNCHANGED <<db, types, active, calls, faults, changes>>
    /\ Watch

Finish(s) ==
    /\ ~ Wrong(s)
    /\ building' = building \ {s}
    /\ active' = active \cup {s.index}
    /\ UNCHANGED <<db, types, request, calls, faults, changes>>
    /\ Watch

(* Rows that repeat a value, a full disk; or just the connection is lost.  *)
Break(s) ==
    /\ Fault
    /\ building' \in {building \ {s}, (building \ {s}) \cup {[s EXCEPT !.id = 0]}}
    /\ Rejected(s)
    /\ UNCHANGED <<db, types, active, calls, changes>>
    /\ Watch

Change == changes < MaxChanges /\ changes' = changes + 1

(* An index built by hand, in a statement written without extra blanks.    *)
BuildByHand(i) ==
    /\ Change
    /\ building' = building \cup
          {Statement(0, i, {c \in ToSet(i.columns) : db = "mysql" /\ types[c] = "text"}, TRUE)}
    /\ UNCHANGED <<db, types, active, request, calls, faults>>
    /\ Watch

ChangeColumn(c) ==
    /\ Change
    /\ \A i \in active \cup {s.index : s \in building} : c \notin ToSet(i.columns)
    /\ types' \in {[types EXCEPT ![c] = ty] : ty \in {"text", "number", "none"} \ {types[c]}}
    /\ UNCHANGED <<db, active, building, request, calls, faults>>
    /\ Watch

-----------------------------------------------------------------------------
Next ==
    \/ \E t \in Tasks :
          \/ \E i \in Indexes : CreateStart(t, i)
          \/ \E c \in Columns : ReadType(t, c) \/ ReadLength(t, c)
          \/ Issue(t) \/ Timer(t)
          \/ \E i \in Indexes : RemoveStart(t, i.coll, i.name)
          \/ RemoveIndex(t)
          \/ \E c \in Collections : ListStart(t, c)
          \/ getActiveIndexesFor(t) \/ getInProgressIndexesFor(t) \/ ListFails(t)
    \/ \E s \in building : Refuse(s) \/ Finish(s) \/ Break(s)
    \/ \E i \in Indexes : BuildByHand(i)
    \/ \E c \in Columns : ChangeColumn(c)

(* A statement may take for ever, a timer and a question to the catalogue  *)
(* do not.                                                                 *)
Creating(t) == Issue(t) \/ Timer(t) \/ \E c \in Columns : ReadType(t, c) \/ ReadLength(t, c)

Spec     == Init /\ [][Next]_vars
FairSpec == Spec /\ \A t \in Tasks : WF_vars(Creating(t))

-----------------------------------------------------------------------------
(* Properties *)

(* A listing names every index that was there, or was being built with a   *)
(* statement it understands, all the time it was at work, those that are   *)
(* there as ACTIVE; and nothing that was not there at any time.  Postgres  *)
(* gets the columns wrong where there are several; and an index finished   *)
(* between the two questions is in neither answer.                         *)
Right(entry) == db = "postgres" => \E c \in Columns : entry.columns = <<c>>

ListsWhatIs(t) ==
    /\ \A e \in steady[t] :
          /\ e.status = "ACTIVE" /\ Right(e) => e \in answer'[t].indexes
          /\ \/ e.status = "ACTIVE"
             \/ \E s \in building : Shown(s.index, "BUILDING") = e /\ ~ Recognized(s)
             \/ \E f \in answer'[t].indexes : f.name = e.name
    /\ \A e \in answer'[t].indexes : (\A f \in ever[t] : Right(f)) => e \in ever[t]

ListingsExact ==
    \A t \in Tasks :
        pc[t] = "listed" /\ pc'[t] = "idle" /\ answer'[t].of = "list" => ListsWhatIs(t)

ListExact == [][ListingsExact]_vars

(* A creation is answered however long the index takes: the timer sees to  *)
(* it, even though the database may never answer the statement.            *)
CreateAnswered ==
    \A t \in Tasks : (pc[t] \in {"typing", "waiting"}) ~> (pc[t] = "idle")
==============================================================================
