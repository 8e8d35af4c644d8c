------------------------------ MODULE RowStore ------------------------------
(***************************************************************************)
(* The writes of the data providers of Google Sheets, Firestore, Spanner   *)
(* and DynamoDB, which take more than one call of the service below        *)
(* (libs/external-db-{google-sheets,firestore,spanner,dynamodb}/src).      *)
(*                                                                         *)
(* A sheet has no keys: to change a row the provider reads the whole sheet,*)
(* remembers the number of the row and later writes to, or deletes, the row*)
(* of that number.  The others know their rows, but none can empty a table *)
(* at once: they read rows and delete what they read, a batch at a time or *)
(* only once.                                                              *)
(***************************************************************************)
EXTENDS Naturals, Sequences, FiniteSets, FiniteSetsExt, SequencesExt

CONSTANTS
    Tasks,      \* concurrent calls of the provider
    Ids,        \* the ids of rows
    Services,   \* among "sheets", "firestore", "spanner" and "dynamodb"
    Deletions,  \* the lists of ids that are deleted in one call
    AtOnce,     \* rows that Google Sheets changes in one call, 3 in the code
    Page,       \* rows read to be deleted: 100 in Firestore, 1000 in Spanner,
                \* as many as a scan returns in DynamoDB
    BatchMax,   \* deletions that DynamoDB takes at once, 25
    MaxCalls,   \* bound on the calls
    MaxFaults   \* bound on the failures

ASSUME IdsAssumption == IsFiniteSet(Ids) /\ "blank" \notin Ids
ASSUME ServicesAssumption ==
    Services \subseteq {"sheets", "firestore", "spanner", "dynamodb"}
ASSUME DeletionsAssumption == Deletions \subseteq Seq(Ids) \ {<<>>}
ASSUME SizesAssumption == AtOnce \in Nat \ {0} /\ Page \in Nat \ {0}

VARIABLES
    service,  \* the service
    rows,     \* the rows, in their order: [id, of], of the call that wrote it
    header,   \* the sheet has its header row
    pc,       \* pc[t]: what call t waits for
    call,     \* call[t]: the call
    todo,     \* todo[t]: the rows of a sheet it is about: [id, at], at 0 before
    got,      \* got[t]: the ids a truncation read
    orphans,  \* row operations that outlived their call
    answer,   \* answer[t]: how t's last call ended, until the next call
    shared,   \* history: the calls that overlap or overlapped another one
    skipped,  \* history: DynamoDB has left deletions undone, or the header of a
              \* sheet could not be read, and nobody has been told
    calls, faults

vars == <<service, rows, header, pc, call, todo, got, orphans, answer, shared,
          skipped, calls, faults>>

NoCall == [kind |-> "none", ids |-> <<>>, of |-> 0, before |-> {}, headed |-> FALSE]

IdsOf(s) == {s[i].id : i \in DOMAIN s}

Init ==
    /\ service \in Services
    /\ rows = [i \in 1 .. Cardinality(Ids) |-> [id |-> SetToSeq(Ids)[i], of |-> 0]]
    /\ header = TRUE
    /\ pc = [t \in Tasks |-> "idle"]
    /\ call = [t \in Tasks |-> NoCall]
    /\ todo = [t \in Tasks |-> {}]
    /\ got = [t \in Tasks |-> {}]
    /\ orphans = {}
    /\ answer = [t \in Tasks |-> "none"]
    /\ shared = {}
    /\ skipped = FALSE
    /\ calls = 0
    /\ faults = 0

-----------------------------------------------------------------------------
(* Calls *)

Busy == {t \in Tasks : pc[t] # "idle"}

Begin(t, kind, ids, step, ops) ==
    /\ pc[t] = "idle"
    /\ calls < MaxCalls
    /\ calls' = calls + 1
    /\ pc' = [pc EXCEPT ![t] = step]
    /\ call' = [u \in Tasks |->
                  IF u = t THEN [kind |-> kind, ids |-> ids, of |-> calls + 1,
                                 before |-> ToSet(rows), headed |-> header]
                  ELSE IF u \in Busy THEN call[u] ELSE NoCall]
    /\ todo' = [todo EXCEPT ![t] = ops]
    /\ answer' = [u \in Tasks |-> "none"]
    /\ shared' = IF Busy = {} /\ orphans = {} THEN shared \ {t}
                                              ELSE shared \cup Busy \cup {t}
    /\ UNCHANGED <<service, rows, header, got, orphans, skipped, faults>>

Answer(t, result) ==
    /\ pc' = [pc EXCEPT ![t] = "idle"]
    /\ todo' = [todo EXCEPT ![t] = {}]
    /\ got' = [got EXCEPT ![t] = {}]
    /\ answer' = [answer EXCEPT ![t] = result]

Fault == faults < MaxFaults /\ faults' = faults + 1

Unread(ids) == {[id |-> ids[i], at |-> 0] : i \in DOMAIN ids}

InsertStart(t, id) == Begin(t, "insert", <<id>>, "writing", {})
UpsertStart(t, id) == Begin(t, "upsert", <<id>>, "writing", {})

UpdateStart(t, id) ==
    IF service = "sheets" THEN Begin(t, "update", <<id>>, "rows", Unread(<<id>>))
                          ELSE Begin(t, "update", <<id>>, "writing", {})

(* ids.slice(0, 3): the others are passed over in silence.                 *)
DeleteStart(t, ids) ==
    IF service = "sheets"
      THEN Begin(t, "delete", ids, "rows", Unread(SubSeq(ids, 1, Min({AtOnce, Len(ids)}))))
      ELSE Begin(t, "delete", ids, "writing", {})

TruncateStart(t) ==
    Begin(t, "truncate", <<>>, IF service = "sheets" THEN "headers" ELSE "reading", {})

-----------------------------------------------------------------------------
(* Google Sheets *)

Written(t) == [id |-> call[t].ids[1], of |-> call[t].of]

(* addRows appends, whatever rows there are.                               *)
AppendRow(t) ==
    /\ pc[t] = "writing" /\ service = "sheets"
    /\ IF header THEN rows' = Append(rows, Written(t)) /\ Answer(t, "ok")
                 ELSE UNCHANGED rows /\ Answer(t, "error")
    /\ UNCHANGED <<service, header, call, orphans, shared, skipped, calls, faults>>

NumberOf(id) == SelectInSeq(rows, LAMBDA r : r.id = id)

(* Mutant: the row's number counts from the header. *)
FoundAtHeader(op) == [op EXCEPT !.at = NumberOf(op.id) + 1]

(* findRowById *)
Found(op) == [op EXCEPT !.at = NumberOf(op.id)]

(* A row operation of t is done; the last one answers.                     *)
Done(t, op) ==
    IF todo[t] = {op} THEN Answer(t, "ok")
                      ELSE todo' = [todo EXCEPT ![t] = @ \ {op}] /\ UNCHANGED <<pc, got, answer>>

(* An operation rejects: the call does, and the others are on their own.   *)
Reject(t, op) == Answer(t, "error") /\ orphans' = orphans \cup (todo[t] \ {op})

(* A row that is not there: update does nothing, deleteRow is a TypeError. *)
FindRow(t, op) ==
    /\ pc[t] = "rows" /\ op \in todo[t] /\ op.at = 0
    /\ \/ /\ header /\ op.id \in IdsOf(rows)
          /\ todo' = [todo EXCEPT ![t] = (@ \ {op}) \cup {Found(op)}]
          /\ UNCHANGED <<pc, got, answer, orphans>>
       \/ /\ header /\ op.id \notin IdsOf(rows) /\ call[t].kind = "update"
          /\ Done(t, op)
          /\ UNCHANGED orphans
       \/ /\ ~ header \/ (op.id \notin IdsOf(rows) /\ call[t].kind = "delete")
          /\ Reject(t, op)
    /\ UNCHANGED <<service, rows, header, call, shared, skipped, calls, faults>>

WithoutRow(n) == IF n \in DOMAIN rows THEN RemoveAt(rows, n) ELSE rows

DeleteRow(t, op) ==
    /\ pc[t] = "rows" /\ op \in todo[t] /\ op.at > 0 /\ call[t].kind = "delete"
    /\ rows' = WithoutRow(op.at)
    /\ Done(t, op)
    /\ UNCHANGED <<service, header, call, orphans, shared, skipped, calls, faults>>

(* row.save(): the whole row, by its number; rows before it may be blank.  *)
SaveRow(t, op) ==
    /\ pc[t] = "rows" /\ op \in todo[t] /\ op.at > 0 /\ call[t].kind = "update"
    /\ rows' = [n \in 1 .. (IF op.at > Len(rows) THEN op.at ELSE Len(rows)) |->
                   IF n = op.at THEN Written(t)
                   ELSE IF n \in DOMAIN rows THEN rows[n] ELSE [id |-> "blank", of |-> 0]]
    /\ Done(t, op)
    /\ UNCHANGED <<service, header, call, orphans, shared, skipped, calls, faults>>

(* The rest of a deletion that was rejected goes on.                       *)
OrphanGoesOn(op) ==
    /\ op \in orphans
    /\ IF op.at = 0
         THEN /\ UNCHANGED rows
              /\ orphans' = (orphans \ {op}) \cup
                               (IF header /\ op.id \in IdsOf(rows) THEN {Found(op)} ELSE {})
         ELSE rows' = WithoutRow(op.at) /\ orphans' = orphans \ {op}
    /\ UNCHANGED <<service, header, pc, call, todo, got, answer, shared, skipped, calls, faults>>

(* truncate reads the header, where an error counts as no header at all,   *)
(* clears the sheet and writes the header row, if there was one, again.    *)
headersFrom(t) ==
    /\ pc[t] = "headers"
    /\ \/ /\ pc' = [pc EXCEPT ![t] = IF header THEN "clearing" ELSE "clearingAll"]
          /\ UNCHANGED <<skipped, faults>>
       \/ Fault /\ pc' = [pc EXCEPT ![t] = "clearingAll"] /\ skipped' = TRUE
    /\ UNCHANGED <<service, rows, header, call, todo, got, orphans, answer, shared, calls>>

ClearSheet(t) ==
    /\ pc[t] \in {"clearing", "clearingAll"}
    /\ rows' = <<>>
    /\ header' = FALSE
    /\ IF pc[t] = "clearing"
         THEN pc' = [pc EXCEPT ![t] = "header"] /\ UNCHANGED <<todo, got, answer>>
         ELSE Answer(t, "ok")
    /\ UNCHANGED <<service, call, orphans, shared, skipped, calls, faults>>

setHeaderRow(t) ==
    /\ pc[t] = "header"
    /\ header' = TRUE
    /\ Answer(t, "ok")
    /\ UNCHANGED <<service, rows, call, orphans, shared, skipped, calls, faults>>

-----------------------------------------------------------------------------
(* The services that know their rows by their ids *)

Without(ids) ==
    LET kept[n \in 0 .. Len(rows)] ==
            IF n = 0 THEN <<>>
            ELSE IF rows[n].id \in ids THEN kept[n - 1]
            ELSE Append(kept[n - 1], rows[n])
    IN  kept[Len(rows)]

(* A row that should be there, or should not, makes an error of the whole. *)
Write(t) ==
    /\ pc[t] = "writing" /\ service # "sheets" /\ call[t].kind # "delete"
    /\ LET id == call[t].ids[1]
       IN IF \/ call[t].kind = "insert" /\ id \in IdsOf(rows)
             \/ call[t].kind = "update" /\ id \notin IdsOf(rows)
          THEN UNCHANGED rows /\ Answer(t, "error")
          ELSE /\ rows' = Append(Without({id}), Written(t))
               /\ Answer(t, "ok")
    /\ UNCHANGED <<service, header, call, orphans, shared, skipped, calls, faults>>

(* A batch of deletions.  DynamoDB may leave some undone and says so in    *)
(* UnprocessedItems, which nobody reads.                                   *)
DeleteBatch(ids) ==
    \/ rows' = Without(ids) /\ UNCHANGED <<skipped, faults>>
    \/ /\ service = "dynamodb" /\ Fault
       /\ \E left \in SUBSET (ids \cap IdsOf(rows)) : rows' = Without(ids \ left)
       /\ skipped' = TRUE

Refused(ids) == service = "dynamodb" /\ (ids = {} \/ Cardinality(ids) > BatchMax)

DeleteIds(t) ==
    /\ pc[t] = "writing" /\ service # "sheets" /\ call[t].kind = "delete"
    /\ IF Refused(ToSet(call[t].ids))
         THEN Answer(t, "error") /\ UNCHANGED <<rows, skipped, faults>>
         ELSE DeleteBatch(ToSet(call[t].ids)) /\ Answer(t, "ok")
    /\ UNCHANGED <<service, header, call, orphans, shared, calls>>

(* Firestore asks for rows in the order of their ids, the others in none.  *)
Pages == {s \in SUBSET IdsOf(rows) :
             Cardinality(s) = IF Cardinality(IdsOf(rows)) < Page THEN Cardinality(IdsOf(rows))
                                                                ELSE Page}

(* Mutant: the batch that was deleted is taken for the last. *)
ReadPageOnce(t) ==
    /\ pc[t] \in {"reading", "nextReading"}
    /\ IF got[t] # {}
         THEN Answer(t, "ok")
         ELSE /\ \E page \in Pages : got' = [got EXCEPT ![t] = page]
              /\ pc' = [pc EXCEPT ![t] = IF @ = "reading" THEN "batch" ELSE "nextBatch"]
              /\ UNCHANGED <<todo, answer>>
    /\ UNCHANGED <<service, rows, header, call, orphans, shared, skipped, calls, faults>>

ReadPage(t) ==
    /\ pc[t] \in {"reading", "nextReading"}
    /\ IF service = "firestore" /\ rows = <<>>
         THEN Answer(t, "ok")
         ELSE /\ \E page \in Pages : got' = [got EXCEPT ![t] = page]
              /\ pc' = [pc EXCEPT ![t] = IF @ = "reading" THEN "batch" ELSE "nextBatch"]
              /\ UNCHANGED <<todo, answer>>
    /\ UNCHANGED <<service, rows, header, call, orphans, shared, skipped, calls, faults>>

(* Firestore goes on to the next batch, the others have done.              *)
DeletePage(t) ==
    /\ pc[t] \in {"batch", "nextBatch"}
    /\ IF Refused(got[t])
         THEN Answer(t, "error") /\ UNCHANGED <<rows, skipped, faults>>
         ELSE /\ DeleteBatch(got[t])
              /\ IF service = "firestore"
                   THEN pc' = [pc EXCEPT ![t] = "nextReading"] /\ UNCHANGED <<todo, got, answer>>
                   ELSE Answer(t, "ok")
    /\ UNCHANGED <<service, header, call, orphans, shared, calls>>

-----------------------------------------------------------------------------
(* A call fails: it answers an error, and what it has done stays done.  Its*)
(* rows go on by themselves.                                               *)
LaterBatch(t) == pc[t] \in {"nextReading", "nextBatch"}

Fail(t) ==
    /\ pc[t] \notin {"idle", "headers"} /\ ~ LaterBatch(t)
    /\ Fault
    /\ IF pc[t] = "rows" THEN \E op \in todo[t] : Reject(t, op)
                         ELSE Answer(t, "error") /\ UNCHANGED orphans
    /\ UNCHANGED <<service, rows, header, call, shared, skipped, calls>>

(* In Firestore, every batch but the first is deleted by a promise of      *)
(* process.nextTick that nobody handles: it takes the process down, and    *)
(* nobody gets an answer.                                                  *)
ProcessEnds(t) ==
    /\ LaterBatch(t)
    /\ Fault
    /\ pc' = [u \in Tasks |-> "idle"]
    /\ todo' = [u \in Tasks |-> {}]
    /\ got' = [u \in Tasks |-> {}]
    /\ answer' = [u \in Tasks |-> "none"]
    /\ orphans' = {}
    /\ UNCHANGED <<service, rows, header, call, shared, skipped, calls>>

RowStep(t, op) == FindRow(t, op) \/ DeleteRow(t, op) \/ SaveRow(t, op)

Next ==
    \/ \E t \in Tasks :
          \/ \E id \in Ids : InsertStart(t, id) \/ UpsertStart(t, id) \/ UpdateStart(t, id)
          \/ \E ids \in Deletions : DeleteStart(t, ids)
          \/ TruncateStart(t)
          \/ AppendRow(t) \/ \E op \in todo[t] : RowStep(t, op)
          \/ headersFrom(t) \/ ClearSheet(t) \/ setHeaderRow(t)
          \/ Write(t) \/ DeleteIds(t) \/ ReadPage(t) \/ DeletePage(t)
          \/ Fail(t) \/ ProcessEnds(t)
    \/ \E op \in orphans : OrphanGoesOn(op)

Spec == Init /\ [][Next]_vars

-----------------------------------------------------------------------------
(* Properties *)

(* The calls under way name this row, or empty the table.                  *)
Asked(id) ==
    \/ \E t \in Busy : id \in ToSet(call[t].ids) \/ call[t].kind = "truncate"
    \/ \E op \in orphans : op.id = id

(* Calls of a sheet stay clear of each other when none overlaps another and*)
(* none deletes two rows.                                                  *)
Clear == service = "sheets" => /\ orphans = {}
                               /\ \A t \in Busy : t \notin shared /\ Len(call[t].ids) <= 1

(* No row goes or changes but for a call that names it: whatever number it *)
(* had when it was looked up, the row that is written is the row that was  *)
(* meant.                                                                  *)
OnlyRowsAsked == Clear => \A r \in ToSet(rows) : r \in ToSet(rows') \/ Asked(r.id)

OthersRowsKept == [][OnlyRowsAsked]_vars

(* What a call answered with success has done: nothing is left of the rows *)
(* that were to go, the row that was to be written is there, and a sheet   *)
(* that has been emptied has its header still.  Spanner and DynamoDB       *)
(* truncate only as much as they read at once, DynamoDB skips rows when it *)
(* is busy; a sheet deletes but some of many rows, and one of those that   *)
(* have the same id, and does not tell of an update of no row.             *)
Limited(t) ==
    CASE call[t].kind = "truncate" ->
             service \in {"spanner", "dynamodb"} /\ Cardinality(call[t].before) > Page
      [] call[t].kind = "delete" ->
             /\ service = "sheets"
             /\ \/ Len(call[t].ids) > 1
                \/ Cardinality({r \in call[t].before : r.id = call[t].ids[1]}) > 1
      [] call[t].kind = "update" -> service = "sheets" /\ call[t].ids[1] \notin
                                                          {r.id : r \in call[t].before}
      [] OTHER -> FALSE

DoneAsTold ==
    \A t \in Tasks :
        ~ skipped /\ t \notin shared /\ answer[t] = "ok" /\ ~ Limited(t) =>
            CASE call[t].kind = "truncate" -> rows = <<>> /\ (call[t].headed => header)
              [] call[t].kind = "delete"   -> IdsOf(rows) \cap ToSet(call[t].ids) = {}
              [] OTHER -> Written(t) \in ToSet(rows)
==============================================================================
