---------------------------- MODULE ItemStatements ----------------------------
(***************************************************************************)
(* Items on their way into a statement: how they are prepared for writing, *)
(* and the placeholders and parameters that the insert and the update of   *)
(* each database make of them (item_transformer.js, data_commons.ts and    *)
(* the *_data_provider.ts of the adaptors).                                *)
(*                                                                         *)
(* An item maps fields to values, a value is a word of which Null is the   *)
(* empty one.                                                              *)
(***************************************************************************)
EXTENDS Integers, Sequences, SequencesExt, TLC

CONSTANT Columns   \* the columns of the schema, a sequence of names

ASSUME ColumnsAssumption == Columns \in Seq(STRING) /\ "_id" \in ToSet(Columns)

Null  == <<>>
Zero  == <<0>>
NewId == <<9, 9>>    \* stands for an identifier made up by the adaptor

isNull(value) == value = Null

-----------------------------------------------------------------------------
(* ItemTransformer.  A value that is missing, or falsy in JavaScript (zero,*)
(* false or an empty text), is replaced by the default of its column.      *)

Falsy(value) == value \in {Null, Zero}

defaultValueFor(field) == IF field = "_id" THEN NewId ELSE Null

prepareForInsert(item) ==
    [f \in ToSet(Columns) |->
        IF f \in DOMAIN item /\ ~Falsy(item[f]) THEN item[f] ELSE defaultValueFor(f)]

prepareForUpdate(item) == [f \in DOMAIN item \cap ToSet(Columns) |-> item[f]]

(* The members of a sequence that are in a set, in their order.            *)
Those(s, set) ==
    LET those[n \in 0 .. Len(s)] ==
            IF n = 0 THEN <<>>
            ELSE IF s[n] \in set THEN Append(those[n - 1], s[n])
            ELSE those[n - 1]
    IN those[Len(s)]

(* Object.keys of a prepared item: the order of the schema.                *)
keysOf(item) == Those(Columns, DOMAIN item)

asParamArrays(item) == [i \in DOMAIN keysOf(item) |-> item[keysOf(item)[i]]]

updateFieldsFor(item) == Those(keysOf(item), DOMAIN item \ {"_id"})

-----------------------------------------------------------------------------
(* What is written: for each item the placeholders its columns are set to, *)
(* and the parameters of the statement it is part of.                      *)

WriteOf(cells, params) == [cells |-> cells, params |-> params]

RowWritten(write) == [c \in DOMAIN write.cells |-> write.params[write.cells[c]]]

Unbound(write) == \E c \in DOMAIN write.cells : write.cells[c] \notin DOMAIN write.params

(* An item handed over as an object.                                       *)
WholeItem(item) == WriteOf([c \in DOMAIN item |-> c], item)

WholeItems(items) == [i \in DOMAIN items |-> WholeItem(items[i])]

Position(fields, c) == CHOOSE i \in DOMAIN fields : fields[i] = c

(* undefined is written as NULL.                                           *)
Picked(item, fields) ==
    [i \in DOMAIN fields |-> IF fields[i] \in DOMAIN item THEN item[fields[i]] ELSE Null]

Flat(sequences) ==
    LET flat[n \in 0 .. Len(sequences)] ==
            IF n = 0 THEN <<>> ELSE flat[n - 1] \o sequences[n]
    IN flat[Len(sequences)]

-----------------------------------------------------------------------------
(* Postgres: row after row, column after column.                           *)

prepareStatementVariablesForBulkInsert(row) ==
    [c \in ToSet(Columns) |-> Position(Columns, c) + (row - 1) * Len(Columns)]

PostgresInsert(items) ==
    LET params == Flat([i \in DOMAIN items |-> asParamArrays(items[i])])
    IN [i \in DOMAIN items |-> WriteOf(prepareStatementVariablesForBulkInsert(i), params)]

(* One statement for every item, all for the fields of the first.          *)
PostgresUpdate(items) ==
    LET fields == Append(updateFieldsFor(items[1]), "_id")
    IN [i \in DOMAIN items |->
           WriteOf([c \in ToSet(fields) |-> Position(fields, c)], Picked(items[i], fields))]

-----------------------------------------------------------------------------
(* MySQL: VALUES ? takes a list of rows.                                   *)
MysqlInsert(items) ==
    [i \in DOMAIN items |->
        WriteOf([c \in ToSet(Columns) |-> Position(Columns, c)], asParamArrays(items[i]))]

(* Statements joined by semicolons share one list of parameters, and all   *)
(* are for the fields of the first item.                                   *)
MysqlUpdate(items) ==
    LET fields == Append(updateFieldsFor(items[1]), "_id")
        params == Flat([i \in DOMAIN items |-> Picked(items[i], fields)])
    IN [i \in DOMAIN items |->
           WriteOf([c \in ToSet(fields) |-> (i - 1) * Len(fields) + Position(fields, c)], params)]

-----------------------------------------------------------------------------
(* SQL Server.  A name is the column and the number of its row, behind an  *)
(* x but for the first row, whose number is falsy.                         *)

(* Mutant: the columns of all rows share their names. *)
patchFieldNameUnnumbered(s, i) == s

patchFieldName(s, i) == IF i = 0 THEN s ELSE "x" \o s \o ToString(i)

(* The names and values of one row.                                        *)
patch(item, i) ==
    [s \in {patchFieldName(c, i) : c \in DOMAIN item} |->
        item[CHOOSE c \in DOMAIN item : patchFieldName(c, i) = s]]

(* { ...p, ...t }: what t names takes the place of what p does.            *)
Spread(p, t) ==
    [s \in DOMAIN p \cup DOMAIN t |-> IF s \in DOMAIN t THEN t[s] ELSE p[s]]

(* The names of the values of all rows, merged; the placeholders of a row  *)
(* stand in the order of its keys, the columns in that of the schema.      *)
MssqlInsert(items) ==
    LET merged[n \in 0 .. Len(items)] ==
            IF n = 0 THEN <<>> ELSE Spread(merged[n - 1], patch(items[n], n - 1))
    IN [i \in DOMAIN items |->
           WriteOf([c \in ToSet(Columns) |->
                       patchFieldName(keysOf(items[i])[Position(Columns, c)], i - 1)],
                   merged[Len(items)])]

MssqlUpdate(items) == WholeItems(items)

-----------------------------------------------------------------------------
(* BigQuery inserts items as objects.                                      *)
BigqueryInsert(items) == WholeItems(items)

updateFieldsWithoutNulls(item) ==
    Those(updateFieldsFor(item), {c \in DOMAIN item : ~isNull(item[c])})

(* Statements joined by semicolons, each for the fields of its item that   *)
(* have a value: a Null is not written.                                    *)
BigqueryUpdate(items) ==
    LET fields(i) == Append(updateFieldsWithoutNulls(items[i]), "_id")
        params    == Flat([i \in DOMAIN items |-> Picked(items[i], fields(i))])
        before(i) == Len(Flat([j \in 1 .. (i - 1) |-> fields(j)]))
    IN [i \in DOMAIN items |->
           WriteOf([c \in ToSet(fields(i)) |-> before(i) + Position(fields(i), c)], params)]

-----------------------------------------------------------------------------
(* The others take items as objects: one by one, or the fields of each as  *)
(* named parameters.                                                       *)

SpannerInsert(items) == WholeItems(items)
SpannerUpdate(items) == WholeItems(items)

insertExpressionFor(items) == WholeItems(items)
updateExpressionFor(items) == WholeItems(items)

insertSingleItemCommand(item) == WholeItem(item)
updateSingleItemCommand(item) == WholeItem(item)

DynamoInsert(items) == [i \in DOMAIN items |-> insertSingleItemCommand(items[i])]
DynamoUpdate(items) == [i \in DOMAIN items |-> updateSingleItemCommand(items[i])]

FirestoreInsert(items) == WholeItems(items)
FirestoreUpdate(items) == WholeItems(items)
==============================================================================
