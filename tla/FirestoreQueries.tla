---------------------------- MODULE FirestoreQueries ----------------------------
(***************************************************************************)
(* The queries of Firestore: a list of clauses that must all hold.         *)
(***************************************************************************)
EXTENDS SqlStatements

LastLetterCoder == <<13>>   \* comes after every other letter

isUnsupportedOperator(operator) == operator \in {"or", "urlized", "contains", "not", "ends"}

isSingleFieldOperator(operator) ==
    operator \in {"ne", "lt", "lte", "gt", "gte", "in", "eq", "begins", "ends"}

Clause(fieldName, opStr, value) == [node |-> "clause", on |-> fieldName, rel |-> opStr, value |-> value]

adapterOperatorToFirestoreOperator(operator) ==
    CASE operator = "eq"  -> "=="
      [] operator = "ne"  -> "!="
      [] operator = "lt"  -> "<"
      [] operator = "lte" -> "<="
      [] operator = "gt"  -> ">"
      [] operator = "gte" -> ">="
      [] operator = "in"  -> "in"

parseStringBegins(fieldName, value) ==
    <<Clause(fieldName, ">=", <<value>>), Clause(fieldName, "<", <<value \o LastLetterCoder>>)>>

RECURSIVE parseFilter(_)
parseFilter(filter) ==
    IF isEmptyFilter(filter) THEN <<>>
    ELSE IF isUnsupportedOperator(filter.operator) THEN <<Throws("InvalidQuery")>>
    ELSE IF filter.operator = "begins" THEN parseStringBegins(filter.fieldName, filter.value[1])
    ELSE IF isSingleFieldOperator(filter.operator)
    THEN IF filter.operator = "in" /\ filter.value = <<>> THEN <<Throws("InvalidQuery")>>
         ELSE <<Clause(filter.fieldName, adapterOperatorToFirestoreOperator(filter.operator),
                       filter.value)>>
    ELSE IF filter.operator = "and"
    THEN Flat([i \in DOMAIN filter.value |-> parseFilter(filter.value[i])])
    ELSE <<>>

transform(filter) == parseFilter(filter)

parseSort(sort) == [on |-> <<sort.fieldName>>, desc |-> sort.direction # "asc"]

orderBy(sort) == [i \in DOMAIN sort |-> parseSort(sort[i])]

-----------------------------------------------------------------------------
(* The data provider *)

find(filter, sort, skip, limit) ==
    Select(transform(filter), orderBy(sort), <<1>>, <<2>>, <<skip, limit>>)

count(filter) == Select(transform(filter), <<>>, <<>>, <<>>, <<>>)

aggregate == Select(<<Throws("Unsupported method")>>, <<>>, <<>>, <<>>, <<>>)

-----------------------------------------------------------------------------
(* The database: one field at most may be compared by order or inequality, *)
(* and documents are then sorted by it first.                              *)

Inequalities(statement) ==
    {c.on : c \in {c \in ToSet(statement.where) : c.rel \notin {"==", "in"}}}

FirestoreRefuses(statement) ==
    \/ Cardinality(Inequalities(statement)) > 1
    \/ /\ Inequalities(statement) # {}
       /\ statement.order # <<>>
       /\ statement.order[1].on \notin Inequalities(statement)
    \/ \E c \in ToSet(statement.where) : c.value = <<Null>> /\ c.rel \notin {"==", "!="}

Fits(clause, doc) ==
    LET v == doc[clause.on]
        w == clause.value[1]
    IN CASE clause.rel \in {"==", "in"} -> v \in ToSet(clause.value)
         [] isNull(v)         -> FALSE
         [] clause.rel = "!=" -> v # w
         [] OTHER             -> SqlCompared(clause.rel, v, w)

FirestoreAnswered(statement) ==
    LET docs == Ordered(SelectSeq(Rows, LAMBDA r : \A c \in ToSet(statement.where) : Fits(c, r)),
                        statement.order)
        skip == Bound(statement, statement.offset, 0)
    IN SubSeq(docs, skip + 1,
              Min({Len(docs), skip + Bound(statement, statement.limit, Len(docs))}))
==============================================================================
