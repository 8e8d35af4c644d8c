------------------------------ MODULE MongoQueries ------------------------------
(***************************************************************************)
(* The queries of MongoDB: a filter is an object, and what it says of a    *)
(* document is true or false, never unknown.                               *)
(***************************************************************************)
EXTENDS SqlStatements

isMultipleFieldOperator(operator) == operator \in {"$and", "$or"}

isSingleFieldStringOperator(operator) == operator \in {"contains", "begins", "ends"}

(* ^ and $ of regular expressions.                                         *)
Caret  == 11
Dollar == 12

valueForStringOperator(operator, value) ==
    CASE operator = "contains" -> value
      [] operator = "begins"   -> <<Caret>> \o value
      [] operator = "ends"     -> value \o <<Dollar>>

adapterOperatorToMongoOperator(operator) == "$" \o operator

Match(on, rel, value) == [node |-> "match", on |-> on, rel |-> rel, value |-> value]

(* Mutant: the negation of a filter is the filter. *)
negationDropped(parsed) == Junction("$and", <<First(parsed).expr>>)

negation(parsed) == Junction("$nor", <<First(parsed).expr>>)

Everything == [node |-> "{}"]

RECURSIVE parseFilter(_)
parseFilter(filter) ==
    IF isEmptyFilter(filter) THEN <<>>
    ELSE LET mongoOp == adapterOperatorToMongoOperator(filter.operator)
    IN IF isMultipleFieldOperator(mongoOp)
    THEN LET member(f) == LET r == parseFilter(f)
                          IN IF r = <<>> THEN Everything ELSE r[1].expr
         IN <<[expr |-> Junction(mongoOp,
                           [i \in DOMAIN filter.value |-> member(filter.value[i])])]>>
    ELSE IF mongoOp = "$not" THEN <<[expr |-> negation(parseFilter(filter.value[1]))]>>
    ELSE IF isSingleFieldStringOperator(filter.operator)
    THEN <<[expr |-> Match(filter.fieldName, "$regex",
                           <<valueForStringOperator(filter.operator, filter.value[1])>>)]>>
    ELSE IF filter.operator = "matches"
    THEN <<[expr |-> IF filter.value = <<>> THEN Throws("InvalidQuery")
                     ELSE Match(filter.fieldName, "$regex", <<specArrayToRegex(filter.value)>>)]>>
    ELSE IF filter.operator = "in" /\ filter.value = <<>>
    THEN <<[expr |-> Throws("InvalidQuery")]>>
    ELSE <<[expr |-> Match(filter.fieldName, mongoOp, filter.value)]>>

transform(filter) ==
    LET results == parseFilter(filter) IN [i \in DOMAIN results |-> results[i].expr]

parseFuncObject(func, fieldName) ==
    IF func = "count" THEN [fn |-> "COUNT", column |-> <<"*">>]
    ELSE [fn |-> SqlFunctions[func], column |-> <<fieldName>>]

createFieldsStatement(projectionFunctions) ==
    [i \in DOMAIN projectionFunctions |->
        LET f == projectionFunctions[i]
            p == parseFuncObject(f.function, f.name)
        IN [fn |-> p.fn, column |-> p.column, alias |-> f.alias]]

parseAggregation(aggregation) ==
    LET groups == extractGroupByNames(aggregation.projection)
    IN [functions |-> createFieldsStatement(
                          extractProjectionFunctionsObjects(aggregation.projection)),
        groups    |-> [i \in DOMAIN groups |-> <<groups[i]>>],
        having    |-> transform(aggregation.postFilter)]

parseSort(sort) == [on |-> <<sort.fieldName>>, desc |-> sort.direction # "asc"]

orderBy(sort) == [i \in DOMAIN sort |-> parseSort(sort[i])]

orderAggregationBy(sort) ==
    [i \in DOMAIN sort |-> [on |-> <<sort[i].fieldName>>, desc |-> sort[i].direction # "asc"]]

-----------------------------------------------------------------------------
(* The data provider *)

find(filter, sort, skip, limit) ==
    Select(transform(filter), orderBy(sort), <<1>>, <<2>>, <<skip, limit>>)

count(filter) == Select(transform(filter), <<>>, <<>>, <<>>, <<>>)

(* Stages: the filter, the groups, HAVING, the order and the page.         *)
aggregate(filter, aggregation, sort, skip, limit) ==
    LET a == parseAggregation(aggregation)
    IN SelectGroups(transform(filter), a.groups, a.functions, a.having,
                    orderAggregationBy(sort), IF Head(skip) = 0 THEN <<>> ELSE <<1>>,
                    IF Head(limit) = 0 THEN <<>> ELSE <<2>>, <<skip, limit>>, FALSE)

-----------------------------------------------------------------------------
(* The database.  A field that a document does not have is like a null.    *)

Regex(v, pattern) ==
    IF pattern # <<>> /\ Head(pattern) = Caret THEN BeginsAs(v, Tail(pattern))
    ELSE IF pattern # <<>> /\ Last(pattern) = Dollar THEN IsSuffix(Front(pattern), v)
    ELSE Found(v, pattern)

RECURSIVE Matches(_, _)
Matches(cond, doc) ==
    CASE cond.node = "{}"   -> TRUE
      [] cond.node = "$and" -> \A c \in ToSet(cond.of) : Matches(c, doc)
      [] cond.node = "$or"  -> \E c \in ToSet(cond.of) : Matches(c, doc)
      [] cond.node = "$nor" -> ~\E c \in ToSet(cond.of) : Matches(c, doc)
      [] cond.node = "match" ->
           LET v == IF cond.on \in DOMAIN doc THEN doc[cond.on] ELSE Null
               w == cond.value[1]
           IN CASE cond.rel \in {"$eq", "$in"} -> v \in ToSet(cond.value)
                [] cond.rel = "$ne"    -> v # w
                [] cond.rel = "$regex" -> ~isNull(v) /\ Regex(v, w)
                [] cond.rel \in {"$lte", "$gte"} /\ isNull(w) -> isNull(v)
                [] isNull(v) \/ isNull(w) -> FALSE
                [] cond.rel = "$lt"    -> Before(v, w)
                [] cond.rel = "$lte"   -> ~Before(w, v)
                [] cond.rel = "$gt"    -> Before(w, v)
                [] cond.rel = "$gte"   -> ~Before(v, w)

MongoRefuses(statement) ==
    \E c \in Conditions(statement) : \E n \in Nodes(c) : "of" \in DOMAIN n /\ n.of = <<>>

MatchingDocuments(statement) ==
    SelectSeq(Rows, LAMBDA r : \A c \in ToSet(statement.where) : Matches(c, r))

MongoAnswered(statement) ==
    LET docs == Ordered(MatchingDocuments(statement), statement.order)
        skip == Bound(statement, statement.offset, 0)
    IN SubSeq(docs, skip + 1,
              Min({Len(docs), skip + Bound(statement, statement.limit, Len(docs))}))

(* The document of a group has the functions; what it is grouped by is     *)
(* inside its _id, where HAVING does not look, and is unpacked in answers. *)
MongoAnsweredGroups(statement) ==
    LET functions(g) == [a \in {<<f.alias>> : f \in ToSet(statement.functions)} |->
                            Shown(statement, g)[a]]
    IN {Shown(statement, g) : g \in
           {g \in GroupsOf(MatchingDocuments(statement), statement.groups) :
               \A c \in ToSet(statement.having) : Matches(c, functions(g))}}
==============================================================================
