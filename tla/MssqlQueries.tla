----------------------------- MODULE MssqlQueries -----------------------------
(***************************************************************************)
(* The queries of SQL Server: named parameters, whose names are the field  *)
(* and a number.  One counter numbers the names in the text and another the*)
(* names of the values.                                                    *)
(***************************************************************************)
EXTENDS SqlStatements

Counter == [paramCounter |-> 0, valueCounter |-> 0]

isSingleFieldOperator(operator) == operator \in {"ne", "lt", "lte", "gt", "gte", "in", "eq"}

isSingleFieldStringOperator(operator) == operator \in {"contains", "begins", "ends"}

valueForStringOperator(operator, value) ==
    CASE operator = "contains" -> <<Wildcard>> \o value \o <<Wildcard>>
      [] operator = "begins"   -> value \o <<Wildcard>>
      [] operator = "ends"     -> <<Wildcard>> \o value
      [] OTHER -> value

adapterOperatorToMySqlOperator(operator, value) ==
    CASE operator = "eq"  -> IF value = <<Null>> THEN "IS NULL" ELSE "="
      [] operator = "ne"  -> IF value = <<Null>> THEN "IS NOT NULL" ELSE "<>"
      [] operator = "lt"  -> "<"
      [] operator = "lte" -> "<="
      [] operator = "gt"  -> ">"
      [] operator = "gte" -> ">="
      [] operator = "in"  -> "IN"
      [] OTHER -> ""

(* The column of an object is not known: o.k is the column k of a table o. *)
Column(fieldName) == IF Len(fieldName) > 1 THEN <<"another table">> ELSE fieldName

Literal(fieldName, k) == Last(fieldName) \o ToString(k)

(* The names in the text, as @name.                                        *)
valueForOperator(fieldName, value, operator, counter) ==
    LET n == IF operator = "in" THEN Len(value)
             ELSE IF operator \in {"eq", "ne"} /\ value = <<Null>> THEN 0
             ELSE 1
    IN [refs    |-> [i \in 1 .. n |-> Literal(fieldName, counter.valueCounter + i - 1)],
        counter |-> [counter EXCEPT !.valueCounter = @ + n]]

(* The names of the values; a later value of the same name wins.           *)
parametersFor(fieldName, values, counter) ==
    LET name(i) == Literal(fieldName, counter.paramCounter + i - 1)
    IN [params  |-> [s \in {name(i) : i \in DOMAIN values} |->
                        values[Max({i \in DOMAIN values : name(i) = s})]],
        counter |-> [counter EXCEPT !.paramCounter = @ + Len(values)]]

inlineVariableIfNeeded(fieldName, inlineFields) ==
    IF fieldName \in DOMAIN inlineFields THEN inlineFields[fieldName] ELSE fieldName

Parsed(expr, params) == <<[expr |-> expr, params |-> params]>>

Leaf(fieldName, on, rel, operator, value, values, counter) ==
    LET v == valueForOperator(fieldName, value, operator, counter)
        p == parametersFor(fieldName, values, v.counter)
    IN [parsed |-> Parsed(IF operator \in {"in", "matches"} /\ value = <<>> THEN Throws("InvalidQuery")
                          ELSE Cmp(on, rel, v.refs), p.params),
        counter |-> p.counter]

(* What the value becomes among the parameters.                            *)
ValuesOf(operator, value) ==
    IF operator # "in" /\ value = <<Null>> THEN <<>> ELSE value

(* The counter is shared by reference: what a member of a junction counted *)
(* is seen by the next.                                                    *)
RECURSIVE parseFilter(_, _, _)
parseFilter(filter, counter, inlineFields) ==
    IF isEmptyFilter(filter) THEN [parsed |-> <<>>, counter |-> counter]
    ELSE IF filter.operator \in {"and", "or"}
    THEN LET res == FoldLeft(
                 LAMBDA o, f : LET r == parseFilter(f, o.counter, inlineFields)
                               IN [parsed |-> o.parsed \o r.parsed, counter |-> r.counter],
                 [parsed |-> <<>>, counter |-> counter], filter.value)
         IN [parsed |-> Parsed(Junction(SqlJunction[filter.operator],
                                        [i \in DOMAIN res.parsed |-> res.parsed[i].expr]),
                               FoldLeft(LAMBDA s, r : r.params @@ s, <<>>, res.parsed)),
             counter |-> res.counter]
    ELSE IF filter.operator = "not"
    THEN LET res == parseFilter(filter.value[1], counter, inlineFields)
         IN [parsed |-> Parsed(Junction("NOT", <<First(res.parsed).expr>>), First(res.parsed).params),
             counter |-> res.counter]
    ELSE IF isSingleFieldOperator(filter.operator)
    THEN Leaf(filter.fieldName, inlineVariableIfNeeded(Column(filter.fieldName), inlineFields),
              adapterOperatorToMySqlOperator(filter.operator, filter.value),
              filter.operator, filter.value, ValuesOf(filter.operator, filter.value), counter)
    ELSE IF isSingleFieldStringOperator(filter.operator)
    THEN Leaf(filter.fieldName, inlineVariableIfNeeded(Column(filter.fieldName), inlineFields),
              "LIKE", filter.operator, filter.value,
              <<valueForStringOperator(filter.operator, filter.value[1])>>, counter)
    ELSE IF filter.operator = "matches"
    THEN Leaf(filter.fieldName, Column(filter.fieldName), "LIKE", filter.operator,
              filter.value, <<specArrayToRegex(filter.value)>>, counter)
    ELSE [parsed |-> <<>>, counter |-> counter]

transform(filter) ==
    LET results == parseFilter(filter, Counter, <<>>).parsed
    IN IF results = <<>> THEN [where |-> <<>>, params |-> <<>>]
       ELSE [where |-> <<results[1].expr>>, params |-> results[1].params]

createFieldsStatementAndAliases(projectionFunctions) ==
    [functions |-> [i \in DOMAIN projectionFunctions |->
                       LET f == projectionFunctions[i]
                       IN [fn |-> SqlFunctions[f.function], column |-> <<f.name>>, alias |-> f.alias]],
     aliasToFunction |->
         [a \in {<<f.alias>> : f \in ToSet(projectionFunctions)} |->
             LET f == CHOOSE f \in ToSet(projectionFunctions) : <<f.alias>> = a
             IN <<SqlFunctions[f.function], f.name>>]]

(* HAVING is parsed with a counter of its own, from zero.                  *)
parseAggregation(aggregation) ==
    LET statement == createFieldsStatementAndAliases(
                         extractProjectionFunctionsObjects(aggregation.projection))
        having    == parseFilter(aggregation.postFilter, Counter, statement.aliasToFunction).parsed
        groups    == extractGroupByNames(aggregation.projection)
    IN [functions |-> statement.functions,
        groups    |-> [i \in DOMAIN groups |-> <<groups[i]>>],
        having    |-> [i \in DOMAIN having |-> having[i].expr],
        params    |-> IF having = <<>> THEN <<>> ELSE having[1].params]

parseSort(sort) == [on |-> <<sort.fieldName>>, desc |-> sort.direction # "asc"]

orderBy(sort) == [i \in DOMAIN sort |-> parseSort(sort[i])]

-----------------------------------------------------------------------------
(* The data provider.  The page is written into the text, and only when    *)
(* rows are to be skipped: it is bound here under names no field has.      *)

Paged(params, skip, limit) == params @@ ("OFFSET" :> skip) @@ ("FETCH NEXT" :> limit)

pagingQueryFor(skip, what) == IF Head(skip) > 0 THEN <<what>> ELSE <<>>

find(filter, sort, skip, limit) ==
    LET f == transform(filter)
    IN Select(f.where, orderBy(sort), pagingQueryFor(skip, "OFFSET"),
              pagingQueryFor(skip, "FETCH NEXT"), Paged(f.params, skip, limit))

count(filter) ==
    LET f == transform(filter)
    IN Select(f.where, <<>>, <<>>, <<>>, f.params)

(* The parameters of WHERE and HAVING are merged by name.                  *)
aggregate(filter, aggregation, sort, skip, limit) ==
    LET f == transform(filter)
        a == parseAggregation(aggregation)
    IN SelectGroups(f.where, a.groups, a.functions, a.having, orderBy(sort),
                    pagingQueryFor(skip, "OFFSET"), pagingQueryFor(skip, "FETCH NEXT"),
                    Paged(a.params @@ f.params, skip, limit), FALSE)

(* An offset needs an order.                                               *)
MssqlRefuses(statement) ==
    Refused(statement) \/ (statement.offset # <<>> /\ statement.order = <<>>)
==============================================================================
