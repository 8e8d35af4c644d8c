------------------------------ MODULE MysqlQueries ------------------------------
(***************************************************************************)
(* The queries of MySQL: positional placeholders.                          *)
(***************************************************************************)
EXTENDS SqlStatements

isSingleFieldOperator(operator) == operator \in {"ne", "lt", "lte", "gt", "gte", "in", "eq"}

isSingleFieldStringOperator(operator) == operator \in {"contains", "begins", "ends"}

isNestedField(fieldName) == Len(fieldName) > 1

valueForStringOperator(operator, value) ==
    CASE operator = "contains" -> <<Wildcard>> \o value \o <<Wildcard>>
      [] operator = "begins"   -> value \o <<Wildcard>>
      [] operator = "ends"     -> <<Wildcard>> \o value
      [] OTHER -> value

adapterOperatorToMySqlOperator(operator, value) ==
    CASE operator = "eq"  -> IF value = <<Null>> THEN "IS NULL" ELSE "="
      [] operator = "ne"  -> IF value = <<Null>> THEN "IS NOT NULL" ELSE "<>"
      [] operator = "lt"  -> "<"
      [] operator = "lte" -> "<="
      [] operator = "gt"  -> ">"
      [] operator = "gte" -> ">="
      [] operator = "in"  -> "IN"
      [] OTHER -> ""

valueForOperator(value, operator) ==
    IF operator = "in" THEN [i \in DOMAIN value |-> "?"]
    ELSE IF operator \in {"eq", "ne"} /\ value = <<Null>> THEN <<>>
    ELSE <<"?">>

Parsed(expr, params) == <<[expr |-> expr, params |-> params]>>

(* What the value becomes among the parameters.                            *)
ParametersOf(operator, value) ==
    IF operator # "in" /\ value = <<Null>> THEN <<>> ELSE value

Compare(on, operator, value) ==
    IF operator = "in" /\ value = <<>> THEN Parsed(Throws("InvalidQuery"), <<>>)
    ELSE Parsed(Cmp(on, adapterOperatorToMySqlOperator(operator, value),
                    valueForOperator(value, operator)),
                ParametersOf(operator, value))

(* The members of a junction are read without asking whether there are any.*)
RECURSIVE parseFilter(_)
parseFilter(filter) ==
    IF isEmptyFilter(filter) THEN <<>>
    ELSE IF filter.operator \in {"and", "or"}
    THEN LET res == [i \in DOMAIN filter.value |-> First(parseFilter(filter.value[i]))]
         IN Parsed(Junction(SqlJunction[filter.operator], [i \in DOMAIN res |-> res[i].expr]),
                   Flat([i \in DOMAIN res |-> res[i].params]))
    ELSE IF filter.operator = "not"
    THEN LET res == First(parseFilter(filter.value[1]))
         IN Parsed(Junction("NOT", <<res.expr>>), res.params)
    ELSE IF ~isNestedField(filter.fieldName) /\ filter.operator = "matches"
    THEN Parsed(CmpSpec(filter.fieldName, "RLIKE", <<"?">>, filter.value),
                <<specArrayToRegex(filter.value)>>)
    ELSE IF isNestedField(filter.fieldName) \/ isSingleFieldOperator(filter.operator)
    THEN Compare(filter.fieldName, filter.operator, filter.value)
    ELSE IF isSingleFieldStringOperator(filter.operator)
    THEN Parsed(Cmp(filter.fieldName, "LIKE", <<"?">>),
                <<valueForStringOperator(filter.operator, filter.value[1])>>)
    ELSE <<>>

transform(filter) ==
    LET results == parseFilter(filter)
    IN IF results = <<>> THEN [where |-> <<>>, params |-> <<>>]
       ELSE [where |-> <<results[1].expr>>, params |-> results[1].params]

createFieldsStatementArray(projectionFunctions) ==
    [i \in DOMAIN projectionFunctions |->
        LET f == projectionFunctions[i]
        IN [fn |-> SqlFunctions[f.function], column |-> <<f.name>>, alias |-> f.alias]]

(* HAVING names the aliases of the select list.                            *)
parseAggregation(aggregation) ==
    LET having == parseFilter(aggregation.postFilter)
        groups == extractGroupByNames(aggregation.projection)
    IN [functions |-> createFieldsStatementArray(
                          extractProjectionFunctionsObjects(aggregation.projection)),
        groups    |-> [i \in DOMAIN groups |-> <<groups[i]>>],
        having    |-> [i \in DOMAIN having |-> having[i].expr],
        params    |-> IF having = <<>> THEN <<>> ELSE having[1].params]

parseSort(sort) == [on |-> <<sort.fieldName>>, desc |-> sort.direction # "asc"]

orderBy(sort) == [i \in DOMAIN sort |-> parseSort(sort[i])]

-----------------------------------------------------------------------------
(* The data provider: LIMIT takes the offset, then the number of rows.     *)

(* Mutant: the page is given as the number of rows and then the offset. *)
findSwapped(filter, sort, skip, limit) ==
    LET f == transform(filter)
    IN Positional(Select(f.where, orderBy(sort), <<"?">>, <<"?">>, f.params \o <<limit, skip>>))

find(filter, sort, skip, limit) ==
    LET f == transform(filter)
    IN Positional(Select(f.where, orderBy(sort), <<"?">>, <<"?">>, f.params \o <<skip, limit>>))

count(filter) ==
    LET f == transform(filter)
    IN Positional(Select(f.where, <<>>, <<>>, <<>>, f.params))

(* Mutant: the parameters of HAVING go first. *)
aggregateReversed(filter, aggregation, sort, skip, limit) ==
    LET f == transform(filter)
        a == parseAggregation(aggregation)
    IN Positional(SelectGroups(f.where, a.groups, a.functions, a.having, orderBy(sort),
                               <<"?">>, <<"?">>, a.params \o f.params \o <<skip, limit>>, TRUE))

aggregate(filter, aggregation, sort, skip, limit) ==
    LET f == transform(filter)
        a == parseAggregation(aggregation)
    IN Positional(SelectGroups(f.where, a.groups, a.functions, a.having, orderBy(sort),
                               <<"?">>, <<"?">>, f.params \o a.params \o <<skip, limit>>, TRUE))
==============================================================================
