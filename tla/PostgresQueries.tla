---------------------------- MODULE PostgresQueries ----------------------------
(***************************************************************************)
(* The queries of Postgres: numbered placeholders, whose next number is    *)
(* threaded through the parser of filters.                                 *)
(***************************************************************************)
EXTENDS SqlStatements

isSingleFieldOperator(operator) == operator \in {"ne", "lt", "lte", "gt", "gte", "in", "eq"}

isSingleFieldStringOperator(operator) == operator \in {"contains", "begins", "ends"}

isNestedField(fieldName) == Len(fieldName) > 1

valueForStringOperator(operator, value) ==
    CASE operator = "contains" -> <<Wildcard>> \o value \o <<Wildcard>>
      [] operator = "begins"   -> value \o <<Wildcard>>
      [] operator = "ends"     -> <<Wildcard>> \o value

(* The operators of strings have none: the text then shows undefined.      *)
adapterOperatorToMySqlOperator(operator, value) ==
    CASE operator = "eq"  -> IF value = <<Null>> THEN "IS NULL" ELSE "="
      [] operator = "ne"  -> IF value = <<Null>> THEN "IS NOT NULL" ELSE "<>"
      [] operator = "lt"  -> "<"
      [] operator = "lte" -> "<="
      [] operator = "gt"  -> ">"
      [] operator = "gte" -> ">="
      [] operator = "in"  -> "IN"
      [] OTHER -> ""

prepareStatementVariables(n, offset) == [i \in 1 .. n |-> offset + i - 1]

(* The placeholders of a comparison, and the number after them.            *)
valueForOperator(value, operator, offset) ==
    IF operator = "in"
    THEN [refs |-> prepareStatementVariables(Len(value), offset), offset |-> offset + Len(value)]
    ELSE IF operator \in {"eq", "ne"} /\ value = <<Null>>
    THEN [refs |-> <<>>, offset |-> offset]
    ELSE [refs |-> <<offset>>, offset |-> offset + 1]

inlineVariableIfNeeded(fieldName, inlineFields) ==
    IF fieldName \in DOMAIN inlineFields THEN inlineFields[fieldName] ELSE fieldName

Parsed(expr, params, offset) == <<[expr |-> expr, params |-> params, offset |-> offset]>>

(* What the value becomes among the parameters.                            *)
ParametersOf(operator, value) ==
    IF operator # "in" /\ value = <<Null>> THEN <<>> ELSE value

Compare(on, operator, value, offset) ==
    IF operator = "in" /\ value = <<>>
    THEN Parsed(Throws("InvalidQuery"), <<>>, offset)
    ELSE LET p == valueForOperator(value, operator, offset)
         IN Parsed(Cmp(on, adapterOperatorToMySqlOperator(operator, value), p.refs),
                   ParametersOf(operator, value), p.offset)

(* Mutant: the members of a junction all start from the same number. *)
threadNothing(o, parsed) == [filter |-> o.filter \o parsed, offset |-> o.offset]

(* One step of the reduction over the members of a junction.               *)
thread(o, parsed) ==
    [filter |-> o.filter \o parsed,
     offset |-> IF Len(parsed) = 1 THEN parsed[1].offset ELSE o.offset]

RECURSIVE parseFilter(_, _, _)
parseFilter(filter, offset, inlineFields) ==
    IF isEmptyFilter(filter) THEN <<>>
    ELSE IF filter.operator \in {"and", "or"}
    THEN LET res == FoldLeft(LAMBDA o, f : thread(o, parseFilter(f, o.offset, inlineFields)),
                             [filter |-> <<>>, offset |-> offset], filter.value)
         IN Parsed(Junction(SqlJunction[filter.operator],
                            [i \in DOMAIN res.filter |-> res.filter[i].expr]),
                   FoldLeft(LAMBDA s, r : s \o r.params, <<>>, res.filter), res.offset)
    ELSE IF filter.operator = "not"
    THEN LET res == parseFilter(filter.value[1], offset, inlineFields)
         IN Parsed(Junction("NOT", <<First(res).expr>>), First(res).params,
                   IF Len(res) = 1 THEN res[1].offset ELSE offset)
    ELSE IF isNestedField(filter.fieldName)
    THEN Compare(filter.fieldName, filter.operator, filter.value, offset)
    ELSE IF filter.operator = "matches"
    THEN Parsed(CmpSpec(filter.fieldName, "~", <<offset>>, filter.value),
                <<specArrayToRegex(filter.value)>>, offset + 1)
    ELSE IF isSingleFieldOperator(filter.operator)
    THEN Compare(inlineVariableIfNeeded(filter.fieldName, inlineFields),
                 filter.operator, filter.value, offset)
    ELSE IF isSingleFieldStringOperator(filter.operator)
    THEN Parsed(Cmp(inlineVariableIfNeeded(filter.fieldName, inlineFields), "LIKE", <<offset>>),
                <<valueForStringOperator(filter.operator, filter.value[1])>>, offset + 1)
    ELSE <<>>

transform(filter) ==
    LET results == parseFilter(filter, 1, <<>>)
    IN IF results = <<>> THEN [where |-> <<>>, params |-> <<>>, offset |-> 1]
       ELSE [where |-> <<results[1].expr>>, params |-> results[1].params,
             offset |-> results[1].offset]

createFieldsStatementAndAliases(projectionFunctions) ==
    [functions |-> [i \in DOMAIN projectionFunctions |->
                       LET f == projectionFunctions[i]
                       IN [fn |-> SqlFunctions[f.function], column |-> <<f.name>>, alias |-> f.alias]],
     aliasToFunction |->
         [a \in {<<f.alias>> : f \in ToSet(projectionFunctions)} |->
             LET f == CHOOSE f \in ToSet(projectionFunctions) : <<f.alias>> = a
             IN <<SqlFunctions[f.function], f.name>>]]

parseAggregation(aggregation, offset) ==
    LET statement == createFieldsStatementAndAliases(
                         extractProjectionFunctionsObjects(aggregation.projection))
        having    == parseFilter(aggregation.postFilter, offset, statement.aliasToFunction)
        groups    == extractGroupByNames(aggregation.projection)
    IN [functions |-> statement.functions,
        groups    |-> [i \in DOMAIN groups |-> <<groups[i]>>],
        having    |-> [i \in DOMAIN having |-> having[i].expr],
        params    |-> IF having = <<>> THEN <<>> ELSE having[1].params,
        offset    |-> IF having = <<>> THEN offset ELSE having[1].offset]

parseSort(sort) == [on |-> <<sort.fieldName>>, desc |-> sort.direction # "asc"]

orderBy(sort) == [i \in DOMAIN sort |-> parseSort(sort[i])]

-----------------------------------------------------------------------------
(* The data provider.  skip and limit are numbers, words of one letter.    *)

find(filter, sort, skip, limit) ==
    LET f == transform(filter)
    IN Select(f.where, orderBy(sort), <<f.offset>>, <<f.offset + 1>>,
              f.params \o <<skip, limit>>)

count(filter) ==
    LET f == transform(filter)
    IN Select(f.where, <<>>, <<>>, <<>>, f.params)

aggregate(filter, aggregation, sort, skip, limit) ==
    LET f == transform(filter)
        a == parseAggregation(aggregation, f.offset)
    IN SelectGroups(f.where, a.groups, a.functions, a.having, orderBy(sort),
                    <<a.offset>>, <<a.offset + 1>>,
                    f.params \o a.params \o <<skip, limit>>, FALSE)

(* Postgres wants exactly the parameters that the text refers to.          *)
PostgresRefuses(statement) ==
    Refused(statement) \/ Len(statement.params) > Max({0} \cup ToSet(AllRefs(statement)))
==============================================================================
