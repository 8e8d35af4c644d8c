------------------------------ MODULE DynamoQueries ------------------------------
(***************************************************************************)
(* The queries of DynamoDB: an expression in which both the attributes and *)
(* the values have names, #a0 and :a0, each made of the field and a number.*)
(* A filter on the key alone is a query, any other a scan.                 *)
(***************************************************************************)
EXTENDS SqlStatements

Counter == [nameCounter |-> 0, valueCounter |-> 0]

isSingleFieldOperator(operator) == operator \in {"ne", "lt", "lte", "gt", "gte", "eq"}

isSingleFieldStringOperator(operator) == operator \in {"contains", "begins", "ends"}

isNestedField(fieldName) == Len(fieldName) > 1

adapterOperatorToDynamoOperator(operator) ==
    CASE operator = "eq"  -> "="
      [] operator = "ne"  -> "<>"
      [] operator = "lt"  -> "<"
      [] operator = "lte" -> "<="
      [] operator = "gt"  -> ">"
      [] operator = "gte" -> ">="
      [] operator = "in"  -> "IN"
      [] operator = "contains" -> "contains"
      [] operator = "begins"   -> "begins_with"
      [] operator = "ends"     -> "ends_with"
      [] OTHER -> ""

attributeNameWithCounter(fieldName, counter) ==
    [i \in DOMAIN fieldName |-> "#" \o fieldName[i] \o ToString(counter.nameCounter + i - 1)]

attributeValueNameWithCounter(fieldName, k) == ":" \o Head(fieldName) \o ToString(k)

Parsed(expr, names, values, counter) ==
    [parsed |-> <<[expr |-> expr, names |-> names, params |-> values]>>, counter |-> counter]

(* What the name of a segment loses to become the segment again: its first *)
(* and its last character, of the number the last digit only.              *)
Sliced(segment, number) ==
    IF number < 10 THEN segment ELSE segment \o ToString(number \div 10)

(* A comparison of a field with values, the names it uses and the counters.*)
Compare(filter, rel, values, counter) ==
    LET field == filter.fieldName
        name  == attributeNameWithCounter(field, counter)
        value(i) == attributeValueNameWithCounter(field, counter.valueCounter + i - 1)
    IN Parsed(Cmp(name, rel, [i \in DOMAIN values |-> value(i)]),
              [s \in ToSet(name) |->
                  LET i == CHOOSE i \in DOMAIN name : name[i] = s
                  IN IF isNestedField(field) THEN Sliced(field[i], counter.nameCounter + i - 1)
                     ELSE field[i]],
              [s \in {value(i) : i \in DOMAIN values} |->
                  values[CHOOSE i \in DOMAIN values : value(i) = s]],
              [nameCounter  |-> counter.nameCounter + Len(field),
               valueCounter |-> counter.valueCounter + Len(values)])

(* For a field of an object the operators of strings and lists are written *)
(* between the operands, which DynamoDB does not parse.                    *)
RECURSIVE parseFilter(_, _)
parseFilter(filter, counter) ==
    IF isEmptyFilter(filter) THEN [parsed |-> <<>>, counter |-> counter]
    ELSE IF filter.operator \in {"and", "or"}
    THEN LET res == FoldLeft(
                 LAMBDA o, f : LET r == parseFilter(f, o.counter)
                               IN [parsed  |-> Append(o.parsed,
                                                 IF r.parsed = <<>>
                                                 THEN [expr |-> Throws("TypeError"),
                                                       names |-> <<>>, params |-> <<>>]
                                                 ELSE r.parsed[1]),
                                   counter |-> r.counter],
                 [parsed |-> <<>>, counter |-> counter], filter.value)
         IN Parsed(Junction(SqlJunction[filter.operator],
                            [i \in DOMAIN res.parsed |-> res.parsed[i].expr]),
                   FoldLeft(LAMBDA s, r : r.names @@ s, <<>>, res.parsed),
                   FoldLeft(LAMBDA s, r : r.params @@ s, <<>>, res.parsed), res.counter)
    ELSE IF filter.operator = "not"
    THEN LET res == parseFilter(filter.value[1], counter)
         IN IF res.parsed = <<>> THEN Parsed(Throws("TypeError"), <<>>, <<>>, counter)
            ELSE Parsed(Junction("NOT", <<res.parsed[1].expr>>),
                        res.parsed[1].names, res.parsed[1].params, res.counter)
    ELSE IF isNestedField(filter.fieldName)
    THEN Compare(filter, IF isSingleFieldOperator(filter.operator)
                         THEN adapterOperatorToDynamoOperator(filter.operator) ELSE "",
                 filter.value, counter)
    ELSE IF isSingleFieldOperator(filter.operator) \/ isSingleFieldStringOperator(filter.operator)
    THEN Compare(filter, adapterOperatorToDynamoOperator(filter.operator), filter.value, counter)
    ELSE IF filter.operator = "in" /\ filter.value = <<>>
    THEN Parsed(Throws("InvalidQuery"), <<>>, <<>>, counter)
    ELSE IF filter.operator = "in"
    THEN Compare(filter, adapterOperatorToDynamoOperator(filter.operator), filter.value, counter)
    ELSE [parsed |-> <<>>, counter |-> [counter EXCEPT !.nameCounter = @ + Len(filter.fieldName)]]

(* Over all attributes that the expression names, the projection left out. *)
canQuery(names, operator) ==
    /\ \A s \in DOMAIN names : names[s] = "_id"
    /\ operator = "eq"

transform(filter) ==
    LET results == parseFilter(filter, Counter).parsed
    IN IF results = <<>>
       THEN [where |-> <<>>, names |-> <<>>, params |-> <<>>, queryable |-> FALSE]
       ELSE [where |-> <<results[1].expr>>, names |-> results[1].names,
             params |-> results[1].params,
             queryable |-> canQuery(results[1].names, filter.operator)]

selectFieldsFor(projection) ==
    [s \in {"#" \o projection[i] : i \in DOMAIN projection} |->
        LET i == CHOOSE i \in DOMAIN projection : "#" \o projection[i] = s IN projection[i]]

-----------------------------------------------------------------------------
(* The data provider.  Neither the order nor what to skip is looked at, and*)
(* the limit is that of the rows to scan.                                  *)

Command(f, names, limit) ==
    [where |-> f.where, having |-> <<>>, offset |-> <<>>, names |-> names,
     params |-> f.params, queryable |-> f.queryable, limit |-> <<>>, scanned |-> limit]

find(filter, limit, projection) ==
    LET f == transform(filter)
    IN Command(f, selectFieldsFor(projection) @@ f.names, <<Head(limit)>>)

count(filter) == LET f == transform(filter) IN Command(f, f.names, <<>>)

-----------------------------------------------------------------------------
(* The database.  A stored null is a value of a type of its own, equal to  *)
(* itself and different from the others.                                   *)

Attribute(statement, on, row) ==
    LET field == [i \in DOMAIN on |-> statement.names[on[i]]]
    IN IF field \in DOMAIN row THEN row[field] ELSE Null

RECURSIVE Satisfies(_, _, _)
Satisfies(cond, row, statement) ==
    CASE cond.node = "AND" -> \A c \in ToSet(cond.of) : Satisfies(c, row, statement)
      [] cond.node = "OR"  -> \E c \in ToSet(cond.of) : Satisfies(c, row, statement)
      [] cond.node = "NOT" -> ~Satisfies(cond.of[1], row, statement)
      [] cond.node = "cmp" ->
           LET v    == Attribute(statement, cond.on, row)
               args == {statement.params[r] : r \in ToSet(cond.refs)}
           IN CASE cond.rel \in {"=", "IN"} -> v \in args
                [] cond.rel = "<>" -> v \notin args
                [] isNull(v) -> FALSE
                [] cond.rel = "contains"    -> \E w \in args : Within(v, w)
                [] cond.rel = "begins_with" -> \E w \in args : IsPrefix(w, v)
                [] OTHER -> \E w \in args : SqlCompared(cond.rel, v, w)

(* There is no ends_with, and null has no order.                           *)
DynamoRefuses(statement) ==
    \E c \in ToSet(statement.where) :
        \/ Malformed(c)
        \/ \E n \in Nodes(c) : /\ n.node = "cmp"
                               /\ \/ n.rel = "ends_with"
                                  \/ /\ n.rel \notin {"=", "<>", "IN"} \/ statement.queryable
                                     /\ Null \in {statement.params[r] : r \in ToSet(n.refs)}

DynamoAnswered(statement) ==
    LET satisfied(r) == \A c \in ToSet(statement.where) : Satisfies(c, r, statement)
        all          == SelectSeq(Rows, satisfied)
    IN IF statement.scanned = <<>> THEN all
       ELSE IF statement.queryable THEN SubSeq(all, 1, Min({Len(all), statement.scanned[1]}))
       ELSE SelectSeq(SubSeq(Rows, 1, Min({Len(Rows), statement.scanned[1]})), satisfied)
==============================================================================
