----------------------------- MODULE AdapterQuery -----------------------------
(***************************************************************************)
(* What a query asks, before any database is involved: the filter of Wix   *)
(* and its meaning, the filter of the adaptor it is transformed into, the  *)
(* validator and aggregations.                                             *)
(*                                                                         *)
(* A text is a word, a sequence of small letters; a number is a word of one*)
(* letter; Null is the empty word.  A field of a filter is the sequence of *)
(* its segments, <<"o", "k">> for o.k, and its value a list of words: of as*)
(* many as the client wrote for $hasSome, of one for each item of its spec *)
(* for $matches, of one word for all others.  An item {type: "anyOf"} of a *)
(* spec is Open and its letters, a literal one is a word; no item at all   *)
(* stands for a value without a spec.  Letters being small, ignoreCase     *)
(* changes nothing.                                                        *)
(***************************************************************************)
EXTENDS ItemStatements, FiniteSetsExt

CONSTANT Rows   \* the table: a sequence of rows, each from fields to values

RECURSIVE Before(_, _)
Before(v, w) ==
    /\ w # <<>>
    /\ \/ v = <<>>
       \/ Head(v) < Head(w)
       \/ Head(v) = Head(w) /\ Before(Tail(v), Tail(w))

Open == 14   \* a letter no value holds

(* The letters that each place of a text may have to match an item.        *)
LettersOf(item) ==
    IF item # Null /\ Head(item) = Open THEN <<ToSet(Tail(item))>>
    ELSE [i \in DOMAIN item |-> {item[i]}]

(* A stretch of the text has what the items ask, one item after the other. *)
MatchesSpec(v, spec) ==
    LET allowed == Flat([i \in DOMAIN spec |-> LettersOf(spec[i])])
    IN \E before \in 0 .. Len(v) - Len(allowed) :
           \A i \in DOMAIN allowed : v[before + i] \in allowed[i]

Within(v, w) == \E i \in 0 .. Len(v) : IsPrefix(w, SubSeq(v, i + 1, Len(v)))

-----------------------------------------------------------------------------
(* The meaning of a filter of Wix for a row: true, false, or unknown where *)
(* a missing value is compared, which databases answer in their own way.   *)

True    == 2
Unknown == 1
False   == 0

Verdict(b) == IF b THEN True ELSE False

Compared(operator, v, w) ==
    CASE operator \in {"eq", "in"} -> v = w
      [] operator = "ne"  -> v # w
      [] operator = "lt"  -> Before(v, w)
      [] operator = "lte" -> ~Before(w, v)
      [] operator = "gt"  -> Before(w, v)
      [] operator = "gte" -> ~Before(v, w)
      [] operator = "begins"   -> IsPrefix(w, v)
      [] operator = "ends"     -> IsSuffix(w, v)
      [] operator = "contains" -> Within(v, w)

WixOperators ==
    ("$eq" :> "eq") @@ ("$ne" :> "ne") @@ ("$lt" :> "lt") @@ ("$lte" :> "lte")
    @@ ("$gt" :> "gt") @@ ("$gte" :> "gte") @@ ("$hasSome" :> "in")
    @@ ("$contains" :> "contains") @@ ("$startsWith" :> "begins")
    @@ ("$endsWith" :> "ends") @@ ("$or" :> "or") @@ ("$and" :> "and")
    @@ ("$not" :> "not") @@ ("$urlized" :> "urlized") @@ ("$matches" :> "matches")

Junctions == {"$and", "$or", "$not"}

WixEmpty == [operator |-> "none"]

Meant(operator, v, list) ==
    IF list = <<Null>> /\ operator \in {"eq", "ne"} THEN Verdict(Compared(operator, v, Null))
    ELSE IF operator = "matches"
    THEN IF isNull(v) THEN Unknown ELSE Verdict(MatchesSpec(v, list))
    ELSE IF isNull(v) \/ Null \in ToSet(list) THEN Unknown
    ELSE Verdict(\E w \in ToSet(list) : Compared(operator, v, w))

RECURSIVE Meaning(_, _)
Meaning(filter, row) ==
    CASE filter = WixEmpty -> True
      [] filter.operator = "$and" ->
             Min({True} \cup {Meaning(f, row) : f \in ToSet(filter.value)})
      [] filter.operator = "$or"  ->
             Max({False} \cup {Meaning(f, row) : f \in ToSet(filter.value)})
      [] filter.operator = "$not" -> True - Meaning(filter.value[1], row)
      [] filter.operator = ""     -> Meant("eq", row[filter.fieldName], filter.value)
      [] OTHER -> Meant(WixOperators[filter.operator], row[filter.fieldName], filter.value)

-----------------------------------------------------------------------------
(* FilterTransformer.  A filter of Wix has one key: a junction, or a field *)
(* with {operator: value} or with the plain value, whose operator is "".   *)
(* The operator "unrecognized" stands for the InvalidQuery it throws.      *)

EmptyFilter == [operator |-> ""]

isEmptyFilter(filter) == filter.operator = ""

wixOperatorToAdapterOperator(operator) ==
    IF operator \in DOMAIN WixOperators THEN WixOperators[operator] ELSE "unrecognized"

valueAndOperatorFromFilter(filter) ==
    [operator |-> IF filter.operator = "" THEN "$eq" ELSE filter.operator,
     value    |-> filter.value]

RECURSIVE transformFilter(_)
transformFilter(filter) ==
    IF filter = WixEmpty THEN EmptyFilter
    ELSE IF filter.operator \in Junctions
    THEN [operator |-> wixOperatorToAdapterOperator(filter.operator),
          value    |-> [i \in DOMAIN filter.value |-> transformFilter(filter.value[i])]]
    ELSE LET read == valueAndOperatorFromFilter(filter)
         IN [operator  |-> wixOperatorToAdapterOperator(read.operator),
             fieldName |-> filter.fieldName,
             value     |-> read.value]

RECURSIVE Leaves(_)
Leaves(filter) ==
    IF isEmptyFilter(filter) THEN {}
    ELSE IF "fieldName" \in DOMAIN filter THEN {filter}
    ELSE UNION {Leaves(f) : f \in ToSet(filter.value)}

RECURSIVE HasEmptyPart(_)
HasEmptyPart(filter) ==
    /\ ~isEmptyFilter(filter)
    /\ "fieldName" \notin DOMAIN filter
    /\ \/ filter.value = <<>>
       \/ \E f \in ToSet(filter.value) : isEmptyFilter(f) \/ HasEmptyPart(f)

-----------------------------------------------------------------------------
(* AggregationTransformer *)

AdapterFunctions ==
    ("average" :> "avg") @@ ("max" :> "max") @@ ("min" :> "min")
    @@ ("sum" :> "sum") @@ ("count" :> "count")

projectionFunctionFor(fieldName, fieldAlias, func) ==
    IF func = "count"
    THEN [alias |-> fieldAlias, function |-> func, name |-> "*"]
    ELSE [alias |-> IF fieldAlias = "" THEN fieldName ELSE fieldAlias,
          function |-> func, name |-> fieldName]

transformAggregation(aggregation, finalFilter) ==
    [projection |->
         [i \in DOMAIN aggregation.groupingFields |->
             [name |-> aggregation.groupingFields[i], function |-> "", alias |-> ""]]
         \o [i \in DOMAIN aggregation.operations |->
                LET o == aggregation.operations[i]
                IN projectionFunctionFor(o.itemFieldName, o.resultFieldName,
                                         AdapterFunctions[o.calculate])],
     postFilter |-> transformFilter(finalFilter)]

extractGroupByNames(projection) ==
    LET plain == SelectSeq(projection, LAMBDA f : f.function = "")
    IN [i \in DOMAIN plain |-> plain[i].name]

extractProjectionFunctionsObjects(projection) ==
    SelectSeq(projection, LAMBDA f : f.function # "")

-----------------------------------------------------------------------------
(* QueryValidator.  fields gives the columns of the schema their types.    *)

QueryOperatorsByFieldType ==
    LET ordered == {"eq", "ne", "gt", "gte", "lt", "lte"}
        text    == ordered \cup {"contains", "begins", "ends", "in", "matches"}
    IN ("number" :> ordered \cup {"in"}) @@ ("text" :> text) @@ ("boolean" :> {"eq"})
       @@ ("url" :> {"eq", "ne", "contains", "in"}) @@ ("datetime" :> ordered)
       @@ ("image" :> {}) @@ ("object" :> text)

validateFieldsExist(fields, names) ==
    IF names \subseteq DOMAIN fields THEN "ok" ELSE "FieldDoesNotExist"

(* The table knows the types of Wix only: for another type the lookup gives*)
(* undefined, and the validator fails with a TypeError.                    *)
validateOperators(fields, leaves) ==
    IF \E f \in leaves : fields[Head(f.fieldName)] \notin DOMAIN QueryOperatorsByFieldType
    THEN "TypeError"
    ELSE IF \E f \in leaves :
               f.operator \notin QueryOperatorsByFieldType[fields[Head(f.fieldName)]]
    THEN "InvalidQuery"
    ELSE "ok"

validateFilter(fields, filter) ==
    LET leaves == Leaves(filter)
        exist  == validateFieldsExist(fields, {Head(f.fieldName) : f \in leaves})
    IN IF exist # "ok" THEN exist ELSE validateOperators(fields, leaves)

validateAggregation(fields, aggregation) ==
    LET named   == SelectSeq(aggregation.projection, LAMBDA f : f.name # "*")
        aliased == {f \in ToSet(named) : f.alias # ""}
        known   == fields @@ [a \in {f.alias : f \in aliased} |->
                       LET f == CHOOSE f \in aliased : f.alias = a
                       IN IF f.name \in DOMAIN fields THEN fields[f.name] ELSE "undefined"]
        filtered == validateFilter(known, aggregation.postFilter)
    IN IF filtered # "ok" THEN filtered
       ELSE validateFieldsExist(known, {f.name : f \in ToSet(named)} \cup {f.alias : f \in aliased})

==============================================================================
