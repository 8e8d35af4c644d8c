--------------------------- MODULE MCQueryTranslation ---------------------------
(***************************************************************************)
(* Requests for TLC: every operator on a text, a number and a field of an  *)
(* object, alone and in junctions, with values that share letters, so that *)
(* a value compared with the wrong column shows.                           *)
(***************************************************************************)
EXTENDS QueryTranslation

Row(id, a, a1, n, k) ==
    (<<"_id">> :> id) @@ (<<"a">> :> a) @@ (<<"a1">> :> a1) @@ (<<"n">> :> n)
    @@ (<<"o", "k">> :> k)

MCRows == << Row(<<2>>, <<1>>,    <<2>>,    <<1>>, <<1>>),
             Row(<<1>>, <<1, 2>>, <<1>>,    <<2>>, <<2>>),
             Row(<<4>>, Null,     <<1>>,    <<3>>, <<1, 2>>),
             Row(<<3>>, <<2, 1>>, <<1, 2>>, <<1>>, Null),
             Row(<<5>>, <<1>>,    <<2>>,    Null,  <<1>>) >>

MCColumns  == <<"_id", "a", "a1", "n", "o">>
MCTypes    == ("_id" :> "text") @@ ("a" :> "text") @@ ("a1" :> "text") @@ ("n" :> "number")
              @@ ("o" :> "object") @@ ("t" :> "time")
MCDialects == {"postgres", "mysql", "mssql", "spanner", "bigquery", "mongo", "dynamodb",
               "firestore"}

-----------------------------------------------------------------------------
Leaf(field, operator, value) == [operator |-> operator, fieldName |-> field, value |-> <<value>>]
LeafIn(field, list) == [operator |-> "$hasSome", fieldName |-> field, value |-> list]
LeafMatches(field, spec) == [operator |-> "$matches", fieldName |-> field, value |-> spec]
And(s) == [operator |-> "$and", value |-> s]
Or(s)  == [operator |-> "$or", value |-> s]
Not(f) == [operator |-> "$not", value |-> <<f>>]

A  == <<"a">>
A1 == <<"a1">>
N  == <<"n">>
K  == <<"o", "k">>

Ordered4 == {"$eq", "$ne", "$lt", "$lte", "$gt", "$gte"}
Texts    == {"$contains", "$startsWith", "$endsWith"}
Lists    == {<<>>, <<<<1>>>>, <<<<2, 1>>, <<1>>>>}

(* A literal, one of two letters, one after the other, and no spec at all. *)
AnyOf(letters) == <<Open>> \o letters
Specs == {<<<<1>>>>, <<AnyOf(<<2, 3>>)>>, <<<<1>>, AnyOf(<<1, 2>>)>>,
          <<AnyOf(<<1, 2>>), AnyOf(<<1>>)>>, <<>>}

Leaves1 ==
    {Leaf(f, op, v) : f \in {A, K}, op \in Ordered4 \cup Texts \cup {""}, v \in {<<1>>, <<1, 2>>}}
    \cup {Leaf(N, op, <<2>>) : op \in Ordered4}
    \cup {Leaf(f, op, Null) : f \in {A, K, <<"_id">>}, op \in {"$eq", "$ne", "$lt"}}
    \cup {LeafIn(f, l) : f \in {A, N, K}, l \in Lists}
    \cup {LeafMatches(f, s) : f \in {A, N, K}, s \in Specs}
    \cup {Leaf(<<"_id">>, "$eq", <<1>>), Leaf(N, "$contains", <<1>>), Leaf(A, "$urlized", <<1>>),
          Leaf(A, "$like", <<1>>), Leaf(<<"t">>, "$eq", <<1>>), Leaf(<<"z">>, "$eq", <<1>>)}

Parts ==
    {Leaf(A, "$eq", <<1>>), Leaf(A, "", Null), Leaf(A, "$startsWith", <<1>>),
     LeafIn(A, <<<<2, 1>>, <<1, 2>>>>), Leaf(A1, "$ne", <<1>>), Leaf(K, "$gt", <<1>>),
     Leaf(N, "$lte", <<2>>), LeafMatches(A, <<AnyOf(<<1, 2>>), <<1>>>>)}

Pairs == {And(<<f, g>>) : f, g \in Parts} \cup {Or(<<f, g>>) : f, g \in Parts}

(* Names that are a field and a number, and the field of that name; eleven *)
(* comparisons in a row; a negation and a junction inside junctions.       *)
Deep ==
    {And(<<Leaf(A1, "$eq", <<2>>), LeafIn(A, [i \in 1 .. 10 |-> <<i>>])>>),
     And(<<Leaf(A1, "$ne", <<2>>), LeafIn(A, <<<<2, 1>>, <<1, 2>>>>)>>),
     And([i \in 1 .. 10 |-> Leaf(A, "$ne", <<i>>)] \o <<Leaf(K, "$eq", <<2>>)>>),
     And(<<Leaf(A1, "$ne", <<1>>), Or(<<Not(Leaf(A, "$eq", <<1>>)), Leaf(N, "$eq", <<1>>)>>),
           Leaf(A, "$contains", <<2>>)>>),
     Or(<<And(<<Leaf(A, "$eq", <<1>>), Leaf(A, "$ne", <<2>>)>>), Not(Leaf(K, "$eq", <<1>>)),
          Leaf(A1, "$eq", <<1, 2>>)>>),
     Not(And(<<Leaf(A, "", Null), Leaf(A, "$lt", <<2>>)>>)),
     Not(WixEmpty), And(<<>>), And(<<WixEmpty, Leaf(A, "$eq", <<1>>)>>),
     And(<<Leaf(N, "$gt", <<1>>), WixEmpty, Leaf(A1, "$eq", <<1>>)>>)}

Filters == {WixEmpty} \cup Leaves1 \cup {Not(f) : f \in Parts} \cup Pairs \cup Deep

-----------------------------------------------------------------------------
By(field, direction) == <<[fieldName |-> field, direction |-> direction]>>

Pages == {[skip |-> Zero, limit |-> <<2>>], [skip |-> <<1>>, limit |-> <<2>>],
          [skip |-> Zero, limit |-> <<9>>]}

Finds ==
    {[kind |-> "find", filter |-> f, sort |-> s, skip |-> p.skip, limit |-> p.limit,
      projection |-> <<"_id", "a1", "a">>] :
         f \in {WixEmpty} \cup Parts \cup Deep,
         s \in {<<>>, By("_id", "asc"), By("_id", "desc"), By("a1", "desc") \o By("_id", "asc")}, p \in Pages}
    \cup {[kind |-> "find", filter |-> Leaf(A, "$eq", <<1>>), sort |-> <<>>, skip |-> Zero,
           limit |-> <<9>>, projection |-> <<"_id", "z">>]}

Counts == {[kind |-> "count", filter |-> f] : f \in Filters}

Operation(func, field, alias) ==
    [calculate |-> func, itemFieldName |-> field, resultFieldName |-> alias]

Aggregations ==
    {[groupingFields |-> <<"a1">>, operations |-> <<Operation(f, "n", "s")>>] :
         f \in {"sum", "max", "min", "average"}}
    \cup {[groupingFields |-> <<"a1", "a">>,
           operations |-> <<Operation("sum", "n", "s"), Operation("count", "n", "c")>>],
          [groupingFields |-> <<"a1">>, operations |-> <<Operation("max", "a", "m")>>],
          [groupingFields |-> <<"z">>, operations |-> <<Operation("sum", "n", "s")>>]}

FinalFilters ==
    {WixEmpty, Leaf(<<"s">>, "$gt", <<1>>), Leaf(A1, "$ne", <<1>>), Leaf(<<"c">>, "$eq", <<1>>),
     And(<<Leaf(<<"s">>, "$gte", <<1>>), Leaf(<<"s">>, "$lt", <<3>>)>>),
     Or(<<Leaf(A1, "$eq", <<1, 2>>), LeafIn(<<"s">>, <<<<3>>, <<5>>>>)>>),
     LeafMatches(A1, <<AnyOf(<<1, 2>>), <<2>>>>), LeafMatches(<<"m">>, <<<<1>>>>),
     And(<<Leaf(<<"m">>, "$startsWith", <<1>>), Leaf(A1, "$ne", <<2>>)>>)}

Aggregates ==
    {[kind |-> "aggregate", filter |-> f, aggregation |-> a, finalFilter |-> g,
      sort |-> <<>>, skip |-> Zero, limit |-> <<9>>] :
         a \in Aggregations, g \in FinalFilters,
         f \in {WixEmpty, Leaf(A1, "$ne", <<2>>), Leaf(N, "$lte", <<2>>),
                Or(<<Leaf(A1, "$eq", <<1>>), Leaf(A1, "$eq", <<2>>)>>)}}

-----------------------------------------------------------------------------
Item(id, a, n) == ("_id" :> id) @@ ("a" :> a) @@ ("n" :> n)

Items == {<<"_id" :> <<1>>>>, <<Item(<<1>>, <<2>>, <<1>>)>>, <<Item(<<1>>, Null, Zero)>>,
          <<Item(<<1>>, <<1>>, <<2>>), Item(<<2>>, <<2>>, <<1>>)>>,
          <<"z" :> <<1>> @@ Item(<<1>>, <<1>>, <<2>>), Item(<<2>>, <<1, 2>>, <<1>>)>>,
          <<("_id" :> <<1>>) @@ ("a" :> <<1>>), ("_id" :> <<2>>) @@ ("n" :> <<1>>)>>,
          <<("_id" :> <<1>>) @@ ("a1" :> <<1>>) @@ ("a" :> <<2>>),
            ("_id" :> <<2>>) @@ ("a1" :> <<1, 2>>) @@ ("a" :> Null)>>,
          [i \in 1 .. 12 |-> ("_id" :> <<1, i>>) @@ ("a" :> <<2, i>>) @@ ("a1" :> <<3, i>>)]}

Writes == {[kind |-> k, items |-> s] : k \in {"insert", "update"}, s \in Items}
          \cup {[kind |-> "insert", items |-> <<"a" :> <<1>>>>]}

MCRequests == Finds \cup Counts \cup Aggregates \cup Writes
==============================================================================
