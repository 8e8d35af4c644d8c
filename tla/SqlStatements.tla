----------------------------- MODULE SqlStatements -----------------------------
(***************************************************************************)
(* SQL statements as the dialects of the adaptor build them, and what a    *)
(* database does with one: it refuses it, or binds its parameters and      *)
(* answers.  Of the text of a statement remain its conditions, with the    *)
(* placeholders where they stand, and its clauses for groups, order and    *)
(* page.  A condition is                                                   *)
(*   - a comparison [node |-> "cmp", on, rel, refs] of an operand with the *)
(*     parameters its placeholders refer to;                               *)
(*   - [node |-> "AND", of], "OR" or "NOT", of a sequence of conditions; or*)
(*   - [node |-> "throws", error]: building the statement throws here, so  *)
(*     that it is never sent.                                              *)
(* An operand is a field, an alias, or a function and its column.          *)
(***************************************************************************)
EXTENDS AdapterQuery

Wildcard == 10   \* % of a LIKE pattern, a letter no value holds

Close    == 15   \* ] of a LIKE pattern or an expression, Open being its [

Cmp(on, rel, refs)  == [node |-> "cmp", on |-> on, rel |-> rel, refs |-> refs]
Junction(op, conds) == [node |-> op, of |-> conds]
Throws(error)       == [node |-> "throws", error |-> error]

(* The expression for a spec, and a comparison with it.                    *)
specItemToRegex(item) == IF item # Null /\ Head(item) = Open THEN Append(item, Close) ELSE item

specArrayToRegex(spec) == Flat([i \in DOMAIN spec |-> specItemToRegex(spec[i])])

CmpSpec(on, rel, refs, spec) ==
    IF spec = <<>> THEN Throws("InvalidQuery") ELSE Cmp(on, rel, refs)

SqlJunction == ("and" :> "AND") @@ ("or" :> "OR")

SqlFunctions ==
    ("avg" :> "AVG") @@ ("max" :> "MAX") @@ ("min" :> "MIN")
    @@ ("sum" :> "SUM") @@ ("count" :> "COUNT")

(* [0] of the sequence that parseFilter returns, whose member is then read *)
First(parsed) == IF parsed = <<>> THEN [expr |-> Throws("TypeError"), params |-> <<>>]
                 ELSE parsed[1]

RECURSIVE Nodes(_)
Nodes(cond) ==
    {cond} \cup IF "of" \in DOMAIN cond THEN UNION {Nodes(c) : c \in ToSet(cond.of)} ELSE {}

RECURSIVE Refs(_)
Refs(cond) ==
    CASE cond.node = "cmp"    -> cond.refs
      [] cond.node = "throws" -> <<>>
      [] OTHER -> FoldLeft(LAMBDA s, c : s \o Refs(c), <<>>, cond.of)

(* Positional placeholders take the parameters in the order of the text.   *)
RECURSIVE Numbered(_, _)
Numbered(cond, k) ==
    IF cond.node = "cmp" THEN [cond EXCEPT !.refs = [i \in DOMAIN @ |-> k + i - 1]]
    ELSE IF cond.node = "throws" THEN cond
    ELSE [cond EXCEPT !.of =
             FoldLeft(LAMBDA s, c : [of |-> Append(s.of, Numbered(c, s.next)),
                                     next |-> s.next + Len(Refs(c))],
                      [of |-> <<>>, next |-> k], @).of]

-----------------------------------------------------------------------------
(* The letters that a pattern allows first, and what follows them.         *)
FirstItem(pattern) ==
    IF Head(pattern) = Open
    THEN LET close == Min({i \in DOMAIN pattern : pattern[i] = Close})
         IN [letters |-> ToSet(SubSeq(pattern, 2, close - 1)),
             rest    |-> SubSeq(pattern, close + 1, Len(pattern))]
    ELSE [letters |-> {Head(pattern)}, rest |-> Tail(pattern)]

RECURSIVE BeginsAs(_, _)
BeginsAs(v, regex) ==
    \/ regex = <<>>
    \/ v # <<>> /\ LET item == FirstItem(regex)
                   IN Head(v) \in item.letters /\ BeginsAs(Tail(v), item.rest)

(* An expression is searched for in a text; a LIKE pattern is all of it.   *)
Found(v, regex) == \E i \in 0 .. Len(v) : BeginsAs(SubSeq(v, i + 1, Len(v)), regex)

RECURSIVE Like(_, _)
Like(v, pattern) ==
    IF pattern = <<>> THEN v = <<>>
    ELSE IF Head(pattern) = Wildcard
    THEN \E i \in 0 .. Len(v) : Like(SubSeq(v, i + 1, Len(v)), Tail(pattern))
    ELSE v # <<>> /\ LET item == FirstItem(pattern)
                     IN Head(v) \in item.letters /\ Like(Tail(v), item.rest)

SqlCompared(rel, v, w) ==
    CASE rel = "="    -> v = w
      [] rel = "<>"   -> v # w
      [] rel = "<"    -> Before(v, w)
      [] rel = "<="   -> ~Before(w, v)
      [] rel = ">"    -> Before(w, v)
      [] rel = ">="   -> ~Before(v, w)
      [] rel = "LIKE" -> Like(v, w)
      [] rel \in {"~", "RLIKE", "REGEXP_CONTAINS"} -> Found(v, w)

(* row gives the operands that may be named their values.                  *)
RECURSIVE Holds(_, _, _)
Holds(cond, row, params) ==
    CASE cond.node = "AND" -> Min({Holds(c, row, params) : c \in ToSet(cond.of)})
      [] cond.node = "OR"  -> Max({Holds(c, row, params) : c \in ToSet(cond.of)})
      [] cond.node = "NOT" -> True - Holds(cond.of[1], row, params)
      [] cond.node = "cmp" ->
           LET v    == row[cond.on]
               args == {params[r] : r \in ToSet(cond.refs)}
               list == IF cond.rel = "IN UNNEST" THEN ToSet(params[cond.refs[1]]) ELSE args
           IN CASE cond.rel = "IS NULL"     -> Verdict(isNull(v))
                [] cond.rel = "IS NOT NULL" -> Verdict(~isNull(v))
                [] isNull(v) -> Unknown
                [] cond.rel \in {"IN", "IN UNNEST"} ->
                       IF v \in list THEN True ELSE IF Null \in list THEN Unknown ELSE False
                [] Null \in args -> Unknown
                [] OTHER -> Verdict(\E w \in args : SqlCompared(cond.rel, v, w))

-----------------------------------------------------------------------------
(* A statement: where and having are sequences of at most one condition;   *)
(* groups are columns and functions are [fn, column, alias] of the select  *)
(* list; order is a sequence of [on, desc]; offset and limit are sequences *)
(* of at most one placeholder; aliases tells whether HAVING may name them. *)

Select(where, order, offset, limit, params) ==
    [where |-> where, groups |-> <<>>, functions |-> <<>>, having |-> <<>>,
     order |-> order, offset |-> offset, limit |-> limit, params |-> params,
     aliases |-> FALSE]

SelectGroups(where, groups, functions, having, order, offset, limit, params, aliases) ==
    [where |-> where, groups |-> groups, functions |-> functions, having |-> having,
     order |-> order, offset |-> offset, limit |-> limit, params |-> params,
     aliases |-> aliases]

Conditions(statement) == ToSet(statement.where) \cup ToSet(statement.having)

Thrown(statement) ==
    \E c \in Conditions(statement) : \E n \in Nodes(c) : n.node = "throws"

AllRefs(statement) ==
    FoldLeft(LAMBDA s, c : s \o Refs(c), <<>>, statement.where \o statement.having)
    \o statement.offset \o statement.limit

(* The statement of a dialect with positional placeholders, numbered.      *)
Positional(statement) ==
    LET w == Len(FoldLeft(LAMBDA s, c : s \o Refs(c), <<>>, statement.where))
        h == Len(FoldLeft(LAMBDA s, c : s \o Refs(c), <<>>, statement.having))
        o == Len(statement.offset)
    IN [statement EXCEPT
           !.where  = [i \in DOMAIN @ |-> Numbered(@[i], 1)],
           !.having = [i \in DOMAIN @ |-> Numbered(@[i], w + 1)],
           !.offset = [i \in DOMAIN @ |-> w + h + 1],
           !.limit  = [i \in DOMAIN @ |-> w + h + o + 1]]

(* A condition no database parses: an empty pair of parentheses, or a      *)
(* comparison whose operator is missing.                                   *)
Malformed(cond) ==
    \E n \in Nodes(cond) : \/ "of" \in DOMAIN n /\ n.of = <<>>
                           \/ n.node = "cmp" /\ n.rel = ""

Apply(fn, column, rows) ==
    LET values == SelectSeq(rows, LAMBDA r : fn = "COUNT" \/ ~isNull(r[column]))
        total  == FoldLeft(LAMBDA s, r : s + Head(r[column]), 0, values)
        all    == {r[column] : r \in ToSet(values)}
    IN CASE fn = "COUNT"  -> <<Len(values)>>
         [] values = <<>> -> Null
         [] fn = "SUM" -> <<total>>
         [] fn = "AVG" -> <<total \div Len(values)>>
         [] fn = "MAX" -> CHOOSE v \in all : \A w \in all : ~Before(v, w)
         [] fn = "MIN" -> CHOOSE v \in all : \A w \in all : ~Before(w, v)

GroupsOf(rows, columns) ==
    LET key(r) == [i \in DOMAIN columns |-> r[columns[i]]]
    IN {SelectSeq(rows, LAMBDA r : key(r) = k) : k \in {key(r) : r \in ToSet(rows)}}

(* What the row of a group shows, and what HAVING may name besides.        *)
Shown(statement, group) ==
    [c \in ToSet(statement.groups) |-> group[1][c]]
    @@ [a \in {<<f.alias>> : f \in ToSet(statement.functions)} |->
           LET f == CHOOSE f \in ToSet(statement.functions) : <<f.alias>> = a
           IN Apply(f.fn, f.column, group)]

Named(statement, group) ==
    [c \in ToSet(statement.groups) |-> group[1][c]]
    @@ [c \in {<<f.fn>> \o f.column : f \in ToSet(statement.functions)} |->
           Apply(c[1], Tail(c), group)]
    @@ (IF statement.aliases THEN Shown(statement, group) ELSE <<>>)

Refused(statement) ==
    \/ \E c \in Conditions(statement) : Malformed(c)
    \/ ~(ToSet(AllRefs(statement)) \subseteq DOMAIN statement.params)
    \/ \E c \in ToSet(statement.where) : \E n \in Nodes(c) :
           n.node = "cmp" /\ n.on \notin DOMAIN Rows[1]
    \/ \E c \in ToSet(statement.having) : \E n \in Nodes(c) :
           n.node = "cmp" /\ n.on \notin DOMAIN Named(statement, Rows)

Matching(statement) ==
    SelectSeq(Rows, LAMBDA r : \A c \in ToSet(statement.where) :
                                   Holds(c, r, statement.params) = True)

(* By the first key in which they differ; without an order, in that of the *)
(* table.                                                                  *)
Precedes(order, r, s) ==
    \E k \in DOMAIN order :
        /\ \A j \in 1 .. k - 1 : r[order[j].on] = s[order[j].on]
        /\ IF order[k].desc THEN Before(s[order[k].on], r[order[k].on])
           ELSE Before(r[order[k].on], s[order[k].on])

Ordered(rows, order) ==
    IF order = <<>> THEN rows ELSE SortSeq(rows, LAMBDA r, s : Precedes(order, r, s))

Bound(statement, refs, default) ==
    IF refs = <<>> THEN default ELSE Head(statement.params[refs[1]])

Answered(statement) ==
    LET rows == Ordered(Matching(statement), statement.order)
        skip == Bound(statement, statement.offset, 0)
    IN SubSeq(rows, skip + 1,
              Min({Len(rows), skip + Bound(statement, statement.limit, Len(rows))}))

AnsweredGroups(statement) ==
    {Shown(statement, g) : g \in
        {g \in GroupsOf(Matching(statement), statement.groups) :
            \A c \in ToSet(statement.having) :
                Holds(c, Named(statement, g), statement.params) = True}}

==============================================================================
