-------------------------- MODULE DataServiceProofs --------------------------
(***************************************************************************)
(* Insertions answered ok keep their rows, and the results of a bulk tell  *)
(* what became of its items, for any number of requests, whatever the bulks*)
(* and the failures.                                                       *)
(*                                                                         *)
(* InsertedKept compares the insertions answered ok since an id was removed*)
(* with its rows.  It rests on what each operation makes of the rows of one*)
(* id: an insertion adds one, an update keeps their number, an upsert never*)
(* lessens it, and where rows go, the count starts anew.                   *)
(*                                                                         *)
(* ResultsTell speaks of requests that have been answered.  While a bulk is*)
(* being written, what it says already holds of the positions that have    *)
(* settled, and the others have had no effect.                             *)
(*                                                                         *)
(* DeleteReturnsItems speaks of a bulk delete that had the table to itself.*)
(* While it reads, nobody else is active and the table is as it was; that  *)
(* nobody else is, outlives its answer.  TypeOK bounds the counts that no  *)
(* find waits for by the requests: each of them had its own.               *)
(***************************************************************************)
EXTENDS DataService, FiniteSetTheorems, TLAPS

Items == [id : Ids, value : Values]

ItemsOK   == \A t \in Tasks : req[t].items \in Seq(Items)
WinnersOK == winners \in [Ids -> Nat] /\ \A id \in Ids : winners[id] <= Len(rows[id])
KeyOK     == store = "keyed" => \A id \in Ids : Len(rows[id]) <= 1

IInv ==
    /\ store \in Stores
    /\ rows \in [Ids -> Seq(Values)]
    /\ DOMAIN req = Tasks
    /\ ItemsOK
    /\ WinnersOK
    /\ KeyOK

LEMMA NoItems == <<>> \in Seq(Items)
OBVIOUS

LEMMA InitIInv == Init => IInv
<1> SUFFICES ASSUME Init PROVE IInv
  OBVIOUS
<1>1. ItemsOK
  BY NoItems DEF Init, ItemsOK
<1>2. rows \in [Ids -> Seq(Values)] /\ \A id \in Ids : Len(rows[id]) = 0
  BY DEF Init
<1>3. WinnersOK /\ KeyOK
  BY <1>2 DEF Init, WinnersOK, KeyOK
<1> QED BY <1>1, <1>2, <1>3 DEF Init, IInv

(* The item at a position of a request. *)
LEMMA ItemOK ==
    ASSUME ItemsOK, NEW t \in Tasks, NEW i \in Positions(t)
    PROVE  Item(t, i).id \in Ids /\ Item(t, i).value \in Values
<1>1. Item(t, i) \in Items
  BY DEF ItemsOK, Positions, Item
<1> QED BY <1>1 DEF Items

-----------------------------------------------------------------------------
(* What the operations make of the rows of one identifier *)

LEMMA AddedOK ==
    ASSUME rows \in [Ids -> Seq(Values)], NEW item \in Items
    PROVE  /\ Added(item) \in [Ids -> Seq(Values)]
           /\ Len(Added(item)[item.id]) = Len(rows[item.id]) + 1
           /\ \A id \in Ids \ {item.id} : Added(item)[id] = rows[id]
<1>1. item.id \in Ids /\ item.value \in Values
  BY DEF Items
<1>2. /\ rows[item.id] \in Seq(Values)
      /\ Append(rows[item.id], item.value) \in Seq(Values)
      /\ Len(Append(rows[item.id], item.value)) = Len(rows[item.id]) + 1
  BY <1>1
<1> QED BY <1>1, <1>2 DEF Added

LEMMA SetOK ==
    ASSUME rows \in [Ids -> Seq(Values)], NEW item \in Items
    PROVE  /\ Set(item) \in [Ids -> Seq(Values)]
           /\ \A id \in Ids : Len(Set(item)[id]) = Len(rows[id])
<1> DEFINE new == [n \in DOMAIN rows[item.id] |-> item.value]
<1>1. item.id \in Ids /\ item.value \in Values /\ rows[item.id] \in Seq(Values)
  BY DEF Items
<1>2. new \in Seq(Values) /\ Len(new) = Len(rows[item.id])
  BY <1>1
<1> HIDE DEF new
<1>3. Set(item) = [rows EXCEPT ![item.id] = new]
  BY DEF Set, new
<1> QED BY <1>1, <1>2, <1>3

LEMMA WithoutOK ==
    ASSUME rows \in [Ids -> Seq(Values)], NEW t
    PROVE  /\ Without(t) \in [Ids -> Seq(Values)]
           /\ \A id \in Ids : Len(Without(t)[id]) <= Len(rows[id])
<1>1. <<>> \in Seq(Values) /\ Len(<<>>) = 0
  OBVIOUS
<1>2. \A id \in Ids : rows[id] \in Seq(Values) /\ Len(rows[id]) \in Nat
  OBVIOUS
<1> QED BY <1>1, <1>2 DEF Without

(* Numbers below a bound have a greatest.                                  *)
LEMMA Greatest ==
    ASSUME NEW n \in Nat, NEW I, I \subseteq 1 .. n, I # {}
    PROVE  \E x \in I : \A y \in I : x >= y
<1> DEFINE T == {n - i : i \in I}
<1>0. \A i \in I : n - i \in Nat /\ i \in Int
  OBVIOUS
<1>1. T \subseteq Nat /\ T # {}
  BY <1>0, Zenon
<1>2. PICK x \in T : \A y \in T : ~ (<<y, x>> \in OpToRel(<, Nat))
  BY <1>1, NatLessThanWellFounded, WFMin
<1>3. \A y \in T : ~ (y < x)
  BY <1>1, <1>2 DEF OpToRel
<1>4. PICK i \in I : x = n - i
  BY <1>2
<1>5. ASSUME NEW j \in I PROVE i >= j
  <2>1. ~ (n - j < x)
    BY <1>3
  <2> QED BY <1>0, <1>4, <2>1
<1> QED BY <1>5

(* The last item that has an identifier, as SelectLastInSeq finds it.      *)
LastOf(s, id) ==
    LET I == {i \in 1 .. Len(s) : s[i].id = id} IN IF I # {} THEN Max(I) ELSE 0

LEMMA LastFound ==
    ASSUME NEW s \in Seq(Items), NEW id, {i \in DOMAIN s : s[i].id = id} # {}
    PROVE  LastOf(s, id) \in DOMAIN s
<1> DEFINE I == {i \in 1 .. Len(s) : s[i].id = id}
<1>1. LastOf(s, id) = IF I # {} THEN Max(I) ELSE 0
  BY DEF LastOf
<1>2. Len(s) \in Nat /\ I \subseteq 1 .. Len(s) /\ I # {} /\ DOMAIN s = 1 .. Len(s)
  OBVIOUS
<1> HIDE DEF I
<1>3. Max(I) \in I
  BY <1>2, Greatest DEF Max
<1>4. LastOf(s, id) = Max(I)
  BY <1>1, <1>2 DEF I
<1> QED BY <1>2, <1>3, <1>4

(* A finite set as a sequence. *)
LEMMA Listed ==
    ASSUME NEW S, IsFiniteSet(S)
    PROVE  SetToSeq(S) \in Seq(S)
<1>1. Cardinality(S) \in Nat /\ ExistsBijection(1 .. Cardinality(S), S)
  BY FS_CardinalityType
<1>2. PICK f : f \in Bijection(1 .. Cardinality(S), S)
  BY <1>1 DEF ExistsBijection
<1>3. f \in [1 .. Cardinality(S) -> S] /\ IsInjective(f)
  BY <1>2 DEF Bijection, Injection, IsInjective
<1>4. SetToSeq(S) \in [1 .. Cardinality(S) -> S]
  BY <1>3 DEF SetToSeq
<1> QED BY <1>1, <1>4

LEMMA UpsertedOK ==
    ASSUME IInv, NEW items \in Seq(Items), NEW id \in Ids
    PROVE  /\ Upserted(items, id) \in Seq(Values)
           /\ Len(rows[id]) <= Len(Upserted(items, id))
           /\ store = "keyed" => Len(Upserted(items, id)) <= 1
<1> DEFINE named == {i \in DOMAIN items : items[i].id = id}
           new   == SetToSeq(named)
           more  == [n \in DOMAIN new |-> items[new[n]].value]
<1>0. rows[id] \in Seq(Values) /\ Len(rows[id]) \in Nat
  BY DEF IInv
<1>1. \A i \in DOMAIN items : items[i].value \in Values
  <2>1. \A i \in DOMAIN items : items[i] \in Items
    OBVIOUS
  <2> QED BY <2>1 DEF Items
<1>2. Upserted(items, id) = IF named = {} THEN rows[id]
                            ELSE IF store = "keyed" THEN <<items[LastOf(items, id)].value>>
                            ELSE rows[id] \o more
  BY DEF Upserted, LastOf, SelectLastInSeq
<1>3. CASE named = {}
  BY <1>0, <1>2, <1>3 DEF IInv, KeyOK
<1>4. CASE named # {} /\ store = "keyed"
  <2>1. LastOf(items, id) \in DOMAIN items
    BY <1>4, LastFound
  <2>2. <<items[LastOf(items, id)].value>> \in Seq(Values)
    BY <1>1, <2>1
  <2>3. Len(<<items[LastOf(items, id)].value>>) = 1
    OBVIOUS
  <2>4. Len(rows[id]) <= 1
    BY <1>4 DEF IInv, KeyOK
  <2> HIDE DEF named, more
  <2> QED BY <1>2, <1>4, <2>2, <2>3, <2>4
<1>5. CASE named # {} /\ store # "keyed"
  <2>1. IsFiniteSet(named)
    <3>1. IsFiniteSet(1 .. Len(items)) /\ named \subseteq 1 .. Len(items)
      BY FS_Interval
    <3> HIDE DEF named
    <3> QED BY <3>1, FS_Subset
  <2>2. new \in Seq(named) /\ named \subseteq DOMAIN items
    BY <2>1, Listed
  <2> HIDE DEF named, new
  <2>3. \A n \in DOMAIN new : items[new[n]].value \in Values
    BY <1>1, <2>2
  <2>4. more \in Seq(Values) /\ Len(more) \in Nat
    BY <2>2, <2>3
  <2> HIDE DEF more
  <2>5. rows[id] \o more \in Seq(Values) /\ Len(rows[id] \o more) = Len(rows[id]) + Len(more)
    BY <1>0, <2>4
  <2> QED BY <1>0, <1>2, <1>5, <2>4, <2>5
<1> QED BY <1>3, <1>4, <1>5

-----------------------------------------------------------------------------
(* InsertedKept *)

LEMMA BeginKeeps ==
    ASSUME IInv, NEW t \in Tasks, Arrive(t), store' = store
    PROVE  IInv'
<1>1. PICK items \in Bulks \cup {<<>>} : \E kind : Begin(t, kind, items)
  BY DEF Arrive
<1>2. items \in Seq(Items)
  BY NoItems, DataServiceAssumption DEF Items
<1>3. ItemsOK'
  BY <1>1, <1>2 DEF Begin, IInv, ItemsOK
<1> QED BY <1>1, <1>3 DEF Begin, IInv, WinnersOK, KeyOK

(* A row added where no key forbids it, that counts as a winner or not.    *)
LEMMA AddKeeps ==
    ASSUME IInv, UNCHANGED <<store, req>>, NEW item \in Items, ~ Refused(item.id),
           rows' = Added(item),
           winners' \in {winners, [winners EXCEPT ![item.id] = @ + 1]}
    PROVE  IInv'
<1>1. item.id \in Ids
  BY DEF Items
<1>2. /\ rows' \in [Ids -> Seq(Values)]
      /\ Len(rows'[item.id]) = Len(rows[item.id]) + 1
      /\ \A id \in Ids \ {item.id} : rows'[id] = rows[id]
  BY AddedOK DEF IInv
<1>3. \A id \in Ids : Len(rows[id]) \in Nat /\ winners[id] \in Nat /\ winners[id] <= Len(rows[id])
  BY DEF IInv, WinnersOK
<1>4. WinnersOK'
  <2>1. winners' \in [Ids -> Nat]
    <3>1. winners \in [Ids -> Nat] /\ winners[item.id] + 1 \in Nat
      BY <1>1, <1>3 DEF IInv, WinnersOK
    <3> QED BY <3>1
  <2>2. winners'[item.id] <= Len(rows'[item.id])
    BY <1>1, <1>2, <1>3 DEF IInv, WinnersOK
  <2>3. \A id \in Ids \ {item.id} : winners'[id] <= Len(rows'[id])
    BY <1>2, <1>3 DEF IInv, WinnersOK
  <2> QED BY <2>1, <2>2, <2>3 DEF WinnersOK
<1>5. store = "keyed" => Len(rows[item.id]) = 0
  BY DEF Refused, Missing
<1>6. KeyOK'
  <2>1. store = "keyed" => Len(rows'[item.id]) <= 1
    BY <1>2, <1>5
  <2>2. store = "keyed" => \A id \in Ids \ {item.id} : Len(rows'[id]) <= 1
    BY <1>2 DEF IInv, KeyOK
  <2> QED BY <2>1, <2>2 DEF KeyOK
<1> QED BY <1>2, <1>4, <1>6 DEF IInv, ItemsOK

LEMMA WriteKeeps ==
    ASSUME IInv, NEW t \in Tasks, NEW i \in Positions(t), store' = store,
           Insert(t, i) \/ Update(t, i) \/ WriteFails(t, i)
    PROVE  IInv'
<1> DEFINE item == Item(t, i)
<1>1. item \in Items
  BY DEF IInv, ItemsOK, Positions, Item
<1>2. req' = req
  BY DEF Insert, Update, WriteFails
<1>3. \/ rows' = rows /\ winners' = winners
      \/ rows' = Set(item) /\ winners' = winners
      \/ /\ rows' = Added(item) /\ ~ Refused(item.id)
         /\ winners' \in {winners, [winners EXCEPT ![item.id] = @ + 1]}
  BY DEF Insert, Update, WriteFails
<1> HIDE DEF item
<1>4. CASE rows' = rows /\ winners' = winners
  BY <1>2, <1>4 DEF IInv, ItemsOK, WinnersOK, KeyOK
<1>5. CASE rows' = Set(item) /\ winners' = winners
  <2>1. rows' \in [Ids -> Seq(Values)] /\ \A id \in Ids : Len(rows'[id]) = Len(rows[id])
    BY <1>1, <1>5, SetOK DEF IInv
  <2> QED BY <1>2, <1>5, <2>1 DEF IInv, ItemsOK, WinnersOK, KeyOK
<1> QED BY <1>1, <1>2, <1>3, <1>4, <1>5, AddKeeps

(* Rows are taken away, and insertions counted from none where they were.  *)
LEMMA RemovalKeeps ==
    ASSUME IInv, UNCHANGED <<store, req>>, rows' \in [Ids -> Seq(Values)],
           \A id \in Ids : Len(rows'[id]) <= Len(rows[id]),
           winners' = Recounted
    PROVE  IInv'
<1>1. \A id \in Ids : /\ Len(rows[id]) \in Nat /\ Len(rows'[id]) \in Nat
                      /\ winners[id] \in Nat /\ winners[id] <= Len(rows[id])
  BY DEF IInv, WinnersOK
<1>2. \A id \in Ids : Len(rows'[id]) < Len(rows[id]) \/ Len(rows'[id]) = Len(rows[id])
  BY <1>1
<1>3. winners' = [id \in Ids |-> IF Len(rows'[id]) < Len(rows[id]) THEN 0 ELSE winners[id]]
  BY DEF Recounted
<1>4. WinnersOK'
  BY <1>1, <1>2, <1>3 DEF WinnersOK
<1>5. KeyOK'
  BY <1>1 DEF IInv, KeyOK
<1> QED BY <1>4, <1>5 DEF IInv, ItemsOK

LEMMA OneCallKeeps ==
    ASSUME IInv, NEW t \in Tasks, OneCall(t), store' = store
    PROVE  IInv'
<1> DEFINE after == [id \in Ids |->
                       IF req[t].kind = "truncate" THEN <<>> ELSE Upserted(req[t].items, id)]
<1>1. rows' \in {rows, after} /\ req' = req
      /\ winners' = IF req[t].kind = "truncate" THEN Recounted ELSE winners
  BY DEF OneCall
<1>2. req[t].items \in Seq(Items) /\ \A id \in Ids : rows[id] \in Seq(Values) /\ Len(rows[id]) \in Nat
  BY DEF IInv, ItemsOK
<1>3. CASE req[t].kind = "truncate"
  <2>1. <<>> \in Seq(Values) /\ Len(<<>>) = 0
    OBVIOUS
  <2>2. after \in [Ids -> Seq(Values)] /\ \A id \in Ids : Len(after[id]) <= Len(rows[id])
    BY <1>2, <1>3, <2>1
  <2>3. rows' \in [Ids -> Seq(Values)] /\ \A id \in Ids : Len(rows'[id]) <= Len(rows[id])
    <3> HIDE DEF after
    <3> QED BY <1>1, <1>2, <2>2 DEF IInv
  <2> QED BY <1>1, <1>3, <2>3, RemovalKeeps
<1>4. CASE req[t].kind # "truncate"
  <2>1. \A id \in Ids : /\ after[id] \in Seq(Values)
                        /\ Len(rows[id]) <= Len(after[id])
                        /\ store = "keyed" => Len(after[id]) <= 1
    BY <1>2, <1>4, UpsertedOK
  <2>2. after \in [Ids -> Seq(Values)]
    BY <1>4, <2>1
  <2> HIDE DEF after
  <2>3. /\ rows' \in [Ids -> Seq(Values)]
        /\ \A id \in Ids : /\ Len(rows[id]) <= Len(rows'[id])
                           /\ store = "keyed" => Len(rows'[id]) <= 1
                           /\ Len(rows[id]) \in Nat /\ Len(rows'[id]) \in Nat
    BY <1>1, <1>2, <2>1, <2>2 DEF IInv, KeyOK
  <2>4. WinnersOK'
    BY <1>1, <1>4, <2>3 DEF IInv, WinnersOK
  <2> QED BY <1>1, <2>3, <2>4 DEF IInv, ItemsOK, KeyOK
<1> QED BY <1>3, <1>4

LEMMA StepKeeps == IInv /\ [Next]_vars => IInv'
<1> SUFFICES ASSUME IInv, [Next]_vars PROVE IInv'
  OBVIOUS
<1> DEFINE Same == UNCHANGED <<store, rows, req, winners>>
<1>0. store' = store
  BY DEF Next, vars
<1>1. ASSUME Same PROVE IInv'
  BY <1>1 DEF IInv, ItemsOK, WinnersOK, KeyOK
<1>2. ASSUME NEW t \in Tasks, Arrive(t) PROVE IInv'
  BY <1>0, <1>2, BeginKeeps
<1>3. ASSUME NEW t \in Tasks, Proceed(t) PROVE IInv'
  <2>1. ASSUME NEW i \in Positions(t), Insert(t, i) \/ Update(t, i) \/ WriteFails(t, i)
        PROVE  IInv'
    BY <1>0, <2>1, WriteKeeps
  <2>3. CASE Delete(t)
    <3>1. /\ rows' \in {rows, Without(t)} /\ req' = req /\ winners' = Recounted
          /\ \A id \in Ids : Len(rows[id]) \in Nat
      BY <2>3 DEF Delete, IInv
    <3>2. rows' \in [Ids -> Seq(Values)] /\ \A id \in Ids : Len(rows'[id]) <= Len(rows[id])
      BY <3>1, WithoutOK DEF IInv
    <3> QED BY <1>0, <3>1, <3>2, RemovalKeeps
  <2>4. CASE OneCall(t)
    BY <1>0, <2>4, OneCallKeeps
  <2>5. CASE WritesSettled(t)
    BY <1>0, <1>1, <2>5 DEF WritesSettled, history
  <2>6. ASSUME NEW i \in Positions(t), ReadForDelete(t, i) PROVE IInv'
    BY <1>0, <1>1, <2>6 DEF ReadForDelete, history
  <2>7. CASE ItemsFound(t) \/ ItemsFail(t) \/ CountSettles(t)
    BY <1>0, <1>1, <2>7 DEF ItemsFound, ItemsFail, CountSettles, history
  <2> QED BY <1>3, <2>1, <2>3, <2>4, <2>5, <2>6, <2>7 DEF Proceed
<1>4. CASE OrphanSettles \/ UnhandledRejection
  BY <1>0, <1>1, <1>4 DEF OrphanSettles, UnhandledRejection, history
<1>5. CASE UNCHANGED vars
  BY <1>1, <1>5 DEF vars, history
<1> QED BY <1>2, <1>3, <1>4, <1>5 DEF Next

(* Every insertion that was answered ok keeps a row of its own until its id*)
(* is deleted, however requests race and fail, and where there is a key no *)
(* second one is answered so.                                              *)
THEOREM InsertionsKept == Spec => []InsertedKept
<1>1. IInv => InsertedKept
  BY DEF IInv, WinnersOK, KeyOK, InsertedKept
<1> QED BY <1>1, InitIInv, StepKeeps, PTL DEF Spec

-----------------------------------------------------------------------------
(* ResultsTell *)

Bulk(t) == req[t].kind \in {"insert", "update"}

Told(t, i) ==
    /\ result[t][i] \in {"ok", "ItemAlreadyExists", "ItemDoesNotExists", "UnknownError"}
    /\ result[t][i] = "ok" => <<t, i>> \in effects
    /\ <<t, i>> \in effects => result[t][i] \in {"ok", "UnknownError"}

(* A request that is under way has not been answered, and it is writing    *)
(* just if it is a bulk.                                                   *)
UnderWay(t) ==
    pc[t] # "idle" => answer[t] = "none" /\ (pc[t] = "writing" <=> Bulk(t))

Writing(t) ==
    pc[t] = "writing" =>
        \A i \in Positions(t) : IF i \in todo[t] THEN <<t, i>> \notin effects
                              ELSE req[t].kind \in Telling => Told(t, i)

Answered(t) == answer[t] = "sent" /\ req[t].kind \in Telling => \A i \in Positions(t) : Told(t, i)

TaskOK(t) ==
    /\ DOMAIN result[t] = Positions(t)
    /\ UnderWay(t)
    /\ Writing(t)
    /\ Answered(t)

RInv ==
    /\ DOMAIN pc = Tasks /\ DOMAIN req = Tasks /\ DOMAIN todo = Tasks
    /\ DOMAIN result = Tasks /\ DOMAIN answer = Tasks
    /\ \A t \in Tasks : TaskOK(t)

LEMMA InitRInv == Init => RInv
BY DEF Init, RInv, TaskOK, UnderWay, Writing, Answered, Bulk, Positions

(* A step of another request changes nothing that TaskOK(u) speaks of. *)
LEMMA OtherKeeps ==
    ASSUME NEW u \in Tasks, TaskOK(u),
           pc'[u] = pc[u], req'[u] = req[u], todo'[u] = todo[u],
           result'[u] = result[u], answer'[u] = answer[u], store' = store,
           \A i : <<u, i>> \in effects' <=> <<u, i>> \in effects
    PROVE  TaskOK(u)'
BY DEF TaskOK, UnderWay, Writing, Answered, Told, Telling, Bulk, Positions

LEMMA BeginTells ==
    ASSUME RInv, NEW t \in Tasks, Arrive(t), store' = store
    PROVE  RInv'
<1>1. PICK kind \in {"insert", "update", "delete", "upsert", "truncate", "find",
                     "findCounted"} : \E items : Begin(t, kind, items)
  BY DEF Arrive
<1>2. PICK items : Begin(t, kind, items)
  BY <1>1
<1>3. ASSUME NEW u \in Tasks PROVE TaskOK(u)'
  <2>1. CASE u # t
    BY <1>2, <2>1, OtherKeeps DEF Begin, RInv
  <2>2. CASE u = t
    <3>1. /\ req'[t] = [kind |-> kind, items |-> items]
          /\ result'[t] = [i \in DOMAIN items |-> "pending"]
          /\ answer'[t] = "none"
          /\ pc'[t] = FirstStep(kind)
          /\ todo'[t] = IF kind = "upsert" THEN {} ELSE DOMAIN items
          /\ \A i : <<t, i>> \notin effects'
      BY <1>2 DEF Begin, RInv
    <3>2. pc'[t] = "writing" <=> kind \in {"insert", "update"}
      BY <3>1 DEF FirstStep
    <3> QED BY <2>2, <3>1, <3>2 DEF TaskOK, UnderWay, Writing, Answered, Telling, Bulk, Positions
  <2> QED BY <2>1, <2>2
<1> QED BY <1>2, <1>3 DEF Begin, RInv

(* The call of one position of a bulk settles. *)
LEMMA SettleTells ==
    ASSUME RInv, NEW t \in Tasks, NEW i \in Positions(t), pc[t] = "writing",
           NEW r \in {"ok", "ItemAlreadyExists", "ItemDoesNotExists", "UnknownError"},
           i \in todo[t], Settle(t, i, r), UNCHANGED <<store, pc, req, answer>>,
           effects' \in {effects, effects \cup {<<t, i>>}},
           req[t].kind \in Telling =>
               \/ effects' = effects /\ r # "ok"
               \/ effects' = effects \cup {<<t, i>>} /\ r \in {"ok", "UnknownError"}
    PROVE  RInv'
<1>1. ASSUME NEW u \in Tasks PROVE TaskOK(u)'
  <2>1. CASE u # t
    BY <2>1, OtherKeeps DEF Settle, RInv
  <2>2. CASE u = t
    <3>1. todo'[t] = todo[t] \ {i} /\ result'[t] = [result[t] EXCEPT ![i] = r]
      BY DEF Settle, RInv
    <3>2. TaskOK(t)
      BY DEF RInv
    <3>3. <<t, i>> \notin effects
      BY <3>2 DEF TaskOK, Writing
    <3>4. ASSUME req[t].kind \in Telling PROVE Told(t, i)'
      BY <3>4, <3>1, <3>2, <3>3 DEF Told, TaskOK
    <3>5. ASSUME NEW j \in Positions(t), j # i
          PROVE  IF j \in todo'[t] THEN <<t, j>> \notin effects'
                 ELSE req[t].kind \in Telling => Told(t, j)'
      <4>1. <<t, j>> \in effects' <=> <<t, j>> \in effects
        BY <3>5
      <4>2. result'[t][j] = result[t][j] /\ (j \in todo'[t] <=> j \in todo[t])
        BY <3>1, <3>2, <3>5 DEF TaskOK
      <4> QED BY <3>2, <4>1, <4>2 DEF TaskOK, Writing, Told
    <3>6. Writing(t)'
      BY <3>1, <3>4, <3>5 DEF Writing, Positions, Telling
    <3>7. UnderWay(t)' /\ Answered(t)' /\ DOMAIN result'[t] = Positions(t)'
      BY <3>1, <3>2 DEF TaskOK, UnderWay, Answered, Telling, Bulk, Positions
    <3> QED BY <2>2, <3>6, <3>7 DEF TaskOK
  <2> QED BY <2>1, <2>2
<1> QED BY <1>1 DEF Settle, RInv

LEMMA WriteTells ==
    ASSUME RInv, NEW t \in Tasks, NEW i \in Positions(t),
           Insert(t, i) \/ Update(t, i) \/ WriteFails(t, i), store' = store
    PROVE  RInv'
<1>1. CASE Insert(t, i)
  BY <1>1, SettleTells DEF Insert
<1>2. CASE Update(t, i)
  <2>1. PICK r \in UpdateResults(Item(t, i).id) : Settle(t, i, r)
    BY <1>2 DEF Update
  <2>2. req[t].kind \in Telling => store = "keyed"
    BY <1>2 DEF Update, Telling
  <2>3. r \in {"ok", "ItemDoesNotExists"}
    BY DEF UpdateResults
  <2>4. effects' \in {effects, effects \cup {<<t, i>>}}
    BY <1>2 DEF Update
  <2>5. store = "keyed" => \/ effects' = effects /\ r # "ok"
                           \/ effects' = effects \cup {<<t, i>>} /\ r \in {"ok", "UnknownError"}
    BY <1>2, <2>1 DEF Update, UpdateResults
  <2> QED BY <1>2, <2>1, <2>2, <2>3, <2>4, <2>5, SettleTells DEF Update
<1>3. CASE WriteFails(t, i)
  BY <1>3, SettleTells DEF WriteFails
<1> QED BY <1>1, <1>2, <1>3

(* A request other than a bulk goes on, or is answered. *)
LEMMA OthersTell ==
    ASSUME RInv, NEW t \in Tasks,
           pc[t] \in {"reading", "calling", "finding", "counting"},
           NEW step \in {"idle", "reading", "counting"}, NEW how,
           DOMAIN pc' = Tasks, \A u \in Tasks : u # t => pc'[u] = pc[u],
           DOMAIN answer' = Tasks, \A u \in Tasks : u # t => answer'[u] = answer[u],
           pc'[t] = step, answer'[t] = how, step # "idle" => how = "none",
           DOMAIN todo' = Tasks, \A u \in Tasks : u # t => todo'[u] = todo[u],
           DOMAIN result' = Tasks, \A u \in Tasks : u # t => result'[u] = result[u],
           DOMAIN result'[t] = DOMAIN result[t],
           UNCHANGED <<store, req, effects>>
    PROVE  RInv'
<1>1. ASSUME NEW u \in Tasks PROVE TaskOK(u)'
  <2>1. CASE u # t
    BY <2>1, OtherKeeps DEF RInv
  <2>2. CASE u = t
    <3>1. TaskOK(t) /\ ~ Bulk(t)
      BY DEF RInv, TaskOK, UnderWay
    <3> QED BY <2>2, <3>1 DEF RInv, TaskOK, UnderWay, Writing, Answered, Telling, Bulk, Positions
  <2> QED BY <2>1, <2>2
<1> QED BY <1>1 DEF RInv

LEMMA StepTells == RInv /\ [Next]_vars => RInv'
<1> SUFFICES ASSUME RInv, [Next]_vars PROVE RInv'
  OBVIOUS
<1>0. store' = store
  BY DEF Next, vars
<1>1. ASSUME NEW t \in Tasks, Arrive(t) PROVE RInv'
  BY <1>0, <1>1, BeginTells
<1>2. ASSUME NEW t \in Tasks, Proceed(t) PROVE RInv'
  <2>0. TaskOK(t) /\ DOMAIN pc = Tasks /\ DOMAIN answer = Tasks
    BY DEF RInv
  <2>1. ASSUME NEW i \in Positions(t), Insert(t, i) \/ Update(t, i) \/ WriteFails(t, i)
        PROVE  RInv'
    BY <1>0, <2>1, WriteTells
  <2>2. CASE WritesSettled(t)
    <3>1. ASSUME NEW u \in Tasks PROVE TaskOK(u)'
      <4>1. CASE u # t
        BY <1>0, <2>2, <4>1, OtherKeeps DEF WritesSettled, End, RInv, history
      <4>2. CASE u = t
        BY <1>0, <2>0, <2>2, <4>2 DEF WritesSettled, End, history, TaskOK, UnderWay, Writing,
                             Answered, Told, Telling, Bulk, Positions
      <4> QED BY <4>1, <4>2
    <3> QED BY <2>2, <3>1 DEF WritesSettled, End, RInv, history
  <2>3. ASSUME NEW i \in Positions(t), ReadForDelete(t, i) PROVE RInv'
    <3>1. UNCHANGED <<pc, answer>> /\ pc[t] = "reading" /\ answer[t] = "none"
      BY <2>0, <2>3 DEF ReadForDelete, TaskOK, UnderWay
    <3>2. PICK r : Settle(t, i, r)
      BY <2>3 DEF ReadForDelete
    <3>3. /\ DOMAIN todo' = Tasks /\ \A u \in Tasks : u # t => todo'[u] = todo[u]
          /\ DOMAIN result' = Tasks /\ \A u \in Tasks : u # t => result'[u] = result[u]
          /\ DOMAIN result'[t] = DOMAIN result[t]
      BY <3>2 DEF Settle, RInv
    <3>4. UNCHANGED <<req, effects>>
      BY <2>3 DEF ReadForDelete, history
    <3> QED BY <1>0, <2>0, <3>1, <3>3, <3>4, OthersTell
  <2>4. CASE Delete(t)
    BY <1>0, <2>4, OthersTell DEF Delete, End, RInv
  <2>5. CASE OneCall(t)
    BY <1>0, <2>5, OthersTell DEF OneCall, End, RInv
  <2>6. CASE ItemsFound(t)
    <3>1. CASE Counted(t)
      <4>1. answer' = answer /\ answer[t] = "none"
        BY <2>0, <2>6, <3>1 DEF ItemsFound, TaskOK, UnderWay
      <4> QED BY <1>0, <2>6, <3>1, <4>1, OthersTell DEF ItemsFound, RInv, history
    <3>2. CASE ~ Counted(t)
      BY <1>0, <2>6, <3>2, OthersTell DEF ItemsFound, End, RInv, history
    <3> QED BY <3>1, <3>2
  <2>7. CASE ItemsFail(t) \/ CountSettles(t)
    BY <1>0, <2>7, OthersTell DEF ItemsFail, CountSettles, End, RInv, history
  <2> QED BY <1>2, <2>1, <2>2, <2>3, <2>4, <2>5, <2>6, <2>7 DEF Proceed
<1>3. CASE OrphanSettles \/ UNCHANGED vars
  <2>1. UNCHANGED <<pc, req, todo, result, answer, effects>>
    BY <1>3 DEF OrphanSettles, vars, history
  <2> QED BY <1>0, <2>1, OtherKeeps DEF RInv
<1>4. CASE UnhandledRejection
  <2>1. ASSUME NEW t \in Tasks PROVE TaskOK(t)'
    <3>1. /\ pc'[t] = "idle" /\ answer'[t] \in {answer[t], "lost"}
          /\ UNCHANGED <<req, result, effects>>
      BY <1>4 DEF UnhandledRejection, history
    <3> QED BY <1>0, <3>1 DEF RInv, TaskOK, UnderWay, Writing, Answered, Told, Telling, Bulk, Positions
  <2> QED BY <1>4, <2>1 DEF UnhandledRejection, RInv, history
<1> QED BY <1>1, <1>2, <1>3, <1>4 DEF Next

(* The results of a bulk tell of every position what became of its item,   *)
(* however many bulks run and whichever calls fail.                        *)
THEOREM ResultsAreTrue == Spec => []ResultsTell
<1>1. RInv => ResultsTell
  BY DEF RInv, TaskOK, Answered, Told, ResultsTell
<1> QED BY <1>1, InitRInv, StepTells, PTL DEF Spec

-----------------------------------------------------------------------------
(* TypeOK *)

(* A count outlives its find only if the find was begun: the finds that    *)
(* are reading and the counts without one are no more than the requests.   *)
Finding == {t \in Tasks : pc[t] = "finding"}

OrphansOK ==
    /\ IsFiniteSet(Finding)
    /\ requests \in Nat /\ orphans \in Nat
    /\ Cardinality(Finding) + orphans <= requests

BoundsOK == requests <= MaxRequests /\ failures \in 0 .. MaxFailures

Steps == {"idle", "writing", "reading", "calling", "finding", "counting"}

TodoOK(t) == todo[t] \subseteq Positions(t) /\ (todo[t] # {} => pc[t] \in {"writing", "reading"})

TInv ==
    /\ pc \in [Tasks -> Steps]
    /\ \A t \in Tasks : TodoOK(t)
    /\ OrphansOK
    /\ BoundsOK

LEMMA InitTInv == Init => TInv
<1> SUFFICES ASSUME Init PROVE TInv
  OBVIOUS
<1>1. Finding = {}
  BY DEF Init, Finding
<1>2. OrphansOK
  BY <1>1, FS_EmptySet DEF Init, OrphansOK
<1>3. BoundsOK
  BY DataServiceAssumption DEF Init, BoundsOK
<1> QED BY <1>2, <1>3 DEF Init, TInv, Steps, TodoOK

LEMMA FewerFind ==
    ASSUME OrphansOK, Finding' \subseteq Finding, orphans' \in 0 .. orphans, requests' = requests
    PROVE  OrphansOK'
<1>1. IsFiniteSet(Finding') /\ Cardinality(Finding') <= Cardinality(Finding)
  BY FS_Subset DEF OrphansOK
<1>2. Cardinality(Finding') \in Nat /\ Cardinality(Finding) \in Nat
  BY <1>1, FS_CardinalityType DEF OrphansOK
<1> QED BY <1>1, <1>2 DEF OrphansOK

LEMMA BeginTyped == ASSUME IInv, RInv, TInv, NEW t \in Tasks, Arrive(t) PROVE TInv'
<1>1. PICK kind \in {"insert", "update", "delete", "upsert", "truncate", "find", "findCounted"},
           items \in Bulks \cup {<<>>} : Begin(t, kind, items)
        /\ (kind \in {"truncate", "find", "findCounted"} => items = <<>>)
  BY DEF Arrive
<1>2. FirstStep(kind) \in Steps \ {"idle"}
  BY DEF FirstStep, Steps
<1>3. ASSUME NEW u \in Tasks PROVE TodoOK(u)'
  <2>1. CASE u # t
    BY <1>1, <2>1 DEF Begin, TInv, TodoOK, Positions, RInv
  <2>2. CASE u = t
    <3>1. /\ todo'[t] = (IF kind = "upsert" THEN {} ELSE DOMAIN items)
          /\ req'[t].items = items /\ pc'[t] = FirstStep(kind)
      BY <1>1 DEF Begin, RInv
    <3>2. kind \in {"insert", "update", "delete", "upsert"} \/ DOMAIN items = {}
      BY <1>1
    <3>3. kind \in {"insert", "update", "delete"} => FirstStep(kind) \in {"writing", "reading"}
      BY DEF FirstStep
    <3> QED BY <2>2, <3>1, <3>2, <3>3 DEF TodoOK, Positions
  <2> QED BY <2>1, <2>2
<1>4. OrphansOK'
  <2>1. Finding' \subseteq Finding \cup {t}
    BY <1>1 DEF Begin, Finding, TInv
  <2>2. /\ IsFiniteSet(Finding \cup {t}) /\ Cardinality(Finding \cup {t}) <= Cardinality(Finding) + 1
        /\ Cardinality(Finding) \in Nat
    <3>1. IsFiniteSet(Finding) /\ Cardinality(Finding) \in Nat
      BY FS_CardinalityType DEF TInv, OrphansOK
    <3>2. /\ IsFiniteSet(Finding \cup {t})
          /\ Cardinality(Finding \cup {t}) = IF t \in Finding THEN Cardinality(Finding) ELSE Cardinality(Finding) + 1
      BY <3>1, FS_AddElement
    <3> QED BY <3>1, <3>2
  <2>3. /\ IsFiniteSet(Finding') /\ Cardinality(Finding') <= Cardinality(Finding \cup {t})
        /\ Cardinality(Finding') \in Nat /\ Cardinality(Finding \cup {t}) \in Nat
    BY <2>1, <2>2, FS_Subset, FS_CardinalityType
  <2>4. requests' = requests + 1 /\ orphans' = orphans /\ requests \in Nat /\ orphans \in Nat
        /\ Cardinality(Finding) + orphans <= requests
    BY <1>1 DEF Begin, TInv, OrphansOK
  <2> QED BY <2>2, <2>3, <2>4 DEF OrphansOK
<1>5. BoundsOK'
  BY <1>1, DataServiceAssumption DEF Begin, TInv, BoundsOK, OrphansOK
<1> QED BY <1>1, <1>2, <1>3, <1>4, <1>5 DEF Begin, TInv

(* A storage call is answered or breaks, within the bound.                 *)
LEMMA CallTyped == ASSUME BoundsOK, requests' = requests, Works \/ Breaks PROVE BoundsOK'
BY DataServiceAssumption DEF BoundsOK, Works, Breaks

(* The call of one position settles.                                       *)
LEMMA SettleTyped ==
    ASSUME RInv, TInv, NEW t \in Tasks, NEW i \in Positions(t), NEW r, Settle(t, i, r),
           UNCHANGED <<pc, req, orphans, requests>>, Works \/ Breaks
    PROVE  TInv'
<1>1. ASSUME NEW u \in Tasks PROVE TodoOK(u)'
  BY DEF Settle, TInv, TodoOK, Positions, RInv
<1>2. OrphansOK' /\ BoundsOK'
  BY CallTyped DEF TInv, OrphansOK, Finding
<1> QED BY <1>1, <1>2 DEF TInv

(* A request goes on or ends, with nothing left to settle.                 *)
LEMMA OnwardTyped ==
    ASSUME TInv, NEW t \in Tasks, todo[t] = {}, NEW step \in Steps \ {"finding"},
           pc' = [pc EXCEPT ![t] = step], UNCHANGED <<req, todo, requests>>, Works \/ Breaks,
           \/ orphans' = orphans
           \/ orphans' = orphans + 1 /\ pc[t] = "finding"
    PROVE  TInv'
<1>1. ASSUME NEW u \in Tasks PROVE TodoOK(u)'
  BY DEF TInv, TodoOK, Positions
<1>2. BoundsOK'
  BY CallTyped DEF TInv
<1>3. Finding' = Finding \ {t}
  BY DEF Finding, TInv
<1>4. OrphansOK'
  <2>1. CASE orphans' = orphans
    BY <1>3, <2>1, FewerFind DEF TInv, OrphansOK
  <2>2. CASE orphans' = orphans + 1 /\ pc[t] = "finding"
    <3>1. t \in Finding /\ IsFiniteSet(Finding)
      BY <2>2 DEF Finding, TInv, OrphansOK
    <3>2. IsFiniteSet(Finding') /\ Cardinality(Finding') = Cardinality(Finding) - 1
          /\ Cardinality(Finding') \in Nat /\ Cardinality(Finding) \in Nat
      BY <1>3, <3>1, FS_RemoveElement, FS_CardinalityType
    <3> QED BY <2>2, <3>2 DEF TInv, OrphansOK
  <2> QED BY <2>1, <2>2
<1> QED BY <1>1, <1>2, <1>4 DEF TInv, Steps

LEMMA StepTyped == IInv /\ RInv /\ TInv /\ [Next]_vars => TInv'
<1> SUFFICES ASSUME IInv, RInv, TInv, [Next]_vars PROVE TInv'
  OBVIOUS
<1>1. ASSUME NEW t \in Tasks, Arrive(t) PROVE TInv'
  BY <1>1, BeginTyped
<1>2. ASSUME NEW t \in Tasks, Proceed(t) PROVE TInv'
  <2>0. TodoOK(t)
    BY DEF TInv
  <2>1. ASSUME NEW i \in Positions(t), Insert(t, i) \/ Update(t, i) \/ WriteFails(t, i)
        PROVE  TInv'
    <3>1. UNCHANGED <<pc, req, orphans, requests>> /\ (Works \/ Breaks) /\ \E r : Settle(t, i, r)
      BY <2>1 DEF Insert, Update, WriteFails
    <3> QED BY <3>1, SettleTyped
  <2>2. ASSUME NEW i \in Positions(t), ReadForDelete(t, i) PROVE TInv'
    <3>1. UNCHANGED <<pc, req, orphans, requests>> /\ (Works \/ Breaks) /\ \E r : Settle(t, i, r)
      BY <2>2 DEF ReadForDelete
    <3> QED BY <3>1, SettleTyped
  <2>3. CASE WritesSettled(t)
    BY <2>0, <2>3, OnwardTyped DEF WritesSettled, End, Works, Steps
  <2>4. CASE Delete(t)
    <3>1. todo[t] = {} /\ pc' = [pc EXCEPT ![t] = "idle"] /\ (Works \/ Breaks)
          /\ UNCHANGED <<req, todo, orphans, requests>>
      BY <2>4 DEF Delete, End
    <3> QED BY <3>1, OnwardTyped DEF Steps
  <2>5. CASE OneCall(t)
    <3>1. pc[t] = "calling" /\ pc' = [pc EXCEPT ![t] = "idle"] /\ (Works \/ Breaks)
          /\ UNCHANGED <<req, todo, orphans, requests>>
      BY <2>5 DEF OneCall, End
    <3>2. todo[t] = {}
      BY <2>0, <3>1 DEF TodoOK
    <3> QED BY <3>1, <3>2, OnwardTyped DEF Steps
  <2>6. CASE ItemsFound(t) \/ ItemsFail(t) \/ CountSettles(t)
    <3>1. todo[t] = {}
      BY <2>0, <2>6 DEF TodoOK, ItemsFound, ItemsFail, CountSettles
    <3>2. /\ UNCHANGED <<req, todo, requests>> /\ (Works \/ Breaks)
          /\ \E step \in {"idle", "counting"} : pc' = [pc EXCEPT ![t] = step]
          /\ orphans' = orphans \/ (orphans' = orphans + 1 /\ pc[t] = "finding")
      BY <2>6 DEF ItemsFound, ItemsFail, CountSettles, End, Works
    <3> QED BY <2>0, <3>1, <3>2, OnwardTyped DEF Steps
  <2> QED BY <1>2, <2>1, <2>2, <2>3, <2>4, <2>5, <2>6 DEF Proceed
<1>3. CASE OrphanSettles
  <2>1. Finding' \subseteq Finding /\ orphans' \in 0 .. orphans /\ requests' = requests
    BY <1>3 DEF OrphanSettles, Finding, TInv, OrphansOK
  <2>2. OrphansOK'
    BY <2>1, FewerFind DEF TInv
  <2> QED BY <1>3, <2>2 DEF OrphanSettles, TInv, BoundsOK, TodoOK, Positions
<1>4. CASE UnhandledRejection
  <2>1. Finding' \subseteq Finding /\ orphans' \in 0 .. orphans /\ requests' = requests
    BY <1>4 DEF UnhandledRejection, Finding, TInv, OrphansOK
  <2>2. OrphansOK'
    BY <2>1, FewerFind DEF TInv
  <2>3. BoundsOK'
    BY <1>4, CallTyped DEF UnhandledRejection, TInv
  <2>4. ASSUME NEW t \in Tasks PROVE TodoOK(t)'
    BY <1>4 DEF UnhandledRejection, TodoOK
  <2> QED BY <1>4, <2>2, <2>3, <2>4 DEF UnhandledRejection, TInv, Steps
<1>5. CASE UNCHANGED vars
  BY <1>5 DEF vars, TInv, OrphansOK, Finding, BoundsOK, TodoOK, Positions
<1> QED BY <1>1, <1>2, <1>3, <1>4, <1>5 DEF Next

(* The table holds values, only what is under way has something to settle, *)
(* and no more counts go on without a find than were asked for (TypeOK).   *)
THEOREM TypeCorrect == Spec => []TypeOK
<1>1. IInv /\ RInv /\ TInv => TypeOK
  <2> SUFFICES ASSUME IInv, RInv, TInv PROVE TypeOK
    OBVIOUS
  <2>1. orphans \in 0 .. requests
    <3>1. Cardinality(Finding) \in Nat
      BY FS_CardinalityType DEF TInv, OrphansOK
    <3> QED BY <3>1 DEF TInv, OrphansOK
  <2>2. requests \in 0 .. MaxRequests /\ failures \in 0 .. MaxFailures
    BY DataServiceAssumption DEF TInv, OrphansOK, BoundsOK
  <2> QED BY <2>1, <2>2 DEF TypeOK, IInv, TInv, Steps, TodoOK, RInv, TaskOK
<1> QED BY <1>1, InitIInv, StepKeeps, InitRInv, StepTells, InitTInv, StepTyped, PTL DEF Spec

-----------------------------------------------------------------------------
(* DeleteReturnsItems *)

(* What is answered of a position is what was there when the bulk began.   *)
Seen(found) == IF found = <<>> THEN {"ItemDoesNotExists"} ELSE ToSet(found)

Was(t, i) == result[t][i] \in {"UnknownError"} \cup Seen(before[t][Item(t, i).id])

(* While a bulk delete has the table to itself nobody else is active: the  *)
(* table is as it was until it deletes, and stays without those items.     *)
DeleteOK(t) ==
    /\ alone[t] => \A u \in Tasks : u # t => pc[u] = "idle"
    /\ pc[t] = "reading" => req[t].kind = "delete"
    /\ req[t].kind = "delete" => pc[t] \in {"idle", "reading"}
    /\ alone[t] /\ pc[t] = "reading" => rows = before[t] /\ \A i \in Positions(t) \ todo[t] : Was(t, i)
    /\ alone[t] /\ answer[t] = "sent" /\ req[t].kind = "delete" =>
          \A i \in Positions(t) : rows[Item(t, i).id] = <<>> /\ Was(t, i)

DInv ==
    /\ DOMAIN alone = Tasks /\ DOMAIN before = Tasks
    /\ \A t \in Tasks : DeleteOK(t)

LEMMA InitDInv == Init => DInv
BY DEF Init, DInv, DeleteOK, Positions

(* Who goes on is active, so that the others do not have the table alone.  *)
LEMMA ActiveAlone ==
    ASSUME DInv, NEW t \in Tasks, pc[t] # "idle", UNCHANGED <<req, alone>>,
           NEW u \in Tasks, u # t, pc'[u] = pc[u]
    PROVE  DeleteOK(u)'
<1>1. ~ alone[u]
  BY DEF DInv, DeleteOK
<1> QED BY <1>1 DEF DInv, DeleteOK

LEMMA BeginAlone == ASSUME RInv, DInv, NEW t \in Tasks, Arrive(t) PROVE DInv'
<1>0. PICK kind \in {"insert", "update", "delete", "upsert", "truncate", "find", "findCounted"} :
         \E items : Begin(t, kind, items)
  BY DEF Arrive
<1>1. PICK items : Begin(t, kind, items)
  BY <1>0
<1>2. /\ alone' = [u \in Tasks |-> u = t /\ \A v \in Tasks : pc[v] = "idle"]
      /\ before' = [before EXCEPT ![t] = rows] /\ rows' = rows
  BY <1>1 DEF Begin
<1>3. ASSUME NEW u \in Tasks, u # t PROVE DeleteOK(u)'
  <2>1. ~ alone'[u] /\ req'[u] = req[u] /\ pc'[u] = pc[u]
    BY <1>1, <1>2, <1>3 DEF Begin, RInv
  <2> QED BY <2>1 DEF DInv, DeleteOK
<1>4. DeleteOK(t)'
  <2>1. /\ req'[t] = [kind |-> kind, items |-> items] /\ answer'[t] = "none"
        /\ pc'[t] = FirstStep(kind) /\ \A u \in Tasks : u # t => pc'[u] = pc[u]
        /\ todo'[t] = (IF kind = "upsert" THEN {} ELSE DOMAIN items) /\ before'[t] = rows
    BY <1>1, <1>2 DEF Begin, RInv, DInv
  <2>2. FirstStep(kind) = "reading" <=> kind = "delete"
    BY DEF FirstStep
  <2>3. /\ pc'[t] = "reading" <=> kind = "delete"
        /\ req'[t].kind = kind /\ answer'[t] # "sent" /\ rows' = before'[t]
        /\ kind = "delete" => Positions(t)' \ todo'[t] = {}
    BY <1>2, <2>1, <2>2 DEF Positions
  <2>4. alone'[t] => \A u \in Tasks : u # t => pc'[u] = "idle"
    <3>1. alone'[t] = \A v \in Tasks : pc[v] = "idle"
      BY <1>2, Zenon
    <3> QED BY <2>1, <3>1
  <2> QED BY <2>3, <2>4, Zenon DEF DeleteOK
<1> QED BY <1>2, <1>3, <1>4 DEF DInv

(* Any other request than a bulk delete goes on.                           *)
LEMMA OthersAlone ==
    ASSUME DInv, NEW t \in Tasks, pc[t] \notin {"idle", "reading"}, UNCHANGED <<req, alone, before>>,
           \A u \in Tasks : u # t => pc'[u] = pc[u], pc'[t] # "reading"
    PROVE  DInv'
<1>1. DeleteOK(t)'
  BY DEF DInv, DeleteOK
<1> QED BY <1>1, ActiveAlone DEF DInv

LEMMA ReadAlone ==
    ASSUME RInv, DInv, NEW t \in Tasks, NEW i \in Positions(t), ReadForDelete(t, i)
    PROVE  DInv'
<1>1. /\ pc[t] = "reading" /\ UNCHANGED <<rows, pc, req, answer, before, alone>>
      /\ \E r : /\ Settle(t, i, r)
               /\ r \in {"UnknownError"} \cup Seen(rows[Item(t, i).id])
  BY DEF ReadForDelete, history, Seen
<1>2. PICK r : /\ Settle(t, i, r)
               /\ r \in {"UnknownError"} \cup Seen(rows[Item(t, i).id])
  BY <1>1
<1>3. todo'[t] = todo[t] \ {i} /\ result'[t] = [result[t] EXCEPT ![i] = r] /\ DOMAIN result[t] = Positions(t)
  BY <1>2 DEF Settle, RInv, TaskOK
<1>4. answer[t] # "sent"
  BY <1>1 DEF RInv, TaskOK, UnderWay
<1>5. ASSUME alone[t], NEW j \in Positions(t) \ todo'[t] PROVE Was(t, j)'
  <2>1. rows = before[t]
    BY <1>1, <1>5 DEF DInv, DeleteOK
  <2>2. Item(t, j)' = Item(t, j)
    BY <1>1 DEF Item
  <2>3. CASE j = i
    BY <1>1, <1>2, <1>3, <2>1, <2>2, <2>3 DEF Was
  <2>4. CASE j # i
    <3>1. Was(t, j)
      BY <1>1, <1>3, <1>5, <2>4 DEF DInv, DeleteOK
    <3> QED BY <1>1, <1>3, <2>2, <2>4, <3>1 DEF Was
  <2> QED BY <2>3, <2>4
<1>6. DeleteOK(t)'
  BY <1>1, <1>4, <1>5 DEF DInv, DeleteOK, Positions
<1> QED BY <1>1, <1>6, ActiveAlone DEF DInv

LEMMA DeleteAlone == ASSUME IInv, RInv, DInv, NEW t \in Tasks, Delete(t) PROVE DInv'
<1>1. /\ pc[t] = "reading" /\ todo[t] = {} /\ UNCHANGED <<req, result, before, alone>>
      /\ \A u \in Tasks : u # t => pc'[u] = pc[u]
      /\ pc'[t] = "idle"
  BY DEF Delete, End, RInv
<1>2. ASSUME answer'[t] = "sent"
      PROVE  rows' = Without(t)
  BY <1>2 DEF Delete, End, RInv
<1>3. ASSUME alone[t], answer'[t] = "sent", NEW i \in Positions(t)
      PROVE  rows'[Item(t, i).id] = <<>> /\ Was(t, i)
  <2>1. Item(t, i).id \in Ids
    BY ItemOK DEF IInv
  <2> QED BY <1>1, <1>2, <1>3, <2>1 DEF DInv, DeleteOK, Without
<1>4. \A i : Item(t, i)' = Item(t, i) /\ Was(t, i)' = Was(t, i)
  BY <1>1 DEF Item, Was
<1>5. DeleteOK(t)'
  BY <1>1, <1>3, <1>4 DEF DInv, DeleteOK, Positions
<1> QED BY <1>1, <1>5, ActiveAlone DEF DInv

LEMMA StepAlone == IInv /\ RInv /\ DInv /\ [Next]_vars => DInv'
<1> SUFFICES ASSUME IInv, RInv, DInv, [Next]_vars PROVE DInv'
  OBVIOUS
<1>1. ASSUME NEW t \in Tasks, Arrive(t) PROVE DInv'
  BY <1>1, BeginAlone
<1>2. ASSUME NEW t \in Tasks, Proceed(t) PROVE DInv'
  <2>1. ASSUME NEW i \in Positions(t), Insert(t, i) \/ Update(t, i) \/ WriteFails(t, i) PROVE DInv'
    BY <2>1, OthersAlone DEF Insert, Update, WriteFails
  <2>2. ASSUME NEW i \in Positions(t), ReadForDelete(t, i) PROVE DInv'
    BY <2>2, ReadAlone
  <2>3. CASE Delete(t)
    BY <2>3, DeleteAlone
  <2>4. CASE WritesSettled(t) \/ OneCall(t) \/ ItemsFound(t) \/ ItemsFail(t) \/ CountSettles(t)
    <3>1. /\ pc[t] \notin {"idle", "reading"} /\ UNCHANGED <<req, alone, before>>
          /\ \E step \in {"idle", "counting"} : pc' = [pc EXCEPT ![t] = step]
      BY <2>4 DEF WritesSettled, OneCall, ItemsFound, ItemsFail, CountSettles, End, history
    <3> QED BY <3>1, OthersAlone DEF RInv
  <2> QED BY <1>2, <2>1, <2>2, <2>3, <2>4 DEF Proceed
<1>3. CASE OrphanSettles \/ UNCHANGED vars
  <2>1. UNCHANGED <<rows, pc, req, todo, result, answer, before, alone>>
    BY <1>3 DEF OrphanSettles, vars, history
  <2> QED BY <2>1 DEF DInv, DeleteOK, Was, Item, Positions
<1>4. CASE UnhandledRejection
  <2>1. UNCHANGED <<rows, req, result, before, alone>>
    BY <1>4 DEF UnhandledRejection, history
  <2>2. ASSUME NEW t \in Tasks PROVE DeleteOK(t)'
    <3>1. pc'[t] = "idle" /\ (answer'[t] = "sent" => answer[t] = "sent") /\ \A u \in Tasks : pc'[u] = "idle"
      BY <1>4 DEF UnhandledRejection
    <3> QED BY <2>1, <3>1 DEF DInv, DeleteOK, Was, Item, Positions
  <2> QED BY <2>1, <2>2 DEF DInv
<1> QED BY <1>1, <1>2, <1>3, <1>4 DEF Next

(* A bulk delete that had the table to itself answers the items as they    *)
(* were, position by position, and leaves none of them.                    *)
THEOREM DeletesReturnItems == Spec => []DeleteReturnsItems
<1>1. DInv => DeleteReturnsItems
  BY DEF DInv, DeleteOK, Was, Seen, DeleteReturnsItems
<1> QED BY <1>1, InitIInv, StepKeeps, InitRInv, StepTells, InitDInv, StepAlone, PTL DEF Spec
==============================================================================
