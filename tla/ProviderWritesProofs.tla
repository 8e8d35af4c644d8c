------------------------ MODULE ProviderWritesProofs ------------------------
(***************************************************************************)
(* Proofs about the writes of the data providers.                          *)
(*                                                                         *)
(* RowStore: what a call that overlaps no other answers with success is    *)
(* done (DoneAsTold), and no row goes or changes but for a call that names *)
(* it (OthersRowsKept), whatever calls, rows, batches and failures there   *)
(* are.  The invariant says of the rows that each is in a sheet once, and  *)
(* that a call that is to write a row has not written it (RowsOnce): a row *)
(* that is removed by its number is then gone.  Of a call that overlaps no *)
(* other it says that nothing has changed since it looked (Finds), at each *)
(* of its steps: the number of a row is still the row's, the page that was *)
(* read is still all there is; and, once it has answered, that it did what *)
(* it was asked (Told).                                                    *)
(*                                                                         *)
(* WriteTranslation: items are written, and as they were sent              *)
(* (StoredWhole), for any columns, items and values, in each of the        *)
(* databases.  There is a lemma for the statements of each database: every *)
(* cell finds a value in the parameters (BindsItems), and it is its own    *)
(* (WritesItems).  Where the parameters of several items are one list, it  *)
(* matters where those of an item begin (Places).                          *)
(***************************************************************************)
EXTENDS RowStore, WriteTranslation, FiniteSetTheorems, FunctionTheorems, SequenceTheorems,
        WellFoundedInduction, TLAPS

Sheets == service = "sheets"

Rows    == [id : Ids \cup {"blank"}, of : 0 .. calls]
Changes == {"insert", "upsert", "update"}

(* Where a call may be, of which kind, and what it holds there.            *)
CallOK(t) ==
    LET kind == call[t].kind
        ids  == call[t].ids
    IN  /\ kind \in Changes => Len(ids) = 1
        /\ kind = "delete"  => Len(ids) >= 1
        /\ kind \in Changes \cup {"delete", "truncate"}
        /\ pc[t] = "writing"    => kind \in (IF Sheets THEN {"insert", "upsert"}
                                             ELSE Changes \cup {"delete"})
        /\ pc[t] = "rows"       => Sheets /\ kind \in {"update", "delete"}
        /\ pc[t] \in {"headers", "clearing", "clearingAll", "header"}
                                => Sheets /\ kind = "truncate"
        /\ pc[t] \in {"reading", "batch", "nextReading", "nextBatch"}
                                => ~ Sheets /\ kind = "truncate"
        /\ pc[t] \in {"nextReading", "nextBatch"} => service = "firestore"
        /\ call[t].of \in 1 .. calls
        /\ \A op \in todo[t] : op.id \in ToSet(ids)
        /\ kind \in Changes => \A o, p \in todo[t] : o = p

Steps == {"idle", "writing", "rows", "headers", "clearing", "clearingAll", "header",
          "reading", "batch", "nextReading", "nextBatch"}

TypesOK ==
    /\ service \in {"sheets", "firestore", "spanner", "dynamodb"}
    /\ calls \in Nat
    /\ rows \in Seq(Rows)
    /\ header \in BOOLEAN /\ skipped \in BOOLEAN
    /\ pc \in [Tasks -> Steps]
    /\ DOMAIN call = Tasks /\ DOMAIN answer = Tasks
    /\ DOMAIN got = Tasks
    /\ \A t \in Tasks : call[t].ids \in Seq(Ids) /\ call[t].headed \in BOOLEAN
    /\ todo \in [Tasks -> SUBSET [id : Ids, at : Nat]]
    /\ orphans \subseteq [id : Ids, at : Nat]
    /\ \A t \in Busy : CallOK(t)
    /\ \A t \in Tasks : answer[t] # "none" => pc[t] = "idle"
    /\ ~ Sheets => header /\ orphans = {}

(* No two rows are of one call, and a call that is to write one has not.   *)
RowsOnce ==
    Sheets =>
        /\ \A i, j \in DOMAIN rows : rows[i] = rows[j] /\ rows[i].id # "blank" => i = j
        /\ \A t \in Busy : call[t].kind \in Changes =>
              /\ \A i \in DOMAIN rows : rows[i].of # call[t].of
              /\ \A u \in Busy : call[u].of = call[t].of => u = t

(* A call that overlaps no other finds what it left.                       *)
Alone(t) == t \notin shared /\ (pc[t] # "idle" \/ answer[t] = "ok")

Finds(t) ==
    /\ pc[t] = "rows" /\ Len(call[t].ids) = 1 =>
          /\ call[t].before = ToSet(rows)
          /\ \E o : todo[t] = {o}
          /\ \A op \in todo[t] : op.at > 0 => op.at \in DOMAIN rows /\ rows[op.at].id = op.id
    /\ pc[t] = "headers" => header = call[t].headed
    /\ pc[t] = "clearingAll" => skipped \/ ~ call[t].headed
    /\ pc[t] = "header" => rows = <<>>
    /\ pc[t] = "reading" => call[t].before = ToSet(rows)
    /\ pc[t] = "batch" => /\ call[t].before = ToSet(rows)
                          /\ service # "firestore" /\ Cardinality(call[t].before) <= Page =>
                                got[t] = IdsOf(rows)

Told(t) ==
    answer[t] = "ok" /\ ~ skipped /\ ~ Limited(t) =>
        CASE call[t].kind = "truncate" -> rows = <<>> /\ (call[t].headed => header)
          [] call[t].kind = "delete"   -> IdsOf(rows) \cap ToSet(call[t].ids) = {}
          [] OTHER -> Written(t) \in ToSet(rows)

Solo(t) ==
    /\ \A u \in Tasks : u # t => pc[u] = "idle"
    /\ orphans = {}
    /\ Finds(t)
    /\ Told(t)

SolosOK == \A t \in Tasks : Alone(t) => Solo(t)

IInv == TypesOK /\ RowsOnce /\ SolosOK

-----------------------------------------------------------------------------
(* Lists of rows.  What Without computes is shown by induction, as a set   *)
(* of numbers that has 0 and with each number the next.                    *)
LEMMA PrefixInduction ==
    ASSUME NEW m \in Nat, NEW S, 0 \in S,
           \A i \in 1 .. m : i - 1 \in S => i \in S
    PROVE  m \in S
<1> SUFFICES ASSUME m \notin S PROVE FALSE
  OBVIOUS
<1> DEFINE T == {i \in 0 .. m : i \notin S}
<1>1. PICK x \in T : \A y \in T : ~ (<<y, x>> \in OpToRel(<, Nat))
  <2>1. T \subseteq Nat /\ T # {}
    OBVIOUS
  <2> HIDE DEF T
  <2> QED BY <2>1, NatLessThanWellFounded, WFMin
<1>2. x \in 1 .. m /\ x \notin S
  OBVIOUS
<1>3. x - 1 \in 0 .. m /\ <<x - 1, x>> \in OpToRel(<, Nat)
  BY <1>2 DEF OpToRel
<1>4. x - 1 \in S
  BY <1>1, <1>3
<1> QED BY <1>2, <1>4

(* The recursive function of Without, up to m. *)
IsKept(F, s, ids, m) ==
    F = [n \in 0 .. m |-> IF n = 0 THEN <<>>
                          ELSE IF s[n].id \in ids THEN F[n - 1]
                          ELSE Append(F[n - 1], s[n])]

LEMMA KeptExists ==
    ASSUME NEW s, NEW ids, NEW m \in Nat
    PROVE  \E F : IsKept(F, s, ids, m)
<1> DEFINE S == {n \in Nat : \E F : IsKept(F, s, ids, n)}
<1>1. 0 \in S
  <2>1. IsKept([n \in 0 .. 0 |-> <<>>], s, ids, 0)
    BY DEF IsKept
  <2> QED BY <2>1
<1>2. ASSUME NEW k \in 1 .. m, k - 1 \in S PROVE k \in S
  <2>1. PICK F : IsKept(F, s, ids, k - 1)
    BY <1>2
  <2> DEFINE G == [n \in 0 .. k |->
                      IF n = k THEN IF s[n].id \in ids THEN F[k - 1] ELSE Append(F[k - 1], s[n])
                      ELSE F[n]]
  <2>2. \A n \in 0 .. k - 1 : F[n] = IF n = 0 THEN <<>>
                                     ELSE IF s[n].id \in ids THEN F[n - 1]
                                     ELSE Append(F[n - 1], s[n])
    BY <2>1 DEF IsKept
  <2>3. \A n \in 0 .. k : G[n] = IF n = 0 THEN <<>>
                                 ELSE IF s[n].id \in ids THEN G[n - 1]
                                 ELSE Append(G[n - 1], s[n])
    BY <2>2
  <2>4. IsKept(G, s, ids, k)
    BY <2>3 DEF IsKept
  <2> QED BY <2>4
<1> HIDE DEF S
<1>3. m \in S
  BY <1>1, <1>2, PrefixInduction
<1> QED BY <1>3 DEF S

LEMMA WithoutUnfolds ==
    ASSUME NEW S, rows \in Seq(S), NEW ids
    PROVE  \E F : /\ F[0] = <<>>
                  /\ \A n \in 1 .. Len(rows) :
                        F[n] = IF rows[n].id \in ids THEN F[n - 1] ELSE Append(F[n - 1], rows[n])
                  /\ Without(ids) = F[Len(rows)]
<1> DEFINE F == CHOOSE F : IsKept(F, rows, ids, Len(rows))
<1>1. Len(rows) \in Nat
  OBVIOUS
<1>2. IsKept(F, rows, ids, Len(rows))
  BY <1>1, KeptExists
<1>3. Without(ids) = F[Len(rows)]
  BY DEF Without, IsKept
<1> HIDE DEF F
<1>4. \A n \in 0 .. Len(rows) : F[n] = IF n = 0 THEN <<>>
                                       ELSE IF rows[n].id \in ids THEN F[n - 1]
                                       ELSE Append(F[n - 1], rows[n])
  BY <1>2 DEF IsKept
<1>5. F[0] = <<>>
  BY <1>1, <1>4
<1>6. \A n \in 1 .. Len(rows) :
          F[n] = IF rows[n].id \in ids THEN F[n - 1] ELSE Append(F[n - 1], rows[n])
  BY <1>1, <1>4
<1> QED BY <1>3, <1>5, <1>6

LEMMA AppendKeeps ==
    ASSUME NEW S, NEW q \in Seq(S), NEW x \in S
    PROVE  /\ Append(q, x) \in Seq(S)
           /\ DOMAIN q = 1 .. Len(q) /\ Len(q) \in Nat
           /\ DOMAIN Append(q, x) = 1 .. Len(q) + 1
           /\ \A j \in 1 .. Len(q) : Append(q, x)[j] = q[j]
           /\ Append(q, x)[Len(q) + 1] = x
           /\ ToSet(Append(q, x)) = ToSet(q) \cup {x}
<1>1. /\ Append(q, x) \in Seq(S)
      /\ DOMAIN q = 1 .. Len(q) /\ Len(q) \in Nat
      /\ DOMAIN Append(q, x) = 1 .. Len(q) + 1
      /\ \A j \in 1 .. Len(q) : Append(q, x)[j] = q[j]
      /\ Append(q, x)[Len(q) + 1] = x
  OBVIOUS
<1> DEFINE a == Append(q, x)
<1> HIDE DEF a
<1>2. /\ DOMAIN a = 1 .. Len(q) + 1
      /\ \A j \in 1 .. Len(q) : a[j] = q[j]
      /\ a[Len(q) + 1] = x
  BY <1>1 DEF a
<1>3. ToSet(a) = ToSet(q) \cup {x}
  <2>1. \A y : (\E j \in DOMAIN a : a[j] = y) <=> (\E j \in DOMAIN q : q[j] = y) \/ y = x
    BY <1>1, <1>2
  <2> QED BY <2>1 DEF ToSet
<1> QED BY <1>1, <1>3 DEF a

(* Without takes the rows of these ids, and no other. *)
LEMMA WithoutKeeps ==
    ASSUME NEW S, rows \in Seq(S), NEW ids
    PROVE  /\ Without(ids) \in Seq(S)
           /\ ToSet(Without(ids)) = {r \in ToSet(rows) : r.id \notin ids}
<1>1. PICK F : /\ F[0] = <<>>
               /\ \A n \in 1 .. Len(rows) :
                     F[n] = IF rows[n].id \in ids THEN F[n - 1] ELSE Append(F[n - 1], rows[n])
               /\ Without(ids) = F[Len(rows)]
  BY WithoutUnfolds
<1> DEFINE P(i) == /\ F[i] \in Seq(S)
                   /\ \A x : x \in ToSet(F[i]) <=> \E k \in 1 .. i : rows[k] = x /\ x.id \notin ids
           T == {i \in Nat : P(i)}
<1>2. 0 \in T
  <2>1. F[0] \in Seq(S) /\ \A x : x \notin ToSet(F[0])
    BY <1>1 DEF ToSet
  <2>2. 1 .. 0 = {}
    OBVIOUS
  <2>3. P(0)
    BY <2>1, <2>2
  <2> QED BY <2>3
<1>3. ASSUME NEW i \in 1 .. Len(rows), i - 1 \in T
      PROVE  i \in T
  <2>1. i \in Nat /\ P(i - 1) /\ rows[i] \in S
    BY <1>3
  <2>2. \A k : k \in 1 .. i <=> k \in 1 .. (i - 1) \/ k = i
    BY <2>1
  <2>3. CASE rows[i].id \in ids
    <3>1. F[i] = F[i - 1]
      BY <1>1, <2>3
    <3> QED BY <2>1, <2>2, <2>3, <3>1
  <2>4. CASE rows[i].id \notin ids
    <3>1. F[i] = Append(F[i - 1], rows[i])
      BY <1>1, <2>4
    <3>2. F[i] \in Seq(S) /\ ToSet(F[i]) = ToSet(F[i - 1]) \cup {rows[i]}
      BY <2>1, <3>1, AppendKeeps
    <3> QED BY <2>1, <2>2, <2>4, <3>2
  <2> QED BY <2>3, <2>4
<1>4. Len(rows) \in T
  <2> HIDE DEF T
  <2> QED BY <1>2, <1>3, PrefixInduction
<1>5. P(Len(rows))
  BY <1>4
<1>6. \A x : x \in ToSet(rows) <=> \E k \in 1 .. Len(rows) : rows[k] = x
  BY DEF ToSet
<1> QED BY <1>1, <1>5, <1>6

(* A list without the entry of one number. *)
LEMMA RemoveAtIs ==
    ASSUME NEW S, NEW s \in Seq(S), NEW n \in 1 .. Len(s)
    PROVE  /\ RemoveAt(s, n) \in Seq(S)
           /\ DOMAIN RemoveAt(s, n) = 1 .. Len(s) - 1
           /\ \A j \in 1 .. Len(s) - 1 :
                 RemoveAt(s, n)[j] = IF j < n THEN s[j] ELSE s[j + 1]
<1> DEFINE p == SubSeq(s, 1, n - 1)
           q == SubSeq(s, n + 1, Len(s))
<1>1. /\ p \in Seq(S) /\ Len(p) = n - 1
      /\ \A j \in 1 .. n - 1 : p[j] = s[j]
  <2>1. \A j \in 1 .. n - 1 : s[j] \in S
    OBVIOUS
  <2> QED BY <2>1
<1>2. /\ q \in Seq(S) /\ Len(q) = Len(s) - n
      /\ \A j \in 1 .. Len(s) - n : q[j] = s[n + j]
  <2>1. \A j \in n + 1 .. Len(s) : s[j] \in S
    OBVIOUS
  <2> QED BY <2>1
<1>3. RemoveAt(s, n) = p \o q
  BY DEF RemoveAt
<1> HIDE DEF p, q
<1>4. /\ p \o q \in Seq(S)
      /\ Len(p \o q) = Len(s) - 1
      /\ \A j \in 1 .. Len(p) + Len(q) :
            (p \o q)[j] = IF j <= Len(p) THEN p[j] ELSE q[j - Len(p)]
  <2>1. Len(p \o q) = Len(p) + Len(q)
    BY <1>1, <1>2, ConcatProperties
  <2> QED BY <1>1, <1>2, <2>1, ConcatProperties
<1>5. \A j \in 1 .. Len(s) - 1 : (p \o q)[j] = IF j < n THEN s[j] ELSE s[j + 1]
  <2> TAKE j \in 1 .. Len(s) - 1
  <2>0. j \in 1 .. Len(p) + Len(q)
    BY <1>1, <1>2
  <2>1. CASE j < n
    BY <1>1, <1>4, <2>0, <2>1
  <2>2. CASE ~ (j < n)
    <3>1. j - (n - 1) \in 1 .. Len(s) - n /\ n + (j - (n - 1)) = j + 1
      BY <2>2
    <3>2. ~ (j <= Len(p)) /\ Len(p) = n - 1
      BY <1>1, <2>2
    <3>3. (p \o q)[j] = q[j - (n - 1)]
      BY <1>4, <2>0, <3>2
    <3>4. \A k, i : i = j - (n - 1) /\ k = n + i => q[i] = s[k]
      BY <1>2, <3>1
    <3>5. q[j - (n - 1)] = s[j + 1]
      BY <3>1, <3>4
    <3> QED BY <2>2, <3>3, <3>5
  <2> QED BY <2>1, <2>2
<1>6. DOMAIN (p \o q) = 1 .. Len(s) - 1
  BY <1>4
<1> QED BY <1>3, <1>4, <1>5, <1>6

(* No row but blank ones is there twice. *)
Once(s) == \A i, j \in DOMAIN s : s[i] = s[j] /\ s[i].id # "blank" => i = j

LEMMA RemovedKeeps ==
    ASSUME NEW S, NEW s \in Seq(S), NEW n \in DOMAIN s
    PROVE  /\ RemoveAt(s, n) \in Seq(S)
           /\ ToSet(RemoveAt(s, n)) \subseteq ToSet(s)
           /\ \A r \in ToSet(s) : r # s[n] => r \in ToSet(RemoveAt(s, n))
           /\ Once(s) => Once(RemoveAt(s, n))
           /\ Once(s) /\ s[n].id # "blank" => s[n] \notin ToSet(RemoveAt(s, n))
<1> DEFINE q == RemoveAt(s, n)
<1>1. /\ n \in 1 .. Len(s) /\ Len(s) \in Nat /\ DOMAIN s = 1 .. Len(s)
      /\ q \in Seq(S) /\ DOMAIN q = 1 .. Len(s) - 1
      /\ \A j \in 1 .. Len(s) - 1 : q[j] = IF j < n THEN s[j] ELSE s[j + 1]
  <2>1. n \in 1 .. Len(s)
    OBVIOUS
  <2> QED BY <2>1, RemoveAtIs
<1> HIDE DEF q
<1>2. \A j \in DOMAIN q : \E i \in DOMAIN s : i # n /\ s[i] = q[j]
                                              /\ i = (IF j < n THEN j ELSE j + 1)
  BY <1>1
<1>3. ToSet(q) \subseteq ToSet(s)
  BY <1>2 DEF ToSet
<1>4. ASSUME NEW r \in ToSet(s), r # s[n] PROVE r \in ToSet(q)
  <2>1. PICK i \in DOMAIN s : r = s[i]
    BY DEF ToSet
  <2>2. i # n
    BY <1>4, <2>1
  <2>3. \E j \in DOMAIN q : q[j] = s[i]
    <3>1. CASE i < n
      BY <1>1, <3>1
    <3>2. CASE i > n
      <4>1. i - 1 \in 1 .. Len(s) - 1 /\ ~ (i - 1 < n) /\ i - 1 + 1 = i
        BY <1>1, <3>2
      <4> QED BY <1>1, <4>1
    <3> QED BY <1>1, <2>2, <3>1, <3>2
  <2> QED BY <2>1, <2>3 DEF ToSet
<1>5. ASSUME Once(s) PROVE Once(q)
  <2> SUFFICES ASSUME NEW i \in DOMAIN q, NEW j \in DOMAIN q, q[i] = q[j], q[i].id # "blank"
               PROVE  i = j
    BY DEF Once
  <2>1. PICK k \in DOMAIN s : s[k] = q[i] /\ k = (IF i < n THEN i ELSE i + 1)
    BY <1>2
  <2>2. PICK l \in DOMAIN s : s[l] = q[j] /\ l = (IF j < n THEN j ELSE j + 1)
    BY <1>2
  <2>3. k = l
    BY <1>5, <2>1, <2>2 DEF Once
  <2> QED BY <1>1, <2>1, <2>2, <2>3
<1>6. ASSUME Once(s), s[n].id # "blank" PROVE s[n] \notin ToSet(q)
  <2> SUFFICES ASSUME NEW j \in DOMAIN q, q[j] = s[n] PROVE FALSE
    BY DEF ToSet
  <2>1. PICK i \in DOMAIN s : i # n /\ s[i] = q[j]
    BY <1>2
  <2> QED BY <1>6, <2>1 DEF Once
<1> QED BY <1>1, <1>3, <1>4, <1>5, <1>6 DEF q

(* A row that is looked up is found. *)
LEMMA FoundIs ==
    ASSUME NEW S, rows \in Seq(S), NEW id, id \in IdsOf(rows)
    PROVE  NumberOf(id) \in DOMAIN rows /\ rows[NumberOf(id)].id = id
<1> DEFINE I == {i \in 1 .. Len(rows) : rows[i].id = id}
<1>1. I \subseteq Nat /\ I # {} /\ DOMAIN rows = 1 .. Len(rows)
  BY DEF IdsOf
<1>2. NumberOf(id) = Min(I)
  BY <1>1 DEF NumberOf, SelectInSeq
<1> HIDE DEF I
<1>3. PICK x \in I : \A y \in I : ~ (<<y, x>> \in OpToRel(<, Nat))
  BY <1>1, NatLessThanWellFounded, WFMin
<1>4. \A y \in I : x <= y
  <2> TAKE y \in I
  <2>1. x \in Nat /\ y \in Nat
    BY <1>1
  <2>2. y < x => <<y, x>> \in OpToRel(<, Nat)
    BY <2>1 DEF OpToRel
  <2>3. ~ (y < x)
    BY <1>3, <2>2
  <2> QED BY <2>1, <2>3
<1>5. Min(I) \in I
  BY <1>4 DEF Min
<1> QED BY <1>1, <1>2, <1>5 DEF I

LEMMA ListIsFinite ==
    ASSUME NEW S, NEW s \in Seq(S)
    PROVE  IsFiniteSet(ToSet(s)) /\ Cardinality(ToSet(s)) \in Nat
<1>1. IsFiniteSet(ToSet(s))
  <2>1. DOMAIN s = 1 .. Len(s) /\ Len(s) \in Nat
    OBVIOUS
  <2>2. s \in Surjection(1 .. Len(s), ToSet(s))
    BY <2>1, Fun_IsSurj DEF ToSet
  <2>3. ExistsSurjection(1 .. Len(s), ToSet(s))
    BY <2>2, Fun_ExistsSurj
  <2> QED BY <2>1, <2>3, FS_NatSurjection
<1> QED BY <1>1, FS_CardinalityType

-----------------------------------------------------------------------------
(* What the steps do to the rows of a sheet. *)
OfKept(t) ==
    \A i \in DOMAIN rows' :
        \/ rows'[i].of = 0
        \/ \E j \in DOMAIN rows : rows[j].of = rows'[i].of
        \/ rows'[i] = Written(t)

LEMMA WrittenIs ==
    ASSUME TypesOK, NEW t \in Busy, call[t].kind \in Changes
    PROVE  Written(t) \in Rows /\ Written(t).id = call[t].ids[1]
           /\ Written(t).of = call[t].of /\ Written(t).id # "blank" /\ call[t].of \in 1 .. calls
<1>1. CallOK(t) /\ call[t].ids \in Seq(Ids) /\ calls \in Nat
  BY DEF TypesOK, Busy
<1>2. Len(call[t].ids) = 1 /\ call[t].of \in 1 .. calls
  BY <1>1 DEF CallOK
<1>3. call[t].ids[1] \in Ids
  BY <1>1, <1>2
<1> QED BY <1>1, <1>2, <1>3, IdsAssumption DEF Written, Rows

LEMMA Unwritten ==
    ASSUME TypesOK, RowsOnce, Sheets, NEW t \in Busy, call[t].kind \in Changes
    PROVE  \A i \in DOMAIN rows : rows[i] # Written(t)
BY WrittenIs DEF RowsOnce

LEMMA AppendedRow ==
    ASSUME TypesOK, RowsOnce, Sheets, NEW t \in Busy, call[t].kind \in Changes,
           rows' = Append(rows, Written(t))
    PROVE  /\ rows' \in Seq(Rows)
           /\ ToSet(rows') = ToSet(rows) \cup {Written(t)}
           /\ Once(rows') /\ OfKept(t)
<1>1. rows \in Seq(Rows) /\ Written(t) \in Rows
  BY WrittenIs DEF TypesOK
<1>2. /\ rows' \in Seq(Rows)
      /\ ToSet(rows') = ToSet(rows) \cup {Written(t)}
      /\ DOMAIN rows = 1 .. Len(rows) /\ Len(rows) \in Nat
      /\ DOMAIN rows' = 1 .. Len(rows) + 1
      /\ \A j \in 1 .. Len(rows) : rows'[j] = rows[j]
      /\ rows'[Len(rows) + 1] = Written(t)
  BY <1>1, AppendKeeps
<1>3. \A i \in 1 .. Len(rows) : rows[i] # Written(t)
  BY <1>2, Unwritten
<1>4. Once(rows)
  BY DEF RowsOnce, Once
<1>5. Once(rows')
  BY <1>2, <1>3, <1>4 DEF Once
<1>6. OfKept(t)
  BY <1>2 DEF OfKept
<1> QED BY <1>2, <1>5, <1>6

LEMMA RemovedRow ==
    ASSUME TypesOK, RowsOnce, Sheets, NEW t, NEW n, rows' = WithoutRow(n)
    PROVE  /\ rows' \in Seq(Rows)
           /\ ToSet(rows') \subseteq ToSet(rows)
           /\ Once(rows') /\ OfKept(t)
           /\ \A r \in ToSet(rows) : r \in ToSet(rows') \/ (n \in DOMAIN rows /\ r = rows[n])
           /\ n \in DOMAIN rows /\ rows[n].id # "blank" =>
                 ToSet(rows') = ToSet(rows) \ {rows[n]}
<1>1. rows \in Seq(Rows) /\ Once(rows)
  BY DEF TypesOK, RowsOnce, Once
<1>2. CASE n \in DOMAIN rows
  <2>1. rows' = RemoveAt(rows, n)
    BY <1>2 DEF WithoutRow
  <2>2. /\ rows' \in Seq(Rows)
        /\ ToSet(rows') \subseteq ToSet(rows)
        /\ \A r \in ToSet(rows) : r # rows[n] => r \in ToSet(rows')
        /\ Once(rows')
        /\ rows[n].id # "blank" => rows[n] \notin ToSet(rows')
    BY <1>1, <1>2, <2>1, RemovedKeeps
  <2>3. OfKept(t)
    <3>1. \A i \in DOMAIN rows' : \E j \in DOMAIN rows : rows[j] = rows'[i]
      BY <2>2 DEF ToSet
    <3> QED BY <3>1 DEF OfKept
  <2> QED BY <1>2, <2>2, <2>3
<1>3. CASE n \notin DOMAIN rows
  <2>1. rows' = rows
    BY <1>3 DEF WithoutRow
  <2> QED BY <1>1, <1>3, <2>1 DEF OfKept
<1> QED BY <1>2, <1>3

LEMMA SavedRow ==
    ASSUME TypesOK, RowsOnce, Sheets, NEW t \in Busy, call[t].kind \in Changes,
           NEW at \in Nat, at > 0,
           rows' = [n \in 1 .. (IF at > Len(rows) THEN at ELSE Len(rows)) |->
                      IF n = at THEN Written(t)
                      ELSE IF n \in DOMAIN rows THEN rows[n] ELSE [id |-> "blank", of |-> 0]]
    PROVE  /\ rows' \in Seq(Rows)
           /\ Once(rows') /\ OfKept(t)
           /\ Written(t) \in ToSet(rows')
           /\ \A r \in ToSet(rows) : r \in ToSet(rows') \/ (at \in DOMAIN rows /\ r = rows[at])
<1> DEFINE m == IF at > Len(rows) THEN at ELSE Len(rows)
           blank == [id |-> "blank", of |-> 0]
<1>1. rows \in Seq(Rows) /\ Once(rows) /\ Written(t) \in Rows /\ calls \in Nat
  BY WrittenIs DEF TypesOK, RowsOnce, Once
<1>2. /\ Len(rows) \in Nat /\ DOMAIN rows = 1 .. Len(rows)
      /\ \A n \in 1 .. Len(rows) : rows[n] \in Rows
  BY <1>1
<1>3. m \in Nat /\ at \in 1 .. m /\ Len(rows) <= m
  BY <1>2
<1>4. blank \in Rows
  BY <1>1 DEF Rows
<1>5. /\ DOMAIN rows' = 1 .. m
      /\ \A n \in 1 .. m : rows'[n] = IF n = at THEN Written(t)
                                      ELSE IF n \in DOMAIN rows THEN rows[n] ELSE blank
  OBVIOUS
<1>6. rows' = [n \in 1 .. m |-> rows'[n]]
  OBVIOUS
<1> HIDE DEF m
<1>7. \A n \in 1 .. m : rows'[n] \in Rows
  BY <1>1, <1>2, <1>4, <1>5
<1>8. rows' \in Seq(Rows)
  BY <1>3, <1>6, <1>7
<1>9. \A i \in 1 .. Len(rows) : rows[i] # Written(t)
  BY <1>2, Unwritten
<1>10. blank.id = "blank" /\ blank.of = 0 /\ Written(t).id # "blank"
  BY WrittenIs
<1> HIDE DEF blank
<1>11. Once(rows')
  BY <1>1, <1>2, <1>5, <1>9, <1>10 DEF Once
<1>12. OfKept(t)
  BY <1>5, <1>10 DEF OfKept
<1>13. Written(t) \in ToSet(rows')
  BY <1>3, <1>5 DEF ToSet
<1>14. ASSUME NEW r \in ToSet(rows), ~ (at \in DOMAIN rows /\ r = rows[at]) PROVE r \in ToSet(rows')
  <2>1. PICK i \in DOMAIN rows : rows[i] = r
    BY DEF ToSet
  <2>2. i \in 1 .. m /\ i # at
    BY <1>2, <1>3, <1>14, <2>1
  <2> QED BY <1>5, <2>1, <2>2 DEF ToSet
<1> QED BY <1>8, <1>11, <1>12, <1>13, <1>14

-----------------------------------------------------------------------------
(* What a step of a call leaves to the others, and what it may make of its *)
(* own.                                                                    *)
Ops == [id : Ids, at : Nat]

Own(t) ==
    /\ UNCHANGED <<service, call, calls, shared>>
    /\ \A u \in Tasks \ {t} : /\ pc'[u] = pc[u] /\ todo'[u] = todo[u]
                              /\ got'[u] = got[u] /\ answer'[u] = answer[u]
    /\ pc' \in [Tasks -> Steps] /\ todo' \in [Tasks -> SUBSET Ops]
    /\ DOMAIN got' = Tasks /\ DOMAIN answer' = Tasks
    /\ pc'[t] # "idle" => answer'[t] = answer[t]

Answered(t, how) == pc'[t] = "idle" /\ answer'[t] = how

LEMMA AnswerIs ==
    ASSUME TypesOK, NEW t \in Tasks, NEW how, Answer(t, how),
           UNCHANGED <<service, call, calls, shared>>
    PROVE  Own(t) /\ Answered(t, how)
<1>1. {} \in SUBSET Ops /\ "idle" \in Steps
  BY DEF Steps
<1>2. pc' \in [Tasks -> Steps] /\ todo' \in [Tasks -> SUBSET Ops]
  BY <1>1 DEF Answer, TypesOK, Ops
<1> QED BY <1>2 DEF Answer, TypesOK, Own, Answered

(* The types a step of a call has to keep, its own. *)
LEMMA StepTypes ==
    ASSUME TypesOK, NEW t \in Busy, Own(t), rows' \in Seq(Rows),
           header' \in BOOLEAN, skipped' \in BOOLEAN, orphans' \subseteq Ops,
           ~ Sheets => header' /\ orphans' = {},
           pc'[t] # "idle" => CallOK(t)'
    PROVE  TypesOK'
<1>1. ASSUME NEW u \in Tasks, pc'[u] # "idle" PROVE CallOK(u)'
  <2>1. CASE u = t
    BY <1>1, <2>1
  <2>2. CASE u # t
    <3>1. CallOK(u) /\ pc'[u] = pc[u] /\ todo'[u] = todo[u]
      BY <1>1, <2>2 DEF TypesOK, Busy, Own
    <3> QED BY <3>1 DEF CallOK, Own, Sheets
  <2> QED BY <2>1, <2>2
<1>2. \A u \in Tasks : answer'[u] # "none" => pc'[u] = "idle"
  BY DEF TypesOK, Own, Busy
<1>3. rows' \in Seq(Rows')
  BY DEF Own, Rows
<1> QED BY <1>1, <1>2, <1>3 DEF TypesOK, Busy, Own, Sheets, Ops

LEMMA StepOnce ==
    ASSUME TypesOK, RowsOnce, NEW t \in Busy, Own(t),
           Sheets => /\ Once(rows')
                     /\ OfKept(t)
                     /\ pc'[t] # "idle" => UNCHANGED rows \/ call[t].kind \notin Changes
    PROVE  RowsOnce'
<1> SUFFICES ASSUME Sheets PROVE RowsOnce'
  BY DEF RowsOnce, Sheets, Own
<1>1. call' = call /\ Busy' \subseteq Busy /\ Sheets'
  BY DEF Own, Busy, Sheets
<1>2. ASSUME NEW u \in Busy', call[u].kind \in Changes
      PROVE  /\ \A i \in DOMAIN rows' : rows'[i].of # call[u].of
             /\ \A v \in Busy' : call[v].of = call[u].of => v = u
  <2>1. /\ \A i \in DOMAIN rows : rows[i].of # call[u].of
        /\ \A v \in Busy : call[v].of = call[u].of => v = u
    BY <1>1, <1>2 DEF RowsOnce
  <2>2. call[u].of # 0
    BY <1>1, <1>2, WrittenIs DEF TypesOK, CallOK
  <2>3. CASE u = t
    BY <1>1, <1>2, <2>1, <2>3 DEF Busy
  <2>4. CASE u # t
    <3>1. call[t].of # call[u].of
      BY <2>1, <2>4
    <3>2. Written(t).of = call[t].of
      BY DEF Written
    <3> QED BY <1>1, <2>1, <2>2, <3>1, <3>2 DEF OfKept
  <2> QED BY <2>3, <2>4
<1> QED BY <1>1, <1>2 DEF RowsOnce, Once

(* Only a call that was alone is alone after it. *)
LEMMA StepSolos ==
    ASSUME TypesOK, SolosOK, NEW t \in Busy, Own(t),
           Alone(t)' /\ Solo(t) => orphans' = {} /\ Finds(t)' /\ Told(t)'
    PROVE  SolosOK'
<1>1. ASSUME NEW u \in Tasks, Alone(u)' PROVE u = t
  <2> SUFFICES ASSUME u # t PROVE FALSE
    OBVIOUS
  <2>1. Alone(u)
    BY <1>1 DEF Alone, Own
  <2> QED BY <2>1 DEF SolosOK, Solo, Busy
<1>2. ASSUME Alone(t)' PROVE Solo(t)'
  <2>1. Alone(t)
    BY <1>2 DEF Alone, Own, Busy
  <2>2. Solo(t)
    BY <2>1 DEF SolosOK, Busy
  <2>3. \A u \in Tasks : u # t => pc'[u] = "idle"
    BY <2>2 DEF Solo, Own
  <2> QED BY <1>2, <2>2, <2>3 DEF Solo
<1> QED BY <1>1, <1>2 DEF SolosOK

(* A call that is answered anything but "ok" is not alone any more. *)
LEMMA NotOk ==
    ASSUME NEW t, NEW how, Answered(t, how), how # "ok"
    PROVE  ~ Alone(t)'
BY DEF Answered, Alone

-----------------------------------------------------------------------------
(* The steps in a sheet *)
Kept == TypesOK' /\ RowsOnce' /\ SolosOK' /\ OnlyRowsAsked

LEMMA BusyOK == ASSUME TypesOK, NEW t \in Busy PROVE CallOK(t) /\ answer[t] = "none"
BY DEF TypesOK, Busy

LEMMA RowsStay == ASSUME rows' = rows PROVE OnlyRowsAsked
BY DEF OnlyRowsAsked

(* Rows that do not change are as they were. *)
LEMMA SameRows ==
    ASSUME TypesOK, RowsOnce, rows' = rows, NEW t
    PROVE  rows' \in Seq(Rows) /\ (Sheets => Once(rows') /\ OfKept(t))
BY DEF TypesOK, RowsOnce, Once, OfKept

LEMMA AppendRowOK ==
    ASSUME TypesOK, RowsOnce, SolosOK, NEW t \in Tasks, AppendRow(t)
    PROVE  Kept
<1>1. t \in Busy /\ Sheets /\ pc[t] = "writing" /\ UNCHANGED <<header, skipped, orphans>>
  BY DEF AppendRow, Busy, Sheets
<1>2. /\ call[t].kind \in {"insert", "upsert"} /\ orphans \subseteq Ops
      /\ header \in BOOLEAN /\ skipped \in BOOLEAN
  BY <1>1, BusyOK DEF CallOK, TypesOK, Ops
<1>3. call[t].kind \in Changes
  BY <1>2 DEF Changes
<1>4. CASE header
  <2>1. rows' = Append(rows, Written(t)) /\ Answer(t, "ok")
    BY <1>4 DEF AppendRow
  <2>2. Own(t) /\ Answered(t, "ok")
    BY <2>1, AnswerIs DEF AppendRow
  <2>3. /\ rows' \in Seq(Rows)
        /\ ToSet(rows') = ToSet(rows) \cup {Written(t)}
        /\ Once(rows') /\ OfKept(t)
    BY <1>1, <1>3, <2>1, AppendedRow
  <2>4. TypesOK' /\ RowsOnce'
    BY <1>1, <1>2, <2>2, <2>3, StepTypes, StepOnce DEF Answered
  <2>5. Solo(t) => orphans' = {} /\ Finds(t)' /\ Told(t)'
    <3>1. Finds(t)'
      BY <2>2 DEF Finds, Answered
    <3>2. Told(t)'
      BY <1>2, <2>2, <2>3 DEF Told, Own, Written
    <3> QED BY <1>1, <3>1, <3>2 DEF Solo
  <2>6. OnlyRowsAsked
    BY <2>3 DEF OnlyRowsAsked
  <2> QED BY <1>1, <2>2, <2>4, <2>5, <2>6, StepSolos DEF Kept
<1>5. CASE ~ header
  <2>1. rows' = rows /\ Answer(t, "error")
    BY <1>5 DEF AppendRow
  <2>2. Own(t) /\ Answered(t, "error")
    BY <2>1, AnswerIs DEF AppendRow
  <2>3. TypesOK' /\ RowsOnce'
    BY <1>1, <1>2, <2>1, <2>2, SameRows, StepTypes, StepOnce DEF Answered
  <2> QED BY <1>1, <2>1, <2>2, <2>3, NotOk, RowsStay, StepSolos DEF Kept
<1> QED BY <1>4, <1>5

(* A call of a sheet that is clear of the others is alone. *)
LEMMA ClearIsSolo ==
    ASSUME SolosOK, NEW t \in Busy, Sheets, Clear
    PROVE  Solo(t) /\ Len(call[t].ids) <= 1
BY DEF SolosOK, Clear, Alone, Busy, Sheets

LEMMA DoneIs ==
    ASSUME TypesOK, NEW t \in Busy, NEW op \in todo[t], Done(t, op),
           UNCHANGED <<service, call, calls, shared>>
    PROVE  /\ Own(t)
           /\ \/ todo[t] = {op} /\ Answered(t, "ok")
              \/ /\ todo[t] # {op} /\ todo'[t] = todo[t] \ {op}
                 /\ pc'[t] = pc[t] /\ answer'[t] = answer[t]
<1>1. CASE todo[t] = {op}
  BY <1>1, AnswerIs DEF Done, Busy
<1>2. CASE todo[t] # {op}
  <2>1. todo' = [todo EXCEPT ![t] = @ \ {op}] /\ UNCHANGED <<pc, got, answer>>
    BY <1>2 DEF Done
  <2>2. todo[t] \ {op} \in SUBSET Ops /\ todo \in [Tasks -> SUBSET Ops]
    BY DEF TypesOK, Busy, Ops
  <2>3. todo' \in [Tasks -> SUBSET Ops]
    BY <2>1, <2>2
  <2> QED BY <1>2, <2>1, <2>2, <2>3 DEF Own, TypesOK, Busy
<1> QED BY <1>1, <1>2

(* The operations of a call, or fewer of them. *)
LEMMA FewerOps ==
    ASSUME TypesOK, NEW t \in Busy, Own(t), todo'[t] \subseteq todo[t], pc'[t] = pc[t]
    PROVE  CallOK(t)'
<1>1. CallOK(t)
  BY BusyOK
<1> QED BY <1>1 DEF CallOK, Own, Sheets


LEMMA AskedFor ==
    ASSUME NEW t \in Busy, NEW id, id \in ToSet(call[t].ids) \/ call[t].kind = "truncate"
    PROVE  Asked(id)
BY DEF Asked

(* An operation rejects. *)
LEMMA RejectIs ==
    ASSUME TypesOK, RowsOnce, SolosOK, NEW t \in Busy, Sheets, NEW op \in todo[t], Reject(t, op),
           UNCHANGED <<service, rows, header, call, calls, shared>>, skipped' \in BOOLEAN
    PROVE  Kept
<1>1. Own(t) /\ Answered(t, "error")
  BY AnswerIs DEF Reject, Busy
<1>2. orphans' \subseteq Ops /\ header' \in BOOLEAN
  BY DEF Reject, TypesOK, Ops, Busy
<1>3. TypesOK' /\ RowsOnce'
  BY <1>1, <1>2, SameRows, StepTypes, StepOnce DEF Answered
<1> QED BY <1>1, <1>3, NotOk, RowsStay, StepSolos DEF Kept

(* Of a call that changes a row, or deletes one, there is one operation. *)
LEMMA OneOfRow ==
    ASSUME TypesOK, NEW t \in Busy, pc[t] = "rows", NEW op \in todo[t], Len(call[t].ids) = 1
    PROVE  /\ op \in Ops /\ op.id = call[t].ids[1] /\ op.id \in ToSet(call[t].ids)
           /\ call[t].kind = "update" => todo[t] = {op}
           /\ Solo(t) => todo[t] = {op}
<1>1. CallOK(t) /\ call[t].ids \in Seq(Ids) /\ op \in Ops
  BY BusyOK DEF TypesOK, Busy, Ops
<1>2. op.id \in ToSet(call[t].ids)
  BY <1>1 DEF CallOK
<1>3. op.id = call[t].ids[1]
  BY <1>1, <1>2 DEF ToSet
<1>4. call[t].kind = "update" => todo[t] = {op}
  BY <1>1 DEF CallOK, Changes
<1>5. Solo(t) => todo[t] = {op}
  BY DEF Solo, Finds
<1> QED BY <1>1, <1>2, <1>3, <1>4, <1>5

LEMMA FindRowOK ==
    ASSUME TypesOK, RowsOnce, SolosOK, NEW t \in Tasks, NEW op \in todo[t], FindRow(t, op)
    PROVE  Kept
<1>1. /\ t \in Busy /\ pc[t] = "rows" /\ op.at = 0
      /\ UNCHANGED <<service, rows, header, call, shared, skipped, calls>>
  BY DEF FindRow, Busy
<1>2. /\ CallOK(t) /\ Sheets /\ answer[t] = "none" /\ op \in Ops /\ rows \in Seq(Rows)
      /\ orphans \subseteq Ops /\ header \in BOOLEAN /\ skipped \in BOOLEAN
  BY <1>1, BusyOK DEF CallOK, TypesOK, Ops
<1>3. CASE /\ header /\ op.id \in IdsOf(rows)
           /\ todo' = [todo EXCEPT ![t] = (@ \ {op}) \cup {Found(op)}]
           /\ UNCHANGED <<pc, got, answer, orphans>>
  <2> DEFINE found == Found(op)
  <2>1. /\ found \in Ops /\ found.id = op.id
        /\ found.at \in DOMAIN rows /\ rows[found.at].id = op.id
    BY <1>2, <1>3, FoundIs DEF Found, Ops
  <2> HIDE DEF found
  <2>2. todo \in [Tasks -> SUBSET Ops] /\ (todo[t] \ {op}) \cup {found} \in SUBSET Ops
    BY <2>1 DEF TypesOK, Ops
  <2>3. todo' \in [Tasks -> SUBSET Ops] /\ todo'[t] = (todo[t] \ {op}) \cup {found}
        /\ \A u \in Tasks \ {t} : todo'[u] = todo[u]
    BY <1>3, <2>2 DEF found
  <2>4. Own(t) /\ pc'[t] = "rows"
    BY <1>1, <1>3, <2>3 DEF Own, TypesOK
  <2>5. CallOK(t)'
    <3>1. \A o \in todo'[t] : o.id \in ToSet(call[t].ids)
      BY <1>2, <2>1, <2>3 DEF CallOK
    <3>2. call[t].kind \in Changes => \A o, p \in todo'[t] : o = p
      BY <1>2, <2>3 DEF CallOK
    <3> QED BY <1>1, <1>2, <1>3, <2>4, <3>1, <3>2 DEF CallOK, Sheets
  <2>6. TypesOK' /\ RowsOnce'
    BY <1>1, <1>2, <1>3, <2>4, <2>5, SameRows, StepTypes, StepOnce
  <2>7. ASSUME Solo(t) PROVE orphans' = {} /\ Finds(t)' /\ Told(t)'
    <3>1. Len(call[t].ids) = 1 => call[t].before = ToSet(rows) /\ todo'[t] = {found}
      BY <1>1, <2>3, <2>7 DEF Solo, Finds
    <3>2. Finds(t)'
      BY <1>1, <2>1, <2>4, <3>1 DEF Finds
    <3>3. Told(t)'
      BY <1>2, <1>3 DEF Told
    <3> QED BY <1>3, <2>7, <3>2, <3>3 DEF Solo
  <2> QED BY <1>1, <2>4, <2>6, <2>7, RowsStay, StepSolos DEF Kept
<1>4. CASE /\ header /\ op.id \notin IdsOf(rows) /\ call[t].kind = "update"
           /\ Done(t, op) /\ UNCHANGED orphans
  <2>1. Len(call[t].ids) = 1
    BY <1>2, <1>4 DEF CallOK, Changes
  <2>2. todo[t] = {op} /\ op.id = call[t].ids[1]
    BY <1>1, <1>4, <2>1, OneOfRow
  <2>3. Own(t) /\ Answered(t, "ok")
    BY <1>1, <1>4, <2>2, DoneIs
  <2>4. TypesOK' /\ RowsOnce'
    BY <1>1, <1>2, <1>4, <2>3, SameRows, StepTypes, StepOnce DEF Answered
  <2>5. ASSUME Solo(t) PROVE orphans' = {} /\ Finds(t)' /\ Told(t)'
    <3>1. Finds(t)'
      BY <2>3 DEF Finds, Answered
    <3>2. call[t].before = ToSet(rows)
      BY <1>1, <2>1, <2>5 DEF Solo, Finds
    <3>3. call[t].ids[1] \notin {r.id : r \in call[t].before}
      BY <1>4, <2>2, <3>2 DEF ToSet, IdsOf
    <3>4. Limited(t)'
      BY <1>1, <1>2, <1>4, <3>3 DEF Limited, Sheets
    <3> QED BY <1>4, <2>5, <3>1, <3>4 DEF Solo, Told
  <2> QED BY <1>1, <2>3, <2>4, <2>5, RowsStay, StepSolos DEF Kept
<1>5. CASE Reject(t, op)
  BY <1>1, <1>2, <1>5, RejectIs
<1> QED BY <1>3, <1>4, <1>5 DEF FindRow

(* Of one row of an id at most, none is left when it is deleted. *)
LEMMA OneOfId ==
    ASSUME NEW S, NEW s \in Seq(S), NEW id, NEW x \in ToSet(s), NEW y \in ToSet(s),
           x.id = id, y.id = id, ~ (Cardinality({r \in ToSet(s) : r.id = id}) > 1)
    PROVE  x = y
<1> DEFINE I == {r \in ToSet(s) : r.id = id}
<1>1. IsFiniteSet(ToSet(s))
  BY ListIsFinite
<1>2. IsFiniteSet(I) /\ Cardinality(I) \in Nat
  BY <1>1, FS_Subset, FS_CardinalityType
<1>3. x \in I /\ y \in I /\ ~ (Cardinality(I) > 1)
  OBVIOUS
<1> HIDE DEF I
<1>4. Cardinality(I) # 0
  BY <1>2, <1>3, FS_EmptySet
<1>5. Cardinality(I) = 1
  BY <1>2, <1>3, <1>4
<1>6. \E z : I = {z}
  BY <1>2, <1>5, FS_Singleton
<1> QED BY <1>3, <1>6

LEMMA DeleteRowOK ==
    ASSUME TypesOK, RowsOnce, SolosOK, NEW t \in Tasks, NEW op \in todo[t], DeleteRow(t, op)
    PROVE  Kept
<1>1. /\ t \in Busy /\ pc[t] = "rows" /\ op.at > 0 /\ call[t].kind = "delete"
      /\ rows' = WithoutRow(op.at) /\ Done(t, op)
      /\ UNCHANGED <<service, header, call, orphans, shared, skipped, calls>>
  BY DEF DeleteRow, Busy
<1>2. /\ CallOK(t) /\ Sheets /\ answer[t] = "none" /\ rows \in Seq(Rows)
      /\ orphans \subseteq Ops /\ header \in BOOLEAN /\ skipped \in BOOLEAN
      /\ call[t].ids \in Seq(Ids)
  BY <1>1, BusyOK DEF CallOK, TypesOK, Ops
<1>3. /\ rows' \in Seq(Rows)
      /\ ToSet(rows') \subseteq ToSet(rows)
      /\ Once(rows') /\ OfKept(t)
      /\ \A r \in ToSet(rows) : r \in ToSet(rows') \/ (op.at \in DOMAIN rows /\ r = rows[op.at])
      /\ op.at \in DOMAIN rows /\ rows[op.at].id # "blank" =>
            ToSet(rows') = ToSet(rows) \ {rows[op.at]}
  BY <1>1, <1>2, RemovedRow
<1>4. /\ Own(t)
      /\ \/ todo[t] = {op} /\ Answered(t, "ok")
         \/ /\ todo[t] # {op} /\ todo'[t] = todo[t] \ {op}
            /\ pc'[t] = pc[t] /\ answer'[t] = answer[t]
  BY <1>1, DoneIs
<1>5. pc'[t] # "idle" => CallOK(t)'
  <2>1. pc'[t] # "idle" => todo'[t] \subseteq todo[t] /\ pc'[t] = pc[t]
    BY <1>4 DEF Answered
  <2> QED BY <1>1, <1>2, <1>4, <2>1, FewerOps
<1>6. TypesOK'
  BY <1>1, <1>2, <1>3, <1>4, <1>5, StepTypes
<1>7. call[t].kind \notin Changes
  BY <1>1 DEF Changes
<1>8. RowsOnce'
  BY <1>1, <1>3, <1>4, <1>7, StepOnce
<1>9. ASSUME Solo(t), Len(call[t].ids) = 1
      PROVE  /\ call[t].before = ToSet(rows) /\ todo[t] = {op}
             /\ op.at \in DOMAIN rows /\ rows[op.at].id = op.id
             /\ op.id = call[t].ids[1] /\ op.id \in ToSet(call[t].ids)
  <2>1. /\ call[t].before = ToSet(rows)
        /\ op.at \in DOMAIN rows /\ rows[op.at].id = op.id
    BY <1>1, <1>9 DEF Solo, Finds
  <2> QED BY <1>1, <1>9, <2>1, OneOfRow
<1>10. Len(call[t].ids) > 1 \/ Len(call[t].ids) = 1
  <2>1. Len(call[t].ids) >= 1 /\ Len(call[t].ids) \in Nat
    BY <1>1, <1>2 DEF CallOK
  <2>2. \A n \in Nat : n >= 1 => n > 1 \/ n = 1
    OBVIOUS
  <2> QED BY <2>1, <2>2
<1>11. ASSUME Solo(t) PROVE orphans' = {} /\ Finds(t)' /\ Told(t)'
  <2>1. Finds(t)'
    <3>1. CASE Answered(t, "ok")
      BY <3>1 DEF Finds, Answered
    <3>2. CASE todo[t] # {op} /\ pc'[t] = pc[t]
      <4>1. Len(call[t].ids) # 1
        BY <1>9, <1>11, <3>2
      <4> QED BY <1>1, <3>2, <4>1 DEF Finds
    <3> QED BY <1>4, <3>1, <3>2
  <2>2. Told(t)'
    <3> SUFFICES ASSUME answer'[t] = "ok", ~ Limited(t)'
                 PROVE  IdsOf(rows') \cap ToSet(call[t].ids) = {}
      BY <1>1 DEF Told
    <3>1. /\ ~ (Len(call[t].ids) > 1)
          /\ ~ (Cardinality({r \in call[t].before : r.id = call[t].ids[1]}) > 1)
      BY <1>1, <1>2 DEF Limited, Sheets
    <3>2. Len(call[t].ids) = 1
      BY <1>10, <3>1
    <3>3. /\ call[t].before = ToSet(rows)
          /\ op.at \in DOMAIN rows /\ rows[op.at].id = op.id /\ op.id = call[t].ids[1]
      BY <1>9, <1>11, <3>2
    <3>4. op.id \in Ids /\ rows[op.at] \in ToSet(rows)
      BY <1>2, <3>2, <3>3 DEF ToSet
    <3>5. ToSet(rows') = ToSet(rows) \ {rows[op.at]}
      BY <1>3, <3>3, <3>4, IdsAssumption
    <3>6. ASSUME NEW r \in ToSet(rows') PROVE r.id # call[t].ids[1]
      <4>1. r \in ToSet(rows) /\ r # rows[op.at]
        BY <3>5
      <4> QED BY <1>2, <3>1, <3>3, <3>4, <4>1, OneOfId
    <3>7. \A id \in ToSet(call[t].ids) : id = call[t].ids[1]
      BY <1>2, <3>2 DEF ToSet
    <3> QED BY <3>6, <3>7 DEF IdsOf, ToSet
  <2> QED BY <1>1, <1>11, <2>1, <2>2 DEF Solo
<1>12. SolosOK'
  BY <1>1, <1>4, <1>11, StepSolos
<1>13. OnlyRowsAsked
  <2> SUFFICES ASSUME Clear, NEW r \in ToSet(rows), r \notin ToSet(rows') PROVE Asked(r.id)
    BY DEF OnlyRowsAsked
  <2>1. Solo(t) /\ ~ (Len(call[t].ids) > 1)
    <3>1. Solo(t) /\ Len(call[t].ids) <= 1
      BY <1>1, <1>2, ClearIsSolo
    <3>2. \A n \in Nat : n <= 1 => ~ (n > 1)
      OBVIOUS
    <3>3. Len(call[t].ids) \in Nat
      BY <1>2
    <3> QED BY <3>1, <3>2, <3>3
  <2>2. r = rows[op.at] /\ op.id \in ToSet(call[t].ids) /\ rows[op.at].id = op.id
    BY <1>3, <1>9, <1>10, <2>1
  <2> QED BY <1>1, <2>2, AskedFor
<1> QED BY <1>6, <1>8, <1>12, <1>13 DEF Kept

LEMMA SaveRowOK ==
    ASSUME TypesOK, RowsOnce, SolosOK, NEW t \in Tasks, NEW op \in todo[t], SaveRow(t, op)
    PROVE  Kept
<1>1. /\ t \in Busy /\ pc[t] = "rows" /\ op.at > 0 /\ call[t].kind = "update" /\ Done(t, op)
      /\ UNCHANGED <<service, header, call, orphans, shared, skipped, calls>>
  BY DEF SaveRow, Busy
<1>2. /\ CallOK(t) /\ Sheets /\ orphans \subseteq Ops /\ header \in BOOLEAN /\ skipped \in BOOLEAN
  BY <1>1, BusyOK DEF CallOK, TypesOK, Ops
<1>3. call[t].kind \in Changes /\ Len(call[t].ids) = 1
  BY <1>1, <1>2 DEF CallOK, Changes
<1>4. /\ op.at \in Nat /\ op.id \in ToSet(call[t].ids)
      /\ todo[t] = {op}
  BY <1>1, <1>3, OneOfRow DEF Ops
<1>5. /\ rows' \in Seq(Rows)
      /\ Once(rows') /\ OfKept(t)
      /\ Written(t) \in ToSet(rows')
      /\ \A r \in ToSet(rows) : r \in ToSet(rows') \/ (op.at \in DOMAIN rows /\ r = rows[op.at])
  <2>1. rows' = [n \in 1 .. (IF op.at > Len(rows) THEN op.at ELSE Len(rows)) |->
                   IF n = op.at THEN Written(t)
                   ELSE IF n \in DOMAIN rows THEN rows[n] ELSE [id |-> "blank", of |-> 0]]
    BY DEF SaveRow
  <2> QED BY <1>1, <1>2, <1>3, <1>4, <2>1, SavedRow
<1>6. Own(t) /\ Answered(t, "ok")
  BY <1>1, <1>4, DoneIs
<1>7. TypesOK' /\ RowsOnce'
  BY <1>1, <1>2, <1>5, <1>6, StepTypes, StepOnce DEF Answered
<1>8. ASSUME Solo(t) PROVE orphans' = {} /\ Finds(t)' /\ Told(t)'
  <2>1. Finds(t)'
    BY <1>6 DEF Finds, Answered
  <2>2. Told(t)'
    BY <1>1, <1>5, <1>6 DEF Told, Own, Written
  <2> QED BY <1>1, <1>8, <2>1, <2>2 DEF Solo
<1>9. OnlyRowsAsked
  <2> SUFFICES ASSUME Clear, NEW r \in ToSet(rows), r \notin ToSet(rows') PROVE Asked(r.id)
    BY DEF OnlyRowsAsked
  <2>1. Solo(t)
    BY <1>1, <1>2, ClearIsSolo
  <2>2. rows[op.at].id = op.id
    BY <1>1, <1>3, <2>1 DEF Solo, Finds
  <2>3. r = rows[op.at]
    BY <1>5
  <2> QED BY <1>1, <1>4, <2>2, <2>3, AskedFor
<1> QED BY <1>1, <1>6, <1>7, <1>8, <1>9, StepSolos DEF Kept

(* A step that is the truncation's of a sheet. *)
LEMMA TruncateIs ==
    ASSUME TypesOK, NEW t \in Busy, pc[t] \in {"headers", "clearing", "clearingAll", "header"}
    PROVE  /\ Sheets /\ call[t].kind = "truncate" /\ answer[t] = "none"
           /\ orphans \subseteq Ops /\ header \in BOOLEAN /\ skipped \in BOOLEAN
           /\ CallOK(t) /\ \A id : Asked(id)
<1>1. CallOK(t) /\ answer[t] = "none"
  BY BusyOK
<1>2. Sheets /\ call[t].kind = "truncate"
  BY <1>1 DEF CallOK
<1> QED BY <1>1, <1>2, AskedFor DEF TypesOK, Ops

LEMMA headersFromOK ==
    ASSUME TypesOK, RowsOnce, SolosOK, NEW t \in Tasks, headersFrom(t)
    PROVE  Kept
<1>1. /\ t \in Busy /\ pc[t] = "headers"
      /\ UNCHANGED <<service, rows, header, call, todo, got, orphans, answer, shared, calls>>
  BY DEF headersFrom, Busy
<1>2. /\ Sheets /\ call[t].kind = "truncate" /\ answer[t] = "none" /\ CallOK(t)
      /\ orphans \subseteq Ops /\ header \in BOOLEAN /\ skipped \in BOOLEAN
  BY <1>1, TruncateIs
<1>3. \/ header /\ pc' = [pc EXCEPT ![t] = "clearing"] /\ skipped' = skipped
      \/ /\ pc' = [pc EXCEPT ![t] = "clearingAll"]
         /\ (~ header /\ skipped' = skipped) \/ skipped'
  BY <1>2 DEF headersFrom
<1>4. pc \in [Tasks -> Steps]
  BY DEF TypesOK
<1>5. /\ pc' \in [Tasks -> Steps] /\ pc'[t] \in {"clearing", "clearingAll"}
      /\ \A u \in Tasks \ {t} : pc'[u] = pc[u]
      /\ pc'[t] = "clearingAll" => skipped' \/ ~ header
      /\ skipped' \in BOOLEAN
  <2>1. "clearing" \in Steps /\ "clearingAll" \in Steps
    BY DEF Steps
  <2>2. CASE header /\ pc' = [pc EXCEPT ![t] = "clearing"] /\ skipped' = skipped
    BY <1>2, <1>4, <2>1, <2>2
  <2>3. CASE /\ pc' = [pc EXCEPT ![t] = "clearingAll"]
             /\ (~ header /\ skipped' = skipped) \/ skipped'
    <3>1. skipped' \in BOOLEAN
      BY <1>2, <2>3 DEF headersFrom
    <3> QED BY <1>4, <2>1, <2>3, <3>1
  <2> QED BY <1>3, <2>2, <2>3
<1>6. Own(t)
  BY <1>1, <1>5 DEF Own, TypesOK, Ops
<1>7. CallOK(t)'
  BY <1>1, <1>2, <1>5, <1>6 DEF CallOK, Sheets
<1>8. TypesOK' /\ RowsOnce'
  BY <1>1, <1>2, <1>5, <1>6, <1>7, SameRows, StepTypes, StepOnce
<1>9. ASSUME Solo(t) PROVE orphans' = {} /\ Finds(t)' /\ Told(t)'
  <2>1. header = call[t].headed
    BY <1>1, <1>9 DEF Solo, Finds
  <2>2. Finds(t)'
    BY <1>1, <1>5, <2>1 DEF Finds
  <2>3. Told(t)'
    BY <1>1, <1>2 DEF Told
  <2> QED BY <1>1, <1>9, <2>2, <2>3 DEF Solo
<1> QED BY <1>1, <1>6, <1>8, <1>9, RowsStay, StepSolos DEF Kept

LEMMA ClearSheetOK ==
    ASSUME TypesOK, RowsOnce, SolosOK, NEW t \in Tasks, ClearSheet(t)
    PROVE  Kept
<1>1. /\ t \in Busy /\ pc[t] \in {"clearing", "clearingAll"} /\ rows' = <<>> /\ header' = FALSE
      /\ UNCHANGED <<service, call, orphans, shared, skipped, calls>>
  BY DEF ClearSheet, Busy
<1>2. /\ Sheets /\ call[t].kind = "truncate" /\ answer[t] = "none" /\ CallOK(t)
      /\ orphans \subseteq Ops /\ skipped \in BOOLEAN /\ \A id : Asked(id)
  BY <1>1, TruncateIs
<1>3. rows' \in Seq(Rows) /\ Once(rows') /\ OfKept(t) /\ OnlyRowsAsked
  BY <1>1, <1>2 DEF Once, OfKept, OnlyRowsAsked
<1>4. CASE pc[t] = "clearing"
  <2>1. pc' = [pc EXCEPT ![t] = "header"] /\ UNCHANGED <<todo, got, answer>>
    BY <1>4 DEF ClearSheet
  <2>2. pc' \in [Tasks -> Steps] /\ pc'[t] = "header" /\ \A u \in Tasks \ {t} : pc'[u] = pc[u]
    BY <2>1 DEF TypesOK, Steps
  <2>3. Own(t)
    BY <1>1, <2>1, <2>2 DEF Own, TypesOK, Ops
  <2>4. CallOK(t)'
    BY <1>1, <1>2, <2>1, <2>2 DEF CallOK, Sheets
  <2>5. call[t].kind \notin Changes
    BY <1>2 DEF Changes
  <2>6. TypesOK' /\ RowsOnce'
    BY <1>1, <1>2, <1>3, <2>3, <2>4, <2>5, StepTypes, StepOnce
  <2>7. ASSUME Solo(t) PROVE orphans' = {} /\ Finds(t)' /\ Told(t)'
    <3>1. Finds(t)'
      BY <1>1, <2>2 DEF Finds
    <3>2. Told(t)'
      BY <1>2, <2>1 DEF Told
    <3> QED BY <1>1, <2>7, <3>1, <3>2 DEF Solo
  <2> QED BY <1>1, <1>3, <2>3, <2>6, <2>7, StepSolos DEF Kept
<1>5. CASE pc[t] = "clearingAll"
  <2>1. Own(t) /\ Answered(t, "ok")
    BY <1>1, <1>5, AnswerIs DEF ClearSheet
  <2>2. TypesOK' /\ RowsOnce'
    BY <1>1, <1>2, <1>3, <2>1, StepTypes, StepOnce DEF Answered
  <2>3. ASSUME Solo(t) PROVE orphans' = {} /\ Finds(t)' /\ Told(t)'
    <3>1. skipped \/ ~ call[t].headed
      BY <1>5, <2>3 DEF Solo, Finds
    <3>2. Finds(t)'
      BY <2>1 DEF Finds, Answered
    <3>3. Told(t)'
      BY <1>1, <1>2, <3>1 DEF Told
    <3> QED BY <1>1, <2>3, <3>2, <3>3 DEF Solo
  <2> QED BY <1>1, <1>3, <2>1, <2>2, <2>3, StepSolos DEF Kept
<1> QED BY <1>1, <1>4, <1>5

LEMMA setHeaderRowOK ==
    ASSUME TypesOK, RowsOnce, SolosOK, NEW t \in Tasks, setHeaderRow(t)
    PROVE  Kept
<1>1. /\ t \in Busy /\ pc[t] = "header" /\ header' = TRUE
      /\ UNCHANGED <<service, rows, call, orphans, shared, skipped, calls>>
  BY DEF setHeaderRow, Busy
<1>2. /\ Sheets /\ call[t].kind = "truncate" /\ orphans \subseteq Ops /\ skipped \in BOOLEAN
  BY <1>1, TruncateIs
<1>3. Own(t) /\ Answered(t, "ok")
  BY <1>1, AnswerIs DEF setHeaderRow
<1>4. TypesOK' /\ RowsOnce'
  BY <1>1, <1>2, <1>3, SameRows, StepTypes, StepOnce DEF Answered
<1>5. ASSUME Solo(t) PROVE orphans' = {} /\ Finds(t)' /\ Told(t)'
  <2>1. rows = <<>>
    BY <1>1, <1>5 DEF Solo, Finds
  <2>2. Finds(t)' /\ Told(t)'
    BY <1>1, <1>2, <1>3, <2>1 DEF Finds, Told, Answered
  <2> QED BY <1>1, <1>5, <2>2 DEF Solo
<1> QED BY <1>1, <1>3, <1>4, <1>5, RowsStay, StepSolos DEF Kept

-----------------------------------------------------------------------------
(* The steps in a table of the other services *)
LEMMA TableSteps ==
    ASSUME TypesOK, NEW t \in Busy, ~ Sheets
    PROVE  /\ header = TRUE /\ orphans = {} /\ skipped \in BOOLEAN /\ rows \in Seq(Rows)
           /\ CallOK(t) /\ answer[t] = "none" /\ orphans \subseteq Ops
BY BusyOK DEF TypesOK

(* Rows of a table are not kept clear of each other by their numbers. *)
LEMMA TableAsked ==
    ASSUME ~ Sheets, NEW t \in Busy,
           \A r \in ToSet(rows) : \/ r \in ToSet(rows') \/ r.id \in ToSet(call[t].ids)
                                  \/ call[t].kind = "truncate"
    PROVE  OnlyRowsAsked
BY AskedFor DEF OnlyRowsAsked

LEMMA WriteOK ==
    ASSUME TypesOK, RowsOnce, SolosOK, NEW t \in Tasks, Write(t)
    PROVE  Kept
<1> DEFINE id == call[t].ids[1]
<1>1. /\ t \in Busy /\ pc[t] = "writing" /\ ~ Sheets /\ call[t].kind # "delete"
      /\ UNCHANGED <<service, header, call, orphans, shared, skipped, calls>>
  BY DEF Write, Busy, Sheets
<1>2. /\ header = TRUE /\ orphans = {} /\ skipped \in BOOLEAN /\ rows \in Seq(Rows)
      /\ CallOK(t) /\ answer[t] = "none" /\ orphans \subseteq Ops
  BY <1>1, TableSteps
<1>3. call[t].kind \in Changes
  BY <1>1, <1>2 DEF CallOK
<1>4. Len(call[t].ids) = 1 /\ call[t].ids \in Seq(Ids)
  BY <1>2, <1>3 DEF CallOK, TypesOK
<1>5. id \in ToSet(call[t].ids)
  BY <1>4 DEF ToSet
<1>6. CASE UNCHANGED rows /\ Answer(t, "error")
  <2>1. Own(t) /\ Answered(t, "error")
    BY <1>1, <1>6, AnswerIs
  <2>2. TypesOK' /\ RowsOnce'
    BY <1>1, <1>2, <1>6, <2>1, StepTypes, StepOnce DEF Answered
  <2> QED BY <1>1, <1>6, <2>1, <2>2, NotOk, RowsStay, StepSolos DEF Kept
<1>7. CASE rows' = Append(Without({id}), Written(t)) /\ Answer(t, "ok")
  <2> DEFINE others == Without({id})
  <2>1. others \in Seq(Rows) /\ ToSet(others) = {r \in ToSet(rows) : r.id \notin {id}}
    BY <1>2, WithoutKeeps
  <2>2. Written(t) \in Rows
    BY <1>1, <1>3, WrittenIs
  <2>3. rows' = Append(others, Written(t))
    BY <1>7
  <2> HIDE DEF others
  <2>4. rows' \in Seq(Rows) /\ ToSet(rows') = ToSet(others) \cup {Written(t)}
    BY <2>1, <2>2, <2>3, AppendKeeps
  <2>5. Own(t) /\ Answered(t, "ok")
    BY <1>1, <1>7, AnswerIs
  <2>6. TypesOK' /\ RowsOnce'
    BY <1>1, <1>2, <2>4, <2>5, StepTypes, StepOnce DEF Answered
  <2>7. ASSUME Solo(t) PROVE orphans' = {} /\ Finds(t)' /\ Told(t)'
    <3>1. Finds(t)'
      BY <2>5 DEF Finds, Answered
    <3>2. Written(t)' \in ToSet(rows')
      BY <1>1, <2>4 DEF Written
    <3>3. Told(t)'
      BY <1>1, <1>3, <3>2 DEF Told, Changes
    <3> QED BY <1>1, <1>2, <3>1, <3>3
  <2>8. OnlyRowsAsked
    BY <1>1, <1>5, <2>1, <2>4, TableAsked
  <2> QED BY <1>1, <2>5, <2>6, <2>7, <2>8, StepSolos DEF Kept
<1> QED BY <1>6, <1>7 DEF Write

(* Deletions take only rows of these ids, and all of them unless some are  *)
(* skipped.                                                                *)
LEMMA BatchIs ==
    ASSUME rows \in Seq(Rows), skipped \in BOOLEAN, NEW ids, DeleteBatch(ids)
    PROVE  /\ rows' \in Seq(Rows) /\ skipped' \in BOOLEAN
           /\ ToSet(rows') \subseteq ToSet(rows)
           /\ \A r \in ToSet(rows) : r \in ToSet(rows') \/ r.id \in ids
           /\ ~ skipped' => ~ skipped /\ \A r \in ToSet(rows') : r.id \notin ids
<1>1. CASE rows' = Without(ids) /\ UNCHANGED <<skipped, faults>>
  BY <1>1, WithoutKeeps
<1>2. CASE /\ \E left \in SUBSET (ids \cap IdsOf(rows)) : rows' = Without(ids \ left)
           /\ skipped' = TRUE
  <2>1. PICK left : rows' = Without(ids \ left)
    BY <1>2
  <2>2. rows' \in Seq(Rows) /\ ToSet(rows') = {r \in ToSet(rows) : r.id \notin ids \ left}
    BY <2>1, WithoutKeeps
  <2> QED BY <1>2, <2>2
<1> QED BY <1>1, <1>2 DEF DeleteBatch

LEMMA DeleteIdsOK ==
    ASSUME TypesOK, RowsOnce, SolosOK, NEW t \in Tasks, DeleteIds(t)
    PROVE  Kept
<1>1. /\ t \in Busy /\ pc[t] = "writing" /\ ~ Sheets /\ call[t].kind = "delete"
      /\ UNCHANGED <<service, header, call, orphans, shared, calls>>
  BY DEF DeleteIds, Busy, Sheets
<1>2. /\ header = TRUE /\ orphans = {} /\ skipped \in BOOLEAN /\ rows \in Seq(Rows)
      /\ CallOK(t) /\ answer[t] = "none" /\ orphans \subseteq Ops
  BY <1>1, TableSteps
<1>3. CASE Answer(t, "error") /\ UNCHANGED <<rows, skipped, faults>>
  <2>1. Own(t) /\ Answered(t, "error")
    BY <1>1, <1>3, AnswerIs
  <2>2. TypesOK' /\ RowsOnce'
    BY <1>1, <1>2, <1>3, <2>1, StepTypes, StepOnce DEF Answered
  <2> QED BY <1>1, <1>3, <2>1, <2>2, NotOk, RowsStay, StepSolos DEF Kept
<1>4. CASE DeleteBatch(ToSet(call[t].ids)) /\ Answer(t, "ok")
  <2>1. /\ rows' \in Seq(Rows) /\ skipped' \in BOOLEAN
        /\ \A r \in ToSet(rows) : r \in ToSet(rows') \/ r.id \in ToSet(call[t].ids)
        /\ ~ skipped' => \A r \in ToSet(rows') : r.id \notin ToSet(call[t].ids)
    BY <1>2, <1>4, BatchIs
  <2>2. Own(t) /\ Answered(t, "ok")
    BY <1>1, <1>4, AnswerIs
  <2>3. TypesOK' /\ RowsOnce'
    BY <1>1, <1>2, <2>1, <2>2, StepTypes, StepOnce DEF Answered
  <2>4. ASSUME Solo(t) PROVE orphans' = {} /\ Finds(t)' /\ Told(t)'
    <3>1. Finds(t)'
      BY <2>2 DEF Finds, Answered
    <3>2. ~ skipped' => IdsOf(rows') \cap ToSet(call[t].ids) = {}
      BY <2>1 DEF IdsOf, ToSet
    <3>3. Told(t)'
      BY <1>1, <3>2 DEF Told
    <3> QED BY <1>1, <1>2, <3>1, <3>3
  <2>5. OnlyRowsAsked
    BY <1>1, <2>1, TableAsked
  <2> QED BY <1>1, <2>2, <2>3, <2>4, <2>5, StepSolos DEF Kept
<1> QED BY <1>3, <1>4 DEF DeleteIds

(* A page of no more rows than it may have is of all the rows. *)
LEMMA PageIsAll ==
    ASSUME NEW S, rows \in Seq(S), NEW page \in Pages, Cardinality(ToSet(rows)) <= Page
    PROVE  page = IdsOf(rows)
<1>1. IsFiniteSet(ToSet(rows))
  BY ListIsFinite
<1>2. IsFiniteSet(IdsOf(rows)) /\ Cardinality(IdsOf(rows)) <= Cardinality(ToSet(rows))
  <2> DEFINE idOf == [r \in ToSet(rows) |-> r.id]
  <2>1. idOf \in [ToSet(rows) -> IdsOf(rows)]
    BY DEF ToSet, IdsOf
  <2>2. \A id \in IdsOf(rows) : \E r \in ToSet(rows) : idOf[r] = id
    BY DEF ToSet, IdsOf
  <2>3. idOf \in Surjection(ToSet(rows), IdsOf(rows))
    BY <2>1, <2>2, Fun_IsSurj
  <2> QED BY <1>1, <2>3, FS_Surjection
<1>3. page \in SUBSET IdsOf(rows)
      /\ Cardinality(page) = IF Cardinality(IdsOf(rows)) < Page THEN Cardinality(IdsOf(rows))
                                                                ELSE Page
  BY DEF Pages
<1>4. Cardinality(IdsOf(rows)) \in Nat /\ Cardinality(ToSet(rows)) \in Nat /\ Page \in Nat
  BY <1>1, <1>2, FS_CardinalityType, SizesAssumption
<1>5. \A m, n, k \in Nat : m <= n /\ n <= k => m = (IF m < k THEN m ELSE k)
  OBVIOUS
<1>6. Cardinality(page) = Cardinality(IdsOf(rows))
  BY <1>2, <1>3, <1>4, <1>5
<1> QED BY <1>2, <1>3, <1>6, FS_Subset

(* A step that is the truncation's of a table. *)
LEMMA PageSteps ==
    ASSUME TypesOK, NEW t \in Busy, pc[t] \in {"reading", "nextReading", "batch", "nextBatch"}
    PROVE  /\ ~ Sheets /\ call[t].kind = "truncate" /\ answer[t] = "none" /\ CallOK(t)
           /\ header = TRUE /\ orphans = {} /\ skipped \in BOOLEAN /\ rows \in Seq(Rows)
           /\ orphans \subseteq Ops
           /\ pc[t] \in {"nextReading", "nextBatch"} => service = "firestore"
<1>1. CallOK(t) /\ answer[t] = "none"
  BY BusyOK
<1>2. /\ ~ Sheets /\ call[t].kind = "truncate"
      /\ pc[t] \in {"nextReading", "nextBatch"} => service = "firestore"
  BY <1>1 DEF CallOK
<1> QED BY <1>1, <1>2, TableSteps

LEMMA ReadPageOK ==
    ASSUME TypesOK, RowsOnce, SolosOK, NEW t \in Tasks, ReadPage(t)
    PROVE  Kept
<1>1. /\ t \in Busy /\ pc[t] \in {"reading", "nextReading"}
      /\ UNCHANGED <<service, rows, header, call, orphans, shared, skipped, calls>>
  BY DEF ReadPage, Busy
<1>2. /\ ~ Sheets /\ call[t].kind = "truncate" /\ answer[t] = "none" /\ CallOK(t)
      /\ header = TRUE /\ orphans = {} /\ skipped \in BOOLEAN /\ rows \in Seq(Rows)
      /\ orphans \subseteq Ops
      /\ pc[t] \in {"nextReading", "nextBatch"} => service = "firestore"
  BY <1>1, PageSteps
<1>3. CASE rows = <<>> /\ Answer(t, "ok")
  <2>1. Own(t) /\ Answered(t, "ok")
    BY <1>1, <1>3, AnswerIs
  <2>2. TypesOK' /\ RowsOnce'
    BY <1>1, <1>2, <2>1, StepTypes, StepOnce DEF Answered
  <2>3. Finds(t)' /\ Told(t)'
    BY <1>1, <1>2, <1>3, <2>1 DEF Finds, Told, Answered
  <2> QED BY <1>1, <1>2, <2>1, <2>2, <2>3, RowsStay, StepSolos DEF Kept
<1>4. CASE /\ \E page \in Pages : got' = [got EXCEPT ![t] = page]
           /\ pc' = [pc EXCEPT ![t] = IF @ = "reading" THEN "batch" ELSE "nextBatch"]
           /\ UNCHANGED <<todo, answer>>
  <2>1. PICK page \in Pages : got' = [got EXCEPT ![t] = page]
    BY <1>4
  <2>2. /\ pc' \in [Tasks -> Steps]
        /\ pc'[t] = IF pc[t] = "reading" THEN "batch" ELSE "nextBatch"
        /\ \A u \in Tasks \ {t} : pc'[u] = pc[u]
    BY <1>4 DEF TypesOK, Steps
  <2>3. Own(t) /\ got'[t] = page
    BY <1>1, <1>4, <2>1, <2>2 DEF Own, TypesOK, Ops
  <2>4. CallOK(t)'
    BY <1>1, <1>2, <1>4, <2>2 DEF CallOK, Sheets
  <2>5. TypesOK' /\ RowsOnce'
    BY <1>1, <1>2, <2>3, <2>4, StepTypes, StepOnce
  <2>6. ASSUME Solo(t) PROVE orphans' = {} /\ Finds(t)' /\ Told(t)'
    <3>1. pc[t] = "reading" => call[t].before = ToSet(rows)
      BY <2>6 DEF Solo, Finds
    <3>2. pc'[t] = "batch" /\ Cardinality(call[t].before) <= Page =>
             page = IdsOf(rows) /\ call[t].before = ToSet(rows)
      BY <1>2, <2>2, <3>1, PageIsAll
    <3>3. pc'[t] = "batch" => call[t].before = ToSet(rows)
      BY <2>2, <3>1
    <3>4. Finds(t)'
      BY <1>1, <2>2, <2>3, <3>2, <3>3 DEF Finds
    <3>5. Told(t)'
      BY <1>2, <1>4 DEF Told
    <3> QED BY <1>1, <1>2, <3>4, <3>5
  <2> QED BY <1>1, <2>3, <2>5, <2>6, RowsStay, StepSolos DEF Kept
<1> QED BY <1>3, <1>4 DEF ReadPage

LEMMA DeletePageOK ==
    ASSUME TypesOK, RowsOnce, SolosOK, NEW t \in Tasks, DeletePage(t)
    PROVE  Kept
<1>1. /\ t \in Busy /\ pc[t] \in {"batch", "nextBatch"}
      /\ UNCHANGED <<service, header, call, orphans, shared, calls>>
  BY DEF DeletePage, Busy
<1>2. /\ ~ Sheets /\ call[t].kind = "truncate" /\ answer[t] = "none" /\ CallOK(t)
      /\ header = TRUE /\ orphans = {} /\ skipped \in BOOLEAN /\ rows \in Seq(Rows)
      /\ orphans \subseteq Ops
      /\ pc[t] \in {"nextReading", "nextBatch"} => service = "firestore"
  BY <1>1, PageSteps
<1>3. CASE Answer(t, "error") /\ UNCHANGED <<rows, skipped, faults>>
  <2>1. Own(t) /\ Answered(t, "error")
    BY <1>1, <1>3, AnswerIs
  <2>2. TypesOK' /\ RowsOnce'
    BY <1>1, <1>2, <1>3, <2>1, StepTypes, StepOnce DEF Answered
  <2> QED BY <1>1, <1>3, <2>1, <2>2, NotOk, RowsStay, StepSolos DEF Kept
<1>4. ASSUME DeleteBatch(got[t]),
             \/ /\ service = "firestore"
                /\ pc' = [pc EXCEPT ![t] = "nextReading"] /\ UNCHANGED <<todo, got, answer>>
             \/ service # "firestore" /\ Answer(t, "ok")
      PROVE  Kept
  <2>1. /\ rows' \in Seq(Rows) /\ skipped' \in BOOLEAN
        /\ ToSet(rows') \subseteq ToSet(rows)
        /\ ~ skipped' => \A r \in ToSet(rows') : r.id \notin got[t]
    BY <1>2, <1>4, BatchIs
  <2>2. OnlyRowsAsked
    BY <1>1, <1>2, TableAsked
  <2>3. CASE /\ service = "firestore"
             /\ pc' = [pc EXCEPT ![t] = "nextReading"] /\ UNCHANGED <<todo, got, answer>>
    <3>1. /\ pc' \in [Tasks -> Steps] /\ pc'[t] = "nextReading"
          /\ \A u \in Tasks \ {t} : pc'[u] = pc[u]
      BY <2>3 DEF TypesOK, Steps
    <3>2. Own(t)
      BY <1>1, <2>3, <3>1 DEF Own, TypesOK, Ops
    <3>3. CallOK(t)'
      BY <1>1, <1>2, <2>3, <3>1 DEF CallOK, Sheets
    <3>4. TypesOK' /\ RowsOnce'
      BY <1>1, <1>2, <2>1, <3>2, <3>3, StepTypes, StepOnce
    <3>5. Finds(t)' /\ Told(t)'
      BY <1>2, <2>3, <3>1 DEF Finds, Told
    <3> QED BY <1>1, <1>2, <2>2, <3>2, <3>4, <3>5, StepSolos DEF Kept
  <2>4. CASE service # "firestore" /\ Answer(t, "ok")
    <3>1. Own(t) /\ Answered(t, "ok")
      BY <1>1, <2>4, AnswerIs
    <3>2. TypesOK' /\ RowsOnce'
      BY <1>1, <1>2, <2>1, <3>1, StepTypes, StepOnce DEF Answered
    <3>3. ASSUME Solo(t) PROVE Finds(t)' /\ Told(t)'
      <4>1. Finds(t)'
        BY <3>1 DEF Finds, Answered
      <4>2. ASSUME ~ skipped', ~ Limited(t)' PROVE rows' = <<>>
        <5>1. ~ (Cardinality(call[t].before) > Page)
          <6>1. service \in {"spanner", "dynamodb"}
            BY <1>2, <2>4 DEF TypesOK, Sheets
          <6> QED BY <1>1, <1>2, <4>2, <6>1 DEF Limited
        <5>2. got[t] = IdsOf(rows)
          <6>1. pc[t] = "batch"
            BY <1>1, <1>2, <2>4
          <6>2. call[t].before = ToSet(rows)
            BY <3>3, <6>1 DEF Solo, Finds
          <6>3. Cardinality(call[t].before) \in Nat /\ Page \in Nat
            BY <1>2, <6>2, ListIsFinite, SizesAssumption
          <6>4. Cardinality(call[t].before) <= Page
            BY <5>1, <6>3
          <6> QED BY <2>4, <3>3, <6>1, <6>4 DEF Solo, Finds
        <5>3. \A r \in ToSet(rows) : r.id \in got[t]
          BY <5>2 DEF IdsOf, ToSet
        <5>4. \A r : r \notin ToSet(rows')
          BY <2>1, <4>2, <5>3
        <5>5. DOMAIN rows' = {}
          BY <5>4 DEF ToSet
        <5> QED BY <2>1, <5>5
      <4>3. Told(t)'
        BY <1>1, <1>2, <4>2 DEF Told
      <4> QED BY <4>1, <4>3
    <3> QED BY <1>1, <1>2, <2>2, <3>1, <3>2, <3>3, StepSolos DEF Kept
  <2> QED BY <1>4, <2>3, <2>4
<1> QED BY <1>3, <1>4 DEF DeletePage

-----------------------------------------------------------------------------
(* Failures, and what outlives its call *)
LEMMA FailOK ==
    ASSUME TypesOK, RowsOnce, SolosOK, NEW t \in Tasks, Fail(t)
    PROVE  Kept
<1>1. /\ t \in Busy
      /\ UNCHANGED <<service, rows, header, call, shared, skipped, calls>>
  BY DEF Fail, Busy
<1>2. /\ CallOK(t) /\ orphans \subseteq Ops /\ header \in BOOLEAN /\ skipped \in BOOLEAN
      /\ ~ Sheets => header /\ orphans = {}
  BY <1>1, BusyOK DEF TypesOK, Ops
<1>3. CASE pc[t] = "rows"
  <2>1. PICK op \in todo[t] : Reject(t, op)
    BY <1>3 DEF Fail
  <2>2. Sheets
    BY <1>2, <1>3 DEF CallOK
  <2> QED BY <1>1, <1>2, <2>1, <2>2, RejectIs
<1>4. CASE Answer(t, "error") /\ UNCHANGED orphans
  <2>1. Own(t) /\ Answered(t, "error")
    BY <1>1, <1>4, AnswerIs
  <2>2. TypesOK' /\ RowsOnce'
    BY <1>1, <1>2, <1>4, <2>1, SameRows, StepTypes, StepOnce DEF Answered
  <2> QED BY <1>1, <2>1, <2>2, NotOk, RowsStay, StepSolos DEF Kept
<1> QED BY <1>3, <1>4 DEF Fail

LEMMA ProcessEndsOK ==
    ASSUME TypesOK, RowsOnce, SolosOK, NEW t \in Tasks, ProcessEnds(t)
    PROVE  Kept
<1>1. /\ pc' = [u \in Tasks |-> "idle"] /\ todo' = [u \in Tasks |-> {}]
      /\ got' = [u \in Tasks |-> {}] /\ answer' = [u \in Tasks |-> "none"] /\ orphans' = {}
      /\ UNCHANGED <<service, rows, header, call, shared, skipped, calls>>
  BY DEF ProcessEnds
<1>2. "idle" \in Steps /\ Busy' = {}
  BY <1>1 DEF Steps, Busy
<1>3. pc' \in [Tasks -> Steps] /\ todo' \in [Tasks -> SUBSET [id : Ids, at : Nat]]
  BY <1>1, <1>2
<1>4. TypesOK'
  BY <1>1, <1>2, <1>3 DEF TypesOK, Sheets, Rows
<1>5. RowsOnce'
  BY <1>1, <1>2 DEF RowsOnce, Sheets
<1>6. SolosOK'
  BY <1>1 DEF SolosOK, Alone
<1> QED BY <1>1, <1>4, <1>5, <1>6, RowsStay DEF Kept

LEMMA OrphanGoesOnOK ==
    ASSUME TypesOK, RowsOnce, SolosOK, NEW op \in orphans, OrphanGoesOn(op)
    PROVE  Kept
<1>1. UNCHANGED <<service, header, pc, call, todo, got, answer, shared, skipped, calls>>
  BY DEF OrphanGoesOn
<1>2. Sheets /\ orphans \subseteq Ops /\ op \in Ops /\ rows \in Seq(Rows) /\ Once(rows)
  BY DEF TypesOK, RowsOnce, Once, Ops
<1>3. /\ rows' \in Seq(Rows) /\ Once(rows') /\ ToSet(rows') \subseteq ToSet(rows)
      /\ orphans' \subseteq Ops
  <2>1. CASE op.at = 0
    <3>1. rows' = rows /\ orphans' \subseteq orphans \cup
                             (IF op.id \in IdsOf(rows) THEN {Found(op)} ELSE {})
      BY <2>1 DEF OrphanGoesOn
    <3>2. op.id \in IdsOf(rows) => Found(op) \in Ops
      BY <1>2, FoundIs DEF Found, Ops
    <3> QED BY <1>2, <3>1, <3>2
  <2>2. CASE op.at # 0
    <3>1. rows' = WithoutRow(op.at) /\ orphans' \subseteq orphans
      BY <2>2 DEF OrphanGoesOn
    <3> QED BY <1>2, <3>1, RemovedRow
  <2> QED BY <2>1, <2>2
<1>4. TypesOK'
  <2>1. \A u \in Busy' : CallOK(u)'
    BY <1>1 DEF TypesOK, Busy, CallOK, Sheets
  <2>2. rows' \in Seq(Rows')
    BY <1>1, <1>3 DEF Rows
  <2> QED BY <1>1, <1>2, <1>3, <2>1, <2>2 DEF TypesOK, Busy, Sheets, Ops
<1>5. RowsOnce'
  <2>1. \A i \in DOMAIN rows' : \E j \in DOMAIN rows : rows[j] = rows'[i]
    BY <1>3 DEF ToSet
  <2>2. Busy' = Busy /\ call' = call
    BY <1>1 DEF Busy
  <2> QED BY <1>2, <1>3, <2>1, <2>2 DEF RowsOnce, Once
<1>6. \A u \in Tasks : ~ Alone(u)'
  <2>1. \A u \in Tasks : ~ Alone(u)
    BY DEF SolosOK, Solo
  <2> QED BY <1>1, <2>1 DEF Alone
<1>7. SolosOK'
  BY <1>6 DEF SolosOK
<1>8. OnlyRowsAsked
  BY <1>2 DEF OnlyRowsAsked, Clear, Sheets
<1> QED BY <1>4, <1>5, <1>7, <1>8 DEF Kept

-----------------------------------------------------------------------------
(* A call begins *)
Fits(kind, ids, step, ops) ==
    /\ kind \in Changes \cup {"delete", "truncate"}
    /\ ids \in Seq(Ids)
    /\ kind \in Changes => Len(ids) = 1
    /\ kind = "delete"  => Len(ids) >= 1
    /\ step \in {"writing", "rows", "headers", "reading"}
    /\ step = "writing" => kind \in (IF Sheets THEN {"insert", "upsert"}
                                     ELSE Changes \cup {"delete"})
    /\ step = "rows"    => Sheets /\ kind \in {"update", "delete"}
    /\ step = "headers" => Sheets /\ kind = "truncate"
    /\ step = "reading" => ~ Sheets /\ kind = "truncate"
    /\ \A op \in ops : op \in Ops /\ op.id \in ToSet(ids) /\ op.at = 0
    /\ kind \in Changes => \A o, p \in ops : o = p
    /\ step = "rows" /\ Len(ids) = 1 => \E o : ops = {o}

LEMMA BeginOK ==
    ASSUME TypesOK, RowsOnce, SolosOK, NEW t \in Tasks, NEW kind, NEW ids, NEW step, NEW ops,
           Begin(t, kind, ids, step, ops), Fits(kind, ids, step, ops)
    PROVE  Kept
<1>1. /\ pc[t] = "idle" /\ calls' = calls + 1
      /\ pc' = [pc EXCEPT ![t] = step] /\ todo' = [todo EXCEPT ![t] = ops]
      /\ answer' = [u \in Tasks |-> "none"]
      /\ UNCHANGED <<service, rows, header, got, orphans, skipped>>
  BY DEF Begin
<1>2. /\ calls \in Nat /\ pc \in [Tasks -> Steps] /\ todo \in [Tasks -> SUBSET Ops]
      /\ DOMAIN call = Tasks
      /\ \A u \in Tasks : call[u].ids \in Seq(Ids) /\ call[u].headed \in BOOLEAN
      /\ header \in BOOLEAN
  BY DEF TypesOK, Ops
<1>3. /\ DOMAIN call' = Tasks
      /\ call'[t].kind = kind /\ call'[t].ids = ids /\ call'[t].of = calls + 1
      /\ call'[t].before = ToSet(rows) /\ call'[t].headed = header
      /\ \A u \in Tasks : u # t => call'[u] = IF u \in Busy THEN call[u] ELSE NoCall
  BY DEF Begin
<1>4. step \in Steps /\ step # "idle" /\ ops \in SUBSET Ops
  BY DEF Fits, Steps
<1>5. /\ pc' \in [Tasks -> Steps] /\ pc'[t] = step
      /\ \A u \in Tasks : u # t => pc'[u] = pc[u]
      /\ todo' \in [Tasks -> SUBSET Ops] /\ todo'[t] = ops
      /\ \A u \in Tasks : u # t => todo'[u] = todo[u]
  BY <1>1, <1>2, <1>4
<1>6. \A u \in Tasks : call'[u].ids \in Seq(Ids) /\ call'[u].headed \in BOOLEAN
  <2> TAKE u \in Tasks
  <2>1. CASE u = t
    BY <1>2, <1>3, <2>1 DEF Fits
  <2>2. CASE u # t
    <3>1. NoCall.ids \in Seq(Ids) /\ NoCall.headed \in BOOLEAN
      BY DEF NoCall
    <3> QED BY <1>2, <1>3, <2>2, <3>1
  <2> QED BY <2>1, <2>2
<1>7. ASSUME NEW u \in Tasks, pc'[u] # "idle" PROVE CallOK(u)'
  <2>1. CASE u = t
    <3>1. calls + 1 \in 1 .. calls'
      BY <1>1, <1>2
    <3> QED BY <1>1, <1>3, <1>5, <2>1, <3>1 DEF Fits, CallOK, Sheets
  <2>2. CASE u # t
    <3>1. u \in Busy /\ pc'[u] = pc[u] /\ todo'[u] = todo[u]
      BY <1>5, <1>7, <2>2 DEF Busy
    <3>2. CallOK(u) /\ call'[u] = call[u]
      BY <1>3, <2>2, <3>1, BusyOK
    <3>3. call[u].of \in 1 .. calls'
      BY <1>1, <1>2, <3>2 DEF CallOK
    <3> QED BY <1>1, <3>1, <3>2, <3>3 DEF CallOK, Sheets
  <2> QED BY <2>1, <2>2
<1>8. rows' \in Seq(Rows')
  <2>1. \A r \in Rows : r \in Rows'
    BY <1>1, <1>2 DEF Rows
  <2>2. rows \in Seq(Rows)
    BY DEF TypesOK
  <2>3. rows' = rows
    BY <1>1
  <2> DEFINE R == Rows
             R2 == Rows'
  <2>4. \A r \in R : r \in R2
    BY <2>1
  <2>5. rows \in Seq(R)
    BY <2>2
  <2> HIDE DEF R, R2
  <2>6. rows \in Seq(R2)
    BY <2>4, <2>5
  <2> QED BY <2>3, <2>6 DEF R2
<1>9. TypesOK'
  <2>1. \A u \in Tasks : answer'[u] = "none"
    BY <1>1
  <2>2. DOMAIN answer' = Tasks /\ calls' \in Nat
    BY <1>1, <1>2
  <2> QED BY <1>1, <1>3, <1>5, <1>6, <1>7, <1>8, <2>1, <2>2 DEF TypesOK, Busy, Sheets, Ops
<1>10. RowsOnce'
  <2> SUFFICES ASSUME Sheets PROVE RowsOnce'
    BY <1>1 DEF RowsOnce, Sheets
  <2>1. \A i \in DOMAIN rows : rows[i].of # calls + 1
    <3> TAKE i \in DOMAIN rows
    <3>1. rows[i] \in Rows
      BY DEF TypesOK
    <3>2. rows[i].of \in 0 .. calls
      BY <3>1 DEF Rows
    <3> QED BY <1>2, <3>2
  <2>2. \A u \in Busy : call[u].of # calls + 1
    <3> TAKE u \in Busy
    <3>1. call[u].of \in 1 .. calls
      BY BusyOK DEF CallOK
    <3> QED BY <1>2, <3>1
  <2>3. \A u \in Busy' : u = t \/ (u \in Busy /\ call'[u] = call[u])
    BY <1>3, <1>5 DEF Busy
  <2>4. \A i, j \in DOMAIN rows : rows[i] = rows[j] /\ rows[i].id # "blank" => i = j
    BY DEF RowsOnce
  <2>5. ASSUME NEW u \in Busy', call'[u].kind \in Changes
        PROVE  /\ \A i \in DOMAIN rows : rows[i].of # call'[u].of
               /\ \A v \in Busy' : call'[v].of = call'[u].of => v = u
    <3>1. CASE u = t
      BY <1>3, <2>1, <2>2, <2>3, <3>1
    <3>2. CASE u # t
      <4>1. u \in Busy /\ call'[u] = call[u]
        BY <2>3, <3>2
      <4>2. /\ \A i \in DOMAIN rows : rows[i].of # call[u].of
            /\ \A v \in Busy : call[v].of = call[u].of => v = u
        BY <2>5, <4>1 DEF RowsOnce
      <4> QED BY <1>3, <2>2, <2>3, <4>1, <4>2
    <3> QED BY <3>1, <3>2
  <2> QED BY <1>1, <2>4, <2>5 DEF RowsOnce, Sheets
<1>11. ASSUME NEW u \in Tasks, Alone(u)' PROVE Solo(u)'
  <2>1. u \notin shared' /\ pc'[u] # "idle" /\ answer'[u] = "none"
    BY <1>1, <1>11 DEF Alone
  <2>2. u = t \/ u \in Busy
    BY <1>5, <2>1 DEF Busy
  <2>3. Busy = {} /\ orphans = {}
    BY <2>1, <2>2 DEF Begin
  <2>4. u = t /\ \A v \in Tasks : v # t => pc'[v] = "idle"
    BY <1>5, <2>2, <2>3 DEF Busy
  <2>5. Finds(t)'
    <3>1. pc'[t] = "rows" /\ Len(call'[t].ids) = 1 =>
             /\ call'[t].before = ToSet(rows')
             /\ \E o : todo'[t] = {o}
             /\ \A op \in todo'[t] : ~ (op.at > 0)
      <4>1. \A op \in ops : ~ (op.at > 0)
        <5>1. \A op \in ops : op.at = 0
          BY DEF Fits
        <5> QED BY <5>1
      <4>2. step = "rows" /\ Len(ids) = 1 => \E o : ops = {o}
        BY DEF Fits
      <4>3. call'[t].before = ToSet(rows')
        BY <1>1, <1>3
      <4>4. pc'[t] = step /\ call'[t].ids = ids /\ todo'[t] = ops
        BY <1>3, <1>5
      <4> QED BY <4>1, <4>2, <4>3, <4>4
    <3>2. pc'[t] \in {"writing", "rows", "headers", "reading"}
      BY <1>5 DEF Fits
    <3>3. call'[t].before = ToSet(rows') /\ header' = call'[t].headed
      BY <1>1, <1>3
    <3> QED BY <3>1, <3>2, <3>3 DEF Finds
  <2>6. Told(t)'
    BY <2>1, <2>4 DEF Told
  <2> QED BY <1>1, <2>3, <2>4, <2>5, <2>6 DEF Solo
<1>12. SolosOK'
  BY <1>11 DEF SolosOK
<1> QED BY <1>1, <1>9, <1>10, <1>12, RowsStay DEF Kept

LEMMA UnreadIs ==
    ASSUME NEW ids \in Seq(Ids), NEW m \in 1 .. Len(ids)
    PROVE  /\ \A op \in Unread(SubSeq(ids, 1, m)) : op \in Ops /\ op.id \in ToSet(ids) /\ op.at = 0
           /\ m = 1 => Unread(SubSeq(ids, 1, m)) = {[id |-> ids[1], at |-> 0]}
<1> DEFINE s == SubSeq(ids, 1, m)
<1>1. DOMAIN s = 1 .. m /\ \A i \in 1 .. m : s[i] = ids[i] /\ i \in DOMAIN ids /\ ids[i] \in Ids
  OBVIOUS
<1> HIDE DEF s
<1>2. ASSUME NEW op \in Unread(s) PROVE op \in Ops /\ op.id \in ToSet(ids) /\ op.at = 0
  <2>1. PICK i \in DOMAIN s : op = [id |-> s[i], at |-> 0]
    BY DEF Unread
  <2>2. op = [id |-> ids[i], at |-> 0] /\ ids[i] \in Ids /\ i \in DOMAIN ids
    BY <1>1, <2>1
  <2> QED BY <2>2 DEF Ops, ToSet
<1>3. ASSUME m = 1 PROVE Unread(s) = {[id |-> ids[1], at |-> 0]}
  <2>1. DOMAIN s = {1} /\ s[1] = ids[1]
    BY <1>1, <1>3
  <2> QED BY <2>1 DEF Unread
<1> QED BY <1>2, <1>3 DEF s

LEMMA OneIs ==
    ASSUME NEW id \in Ids
    PROVE  <<id>> \in Seq(Ids) /\ Len(<<id>>) = 1 /\ ToSet(<<id>>) = {id}
           /\ Unread(<<id>>) = {[id |-> id, at |-> 0]} /\ [id |-> id, at |-> 0] \in Ops
<1>1. <<id>> \in Seq(Ids) /\ Len(<<id>>) = 1 /\ DOMAIN <<id>> = {1} /\ <<id>>[1] = id
  OBVIOUS
<1> QED BY <1>1 DEF ToSet, Unread, Ops

LEMMA StartsOK ==
    ASSUME TypesOK, RowsOnce, SolosOK, NEW t \in Tasks,
           \/ \E id \in Ids : InsertStart(t, id) \/ UpsertStart(t, id) \/ UpdateStart(t, id)
           \/ \E ids \in Deletions : DeleteStart(t, ids)
           \/ TruncateStart(t)
    PROVE  Kept
<1>1. ASSUME NEW id \in Ids, InsertStart(t, id) PROVE Kept
  <2>1. Fits("insert", <<id>>, "writing", {})
    BY OneIs DEF Fits, Changes
  <2> QED BY <1>1, <2>1, BeginOK DEF InsertStart
<1>2. ASSUME NEW id \in Ids, UpsertStart(t, id) PROVE Kept
  <2>1. Fits("upsert", <<id>>, "writing", {})
    BY OneIs DEF Fits, Changes
  <2> QED BY <1>2, <2>1, BeginOK DEF UpsertStart
<1>3. ASSUME NEW id \in Ids, UpdateStart(t, id) PROVE Kept
  <2>1. CASE Sheets
    <3> DEFINE ids == <<id>>
               ops == Unread(ids)
               op  == [id |-> id, at |-> 0]
    <3>1. /\ ids \in Seq(Ids) /\ Len(ids) = 1 /\ ops = {op}
          /\ op \in Ops /\ op.id \in ToSet(ids) /\ op.at = 0
      BY OneIs
    <3> HIDE DEF ids, ops, op
    <3>2. Fits("update", ids, "rows", ops)
      BY <2>1, <3>1 DEF Fits, Changes
    <3>3. Begin(t, "update", ids, "rows", ops)
      BY <1>3, <2>1 DEF UpdateStart, Sheets, ids, ops
    <3> QED BY <3>2, <3>3, BeginOK DEF UpdateStart, Sheets
  <2>2. CASE ~ Sheets
    <3>1. Fits("update", <<id>>, "writing", {})
      BY <2>2, OneIs DEF Fits, Changes
    <3> QED BY <1>3, <2>2, <3>1, BeginOK DEF UpdateStart, Sheets
  <2> QED BY <2>1, <2>2
<1>4. ASSUME NEW ids \in Deletions, DeleteStart(t, ids) PROVE Kept
  <2>1. ids \in Seq(Ids) /\ ids # <<>>
    BY DeletionsAssumption
  <2>2. Len(ids) \in Nat /\ Len(ids) >= 1
    BY <2>1
  <2>3. CASE Sheets
    <3> DEFINE m == Min({AtOnce, Len(ids)})
               ops == Unread(SubSeq(ids, 1, m))
    <3>1. AtOnce \in Nat /\ AtOnce >= 1
      BY SizesAssumption
    <3>2. m \in 1 .. Len(ids)
      <4> DEFINE n == Len(ids)
      <4>1. n \in Nat /\ n >= 1
        BY <2>2
      <4> HIDE DEF n
      <4>2. \E x \in {AtOnce, n} : \A y \in {AtOnce, n} : x =< y
        BY <3>1, <4>1
      <4>3. Min({AtOnce, n}) \in {AtOnce, n} /\ \A y \in {AtOnce, n} : Min({AtOnce, n}) =< y
        BY <4>2 DEF Min
      <4>4. Min({AtOnce, n}) \in 1 .. n
        BY <3>1, <4>1, <4>3
      <4> QED BY <4>4 DEF n
    <3> HIDE DEF m
    <3>3. /\ \A op \in ops : op \in Ops /\ op.id \in ToSet(ids) /\ op.at = 0
          /\ m = 1 => ops = {[id |-> ids[1], at |-> 0]}
      BY <2>1, <3>2, UnreadIs
    <3>4. Len(ids) = 1 => m = 1
      BY <3>2
    <3> HIDE DEF ops
    <3>5. Fits("delete", ids, "rows", ops)
      BY <2>1, <2>2, <2>3, <3>3, <3>4 DEF Fits, Changes
    <3>6. Begin(t, "delete", ids, "rows", ops)
      BY <1>4, <2>3 DEF DeleteStart, Sheets, ops, m
    <3> QED BY <3>5, <3>6, BeginOK
  <2>4. CASE ~ Sheets
    <3>1. Fits("delete", ids, "writing", {})
      BY <2>1, <2>2, <2>4 DEF Fits, Changes
    <3> QED BY <1>4, <2>4, <3>1, BeginOK DEF DeleteStart, Sheets
  <2> QED BY <2>3, <2>4
<1>5. ASSUME TruncateStart(t) PROVE Kept
  <2>1. Fits("truncate", <<>>, IF Sheets THEN "headers" ELSE "reading", {})
    BY DEF Fits, Changes
  <2> QED BY <1>5, <2>1, BeginOK DEF TruncateStart, Sheets
<1> QED BY <1>1, <1>2, <1>3, <1>4, <1>5

-----------------------------------------------------------------------------
(* The invariant *)
LEMMA InitOK == ASSUME Init PROVE IInv
<1>1. /\ service \in {"sheets", "firestore", "spanner", "dynamodb"}
      /\ rows = [i \in 1 .. Cardinality(Ids) |-> [id |-> SetToSeq(Ids)[i], of |-> 0]]
      /\ header = TRUE /\ pc = [t \in Tasks |-> "idle"] /\ call = [t \in Tasks |-> NoCall]
      /\ todo = [t \in Tasks |-> {}] /\ got = [t \in Tasks |-> {}] /\ orphans = {}
      /\ answer = [t \in Tasks |-> "none"] /\ skipped = FALSE /\ calls = 0
  BY ServicesAssumption DEF Init
<1> DEFINE n == Cardinality(Ids)
           f == SetToSeq(Ids)
<1>2. n \in Nat /\ \E g \in [1 .. n -> Ids] : \A a, b \in DOMAIN g : g[a] = g[b] => a = b
  <2>1. n \in Nat /\ ExistsBijection(1 .. n, Ids)
    BY IdsAssumption, FS_CardinalityType
  <2>2. PICK g : g \in Bijection(1 .. n, Ids)
    BY <2>1, Fun_ExistsBij
  <2>3. g \in [1 .. n -> Ids] /\ \A a, b \in 1 .. n : g[a] = g[b] => a = b
    BY <2>2, Fun_BijectionProperties
  <2> QED BY <2>1, <2>3
<1>3. f \in [1 .. n -> Ids] /\ \A a, b \in 1 .. n : f[a] = f[b] => a = b
  <2> DEFINE P(g) == g \in [1 .. n -> Ids] /\ \A a, b \in DOMAIN g : g[a] = g[b] => a = b
  <2>1. f = CHOOSE g : P(g)
    BY DEF SetToSeq, IsInjective
  <2>2. \E g : P(g)
    BY <1>2
  <2>3. P(f)
    BY <2>1, <2>2
  <2> QED BY <2>3
<1> HIDE DEF n, f
<1>4. rows = [i \in 1 .. n |-> [id |-> f[i], of |-> 0]]
  BY <1>1 DEF n, f
<1>5. \A i \in 1 .. n : [id |-> f[i], of |-> 0] \in Rows
  BY <1>1, <1>3 DEF Rows
<1>6. rows \in Seq(Rows)
  BY <1>2, <1>4, <1>5
<1>7. Busy = {}
  BY <1>1 DEF Busy
<1>8. RowsOnce
  BY <1>3, <1>4, <1>7 DEF RowsOnce
<1>9. TypesOK
  <2>1. pc \in [Tasks -> Steps] /\ todo \in [Tasks -> SUBSET [id : Ids, at : Nat]]
    BY <1>1 DEF Steps
  <2>2. \A t \in Tasks : call[t].ids \in Seq(Ids) /\ call[t].headed \in BOOLEAN
    <3>1. NoCall.ids \in Seq(Ids) /\ NoCall.headed \in BOOLEAN
      BY DEF NoCall
    <3> QED BY <1>1, <3>1
  <2> QED BY <1>1, <1>6, <1>7, <2>1, <2>2 DEF TypesOK
<1>10. SolosOK
  BY <1>1 DEF SolosOK, Alone
<1> QED BY <1>8, <1>9, <1>10 DEF IInv

LEMMA StepOK == ASSUME IInv, [Next]_vars PROVE IInv' /\ [OnlyRowsAsked]_vars
<1>1. TypesOK /\ RowsOnce /\ SolosOK
  BY DEF IInv
<1>2. CASE Next
  <2>1. ASSUME NEW t \in Tasks,
               \/ \E id \in Ids : InsertStart(t, id) \/ UpsertStart(t, id) \/ UpdateStart(t, id)
               \/ \E ids \in Deletions : DeleteStart(t, ids)
               \/ TruncateStart(t)
        PROVE  Kept
    BY <1>1, <2>1, StartsOK
  <2>2. ASSUME NEW t \in Tasks, NEW op \in todo[t], RowStep(t, op) PROVE Kept
    BY <1>1, <2>2, FindRowOK, DeleteRowOK, SaveRowOK DEF RowStep
  <2>3. ASSUME NEW t \in Tasks,
               \/ AppendRow(t) \/ headersFrom(t) \/ ClearSheet(t) \/ setHeaderRow(t)
        PROVE  Kept
    BY <1>1, <2>3, AppendRowOK, headersFromOK, ClearSheetOK, setHeaderRowOK
  <2>4. ASSUME NEW t \in Tasks,
               \/ Write(t) \/ DeleteIds(t) \/ ReadPage(t) \/ DeletePage(t)
               \/ Fail(t) \/ ProcessEnds(t)
        PROVE  Kept
    BY <1>1, <2>4, WriteOK, DeleteIdsOK, ReadPageOK, DeletePageOK, FailOK, ProcessEndsOK
  <2>5. ASSUME NEW op \in orphans, OrphanGoesOn(op) PROVE Kept
    BY <1>1, <2>5, OrphanGoesOnOK
  <2>6. Kept
    BY <1>2, <2>1, <2>2, <2>3, <2>4, <2>5 DEF Next
  <2> QED BY <2>6 DEF Kept, IInv
<1>3. CASE UNCHANGED vars
  <2>1. TypesOK'
    BY <1>1, <1>3 DEF TypesOK, vars, Busy, CallOK, Rows, Sheets
  <2>2. RowsOnce'
    BY <1>1, <1>3 DEF RowsOnce, vars, Busy, Sheets
  <2>3. SolosOK'
    BY <1>1, <1>3 DEF SolosOK, vars, Alone, Solo, Finds, Told, Limited, Written
  <2> QED BY <1>3, <2>1, <2>2, <2>3 DEF IInv
<1> QED BY <1>2, <1>3

LEMMA Invariant == Spec => []IInv /\ [][OnlyRowsAsked]_vars
<1>1. Init => IInv
  BY InitOK
<1>2. IInv /\ [Next]_vars => IInv' /\ [OnlyRowsAsked]_vars
  BY StepOK
<1> QED BY <1>1, <1>2, PTL DEF Spec

(* What an answer of success says of a call that has been alone. *)
LEMMA IInvTells == ASSUME IInv PROVE DoneAsTold
<1> SUFFICES ASSUME NEW t \in Tasks, ~ skipped, t \notin shared, answer[t] = "ok", ~ Limited(t)
             PROVE  CASE call[t].kind = "truncate" -> rows = <<>> /\ (call[t].headed => header)
                      [] call[t].kind = "delete"   -> IdsOf(rows) \cap ToSet(call[t].ids) = {}
                      [] OTHER -> Written(t) \in ToSet(rows)
  BY DEF DoneAsTold
<1>1. Solo(t)
  BY DEF IInv, SolosOK, Alone
<1> QED BY <1>1 DEF Solo, Told

(* A call that is answered with success, and that overlapped no other, has *)
(* done what it was to do, in each of the services, as far as they go.     *)
THEOREM AnswersAreTrue == Spec => []DoneAsTold
<1>1. IInv => DoneAsTold
  BY IInvTells
<1> QED BY <1>1, Invariant, PTL

(* No row goes or changes but for a call that names it, whatever number it *)
(* had in the sheet when it was looked up.                                 *)
THEOREM OthersStay == Spec => OthersRowsKept
BY Invariant, PTL DEF OthersRowsKept

-----------------------------------------------------------------------------
(* Those: the members of a sequence that are in a set.                     *)

IsThose(F, s, set, m) ==
    F = [n \in 0 .. m |-> IF n = 0 THEN <<>>
                          ELSE IF s[n] \in set THEN Append(F[n - 1], s[n])
                          ELSE F[n - 1]]

LEMMA ThoseExists ==
    ASSUME NEW s, NEW set, NEW m \in Nat
    PROVE  \E F : IsThose(F, s, set, m)
<1> DEFINE S == {n \in Nat : \E F : IsThose(F, s, set, n)}
<1>1. 0 \in S
  <2>1. IsThose([n \in 0 .. 0 |-> <<>>], s, set, 0)
    BY DEF IsThose
  <2> QED BY <2>1
<1>2. ASSUME NEW k \in 1 .. m, k - 1 \in S PROVE k \in S
  <2>1. PICK F : IsThose(F, s, set, k - 1)
    BY <1>2
  <2> DEFINE G == [n \in 0 .. k |->
                      IF n = k THEN IF s[n] \in set THEN Append(F[k - 1], s[n]) ELSE F[k - 1]
                      ELSE F[n]]
  <2>2. \A n \in 0 .. k - 1 : F[n] = IF n = 0 THEN <<>>
                                     ELSE IF s[n] \in set THEN Append(F[n - 1], s[n])
                                     ELSE F[n - 1]
    BY <2>1 DEF IsThose
  <2>3. \A n \in 0 .. k : G[n] = IF n = 0 THEN <<>>
                                 ELSE IF s[n] \in set THEN Append(G[n - 1], s[n])
                                 ELSE G[n - 1]
    BY <2>2
  <2>4. IsThose(G, s, set, k)
    BY <2>3 DEF IsThose
  <2> QED BY <2>4
<1> HIDE DEF S
<1>3. m \in S
  BY <1>1, <1>2, PrefixInduction
<1> QED BY <1>3 DEF S

LEMMA ThoseUnfolds ==
    ASSUME NEW S, NEW s \in Seq(S), NEW set
    PROVE  \E F : /\ F[0] = <<>>
                  /\ \A n \in 1 .. Len(s) :
                        F[n] = IF s[n] \in set THEN Append(F[n - 1], s[n]) ELSE F[n - 1]
                  /\ Those(s, set) = F[Len(s)]
<1> DEFINE F == CHOOSE F : IsThose(F, s, set, Len(s))
<1>1. Len(s) \in Nat
  OBVIOUS
<1>2. IsThose(F, s, set, Len(s))
  BY <1>1, ThoseExists
<1>3. Those(s, set) = F[Len(s)]
  BY DEF Those, IsThose
<1> HIDE DEF F
<1>4. \A n \in 0 .. Len(s) : F[n] = IF n = 0 THEN <<>>
                                    ELSE IF s[n] \in set THEN Append(F[n - 1], s[n])
                                    ELSE F[n - 1]
  BY <1>2 DEF IsThose
<1>5. F[0] = <<>>
  BY <1>1, <1>4
<1>6. \A n \in 1 .. Len(s) :
          F[n] = IF s[n] \in set THEN Append(F[n - 1], s[n]) ELSE F[n - 1]
  BY <1>1, <1>4
<1> QED BY <1>3, <1>5, <1>6

(* Those are members of the sequence that are in the set, and all of them; *)
(* when all are, it is the sequence itself.                                *)
LEMMA ThoseAre ==
    ASSUME NEW S, NEW s \in Seq(S), NEW set
    PROVE  /\ Those(s, set) \in Seq(S)
           /\ ToSet(Those(s, set)) = ToSet(s) \cap set
           /\ ToSet(s) \subseteq set => Those(s, set) = s
<1>1. PICK F : /\ F[0] = <<>>
               /\ \A n \in 1 .. Len(s) :
                     F[n] = IF s[n] \in set THEN Append(F[n - 1], s[n]) ELSE F[n - 1]
               /\ Those(s, set) = F[Len(s)]
  BY ThoseUnfolds
<1>2. /\ Len(s) \in Nat
      /\ \A x : x \in ToSet(s) <=> \E k \in 1 .. Len(s) : s[k] = x
      /\ \A k \in 1 .. Len(s) : s[k] \in S
  BY DEF ToSet
<1> DEFINE P(i) == /\ F[i] \in Seq(S)
                   /\ \A x : x \in ToSet(F[i]) <=> \E k \in 1 .. i : s[k] = x /\ x \in set
                   /\ ToSet(s) \subseteq set => Len(F[i]) = i /\ \A k \in 1 .. i : F[i][k] = s[k]
           T == {i \in Nat : P(i)}
<1>3. 0 \in T
  <2>1. F[0] \in Seq(S) /\ Len(F[0]) = 0 /\ \A x : x \notin ToSet(F[0])
    BY <1>1 DEF ToSet
  <2>2. 1 .. 0 = {}
    OBVIOUS
  <2>3. P(0)
    BY <2>1, <2>2
  <2> QED BY <2>3
<1>4. ASSUME NEW i \in 1 .. Len(s), i - 1 \in T
      PROVE  i \in T
  <2>1. i \in Nat /\ P(i - 1) /\ s[i] \in S
    BY <1>4, <1>2
  <2>2. \A k : k \in 1 .. i <=> k \in 1 .. (i - 1) \/ k = i
    BY <2>1
  <2>3. CASE s[i] \notin set
    <3>1. F[i] = F[i - 1]
      BY <1>1, <2>3
    <3>2. ~ (ToSet(s) \subseteq set)
      BY <1>2, <2>3
    <3> QED BY <2>1, <2>2, <2>3, <3>1, <3>2
  <2>4. CASE s[i] \in set
    <3>1. F[i] = Append(F[i - 1], s[i])
      BY <1>1, <2>4
    <3>2. /\ F[i] \in Seq(S) /\ ToSet(F[i]) = ToSet(F[i - 1]) \cup {s[i]}
          /\ DOMAIN F[i] = 1 .. Len(F[i - 1]) + 1 /\ Len(F[i - 1]) \in Nat
          /\ \A j \in 1 .. Len(F[i - 1]) : F[i][j] = F[i - 1][j]
          /\ F[i][Len(F[i - 1]) + 1] = s[i]
      BY <2>1, <3>1, AppendKeeps
    <3>3. Len(F[i]) = Len(F[i - 1]) + 1
      BY <2>1, <3>1
    <3>4. ToSet(s) \subseteq set => Len(F[i]) = i /\ \A k \in 1 .. i : F[i][k] = s[k]
      <4> SUFFICES ASSUME ToSet(s) \subseteq set
                   PROVE  Len(F[i]) = i /\ \A k \in 1 .. i : F[i][k] = s[k]
        OBVIOUS
      <4>1. Len(F[i - 1]) = i - 1 /\ \A k \in 1 .. (i - 1) : F[i - 1][k] = s[k]
        BY <2>1
      <4>2. Len(F[i]) = i
        BY <2>1, <3>3, <4>1
      <4>3. F[i][i] = s[i] /\ \A k \in 1 .. (i - 1) : F[i][k] = s[k]
        BY <2>1, <3>2, <4>1
      <4> QED BY <4>2, <4>3, <2>2
    <3>5. \A x : x \in ToSet(F[i]) <=> \E k \in 1 .. i : s[k] = x /\ x \in set
      BY <2>1, <2>2, <2>4, <3>2
    <3> QED BY <2>1, <3>2, <3>4, <3>5
  <2> QED BY <2>3, <2>4
<1>5. Len(s) \in T
  <2> HIDE DEF T
  <2> QED BY <1>2, <1>3, <1>4, PrefixInduction
<1>6. P(Len(s))
  BY <1>5
<1>7. ToSet(s) \subseteq set => F[Len(s)] = s
  <2> SUFFICES ASSUME ToSet(s) \subseteq set PROVE F[Len(s)] = s
    OBVIOUS
  <2>1. F[Len(s)] \in Seq(S) /\ Len(F[Len(s)]) = Len(s)
        /\ \A k \in 1 .. Len(s) : F[Len(s)][k] = s[k]
    BY <1>6
  <2> HIDE DEF P
  <2> QED BY <2>1, SeqEqual
<1>8. ToSet(F[Len(s)]) = ToSet(s) \cap set
  BY <1>2, <1>6
<1> QED BY <1>1, <1>6, <1>7, <1>8

-----------------------------------------------------------------------------
(* Flat: a sequence of sequences, joined.                                  *)

IsFlat(F, s, m) == F = [n \in 0 .. m |-> IF n = 0 THEN <<>> ELSE F[n - 1] \o s[n]]

LEMMA FlatExists ==
    ASSUME NEW s, NEW m \in Nat
    PROVE  \E F : IsFlat(F, s, m)
<1> DEFINE S == {n \in Nat : \E F : IsFlat(F, s, n)}
<1>1. 0 \in S
  <2>1. IsFlat([n \in 0 .. 0 |-> <<>>], s, 0)
    BY DEF IsFlat
  <2> QED BY <2>1
<1>2. ASSUME NEW k \in 1 .. m, k - 1 \in S PROVE k \in S
  <2>1. PICK F : IsFlat(F, s, k - 1)
    BY <1>2
  <2> DEFINE G == [n \in 0 .. k |-> IF n = k THEN F[k - 1] \o s[n] ELSE F[n]]
  <2>2. \A n \in 0 .. k - 1 : F[n] = IF n = 0 THEN <<>> ELSE F[n - 1] \o s[n]
    BY <2>1 DEF IsFlat
  <2>3. \A n \in 0 .. k : G[n] = IF n = 0 THEN <<>> ELSE G[n - 1] \o s[n]
    BY <2>2
  <2>4. IsFlat(G, s, k)
    BY <2>3 DEF IsFlat
  <2> QED BY <2>4
<1> HIDE DEF S
<1>3. m \in S
  BY <1>1, <1>2, PrefixInduction
<1> QED BY <1>3 DEF S

LEMMA FlatUnfolds ==
    ASSUME NEW S, NEW s \in Seq(S)
    PROVE  \E F : /\ F[0] = <<>>
                  /\ \A n \in 1 .. Len(s) : F[n] = F[n - 1] \o s[n]
                  /\ Flat(s) = F[Len(s)]
<1> DEFINE F == CHOOSE F : IsFlat(F, s, Len(s))
<1>1. Len(s) \in Nat
  OBVIOUS
<1>2. IsFlat(F, s, Len(s))
  BY <1>1, FlatExists
<1>3. Flat(s) = F[Len(s)]
  BY DEF Flat, IsFlat
<1> HIDE DEF F
<1>4. \A n \in 0 .. Len(s) : F[n] = IF n = 0 THEN <<>> ELSE F[n - 1] \o s[n]
  BY <1>2 DEF IsFlat
<1>5. F[0] = <<>>
  BY <1>1, <1>4
<1>6. ASSUME NEW n \in 1 .. Len(s) PROVE F[n] = F[n - 1] \o s[n]
  <2>1. n \in 0 .. Len(s) /\ n # 0
    OBVIOUS
  <2>2. F[n] = IF n = 0 THEN <<>> ELSE F[n - 1] \o s[n]
    BY <1>4, <2>1, Zenon
  <2> QED BY <2>1, <2>2, Zenon
<1> QED BY <1>3, <1>5, <1>6

Joins(V, p, q, r) ==
    /\ r \in Seq(V)
    /\ Len(p) \in Nat /\ Len(q) \in Nat
    /\ Len(r) = Len(p) + Len(q)
    /\ \A j \in 1 .. Len(p) : r[j] = p[j]
    /\ \A k \in 1 .. Len(q) : r[Len(p) + k] = q[k]

LEMMA Joined ==
    ASSUME NEW V, NEW p \in Seq(V), NEW q \in Seq(V), NEW r, r = p \o q
    PROVE  Joins(V, p, q, r)
<1>1. Len(p) \in Nat /\ Len(q) \in Nat
  OBVIOUS
<1>2. /\ r \in Seq(V)
      /\ Len(r) = Len(p) + Len(q)
      /\ \A i \in 1 .. Len(p) + Len(q) :
            r[i] = IF i <= Len(p) THEN p[i] ELSE q[i - Len(p)]
  BY ConcatProperties, Zenon
<1>3. \A j \in 1 .. Len(p) : r[j] = p[j]
  BY <1>1, <1>2
<1>4. ASSUME NEW k \in 1 .. Len(q)
      PROVE  r[Len(p) + k] = q[k]
  <2>1. /\ Len(p) + k \in 1 .. Len(p) + Len(q)
        /\ ~ (Len(p) + k <= Len(p)) /\ (Len(p) + k) - Len(p) = k
    BY <1>1
  <2> DEFINE j == Len(p) + k
  <2>2. r[j] = IF j <= Len(p) THEN p[j] ELSE q[j - Len(p)]
    BY <1>2, <2>1
  <2> HIDE DEF j
  <2>3. ~ (j <= Len(p)) /\ j - Len(p) = k
    BY <2>1 DEF j
  <2>4. r[j] = q[k]
    BY <2>2, <2>3
  <2> QED BY <2>4 DEF j
<1> QED BY <1>1, <1>2, <1>3, <1>4 DEF Joins

(* Where each of the sequences is: behind what those before it have. *)
Places(s, V, at) ==
    /\ at \in [0 .. Len(s) -> Nat]
    /\ at[0] = 0
    /\ \A n \in 1 .. Len(s) : at[n] = at[n - 1] + Len(s[n])
    /\ Flat(s) \in Seq(V)
    /\ Len(Flat(s)) = at[Len(s)]
    /\ \A i \in 1 .. Len(s), k \in Nat :
          k \in 1 .. Len(s[i]) =>
              /\ at[i - 1] + k \in DOMAIN Flat(s)
              /\ Flat(s)[at[i - 1] + k] = s[i][k]

LEMMA FlatPlaces ==
    ASSUME NEW V, NEW s \in Seq(Seq(V))
    PROVE  \E at : Places(s, V, at)
<1>1. PICK F : /\ F[0] = <<>>
               /\ \A n \in 1 .. Len(s) : F[n] = F[n - 1] \o s[n]
               /\ Flat(s) = F[Len(s)]
  BY FlatUnfolds
<1>2. Len(s) \in Nat /\ \A n \in 1 .. Len(s) : s[n] \in Seq(V) /\ Len(s[n]) \in Nat
  OBVIOUS
<1> DEFINE at == [n \in 0 .. Len(s) |-> Len(F[n])]
           Held(n) == \A i \in Nat, k \in Nat :
                          i \in 1 .. n /\ k \in 1 .. Len(s[i]) =>
                              /\ Len(F[i - 1]) + k \in 1 .. Len(F[n])
                              /\ F[n][Len(F[i - 1]) + k] = s[i][k]
           T == {n \in Nat : F[n] \in Seq(V) /\ Held(n)
                             /\ (n > 0 => F[n - 1] \in Seq(V) /\ Len(F[n]) = Len(F[n - 1]) + Len(s[n]))}
<1>3. 0 \in T
  <2>1. F[0] \in Seq(V)
    BY <1>1
  <2>2. \A i \in Nat : i \notin 1 .. 0
    OBVIOUS
  <2>3. Held(0)
    BY <2>2
  <2> QED BY <2>1, <2>3
<1>4. ASSUME NEW n \in 1 .. Len(s), n - 1 \in T
      PROVE  n \in T
  <2>1. n \in Nat /\ F[n - 1] \in Seq(V) /\ Held(n - 1) /\ s[n] \in Seq(V)
    BY <1>2, <1>4
  <2>2. F[n] = F[n - 1] \o s[n]
    BY <1>1
  <2>3. PICK p, q, r : /\ p = F[n - 1] /\ q = s[n] /\ r = F[n]
                       /\ p \in Seq(V) /\ q \in Seq(V) /\ r = p \o q
    BY <2>1, <2>2
  <2>4. /\ r \in Seq(V)
        /\ Len(p) \in Nat /\ Len(q) \in Nat
        /\ Len(r) = Len(p) + Len(q)
        /\ \A j \in 1 .. Len(p) : r[j] = p[j]
        /\ \A k \in 1 .. Len(q) : r[Len(p) + k] = q[k]
    <3>1. p \in Seq(V) /\ q \in Seq(V) /\ r = p \o q
      BY <2>3
    <3>2. Joins(V, p, q, r)
      BY <3>1, Joined
    <3> QED BY <3>2 DEF Joins
  <2>5. ASSUME NEW i \in Nat, NEW k \in Nat, i \in 1 .. n, k \in 1 .. Len(s[i])
        PROVE  /\ Len(F[i - 1]) + k \in 1 .. Len(r)
               /\ r[Len(F[i - 1]) + k] = s[i][k]
    <3>1. CASE i = n
      <4>1. k \in 1 .. Len(q)
        BY <2>3, <2>5, <3>1
      <4>2. Len(p) + k \in 1 .. Len(r)
        BY <2>4, <4>1
      <4>3. r[Len(p) + k] = q[k]
        BY <2>4, <4>1
      <4> QED BY <2>3, <3>1, <4>2, <4>3
    <3>2. CASE i # n
      <4>1. i \in 1 .. (n - 1)
        BY <2>1, <2>5, <3>2
      <4> DEFINE j == Len(F[i - 1]) + k
      <4>2. j \in 1 .. Len(p) /\ p[j] = s[i][k]
        BY <2>1, <2>3, <2>5, <4>1
      <4> HIDE DEF j
      <4>3. j \in 1 .. Len(r)
        BY <2>4, <4>2
      <4>4. r[j] = p[j]
        BY <2>4, <4>2
      <4> QED BY <4>2, <4>3, <4>4 DEF j
    <3> QED BY <3>1, <3>2
  <2>6. Held(n)
    BY <2>3, <2>5
  <2> HIDE DEF Held
  <2> QED BY <2>1, <2>3, <2>4, <2>6
<1> HIDE DEF T, Held
<1>5. \A n \in 0 .. Len(s) : n \in T
  <2> SUFFICES ASSUME NEW n \in 0 .. Len(s) PROVE n \in T
    OBVIOUS
  <2>1. \A i \in 1 .. n : i \in 1 .. Len(s)
    BY <1>2
  <2> QED BY <1>2, <1>3, <1>4, <2>1, PrefixInduction
<1>6. ASSUME NEW n \in 0 .. Len(s) PROVE F[n] \in Seq(V) /\ Len(F[n]) \in Nat
  <2>1. n \in T
    BY <1>5
  <2>2. F[n] \in Seq(V)
    BY <2>1 DEF T
  <2> QED BY <2>2
<1>7. at \in [0 .. Len(s) -> Nat] /\ at[0] = 0
  BY <1>1, <1>2, <1>6
<1>8. ASSUME NEW n \in 1 .. Len(s)
      PROVE  at[n] = at[n - 1] + Len(s[n])
  <2>1. n \in 0 .. Len(s) /\ n - 1 \in 0 .. Len(s) /\ n > 0
    BY <1>2
  <2>2. Len(F[n]) = Len(F[n - 1]) + Len(s[n])
    BY <1>5, <2>1 DEF T
  <2> QED BY <2>1, <2>2
<1>9. Flat(s) \in Seq(V) /\ Len(Flat(s)) = at[Len(s)]
  BY <1>1, <1>2, <1>6
<1>10. ASSUME NEW i \in 1 .. Len(s), NEW k \in Nat, k \in 1 .. Len(s[i])
       PROVE  at[i - 1] + k \in DOMAIN Flat(s) /\ Flat(s)[at[i - 1] + k] = s[i][k]
  <2>1. i \in Nat /\ i - 1 \in 0 .. Len(s) /\ Len(s) \in 0 .. Len(s)
    BY <1>2
  <2>2. Held(Len(s))
    BY <1>5, <2>1 DEF T
  <2>3. /\ Len(F[i - 1]) + k \in 1 .. Len(F[Len(s)])
        /\ F[Len(s)][Len(F[i - 1]) + k] = s[i][k]
    BY <1>10, <2>1, <2>2 DEF Held
  <2>4. at[i - 1] = Len(F[i - 1])
    BY <2>1
  <2>5. DOMAIN Flat(s) = 1 .. Len(F[Len(s)])
    BY <1>1, <1>9
  <2> HIDE DEF at
  <2> QED BY <1>1, <2>3, <2>4, <2>5
<1> HIDE DEF at
<1>11. Places(s, V, at)
  BY <1>7, <1>8, <1>9, <1>10 DEF Places
<1> QED BY <1>11

-----------------------------------------------------------------------------
(* Items and the writes made of them.                                      *)

(* A write that puts every field of an item in its place. *)
WritesItem(write, item) ==
    /\ DOMAIN write.cells = DOMAIN item
    /\ \A c \in DOMAIN item : write.params[write.cells[c]] = item[c]

WritesItems(writes, items) ==
    /\ DOMAIN writes = DOMAIN items
    /\ \A i \in DOMAIN items : WritesItem(writes[i], items[i])

(* One write for each item, each placeholder of it with a value.           *)
BindsItems(writes, items) ==
    /\ DOMAIN writes = DOMAIN items
    /\ \A i \in DOMAIN items : ~Unbound(writes[i])

LEMMA WriteOfIs ==
    ASSUME NEW cells, NEW params, NEW item
    PROVE  /\ /\ DOMAIN cells = DOMAIN item
              /\ \A c \in DOMAIN item : params[cells[c]] = item[c]
              => WritesItem(WriteOf(cells, params), item)
           /\ (\A c \in DOMAIN cells : cells[c] \in DOMAIN params)
              => ~Unbound(WriteOf(cells, params))
<1>1. WriteOf(cells, params).cells = cells /\ WriteOf(cells, params).params = params
  BY DEF WriteOf
<1> QED BY <1>1 DEF WritesItem, Unbound

LEMMA WholeItemsWrite ==
    ASSUME NEW items
    PROVE  WritesItems(WholeItems(items), items) /\ BindsItems(WholeItems(items), items)
<1>1. ASSUME NEW item PROVE WritesItem(WholeItem(item), item) /\ ~Unbound(WholeItem(item))
  <2> DEFINE cells == [c \in DOMAIN item |-> c]
  <2>1. DOMAIN cells = DOMAIN item
        /\ \A c \in DOMAIN item : cells[c] \in DOMAIN item /\ item[cells[c]] = item[c]
    OBVIOUS
  <2> HIDE DEF cells
  <2>2. WritesItem(WriteOf(cells, item), item) /\ ~Unbound(WriteOf(cells, item))
    BY <2>1, WriteOfIs
  <2> QED BY <2>2 DEF WholeItem, cells
<1> QED BY <1>1 DEF WholeItems, WritesItems, BindsItems

LEMMA PositionFinds ==
    ASSUME NEW fields, NEW n \in Nat, DOMAIN fields = 1 .. n, NEW c \in ToSet(fields)
    PROVE  Position(fields, c) \in 1 .. n /\ fields[Position(fields, c)] = c
<1>1. \E i \in DOMAIN fields : fields[i] = c
  BY DEF ToSet
<1> QED BY <1>1 DEF Position

LEMMA ColumnsAre ==
    /\ Columns \in Seq(STRING) /\ "_id" \in ToSet(Columns)
    /\ Len(Columns) \in Nat /\ DOMAIN Columns = 1 .. Len(Columns)
BY ColumnsAssumption

(* The items as an adaptor gets them: in the columns of the schema. *)
IsItem(item) == item = [c \in DOMAIN item |-> item[c]] /\ DOMAIN item \subseteq ToSet(Columns)

IsItems(items) ==
    /\ Len(items) \in Nat
    /\ DOMAIN items = 1 .. Len(items)
    /\ \A i \in DOMAIN items : IsItem(items[i])

(* The values of items, and Null. *)
ValuesIn(item) == {item[c] : c \in DOMAIN item}

ValuesOf(items) == (UNION {ValuesIn(items[i]) : i \in DOMAIN items}) \cup {Null}

LEMMA ValueIn ==
    ASSUME NEW items, NEW i \in DOMAIN items
    PROVE  /\ Null \in ValuesOf(items)
           /\ \A c \in DOMAIN items[i] : items[i][c] \in ValuesOf(items)
<1>1. \A c \in DOMAIN items[i] : items[i][c] \in ValuesIn(items[i])
  BY DEF ValuesIn
<1>2. ValuesIn(items[i]) \subseteq ValuesOf(items)
  BY DEF ValuesOf
<1>3. Null \in ValuesOf(items)
  BY DEF ValuesOf
<1> QED BY <1>1, <1>2, <1>3

LEMMA KeysAre ==
    ASSUME NEW item, IsItem(item)
    PROVE  /\ keysOf(item) \in Seq(STRING)
           /\ ToSet(keysOf(item)) = DOMAIN item
           /\ DOMAIN item = ToSet(Columns) => keysOf(item) = Columns
           /\ updateFieldsFor(item) \in Seq(STRING)
           /\ ToSet(updateFieldsFor(item)) = DOMAIN item \ {"_id"}
           /\ updateFieldsWithoutNulls(item) \in Seq(STRING)
           /\ (\A c \in DOMAIN item : ~isNull(item[c])) =>
                 ToSet(updateFieldsWithoutNulls(item)) = DOMAIN item \ {"_id"}
<1> DEFINE d == DOMAIN item
<1>0. d \subseteq ToSet(Columns) /\ keysOf(item) = Those(Columns, d)
  BY DEF keysOf, IsItem
<1> HIDE DEF d
<1>1. /\ keysOf(item) \in Seq(STRING)
      /\ ToSet(keysOf(item)) = DOMAIN item
      /\ DOMAIN item = ToSet(Columns) => keysOf(item) = Columns
  <2>1. /\ Those(Columns, d) \in Seq(STRING)
        /\ ToSet(Those(Columns, d)) = ToSet(Columns) \cap d
        /\ ToSet(Columns) \subseteq d => Those(Columns, d) = Columns
    BY ColumnsAre, ThoseAre
  <2> QED BY <1>0, <2>1 DEF d
<1>2. /\ updateFieldsFor(item) \in Seq(STRING)
      /\ ToSet(updateFieldsFor(item)) = DOMAIN item \ {"_id"}
  BY <1>1, ThoseAre DEF updateFieldsFor
<1> DEFINE valued == {c \in DOMAIN item : ~isNull(item[c])}
<1> HIDE DEF valued
<1>3. /\ updateFieldsWithoutNulls(item) \in Seq(STRING)
      /\ ToSet(updateFieldsWithoutNulls(item)) = (DOMAIN item \ {"_id"}) \cap valued
  BY <1>2, ThoseAre DEF updateFieldsWithoutNulls, valued
<1> QED BY <1>1, <1>2, <1>3 DEF valued

LEMMA UpdateFields ==
    ASSUME NEW q \in Seq(STRING), NEW item, "_id" \in DOMAIN item,
           ToSet(q) = DOMAIN item \ {"_id"}
    PROVE  /\ Append(q, "_id") \in Seq(STRING)
           /\ ToSet(Append(q, "_id")) = DOMAIN item
<1>1. "_id" \in STRING
  BY ColumnsAre DEF ToSet
<1> DEFINE x == "_id"
<1> HIDE DEF x
<1>2. Append(q, x) \in Seq(STRING) /\ ToSet(Append(q, x)) = ToSet(q) \cup {x}
  BY <1>1, AppendKeeps DEF x
<1> QED BY <1>2 DEF x

LEMMA PickedIs ==
    ASSUME NEW fields \in Seq(STRING), NEW items, NEW i \in DOMAIN items
    PROVE  /\ Picked(items[i], fields) \in Seq(ValuesOf(items))
           /\ Len(Picked(items[i], fields)) = Len(fields)
           /\ DOMAIN Picked(items[i], fields) = 1 .. Len(fields)
           /\ \A c \in ToSet(fields) :
                 c \in DOMAIN items[i] =>
                     Picked(items[i], fields)[Position(fields, c)] = items[i][c]
<1>1. DOMAIN fields = 1 .. Len(fields) /\ Len(fields) \in Nat
  OBVIOUS
<1>2. \A k \in 1 .. Len(fields) : Picked(items[i], fields)[k] \in ValuesOf(items)
  BY <1>1, ValueIn DEF Picked
<1>3. Picked(items[i], fields) = [k \in 1 .. Len(fields) |-> Picked(items[i], fields)[k]]
  BY <1>1 DEF Picked
<1> DEFINE p == Picked(items[i], fields)
<1> HIDE DEF p
<1>4. p \in Seq(ValuesOf(items)) /\ Len(p) = Len(fields) /\ DOMAIN p = 1 .. Len(fields)
  BY <1>1, <1>2, <1>3 DEF p
<1>5. ASSUME NEW c \in ToSet(fields), c \in DOMAIN items[i]
      PROVE  p[Position(fields, c)] = items[i][c]
  <2>1. Position(fields, c) \in DOMAIN fields /\ fields[Position(fields, c)] = c
    BY <1>1, PositionFinds
  <2> QED BY <1>5, <2>1 DEF p, Picked
<1> QED BY <1>4, <1>5 DEF p

LEMMA ParamArraysAre ==
    ASSUME NEW items, NEW i \in DOMAIN items, IsItem(items[i]),
           DOMAIN items[i] = ToSet(Columns)
    PROVE  /\ asParamArrays(items[i]) \in Seq(ValuesOf(items))
           /\ Len(asParamArrays(items[i])) = Len(Columns)
           /\ DOMAIN asParamArrays(items[i]) = 1 .. Len(Columns)
           /\ \A c \in ToSet(Columns) :
                 asParamArrays(items[i])[Position(Columns, c)] = items[i][c]
<1>1. DOMAIN Columns = 1 .. Len(Columns) /\ Len(Columns) \in Nat
  BY ColumnsAre
<1>2. keysOf(items[i]) = Columns
  BY KeysAre
<1>3. asParamArrays(items[i]) = [k \in 1 .. Len(Columns) |-> items[i][Columns[k]]]
  BY <1>1, <1>2 DEF asParamArrays
<1>4. \A k \in 1 .. Len(Columns) : items[i][Columns[k]] \in ValuesOf(items)
  <2>1. \A k \in 1 .. Len(Columns) : Columns[k] \in DOMAIN items[i]
    BY <1>1 DEF ToSet
  <2> QED BY <2>1, ValueIn
<1> DEFINE p == asParamArrays(items[i])
<1> HIDE DEF p
<1>5. p = [k \in 1 .. Len(Columns) |-> items[i][Columns[k]]]
  BY <1>3 DEF p
<1>6. p \in Seq(ValuesOf(items)) /\ Len(p) = Len(Columns) /\ DOMAIN p = 1 .. Len(Columns)
  BY <1>1, <1>4, <1>5
<1>7. ASSUME NEW c \in ToSet(Columns)
      PROVE  p[Position(Columns, c)] = items[i][c]
  <2>1. Position(Columns, c) \in 1 .. Len(Columns) /\ Columns[Position(Columns, c)] = c
    BY <1>1, PositionFinds
  <2> QED BY <1>5, <2>1
<1> QED BY <1>6, <1>7 DEF p

-----------------------------------------------------------------------------
(* The statements of the databases.                                        *)

(* Items that have every column. *)
AreWhole(items) == \A i \in DOMAIN items : DOMAIN items[i] = ToSet(Columns)

(* Joined, sequences of one length are at its multiples. *)
LEMMA EvenPlaces ==
    ASSUME NEW l \in Nat, NEW m \in Nat, NEW at \in [0 .. m -> Nat], at[0] = 0,
           \A n \in 1 .. m : at[n] = at[n - 1] + l
    PROVE  \A n \in 0 .. m : at[n] = n * l
<1> DEFINE T == {n \in Nat : at[n] = n * l}
<1>1. 0 \in T
  OBVIOUS
<1>2. ASSUME NEW n \in 1 .. m, n - 1 \in T PROVE n \in T
  <2>1. n - 1 \in Nat /\ at[n - 1] = (n - 1) * l /\ at[n] = at[n - 1] + l
    BY <1>2
  <2>2. (n - 1) * l + l = n * l
    BY <2>1
  <2> QED BY <2>1, <2>2
<1> HIDE DEF T
<1>3. ASSUME NEW n \in 0 .. m PROVE n \in T
  <2>1. n \in Nat /\ \A i \in 1 .. n : i \in 1 .. m
    OBVIOUS
  <2> QED BY <1>1, <1>2, <2>1, PrefixInduction
<1> QED BY <1>3 DEF T

LEMMA PostgresInsertWrites ==
    ASSUME NEW items, IsItems(items), AreWhole(items)
    PROVE  WritesItems(PostgresInsert(items), items) /\ BindsItems(PostgresInsert(items), items)
<1> DEFINE arrays == [i \in DOMAIN items |-> asParamArrays(items[i])]
           V      == ValuesOf(items)
           m      == Len(items)
           l      == Len(Columns)
<1>1. m \in Nat /\ DOMAIN items = 1 .. m /\ l \in Nat /\ DOMAIN Columns = 1 .. l
  BY ColumnsAre DEF IsItems
<1>2. ASSUME NEW i \in 1 .. m
      PROVE  /\ arrays[i] \in Seq(V) /\ Len(arrays[i]) = l
             /\ DOMAIN items[i] = ToSet(Columns)
             /\ \A c \in ToSet(Columns) : arrays[i][Position(Columns, c)] = items[i][c]
  <2>1. i \in DOMAIN items /\ IsItem(items[i]) /\ DOMAIN items[i] = ToSet(Columns)
    BY <1>1, <1>2 DEF IsItems, AreWhole
  <2>2. arrays[i] = asParamArrays(items[i])
    BY <2>1
  <2> QED BY <2>1, <2>2, ParamArraysAre
<1>3. PostgresInsert(items) =
          [i \in DOMAIN items |-> WriteOf(prepareStatementVariablesForBulkInsert(i), Flat(arrays))]
  BY DEF PostgresInsert
<1>4. DOMAIN arrays = 1 .. m
  BY <1>1
<1> HIDE DEF arrays, V, m
<1>5. arrays \in Seq(Seq(V)) /\ Len(arrays) = m
  <2>1. arrays = [i \in 1 .. m |-> arrays[i]]
    BY <1>4 DEF arrays
  <2> QED BY <1>1, <1>2, <2>1
<1>6. PICK at : Places(arrays, V, at)
  BY <1>5, FlatPlaces
<1> HIDE DEF l
<1>7. /\ at \in [0 .. m -> Nat] /\ at[0] = 0
      /\ \A n \in 1 .. m : at[n] = at[n - 1] + l
      /\ \A i \in 1 .. m, k \in Nat :
            k \in 1 .. l => /\ at[i - 1] + k \in DOMAIN Flat(arrays)
                           /\ Flat(arrays)[at[i - 1] + k] = arrays[i][k]
  BY <1>2, <1>5, <1>6 DEF Places
<1>8. \A n \in 0 .. m : at[n] = n * l
  <2>1. m \in Nat /\ l \in Nat
    BY <1>1 DEF l
  <2> QED BY <2>1, <1>7, EvenPlaces
<1>9. ASSUME NEW i \in 1 .. m
      PROVE  LET write == WriteOf(prepareStatementVariablesForBulkInsert(i), Flat(arrays))
             IN  WritesItem(write, items[i]) /\ ~Unbound(write)
  <2> DEFINE cells == prepareStatementVariablesForBulkInsert(i)
  <2>1. DOMAIN cells = ToSet(Columns)
    BY DEF prepareStatementVariablesForBulkInsert
  <2>2. ASSUME NEW c \in ToSet(Columns)
        PROVE  cells[c] \in DOMAIN Flat(arrays) /\ Flat(arrays)[cells[c]] = items[i][c]
    <3>1. Position(Columns, c) \in 1 .. l
      BY <1>1, PositionFinds DEF l
    <3>2. at[i - 1] = (i - 1) * l /\ at[i - 1] \in Nat
      <4>1. i - 1 \in 0 .. m
        BY <1>1
      <4>2. at[i - 1] \in Nat
        BY <1>7, <4>1
      <4>3. at[i - 1] = (i - 1) * l
        BY <1>8, <4>1, Zenon
      <4> QED BY <4>2, <4>3
    <3>3. cells[c] = Position(Columns, c) + (i - 1) * l
      BY DEF prepareStatementVariablesForBulkInsert, l
    <3>4. cells[c] = at[i - 1] + Position(Columns, c)
      BY <3>1, <3>2, <3>3
    <3>5. Position(Columns, c) \in Nat
      BY <1>1, <3>1
    <3> HIDE DEF cells
    <3> QED BY <1>2, <1>7, <3>1, <3>4, <3>5
  <2> HIDE DEF cells
  <2>3. WritesItem(WriteOf(cells, Flat(arrays)), items[i]) /\ ~Unbound(WriteOf(cells, Flat(arrays)))
    BY <1>2, <2>1, <2>2, WriteOfIs
  <2> QED BY <2>3 DEF cells
<1> QED BY <1>1, <1>3, <1>9 DEF WritesItems, BindsItems

LEMMA MysqlInsertWrites ==
    ASSUME NEW items, IsItems(items), AreWhole(items)
    PROVE  WritesItems(MysqlInsert(items), items) /\ BindsItems(MysqlInsert(items), items)
<1>1. ASSUME NEW i \in DOMAIN items
      PROVE  LET write == WriteOf([c \in ToSet(Columns) |-> Position(Columns, c)],
                                  asParamArrays(items[i]))
             IN  WritesItem(write, items[i]) /\ ~Unbound(write)
  <2> DEFINE cells == [c \in ToSet(Columns) |-> Position(Columns, c)]
  <2>1. IsItem(items[i]) /\ DOMAIN items[i] = ToSet(Columns)
    BY DEF IsItems, AreWhole
  <2>2. \A c \in ToSet(Columns) :
            /\ Position(Columns, c) \in DOMAIN asParamArrays(items[i])
            /\ asParamArrays(items[i])[Position(Columns, c)] = items[i][c]
    BY <2>1, ColumnsAre, PositionFinds, ParamArraysAre
  <2>3. DOMAIN cells = DOMAIN items[i]
        /\ \A c \in DOMAIN items[i] :
              /\ cells[c] \in DOMAIN asParamArrays(items[i])
              /\ asParamArrays(items[i])[cells[c]] = items[i][c]
    BY <2>1, <2>2
  <2> HIDE DEF cells
  <2>4. /\ WritesItem(WriteOf(cells, asParamArrays(items[i])), items[i])
        /\ ~Unbound(WriteOf(cells, asParamArrays(items[i])))
    BY <2>3, WriteOfIs
  <2> QED BY <2>4 DEF cells
<1> QED BY <1>1 DEF MysqlInsert, WritesItems, BindsItems

(* Items with one set of columns. *)
Alike(items) == \A i, j \in DOMAIN items : DOMAIN items[i] = DOMAIN items[j]

LEMMA PostgresUpdateWrites ==
    ASSUME NEW items, IsItems(items),
           \A i \in DOMAIN items : "_id" \in DOMAIN items[i]
    PROVE  /\ BindsItems(PostgresUpdate(items), items)
           /\ Alike(items) => WritesItems(PostgresUpdate(items), items)
<1> DEFINE fields   == Append(updateFieldsFor(items[1]), "_id")
           write(i) == WriteOf([c \in ToSet(fields) |-> Position(fields, c)],
                               Picked(items[i], fields))
<1>1. ASSUME NEW i \in DOMAIN items
      PROVE  /\ ~Unbound(write(i))
             /\ Alike(items) => WritesItem(write(i), items[i])
  <2>1. 1 \in DOMAIN items
    BY DEF IsItems
  <2>2. IsItem(items[1]) /\ "_id" \in DOMAIN items[1]
    BY <2>1 DEF IsItems
  <2>3. fields \in Seq(STRING) /\ ToSet(fields) = DOMAIN items[1]
    <3>1. /\ updateFieldsFor(items[1]) \in Seq(STRING)
          /\ ToSet(updateFieldsFor(items[1])) = DOMAIN items[1] \ {"_id"}
      BY <2>2, KeysAre
    <3> QED BY <2>2, <3>1, UpdateFields
  <2> HIDE DEF fields
  <2> DEFINE cells == [c \in ToSet(fields) |-> Position(fields, c)]
             p     == Picked(items[i], fields)
  <2>4. /\ DOMAIN p = 1 .. Len(fields) /\ Len(fields) \in Nat /\ DOMAIN fields = 1 .. Len(fields)
        /\ \A c \in ToSet(fields) : c \in DOMAIN items[i] => p[Position(fields, c)] = items[i][c]
    BY <2>3, PickedIs
  <2> HIDE DEF p
  <2>5. \A c \in DOMAIN cells : cells[c] \in DOMAIN p
    BY <2>4, PositionFinds
  <2>6. Alike(items) => /\ DOMAIN cells = DOMAIN items[i]
                        /\ \A c \in DOMAIN items[i] : p[cells[c]] = items[i][c]
    BY <2>1, <2>3, <2>4 DEF Alike
  <2> HIDE DEF cells
  <2>7. ~Unbound(WriteOf(cells, p)) /\ (Alike(items) => WritesItem(WriteOf(cells, p), items[i]))
    BY <2>5, <2>6, WriteOfIs
  <2> QED BY <2>7 DEF cells, p
<1>2. PostgresUpdate(items) = [i \in DOMAIN items |-> write(i)]
  BY DEF PostgresUpdate
<1> HIDE DEF write
<1> QED BY <1>1, <1>2 DEF WritesItems, BindsItems

(* Statements that share one list of parameters: behind what the ones      *)
(* before it have, each finds its own.                                     *)
LEMMA SharedParams ==
    ASSUME NEW items, IsItems(items), NEW fields,
           DOMAIN fields = DOMAIN items,
           \A i \in DOMAIN items : fields[i] \in Seq(STRING)
    PROVE  \E at \in [0 .. Len(items) -> Nat] :
              /\ at[0] = 0
              /\ \A n \in 1 .. Len(items) : at[n] = at[n - 1] + Len(fields[n])
              /\ \A i \in DOMAIN items :
                    LET write == WriteOf([c \in ToSet(fields[i]) |-> at[i - 1] + Position(fields[i], c)],
                                         Flat([j \in DOMAIN items |-> Picked(items[j], fields[j])]))
                    IN  /\ ~Unbound(write)
                        /\ ToSet(fields[i]) = DOMAIN items[i] => WritesItem(write, items[i])
<1> DEFINE arrays == [j \in DOMAIN items |-> Picked(items[j], fields[j])]
           V      == ValuesOf(items)
           m      == Len(items)
<1>1. m \in Nat /\ DOMAIN items = 1 .. m
  BY DEF IsItems
<1>2. ASSUME NEW i \in 1 .. m
      PROVE  /\ arrays[i] \in Seq(V) /\ Len(arrays[i]) = Len(fields[i])
             /\ DOMAIN fields[i] = 1 .. Len(fields[i]) /\ Len(fields[i]) \in Nat
             /\ \A c \in ToSet(fields[i]) :
                   c \in DOMAIN items[i] => arrays[i][Position(fields[i], c)] = items[i][c]
  <2>1. i \in DOMAIN items /\ fields[i] \in Seq(STRING)
    BY <1>1, <1>2
  <2>2. arrays[i] = Picked(items[i], fields[i])
    BY <2>1
  <2>3. /\ Picked(items[i], fields[i]) \in Seq(V)
        /\ Len(Picked(items[i], fields[i])) = Len(fields[i])
        /\ \A c \in ToSet(fields[i]) :
              c \in DOMAIN items[i] =>
                  Picked(items[i], fields[i])[Position(fields[i], c)] = items[i][c]
    BY <2>1, PickedIs
  <2> HIDE DEF arrays, V
  <2>4. DOMAIN fields[i] = 1 .. Len(fields[i]) /\ Len(fields[i]) \in Nat
    BY <2>1
  <2> QED BY <2>1, <2>2, <2>3, <2>4
<1>3. DOMAIN arrays = 1 .. m
  BY <1>1
<1> HIDE DEF V, m
<1>4. arrays \in Seq(Seq(V)) /\ Len(arrays) = m
  <2>1. arrays = [i \in 1 .. m |-> arrays[i]]
    BY <1>3
  <2> HIDE DEF arrays
  <2> QED BY <1>1, <1>2, <2>1
<1> HIDE DEF arrays
<1>5. PICK at : Places(arrays, V, at)
  BY <1>4, FlatPlaces
<1>6. /\ at \in [0 .. m -> Nat] /\ at[0] = 0
      /\ \A n \in 1 .. m : at[n] = at[n - 1] + Len(fields[n])
      /\ \A i \in 1 .. m, k \in Nat :
            k \in 1 .. Len(fields[i]) =>
                /\ at[i - 1] + k \in DOMAIN Flat(arrays)
                /\ Flat(arrays)[at[i - 1] + k] = arrays[i][k]
  BY <1>2, <1>4, <1>5 DEF Places
<1>7. ASSUME NEW i \in 1 .. m
      PROVE  LET write == WriteOf([c \in ToSet(fields[i]) |-> at[i - 1] + Position(fields[i], c)],
                                  Flat(arrays))
             IN  /\ ~Unbound(write)
                 /\ ToSet(fields[i]) = DOMAIN items[i] => WritesItem(write, items[i])
  <2> DEFINE cells == [c \in ToSet(fields[i]) |-> at[i - 1] + Position(fields[i], c)]
  <2>1. ASSUME NEW c \in ToSet(fields[i])
        PROVE  /\ at[i - 1] + Position(fields[i], c) \in DOMAIN Flat(arrays)
               /\ c \in DOMAIN items[i] =>
                     Flat(arrays)[at[i - 1] + Position(fields[i], c)] = items[i][c]
    <3>1. Position(fields[i], c) \in 1 .. Len(fields[i])
      BY <1>2, PositionFinds
    <3>2. Position(fields[i], c) \in Nat
      BY <1>2, <3>1
    <3> QED BY <1>2, <1>6, <3>1, <3>2
  <2>2. /\ \A c \in DOMAIN cells : cells[c] \in DOMAIN Flat(arrays)
        /\ ToSet(fields[i]) = DOMAIN items[i] =>
              /\ DOMAIN cells = DOMAIN items[i]
              /\ \A c \in DOMAIN items[i] : Flat(arrays)[cells[c]] = items[i][c]
    BY <2>1
  <2> HIDE DEF cells
  <2>3. /\ ~Unbound(WriteOf(cells, Flat(arrays)))
        /\ ToSet(fields[i]) = DOMAIN items[i] => WritesItem(WriteOf(cells, Flat(arrays)), items[i])
    <3>1. ~Unbound(WriteOf(cells, Flat(arrays)))
      BY <2>2, WriteOfIs
    <3>2. ASSUME ToSet(fields[i]) = DOMAIN items[i]
          PROVE  WritesItem(WriteOf(cells, Flat(arrays)), items[i])
      <4>1. /\ DOMAIN cells = DOMAIN items[i]
            /\ \A c \in DOMAIN items[i] : Flat(arrays)[cells[c]] = items[i][c]
        BY <2>2, <3>2
      <4> QED BY <4>1, WriteOfIs
    <3> QED BY <3>1, <3>2
  <2> QED BY <2>3 DEF cells
<1> QED BY <1>1, <1>6, <1>7 DEF arrays, m

LEMMA MysqlUpdateWrites ==
    ASSUME NEW items, IsItems(items),
           \A i \in DOMAIN items : "_id" \in DOMAIN items[i]
    PROVE  /\ BindsItems(MysqlUpdate(items), items)
           /\ Alike(items) => WritesItems(MysqlUpdate(items), items)
<1> DEFINE f      == Append(updateFieldsFor(items[1]), "_id")
           fields == [i \in DOMAIN items |-> f]
           params == Flat([i \in DOMAIN items |-> Picked(items[i], f)])
<1>1. ASSUME NEW i \in DOMAIN items
      PROVE  f \in Seq(STRING) /\ (Alike(items) => ToSet(f) = DOMAIN items[i])
  <2>1. 1 \in DOMAIN items /\ (Alike(items) => DOMAIN items[i] = DOMAIN items[1])
    BY DEF IsItems, Alike
  <2>2. IsItem(items[1]) /\ "_id" \in DOMAIN items[1]
    BY <2>1 DEF IsItems
  <2>3. /\ updateFieldsFor(items[1]) \in Seq(STRING)
        /\ ToSet(updateFieldsFor(items[1])) = DOMAIN items[1] \ {"_id"}
    BY <2>2, KeysAre
  <2> QED BY <2>1, <2>2, <2>3, UpdateFields
<1>2. MysqlUpdate(items) =
          [i \in DOMAIN items |->
              WriteOf([c \in ToSet(f) |-> (i - 1) * Len(f) + Position(f, c)], params)]
  BY DEF MysqlUpdate
<1> HIDE DEF f
<1>3. DOMAIN fields = DOMAIN items
      /\ \A i \in DOMAIN items :
            /\ fields[i] = f /\ fields[i] \in Seq(STRING)
            /\ Alike(items) => ToSet(fields[i]) = DOMAIN items[i]
  BY <1>1
<1>4. params = Flat([j \in DOMAIN items |-> Picked(items[j], fields[j])])
  <2>1. [i \in DOMAIN items |-> Picked(items[i], f)] = [j \in DOMAIN items |-> Picked(items[j], fields[j])]
    BY <1>3
  <2> QED BY <2>1, Zenon
<1> HIDE DEF fields, params
<1>5. PICK at \in [0 .. Len(items) -> Nat] :
          /\ at[0] = 0
          /\ \A n \in 1 .. Len(items) : at[n] = at[n - 1] + Len(fields[n])
          /\ \A i \in DOMAIN items :
                LET write == WriteOf([c \in ToSet(fields[i]) |-> at[i - 1] + Position(fields[i], c)],
                                     params)
                IN  /\ ~Unbound(write)
                    /\ ToSet(fields[i]) = DOMAIN items[i] => WritesItem(write, items[i])
  BY <1>3, <1>4, SharedParams
<1>6. ASSUME NEW i \in DOMAIN items
      PROVE  LET write == WriteOf([c \in ToSet(f) |-> (i - 1) * Len(f) + Position(f, c)], params)
             IN  /\ ~Unbound(write)
                 /\ Alike(items) => WritesItem(write, items[i])
  <2>1. Len(items) \in Nat /\ DOMAIN items = 1 .. Len(items)
    BY DEF IsItems
  <2>2. Len(f) \in Nat
    BY <1>1
  <2>3. \A n \in 1 .. Len(items) : at[n] = at[n - 1] + Len(f)
    BY <1>3, <1>5, <2>1
  <2>4. \A n \in 0 .. Len(items) : at[n] = n * Len(f)
    BY <2>1, <2>2, <2>3, <1>5, EvenPlaces
  <2>5. at[i - 1] = (i - 1) * Len(f)
    BY <2>1, <2>4
  <2>6. LET write == WriteOf([c \in ToSet(f) |-> at[i - 1] + Position(f, c)], params)
        IN  /\ ~Unbound(write)
            /\ Alike(items) => WritesItem(write, items[i])
    BY <1>3, <1>5
  <2> QED BY <2>5, <2>6
<1> QED BY <1>2, <1>6 DEF WritesItems, BindsItems

(* Where a sequence is does not depend on those behind it. *)
LEMMA LengthBefore ==
    ASSUME NEW k \in Nat, NEW fields, NEW at,
           \A n \in 1 .. k : fields[n] \in Seq(STRING),
           at[0] = 0,
           \A n \in 1 .. k : at[n] = at[n - 1] + Len(fields[n])
    PROVE  Len(Flat([j \in 1 .. k |-> fields[j]])) = at[k]
<1> DEFINE s == [j \in 1 .. k |-> fields[j]]
           len == [j \in 1 .. k |-> Len(fields[j])]
<1>1. s \in Seq(Seq(STRING)) /\ Len(s) = k /\ \A n \in 1 .. k : s[n] = fields[n] /\ len[n] = Len(fields[n])
  OBVIOUS
<1> HIDE DEF s, len
<1>2. PICK bt : Places(s, STRING, bt)
  BY <1>1, FlatPlaces
<1>3. /\ bt[0] = 0 /\ Len(Flat(s)) = bt[Len(s)]
      /\ \A n \in 1 .. Len(s) : bt[n] = bt[n - 1] + Len(s[n])
  BY <1>2 DEF Places
<1>4. ASSUME NEW n \in 1 .. k
      PROVE  at[n] = at[n - 1] + len[n] /\ bt[n] = bt[n - 1] + len[n]
  BY <1>1, <1>3
<1> DEFINE T == {n \in Nat : at[n] = bt[n]}
<1>5. 0 \in T
  BY <1>3
<1>6. ASSUME NEW n \in 1 .. k, n - 1 \in T PROVE n \in T
  <2>1. n \in Nat /\ at[n - 1] = bt[n - 1]
    BY <1>6
  <2> QED BY <1>4, <2>1
<1> HIDE DEF T
<1>7. k \in T
  BY <1>5, <1>6, PrefixInduction
<1>8. at[k] = bt[k]
  BY <1>7 DEF T
<1> QED BY <1>1, <1>3, <1>8 DEF s

(* Items without a missing value. *)
Filled(items) == \A i \in DOMAIN items : \A c \in DOMAIN items[i] : ~isNull(items[i][c])

LEMMA BigqueryUpdateWrites ==
    ASSUME NEW items, IsItems(items),
           \A i \in DOMAIN items : "_id" \in DOMAIN items[i]
    PROVE  /\ BindsItems(BigqueryUpdate(items), items)
           /\ Filled(items) => WritesItems(BigqueryUpdate(items), items)
<1> DEFINE f(i)   == Append(updateFieldsWithoutNulls(items[i]), "_id")
           fields == [i \in DOMAIN items |-> f(i)]
           params == Flat([i \in DOMAIN items |-> Picked(items[i], f(i))])
           before(i) == Len(Flat([j \in 1 .. (i - 1) |-> f(j)]))
<1>1. ASSUME NEW i \in DOMAIN items
      PROVE  f(i) \in Seq(STRING) /\ (Filled(items) => ToSet(f(i)) = DOMAIN items[i])
  <2>1. /\ IsItem(items[i]) /\ "_id" \in DOMAIN items[i]
        /\ Filled(items) => \A c \in DOMAIN items[i] : ~isNull(items[i][c])
    BY DEF IsItems, Filled
  <2>2. /\ updateFieldsWithoutNulls(items[i]) \in Seq(STRING)
        /\ Filled(items) => ToSet(updateFieldsWithoutNulls(items[i])) = DOMAIN items[i] \ {"_id"}
    BY <2>1, KeysAre
  <2>3. f(i) \in Seq(STRING)
    BY <2>2, ColumnsAre, AppendKeeps DEF ToSet
  <2> QED BY <2>1, <2>2, <2>3, UpdateFields
<1>2. BigqueryUpdate(items) =
          [i \in DOMAIN items |->
              WriteOf([c \in ToSet(f(i)) |-> before(i) + Position(f(i), c)], params)]
  BY DEF BigqueryUpdate
<1> HIDE DEF f
<1>3. DOMAIN fields = DOMAIN items
      /\ \A i \in DOMAIN items :
            /\ fields[i] = f(i) /\ fields[i] \in Seq(STRING)
            /\ Filled(items) => ToSet(fields[i]) = DOMAIN items[i]
  BY <1>1
<1>4. params = Flat([j \in DOMAIN items |-> Picked(items[j], fields[j])])
  <2>1. [i \in DOMAIN items |-> Picked(items[i], f(i))]
        = [j \in DOMAIN items |-> Picked(items[j], fields[j])]
    BY <1>3
  <2> QED BY <2>1, Zenon
<1> HIDE DEF fields, params
<1>5. PICK at \in [0 .. Len(items) -> Nat] :
          /\ at[0] = 0
          /\ \A n \in 1 .. Len(items) : at[n] = at[n - 1] + Len(fields[n])
          /\ \A i \in DOMAIN items :
                LET write == WriteOf([c \in ToSet(fields[i]) |-> at[i - 1] + Position(fields[i], c)],
                                     params)
                IN  /\ ~Unbound(write)
                    /\ ToSet(fields[i]) = DOMAIN items[i] => WritesItem(write, items[i])
  BY <1>3, <1>4, SharedParams
<1>6. ASSUME NEW i \in DOMAIN items
      PROVE  LET write == WriteOf([c \in ToSet(f(i)) |-> before(i) + Position(f(i), c)], params)
             IN  /\ ~Unbound(write)
                 /\ Filled(items) => WritesItem(write, items[i])
  <2>1. /\ i - 1 \in Nat
        /\ \A n \in 1 .. (i - 1) : n \in DOMAIN items /\ n \in 1 .. Len(items)
    BY DEF IsItems
  <2>2. [j \in 1 .. (i - 1) |-> f(j)] = [j \in 1 .. (i - 1) |-> fields[j]]
    BY <1>3, <2>1
  <2>3. Len(Flat([j \in 1 .. (i - 1) |-> fields[j]])) = at[i - 1]
    <3>1. /\ \A n \in 1 .. (i - 1) : fields[n] \in Seq(STRING)
          /\ at[0] = 0
          /\ \A n \in 1 .. (i - 1) : at[n] = at[n - 1] + Len(fields[n])
      BY <1>3, <1>5, <2>1
    <3> DEFINE k == i - 1
    <3>2. k \in Nat
      BY <2>1
    <3> HIDE DEF k
    <3>3. Len(Flat([j \in 1 .. k |-> fields[j]])) = at[k]
      <4>1. /\ \A n \in 1 .. k : fields[n] \in Seq(STRING)
            /\ at[0] = 0
            /\ \A n \in 1 .. k : at[n] = at[n - 1] + Len(fields[n])
        BY <3>1 DEF k
      <4> QED BY <3>2, <4>1, LengthBefore, Zenon
    <3> QED BY <3>3 DEF k
  <2>4. before(i) = at[i - 1]
    BY <2>2, <2>3, Zenon
  <2> HIDE DEF before
  <2>5. LET write == WriteOf([c \in ToSet(f(i)) |-> at[i - 1] + Position(f(i), c)], params)
        IN  /\ ~Unbound(write)
            /\ Filled(items) => WritesItem(write, items[i])
    BY <1>3, <1>5
  <2> QED BY <2>4, <2>5
<1> QED BY <1>2, <1>6 DEF WritesItems, BindsItems

-----------------------------------------------------------------------------
(* The named parameters of SQL Server.                                     *)

IsMerged(F, items, m) ==
    F = [n \in 0 .. m |->
            IF n = 0 THEN <<>> ELSE Spread(F[n - 1], patch(items[n], n - 1))]

LEMMA MergedExists ==
    ASSUME NEW items, NEW m \in Nat
    PROVE  \E F : IsMerged(F, items, m)
<1> DEFINE S == {n \in Nat : \E F : IsMerged(F, items, n)}
<1>1. 0 \in S
  <2>1. IsMerged([n \in 0 .. 0 |-> <<>>], items, 0)
    BY DEF IsMerged
  <2> QED BY <2>1
<1>2. ASSUME NEW k \in 1 .. m, k - 1 \in S PROVE k \in S
  <2>1. PICK F : IsMerged(F, items, k - 1)
    BY <1>2
  <2> DEFINE G == [n \in 0 .. k |->
                      IF n = k THEN Spread(F[k - 1], patch(items[n], n - 1)) ELSE F[n]]
  <2>2. \A n \in 0 .. k - 1 :
            F[n] = IF n = 0 THEN <<>> ELSE Spread(F[n - 1], patch(items[n], n - 1))
    BY <2>1 DEF IsMerged
  <2>3. \A n \in 0 .. k :
            G[n] = IF n = 0 THEN <<>> ELSE Spread(G[n - 1], patch(items[n], n - 1))
    BY <2>2
  <2>4. IsMerged(G, items, k)
    BY <2>3 DEF IsMerged
  <2> QED BY <2>4
<1> HIDE DEF S
<1>3. m \in S
  BY <1>1, <1>2, PrefixInduction
<1> QED BY <1>3 DEF S

LEMMA MergedUnfolds ==
    ASSUME NEW items, IsItems(items)
    PROVE  \E F : /\ \A n \in 1 .. Len(items) : F[n] = Spread(F[n - 1], patch(items[n], n - 1))
                  /\ MssqlInsert(items) =
                        [i \in DOMAIN items |->
                            WriteOf([c \in ToSet(Columns) |->
                                        patchFieldName(keysOf(items[i])[Position(Columns, c)], i - 1)],
                                    F[Len(items)])]
<1> DEFINE F == CHOOSE F : IsMerged(F, items, Len(items))
<1>1. Len(items) \in Nat
  BY DEF IsItems
<1>2. IsMerged(F, items, Len(items))
  BY <1>1, MergedExists
<1>3. MssqlInsert(items) =
          [i \in DOMAIN items |->
              WriteOf([c \in ToSet(Columns) |->
                          patchFieldName(keysOf(items[i])[Position(Columns, c)], i - 1)],
                      F[Len(items)])]
  BY DEF MssqlInsert, IsMerged
<1> HIDE DEF F
<1>4. \A n \in 0 .. Len(items) :
          F[n] = IF n = 0 THEN <<>> ELSE Spread(F[n - 1], patch(items[n], n - 1))
  BY <1>2 DEF IsMerged
<1>5. ASSUME NEW n \in 1 .. Len(items) PROVE F[n] = Spread(F[n - 1], patch(items[n], n - 1))
  <2>1. n \in 0 .. Len(items) /\ n # 0
    BY <1>1
  <2>2. F[n] = IF n = 0 THEN <<>> ELSE Spread(F[n - 1], patch(items[n], n - 1))
    BY <1>4, <2>1, Zenon
  <2> QED BY <2>1, <2>2, Zenon
<1> QED BY <1>3, <1>5

(* No two cells have one name. *)
NamesApart(n) ==
    \A i, j \in 1 .. n, c, d \in ToSet(Columns) :
        patchFieldName(c, i - 1) = patchFieldName(d, j - 1) => i = j /\ c = d

LEMMA MssqlInsertWrites ==
    ASSUME NEW items, IsItems(items), AreWhole(items)
    PROVE  /\ BindsItems(MssqlInsert(items), items)
           /\ NamesApart(Len(items)) => WritesItems(MssqlInsert(items), items)
<1> DEFINE m == Len(items)
<1>1. m \in Nat /\ DOMAIN items = 1 .. m
  BY DEF IsItems
<1>2. PICK F : /\ \A n \in 1 .. m : F[n] = Spread(F[n - 1], patch(items[n], n - 1))
               /\ MssqlInsert(items) =
                     [i \in DOMAIN items |->
                         WriteOf([c \in ToSet(Columns) |->
                                     patchFieldName(keysOf(items[i])[Position(Columns, c)], i - 1)],
                                 F[m])]
  BY MergedUnfolds
<1> HIDE DEF m
<1>3. ASSUME NEW n \in 1 .. m
      PROVE  /\ DOMAIN patch(items[n], n - 1) = {patchFieldName(c, n - 1) : c \in ToSet(Columns)}
             /\ NamesApart(m) =>
                   \A c \in ToSet(Columns) :
                       patch(items[n], n - 1)[patchFieldName(c, n - 1)] = items[n][c]
  <2>1. DOMAIN items[n] = ToSet(Columns)
    BY <1>1 DEF AreWhole
  <2>2. NamesApart(m) =>
            \A c, d \in ToSet(Columns) : patchFieldName(c, n - 1) = patchFieldName(d, n - 1) => c = d
    BY DEF NamesApart
  <2>3. DOMAIN patch(items[n], n - 1) = {patchFieldName(c, n - 1) : c \in ToSet(Columns)}
    BY <2>1 DEF patch
  <2>4. ASSUME NamesApart(m), NEW c \in ToSet(Columns)
        PROVE  patch(items[n], n - 1)[patchFieldName(c, n - 1)] = items[n][c]
    <3> DEFINE d == CHOOSE e \in DOMAIN items[n] : patchFieldName(e, n - 1) = patchFieldName(c, n - 1)
    <3>1. d \in ToSet(Columns) /\ patchFieldName(d, n - 1) = patchFieldName(c, n - 1)
      BY <2>1
    <3>2. d = c
      BY <2>2, <2>4, <3>1
    <3>3. patchFieldName(c, n - 1) \in {patchFieldName(e, n - 1) : e \in DOMAIN items[n]}
      BY <2>1
    <3>4. patch(items[n], n - 1)[patchFieldName(c, n - 1)] = items[n][d]
      BY <3>3 DEF patch
    <3> HIDE DEF d
    <3> QED BY <3>2, <3>4
  <2> QED BY <2>3, <2>4
<1> DEFINE T == {n \in Nat : \A i \in 1 .. n, c \in ToSet(Columns) :
                     /\ patchFieldName(c, i - 1) \in DOMAIN F[n]
                     /\ NamesApart(m) => F[n][patchFieldName(c, i - 1)] = items[i][c]}
<1>4. 0 \in T
  OBVIOUS
<1>5. ASSUME NEW n \in 1 .. m, n - 1 \in T
      PROVE  n \in T
  <2> DEFINE t == patch(items[n], n - 1)
             p == F[n - 1]
  <2>1. F[n] = [s \in DOMAIN p \cup DOMAIN t |-> IF s \in DOMAIN t THEN t[s] ELSE p[s]]
    BY <1>2 DEF Spread
  <2>2. \A i \in 1 .. (n - 1), c \in ToSet(Columns) :
            /\ patchFieldName(c, i - 1) \in DOMAIN p
            /\ NamesApart(m) => p[patchFieldName(c, i - 1)] = items[i][c]
    BY <1>5
  <2>3. /\ DOMAIN t = {patchFieldName(c, n - 1) : c \in ToSet(Columns)}
        /\ NamesApart(m) => \A c \in ToSet(Columns) : t[patchFieldName(c, n - 1)] = items[n][c]
    BY <1>3
  <2> HIDE DEF t, p
  <2>4. ASSUME NEW i \in 1 .. n, NEW c \in ToSet(Columns)
        PROVE  /\ patchFieldName(c, i - 1) \in DOMAIN F[n]
               /\ NamesApart(m) => F[n][patchFieldName(c, i - 1)] = items[i][c]
    <3>1. CASE i = n
      <4>1. patchFieldName(c, n - 1) \in DOMAIN t
        BY <2>3
      <4> QED BY <2>1, <2>3, <3>1, <4>1
    <3>2. CASE i # n
      <4>1. i \in 1 .. (n - 1)
        BY <1>1, <3>2
      <4>2. NamesApart(m) => patchFieldName(c, i - 1) \notin DOMAIN t
        <5>1. i \in 1 .. m
          BY <1>1
        <5>2. NamesApart(m) =>
                  \A d \in ToSet(Columns) : patchFieldName(c, i - 1) # patchFieldName(d, n - 1)
          BY <3>2, <5>1 DEF NamesApart
        <5> QED BY <2>3, <5>2
      <4>3. /\ patchFieldName(c, i - 1) \in DOMAIN p
            /\ NamesApart(m) => p[patchFieldName(c, i - 1)] = items[i][c]
        BY <2>2, <4>1
      <4> QED BY <2>1, <4>2, <4>3
    <3> QED BY <3>1, <3>2
  <2> QED BY <2>4
<1> HIDE DEF T
<1>6. m \in T
  BY <1>1, <1>4, <1>5, PrefixInduction
<1>7. ASSUME NEW i \in 1 .. m
      PROVE  LET write == WriteOf([c \in ToSet(Columns) |->
                                      patchFieldName(keysOf(items[i])[Position(Columns, c)], i - 1)],
                                  F[m])
             IN  /\ ~Unbound(write)
                 /\ NamesApart(m) => WritesItem(write, items[i])
  <2> DEFINE cells == [c \in ToSet(Columns) |->
                          patchFieldName(keysOf(items[i])[Position(Columns, c)], i - 1)]
  <2>1. DOMAIN items[i] = ToSet(Columns) /\ keysOf(items[i]) = Columns
    BY <1>1, KeysAre DEF IsItems, AreWhole
  <2>2. ASSUME NEW c \in ToSet(Columns)
        PROVE  cells[c] \in DOMAIN F[m] /\ (NamesApart(m) => F[m][cells[c]] = items[i][c])
    <3>1. Columns[Position(Columns, c)] = c
      BY ColumnsAre, PositionFinds
    <3>2. cells[c] = patchFieldName(c, i - 1)
      BY <2>1, <3>1
    <3> QED BY <1>6, <3>2 DEF T
  <2> HIDE DEF cells
  <2>3. DOMAIN cells = DOMAIN items[i]
    BY <2>1 DEF cells
  <2>4. ~Unbound(WriteOf(cells, F[m])) /\ (NamesApart(m) => WritesItem(WriteOf(cells, F[m]), items[i]))
    BY <2>1, <2>2, <2>3, WriteOfIs
  <2> QED BY <2>4 DEF cells
<1> QED BY <1>1, <1>2, <1>7 DEF WritesItems, BindsItems, m

-----------------------------------------------------------------------------
(* What the databases store.                                               *)

Databases ==
    {"postgres", "mysql", "mssql", "spanner", "bigquery", "mongo", "dynamodb", "firestore"}

Wrote(writes, items) == WritesItems(writes, items) /\ BindsItems(writes, items)

LEMMA OneByOneWrites ==
    ASSUME NEW items
    PROVE  Wrote(DynamoInsert(items), items) /\ Wrote(DynamoUpdate(items), items)
<1>1. /\ DynamoInsert(items) = WholeItems(items)
      /\ DynamoUpdate(items) = WholeItems(items)
  BY DEF DynamoInsert, DynamoUpdate, insertSingleItemCommand, updateSingleItemCommand, WholeItems
<1> QED BY <1>1, WholeItemsWrite DEF Wrote

LEMMA InsertWrites ==
    ASSUME NEW d \in Databases, NEW items, IsItems(items), AreWhole(items)
    PROVE  /\ BindsItems(Insert(d, items), items)
           /\ (d = "mssql" => NamesApart(Len(items))) => WritesItems(Insert(d, items), items)
<1>1. CASE d = "postgres"
  <2>1. Insert(d, items) = PostgresInsert(items)
    BY <1>1 DEF Insert
  <2> QED BY <2>1, PostgresInsertWrites
<1>2. CASE d = "mysql"
  <2>1. Insert(d, items) = MysqlInsert(items)
    BY <1>2 DEF Insert
  <2> QED BY <2>1, MysqlInsertWrites
<1>3. CASE d = "mssql"
  <2>1. Insert(d, items) = MssqlInsert(items)
    BY <1>3 DEF Insert
  <2> QED BY <1>3, <2>1, MssqlInsertWrites
<1>4. CASE d = "dynamodb"
  <2>1. Insert(d, items) = DynamoInsert(items)
    BY <1>4 DEF Insert
  <2> QED BY <2>1, OneByOneWrites DEF Wrote
<1>5. CASE d \in {"spanner", "bigquery", "mongo", "firestore"}
  <2>1. Insert(d, items) = WholeItems(items)
    BY <1>5 DEF Insert, SpannerInsert, BigqueryInsert, insertExpressionFor, FirestoreInsert
  <2> QED BY <2>1, WholeItemsWrite
<1> QED BY <1>1, <1>2, <1>3, <1>4, <1>5 DEF Databases

LEMMA UpdateWrites ==
    ASSUME NEW d \in Databases, NEW items, IsItems(items),
           \A i \in DOMAIN items : "_id" \in DOMAIN items[i]
    PROVE  /\ BindsItems(Update(d, items), items)
           /\ /\ d \in {"postgres", "mysql"} => Alike(items)
              /\ d = "bigquery" => Filled(items)
              => WritesItems(Update(d, items), items)
<1>1. CASE d = "postgres"
  <2>1. Update(d, items) = PostgresUpdate(items)
    BY <1>1 DEF Update
  <2> QED BY <1>1, <2>1, PostgresUpdateWrites
<1>2. CASE d = "mysql"
  <2>1. Update(d, items) = MysqlUpdate(items)
    BY <1>2 DEF Update
  <2> QED BY <1>2, <2>1, MysqlUpdateWrites
<1>3. CASE d = "bigquery"
  <2>1. Update(d, items) = BigqueryUpdate(items)
    BY <1>3 DEF Update
  <2> QED BY <1>3, <2>1, BigqueryUpdateWrites
<1>4. CASE d = "dynamodb"
  <2>1. Update(d, items) = DynamoUpdate(items)
    BY <1>4 DEF Update
  <2> QED BY <2>1, OneByOneWrites DEF Wrote
<1>5. CASE d \in {"mssql", "spanner", "mongo", "firestore"}
  <2>1. Update(d, items) = WholeItems(items)
    BY <1>5 DEF Update, MssqlUpdate, SpannerUpdate, updateExpressionFor, FirestoreUpdate
  <2> QED BY <2>1, WholeItemsWrite
<1> QED BY <1>1, <1>2, <1>3, <1>4, <1>5 DEF Databases

-----------------------------------------------------------------------------
(* The items of a request, and what is made of them. *)
LEMMA PreparedIs ==
    ASSUME NEW r \in Requests, r.kind \in Kinds
    PROVE  /\ IsItems(Prepared(r).items)
           /\ DOMAIN Prepared(r).items = DOMAIN r.items
           /\ Len(Prepared(r).items) = Len(r.items)
           /\ r.kind = "insert" =>
                 /\ AreWhole(Prepared(r).items)
                 /\ \A i \in DOMAIN r.items : Prepared(r).items[i] = prepareForInsert(r.items[i])
           /\ r.kind = "update" =>
                 \A i \in DOMAIN r.items :
                     /\ Prepared(r).items[i] = prepareForUpdate(r.items[i])
                     /\ "_id" \in DOMAIN Prepared(r).items[i]
<1> DEFINE made(i) == IF r.kind = "insert" THEN prepareForInsert(r.items[i])
                      ELSE prepareForUpdate(r.items[i])
           items   == [i \in DOMAIN r.items |-> made(i)]
<1>1. Prepared(r).items = items
  BY DEF Prepared
<1>2. Len(r.items) \in Nat /\ DOMAIN r.items = 1 .. Len(r.items)
  <2>1. r.items \in Seq(ToSet(r.items))
    BY ItemsAssumption
  <2> QED BY <2>1
<1>3. ASSUME NEW item
      PROVE  /\ IsItem(prepareForInsert(item)) /\ DOMAIN prepareForInsert(item) = ToSet(Columns)
             /\ IsItem(prepareForUpdate(item))
             /\ DOMAIN prepareForUpdate(item) = DOMAIN item \cap ToSet(Columns)
  BY DEF IsItem, prepareForInsert, prepareForUpdate
<1>4. \A i \in DOMAIN r.items : IsItem(made(i))
  BY <1>3
<1>5. \A i \in DOMAIN r.items : items[i] = made(i)
  OBVIOUS
<1>6. r.kind = "insert" =>
          \A i \in DOMAIN r.items :
              items[i] = prepareForInsert(r.items[i]) /\ DOMAIN items[i] = ToSet(Columns)
  BY <1>3, <1>5
<1>7. r.kind = "update" =>
          \A i \in DOMAIN r.items :
              items[i] = prepareForUpdate(r.items[i]) /\ "_id" \in DOMAIN items[i]
  <2> SUFFICES ASSUME r.kind = "update", NEW i \in DOMAIN r.items
               PROVE  items[i] = prepareForUpdate(r.items[i]) /\ "_id" \in DOMAIN items[i]
    OBVIOUS
  <2>1. items[i] = prepareForUpdate(r.items[i])
    BY <1>5
  <2>2. "_id" \in DOMAIN r.items[i]
    BY ItemsAssumption
  <2> HIDE DEF items
  <2> QED BY <1>3, <2>1, <2>2, ColumnsAre
<1>8. DOMAIN items = 1 .. Len(r.items)
  BY <1>2
<1> HIDE DEF made, items
<1>9. Len(items) = Len(r.items)
  BY <1>2, <1>8
<1>10. IsItems(items)
  BY <1>2, <1>4, <1>5, <1>8, <1>9 DEF IsItems
<1>11. r.kind = "insert" => AreWhole(items)
  BY <1>2, <1>6, <1>8 DEF AreWhole
<1> QED BY <1>1, <1>2, <1>6, <1>7, <1>8, <1>9, <1>10, <1>11

-----------------------------------------------------------------------------
(* The invariant: how far a request is, and what was made of it.           *)

Stated == [writes |-> IF request.kind = "insert" THEN Insert(dialect, adapter.items)
                      ELSE Update(dialect, adapter.items)]

(* What a request has become at each of its phases. *)
WriteInv ==
    /\ request \in Requests /\ request.kind \in Kinds
    /\ dialect \in Dialects
    /\ phase \in {"asked", "validated", "stated", "answered", "failed"}
    /\ phase # "asked" => adapter = Prepared(request)
    /\ phase \in {"stated", "answered", "failed"} => statement = Stated
    /\ phase = "failed" => SetsNothing
    /\ phase = "answered" =>
           response.items = [i \in DOMAIN statement.writes |-> RowWritten(statement.writes[i])]

(* Whatever the database, no placeholder is without its value.             *)
LEMMA StatedBinds ==
    ASSUME WriteInv, phase = "stated"
    PROVE  ~ \E i \in DOMAIN statement.writes : Unbound(statement.writes[i])
<1> DEFINE items == adapter.items
<1>1. /\ request \in Requests /\ request.kind \in Kinds /\ dialect \in Databases
      /\ items = Prepared(request).items /\ statement = Stated
  BY DialectsAssumption DEF WriteInv, Databases
<1>2. IsItems(items) /\ DOMAIN items = DOMAIN request.items
  BY <1>1, PreparedIs
<1> HIDE DEF items
<1>3. CASE request.kind = "insert"
  <2>1. AreWhole(items)
    BY <1>1, <1>3, PreparedIs
  <2>2. BindsItems(Insert(dialect, items), items)
    BY <1>1, <1>2, <2>1, InsertWrites
  <2>3. statement.writes = Insert(dialect, items)
    BY <1>1, <1>3 DEF Stated, items
  <2> QED BY <2>2, <2>3 DEF BindsItems
<1>4. CASE request.kind = "update"
  <2>1. \A i \in DOMAIN items : "_id" \in DOMAIN items[i]
    BY <1>1, <1>2, <1>4, PreparedIs
  <2>2. BindsItems(Update(dialect, items), items)
    BY <1>1, <1>2, <2>1, UpdateWrites
  <2>3. statement.writes = Update(dialect, items)
    BY <1>1, <1>4 DEF Stated, items
  <2> QED BY <2>2, <2>3 DEF BindsItems
<1> QED BY <1>1, <1>3, <1>4 DEF Kinds

LEMMA WriteInvInit ==
    ASSUME Requested, request.kind \in Kinds
    PROVE  WriteInv
BY DEF Requested, WriteInv

LEMMA WriteInvKeeps ==
    ASSUME WriteInv, [WriteNext]_requestVars
    PROVE  WriteInv'
<1>1. CASE Prepare
  <2>1. phase = "asked" /\ phase' = "validated" /\ adapter' = Prepared(request)
        /\ request' = request /\ dialect' = dialect
    BY <1>1 DEF Prepare
  <2> QED BY <2>1 DEF WriteInv
<1>2. CASE StateWrite
  <2>1. /\ phase = "validated" /\ phase' = "stated" /\ statement' = Stated
        /\ request' = request /\ dialect' = dialect /\ adapter' = adapter
    BY <1>2 DEF StateWrite, Stated
  <2>2. Stated' = Stated
    BY <2>1 DEF Stated
  <2> QED BY <2>1, <2>2 DEF WriteInv
<1>3. CASE RunWrite
  <2>1. /\ phase = "stated"
        /\ request' = request /\ dialect' = dialect /\ adapter' = adapter /\ statement' = statement
        /\ \/ phase' = "failed" /\ SetsNothing
           \/ /\ phase' = "answered"
              /\ response'.items =
                     [i \in DOMAIN statement.writes |-> RowWritten(statement.writes[i])]
    <3>1. phase = "stated"
      BY <1>3 DEF RunWrite
    <3>2. ~ \E i \in DOMAIN statement.writes : Unbound(statement.writes[i])
      BY <3>1, StatedBinds
    <3>3. /\ request' = request /\ dialect' = dialect /\ adapter' = adapter
          /\ statement' = statement
      BY <1>3 DEF RunWrite
    <3>4. CASE SetsNothing
      <4>1. phase' = "failed"
        BY <1>3, <3>4 DEF RunWrite
      <4> QED BY <3>1, <3>3, <3>4, <4>1
    <3>5. CASE ~SetsNothing
      <4>1. ~ (SetsNothing \/ \E i \in DOMAIN statement.writes : Unbound(statement.writes[i]))
        BY <3>2, <3>5
      <4>2. /\ phase' = "answered"
            /\ response' = [of |-> "written",
                            items |-> [i \in DOMAIN statement.writes |->
                                          RowWritten(statement.writes[i])]]
        BY <1>3, <4>1 DEF RunWrite
      <4> QED BY <3>1, <3>3, <4>2
    <3> QED BY <3>4, <3>5
  <2>2. Stated' = Stated
    BY <2>1 DEF Stated
  <2>3. [i \in DOMAIN statement'.writes |-> RowWritten(statement'.writes[i])]
        = [i \in DOMAIN statement.writes |-> RowWritten(statement.writes[i])]
    BY <2>1
  <2>4. SetsNothing => SetsNothing'
    BY <2>1 DEF SetsNothing
  <2> QED BY <2>1, <2>2, <2>3, <2>4 DEF WriteInv
<1>4. CASE UNCHANGED requestVars
  <2>1. /\ request' = request /\ dialect' = dialect /\ phase' = phase /\ adapter' = adapter
        /\ statement' = statement /\ response' = response
    BY <1>4 DEF requestVars
  <2>2. Stated' = Stated
    BY <2>1 DEF Stated
  <2>3. [i \in DOMAIN statement'.writes |-> RowWritten(statement'.writes[i])]
        = [i \in DOMAIN statement.writes |-> RowWritten(statement.writes[i])]
    BY <2>1
  <2>4. SetsNothing => SetsNothing'
    BY <2>1 DEF SetsNothing
  <2> QED BY <2>1, <2>2, <2>3, <2>4 DEF WriteInv
<1> QED BY <1>1, <1>2, <1>3, <1>4 DEF WriteNext

-----------------------------------------------------------------------------
(* What the invariant says of what is stored.                              *)

LEMMA RowIsItem ==
    ASSUME NEW write, NEW item, IsItem(item), WritesItem(write, item)
    PROVE  RowWritten(write) = item
<1>1. RowWritten(write) = [c \in DOMAIN item |-> item[c]]
  BY DEF RowWritten, WritesItem
<1> QED BY <1>1 DEF IsItem

(* Whatever the database, the rows of a statement are the items it was     *)
(* made of, but for the mixed ones.                                        *)
LEMMA StatedWrites ==
    ASSUME WriteInv, phase = "answered", ~UpdatesMixed, ~InsertsMixed
    PROVE  WritesItems(statement.writes, adapter.items)
<1> DEFINE items == adapter.items
<1>1. /\ request \in Requests /\ request.kind \in Kinds /\ dialect \in Databases
      /\ items = Prepared(request).items /\ statement = Stated
  BY DialectsAssumption DEF WriteInv, Databases
<1>2. IsItems(items) /\ DOMAIN items = DOMAIN request.items /\ DOMAIN items = 1 .. Len(items)
  BY <1>1, PreparedIs DEF IsItems
<1> HIDE DEF items
<1>3. CASE request.kind = "insert"
  <2>1. AreWhole(items)
    BY <1>1, <1>3, PreparedIs
  <2>2. dialect = "mssql" => NamesApart(Len(items))
    <3> SUFFICES ASSUME dialect = "mssql",
                        NEW i \in 1 .. Len(items), NEW j \in 1 .. Len(items),
                        NEW c \in ToSet(Columns), NEW d \in ToSet(Columns),
                        patchFieldName(c, i - 1) = patchFieldName(d, j - 1)
                 PROVE  i = j /\ c = d
      BY DEF NamesApart
    <3>1. SqlServerName(c, i - 1) = SqlServerName(d, j - 1)
      BY DEF SqlServerName, patchFieldName
    <3>2. i \in DOMAIN request.items /\ j \in DOMAIN request.items
      BY <1>2
    <3> QED BY <1>3, <3>1, <3>2 DEF InsertsMixed
  <2>3. WritesItems(Insert(dialect, items), items)
    BY <1>1, <1>2, <2>1, <2>2, InsertWrites
  <2>4. statement.writes = Insert(dialect, items)
    BY <1>1, <1>3 DEF Stated, items
  <2> QED BY <2>3, <2>4 DEF items
<1>4. CASE request.kind = "update"
  <2>1. \A i \in DOMAIN items : "_id" \in DOMAIN items[i]
    BY <1>1, <1>2, <1>4, PreparedIs
  <2>2. dialect \in {"postgres", "mysql"} => Alike(items)
    <3>1. dialect \in {"postgres", "mysql"} =>
              \A i \in DOMAIN items : DOMAIN items[i] = DOMAIN items[1]
      BY <1>4 DEF UpdatesMixed, items
    <3> QED BY <3>1 DEF Alike
  <2>3. dialect = "bigquery" => Filled(items)
    BY <1>4 DEF UpdatesMixed, Filled, items
  <2>4. WritesItems(Update(dialect, items), items)
    BY <1>1, <1>2, <2>1, <2>2, <2>3, UpdateWrites
  <2>5. statement.writes = Update(dialect, items)
    BY <1>1, <1>4 DEF Stated, items
  <2> QED BY <2>4, <2>5 DEF items
<1> QED BY <1>1, <1>3, <1>4 DEF Kinds

LEMMA WriteInvTells ==
    ASSUME WriteInv
    PROVE  StoredWhole
<1> SUFFICES ASSUME phase = "answered", ~UpdatesMixed, ~InsertsMixed
             PROVE  /\ Len(response.items) = Len(request.items)
                    /\ \A i \in DOMAIN request.items :
                           LET sent   == request.items[i]
                               stored == response.items[i]
                               kept   == {c \in DOMAIN sent \cap ToSet(Columns) :
                                             request.kind = "update" \/ ~Falsy(sent[c])}
                           IN /\ \A c \in kept : c \in DOMAIN stored /\ stored[c] = sent[c]
                              /\ request.kind = "insert" =>
                                    /\ DOMAIN stored = ToSet(Columns)
                                    /\ ~isNull(stored["_id"])
                              /\ request.kind = "update" => DOMAIN stored = kept
  BY DEF StoredWhole, WriteInv
<1> DEFINE items == adapter.items
<1>1. /\ request \in Requests /\ request.kind \in Kinds
      /\ items = Prepared(request).items
      /\ response.items = [i \in DOMAIN statement.writes |-> RowWritten(statement.writes[i])]
  BY DEF WriteInv
<1>2. /\ IsItems(items) /\ DOMAIN items = DOMAIN request.items
      /\ Len(items) = Len(request.items)
  BY <1>1, PreparedIs
<1>3. WritesItems(statement.writes, items)
  BY StatedWrites
<1> HIDE DEF items
<1>4. /\ DOMAIN response.items = DOMAIN items
      /\ \A i \in DOMAIN items : response.items[i] = items[i]
  <2>1. DOMAIN statement.writes = DOMAIN items
    BY <1>3 DEF WritesItems
  <2>2. ASSUME NEW i \in DOMAIN items PROVE RowWritten(statement.writes[i]) = items[i]
    <3>1. WritesItem(statement.writes[i], items[i]) /\ IsItem(items[i])
      BY <1>2, <1>3 DEF WritesItems, IsItems
    <3> QED BY <3>1, RowIsItem
  <2> QED BY <1>1, <2>1, <2>2
<1>5. Len(response.items) = Len(request.items)
  <2>1. Len(items) \in Nat /\ DOMAIN items = 1 .. Len(items)
    BY <1>2 DEF IsItems
  <2> DEFINE stored == response.items
  <2>2. stored = [i \in 1 .. Len(items) |-> stored[i]]
    BY <1>1, <1>4, <2>1
  <2> HIDE DEF stored
  <2>3. Len(stored) = Len(items)
    BY <2>1, <2>2
  <2> QED BY <1>2, <2>3 DEF stored
<1>6. ASSUME NEW i \in DOMAIN request.items
      PROVE  LET sent   == request.items[i]
                 stored == response.items[i]
                 kept   == {c \in DOMAIN sent \cap ToSet(Columns) :
                               request.kind = "update" \/ ~Falsy(sent[c])}
             IN /\ \A c \in kept : c \in DOMAIN stored /\ stored[c] = sent[c]
                /\ request.kind = "insert" =>
                      /\ DOMAIN stored = ToSet(Columns)
                      /\ ~isNull(stored["_id"])
                /\ request.kind = "update" => DOMAIN stored = kept
  <2> DEFINE sent   == request.items[i]
             stored == response.items[i]
             kept   == {c \in DOMAIN sent \cap ToSet(Columns) :
                           request.kind = "update" \/ ~Falsy(sent[c])}
  <2>1. stored = items[i]
    BY <1>2, <1>4
  <2>2. CASE request.kind = "insert"
    <3>1. stored = prepareForInsert(sent)
      BY <1>1, <2>1, <2>2, PreparedIs
    <3>2. \A c \in kept : c \in ToSet(Columns) /\ c \in DOMAIN sent /\ ~Falsy(sent[c])
      BY <2>2
    <3> HIDE DEF sent, stored, kept
    <3>3. DOMAIN stored = ToSet(Columns)
      BY <3>1 DEF prepareForInsert
    <3>4. \A c \in kept : c \in DOMAIN stored /\ stored[c] = sent[c]
      BY <3>1, <3>2, <3>3 DEF prepareForInsert
    <3>5. ~isNull(stored["_id"])
      <4>1. NewId # Null
        BY DEF NewId, Null
      <4>2. stored["_id"] = IF "_id" \in DOMAIN sent /\ ~Falsy(sent["_id"]) THEN sent["_id"]
                            ELSE NewId
        BY <3>1, ColumnsAre DEF prepareForInsert, defaultValueFor
      <4> QED BY <4>1, <4>2 DEF isNull, Falsy
    <3>6. request.kind # "update"
      BY <2>2
    <3>7. /\ \A c \in kept : c \in DOMAIN stored /\ stored[c] = sent[c]
          /\ request.kind = "insert" =>
                DOMAIN stored = ToSet(Columns) /\ ~isNull(stored["_id"])
          /\ request.kind = "update" => DOMAIN stored = kept
      BY <3>3, <3>4, <3>5, <3>6
    <3> QED BY <3>7 DEF sent, stored, kept
  <2>3. CASE request.kind = "update"
    <3>1. stored = prepareForUpdate(sent)
      BY <1>1, <2>1, <2>3, PreparedIs
    <3>2. kept = DOMAIN sent \cap ToSet(Columns)
      BY <2>3
    <3> HIDE DEF sent, stored, kept
    <3>3. DOMAIN stored = kept /\ \A c \in kept : stored[c] = sent[c]
      BY <3>1, <3>2 DEF prepareForUpdate
    <3>4. request.kind # "insert"
      BY <2>3
    <3>5. /\ \A c \in kept : c \in DOMAIN stored /\ stored[c] = sent[c]
          /\ request.kind = "insert" =>
                DOMAIN stored = ToSet(Columns) /\ ~isNull(stored["_id"])
          /\ request.kind = "update" => DOMAIN stored = kept
      BY <3>3, <3>4
    <3> QED BY <3>5 DEF sent, stored, kept
  <2> QED BY <1>1, <2>2, <2>3 DEF Kinds
<1> QED BY <1>5, <1>6

(* Every item of an insertion or an update is written, no placeholder of   *)
(* the statement being without its value and only an update that sets      *)
(* nothing being refused, and is stored as the client sent it: where the   *)
(* statement is for the columns of the first item, or for values other     *)
(* than null, if the items are such, and on SQL Server if the names of its *)
(* parameters tell the cells apart (insert and update of the               *)
(* *_data_provider.ts).                                                    *)
THEOREM ItemsAreStoredWhole == WriteSpec => []StoredWhole
<1>1. Requested /\ request.kind \in Kinds => WriteInv
  BY WriteInvInit
<1>2. WriteInv /\ [WriteNext]_requestVars => WriteInv'
  BY WriteInvKeeps
<1>3. WriteInv => StoredWhole
  BY WriteInvTells
<1> QED BY <1>1, <1>2, <1>3, PTL DEF WriteSpec
==============================================================================
