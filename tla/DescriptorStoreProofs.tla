----------------------- MODULE DescriptorStoreProofs -----------------------
(***************************************************************************)
(* Proofs of DescriptorStore: types, what stays listed however calls       *)
(* overlap, what a drop heals, and that calls one after the other implement *)
(* ColumnCatalogue.                                                        *)
(*                                                                         *)
(* TInv says where each call may be, that a list read by a call that will  *)
(* write it back has the primary key once, and the same of every list that *)
(* is stored; it survives every interleaving.  SolosOK adds what is known  *)
(* of a call that overlaps no other: nothing has changed since it read.    *)
(* HealedOK follows a dropped collection until the next call about it.     *)
(*                                                                         *)
(* Without is a recursive function: that it is total, what it keeps and    *)
(* what it drops is proved by induction over the prefixes of the list.     *)
(***************************************************************************)
EXTENDS DescriptorStore, FiniteSetTheorems, SequenceTheorems, WellFoundedInduction, TLAPS

(* The primary key is listed, once. *)
KeyOnce(fields) ==
    \E i \in DOMAIN fields : \A j \in DOMAIN fields :
        fields[j].name = PrimaryKeyFieldName <=> j = i

Steps == {"idle", "ensuring", "creatingSystem", "reading", "writing", "creating", "dropping"}
Writing == {"create", "drop", "add", "remove", "change"}

Functional ==
    /\ store \in {"mongo", "dynamo", "firestore"}
    /\ DOMAIN desc = Collections
    /\ DOMAIN req = Tasks
    /\ DOMAIN seen = Tasks
    /\ DOMAIN answer = Tasks
    /\ pc \in [Tasks -> Steps]
    /\ tables \subseteq Collections

(* What was called is allowed, and is where its kind of call may be. *)
RequestOK(t) ==
    LET kind == req[t].kind
        col  == req[t].col
    IN  /\ kind \in {"create", "drop", "add", "remove", "change", "describe", "list"}
        /\ req[t].coll \in Collections
        /\ col \in Columns
        /\ Allowed(kind, col)
        /\ kind = "create" /\ col.name = PrimaryKeyFieldName => col = Key
        /\ kind = "change" => store # "firestore"
        /\ pc[t] = "reading"  => kind # "drop"
        /\ pc[t] = "writing"  => kind \in Writing
        /\ pc[t] = "creating" => kind = "create"
        /\ pc[t] = "dropping" => kind = "drop"
        /\ store = "dynamo" /\ pc[t] \notin {"ensuring", "creatingSystem"} => system
        /\ store = "firestore" => pc[t] \notin {"ensuring", "creatingSystem"}

RequestsOK == \A t \in Busy : RequestOK(t)

DescriptorOK(d) ==
    /\ d \in [exists : BOOLEAN, fields : Seq(Columns)]
    /\ d.exists => system /\ KeyOnce(d.fields)
    /\ ~ d.exists => d.fields = <<>>

DescriptorsOK ==
    /\ \A c \in Collections : DescriptorOK(desc[c])
    /\ store = "firestore" => system

SeenOK ==
    \A t \in Tasks :
        /\ seen[t] \in Seq(Columns)
        /\ pc[t] = "writing" /\ req[t].kind \in ColumnKinds => KeyOnce(seen[t])

TInv ==
    /\ Functional
    /\ RequestsOK
    /\ DescriptorsOK
    /\ SeenOK

(* A call that overlaps no other one is alone, has read what is there, ... *)
Solo(t) ==
    LET kind == req[t].kind
        d    == desc[req[t].coll]
        n    == req[t].col.name
    IN  /\ \A u \in Tasks : u # t => pc[u] = "idle"
        /\ \A u \in Tasks : answer[u] = "none"
        /\ kind = "change" => n \in Named(d.fields)
        /\ pc[t] = "writing" /\ kind # "drop" =>
              /\ seen[t] = d.fields
              /\ Verdict(kind, d, n) = ""
        /\ pc[t] = "dropping" => ~ d.exists

SolosOK == \A t \in Busy \ shared : Solo(t)

About(c) == {t \in Busy : req[t].coll = c}

Complete(c) == desc[c].exists /\ c \in tables

Healed(c) ==
    /\ \A t \in About(c) :
          /\ req[t].kind = "create"
          /\ About(c) = {t}
          /\ pc[t] = "creating" => desc[c].exists
    /\ store # "firestore" /\ desc[c].exists =>
          c \in tables \/ \E t \in About(c) : pc[t] = "creating"
    /\ \A t \in Tasks :
          answer[t] = "ok" /\ req[t].kind = "create" /\ req[t].coll = c
          => About(c) = {} /\ (store # "firestore" => Complete(c))

HealedOK == healed \subseteq Collections /\ \A c \in healed : Healed(c)

HInv == TInv /\ SolosOK /\ HealedOK

-----------------------------------------------------------------------------
(* Sequences of columns.  What Without computes is shown by induction, as  *)
(* a set of numbers that has 0 and with each number the next.              *)
LEMMA Induction ==
    ASSUME NEW S, S \subseteq Nat, 0 \in S, \A i \in S : i + 1 \in S
    PROVE  S = Nat
<1> SUFFICES ASSUME S # Nat PROVE FALSE
  OBVIOUS
<1> DEFINE T == Nat \ S
<1>1. PICK x \in T : \A y \in T : ~ (<<y, x>> \in OpToRel(<, Nat))
  <2>1. T \subseteq Nat /\ T # {}
    OBVIOUS
  <2> HIDE DEF T
  <2> QED BY <2>1, NatLessThanWellFounded, WFMin
<1>2. x \in Nat /\ x # 0
  OBVIOUS
<1>3. x - 1 \in Nat /\ <<x - 1, x>> \in OpToRel(<, Nat)
  BY <1>2 DEF OpToRel
<1>4. x - 1 \in S
  BY <1>1, <1>3
<1>5. x - 1 + 1 = x
  BY <1>2
<1> QED BY <1>1, <1>4, <1>5

(* The recursive function of Without, up to m. *)
IsKept(F, s, n, m) ==
    F = [i \in 0 .. m |-> IF i = 0 THEN <<>>
                          ELSE IF s[i].name = n THEN F[i - 1]
                          ELSE Append(F[i - 1], s[i])]

LEMMA KeptExists ==
    ASSUME NEW s, NEW n
    PROVE  \A m \in Nat : \E F : IsKept(F, s, n, m)
<1> DEFINE S == {m \in Nat : \E F : IsKept(F, s, n, m)}
<1>1. 0 \in S
  <2>1. IsKept([i \in 0 .. 0 |-> <<>>], s, n, 0)
    BY DEF IsKept
  <2> QED BY <2>1
<1>2. ASSUME NEW m \in S PROVE m + 1 \in S
  <2>1. PICK F : IsKept(F, s, n, m)
    OBVIOUS
  <2> DEFINE G == [i \in 0 .. m + 1 |->
                      IF i = m + 1 THEN IF s[i].name = n THEN F[m] ELSE Append(F[m], s[i])
                      ELSE F[i]]
  <2>2. m \in Nat
    OBVIOUS
  <2>3. \A i \in 0 .. m : F[i] = IF i = 0 THEN <<>>
                                 ELSE IF s[i].name = n THEN F[i - 1]
                                 ELSE Append(F[i - 1], s[i])
    BY <2>1 DEF IsKept
  <2>4. \A i \in 0 .. m + 1 : G[i] = IF i = 0 THEN <<>>
                                     ELSE IF s[i].name = n THEN G[i - 1]
                                     ELSE Append(G[i - 1], s[i])
    BY <2>2, <2>3
  <2>5. IsKept(G, s, n, m + 1)
    BY <2>4 DEF IsKept
  <2> QED BY <2>2, <2>5
<1>3. S = Nat
  <2> HIDE DEF S
  <2>1. S \subseteq Nat
    BY DEF S
  <2> QED BY <1>1, <1>2, <2>1, Induction
<1> QED BY <1>3

LEMMA WithoutUnfolds ==
    ASSUME NEW S, NEW s \in Seq(S), NEW n
    PROVE  \E F : /\ F[0] = <<>>
                  /\ \A i \in 1 .. Len(s) :
                        F[i] = IF s[i].name = n THEN F[i - 1] ELSE Append(F[i - 1], s[i])
                  /\ Without(s, n) = F[Len(s)]
<1> DEFINE F == CHOOSE F : IsKept(F, s, n, Len(s))
<1>1. Len(s) \in Nat
  OBVIOUS
<1>2. IsKept(F, s, n, Len(s))
  BY <1>1, KeptExists
<1>3. Without(s, n) = F[Len(s)]
  BY DEF Without, IsKept
<1> HIDE DEF F
<1>4. \A i \in 0 .. Len(s) : F[i] = IF i = 0 THEN <<>>
                                    ELSE IF s[i].name = n THEN F[i - 1]
                                    ELSE Append(F[i - 1], s[i])
  BY <1>2 DEF IsKept
<1>5. F[0] = <<>>
  BY <1>1, <1>4
<1>6. \A i \in 1 .. Len(s) :
          F[i] = IF s[i].name = n THEN F[i - 1] ELSE Append(F[i - 1], s[i])
  BY <1>1, <1>4
<1> QED BY <1>3, <1>5, <1>6

(* An induction over the prefixes of a sequence. *)
LEMMA PrefixInduction ==
    ASSUME NEW m \in Nat, NEW S, 0 \in S,
           \A i \in 1 .. m : i - 1 \in S => i \in S
    PROVE  m \in S
<1> DEFINE T == {i \in Nat : i <= m => i \in S}
<1>1. T \subseteq Nat /\ 0 \in T
  OBVIOUS
<1>2. ASSUME NEW i \in T PROVE i + 1 \in T
  <2>1. CASE i + 1 <= m
    <3>1. i + 1 \in 1 .. m /\ (i + 1) - 1 = i /\ i \in S
      BY <2>1
    <3>2. i + 1 \in S
      BY <3>1
    <3> QED BY <3>2
  <2>2. CASE ~ (i + 1 <= m)
    BY <2>2
  <2> QED BY <2>1, <2>2
<1>3. T = Nat
  <2> HIDE DEF T
  <2> QED BY <1>1, <1>2, Induction
<1> QED BY <1>3

LEMMA AppendFacts ==
    ASSUME NEW S, NEW q \in Seq(S), NEW x \in S
    PROVE  /\ Append(q, x) \in Seq(S)
           /\ DOMAIN q = 1 .. Len(q)
           /\ Len(q) \in Nat
           /\ DOMAIN Append(q, x) = 1 .. Len(q) + 1
           /\ \A j \in 1 .. Len(q) : Append(q, x)[j] = q[j]
           /\ Append(q, x)[Len(q) + 1] = x
OBVIOUS

(* Without keeps the other columns, and no other. *)
Listed(q, x) == \E j \in DOMAIN q : q[j] = x

LEMMA ListedAppend ==
    ASSUME NEW S, NEW q \in Seq(S), NEW x \in S
    PROVE  \A y : Listed(Append(q, x), y) <=> Listed(q, y) \/ y = x
BY AppendFacts DEF Listed

LEMMA WithoutKeeps ==
    ASSUME NEW S, NEW s \in Seq(S), NEW n
    PROVE  /\ Without(s, n) \in Seq(S)
           /\ \A x : Listed(Without(s, n), x) <=> Listed(s, x) /\ x.name # n
<1>1. PICK F : /\ F[0] = <<>>
               /\ \A i \in 1 .. Len(s) :
                     F[i] = IF s[i].name = n THEN F[i - 1] ELSE Append(F[i - 1], s[i])
               /\ Without(s, n) = F[Len(s)]
  BY WithoutUnfolds
<1> DEFINE P(i) == /\ F[i] \in Seq(S)
                   /\ \A x : Listed(F[i], x) <=> \E k \in 1 .. i : s[k] = x /\ x.name # n
           T == {i \in Nat : P(i)}
<1>2. 0 \in T
  <2>1. F[0] \in Seq(S) /\ \A x : ~ Listed(F[0], x)
    BY <1>1 DEF Listed
  <2>2. 1 .. 0 = {}
    OBVIOUS
  <2>3. P(0)
    BY <2>1, <2>2
  <2> QED BY <2>3
<1>3. ASSUME NEW i \in 1 .. Len(s), i - 1 \in T
      PROVE  i \in T
  <2>1. i \in Nat /\ P(i - 1) /\ s[i] \in S
    BY <1>3
  <2>2. \A k : k \in 1 .. i <=> k \in 1 .. (i - 1) \/ k = i
    BY <2>1
  <2>3. CASE s[i].name = n
    <3>1. F[i] = F[i - 1]
      BY <1>1, <2>3
    <3> QED BY <2>1, <2>2, <2>3, <3>1
  <2>4. CASE s[i].name # n
    <3>1. F[i] = Append(F[i - 1], s[i])
      BY <1>1, <2>4
    <3>2. F[i] \in Seq(S) /\ \A x : Listed(F[i], x) <=> Listed(F[i - 1], x) \/ x = s[i]
      BY <2>1, <3>1, AppendFacts, ListedAppend
    <3> QED BY <2>1, <2>2, <2>4, <3>2
  <2> QED BY <2>3, <2>4
<1>4. Len(s) \in T
  <2> HIDE DEF T
  <2> QED BY <1>2, <1>3, PrefixInduction
<1>5. P(Len(s))
  BY <1>4
<1> QED BY <1>1, <1>5 DEF Listed

(* A column of another name stays listed as often as it was. *)
LEMMA KeyOnceAppend ==
    ASSUME NEW S, NEW q \in Seq(S), NEW x \in S
    PROVE  /\ KeyOnce(q) /\ x.name # PrimaryKeyFieldName => KeyOnce(Append(q, x))
           /\ (\A j \in DOMAIN q : q[j].name # PrimaryKeyFieldName)
                  /\ x.name = PrimaryKeyFieldName => KeyOnce(Append(q, x))
<1>1. /\ DOMAIN q = 1 .. Len(q) /\ Len(q) \in Nat
      /\ DOMAIN Append(q, x) = 1 .. Len(q) + 1
      /\ \A j \in 1 .. Len(q) : Append(q, x)[j] = q[j]
      /\ Append(q, x)[Len(q) + 1] = x
  BY AppendFacts
<1> DEFINE a == Append(q, x)
<1> HIDE DEF a
<1>2. /\ DOMAIN a = 1 .. Len(q) + 1
      /\ \A j \in 1 .. Len(q) : a[j] = q[j]
      /\ a[Len(q) + 1] = x
  BY <1>1 DEF a
<1>3. ASSUME KeyOnce(q), x.name # PrimaryKeyFieldName PROVE KeyOnce(a)
  <2>1. PICK i \in DOMAIN q : \A j \in DOMAIN q : q[j].name = PrimaryKeyFieldName <=> j = i
    BY <1>3 DEF KeyOnce
  <2>2. i \in DOMAIN a /\ \A j \in DOMAIN a : a[j].name = PrimaryKeyFieldName <=> j = i
    BY <1>1, <1>2, <1>3, <2>1
  <2> QED BY <2>2 DEF KeyOnce
<1>4. ASSUME \A j \in DOMAIN q : q[j].name # PrimaryKeyFieldName, x.name = PrimaryKeyFieldName
      PROVE  KeyOnce(a)
  <2>1. Len(q) + 1 \in DOMAIN a
    BY <1>1, <1>2
  <2>2. \A j \in DOMAIN a : a[j].name = PrimaryKeyFieldName <=> j = Len(q) + 1
    BY <1>1, <1>2, <1>4
  <2> QED BY <2>1, <2>2 DEF KeyOnce
<1> QED BY <1>3, <1>4 DEF a

LEMMA WithoutKeyOnce ==
    ASSUME NEW S, NEW s \in Seq(S), NEW n, n # PrimaryKeyFieldName, KeyOnce(s)
    PROVE  KeyOnce(Without(s, n))
<1>1. PICK F : /\ F[0] = <<>>
               /\ \A i \in 1 .. Len(s) :
                     F[i] = IF s[i].name = n THEN F[i - 1] ELSE Append(F[i - 1], s[i])
               /\ Without(s, n) = F[Len(s)]
  BY WithoutUnfolds
<1>2. PICK k \in DOMAIN s : \A j \in DOMAIN s : s[j].name = PrimaryKeyFieldName <=> j = k
  BY DEF KeyOnce
<1> DEFINE P(i) == /\ F[i] \in Seq(S)
                   /\ i < k => \A j \in DOMAIN F[i] : F[i][j].name # PrimaryKeyFieldName
                   /\ k <= i => KeyOnce(F[i])
           T == {i \in Nat : P(i)}
<1>3. DOMAIN s = 1 .. Len(s) /\ Len(s) \in Nat
  OBVIOUS
<1>4. 0 \in T
  <2>1. F[0] \in Seq(S) /\ DOMAIN F[0] = {}
    BY <1>1
  <2>2. P(0)
    BY <1>2, <1>3, <2>1
  <2> QED BY <2>2
<1>5. ASSUME NEW i \in 1 .. Len(s), i - 1 \in T
      PROVE  i \in T
  <2>1. i \in Nat /\ P(i - 1) /\ s[i] \in S /\ i \in DOMAIN s
    BY <1>3, <1>5
  <2>2. CASE s[i].name = n
    <3>1. F[i] = F[i - 1] /\ i # k
      BY <1>1, <1>2, <1>3, <2>1, <2>2
    <3>2. (i < k <=> i - 1 < k) /\ (k <= i <=> k <= i - 1)
      BY <1>3, <2>1, <3>1
    <3> QED BY <2>1, <3>1, <3>2
  <2>3. CASE s[i].name # n /\ i # k
    <3>1. F[i] = Append(F[i - 1], s[i]) /\ s[i].name # PrimaryKeyFieldName
      BY <1>1, <1>2, <1>3, <2>1, <2>3
    <3>2. (i < k <=> i - 1 < k) /\ (k <= i <=> k <= i - 1)
      BY <1>3, <2>1, <2>3
    <3>3. F[i] \in Seq(S)
      BY <2>1, <3>1, AppendFacts
    <3>4. i < k => \A j \in DOMAIN F[i] : F[i][j].name # PrimaryKeyFieldName
      BY <2>1, <3>1, <3>2, AppendFacts
    <3>5. k <= i => KeyOnce(F[i])
      BY <2>1, <3>1, <3>2, KeyOnceAppend
    <3> QED BY <2>1, <3>3, <3>4, <3>5
  <2>4. CASE s[i].name # n /\ i = k
    <3>1. F[i] = Append(F[i - 1], s[i]) /\ s[i].name = PrimaryKeyFieldName
      BY <1>1, <1>2, <1>3, <2>1, <2>4
    <3>2. F[i] \in Seq(S)
      BY <2>1, <3>1, AppendFacts
    <3>3. KeyOnce(F[i])
      BY <2>1, <2>4, <3>1, KeyOnceAppend
    <3> QED BY <2>1, <2>4, <3>2, <3>3
  <2> QED BY <2>2, <2>3, <2>4
<1>6. Len(s) \in T
  <2> HIDE DEF T
  <2> QED BY <1>3, <1>4, <1>5, PrefixInduction
<1>7. P(Len(s)) /\ k <= Len(s)
  BY <1>3, <1>6
<1> QED BY <1>1, <1>7

(* The last column is dropped if it has the name. *)
LEMMA WithoutLast ==
    ASSUME NEW S, NEW s \in Seq(S), NEW x \in S
    PROVE  Without(Append(s, x), x.name) = Without(s, x.name)
<1> DEFINE n == x.name
           a == Append(s, x)
<1>1. PICK F : /\ F[0] = <<>>
               /\ \A i \in 1 .. Len(s) :
                     F[i] = IF s[i].name = n THEN F[i - 1] ELSE Append(F[i - 1], s[i])
               /\ Without(s, n) = F[Len(s)]
  BY WithoutUnfolds
<1>2. /\ a \in Seq(S) /\ Len(a) = Len(s) + 1 /\ Len(s) \in Nat
      /\ \A j \in 1 .. Len(s) : a[j] = s[j]
      /\ a[Len(s) + 1] = x
  BY AppendFacts
<1> HIDE DEF a
<1>3. PICK G : /\ G[0] = <<>>
               /\ \A i \in 1 .. Len(a) :
                     G[i] = IF a[i].name = n THEN G[i - 1] ELSE Append(G[i - 1], a[i])
               /\ Without(a, n) = G[Len(a)]
  BY <1>2, WithoutUnfolds
<1> DEFINE T == {i \in Nat : i <= Len(s) => F[i] = G[i]}
<1>4. 0 \in T
  BY <1>1, <1>3
<1>5. ASSUME NEW i \in 1 .. Len(s), i - 1 \in T
      PROVE  i \in T
  <2>1. i \in Nat /\ i - 1 <= Len(s) /\ i \in 1 .. Len(a) /\ a[i] = s[i]
    BY <1>2
  <2>2. F[i - 1] = G[i - 1]
    BY <1>5, <2>1
  <2>3. F[i] = G[i]
    BY <1>1, <1>3, <2>1, <2>2
  <2> QED BY <2>1, <2>3
<1>6. Len(s) \in T
  <2> HIDE DEF T
  <2> QED BY <1>2, <1>4, <1>5, PrefixInduction
<1>7. F[Len(s)] = G[Len(s)]
  BY <1>6
<1>8. G[Len(s) + 1] = G[Len(s)]
  <2>1. Len(s) + 1 \in 1 .. Len(a) /\ (Len(s) + 1) - 1 = Len(s)
    BY <1>2
  <2> QED BY <1>2, <1>3, <2>1
<1> QED BY <1>1, <1>2, <1>3, <1>7, <1>8 DEF a

(* Dropping a name again changes nothing. *)
LEMMA WithoutNone ==
    ASSUME NEW S, NEW s \in Seq(S), NEW n, \A i \in DOMAIN s : s[i].name # n
    PROVE  Without(s, n) = s
<1>1. PICK F : /\ F[0] = <<>>
               /\ \A i \in 1 .. Len(s) :
                     F[i] = IF s[i].name = n THEN F[i - 1] ELSE Append(F[i - 1], s[i])
               /\ Without(s, n) = F[Len(s)]
  BY WithoutUnfolds
<1>2. DOMAIN s = 1 .. Len(s) /\ Len(s) \in Nat
  OBVIOUS
<1> DEFINE P(i) == /\ F[i] \in Seq(S)
                   /\ Len(F[i]) = i
                   /\ \A j \in 1 .. i : F[i][j] = s[j]
           T == {i \in Nat : P(i)}
<1>3. 0 \in T
  <2>1. F[0] \in Seq(S) /\ Len(F[0]) = 0
    BY <1>1
  <2>2. P(0)
    BY <2>1
  <2> QED BY <2>2
<1>4. ASSUME NEW i \in 1 .. Len(s), i - 1 \in T
      PROVE  i \in T
  <2>1. i \in Nat /\ P(i - 1) /\ s[i] \in S /\ s[i].name # n
    BY <1>2, <1>4
  <2>2. F[i] = Append(F[i - 1], s[i])
    BY <1>1, <2>1
  <2>3. P(i)
    BY <2>1, <2>2, AppendFacts
  <2> QED BY <2>1, <2>3
<1>5. Len(s) \in T
  <2> HIDE DEF T
  <2> QED BY <1>2, <1>3, <1>4, PrefixInduction
<1>6. P(Len(s))
  BY <1>5
<1>7. F[Len(s)] = s
  BY <1>2, <1>6
<1> QED BY <1>1, <1>7

-----------------------------------------------------------------------------
(* What the three databases write. *)
LEMMA KeyIs == Key \in Columns /\ Key.name = PrimaryKeyFieldName
BY ColumnsAssumption DEF Key

LEMMA AddToSetFacts ==
    ASSUME NEW s \in Seq(Columns), NEW col \in Columns
    PROVE  /\ AddToSet(s, col) \in Seq(Columns)
           /\ \A x : Listed(AddToSet(s, col), x) <=> Listed(s, x) \/ x = col
           /\ KeyOnce(s) /\ col.name # PrimaryKeyFieldName => KeyOnce(AddToSet(s, col))
           /\ Without(AddToSet(s, col), col.name) = Without(s, col.name)
<1>1. CASE Contains(s, col)
  <2>1. AddToSet(s, col) = s
    BY <1>1 DEF AddToSet
  <2>2. Listed(s, col)
    BY <1>1 DEF Contains, Listed
  <2> QED BY <2>1, <2>2
<1>2. CASE ~ Contains(s, col)
  <2>1. AddToSet(s, col) = Append(s, col)
    BY <1>2 DEF AddToSet
  <2>2. Append(s, col) \in Seq(Columns)
    BY AppendFacts
  <2> QED BY <2>1, <2>2, ListedAppend, KeyOnceAppend, WithoutLast
<1> QED BY <1>1, <1>2

LEMMA NewFieldsFacts ==
    ASSUME NEW col \in Columns, col.name = PrimaryKeyFieldName => col = Key
    PROVE  /\ NewFields(col) \in Seq(Columns)
           /\ KeyOnce(NewFields(col))
<1>1. <<Key>> \in Seq(Columns) /\ DOMAIN <<Key>> = {1} /\ <<Key>>[1] = Key
  BY KeyIs
<1>2. KeyOnce(<<Key>>)
  BY <1>1, KeyIs DEF KeyOnce
<1>3. CASE col.name = PrimaryKeyFieldName
  <2>1. Contains(<<Key>>, col)
    BY <1>1, <1>3 DEF Contains
  <2>2. NewFields(col) = <<Key>>
    BY <2>1 DEF NewFields, AddToSet
  <2> QED BY <1>1, <1>2, <2>2
<1>4. CASE col.name # PrimaryKeyFieldName
  BY <1>1, <1>2, <1>4, AddToSetFacts DEF NewFields
<1> QED BY <1>3, <1>4

LEMMA ReplacedFacts ==
    ASSUME NEW s \in Seq(Columns), NEW col \in Columns
    PROVE  /\ Replaced(s, col) \in Seq(Columns)
           /\ KeyOnce(s) => KeyOnce(Replaced(s, col))
           /\ \A x : Listed(Replaced(s, col), x)
                        <=> \/ Listed(s, x) /\ x.name # col.name
                            \/ x = col /\ col.name \in Named(s)
<1> DEFINE r == Replaced(s, col)
<1>1. DOMAIN s = 1 .. Len(s) /\ Len(s) \in Nat /\ \A i \in DOMAIN s : s[i] \in Columns
  OBVIOUS
<1>2. /\ DOMAIN r = DOMAIN s
      /\ \A i \in DOMAIN s : r[i] = IF s[i].name = col.name THEN col ELSE s[i]
  BY DEF Replaced
<1>3. r \in Seq(Columns)
  <2>1. r \in [1 .. Len(s) -> Columns]
    BY <1>1 DEF Replaced
  <2> QED BY <1>1, <2>1
<1> HIDE DEF r
<1>4. \A i \in DOMAIN s : r[i].name = s[i].name
  BY <1>2
<1>5. ASSUME KeyOnce(s) PROVE KeyOnce(r)
  <2>1. PICK i \in DOMAIN s : \A j \in DOMAIN s : s[j].name = PrimaryKeyFieldName <=> j = i
    BY <1>5 DEF KeyOnce
  <2>2. i \in DOMAIN r /\ \A j \in DOMAIN r : r[j].name = PrimaryKeyFieldName <=> j = i
    BY <1>2, <1>4, <2>1
  <2> QED BY <2>2 DEF KeyOnce
<1>6. \A x : Listed(r, x) <=> \/ Listed(s, x) /\ x.name # col.name
                              \/ x = col /\ col.name \in Named(s)
  BY <1>2 DEF Listed, Named
<1> QED BY <1>3, <1>5, <1>6 DEF r

(* The type of a column changes by taking it out and putting it last. *)
LEMMA MovedFacts ==
    ASSUME NEW s \in Seq(Columns), NEW col \in Columns
    PROVE  LET m == Append(Without(s, col.name), col)
           IN  /\ m \in Seq(Columns)
               /\ KeyOnce(s) => KeyOnce(m)
               /\ \A x : Listed(m, x) <=> (Listed(s, x) /\ x.name # col.name) \/ x = col
<1> DEFINE w == Without(s, col.name)
<1>1. w \in Seq(Columns) /\ \A x : Listed(w, x) <=> Listed(s, x) /\ x.name # col.name
  BY WithoutKeeps
<1>2. Append(w, col) \in Seq(Columns)
  BY <1>1, AppendFacts
<1>3. \A x : Listed(Append(w, col), x) <=> Listed(w, x) \/ x = col
  BY <1>1, ListedAppend
<1>4. ASSUME KeyOnce(s) PROVE KeyOnce(Append(w, col))
  <2>1. CASE col.name = PrimaryKeyFieldName
    <3>1. \A j \in DOMAIN w : w[j].name # PrimaryKeyFieldName
      BY <1>1, <2>1 DEF Listed
    <3> QED BY <1>1, <2>1, <3>1, KeyOnceAppend
  <2>2. CASE col.name # PrimaryKeyFieldName
    BY <1>1, <1>4, <2>2, WithoutKeyOnce, KeyOnceAppend
  <2> QED BY <2>1, <2>2
<1> QED BY <1>1, <1>2, <1>3, <1>4

(* Whatever has become of the descriptor since it was read, a write leaves *)
(* one that lists the primary key once.                                    *)
LEMMA WrittenFacts ==
    ASSUME Functional, NEW d, DescriptorOK(d), NEW r \in Seq(Columns), NEW col \in Columns,
           NEW kind \in {"create", "add", "remove", "change"},
           kind = "change" => store # "firestore",
           Allowed(kind, col), kind = "create" /\ col.name = PrimaryKeyFieldName => col = Key,
           kind # "create" => KeyOnce(r)
    PROVE  LET w == Written(kind, col, r, d)
           IN  /\ w \in [exists : BOOLEAN, fields : Seq(Columns)]
               /\ w.exists => KeyOnce(w.fields)
               /\ ~ w.exists => w.fields = <<>>
<1> DEFINE w == Written(kind, col, r, d)
<1>0. d.exists \in BOOLEAN
  BY DEF DescriptorOK
<1>1. w = d \/ \E fields \in Seq(Columns) : KeyOnce(fields) /\ w = Descriptor(fields)
  <2>1. CASE kind = "create"
    <3>1. NewFields(col) \in Seq(Columns) /\ KeyOnce(NewFields(col))
      BY <2>1, NewFieldsFacts
    <3>2. w = d \/ w = Descriptor(NewFields(col))
      <4>1. CASE store = "mongo"
        BY <2>1, <4>1 DEF Written, MongoWrite
      <4>2. CASE store = "dynamo"
        BY <2>1, <4>2 DEF Written, DynamoWrite
      <4>3. CASE store = "firestore"
        BY <2>1, <4>3 DEF Written, FirestoreWrite
      <4> QED BY <4>1, <4>2, <4>3 DEF Functional
    <3> QED BY <3>1, <3>2
  <2>2. CASE kind = "add"
    <3>1. col.name # PrimaryKeyFieldName
      BY <2>2 DEF Allowed, ColumnKinds
    <3>2. d.exists => d.fields \in Seq(Columns) /\ KeyOnce(d.fields)
      BY DEF DescriptorOK
    <3>3. d.exists => AddToSet(d.fields, col) \in Seq(Columns) /\ KeyOnce(AddToSet(d.fields, col))
      BY <3>1, <3>2, AddToSetFacts
    <3>4. d.exists => Append(d.fields, col) \in Seq(Columns) /\ KeyOnce(Append(d.fields, col))
      BY <3>1, <3>2, AppendFacts, KeyOnceAppend
    <3>5. Append(r, col) \in Seq(Columns) /\ KeyOnce(Append(r, col))
      BY <2>2, <3>1, AppendFacts, KeyOnceAppend
    <3>6. CASE store = "mongo"
      <4>1. (d.exists => w = Descriptor(AddToSet(d.fields, col))) /\ (~ d.exists => w = d)
        BY <2>2, <3>6 DEF Written, MongoWrite
      <4> QED BY <3>3, <4>1, <1>0
    <3>7. CASE store = "dynamo"
      <4>1. (d.exists => w = Descriptor(Append(d.fields, col))) /\ (~ d.exists => w = d)
        BY <2>2, <3>7 DEF Written, DynamoWrite
      <4> QED BY <3>4, <4>1, <1>0
    <3>8. CASE store = "firestore"
      <4>1. (d.exists => w = Descriptor(Append(r, col))) /\ (~ d.exists => w = d)
        BY <2>2, <3>8 DEF Written, FirestoreWrite
      <4> QED BY <3>5, <4>1, <1>0
    <3> QED BY <3>6, <3>7, <3>8 DEF Functional
  <2>3. CASE kind = "remove"
    <3>1. col.name # PrimaryKeyFieldName
      BY <2>3 DEF Allowed, ColumnKinds
    <3>2. d.exists => Without(d.fields, col.name) \in Seq(Columns) /\ KeyOnce(Without(d.fields, col.name))
      BY <3>1, WithoutKeeps, WithoutKeyOnce DEF DescriptorOK
    <3>3. Without(r, col.name) \in Seq(Columns) /\ KeyOnce(Without(r, col.name))
      BY <2>3, <3>1, WithoutKeeps, WithoutKeyOnce
    <3>4. CASE store = "mongo"
      <4>1. (d.exists => w = Descriptor(Without(d.fields, col.name))) /\ (~ d.exists => w = d)
        BY <2>3, <3>4 DEF Written, MongoWrite
      <4> QED BY <3>2, <4>1, <1>0
    <3>5. CASE store = "dynamo"
      <4>1. w = Descriptor(Without(r, col.name))
        BY <2>3, <3>5 DEF Written, DynamoWrite
      <4> QED BY <3>3, <4>1
    <3>6. CASE store = "firestore"
      <4>1. (d.exists => w = Descriptor(Without(r, col.name))) /\ (~ d.exists => w = d)
        BY <2>3, <3>6 DEF Written, FirestoreWrite
      <4> QED BY <3>3, <4>1, <1>0
    <3> QED BY <3>4, <3>5, <3>6 DEF Functional
  <2>4. CASE kind = "change"
    <3>1. /\ Append(Without(r, col.name), col) \in Seq(Columns)
          /\ KeyOnce(Append(Without(r, col.name), col))
      BY <2>4, MovedFacts
    <3>2. Replaced(r, col) \in Seq(Columns) /\ KeyOnce(Replaced(r, col))
      BY <2>4, ReplacedFacts
    <3>3. CASE store = "mongo"
      <4>1. (d.exists => w = Descriptor(Append(Without(r, col.name), col))) /\ (~ d.exists => w = d)
        BY <2>4, <3>3 DEF Written, MongoWrite
      <4> QED BY <3>1, <4>1, <1>0
    <3>4. CASE store = "dynamo"
      <4>1. w = Descriptor(Replaced(r, col))
        BY <2>4, <3>4 DEF Written, DynamoWrite
      <4> QED BY <3>2, <4>1
    <3> QED BY <2>4, <3>3, <3>4 DEF Functional
  <2> QED BY <2>1, <2>2, <2>3, <2>4
<1> HIDE DEF w
<1>2. w \in [exists : BOOLEAN, fields : Seq(Columns)]
      /\ (w.exists => KeyOnce(w.fields)) /\ (~ w.exists => w.fields = <<>>)
  <2>1. CASE w = d
    BY <2>1 DEF DescriptorOK
  <2>2. CASE \E fields \in Seq(Columns) : KeyOnce(fields) /\ w = Descriptor(fields)
    BY <2>2 DEF Descriptor
  <2> QED BY <1>1, <2>1, <2>2
<1> QED BY <1>2 DEF w

-----------------------------------------------------------------------------
(* The steps of a call, as far as types go. *)
LEMMA InitTInv == Init => TInv
<1> SUFFICES ASSUME Init PROVE TInv
  OBVIOUS
<1>1. Functional
  BY StoresAssumption DEF Init, Functional, Steps
<1>2. RequestsOK /\ SeenOK
  BY DEF Init, RequestsOK, Busy, SeenOK
<1>3. DescriptorsOK
  <2>1. store = "firestore" => system
    BY Zenon DEF Init
  <2>2. \A c \in Collections : DescriptorOK(desc[c])
    <3>1. DescriptorOK(NoDescriptor)
      BY DEF DescriptorOK, NoDescriptor
    <3> QED BY <3>1 DEF Init
  <2> QED BY <2>1, <2>2 DEF DescriptorsOK
<1> QED BY <1>1, <1>2, <1>3 DEF TInv

LEMMA CallTyped ==
    ASSUME TInv, NEW t \in Tasks, NEW kind \in Kinds, NEW c \in Collections, NEW col \in Columns,
           Call(t, kind, c, col)
    PROVE  TInv'
<1> USE DEF TInv, Functional
<1>1. /\ pc' = [pc EXCEPT ![t] = FirstStep(kind)]
      /\ req' = [u \in Tasks |-> IF u = t THEN [kind |-> kind, coll |-> c, col |-> col]
                                 ELSE IF u \in Busy THEN req[u] ELSE NoCall]
      /\ seen' = [u \in Tasks |-> IF u \in Busy THEN seen[u] ELSE <<>>]
      /\ answer' = [u \in Tasks |-> "none"]
      /\ UNCHANGED <<store, system, desc, tables>>
      /\ Allowed(kind, col) /\ Planned(kind, c, col) /\ pc[t] = "idle"
  BY DEF Call
<1>2. kind \in {"create", "drop", "add", "remove", "change", "describe", "list"}
  BY KindsAssumption
<1>3. /\ FirstStep(kind) \in {"ensuring", "reading", "writing"}
      /\ FirstStep(kind) = "reading" => kind # "drop"
      /\ FirstStep(kind) = "writing" => kind = "drop"
      /\ store = "dynamo" => FirstStep(kind) = "ensuring"
      /\ store = "firestore" => FirstStep(kind) # "ensuring"
  BY DEF FirstStep
<1>4. req'[t] = [kind |-> kind, coll |-> c, col |-> col] /\ pc'[t] = FirstStep(kind)
  BY <1>1
<1>5. \A u \in Tasks \ {t} : pc'[u] = pc[u] /\ (u \in Busy => req'[u] = req[u] /\ seen'[u] = seen[u])
  BY <1>1
<1>6. Functional'
  BY <1>1, <1>3 DEF Steps
<1>7. /\ kind = "create" /\ col.name = PrimaryKeyFieldName => col = Key
      /\ kind = "change" => store # "firestore"
  BY <1>1 DEF Planned
<1>8. RequestOK(t)'
  <2>1. req'[t].kind = kind /\ req'[t].coll = c /\ req'[t].col = col
    BY <1>4
  <2>2. col.name = PrimaryKeyFieldName =>
            kind \notin ColumnKinds \/ (kind = "change" /\ store # "dynamo")
    BY <1>1 DEF Allowed
  <2>3. /\ kind \in {"create", "drop", "add", "remove", "change", "describe", "list"}
        /\ c \in Collections
        /\ col \in Columns
        /\ col.name = PrimaryKeyFieldName =>
              kind \notin ColumnKinds \/ (kind = "change" /\ store' # "dynamo")
        /\ kind = "create" /\ col.name = PrimaryKeyFieldName => col = Key
        /\ kind = "change" => store' # "firestore"
    BY <1>1, <1>2, <1>7, <2>2
  <2>4. /\ pc'[t] = "reading"  => kind # "drop"
        /\ pc'[t] = "writing"  => kind \in Writing
        /\ pc'[t] = "creating" => kind = "create"
        /\ pc'[t] = "dropping" => kind = "drop"
        /\ store' = "dynamo" => pc'[t] \in {"ensuring", "creatingSystem"}
        /\ store' = "firestore" => pc'[t] \notin {"ensuring", "creatingSystem"}
    BY <1>1, <1>3, <1>4 DEF Writing
  <2> QED BY <2>1, <2>3, <2>4 DEF RequestOK, Allowed
<1>9. \A u \in Busy' : u # t => RequestOK(u)'
  BY <1>1, <1>5 DEF Busy, RequestsOK, RequestOK, Allowed
<1>10. DescriptorsOK'
  BY <1>1 DEF DescriptorsOK, DescriptorOK
<1>11. \A u \in Tasks : seen'[u] \in Seq(Columns)
  <2>1. <<>> \in Seq(Columns)
    OBVIOUS
  <2> QED BY <1>1, <2>1 DEF SeenOK
<1>12. SeenOK'
  BY <1>3, <1>4, <1>5, <1>11 DEF SeenOK, Busy, ColumnKinds
<1> QED BY <1>6, <1>8, <1>9, <1>10, <1>12 DEF RequestsOK

(* A step that leaves the descriptors and what was called as they are.     *)
LEMMA MoveTyped ==
    ASSUME TInv, NEW t \in Busy, NEW step \in Steps, pc' = [pc EXCEPT ![t] = step],
           UNCHANGED <<store, desc, req>>, system => system',
           tables' \subseteq Collections, DOMAIN answer' = Tasks,
           DOMAIN seen' = Tasks, \A u \in Tasks \ {t} : seen'[u] = seen[u],
           seen'[t] \in Seq(Columns),
           step = "writing" /\ req[t].kind \in ColumnKinds => KeyOnce(seen'[t]),
           step # "idle" => RequestOK(t)'
    PROVE  TInv'
<1> USE DEF TInv, Functional
<1>1. t \in Tasks /\ pc'[t] = step /\ \A u \in Tasks \ {t} : pc'[u] = pc[u]
  BY DEF Busy
<1>2. Functional'
  BY <1>1
<1>3. \A u \in Busy' : u # t => RequestOK(u)'
  BY <1>1 DEF Busy, RequestsOK, RequestOK, Allowed
<1>4. DescriptorsOK'
  BY DEF DescriptorsOK, DescriptorOK
<1>5. SeenOK'
  BY <1>1 DEF SeenOK
<1> QED BY <1>1, <1>2, <1>3, <1>4, <1>5 DEF RequestsOK, Busy

LEMMA ReturnDomain ==
    ASSUME Functional, NEW t, NEW result, Return(t, result)
    PROVE  pc' = [pc EXCEPT ![t] = "idle"] /\ DOMAIN answer' = Tasks
BY DEF Return, Functional

LEMMA EnsureTyped ==
    ASSUME TInv, NEW t \in Tasks,
           EnsureSystemTable(t) \/ CreateSystemTable(t) \/ DropTable(t) \/ CreateTable(t)
             \/ Fail(t)
    PROVE  TInv'
<1>1. t \in Busy
  BY DEF EnsureSystemTable, CreateSystemTable, DropTable, CreateTable, Fail, Busy
<1>2. RequestOK(t) /\ req[t].coll \in Collections
  BY <1>1 DEF TInv, RequestsOK, RequestOK
<1>3. /\ UNCHANGED <<store, desc, req, seen>>
      /\ system => system'
  BY DEF EnsureSystemTable, CreateSystemTable, DropTable, CreateTable, Fail
<1>4. tables' \subseteq Collections
  BY <1>2 DEF EnsureSystemTable, CreateSystemTable, DropTable, CreateTable, Fail, TInv, Functional
<1>5. PICK step \in Steps :
         /\ pc' = [pc EXCEPT ![t] = step]
         /\ DOMAIN answer' = Tasks
         /\ \/ step = "idle"
            \/ step = "creatingSystem" /\ pc[t] = "ensuring"
            \/ /\ step = IF req[t].kind = "drop" THEN "writing" ELSE "reading"
               /\ system'
  <2>1. CASE EnsureSystemTable(t)
    BY <2>1 DEF EnsureSystemTable, Goto, Steps, TInv, Functional
  <2>2. CASE CreateSystemTable(t)
    BY <2>2, ReturnDomain DEF CreateSystemTable, Goto, Steps, TInv, Functional
  <2>3. CASE DropTable(t) \/ CreateTable(t)
    BY <2>3, ReturnDomain DEF DropTable, CreateTable, Steps, TInv
  <2>4. CASE Fail(t)
    BY <2>4 DEF Fail, Steps, TInv, Functional
  <2> QED BY <2>1, <2>2, <2>3, <2>4
<1>6. step = "writing" => req[t].kind = "drop"
  BY <1>5
<1>7. pc'[t] = step
  BY <1>5 DEF TInv, Functional
<1>8. step # "idle" => RequestOK(t)'
  <2>1. CASE step = "creatingSystem" /\ pc[t] = "ensuring"
    BY <1>2, <1>3, <1>7, <2>1 DEF RequestOK, Allowed
  <2>2. CASE step = (IF req[t].kind = "drop" THEN "writing" ELSE "reading") /\ system'
    BY <1>2, <1>3, <1>7, <2>2 DEF RequestOK, Allowed, Writing
  <2> QED BY <1>5, <2>1, <2>2
<1>9. seen[t] \in Seq(Columns) /\ DOMAIN seen = Tasks
  BY DEF TInv, SeenOK, Functional
<1> QED BY <1>1, <1>3, <1>4, <1>5, <1>6, <1>8, <1>9, MoveTyped DEF ColumnKinds

LEMMA ReadTyped ==
    ASSUME TInv, NEW t \in Tasks, Read(t)
    PROVE  TInv'
<1> DEFINE d == desc[req[t].coll]
           verdict == Verdict(req[t].kind, d, req[t].col.name)
<1>1. /\ pc[t] = "reading"
      /\ seen' = [seen EXCEPT ![t] = d.fields]
      /\ IF verdict = "" THEN Goto(t, "writing") ELSE Return(t, verdict)
      /\ UNCHANGED <<store, system, desc, tables, req, healed, shared, requests>>
  BY DEF Read
<1>2. t \in Busy /\ RequestOK(t)
  BY <1>1 DEF Busy, TInv, RequestsOK
<1>3. DescriptorOK(d)
  BY <1>2 DEF RequestOK, TInv, DescriptorsOK
<1>4. d.fields \in Seq(Columns) /\ d.exists \in BOOLEAN /\ (d.exists => KeyOnce(d.fields))
  BY <1>3 DEF DescriptorOK
<1>5. verdict = "" => req[t].kind \in Writing /\ (req[t].kind \in ColumnKinds => d.exists)
  BY <1>1, <1>2, <1>4 DEF Verdict, RequestOK, Writing, ColumnKinds
<1> HIDE DEF verdict, d
<1>6. PICK step \in Steps :
         /\ pc' = [pc EXCEPT ![t] = step]
         /\ DOMAIN answer' = Tasks
         /\ step = "idle" \/ (step = "writing" /\ verdict = "")
  <2>1. CASE verdict = ""
    BY <1>1, <2>1 DEF Goto, Steps, TInv, Functional
  <2>2. CASE verdict # ""
    BY <1>1, <2>2, ReturnDomain DEF Steps, TInv
  <2> QED BY <2>1, <2>2
<1>7. pc'[t] = step
  BY <1>6 DEF TInv, Functional
<1>8. step # "idle" => RequestOK(t)'
  BY <1>1, <1>2, <1>5, <1>6, <1>7 DEF RequestOK, Allowed
<1>9. /\ DOMAIN seen' = Tasks /\ seen'[t] = d.fields
      /\ \A u \in Tasks \ {t} : seen'[u] = seen[u]
  BY <1>1 DEF TInv, Functional
<1>10. /\ tables' \subseteq Collections
       /\ step = "writing" /\ req[t].kind \in ColumnKinds => KeyOnce(seen'[t])
  BY <1>1, <1>4, <1>5, <1>6, <1>9 DEF TInv, Functional
<1> QED BY <1>1, <1>2, <1>4, <1>6, <1>8, <1>9, <1>10, MoveTyped

(* A step that writes the descriptor of its collection.                    *)
LEMMA WriteMoves ==
    ASSUME TInv, NEW t \in Busy, NEW step \in Steps, pc' = [pc EXCEPT ![t] = step],
           UNCHANGED <<store, tables, req, seen>>, system => system',
           DOMAIN answer' = Tasks, DOMAIN desc' = Collections,
           \A c \in Collections : desc'[c] = desc[c] \/ DescriptorOK(desc[c])',
           step # "writing",
           step # "idle" => RequestOK(t)'
    PROVE  TInv'
<1> USE DEF TInv, Functional
<1>1. t \in Tasks /\ pc'[t] = step /\ \A u \in Tasks \ {t} : pc'[u] = pc[u]
  BY DEF Busy
<1>2. Functional'
  BY <1>1
<1>3. \A u \in Busy' : u # t => RequestOK(u)'
  BY <1>1 DEF Busy, RequestsOK, RequestOK, Allowed
<1>4. DescriptorsOK'
  BY DEF DescriptorsOK, DescriptorOK
<1>5. SeenOK'
  BY <1>1 DEF SeenOK
<1> QED BY <1>1, <1>2, <1>3, <1>4, <1>5 DEF RequestsOK, Busy

LEMMA WriteTyped ==
    ASSUME TInv, NEW t \in Tasks, Write(t)
    PROVE  TInv'
<1> DEFINE c == req[t].coll
           kind == req[t].kind
           w == Written(kind, req[t].col, seen[t], desc[c])
<1>1. /\ pc[t] = "writing"
      /\ kind # "drop"
      /\ IF WriteFails(kind, desc[c])
           THEN UNCHANGED <<desc, system>> /\ Return(t, "DbError")
           ELSE /\ desc' = [desc EXCEPT ![c] = w]
                /\ system' = (system \/ store = "mongo")
                /\ IF kind = "create" /\ store # "firestore"
                     THEN Goto(t, "creating")
                     ELSE Return(t, "ok")
      /\ UNCHANGED <<store, tables, req, seen, healed, shared, requests>>
  BY DEF Write
<1>2. t \in Busy /\ RequestOK(t)
  BY <1>1 DEF Busy, TInv, RequestsOK
<1>3. c \in Collections /\ req[t].col \in Columns /\ kind \in {"create", "add", "remove", "change"}
  BY <1>1, <1>2 DEF RequestOK, Writing
<1>4. DescriptorOK(desc[c]) /\ seen[t] \in Seq(Columns)
  BY <1>3 DEF TInv, DescriptorsOK, SeenOK
<1>5. kind # "create" => KeyOnce(seen[t])
  BY <1>1, <1>3 DEF TInv, SeenOK, ColumnKinds
<1>6. /\ w \in [exists : BOOLEAN, fields : Seq(Columns)]
      /\ w.exists => KeyOnce(w.fields)
      /\ ~ w.exists => w.fields = <<>>
  <2>1. /\ Allowed(kind, req[t].col)
        /\ kind = "create" /\ req[t].col.name = PrimaryKeyFieldName => req[t].col = Key
        /\ kind = "change" => store # "firestore"
    BY <1>2 DEF RequestOK
  <2>2. Functional
    BY DEF TInv
  <2> QED BY <1>3, <1>4, <1>5, <2>1, <2>2, WrittenFacts
<1> HIDE DEF w
<1>7. store \in {"mongo", "dynamo", "firestore"} /\ DOMAIN desc = Collections
  BY DEF TInv, Functional
<1>8. (system => system') /\ (desc' # desc => system')
  <2>1. CASE WriteFails(kind, desc[c])
    BY <1>1, <2>1
  <2>2. CASE ~ WriteFails(kind, desc[c])
    <3>1. system' = (system \/ store = "mongo")
      BY <1>1, <2>2
    <3>2. store = "firestore" => system
      BY DEF TInv, DescriptorsOK
    <3>3. store = "dynamo" => system
      BY <1>1, <1>2 DEF RequestOK
    <3> QED BY <1>7, <3>1, <3>2, <3>3
  <2> QED BY <2>1, <2>2
<1>9. PICK step \in Steps :
         /\ pc' = [pc EXCEPT ![t] = step]
         /\ DOMAIN answer' = Tasks
         /\ step = "idle" \/ (step = "creating" /\ kind = "create")
  <2>1. Functional
    BY DEF TInv
  <2>2. CASE Goto(t, "creating") /\ kind = "create"
    BY <2>1, <2>2 DEF Goto, Steps, Functional
  <2>3. CASE \E result : Return(t, result)
    BY <2>1, <2>3, ReturnDomain DEF Steps
  <2> QED BY <1>1, <2>2, <2>3
<1>10. pc'[t] = step
  BY <1>9 DEF TInv, Functional
<1>11. step # "idle" => RequestOK(t)'
  BY <1>1, <1>2, <1>8, <1>9, <1>10 DEF RequestOK, Allowed
<1>12. desc' = desc \/ desc' = [desc EXCEPT ![c] = w]
  BY <1>1
<1>13. /\ DOMAIN desc' = Collections
       /\ \A x \in Collections : desc'[x] = desc[x] \/ (desc'[x] = w /\ desc' # desc)
  BY <1>3, <1>7, <1>12
<1>14. \A x \in Collections : desc'[x] = desc[x] \/ DescriptorOK(desc[x])'
  BY <1>6, <1>8, <1>13 DEF DescriptorOK
<1> QED BY <1>1, <1>2, <1>8, <1>9, <1>11, <1>13, <1>14, WriteMoves

LEMMA DeleteTyped ==
    ASSUME TInv, NEW t \in Tasks, DeleteDescriptor(t)
    PROVE  TInv'
<1>1. /\ pc[t] = "writing"
      /\ req[t].kind = "drop"
      /\ desc' = [desc EXCEPT ![req[t].coll] = NoDescriptor]
      /\ UNCHANGED <<store, system, tables, req, seen>>
      /\ Goto(t, "dropping") \/ Return(t, "ok")
  BY DEF DeleteDescriptor
<1>2. t \in Busy /\ RequestOK(t)
  BY <1>1 DEF Busy, TInv, RequestsOK
<1>3. DescriptorOK(NoDescriptor)'
  BY DEF DescriptorOK, NoDescriptor
<1>4. DOMAIN desc' = Collections /\ \A c \in Collections : desc'[c] = desc[c] \/ desc'[c] = NoDescriptor
  BY <1>1 DEF TInv, Functional
<1>5. PICK step \in {"idle", "dropping"} : pc' = [pc EXCEPT ![t] = step] /\ DOMAIN answer' = Tasks
  <2>1. CASE Goto(t, "dropping")
    BY <2>1 DEF Goto, TInv, Functional
  <2>2. CASE Return(t, "ok")
    BY <2>2, ReturnDomain DEF TInv
  <2> QED BY <1>1, <2>1, <2>2
<1>6. pc'[t] = step
  BY <1>5 DEF TInv, Functional
<1>7. step # "idle" => RequestOK(t)'
  BY <1>1, <1>2, <1>5, <1>6 DEF RequestOK, Allowed
<1>8. \A c \in Collections : desc'[c] = desc[c] \/ DescriptorOK(desc[c])'
  BY <1>3, <1>4
<1>9. step \in Steps /\ step # "writing"
  BY <1>5 DEF Steps
<1> QED BY <1>1, <1>2, <1>4, <1>5, <1>7, <1>8, <1>9, WriteMoves

LEMMA InsertTyped ==
    ASSUME TInv, NEW c \in Collections, InsertItem(c)
    PROVE  TInv'
<1>1. /\ tables' = tables \cup {c}
      /\ UNCHANGED <<store, system, desc, pc, req, seen, answer>>
  BY DEF InsertItem
<1>2. Functional'
  BY <1>1 DEF TInv, Functional
<1>3. RequestsOK' /\ SeenOK'
  BY <1>1 DEF TInv, RequestsOK, RequestOK, Allowed, Busy, SeenOK
<1>4. DescriptorsOK'
  BY <1>1 DEF TInv, DescriptorsOK, DescriptorOK
<1> QED BY <1>2, <1>3, <1>4 DEF TInv

LEMMA NextTyped == TInv /\ [Next]_vars => TInv'
<1> SUFFICES ASSUME TInv, [Next]_vars PROVE TInv'
  OBVIOUS
<1>1. CASE \E t \in Tasks, kind \in Kinds, c \in Collections, col \in Columns : Call(t, kind, c, col)
  BY <1>1, CallTyped
<1>2. CASE \E t \in Tasks : Step(t)
  BY <1>2, EnsureTyped, ReadTyped, WriteTyped, DeleteTyped DEF Step
<1>3. CASE \E t \in Tasks : Fail(t)
  BY <1>3, EnsureTyped
<1>4. CASE \E c \in Collections : InsertItem(c)
  BY <1>4, InsertTyped
<1>5. CASE UNCHANGED vars
  <2>1. UNCHANGED <<store, system, desc, tables, pc, req, seen, answer>>
    BY <1>5 DEF vars
  <2>2. Functional' /\ RequestsOK' /\ SeenOK'
    BY <2>1 DEF TInv, Functional, RequestsOK, RequestOK, Allowed, Busy, SeenOK
  <2>3. DescriptorsOK'
    BY <2>1 DEF TInv, DescriptorsOK, DescriptorOK
  <2> QED BY <2>2, <2>3 DEF TInv
<1> QED BY <1>1, <1>2, <1>3, <1>4, <1>5 DEF Next

LEMMA Typed == Spec => []TInv
BY InitTInv, NextTyped, PTL DEF Spec

(* Descriptors hold sequences of columns, a descriptor that is gone holds  *)
(* none, every call waits for a step it has, and no descriptor is there    *)
(* without the collection of descriptors: DynamoDB's ensureSystemTableExists *)
(* runs before anything is written, and MongoDB creates it by writing.     *)
THEOREM TypeCorrect == Spec => []TypeOK
<1>1. TInv => TypeOK
  <2> SUFFICES ASSUME TInv PROVE TypeOK
    OBVIOUS
  <2>1. \A c \in Collections : IsDescriptor(desc[c]) /\ (desc[c].exists => system)
    BY DEF TInv, DescriptorsOK, DescriptorOK, IsDescriptor
  <2>2. tables \subseteq Collections /\ \A t \in Tasks : pc[t] \in Steps /\ seen[t] \in Seq(Columns)
    BY DEF TInv, Functional, SeenOK
  <2> QED BY <2>1, <2>2 DEF TypeOK, Steps
<1> QED BY <1>1, Typed, PTL

(* However calls overlap, fail and are cut short, in any of the three      *)
(* databases, a described collection lists its primary key once: a list    *)
(* that was read before other calls changed it still has it when it is     *)
(* written back, and no call adds, removes or (in DynamoDB) changes it.    *)
THEOREM KeyStaysListed == Spec => []KeyListedOnce
<1>1. TInv => KeyListedOnce
  <2> SUFFICES ASSUME TInv, NEW c \in Collections, desc[c].exists
               PROVE  Cardinality({i \in DOMAIN desc[c].fields :
                          desc[c].fields[i].name = PrimaryKeyFieldName}) = 1
    BY DEF KeyListedOnce
  <2>1. KeyOnce(desc[c].fields)
    BY DEF TInv, DescriptorsOK, DescriptorOK
  <2>2. PICK k \in DOMAIN desc[c].fields : \A j \in DOMAIN desc[c].fields :
            desc[c].fields[j].name = PrimaryKeyFieldName <=> j = k
    BY <2>1 DEF KeyOnce
  <2>3. {i \in DOMAIN desc[c].fields : desc[c].fields[i].name = PrimaryKeyFieldName} = {k}
    BY <2>2
  <2> QED BY <2>3, FS_Singleton
<1> QED BY <1>1, Typed, PTL

-----------------------------------------------------------------------------
(* What a write of MongoDB does to the other columns. *)
LEMMA MongoLeavesOthers ==
    ASSUME NEW d, DescriptorOK(d), NEW r, NEW col \in Columns, NEW kind \in {"add", "remove"}
    PROVE  Without(MongoWrite(kind, col, r, d).fields, col.name) = Without(d.fields, col.name)
<1> DEFINE n == col.name
<1>1. d.fields \in Seq(Columns)
  BY DEF DescriptorOK
<1>2. CASE ~ d.exists
  BY <1>2 DEF MongoWrite
<1>3. CASE d.exists /\ kind = "add"
  <2>1. MongoWrite(kind, col, r, d).fields = AddToSet(d.fields, col)
    BY <1>3 DEF MongoWrite, Descriptor
  <2>2. AddToSet(d.fields, col) = d.fields \/ AddToSet(d.fields, col) = Append(d.fields, col)
    BY DEF AddToSet
  <2> QED BY <1>1, <2>1, <2>2, WithoutLast
<1>4. CASE d.exists /\ kind = "remove"
  <2> DEFINE q == Without(d.fields, n)
  <2>1. MongoWrite(kind, col, r, d).fields = q
    BY <1>4 DEF MongoWrite, Descriptor
  <2>2. q \in Seq(Columns) /\ \A x : Listed(q, x) => x.name # n
    BY <1>1, WithoutKeeps
  <2>3. \A i \in DOMAIN q : q[i].name # n
    BY <2>2 DEF Listed
  <2> HIDE DEF q
  <2>4. Without(q, n) = q
    BY <2>2, <2>3, WithoutNone
  <2> QED BY <2>1, <2>4 DEF q
<1> QED BY <1>2, <1>3, <1>4

(* A call to add or remove a column of MongoDB, whatever other calls have  *)
(* done since it read the descriptor, leaves every other column, in its    *)
(* place: $addToSet and $pull work on the list as it is now.               *)
THEOREM OthersStay == Spec => OwnColumnOnly
<1> DEFINE A == store = "mongo" => \A t \in Tasks, c \in Collections :
                  (pc[t] = "writing" /\ pc'[t] = "idle" /\ req[t].kind \in {"add", "remove"}
                     /\ req[t].coll = c)
                  => Without(desc'[c].fields, req[t].col.name)
                        = Without(desc[c].fields, req[t].col.name)
<1>1. TInv /\ [Next]_vars => [A]_vars
  <2> SUFFICES ASSUME TInv, Next, store = "mongo", NEW t \in Tasks, NEW c \in Collections,
                      pc[t] = "writing", pc'[t] = "idle",
                      req[t].kind \in {"add", "remove"}, req[t].coll = c
               PROVE  Without(desc'[c].fields, req[t].col.name)
                        = Without(desc[c].fields, req[t].col.name)
    BY Zenon
  <2>1. CASE desc' = desc
    BY <2>1
  <2>2. CASE \E u \in Tasks \ {t} : DeleteDescriptor(u) \/ Write(u)
    <3>1. PICK u \in Tasks \ {t} : \E step : pc' = [pc EXCEPT ![u] = step]
      BY <2>2 DEF DeleteDescriptor, Write, Goto, Return
    <3> QED BY <3>1 DEF TInv, Functional
  <2>3. CASE DeleteDescriptor(t)
    BY <2>3 DEF DeleteDescriptor
  <2>4. CASE Write(t) /\ desc' # desc
    <3>1. t \in Busy /\ RequestOK(t)
      BY DEF Busy, TInv, RequestsOK
    <3>2. req[t].col \in Columns /\ DescriptorOK(desc[c])
      BY <3>1 DEF RequestOK, TInv, DescriptorsOK
    <3>3. desc' = [desc EXCEPT ![c] = Written(req[t].kind, req[t].col, seen[t], desc[c])]
      BY <2>4 DEF Write
    <3>4. desc'[c] = MongoWrite(req[t].kind, req[t].col, seen[t], desc[c])
      BY <3>3 DEF Written, TInv, Functional
    <3> QED BY <3>2, <3>4, MongoLeavesOthers
  <2>5. desc' = desc \/ \E u \in Tasks : DeleteDescriptor(u) \/ Write(u)
    BY DEF Next, Step, Call, Fail, InsertItem, EnsureSystemTable, CreateSystemTable,
           Read, CreateTable, DropTable
  <2> QED BY <2>1, <2>2, <2>3, <2>4, <2>5
<1>2. Spec => [][Next]_vars
  BY PTL DEF Spec
<1> QED BY <1>1, <1>2, Typed, PTL DEF OwnColumnOnly

-----------------------------------------------------------------------------
(* Calls that overlap no other. *)
LEMMA StepFacts ==
    ASSUME TInv, NEW t \in Tasks, Step(t) \/ Fail(t)
    PROVE  /\ t \in Busy
           /\ RequestOK(t)
           /\ UNCHANGED <<store, req, shared>>
           /\ \E step \in Steps :
                 /\ pc' = [pc EXCEPT ![t] = step]
                 /\ pc'[t] = step
                 /\ step # "idle" => answer' = answer
           /\ \A u \in Tasks \ {t} : pc'[u] = pc[u] /\ answer'[u] = answer[u]
<1>1. t \in Busy /\ UNCHANGED <<store, req, shared>>
  BY DEF Step, EnsureSystemTable, CreateSystemTable, Read, Write, CreateTable,
         DeleteDescriptor, DropTable, Fail, Busy
<1>2. Fail(t) \/ (\E step : Goto(t, step)) \/ \E result : Return(t, result)
  BY DEF Step, EnsureSystemTable, CreateSystemTable, Read, Write, CreateTable,
         DeleteDescriptor, DropTable
<1>3. \E step : /\ pc' = [pc EXCEPT ![t] = step]
                /\ step # "idle" => answer' = answer
                /\ \A u \in Tasks \ {t} : answer'[u] = answer[u]
  BY <1>2 DEF Fail, Goto, Return, TInv, Functional
<1>4. PICK step : /\ pc' = [pc EXCEPT ![t] = step]
                  /\ step # "idle" => answer' = answer
                  /\ \A u \in Tasks \ {t} : answer'[u] = answer[u]
  BY <1>3
<1>5. pc'[t] = step /\ \A u \in Tasks \ {t} : pc'[u] = pc[u]
  BY <1>4 DEF TInv, Functional
<1>6. TInv'
  BY NextTyped DEF Next
<1>7. step \in Steps
  BY <1>5, <1>6 DEF TInv, Functional
<1>8. RequestOK(t)
  BY <1>1 DEF TInv, RequestsOK
<1> QED BY <1>1, <1>4, <1>5, <1>7, <1>8

LEMMA SoloCall ==
    ASSUME TInv, SolosOK, NEW t \in Tasks, NEW kind \in Kinds, NEW c \in Collections,
           NEW col \in Columns, Call(t, kind, c, col)
    PROVE  SolosOK'
<1>1. /\ pc' = [pc EXCEPT ![t] = FirstStep(kind)]
      /\ req' = [u \in Tasks |-> IF u = t THEN [kind |-> kind, coll |-> c, col |-> col]
                                 ELSE IF u \in Busy THEN req[u] ELSE NoCall]
      /\ answer' = [u \in Tasks |-> "none"]
      /\ shared' = IF Busy = {} THEN shared \ {t} ELSE shared \cup Busy \cup {t}
      /\ UNCHANGED <<store, system, desc, tables>>
      /\ Planned(kind, c, col)
  BY DEF Call
<1>2. pc'[t] = FirstStep(kind) /\ \A u \in Tasks \ {t} : pc'[u] = pc[u]
  BY <1>1 DEF TInv, Functional
<1>3. Busy' \subseteq Busy \cup {t}
  BY <1>2 DEF Busy
<1>4. CASE Busy # {}
  BY <1>1, <1>3, <1>4 DEF SolosOK
<1>5. CASE Busy = {}
  <2>1. \A u \in Tasks : u # t => pc'[u] = "idle"
    BY <1>2, <1>5 DEF Busy
  <2>2. \A u \in Tasks : answer'[u] = "none"
    BY <1>1
  <2>3. req'[t].kind = kind /\ req'[t].coll = c /\ req'[t].col = col
    BY <1>1
  <2>4. kind = "change" => col.name \in Named(desc'[c].fields)
    BY <1>1 DEF Planned
  <2>5. pc'[t] # "dropping" /\ (pc'[t] = "writing" => kind = "drop")
    BY <1>2 DEF FirstStep
  <2>6. Solo(t)'
    BY <2>1, <2>2, <2>3, <2>4, <2>5 DEF Solo
  <2> QED BY <1>3, <1>5, <2>6 DEF SolosOK
<1> QED BY <1>4, <1>5

LEMMA SoloStep ==
    ASSUME TInv, SolosOK, NEW t \in Tasks, Step(t) \/ Fail(t)
    PROVE  SolosOK'
<1>1. /\ t \in Busy
      /\ RequestOK(t)
      /\ UNCHANGED <<store, req, shared>>
      /\ \A u \in Tasks \ {t} : pc'[u] = pc[u] /\ answer'[u] = answer[u]
  BY StepFacts
<1>2. PICK step \in Steps :
          /\ pc' = [pc EXCEPT ![t] = step]
          /\ pc'[t] = step
          /\ step # "idle" => answer' = answer
  BY StepFacts
<1>3. SUFFICES ASSUME NEW v \in Busy' \ shared' PROVE Solo(v)'
  BY DEF SolosOK
<1>4. v \in Busy \ shared
  BY <1>1, <1>3 DEF Busy
<1>5. Solo(v)
  BY <1>4 DEF SolosOK
<1>6. v = t
  BY <1>1, <1>5 DEF Solo, Busy
<1>7. step # "idle"
  BY <1>2, <1>3, <1>6 DEF Busy
<1> DEFINE kind == req[t].kind
           d    == desc[req[t].coll]
           n    == req[t].col.name
<1>8. /\ \A u \in Tasks : u # t => pc'[u] = "idle"
      /\ \A u \in Tasks : answer'[u] = "none"
      /\ kind = "change" => n \in Named(d.fields)
  BY <1>1, <1>2, <1>5, <1>6, <1>7 DEF Solo
<1>9. req[t].coll \in Collections /\ DOMAIN desc = Collections /\ DOMAIN seen = Tasks
  BY <1>1 DEF RequestOK, TInv, Functional
<1>10. /\ kind = "change" => desc'[req[t].coll] = d
       /\ step = "writing" /\ kind # "drop" =>
             desc'[req[t].coll] = d /\ seen'[t] = d.fields /\ Verdict(kind, d, n) = ""
       /\ step = "dropping" => ~ desc'[req[t].coll].exists
  <2>1. CASE EnsureSystemTable(t)
    BY <1>2, <2>1 DEF EnsureSystemTable, Goto, TInv, Functional
  <2>2. CASE CreateSystemTable(t)
    BY <1>2, <1>7, <2>2 DEF CreateSystemTable, Goto, Return, TInv, Functional
  <2>3. CASE Read(t)
    BY <1>2, <1>7, <1>9, <2>3 DEF Read, Goto, Return, TInv, Functional
  <2>4. CASE Write(t)
    <3>1. step = "creating" /\ kind = "create"
      BY <1>2, <1>7, <2>4 DEF Write, Goto, Return, TInv, Functional
    <3> QED BY <3>1
  <2>5. CASE CreateTable(t) \/ DropTable(t) \/ Fail(t)
    BY <1>2, <1>7, <2>5 DEF CreateTable, DropTable, Fail, Return, TInv, Functional
  <2>6. CASE DeleteDescriptor(t)
    <3>1. kind = "drop" /\ step = "dropping"
      BY <1>2, <1>7, <2>6 DEF DeleteDescriptor, Goto, Return, TInv, Functional
    <3>2. ~ desc'[req[t].coll].exists
      BY <1>9, <2>6 DEF DeleteDescriptor, NoDescriptor
    <3> QED BY <3>1, <3>2
  <2> QED BY <2>1, <2>2, <2>3, <2>4, <2>5, <2>6 DEF Step
<1>11. kind # "drop" /\ step = "writing" => Verdict(kind, d, n)' = ""
  <2>1. Verdict(kind, d, n)' = Verdict(kind, desc'[req[t].coll], n)
    BY <1>1 DEF Verdict
  <2> QED BY <1>10, <2>1
<1> QED BY <1>1, <1>2, <1>6, <1>8, <1>10, <1>11 DEF Solo

LEMMA SoloNext == TInv /\ SolosOK /\ [Next]_vars => SolosOK'
<1> SUFFICES ASSUME TInv, SolosOK, [Next]_vars PROVE SolosOK'
  OBVIOUS
<1>1. CASE \E t \in Tasks, kind \in Kinds, c \in Collections, col \in Columns : Call(t, kind, c, col)
  BY <1>1, SoloCall
<1>2. CASE \E t \in Tasks : Step(t) \/ Fail(t)
  BY <1>2, SoloStep
<1>3. CASE UNCHANGED <<store, desc, pc, req, seen, answer, shared>>
  BY <1>3 DEF SolosOK, Busy, Solo, Verdict
<1>4. (\E c \in Collections : InsertItem(c)) \/ UNCHANGED vars
        => UNCHANGED <<store, desc, pc, req, seen, answer, shared>>
  BY DEF InsertItem, vars
<1> QED BY <1>1, <1>2, <1>3, <1>4 DEF Next

-----------------------------------------------------------------------------
(* Collections that were dropped. *)
LEMMA HealedCall ==
    ASSUME HInv, NEW t \in Tasks, NEW kind \in Kinds, NEW c \in Collections,
           NEW col \in Columns, Call(t, kind, c, col)
    PROVE  HealedOK'
<1>1. /\ pc[t] = "idle"
      /\ pc' = [pc EXCEPT ![t] = FirstStep(kind)]
      /\ req' = [u \in Tasks |-> IF u = t THEN [kind |-> kind, coll |-> c, col |-> col]
                                 ELSE IF u \in Busy THEN req[u] ELSE NoCall]
      /\ answer' = [u \in Tasks |-> "none"]
      /\ healed' = IF kind = "create" /\ Busy = {} THEN healed ELSE healed \ {c}
      /\ UNCHANGED <<store, system, desc, tables>>
  BY DEF Call
<1>2. pc'[t] = FirstStep(kind) /\ \A u \in Tasks \ {t} : pc'[u] = pc[u]
  BY <1>1 DEF HInv, TInv, Functional
<1>3. FirstStep(kind) \notin {"idle", "creating"}
  BY DEF FirstStep
<1>4. Busy' = Busy \cup {t} /\ t \notin Busy
  BY <1>1, <1>2, <1>3 DEF Busy
<1>5. SUFFICES ASSUME NEW x \in healed' PROVE Healed(x)'
  BY <1>1 DEF HInv, HealedOK
<1>6. Healed(x)
  BY <1>1, <1>5 DEF HInv, HealedOK
<1>7. req'[t].coll = c /\ req'[t].kind = kind /\ \A u \in Busy : req'[u] = req[u]
  BY <1>1, <1>4 DEF Busy
<1>8. answer'[t] = "none" /\ \A u \in Tasks : answer'[u] = "none"
  BY <1>1
<1>9. CASE x = c
  <2>1. kind = "create" /\ Busy = {}
    BY <1>1, <1>5, <1>9
  <2>2. About(x)' = {t}
    BY <1>4, <1>7, <1>9, <2>1 DEF About
  <2>3. About(x) = {}
    BY <2>1 DEF About
  <2>4. store' # "firestore" /\ desc'[x].exists => x \in tables'
    BY <1>1, <1>6, <2>3 DEF Healed
  <2> QED BY <1>2, <1>3, <1>7, <1>8, <2>1, <2>2, <2>4 DEF Healed
<1>10. CASE x # c
  <2>1. About(x)' = About(x)
    BY <1>4, <1>7, <1>10 DEF About
  <2>2. \A u \in About(x) : req'[u] = req[u] /\ pc'[u] = pc[u]
    BY <1>2, <1>4, <1>7 DEF About, Busy
  <2> QED BY <1>1, <1>6, <1>8, <2>1, <2>2 DEF Healed
<1> QED BY <1>9, <1>10

(* A step of a call about another collection, or of a creation.            *)
LEMMA HealedElsewhere ==
    ASSUME HInv, NEW t \in Tasks, Step(t) \/ Fail(t), NEW x \in Collections, Healed(x),
           req[t].coll # x, desc'[x] = desc[x], x \in tables => x \in tables'
    PROVE  Healed(x)'
<1>1. /\ t \in Busy
      /\ UNCHANGED <<store, req, shared>>
      /\ \A u \in Tasks \ {t} : pc'[u] = pc[u] /\ answer'[u] = answer[u]
  BY StepFacts DEF HInv
<1>2. About(x)' = About(x) /\ t \notin About(x)
  BY <1>1 DEF About, Busy
<1>3. \A u \in About(x) : u \in Tasks \ {t}
  BY <1>2 DEF About, Busy
<1> QED BY <1>1, <1>2, <1>3 DEF Healed, Complete

LEMMA HealedCreate ==
    ASSUME HInv, NEW t \in Tasks, Step(t), NEW x, x = req[t].coll, Healed(x)
    PROVE  Healed(x)'
<1>1. /\ t \in Busy
      /\ RequestOK(t)
      /\ UNCHANGED <<store, req, shared>>
      /\ \A u \in Tasks \ {t} : pc'[u] = pc[u] /\ answer'[u] = answer[u]
  BY StepFacts DEF HInv
<1>2. PICK step \in Steps :
          /\ pc' = [pc EXCEPT ![t] = step]
          /\ pc'[t] = step
          /\ step # "idle" => answer' = answer
  BY StepFacts DEF HInv
<1>3. /\ About(x) = {t} /\ req[t].kind = "create"
      /\ pc[t] = "creating" => desc[x].exists
      /\ store # "firestore" /\ desc[x].exists => x \in tables \/ pc[t] = "creating"
      /\ \A u \in Tasks : ~ (answer[u] = "ok" /\ req[u].kind = "create" /\ req[u].coll = x)
  BY <1>1 DEF About, Healed
<1>4. About(x)' = IF step = "idle" THEN {} ELSE {t}
  BY <1>1, <1>2, <1>3 DEF About, Busy
<1>5. x \in Collections /\ DOMAIN desc = Collections /\ DOMAIN answer = Tasks
  BY <1>1 DEF RequestOK, HInv, TInv, Functional
<1>6. /\ step = "creating" => desc'[x].exists
      /\ store # "firestore" /\ desc'[x].exists => x \in tables' \/ step = "creating"
      /\ store # "firestore" /\ step = "idle" /\ answer'[t] = "ok" =>
            desc'[x].exists /\ x \in tables'
  <2>1. CASE EnsureSystemTable(t)
    <3>1. step # "creating" /\ step # "idle"
      BY <1>2, <2>1 DEF EnsureSystemTable, Goto, HInv, TInv, Functional
    <3> QED BY <1>3, <2>1, <3>1 DEF EnsureSystemTable
  <2>2. CASE CreateSystemTable(t)
    <3>1. step # "creating" /\ (step = "idle" => answer'[t] # "ok")
      BY <1>2, <1>5, <2>2 DEF CreateSystemTable, Goto, Return, HInv, TInv, Functional
    <3> QED BY <1>3, <2>2, <3>1 DEF CreateSystemTable
  <2>3. CASE Read(t)
    <3>1. UNCHANGED <<desc, tables>> /\ pc[t] = "reading"
      BY <2>3 DEF Read
    <3>2. step # "creating" /\ (step = "idle" => desc[x].exists)
      <4>1. CASE desc[x].exists
        <5>1. \E result : Return(t, result)
          BY <1>3, <2>3, <4>1 DEF Read, Verdict
        <5> QED BY <1>2, <4>1, <5>1 DEF Return, HInv, TInv, Functional
      <4>2. CASE ~ desc[x].exists
        <5>1. Goto(t, "writing")
          BY <1>3, <2>3, <4>2 DEF Read, Verdict
        <5> QED BY <1>2, <5>1 DEF Goto, HInv, TInv, Functional
      <4> QED BY <4>1, <4>2
    <3> QED BY <1>3, <3>1, <3>2
  <2>4. CASE Write(t)
    <3>1. UNCHANGED tables /\ pc[t] = "writing"
      BY <2>4 DEF Write
    <3>2. CASE WriteFails("create", desc[x])
      <4>1. UNCHANGED desc /\ Return(t, "DbError")
        BY <1>3, <2>4, <3>2 DEF Write
      <4>2. step = "idle" /\ answer'[t] # "ok"
        BY <1>2, <1>5, <4>1 DEF Return, HInv, TInv, Functional
      <4> QED BY <1>3, <3>1, <4>1, <4>2
    <3>3. CASE ~ WriteFails("create", desc[x])
      <4>1. desc' = [desc EXCEPT ![x] = Written("create", req[t].col, seen[t], desc[x])]
        BY <1>3, <2>4, <3>3 DEF Write
      <4>2. Written("create", req[t].col, seen[t], desc[x]).exists
        <5>1. CASE store = "mongo"
          BY <3>3, <5>1 DEF WriteFails, Written, MongoWrite, Descriptor
        <5>2. CASE store = "dynamo"
          BY <5>2 DEF Written, DynamoWrite, Descriptor
        <5>3. CASE store = "firestore"
          BY <5>3 DEF Written, FirestoreWrite, Descriptor
        <5> QED BY <5>1, <5>2, <5>3 DEF HInv, TInv, Functional
      <4>3. desc'[x].exists
        BY <1>5, <4>1, <4>2
      <4>4. store # "firestore" => Goto(t, "creating")
        BY <1>3, <2>4, <3>3 DEF Write
      <4>5. store # "firestore" => step = "creating"
        BY <1>2, <4>4 DEF Goto, HInv, TInv, Functional
      <4> QED BY <4>3, <4>5
    <3> QED BY <3>2, <3>3
  <2>5. CASE CreateTable(t)
    <3>1. desc' = desc /\ tables' = tables \cup {x} /\ pc[t] = "creating" /\ step = "idle"
      BY <1>2, <2>5 DEF CreateTable, Return, HInv, TInv, Functional
    <3> QED BY <1>3, <3>1
  <2>6. CASE DeleteDescriptor(t) \/ DropTable(t)
    <3>1. DropTable(t) /\ pc[t] = "dropping"
      BY <1>3, <2>6 DEF DeleteDescriptor, DropTable
    <3> QED BY <1>1, <1>3, <3>1 DEF RequestOK
  <2> QED BY <2>1, <2>2, <2>3, <2>4, <2>5, <2>6 DEF Step
<1>7. \A u \in Tasks : answer'[u] = "ok" /\ req'[u].kind = "create" /\ req'[u].coll = x
          => u = t /\ step = "idle"
  <2>1. step # "idle" => answer'[t] = answer[t]
    BY <1>2
  <2> QED BY <1>1, <1>3, <2>1
<1>8. /\ \A u \in About(x)' :
            /\ req'[u].kind = "create"
            /\ About(x)' = {u}
            /\ pc'[u] = "creating" => desc'[x].exists
      /\ store' # "firestore" /\ desc'[x].exists =>
            x \in tables' \/ \E u \in About(x)' : pc'[u] = "creating"
  BY <1>1, <1>2, <1>3, <1>4, <1>6
<1>9. \A u \in Tasks : answer'[u] = "ok" /\ req'[u].kind = "create" /\ req'[u].coll = x
          => About(x)' = {} /\ (store' # "firestore" => desc'[x].exists /\ x \in tables')
  BY <1>1, <1>4, <1>6, <1>7
<1> QED BY <1>8, <1>9 DEF Healed, Complete

LEMMA HealedStep ==
    ASSUME HInv, NEW t \in Tasks, Step(t) \/ Fail(t)
    PROVE  HealedOK'
<1>1. /\ t \in Busy
      /\ RequestOK(t)
      /\ UNCHANGED <<store, req, shared>>
      /\ \A u \in Tasks \ {t} : pc'[u] = pc[u] /\ answer'[u] = answer[u]
  BY StepFacts DEF HInv
<1> SUFFICES ASSUME NEW x \in healed' PROVE x \in Collections /\ Healed(x)'
  BY DEF HealedOK
<1>2. req[t].coll \in Collections
  BY <1>1 DEF RequestOK
<1>3. CASE x \in healed /\ req[t].coll = x
  <2>1. Healed(x)
    BY <1>3 DEF HInv, HealedOK
  <2>2. ~ Fail(t)
    BY <1>3 DEF Fail
  <2> QED BY <1>2, <1>3, <2>1, <2>2, HealedCreate
<1>4. CASE x \in healed /\ req[t].coll # x
  <2>1. x \in Collections /\ Healed(x)
    BY <1>4 DEF HInv, HealedOK
  <2>2. desc'[x] = desc[x] /\ (x \in tables => x \in tables')
    BY <1>4, <2>1 DEF Step, EnsureSystemTable, CreateSystemTable, Read, Write, CreateTable,
                DeleteDescriptor, DropTable, Fail, HInv, TInv, Functional
  <2> QED BY <1>4, <2>1, <2>2, HealedElsewhere
<1>5. CASE x \notin healed
  <2>1. x = req[t].coll /\ t \notin shared
    BY <1>5 DEF Step, EnsureSystemTable, CreateSystemTable, Read, Write, CreateTable,
                DeleteDescriptor, DropTable, Fail, Heals
  <2>2. Solo(t)
    BY <1>1, <2>1 DEF HInv, SolosOK
  <2>3. DOMAIN desc = Collections /\ DOMAIN answer = Tasks
    BY DEF HInv, TInv, Functional
  <2>4. /\ req[t].kind = "drop"
        /\ ~ desc'[x].exists
        /\ \E result : Return(t, result)
    <3>1. CASE DeleteDescriptor(t)
      <4>1. ~ desc'[x].exists
        BY <1>2, <2>1, <2>3, <3>1 DEF DeleteDescriptor, NoDescriptor
      <4>2. req[t].kind = "drop" /\ (healed' = healed \/ \E result : Return(t, result))
        BY <3>1 DEF DeleteDescriptor
      <4> QED BY <1>5, <4>1, <4>2
    <3>2. CASE DropTable(t)
      BY <1>1, <2>1, <2>2, <3>2 DEF DropTable, Solo, RequestOK
    <3>3. CASE ~ DeleteDescriptor(t) /\ ~ DropTable(t)
      BY <1>5, <3>3 DEF Step, EnsureSystemTable, CreateSystemTable, Read, Write, CreateTable, Fail
    <3> QED BY <3>1, <3>2, <3>3
  <2>5. \A u \in Tasks : pc'[u] = "idle"
    BY <1>1, <2>2, <2>4 DEF Return, Solo, HInv, TInv, Functional
  <2>6. About(x)' = {}
    BY <2>5 DEF About, Busy
  <2>7. \A u \in Tasks : answer'[u] = "ok" => req'[u].kind = "drop"
    BY <1>1, <2>2, <2>4 DEF Solo
  <2> QED BY <1>2, <2>1, <2>4, <2>6, <2>7 DEF Healed
<1> QED BY <1>3, <1>4, <1>5

LEMMA HealedNext == HInv /\ [Next]_vars => HealedOK'
<1> SUFFICES ASSUME HInv, [Next]_vars PROVE HealedOK'
  OBVIOUS
<1>1. CASE \E t \in Tasks, kind \in Kinds, c \in Collections, col \in Columns : Call(t, kind, c, col)
  BY <1>1, HealedCall
<1>2. CASE \E t \in Tasks : Step(t) \/ Fail(t)
  BY <1>2, HealedStep
<1>3. CASE UNCHANGED <<store, desc, pc, req, answer, healed>> /\ tables \subseteq tables'
  BY <1>3 DEF HInv, HealedOK, Healed, About, Busy, Complete
<1>4. (\E c \in Collections : InsertItem(c)) \/ UNCHANGED vars
        => UNCHANGED <<store, desc, pc, req, answer, healed>> /\ tables \subseteq tables'
  BY DEF InsertItem, vars
<1> QED BY <1>1, <1>2, <1>3, <1>4 DEF Next

LEMMA InitHInv == Init => HInv
<1> SUFFICES ASSUME Init PROVE HInv
  OBVIOUS
<1>1. SolosOK /\ HealedOK
  BY DEF Init, SolosOK, HealedOK, Busy
<1> QED BY <1>1, InitTInv DEF HInv

LEMMA Healing == Spec => []HInv
<1>1. HInv /\ [Next]_vars => HInv'
  BY NextTyped, SoloNext, HealedNext DEF HInv
<1> QED BY <1>1, InitHInv, PTL DEF Spec

(* The way out of a creation that was cut short: a drop that came back,    *)
(* even with "CollectionDoesNotExists" for the table that is missing, has  *)
(* taken the descriptor away, so that the next creation does not find it   *)
(* and answer success for nothing.                                         *)
THEOREM DropsHeal == Spec => []DropHeals
<1>1. HInv => DropHeals
  <2> SUFFICES ASSUME HInv, NEW t \in Tasks, answer[t] = "ok", req[t].kind = "create",
                      req[t].coll \in healed, store # "firestore"
               PROVE  desc[req[t].coll].exists /\ req[t].coll \in tables
    BY DEF DropHeals
  <2> QED BY DEF HInv, HealedOK, Healed, Complete
<1> QED BY <1>1, Healing, PTL

-----------------------------------------------------------------------------
(* The catalogue of columns. *)
LEMMA ListedIs ==
    ASSUME NEW q
    PROVE  /\ \A x : x \in ToSet(q) <=> Listed(q, x)
           /\ \A n : n \in Named(q) <=> \E x \in ToSet(q) : x.name = n
BY DEF ToSet, Listed, Named

LEMMA DescribedIs ==
    ASSUME TInv, NEW c \in Collections
    PROVE  /\ Described[c].exists = desc[c].exists
           /\ Described[c].columns = ToSet(desc[c].fields)
           /\ Catalogue!Names(c) = Named(desc[c].fields)
<1>1. /\ Described[c].exists = desc[c].exists
      /\ Described[c].columns = ToSet(desc[c].fields)
  BY DEF Described
<1>2. Catalogue!Names(c) = {col.name : col \in Described[c].columns}
  BY DEF Catalogue!Names
<1>3. \A n : n \in Catalogue!Names(c) <=> n \in Named(desc[c].fields)
  BY <1>1, <1>2, ListedIs
<1> QED BY <1>1, <1>3

(* Writing a descriptor is the abstract step that leaves its columns. *)
LEMMA WritingBecomes ==
    ASSUME TInv, NEW c \in Collections, NEW fields, NEW columns,
           desc' = [desc EXCEPT ![c] = Descriptor(fields)],
           \A x : Listed(fields, x) <=> x \in columns
    PROVE  Catalogue!Become(c, columns)
<1>1. ToSet(fields) = columns
  BY ListedIs
<1>2. DOMAIN desc = Collections
  BY DEF TInv, Functional
<1>3. \A x \in Collections :
          Described'[x] = IF x = c THEN [exists |-> TRUE, columns |-> columns] ELSE Described[x]
  BY <1>1, <1>2 DEF Described, Descriptor
<1>4. Described' = [x \in Collections |-> Described'[x]] /\ DOMAIN Described = Collections
  BY DEF Described
<1> HIDE DEF Described
<1>5. Described' = [Described EXCEPT ![c] = [exists |-> TRUE, columns |-> columns]]
  BY <1>3, <1>4
<1> QED BY <1>5 DEF Catalogue!Become

LEMMA SoloWrites ==
    ASSUME TInv, NEW t \in Tasks, Write(t), Solo(t)
    PROVE  Catalogue!Next \/ UNCHANGED Described
<1> DEFINE c == req[t].coll
           kind == req[t].kind
           col == req[t].col
           d == desc[c]
           w == Written(kind, col, seen[t], d)
<1>1. /\ pc[t] = "writing" /\ kind # "drop"
      /\ UNCHANGED desc \/ desc' = [desc EXCEPT ![c] = w]
  BY DEF Write
<1>2. t \in Busy /\ RequestOK(t)
  BY <1>1 DEF Busy, TInv, RequestsOK
<1>3. /\ c \in Collections /\ col \in Columns /\ kind \in {"create", "add", "remove", "change"}
      /\ kind = "create" /\ col.name = PrimaryKeyFieldName => col = Key
      /\ kind = "change" => store # "firestore"
  BY <1>1, <1>2 DEF RequestOK, Writing
<1>4. /\ store \in {"mongo", "dynamo", "firestore"}
      /\ d.exists \in BOOLEAN /\ d.fields \in Seq(Columns)
  BY <1>3 DEF TInv, Functional, DescriptorsOK, DescriptorOK
<1>5. /\ seen[t] = d.fields
      /\ Verdict(kind, d, col.name) = ""
      /\ kind = "change" => col.name \in Named(d.fields)
  BY <1>1 DEF Solo
<1>6. /\ Described[c].exists = d.exists
      /\ Described[c].columns = ToSet(d.fields)
      /\ Catalogue!Names(c) = Named(d.fields)
  BY <1>3, DescribedIs
<1>7. CASE UNCHANGED desc
  BY <1>7 DEF Described
<1> SUFFICES ASSUME desc' = [desc EXCEPT ![c] = w] PROVE Catalogue!Next
  BY <1>1, <1>7
<1>8. CASE kind = "create"
  <2>1. ~ d.exists
    BY <1>5, <1>8 DEF Verdict
  <2>2. w = Descriptor(NewFields(col))
    BY <1>4, <1>8, <2>1 DEF Written, MongoWrite, DynamoWrite, FirestoreWrite
  <2>3. NewFields(col) \in Seq(Columns)
    BY <1>3, <1>8, NewFieldsFacts
  <2>4. Catalogue!Become(c, ToSet(NewFields(col)))
    <3>1. \A x : Listed(NewFields(col), x) <=> x \in ToSet(NewFields(col))
      BY ListedIs
    <3> QED BY <1>3, <2>2, <3>1, WritingBecomes
  <2>5. ToSet(NewFields(col)) \in SUBSET Columns
    BY <2>3 DEF ToSet
  <2>6. Catalogue!Create(c)
    BY <1>6, <2>1, <2>4, <2>5 DEF Catalogue!Create
  <2> QED BY <1>3, <2>6 DEF Catalogue!Next
<1>9. CASE kind = "add"
  <2>1. d.exists /\ col.name \notin Named(d.fields)
    BY <1>5, <1>9 DEF Verdict
  <2>2. \E fields : /\ w = Descriptor(fields)
                    /\ \A x : Listed(fields, x) <=> Listed(d.fields, x) \/ x = col
    <3>1. CASE store = "mongo"
      <4>1. w = Descriptor(AddToSet(d.fields, col))
        BY <1>9, <2>1, <3>1 DEF Written, MongoWrite
      <4>2. \A x : Listed(AddToSet(d.fields, col), x) <=> Listed(d.fields, x) \/ x = col
        BY <1>3, <1>4, AddToSetFacts
      <4> HIDE DEF w
      <4> QED BY <4>1, <4>2
    <3>2. CASE store # "mongo"
      <4>1. w = Descriptor(Append(d.fields, col))
        BY <1>4, <1>5, <1>9, <2>1, <3>2 DEF Written, DynamoWrite, FirestoreWrite
      <4>2. \A x : Listed(Append(d.fields, col), x) <=> Listed(d.fields, x) \/ x = col
        BY <1>3, <1>4, ListedAppend
      <4> HIDE DEF w
      <4> QED BY <4>1, <4>2
    <3> QED BY <3>1, <3>2
  <2>3. PICK fields : /\ w = Descriptor(fields)
                      /\ \A x : Listed(fields, x) <=> Listed(d.fields, x) \/ x = col
    BY <2>2
  <2>4. \A x : Listed(fields, x) <=> x \in ToSet(d.fields) \cup {col}
    BY <2>3, ListedIs
  <2>5. Catalogue!Become(c, ToSet(d.fields) \cup {col})
    BY <1>3, <2>3, <2>4, WritingBecomes
  <2>6. Catalogue!Add(c, col)
    BY <1>6, <2>1, <2>5 DEF Catalogue!Add
  <2> QED BY <1>3, <2>6 DEF Catalogue!Next
<1>10. CASE kind = "remove"
  <2>1. d.exists /\ col.name \in Named(d.fields)
    BY <1>5, <1>10 DEF Verdict
  <2>2. w = Descriptor(Without(d.fields, col.name))
    BY <1>4, <1>5, <1>10, <2>1 DEF Written, MongoWrite, DynamoWrite, FirestoreWrite
  <2>3. \A x : Listed(Without(d.fields, col.name), x) <=> Listed(d.fields, x) /\ x.name # col.name
    BY <1>4, WithoutKeeps
  <2>4. \A x : Listed(Without(d.fields, col.name), x) <=> x \in Catalogue!Others(c, col.name)
    BY <1>6, <2>3, ListedIs DEF Catalogue!Others
  <2>5. Catalogue!Become(c, Catalogue!Others(c, col.name))
    BY <1>3, <2>2, <2>4, WritingBecomes
  <2>6. Catalogue!Remove(c, col.name)
    BY <1>6, <2>1, <2>5 DEF Catalogue!Remove
  <2> QED BY <1>3, <2>6 DEF Catalogue!Next
<1>11. CASE kind = "change"
  <2>1. d.exists /\ col.name \in Named(d.fields)
    BY <1>5, <1>11 DEF Verdict
  <2>2. \E fields : /\ w = Descriptor(fields)
                    /\ \A x : Listed(fields, x) <=> \/ Listed(d.fields, x) /\ x.name # col.name
                                                    \/ x = col
    <3>1. CASE store = "mongo"
      <4>1. w = Descriptor(Append(Without(d.fields, col.name), col))
        BY <1>5, <1>11, <2>1, <3>1 DEF Written, MongoWrite
      <4>2. \A x : Listed(Append(Without(d.fields, col.name), col), x) <=> (Listed(d.fields, x) /\ x.name # col.name) \/ x = col
        BY <1>3, <1>4, MovedFacts
      <4> HIDE DEF w
      <4> QED BY <4>1, <4>2
    <3>2. CASE store = "dynamo"
      <4>1. w = Descriptor(Replaced(d.fields, col))
        BY <1>5, <1>11, <2>1, <3>2 DEF Written, DynamoWrite
      <4>2. \A x : Listed(Replaced(d.fields, col), x) <=> (Listed(d.fields, x) /\ x.name # col.name) \/ x = col
        BY <1>3, <1>4, <2>1, ReplacedFacts
      <4> HIDE DEF w
      <4> QED BY <4>1, <4>2
    <3> QED BY <1>3, <1>4, <1>11, <3>1, <3>2
  <2>3. PICK fields : /\ w = Descriptor(fields)
                      /\ \A x : Listed(fields, x) <=> \/ Listed(d.fields, x) /\ x.name # col.name
                                                      \/ x = col
    BY <2>2
  <2>4. \A x : Listed(fields, x) <=> x \in Catalogue!Others(c, col.name) \cup {col}
    BY <1>6, <2>3, ListedIs DEF Catalogue!Others
  <2>5. Catalogue!Become(c, Catalogue!Others(c, col.name) \cup {col})
    BY <1>3, <2>3, <2>4, WritingBecomes
  <2>6. Catalogue!ChangeType(c, col)
    BY <1>6, <2>1, <2>5 DEF Catalogue!ChangeType
  <2> QED BY <1>3, <2>6 DEF Catalogue!Next
<1> QED BY <1>3, <1>8, <1>9, <1>10, <1>11

LEMMA SoloDeletes ==
    ASSUME TInv, NEW t \in Tasks, DeleteDescriptor(t)
    PROVE  Catalogue!Next \/ UNCHANGED Described
<1> DEFINE c == req[t].coll
<1>1. pc[t] = "writing" /\ desc' = [desc EXCEPT ![c] = NoDescriptor]
  BY DEF DeleteDescriptor
<1>2. t \in Busy /\ RequestOK(t)
  BY <1>1 DEF Busy, TInv, RequestsOK
<1>3. c \in Collections /\ DOMAIN desc = Collections
  BY <1>2 DEF RequestOK, TInv, Functional
<1>4. desc[c].exists \in BOOLEAN /\ (~ desc[c].exists => desc[c].fields = <<>>)
  BY <1>3 DEF TInv, DescriptorsOK, DescriptorOK
<1>5. ToSet(<<>>) = {}
  BY DEF ToSet
<1>6. \A x \in Collections : Described'[x] = IF x = c THEN Catalogue!Absent ELSE Described[x]
  BY <1>1, <1>3, <1>5 DEF Described, NoDescriptor, Catalogue!Absent
<1>7. ~ desc[c].exists => Described[c] = Catalogue!Absent
  BY <1>3, <1>4, <1>5 DEF Described, Catalogue!Absent
<1>8. Described[c].exists = desc[c].exists
  BY <1>3, DescribedIs
<1>9. /\ Described' = [x \in Collections |-> Described'[x]]
      /\ Described = [x \in Collections |-> Described[x]]
  BY DEF Described
<1> HIDE DEF Described
<1>10. CASE desc[c].exists
  <2>1. Described' = [Described EXCEPT ![c] = Catalogue!Absent]
    BY <1>6, <1>9
  <2>2. Catalogue!Drop(c)
    BY <1>8, <1>10, <2>1 DEF Catalogue!Drop
  <2> QED BY <1>3, <2>2 DEF Catalogue!Next
<1>11. CASE ~ desc[c].exists
  <2>1. \A x \in Collections : Described'[x] = Described[x]
    BY <1>6, <1>7, <1>11
  <2> QED BY <1>9, <2>1
<1> QED BY <1>4, <1>10, <1>11

(* As long as no call that overlapped another is under way, every step of  *)
(* a call, and every way of cutting it short, is one atomic operation on   *)
(* the catalogue of columns or does not change it: what was read is still  *)
(* there when the write happens, in each of the three databases.           *)
THEOREM CatalogueIsImplemented == Spec => ImplementsCatalogue
<1>1. Init => Catalogue!Init
  <2>1. ToSet(<<>>) = {}
    BY DEF ToSet
  <2> SUFFICES ASSUME Init PROVE Catalogue!Init
    OBVIOUS
  <2>2. \A c \in Collections : desc[c].exists = FALSE /\ desc[c].fields = <<>>
    BY DEF Init, NoDescriptor
  <2>3. \A c \in Collections :
            [exists |-> desc[c].exists, columns |-> ToSet(desc[c].fields)] = Catalogue!Absent
    BY <2>1, <2>2 DEF Catalogue!Absent
  <2>4. Described = [c \in Collections |-> Catalogue!Absent]
    BY <2>3 DEF Described
  <2> QED BY <2>4 DEF Catalogue!Init
<1>2. HInv /\ [Next]_vars => [Busy \cap shared = {} => Catalogue!Next \/ UNCHANGED Described]_vars
  <2> SUFFICES ASSUME HInv, Next, Busy \cap shared = {}
               PROVE  Catalogue!Next \/ UNCHANGED Described
    OBVIOUS
  <2>1. CASE \E t \in Tasks : Write(t)
    <3>1. PICK t \in Tasks : Write(t)
      BY <2>1
    <3>2. t \in Busy \ shared
      BY <3>1 DEF Write, Busy
    <3>3. Solo(t)
      BY <3>2 DEF HInv, SolosOK
    <3> QED BY <3>1, <3>3, SoloWrites DEF HInv
  <2>2. CASE \E t \in Tasks : DeleteDescriptor(t)
    BY <2>2, SoloDeletes DEF HInv
  <2>3. CASE UNCHANGED desc
    BY <2>3 DEF Described
  <2>4. UNCHANGED desc \/ \E t \in Tasks : Write(t) \/ DeleteDescriptor(t)
    BY DEF Next, Step, Call, Fail, InsertItem, EnsureSystemTable, CreateSystemTable,
           Read, CreateTable, DropTable
  <2> QED BY <2>1, <2>2, <2>3, <2>4
<1>3. Spec => Init /\ [][Next]_vars
  BY DEF Spec
<1> QED BY <1>1, <1>2, <1>3, Healing, PTL DEF ImplementsCatalogue
============================================================================
