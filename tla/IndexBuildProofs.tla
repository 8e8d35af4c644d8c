-------------------------- MODULE IndexBuildProofs --------------------------
(***************************************************************************)
(* Listings of indexes are exact, for any number of requests, whatever     *)
(* indexes there are, and whatever becomes of the statements under way.    *)
(*                                                                         *)
(* What was there all the time of a listing is there now, and what is      *)
(* there now was there at some time: that follows from any single step     *)
(* (Watched).  The invariant is about the first answer, which a listing    *)
(* holds while it waits for the second one: it has every active index that *)
(* was there all the time, and none that was not there at any time.        *)
(***************************************************************************)
EXTENDS IndexBuild, TLAPS

Listing(t) == pc[t] \in {"listing", "listed"}

Now(t) == Present(call[t].coll, active, building)

Watched(t) == Listing(t) => steady[t] \subseteq Now(t) /\ Now(t) \subseteq ever[t]

SeenAll(t) ==
    \A e \in steady[t] : e.status = "ACTIVE" =>
        \E i : e = Shown(i, "ACTIVE") /\ ActiveShown(i) \in seen[t]

SeenOnce(t) ==
    \A s \in seen[t] : \E i : Shown(i, "ACTIVE") \in ever[t] /\ s = ActiveShown(i)

Domains ==
    /\ DOMAIN pc = Tasks /\ DOMAIN call = Tasks
    /\ DOMAIN seen = Tasks /\ DOMAIN answer = Tasks

IInv ==
    /\ Domains
    /\ \A t \in Tasks : Watched(t)
    /\ \A t \in Tasks : pc[t] = "listed" => SeenAll(t) /\ SeenOnce(t)

-----------------------------------------------------------------------------
(* Columns that are one are themselves when they are joined.               *)
LEMMA FlattenOne == ASSUME NEW c PROVE FlattenSeq(<<c>>) = c
<1> DEFINE D == 1 .. Len(<<c>>)
           F(f) == [i \in D |-> IF i = 1 THEN <<c>>[i] ELSE f[i - 1] \o <<c>>[i]]
           flatten == CHOOSE f : f = F(f)
           g == [i \in D |-> c]
<1>1. D = {1} /\ Len(<<c>>) = 1
  OBVIOUS
<1>2. g = F(g)
  BY <1>1
<1>3. flatten = F(flatten)
  <2> HIDE DEF F
  <2> QED BY <1>2
<1>4. flatten[1] = c
  BY <1>1, <1>3
<1>5. FlattenSeq(<<c>>) = flatten[1]
  BY <1>1 DEF FlattenSeq
<1> QED BY <1>4, <1>5

(* An index whose columns are told right is told right.                    *)
LEMMA ShownRight ==
    ASSUME NEW i, Right(Shown(i, "ACTIVE"))
    PROVE  ActiveShown(i) = Shown(i, "ACTIVE")
<1>1. CASE db # "postgres"
  BY <1>1 DEF ActiveShown
<1>2. CASE db = "postgres"
  <2>1. PICK c : i.columns = <<c>>
    BY <1>2 DEF Right, Shown
  <2>2. FlattenSeq(i.columns) = c
    BY <2>1, FlattenOne
  <2> QED BY <1>2, <2>1, <2>2 DEF ActiveShown, Shown
<1> QED BY <1>1, <1>2

-----------------------------------------------------------------------------
(* A step that watches: Watch speaks of the listing that is under way when *)
(* it is done.                                                             *)
LEMMA WatchStep ==
    ASSUME Watch, NEW t \in Tasks, Watched(t) PROVE Watched(t)'
<1> SUFFICES ASSUME Listing(t)' PROVE steady'[t] \subseteq Now(t)' /\ Now(t)' \subseteq ever'[t]
  BY DEF Watched
<1>1. steady'[t] = IF pc[t] = "idle" THEN Now(t)' ELSE steady[t] \cap Now(t)'
  BY DEF Watch, Listing, Now
<1>2. ever'[t] = IF pc[t] = "idle" \/ pc'[t] = "idle" THEN Now(t)' ELSE ever[t] \cup Now(t)'
  BY DEF Watch, Listing, Now
<1> QED BY <1>1, <1>2

(* A listing that waits for its second answer knows its first as before.   *)
LEMMA ListedStays ==
    ASSUME Watch, NEW t \in Tasks, SeenAll(t), SeenOnce(t), pc[t] = "listed", pc'[t] = "listed",
           seen'[t] = seen[t], db' = db
    PROVE  SeenAll(t)' /\ SeenOnce(t)'
<1>1. steady'[t] \subseteq steady[t] /\ ever[t] \subseteq ever'[t]
  BY DEF Watch
<1>2. \A i : ActiveShown(i)' = ActiveShown(i)
  BY DEF ActiveShown, Shown
<1> QED BY <1>1, <1>2 DEF SeenAll, SeenOnce, Shown

(* The first answer: what is active now.                                   *)
LEMMA FirstAnswer ==
    ASSUME Domains, NEW t \in Tasks, Watched(t), getActiveIndexesFor(t)
    PROVE  SeenAll(t)' /\ SeenOnce(t)'
<1> DEFINE there == {j \in active : j.coll = call[t].coll}
<1>1. /\ pc[t] = "listing" /\ pc'[t] = "listed"
      /\ seen'[t] = {ActiveShown(i) : i \in there}
      /\ UNCHANGED <<db, active, building, call>> /\ Watch
  BY DEF getActiveIndexesFor, Domains, database
<1>2. Now(t)' = Now(t) /\ \A i : ActiveShown(i)' = ActiveShown(i)
  BY <1>1 DEF Now, Present, ActiveShown, Shown
<1>3. steady'[t] \subseteq Now(t) /\ Now(t) \subseteq ever'[t]
  BY <1>1, <1>2 DEF Watch, Watched, Listing, Now
<1>4. \A i \in there : Shown(i, "ACTIVE") \in Now(t)
  BY DEF Now, Present
<1>5. ASSUME NEW e \in Now(t), e.status = "ACTIVE" PROVE \E i \in there : e = Shown(i, "ACTIVE")
  <2>1. \A i : Shown(i, "BUILDING").status = "BUILDING"
    BY DEF Shown
  <2> QED BY <1>5, <2>1 DEF Now, Present
<1>6. SeenAll(t)'
  BY <1>1, <1>2, <1>3, <1>5 DEF SeenAll, Shown
<1>7. SeenOnce(t)'
  BY <1>1, <1>2, <1>3, <1>4 DEF SeenOnce, Shown
<1> QED BY <1>6, <1>7

(* A call that is answered no longer waits, and leaves the others alone.   *)
LEMMA Answered ==
    ASSUME Domains, NEW t \in Tasks, NEW result, Answer(t, result)
    PROVE  /\ Domains'
           /\ pc'[t] = "idle" /\ answer'[t] = result
           /\ \A u \in Tasks \ {t} : pc'[u] = pc[u] /\ seen'[u] = seen[u]
BY DEF Answer, Domains

(* A listing is answered by its second answer, or by an error.             *)
Ends(u) ==
    pc[u] = "listed" /\ pc'[u] = "idle" =>
        answer'[u].of # "list" \/ getInProgressIndexesFor(u)

(* A step of another kind than getActiveIndexesFor answers a call, or moves*)
(* one that does not list, or moves none.                                  *)
Elsewhere ==
    /\ Domains' /\ db' = db /\ Watch
    /\ \A u \in Tasks : pc'[u] = "listed" => pc[u] = "listed" /\ seen'[u] = seen[u]
    /\ \A u \in Tasks : Ends(u)

LEMMA BeginElsewhere ==
    ASSUME Domains, NEW t \in Tasks, NEW step, NEW c, step # "listed", Begin(t, step, c), Watch
    PROVE  Elsewhere
BY DEF Begin, Domains, Elsewhere, Ends, database

LEMMA AnswerElsewhere ==
    ASSUME Domains, NEW t \in Tasks, NEW result, Answer(t, result), db' = db, Watch,
           pc[t] # "listed" \/ result.of # "list" \/ getInProgressIndexesFor(t)
    PROVE  Elsewhere
<1>1. Ends(t)
  BY Answered DEF Ends
<1>2. \A u \in Tasks \ {t} : Ends(u)
  BY Answered DEF Ends
<1> QED BY <1>1, <1>2, Answered DEF Elsewhere

LEMMA RejectedElsewhere ==
    ASSUME Domains, NEW s, Rejected(s), db' = db, Watch
    PROVE  Elsewhere
<1>1. CASE \E t \in Tasks : Answer(t, Said("FAILED"))
  BY <1>1, AnswerElsewhere DEF Said
<1>2. CASE UNCHANGED request
  BY <1>2 DEF request, Domains, Elsewhere, Ends
<1> QED BY <1>1, <1>2 DEF Rejected

-----------------------------------------------------------------------------
LEMMA InitIInv == Init => IInv
BY DEF Init, IInv, Domains, Watched, Listing

(* Every step watches, and is an Elsewhere or a first answer.              *)
LEMMA StepCases ==
    ASSUME Domains, Next
    PROVE  Elsewhere \/ \E t \in Tasks : getActiveIndexesFor(t)
<1>1. ASSUME NEW t \in Tasks, NEW i \in Indexes, CreateStart(t, i) PROVE Elsewhere
  BY <1>1, BeginElsewhere DEF CreateStart
<1>2. ASSUME NEW t \in Tasks, NEW c \in Columns, ReadType(t, c) PROVE Elsewhere
  BY <1>2 DEF ReadType, Elsewhere, Ends, Domains, database
<1>3. ASSUME NEW t \in Tasks, NEW c \in Columns, ReadLength(t, c) PROVE Elsewhere
  <2>1. CASE \E r : Answer(t, r)
    BY <1>3, <2>1, AnswerElsewhere DEF ReadLength, database
  <2>2. CASE UNCHANGED <<pc, call, seen, answer>>
    BY <1>3, <2>2 DEF ReadLength, Elsewhere, Ends, Domains, database
  <2> QED BY <1>3, <2>1, <2>2 DEF ReadLength
<1>4. ASSUME NEW t \in Tasks, Issue(t) PROVE Elsewhere
  BY <1>4 DEF Issue, Elsewhere, Ends, Domains
<1>5. ASSUME NEW t \in Tasks, Timer(t) PROVE Elsewhere
  BY <1>5, AnswerElsewhere DEF Timer, database
<1>6. ASSUME NEW t \in Tasks, NEW c, NEW n, RemoveStart(t, c, n) PROVE Elsewhere
  BY <1>6, BeginElsewhere DEF RemoveStart
<1>7. ASSUME NEW t \in Tasks, RemoveIndex(t) PROVE Elsewhere
  BY <1>7, AnswerElsewhere DEF RemoveIndex
<1>8. ASSUME NEW t \in Tasks, NEW c \in Collections, ListStart(t, c) PROVE Elsewhere
  BY <1>8, BeginElsewhere DEF ListStart
<1>9. ASSUME NEW t \in Tasks, getInProgressIndexesFor(t) PROVE Elsewhere
  BY <1>9, AnswerElsewhere DEF getInProgressIndexesFor, database
<1>10. ASSUME NEW t \in Tasks, ListFails(t) PROVE Elsewhere
  BY <1>10, AnswerElsewhere DEF ListFails, Said, database
<1>11. ASSUME NEW s \in building, Refuse(s) PROVE Elsewhere
  BY <1>11, RejectedElsewhere DEF Refuse
<1>12. ASSUME NEW s \in building, Finish(s) PROVE Elsewhere
  BY <1>12 DEF Finish, Elsewhere, Ends, Domains, request
<1>13. ASSUME NEW s \in building, Break(s) PROVE Elsewhere
  BY <1>13, RejectedElsewhere DEF Break
<1>14. ASSUME NEW i \in Indexes, BuildByHand(i) PROVE Elsewhere
  BY <1>14 DEF BuildByHand, Elsewhere, Ends, Domains, request
<1>15. ASSUME NEW c \in Columns, ChangeColumn(c) PROVE Elsewhere
  BY <1>15 DEF ChangeColumn, Elsewhere, Ends, Domains, request
<1> QED
  BY <1>1, <1>2, <1>3, <1>4, <1>5, <1>6, <1>7, <1>8, <1>9, <1>10, <1>11, <1>12, <1>13,
     <1>14, <1>15 DEF Next

LEMMA StepIInv == IInv /\ [Next]_vars => IInv'
<1> SUFFICES ASSUME IInv, [Next]_vars PROVE IInv'
  OBVIOUS
<1>1. CASE Elsewhere
  <2>1. \A t \in Tasks : Watched(t)'
    BY <1>1, WatchStep DEF IInv, Elsewhere
  <2>2. ASSUME NEW t \in Tasks, pc'[t] = "listed" PROVE SeenAll(t)' /\ SeenOnce(t)'
    BY <1>1, <2>2, ListedStays DEF IInv, Elsewhere
  <2> QED BY <1>1, <2>1, <2>2 DEF IInv, Elsewhere
<1>2. ASSUME NEW t \in Tasks, getActiveIndexesFor(t) PROVE IInv'
  <2>1. Domains' /\ Watch /\ db' = db
    BY <1>2 DEF getActiveIndexesFor, IInv, Domains, database
  <2>2. \A u \in Tasks : Watched(u)'
    BY <2>1, WatchStep DEF IInv
  <2>3. ASSUME NEW u \in Tasks, pc'[u] = "listed" PROVE SeenAll(u)' /\ SeenOnce(u)'
    <3>1. CASE u = t
      BY <1>2, <3>1, FirstAnswer DEF IInv
    <3>2. CASE u # t
      <4>1. pc[u] = "listed" /\ seen'[u] = seen[u]
        BY <1>2, <2>3, <3>2 DEF getActiveIndexesFor, IInv, Domains
      <4> QED BY <2>1, <2>3, <4>1, ListedStays DEF IInv
    <3> QED BY <3>1, <3>2
  <2> QED BY <2>1, <2>2, <2>3 DEF IInv
<1>3. CASE UNCHANGED vars
  <2>1. UNCHANGED <<db, active, building, pc, call, seen, answer, steady, ever>>
    BY <1>3 DEF vars, database, request, history
  <2>2. \A t \in Tasks : Watched(t)'
    BY <2>1 DEF IInv, Watched, Listing, Now, Present, Shown
  <2>3. \A i : ActiveShown(i)' = ActiveShown(i)
    BY <2>1 DEF ActiveShown, Shown
  <2>4. ASSUME NEW t \in Tasks, pc'[t] = "listed" PROVE SeenAll(t)' /\ SeenOnce(t)'
    BY <2>1, <2>3, <2>4 DEF IInv, SeenAll, SeenOnce, Shown
  <2> QED BY <2>1, <2>2, <2>4 DEF IInv, Domains
<1> QED BY <1>1, <1>2, <1>3, StepCases DEF IInv

-----------------------------------------------------------------------------
(* What was there all the time is listed, as ACTIVE or under its name.     *)
LEMMA ListsAll ==
    ASSUME IInv, NEW t \in Tasks, getInProgressIndexesFor(t), NEW e \in steady[t]
    PROVE  /\ e.status = "ACTIVE" /\ Right(e) => e \in answer'[t].indexes
           /\ \/ e.status = "ACTIVE"
              \/ \E s \in building : Shown(s.index, "BUILDING") = e /\ ~ Recognized(s)
              \/ \E f \in answer'[t].indexes : f.name = e.name
<1> DEFINE inProgress == {Shown(s.index, "BUILDING") :
                s \in {r \in building : r.index.coll = call[t].coll /\ Recognized(r)}}
<1>1. answer'[t].indexes = Merged(seen[t], inProgress) /\ pc[t] = "listed"
  <2>1. Answer(t, [of |-> "list", indexes |-> Merged(seen[t], inProgress)]) /\ pc[t] = "listed"
    BY DEF getInProgressIndexesFor
  <2>2. answer'[t] = [of |-> "list", indexes |-> Merged(seen[t], inProgress)]
    BY <2>1, Answered DEF IInv
  <2> QED BY <2>1, <2>2
<1>2. e \in Now(t) /\ SeenAll(t)
  BY <1>1 DEF IInv, Watched, Listing
<1>3. e.status = "ACTIVE" /\ Right(e) => e \in seen[t]
  BY <1>2, ShownRight DEF SeenAll
<1>4. e.status = "ACTIVE" \/ \E s \in building : s.index.coll = call[t].coll
                                                  /\ Shown(s.index, "BUILDING") = e
  BY <1>2 DEF Now, Present, Shown
<1>5. e \in inProgress => \E f \in answer'[t].indexes : f.name = e.name
  BY <1>1 DEF Merged
<1> QED BY <1>1, <1>3, <1>4, <1>5 DEF Merged

(* What is listed was there.                                               *)
LEMMA ListsOnly ==
    ASSUME IInv, NEW t \in Tasks, getInProgressIndexesFor(t), NEW e \in answer'[t].indexes,
           \A f \in ever[t] : Right(f)
    PROVE  e \in ever[t]
<1> DEFINE inProgress == {Shown(s.index, "BUILDING") :
                s \in {r \in building : r.index.coll = call[t].coll /\ Recognized(r)}}
<1>1. answer'[t].indexes = Merged(seen[t], inProgress) /\ pc[t] = "listed"
  <2>1. Answer(t, [of |-> "list", indexes |-> Merged(seen[t], inProgress)]) /\ pc[t] = "listed"
    BY DEF getInProgressIndexesFor
  <2>2. answer'[t] = [of |-> "list", indexes |-> Merged(seen[t], inProgress)]
    BY <2>1, Answered DEF IInv
  <2> QED BY <2>1, <2>2
<1>2. Now(t) \subseteq ever[t] /\ SeenOnce(t)
  BY <1>1 DEF IInv, Watched, Listing
<1>3. e \in seen[t] => e \in ever[t]
  BY <1>2, ShownRight DEF SeenOnce
<1>4. e \in inProgress => e \in Now(t)
  BY DEF Now, Present
<1> QED BY <1>1, <1>2, <1>3, <1>4 DEF Merged

(* Whatever a request for the indexes of a collection lists was there while*)
(* it was at work, and what was there all the time is listed, in Postgres  *)
(* and MySQL, however many requests, builds and failures there are.        *)
THEOREM ListingIsExact == Spec => ListExact
<1>1. ASSUME IInv, Next PROVE ListingsExact
  <2> SUFFICES ASSUME NEW t \in Tasks, pc[t] = "listed", pc'[t] = "idle",
                      answer'[t].of = "list"
               PROVE  ListsWhatIs(t)
    BY DEF ListingsExact
  <2>1. getInProgressIndexesFor(t)
    <3>1. CASE Elsewhere
      BY <3>1 DEF Elsewhere, Ends
    <3>2. ASSUME NEW u \in Tasks, getActiveIndexesFor(u) PROVE FALSE
      BY <3>2, <1>1 DEF getActiveIndexesFor, IInv, Domains
    <3> QED BY <1>1, <3>1, <3>2, StepCases DEF IInv
  <2> QED BY <1>1, <2>1, ListsAll, ListsOnly DEF ListsWhatIs
<1>2. IInv /\ [Next]_vars => [ListingsExact]_vars
  BY <1>1
<1> QED BY <1>2, InitIInv, StepIInv, PTL DEF Spec, ListExact
=============================================================================
