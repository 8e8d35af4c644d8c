---------------------------- MODULE MCIndexBuild ----------------------------
(***************************************************************************)
(* Instances of IndexBuild for TLC: an index of a text, one of two columns,*)
(* and one of another collection that has the name of the first.           *)
(***************************************************************************)
EXTENDS IndexBuild

Ix(coll, name, columns, unique) ==
    [coll |-> coll, name |-> name, columns |-> columns, unique |-> unique]

A == <<"a">>
B == <<"b">>

MCIndexes == {Ix("c", "i", <<A>>, FALSE), Ix("c", "j", <<A, B>>, TRUE),
              Ix("d", "i", <<B>>, FALSE)}
MCTypes   == [c \in {A, B} |-> IF c = A THEN "text" ELSE "number"]

(* A third request only beside a listing, and with no event besides.       *)
FewEvents ==
    calls = 3 => faults + changes = 0 /\ \E t \in Tasks : call[t].kind = "list"
==============================================================================
