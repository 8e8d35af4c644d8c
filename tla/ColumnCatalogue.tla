-------------------------- MODULE ColumnCatalogue --------------------------
(***************************************************************************)
(* What a schema provider promises about the columns of its collections    *)
(* (ISchemaProvider): each operation takes effect at once or not at all, a *)
(* column is added only where there is none of its name, and only a column *)
(* that is there is removed or changes its type.                           *)
(***************************************************************************)
CONSTANTS Collections, Columns   \* Columns: the records [name, type]

VARIABLE catalogue   \* catalogue[c]: [exists, columns]

Absent == [exists |-> FALSE, columns |-> {}]

Init == catalogue = [c \in Collections |-> Absent]

Names(c) == {col.name : col \in catalogue[c].columns}

Become(c, columns) ==
    catalogue' = [catalogue EXCEPT ![c] = [exists |-> TRUE, columns |-> columns]]

Create(c) ==
    /\ ~ catalogue[c].exists
    /\ \E columns \in SUBSET Columns : Become(c, columns)

Drop(c) ==
    /\ catalogue[c].exists
    /\ catalogue' = [catalogue EXCEPT ![c] = Absent]

Add(c, col) ==
    /\ catalogue[c].exists
    /\ col.name \notin Names(c)
    /\ Become(c, catalogue[c].columns \cup {col})

Others(c, n) == {col \in catalogue[c].columns : col.name # n}

Remove(c, n) ==
    /\ n \in Names(c)
    /\ Become(c, Others(c, n))

ChangeType(c, col) ==
    /\ col.name \in Names(c)
    /\ Become(c, Others(c, col.name) \cup {col})

Next ==
    \E c \in Collections :
        \/ Create(c) \/ Drop(c)
        \/ \E col \in Columns : Add(c, col) \/ Remove(c, col.name) \/ ChangeType(c, col)

Spec == Init /\ [][Next]_catalogue
==============================================================================
