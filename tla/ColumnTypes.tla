----------------------------- MODULE ColumnTypes -----------------------------
(***************************************************************************)
(* The life of one column: it is created for a Wix type in some database,  *)
(* listed with the type read back, and created again from what was listed, *)
(* in that database or another one.                                        *)
(***************************************************************************)
EXTENDS SchemaTypes

VARIABLES
    asked,    \* the Wix type the column was first created for
    dialect,  \* the database it is in
    column,   \* its type in the adaptor, as read back from the catalogue
    listed    \* the Wix type it was last listed with, "" before

columnVars == <<asked, dialect, column, listed>>

ColumnInit ==
    /\ dialect \in Dialects
    /\ asked \in Creatable(dialect)
    /\ column = ReadBack(dialect, asked)
    /\ listed = ""

(* SchemaService.list *)
ListColumn ==
    /\ listed' = fieldTypeToWixDataEnum(column)
    /\ UNCHANGED <<asked, dialect, column>>

(* SchemaService.create in a database that takes the listed type. *)
CopyTo(d) ==
    /\ listed # ""
    /\ listed \in Creatable(d)
    /\ dialect' = d
    /\ column' = ReadBack(d, listed)
    /\ UNCHANGED <<asked, listed>>

ColumnNext == ListColumn \/ \E d \in Dialects : CopyTo(d)

ColumnSpec == ColumnInit /\ [][ColumnNext]_columnVars

(* However often a column is listed and created again from its listing, in *)
(* whatever databases, the adaptor goes on treating it as what was asked   *)
(* for: its listing is stored as the same field type.                      *)
FamilyPreserved ==
    listed # "" => wixDataEnumToFieldType(listed) = wixDataEnumToFieldType(asked)

(* Dialects without dates or times of day forget the kind of a datetime;   *)
(* none ever makes a kind up.                                              *)
KindNeverInvented ==
    [][listed = "DATETIME" => listed' = "DATETIME"]_columnVars
==============================================================================
