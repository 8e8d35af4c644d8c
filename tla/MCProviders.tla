----------------------------- MODULE MCProviders -----------------------------
(***************************************************************************)
(* Instances of RowStore and of ColumnTypes for TLC: what providers make   *)
(* of rows, in several calls, and of the types of columns.  A behaviour is *)
(* of one of them.                                                         *)
(*                                                                         *)
(* There are three rows, of which a page, a batch and a call of Google     *)
(* Sheets take two; and all columns there are.                             *)
(***************************************************************************)
EXTENDS RowStore, ColumnTypes

NoColumn == asked = "" /\ dialect = "" /\ column = "" /\ listed = ""

MCInit == Init /\ (NoColumn \/ ColumnInit)

MCNext ==
    \/ dialect = "" /\ Next /\ UNCHANGED columnVars
    \/ dialect # "" /\ ColumnNext /\ UNCHANGED vars

MCSpec == MCInit /\ [][MCNext]_<<vars, columnVars>>

-----------------------------------------------------------------------------
AllServices  == {"sheets", "firestore", "spanner", "dynamodb"}
AnyDeletions == {<<"x">>, <<"x", "y">>, <<"z", "y", "x">>}
==============================================================================
