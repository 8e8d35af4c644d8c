--------------------------- MODULE BoundedStaleView ---------------------------
(***************************************************************************)
(* What a cache of table definitions promises, whatever its protocol: a    *)
(* view holds, for each table, nothing or a definition that the table has  *)
(* or had; a definition enters the view at most Fresh ticks after it was   *)
(* superseded, and has left it before it is superseded for Bound ticks.     *)
(***************************************************************************)
EXTENDS Naturals

CONSTANTS Collections, Fresh, Bound

VARIABLES ver, view

Nothing == [ver |-> 0, lag |-> 0]

Init ==
    /\ ver = [c \in Collections |-> 0]
    /\ view = [c \in Collections |-> Nothing]

(* Somebody changes table c. *)
Change(c) ==
    /\ ver' = [ver EXCEPT ![c] = @ + 1]
    /\ view' = view

(* Some definitions are learnt, some are forgotten. *)
Learnt(c, s) ==
    /\ s.ver \in 1 .. ver[c]
    /\ s.lag \in 0 .. Fresh
    /\ s.ver = ver[c] => s.lag = 0

Learn ==
    /\ ver' = ver
    /\ DOMAIN view' = Collections
    /\ \A c \in Collections :
          \/ view'[c] \in {view[c], Nothing}
          \/ Learnt(c, view'[c])

(* Time passes: what is superseded lags one tick more, or is forgotten. *)
Older(c) ==
    [ver |-> view[c].ver,
     lag |-> IF view[c].ver = ver[c] THEN view[c].lag ELSE view[c].lag + 1]

Age ==
    /\ ver' = ver
    /\ DOMAIN view' = Collections
    /\ \A c \in Collections :
          \/ view'[c] = Nothing
          \/ view'[c] = Older(c) /\ Older(c).lag < Bound

Next == (\E c \in Collections : Change(c)) \/ Learn \/ Age

Spec == Init /\ [][Next]_<<ver, view>>

==============================================================================
