--------------------------- MODULE TableService ---------------------------
(***************************************************************************)
(* What the toydb servers promise about tables, without dbms, tablets and  *)
(* messages: a table is created once, with one definition that never       *)
(* changes, may then be listed, and keeps every row put into it.           *)
(***************************************************************************)
EXTENDS Sequences

CONSTANTS Tables,   \* names, with the database
          Defs,     \* definitions
          Rows

VARIABLES defOf,    \* the definition of every table that exists
          rowsOf,   \* its rows, in the order of arrival
          listed    \* the tables a client is told of

Init == defOf = << >> /\ rowsOf = << >> /\ listed = {}

Create(t, d) ==
    /\ t \notin DOMAIN defOf
    /\ defOf' = [u \in DOMAIN defOf \cup {t} |-> IF u = t THEN d ELSE defOf[u]]
    /\ rowsOf' = [u \in DOMAIN rowsOf \cup {t} |-> IF u = t THEN << >> ELSE rowsOf[u]]
    /\ UNCHANGED listed

List(t) ==
    /\ t \in DOMAIN defOf \ listed
    /\ listed' = listed \cup {t}
    /\ UNCHANGED <<defOf, rowsOf>>

Put(t, r) ==
    /\ t \in DOMAIN defOf
    /\ rowsOf' = [rowsOf EXCEPT ![t] = Append(@, r)]
    /\ UNCHANGED <<defOf, listed>>

Next == \E t \in Tables : \/ \E d \in Defs : Create(t, d)
                          \/ List(t)
                          \/ \E r \in Rows : Put(t, r)

Spec == Init /\ [][Next]_<<defOf, rowsOf, listed>>
============================================================================
