---------------------------- MODULE LayeredPolicy ----------------------------
(***************************************************************************)
(* What layered configuration promises: each key has one cell per layer, a *)
(* write fills exactly one cell, and the effective value of a key is the   *)
(* one in its highest filled cell ("Enterprise > Local Admin > User >      *)
(* Default", header of admin/policy-engine/src/precedence.rs).             *)
(***************************************************************************)
EXTENDS Naturals

CONSTANTS Key, ValueOf, Unset      \* ValueOf[k]: the values key k can take

Layer == 0..3                      \* Default, User, LocalAdmin, Enterprise

Cell(k) == [value : ValueOf[k], locked : BOOLEAN]

VARIABLE table                     \* table[k][l]: what layer l last wrote for k

Init == table = [k \in Key |-> [l \in Layer |-> Unset]]

Write(k, l, c) == table' = [table EXCEPT ![k][l] = c]

Next == \E k \in Key, l \in Layer : \E c \in Cell(k) : Write(k, l, c)

Spec == Init /\ [][Next]_table

Filled(k) == {l \in Layer : table[k][l] # Unset}

Winner(k) == CHOOSE l \in Filled(k) : \A m \in Filled(k) : m <= l
=============================================================================
