---------------------------- MODULE PolicyResolver ----------------------------
(***************************************************************************)
(* The Resolver of admin/policy-engine/src/precedence.rs: a map from keys  *)
(* to the vector of layer values that `set` keeps sorted, and `resolve`,   *)
(* which trusts that order and takes the last one.                         *)
(***************************************************************************)
EXTENDS Naturals, Sequences, SequencesExt, Arrangement

CONSTANTS Key, ValueOf, Unset      \* ValueOf[k]: the values callers write for k

(* The mark of an empty cell is no cell. *)
ASSUME UnsetAssumption == \A k \in Key : Unset \notin [value : ValueOf[k], locked : BOOLEAN]

Layer == 0..3                      \* ordered by increasing precedence

LayerValue(k) == [layer : Layer, value : ValueOf[k], locked : BOOLEAN]

VARIABLES values,                  \* values[k]: the vector of key k
          lastWritten              \* history: what each layer wrote last for k

store == <<values, lastWritten>>

TypeOK == \A k \in Key : /\ values[k] \in Seq(LayerValue(k))
                         /\ Len(values[k]) <= 4

Init == /\ values = [k \in Key |-> <<>>]
        /\ lastWritten = [k \in Key |-> [l \in Layer |-> Unset]]

(* Vec::sort_by_key(|lv| lv.layer) *)
SortByLayer(s) == Sort(s, LAMBDA a, b : a.layer < b.layer)

(* The positions that retain keeps. *)
OtherLayers(s, lv) == {i \in DOMAIN s : s[i].layer # lv.layer}

(* Faulty variant of SetIn: a layer that has a value is not written again. *)
SetInOnce(s, lv) ==
  IF OtherLayers(s, lv) = DOMAIN s THEN SortByLayer(Append(s, lv)) ELSE s

(* Faulty variant of SetIn: the old value of the layer is kept. *)
SetInKeeping(s, lv) == SortByLayer(Append(s, lv))

(* Faulty variant of SetIn: retain compares with < and drops higher layers. *)
SetInTruncating(s, lv) ==
  SortByLayer(Append(Keep(s, {i \in DOMAIN s : s[i].layer < lv.layer}), lv))

(* retain the other layers, push, sort. *)
SetIn(s, lv) == SortByLayer(Append(Keep(s, OtherLayers(s, lv)), lv))

Set(k, lv) ==
  /\ values' = [values EXCEPT ![k] = SetIn(@, lv)]
  /\ lastWritten' = [lastWritten EXCEPT ![k][lv.layer] = [value |-> lv.value, locked |-> lv.locked]]

Next == \E k \in Key : \E lv \in LayerValue(k) : Set(k, lv)

Spec == Init /\ [][Next]_store

-------------------------------------------------------------------------------
(* resolve: None, or the last entry of the vector. *)
IsSet(k) == values[k] # <<>>
Resolved(k) == Last(values[k])

(* The vector read as a table with one cell per layer. *)
Cells(s) == [l \in Layer |->
  IF \E i \in DOMAIN s : s[i].layer = l
  THEN LET e == s[CHOOSE i \in DOMAIN s : s[i].layer = l]
       IN  [value |-> e.value, locked |-> e.locked]
  ELSE Unset]

Table == INSTANCE LayeredPolicy WITH table <- [k \in Key |-> Cells(values[k])]

(* Writes in any order behave like a table of one cell per key and layer: a
   write of one layer neither duplicates nor loses the value of another. *)
ImplementsTable == Table!Spec

(* The writes themselves, whatever the vectors made of them. *)
Writes == INSTANCE LayeredPolicy WITH table <- lastWritten

(* resolve answers as soon as a layer was set, and picks the highest layer that
   was, with the value and the lock that this layer was given last, whatever the
   order in which layers were set and set again ("Enterprise > Local Admin >
   User > Default", header of precedence.rs).  The writes are remembered apart
   from the vectors: one that set loses, doubles or ignores would show. *)
ResolveIsPrecedence ==
  \A k \in Key :
    /\ IsSet(k) <=> Writes!Filled(k) # {}
    /\ IsSet(k) =>
         LET w == Writes!Winner(k) IN
           Resolved(k) = [layer |-> w, value |-> lastWritten[k][w].value,
                          locked |-> lastWritten[k][w].locked]
===============================================================================
