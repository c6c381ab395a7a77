--------------------------- MODULE PolicyEngineProofs ---------------------------
(* Proofs about the policy engine and the extension bridge, for any keys,
   values, command lines, bundles, extensions, and logs of any length. *)
EXTENDS PolicyEngine, SharedLemmas, TLAPS

-------------------------------------------------------------------------------
(* The resolver: the vector of a key has one entry for each layer that was set,
   in the order of the layers, and the entries are what the layers wrote last. *)
Ordered(s) == \A i, j \in DOMAIN s : i < j => s[i].layer < s[j].layer

ResolverInv ==
  /\ values = [k \in Key |-> values[k]]
  /\ \A k \in Key : values[k] \in Seq(LayerValue(k)) /\ Ordered(values[k])
  /\ lastWritten = [k \in Key |-> Cells(values[k])]

LEMMA LayerIsNumber ==
  ASSUME NEW k \in Key, NEW e \in LayerValue(k)
  PROVE  e.layer \in Layer /\ e.layer \in Nat
  BY DEF LayerValue, Layer

(* What a stable sort by layer does to a vector whose layers are distinct. *)
LEMMA SortByLayerIs ==
  ASSUME NEW k \in Key, NEW s \in Seq(LayerValue(k)),
         \A i, j \in DOMAIN s : s[i].layer = s[j].layer => i = j
  PROVE  /\ SortByLayer(s) \in Seq(LayerValue(k)) /\ Len(SortByLayer(s)) = Len(s)
         /\ Ordered(SortByLayer(s))
         /\ ToSet(SortByLayer(s)) = ToSet(s)
<1> DEFINE t == SortByLayer(s)
           before == {p \in (DOMAIN s) \X (DOMAIN s) :
                        \/ s[p[1]].layer < s[p[2]].layer
                        \/ ~(s[p[2]].layer < s[p[1]].layer) /\ p[1] < p[2]}
<1>1. /\ Len(s) \in Nat /\ DOMAIN s = 1 .. Len(s)
      /\ \A i \in DOMAIN s : s[i] \in LayerValue(k) /\ s[i].layer \in Nat
  BY LenProperties, ElementOfSeq, LayerIsNumber
<1>2. \A i, j \in DOMAIN s : <<i, j>> \in before <=> s[i].layer < s[j].layer
  BY <1>1
<1>3. t = Picked(s, DOMAIN s, before)
  BY DEF SortByLayer, Sort, StableOrder
<1> HIDE DEF before, t
<1>4. Orders(before, DOMAIN s)
  BY <1>1, <1>2 DEF Orders
<1>5. /\ Cardinality(DOMAIN s) = Len(s)
      /\ t \in Seq(LayerValue(k)) /\ Len(t) = Len(s)
  BY <1>3, <1>4, PickedIs
<1>6. PICK pos \in [1 .. Len(s) -> DOMAIN s] :
        /\ Lists(pos, DOMAIN s, before)
        /\ \A n \in 1 .. Len(s) : t[n] = s[pos[n]]
  BY <1>3, <1>4, <1>5, PickedIs
<1>7. DOMAIN t = 1 .. Len(s)
  BY <1>5, LenProperties
<1>8. Ordered(t)
  <2> SUFFICES ASSUME NEW i \in 1 .. Len(s), NEW j \in 1 .. Len(s), i < j
               PROVE  t[i].layer < t[j].layer
    BY <1>7 DEF Ordered
  <2>1. <<pos[i], pos[j]>> \in before
    BY <1>5, <1>6 DEF Lists
  <2> QED
    BY <1>2, <1>6, <2>1
<1>9. ToSet(t) = ToSet(s)
  <2>1. \A i \in DOMAIN s : \E n \in 1 .. Len(s) : pos[n] = i
    BY <1>5, <1>6 DEF Lists
  <2> QED
    BY <1>6, <1>7, <2>1 DEF ToSet
<1> QED
  BY <1>5, <1>8, <1>9 DEF t

(* A write replaces the entry of its layer and leaves the others. *)
LEMMA SetInIs ==
  ASSUME NEW k \in Key, NEW s \in Seq(LayerValue(k)), Ordered(s), NEW lv \in LayerValue(k)
  PROVE  /\ SetIn(s, lv) \in Seq(LayerValue(k)) /\ Ordered(SetIn(s, lv))
         /\ ToSet(SetIn(s, lv)) = {e \in ToSet(s) : e.layer # lv.layer} \cup {lv}
<1> DEFINE I == OtherLayers(s, lv)
           kept == Keep(s, I)
           c == Cardinality(I)
           pushed == Append(kept, lv)
<1>1. /\ Len(s) \in Nat /\ DOMAIN s = 1 .. Len(s)
      /\ \A i \in DOMAIN s : s[i] \in LayerValue(k) /\ s[i].layer \in Nat
  BY LenProperties, ElementOfSeq, LayerIsNumber
<1>2. I \in SUBSET DOMAIN s /\ \A i \in DOMAIN s : i \in I <=> s[i].layer # lv.layer
  BY DEF OtherLayers
<1> HIDE DEF I
<1>3. kept \in Seq(LayerValue(k)) /\ c \in Nat /\ DOMAIN kept = 1 .. c /\ Len(kept) = c
  BY <1>2, KeepEntries
<1>4. /\ \A n \in 1 .. c : \E i \in I : kept[n] = s[i]
      /\ \A i \in I : \E n \in 1 .. c : kept[n] = s[i]
  BY <1>2, KeepEntries
<1>9. \A m, n \in 1 .. c : m < n => \E i, j \in I : i < j /\ kept[m] = s[i] /\ kept[n] = s[j]
  BY <1>2, KeepEntries
<1> HIDE DEF kept
<1>5. /\ pushed \in Seq(LayerValue(k)) /\ DOMAIN pushed = 1 .. c + 1
      /\ pushed[c + 1] = lv /\ \A n \in 1 .. c : pushed[n] = kept[n]
  BY <1>3, AppendProperties
<1>c. c \in Nat
  BY <1>3
<1> HIDE DEF c, pushed
<1>6. ASSUME NEW m \in 1 .. c + 1, NEW n \in 1 .. c + 1, pushed[m].layer = pushed[n].layer
      PROVE  m = n
  <2>1. ASSUME NEW i \in 1 .. c, NEW j \in 1 .. c, i < j PROVE kept[i].layer < kept[j].layer
    BY <1>2, <1>9, <2>1 DEF Ordered
  <2>2. \A i \in 1 .. c : kept[i].layer \in Nat /\ kept[i].layer # lv.layer
    BY <1>1, <1>2, <1>4
  <2> QED
    <3>1. CASE m \in 1 .. c /\ n \in 1 .. c
      <4>1. kept[m].layer = kept[n].layer /\ kept[m].layer \in Nat
        BY <1>5, <1>6, <2>2, <3>1
      <4>2. ~(m < n) /\ ~(n < m)
        BY <2>1, <3>1, <4>1
      <4> QED
        BY <1>c, <4>2, <3>1
    <3>2. CASE m = c + 1 \/ n = c + 1
      BY <1>c, <1>5, <1>6, <2>2, <3>2
    <3> QED
      BY <1>c, <3>1, <3>2
<1>7. /\ SetIn(s, lv) \in Seq(LayerValue(k)) /\ Ordered(SetIn(s, lv))
      /\ ToSet(SetIn(s, lv)) = ToSet(pushed)
  BY <1>5, <1>6, SortByLayerIs DEF SetIn, pushed, kept, I
<1>8. ToSet(pushed) = {e \in ToSet(s) : e.layer # lv.layer} \cup {lv}
  <2>1. ToSet(pushed) = {kept[n] : n \in 1 .. c} \cup {lv}
    <3>1. ToSet(pushed) = {pushed[n] : n \in 1 .. c + 1}
      BY <1>5 DEF ToSet
    <3>2. 1 .. c + 1 = (1 .. c) \cup {c + 1}
      BY <1>c
    <3> QED
      BY <1>5, <3>1, <3>2
  <2>2. {kept[n] : n \in 1 .. c} = {s[i] : i \in I}
    BY <1>4
  <2>3. {s[i] : i \in I} = {e \in ToSet(s) : e.layer # lv.layer}
    BY <1>2 DEF ToSet
  <2> QED
    BY <2>1, <2>2, <2>3
<1> QED
  BY <1>7, <1>8

-------------------------------------------------------------------------------
(* The refinement, from one vector to the next. *)
LEMMA CellsAre ==
  ASSUME NEW k \in Key, NEW s \in Seq(LayerValue(k)), Ordered(s)
  PROVE  /\ \A e \in ToSet(s) : Cells(s)[e.layer] = [value |-> e.value, locked |-> e.locked]
         /\ \A l \in Layer : (\A e \in ToSet(s) : e.layer # l) => Cells(s)[l] = Unset
<1>1. /\ Len(s) \in Nat /\ DOMAIN s = 1 .. Len(s)
      /\ \A i \in DOMAIN s : s[i] \in LayerValue(k) /\ s[i].layer \in Layer /\ s[i].layer \in Nat
  BY LenProperties, ElementOfSeq, LayerIsNumber
<1>2. \A i, j \in DOMAIN s : s[i].layer = s[j].layer => i = j
  BY <1>1 DEF Ordered
<1>3. ASSUME NEW i \in DOMAIN s
      PROVE  Cells(s)[s[i].layer] = [value |-> s[i].value, locked |-> s[i].locked]
  <2> DEFINE c == CHOOSE j \in DOMAIN s : s[j].layer = s[i].layer
  <2>1. c \in DOMAIN s /\ s[c].layer = s[i].layer
    OBVIOUS
  <2>2. c = i
    BY <1>2, <2>1
  <2> HIDE DEF c
  <2>3. Cells(s)[s[i].layer] = [value |-> s[c].value, locked |-> s[c].locked]
    BY <1>1 DEF Cells, c
  <2> QED
    BY <2>2, <2>3
<1>4. ASSUME NEW l \in Layer, \A e \in ToSet(s) : e.layer # l
      PROVE  Cells(s)[l] = Unset
  BY <1>4 DEF Cells, ToSet
<1> QED
  BY <1>3, <1>4 DEF ToSet

LEMMA SetInCells ==
  ASSUME NEW k \in Key, NEW s \in Seq(LayerValue(k)), Ordered(s), NEW lv \in LayerValue(k)
  PROVE  Cells(SetIn(s, lv)) =
           [Cells(s) EXCEPT ![lv.layer] = [value |-> lv.value, locked |-> lv.locked]]
<1> DEFINE t == SetIn(s, lv)
<1>1. /\ t \in Seq(LayerValue(k)) /\ Ordered(t)
      /\ ToSet(t) = {e \in ToSet(s) : e.layer # lv.layer} \cup {lv}
  BY SetInIs
<1> HIDE DEF t
<1>2. Cells(t)[lv.layer] = [value |-> lv.value, locked |-> lv.locked]
  BY <1>1, CellsAre
<1>3. ASSUME NEW l \in Layer, l # lv.layer PROVE Cells(t)[l] = Cells(s)[l]
  <2>1. CASE \E e \in ToSet(s) : e.layer = l
    <3>1. PICK e \in ToSet(s) : e.layer = l
      BY <2>1
    <3>2. e \in ToSet(t)
      BY <1>1, <1>3, <3>1
    <3>3. Cells(s)[e.layer] = [value |-> e.value, locked |-> e.locked]
      BY CellsAre
    <3>4. Cells(t)[e.layer] = [value |-> e.value, locked |-> e.locked]
      BY <1>1, <3>2, CellsAre
    <3> QED
      BY <3>1, <3>3, <3>4
  <2>2. CASE \A e \in ToSet(s) : e.layer # l
    BY <1>1, <1>3, <2>2, CellsAre
  <2> QED
    BY <2>1, <2>2
<1>4. Cells(t) = [l \in Layer |-> Cells(t)[l]] /\ Cells(s) = [l \in Layer |-> Cells(s)[l]]
  BY DEF Cells
<1>5. lv.layer \in Layer
  BY LayerIsNumber
<1> QED
  BY <1>2, <1>3, <1>4, <1>5 DEF t

(* A write keeps the invariant and writes one cell. *)
LEMMA SetStep ==
  ASSUME ResolverInv, NEW k \in Key, NEW lv \in LayerValue(k), Set(k, lv)
  PROVE  ResolverInv' /\ Table!Next
<1>1. values = [h \in Key |-> values[h]] /\ values' = [values EXCEPT ![k] = SetIn(values[k], lv)]
  BY DEF ResolverInv, Set
<1>2. values[k] \in Seq(LayerValue(k)) /\ Ordered(values[k])
  BY DEF ResolverInv
<1>3. values'[k] = SetIn(values[k], lv) /\ \A h \in Key \ {k} : values'[h] = values[h]
  BY <1>1
<1> DEFINE c == [value |-> lv.value, locked |-> lv.locked]
<1>4. Cells(values'[k]) = [Cells(values[k]) EXCEPT ![lv.layer] = c]
  BY <1>2, <1>3, SetInCells
<1>5. /\ lastWritten' = [lastWritten EXCEPT ![k] = [@ EXCEPT ![lv.layer] = c]]
      /\ lastWritten = [h \in Key |-> Cells(values[h])]
  BY DEF Set, ResolverInv
<1>6. c \in Table!Cell(k) /\ lv.layer \in Table!Layer
  BY DEF Table!Cell, Table!Layer, LayerValue, Layer
<1> HIDE DEF c
<1>7. [h \in Key |-> Cells(values'[h])] =
        [[h \in Key |-> Cells(values[h])] EXCEPT ![k] = [@ EXCEPT ![lv.layer] = c]]
  BY <1>3, <1>4
<1>8. ResolverInv'
  <2>1. values' = [h \in Key |-> values'[h]]
    BY <1>1
  <2>2. values'[k] \in Seq(LayerValue(k)) /\ Ordered(values'[k])
    BY <1>2, <1>3, SetInIs
  <2>3. lastWritten' = [h \in Key |-> Cells(values'[h])]
    BY <1>5, <1>7
  <2> QED
    BY <1>2, <1>3, <2>1, <2>2, <2>3 DEF ResolverInv
<1>9. Table!Next
  <2>1. Table!Write(k, lv.layer, c)
    BY <1>7 DEF Table!Write
  <2> QED
    BY <1>6, <2>1 DEF Table!Next
<1> QED
  BY <1>8, <1>9

LEMMA ResolverInit == Init => ResolverInv /\ Table!Init
<1> SUFFICES ASSUME Init PROVE ResolverInv /\ Table!Init
  OBVIOUS
<1>1. /\ values = [k \in Key |-> <<>>]
      /\ lastWritten = [k \in Key |-> [l \in Layer |-> Unset]]
  BY DEF Init
<1>3. Cells(<<>>) = [l \in Layer |-> Unset]
  BY DEF Cells
<1>2. ResolverInv
  BY <1>1, <1>3 DEF ResolverInv, Ordered
<1>4. Table!Init
  BY <1>1, <1>3 DEF Table!Init, Table!Layer, Layer
<1> QED
  BY <1>2, <1>4

(* resolve takes the last entry, which is the one of the highest filled cell. *)
LEMMA LastIsWinner ==
  ASSUME ResolverInv, NEW k \in Key, IsSet(k)
  PROVE  /\ Table!Filled(k) # {}
         /\ LET w == Table!Winner(k) IN
              Resolved(k) = [layer |-> w, value |-> Cells(values[k])[w].value,
                             locked |-> Cells(values[k])[w].locked]
<1> DEFINE s == values[k]
           n == Len(s)
           e == s[n]
<1>1. s \in Seq(LayerValue(k)) /\ Ordered(s) /\ s # <<>>
  BY DEF ResolverInv, IsSet
<1> HIDE DEF s
<1>2. /\ n \in Nat /\ DOMAIN s = 1 .. n /\ n >= 1
      /\ \A i \in DOMAIN s : s[i] \in LayerValue(k) /\ s[i].layer \in Layer /\ s[i].layer \in Nat
  BY <1>1, LenProperties, ElementOfSeq, EmptySeq, LayerIsNumber
<1>3. Resolved(k) = e
  BY DEF Resolved, Last, s
<1>4. e \in ToSet(s) /\ e \in LayerValue(k)
  BY <1>2 DEF ToSet
<1>5. \A d \in ToSet(s) : d.layer <= e.layer
  BY <1>1, <1>2 DEF ToSet, Ordered
<1>6. \A d \in ToSet(s) : d \in LayerValue(k)
  BY <1>2 DEF ToSet
<1>7. \A l \in Layer : Table!Filled(k) = {m \in Layer : Cells(s)[m] # Unset}
  BY DEF Table!Filled, Table!Layer, Layer, s
<1>8. Table!Filled(k) = {d.layer : d \in ToSet(s)}
  <2>1. ASSUME NEW d \in ToSet(s) PROVE d.layer \in Layer /\ Cells(s)[d.layer] # Unset
    <3>1. Cells(s)[d.layer] = [value |-> d.value, locked |-> d.locked]
      BY <1>1, CellsAre
    <3>2. d \in LayerValue(k)
      BY <1>6
    <3>3. [value |-> d.value, locked |-> d.locked] \in [value : ValueOf[k], locked : BOOLEAN]
      BY <3>2 DEF LayerValue
    <3> QED
      BY <3>1, <3>2, <3>3, UnsetAssumption, LayerIsNumber
  <2>2. ASSUME NEW l \in Layer, Cells(s)[l] # Unset PROVE \E d \in ToSet(s) : d.layer = l
    BY <1>1, <2>2, CellsAre
  <2> QED
    BY <1>7, <2>1, <2>2 DEF Layer
<1>9. Table!Winner(k) = e.layer
  <2>1. e.layer \in Table!Filled(k) /\ \A m \in Table!Filled(k) : m <= e.layer
    BY <1>4, <1>5, <1>8
  <2>2. \A l \in Table!Filled(k) : l \in Nat
    BY <1>7 DEF Layer
  <2>3. \A l \in Table!Filled(k) : (\A m \in Table!Filled(k) : m <= l) => l = e.layer
    BY <2>1, <2>2
  <2> QED
    BY <2>1, <2>3 DEF Table!Winner
<1>10. Cells(s)[e.layer] = [value |-> e.value, locked |-> e.locked]
  BY <1>1, <1>4, CellsAre
<1>11. e = [layer |-> e.layer, value |-> e.value, locked |-> e.locked]
  BY <1>4 DEF LayerValue
<1> QED
  BY <1>3, <1>4, <1>8, <1>9, <1>10, <1>11 DEF s

(* The vectors hold the last writes, so the answer is that of the writes. *)
LEMMA AnswersAsWritten == ResolverInv => ResolveIsPrecedence
<1> SUFFICES ASSUME ResolverInv, NEW k \in Key
             PROVE  /\ IsSet(k) <=> Writes!Filled(k) # {}
                    /\ IsSet(k) =>
                         LET w == Writes!Winner(k) IN
                           Resolved(k) = [layer |-> w, value |-> lastWritten[k][w].value,
                                          locked |-> lastWritten[k][w].locked]
  BY DEF ResolveIsPrecedence
<1>1. lastWritten[k] = Cells(values[k])
  BY DEF ResolverInv
<1>2. Writes!Filled(k) = Table!Filled(k)
  BY <1>1 DEF Writes!Filled, Table!Filled, Writes!Layer, Table!Layer
<1>3. Writes!Winner(k) = Table!Winner(k)
  BY <1>2 DEF Writes!Winner, Table!Winner
<1>4. ASSUME ~IsSet(k) PROVE Table!Filled(k) = {}
  <2>1. Cells(values[k]) = [l \in Layer |-> Unset]
    BY <1>4 DEF IsSet, Cells
  <2> QED
    BY <2>1 DEF Table!Filled, Table!Layer, Layer
<1> QED
  BY <1>1, <1>2, <1>3, <1>4, LastIsWinner

(* A vector holds at most one entry per layer. *)
LEMMA FourLayers == ResolverInv => TypeOK
<1> SUFFICES ASSUME ResolverInv, NEW k \in Key PROVE values[k] \in Seq(LayerValue(k)) /\ Len(values[k]) <= 4
  BY DEF TypeOK
<1>1. values[k] \in Seq(LayerValue(k)) /\ Ordered(values[k])
  BY DEF ResolverInv
<1>2. /\ Len(values[k]) \in Nat /\ DOMAIN values[k] = 1 .. Len(values[k])
      /\ \A i \in DOMAIN values[k] : values[k][i].layer \in 0 .. 3
  BY <1>1, LenProperties, ElementOfSeq, LayerIsNumber DEF Layer
<1>3. ASSUME Len(values[k]) >= 5 PROVE FALSE
  <2> DEFINE h == [i \in 1 .. 5 |-> values[k][i].layer]
  <2>1. \A i \in 1 .. 5 : i \in DOMAIN values[k]
    BY <1>2, <1>3
  <2>2. \A i \in 1 .. 5 : h[i] \in 0 .. 3
    BY <1>2, <2>1
  <2>3. \A i, j \in 1 .. 5 : i < j => h[i] < h[j]
    BY <1>1, <2>1 DEF Ordered
  <2> HIDE DEF h
  <2>4. h[1] < h[2] /\ h[2] < h[3] /\ h[3] < h[4] /\ h[4] < h[5]
    BY <2>3
  <2> QED
    BY <2>2, <2>4
<1> QED
  BY <1>1, <1>2, <1>3

(* A process that links the resolver: any key, layer and value, in any order; what
   is resolved is what the highest layer was given in the last of its writes. *)
THEOREM ResolverPrecedence == Spec => []ResolveIsPrecedence
<1>1. ResolverInv /\ [Next]_store => ResolverInv'
  <2>1. CASE Next
    BY <2>1, SetStep DEF Next
  <2>2. CASE UNCHANGED store
    BY <2>2 DEF ResolverInv, store
  <2> QED
    BY <2>1, <2>2
<1> QED
  BY <1>1, ResolverInit, AnswersAsWritten, PTL DEF Spec

-------------------------------------------------------------------------------
(* The command line and the bundle: everything but the resolver's vectors. *)
CmdInv ==
  /\ ResolverInv
  /\ args \in Seq(STRING)
  /\ \A i \in 1 .. Len(args) - 1 : args[i] = "--key" => args[i + 1] \in Key
  /\ pass \in 1 .. 3 /\ at \in 1 .. Len(args) + 2
  /\ key \in Key /\ locks \subseteq Layer
  /\ report.exit \in {0, 1, 9} /\ report.source \in Layer \cup {NoLayer}

LEMMA ParseLayerIs == ASSUME NEW word PROVE ParseLayer(word) \in Layer \cup {NoLayer}
  BY DEF ParseLayer, Layer, NoLayer

LEMMA CmdInitInv == CmdInit => CmdInv /\ Table!Init
<1> SUFFICES ASSUME CmdInit PROVE CmdInv /\ Table!Init
  OBVIOUS
<1>1. ResolverInv /\ Table!Init
  BY ResolverInit DEF CmdInit
<1>2. /\ args \in Seq(STRING)
      /\ \A i \in 1 .. Len(args) - 1 : args[i] = "--key" => args[i + 1] \in Key
  <2>1. args = <<>> \/ args \in CommandLine
    BY DEF CmdInit
  <2>2. CASE args = <<>>
    <3>1. args \in Seq(STRING) /\ 1 .. Len(args) - 1 = {}
      BY <2>2
    <3> QED
      BY <3>1
  <2>3. CASE args \in CommandLine
    BY <2>3, WordsAssumption
  <2> QED
    BY <2>1, <2>2, <2>3
<1>3. Len(args) \in Nat
  BY <1>2, LenProperties
<1>4. /\ pass \in 1 .. 3 /\ at \in 1 .. Len(args) + 2
      /\ key \in Key /\ locks \subseteq Layer
      /\ report.exit \in {0, 1, 9} /\ report.source \in Layer \cup {NoLayer}
  BY <1>3, WordsAssumption DEF CmdInit, Unread
<1> QED
  BY <1>1, <1>2, <1>4 DEF CmdInv

(* What a step of the command line does to the vectors: nothing, or one write. *)
LEMMA CmdWrites ==
  ASSUME CmdInv, CmdNext
  PROVE  \/ UNCHANGED store
         \/ \E k \in Key : \E lv \in LayerValue(k) : Set(k, lv)
<1>1. CASE Library
  BY <1>1 DEF Library
<1>2. CASE ReadSet
  <2>1. CASE UNCHANGED store
    BY <2>1
  <2>2. CASE ~UNCHANGED store
    <3> DEFINE layer == ParseLayer(SplitOnce[args[at + 1]].layer)
               lv == [layer |-> layer, value |-> SplitOnce[args[at + 1]].value,
                      locked |-> LockedAt(layer)]
    <3>1. Has(at + 1) /\ args[at + 1] \in DOMAIN SplitOnce /\ layer # NoLayer /\ Set(key, lv)
      BY <1>2, <2>2 DEF ReadSet
    <3>2. layer \in Layer
      BY <3>1, ParseLayerIs
    <3>3. key \in Key /\ SplitOnce[args[at + 1]].value \in ValueOf[key]
      BY <3>1, WordsAssumption DEF CmdInv
    <3>4. LockedAt(layer) \in BOOLEAN
      BY DEF LockedAt
    <3>5. lv \in LayerValue(key)
      BY <3>2, <3>3, <3>4 DEF LayerValue
    <3> QED
      BY <3>1, <3>3, <3>5
  <2> QED
    BY <2>1, <2>2
<1>3. CASE CollectLock \/ NextPass \/ ReadKey \/ Skip \/ Report \/ \E b \in Bundle : Present(b)
  BY <1>3 DEF CollectLock, NextPass, ReadKey, Skip, Report, Present, resolving
<1> QED
  BY <1>1, <1>2, <1>3 DEF CmdNext

LEMMA CmdStep ==
  ASSUME CmdInv, [CmdNext]_cmdVars
  PROVE  CmdInv' /\ [Table!Next]_([k \in Key |-> Cells(values[k])])
<1> USE DEF CmdInv
<1>1. CASE UNCHANGED cmdVars
  BY <1>1 DEF cmdVars, store, ResolverInv
<1>2. CASE CmdNext
  <2>1. ResolverInv' /\ [Table!Next]_([k \in Key |-> Cells(values[k])])
    <3>1. CASE UNCHANGED store
      BY <3>1 DEF ResolverInv, store
    <3>2. CASE \E k \in Key : \E lv \in LayerValue(k) : Set(k, lv)
      BY <3>2, SetStep
    <3> QED
      BY <1>2, <3>1, <3>2, CmdWrites
  <2>2. args' = args /\ Len(args) \in Nat
    BY <1>2, LenProperties DEF CmdNext, Library, CollectLock, NextPass, ReadKey, ReadSet, Skip, Report, Present, resolving
  <2>3. CASE Library
    BY <2>1, <2>2, <2>3 DEF Library
  <2>4. CASE CollectLock
    <3>1. locks' \subseteq Layer
      BY <2>4, ParseLayerIs DEF CollectLock
    <3> QED
      BY <2>1, <2>2, <2>4, <3>1 DEF CollectLock, Reading, Has
  <2>5. CASE NextPass
    BY <2>1, <2>2, <2>5 DEF NextPass
  <2>6. CASE ReadKey
    <3>1. key' \in Key
      BY <2>2, <2>6, WordsAssumption DEF ReadKey, Reading, Has
    <3> QED
      BY <2>1, <2>2, <2>6, <3>1 DEF ReadKey, Reading, Has
  <2>7. CASE ReadSet
    BY <2>1, <2>2, <2>7 DEF ReadSet, Reading, Has
  <2>8. CASE Skip
    BY <2>1, <2>2, <2>8 DEF Skip, Reading, Has
  <2>9. CASE Report
    <3>1. ASSUME IsSet(key) PROVE Resolved(key).layer \in Layer
      BY <3>1, LenProperties, ElementOfSeq, EmptySeq, LayerIsNumber DEF Resolved, Last, IsSet, ResolverInv
    <3> QED
      BY <2>1, <2>2, <2>9, <3>1 DEF Report
  <2>10. CASE \E b \in Bundle : Present(b)
    BY <2>1, <2>2, <2>10 DEF Present, resolving
  <2> QED
    BY <1>2, <2>3, <2>4, <2>5, <2>6, <2>7, <2>8, <2>9, <2>10 DEF CmdNext
<1> QED
  BY <1>1, <1>2

LEMMA CmdTypes == CmdInv => CmdTypeOK
  BY FourLayers DEF CmdInv, CmdTypeOK

-------------------------------------------------------------------------------
(* The first signature of an algorithm, and what more signatures change: nothing. *)
LEMMA FirstIs ==
  ASSUME NEW S, NEW s \in Seq(S), NEW alg, Carries(s, alg)
  PROVE  \E i \in DOMAIN s : /\ s[i].alg = alg /\ First(s, alg) = s[i]
                             /\ \A j \in 1 .. i - 1 : s[j].alg # alg
<1> DEFINE T == {i \in DOMAIN s : s[i].alg = alg}
           P(i) == s[i].alg = alg /\ \A j \in 1 .. i - 1 : s[j].alg # alg
<1>1. Len(s) \in Nat /\ DOMAIN s = 1 .. Len(s)
  BY LenProperties
<1>2. T \in SUBSET Nat /\ T # {}
  BY <1>1 DEF Carries
<1>3. PICK m \in T : \A n \in T : m <= n
  BY <1>2, Least
<1>4. m \in DOMAIN s /\ P(m)
  BY <1>1, <1>3
<1>5. First(s, alg) = s[CHOOSE i \in DOMAIN s : P(i)]
  BY DEF First
<1>6. (CHOOSE i \in DOMAIN s : P(i)) \in DOMAIN s /\ P(CHOOSE i \in DOMAIN s : P(i))
  BY <1>4
<1> QED
  BY <1>5, <1>6

LEMMA FirstStays ==
  ASSUME NEW S, NEW s \in Seq(S), NEW b \in Seq(S), NEW alg, Carries(s, alg)
  PROVE  Carries(s \o b, alg) /\ First(s \o b, alg) = First(s, alg)
<1>1. /\ Len(s) \in Nat /\ DOMAIN s = 1 .. Len(s)
      /\ s \o b \in Seq(S) /\ DOMAIN (s \o b) = 1 .. Len(s) + Len(b) /\ Len(b) \in Nat
      /\ \A i \in DOMAIN s : i \in DOMAIN (s \o b) /\ (s \o b)[i] = s[i]
  BY LenProperties, ConcatProperties
<1>2. PICK i \in DOMAIN s : /\ s[i].alg = alg /\ First(s, alg) = s[i]
                            /\ \A j \in 1 .. i - 1 : s[j].alg # alg
  BY FirstIs
<1>3. Carries(s \o b, alg)
  BY <1>1, <1>2 DEF Carries
<1>4. PICK h \in DOMAIN (s \o b) : /\ (s \o b)[h].alg = alg /\ First(s \o b, alg) = (s \o b)[h]
                                   /\ \A j \in 1 .. h - 1 : (s \o b)[j].alg # alg
  BY <1>1, <1>3, FirstIs
<1>5. h = i
  <2>1. ~(h < i)
    BY <1>1, <1>2, <1>4
  <2>2. ~(i < h)
    BY <1>1, <1>2, <1>4
  <2> QED
    BY <1>1, <2>1, <2>2
<1> QED
  BY <1>1, <1>2, <1>3, <1>4, <1>5

LEMMA OkIs ==
  ASSUME NEW s
  PROVE  VerifyBundle(s) = "Ok" <=>
           /\ Carries(s, "Ed25519") /\ First(s, "Ed25519").genuine
           /\ Carries(s, "MlDsa65") /\ First(s, "MlDsa65").genuine
  BY DEF VerifyBundle

(* The last verdict is the one of its bundle. *)
Signatures == [alg : STRING, genuine : BOOLEAN]
VerdictInv ==
  \/ verdict.answer = "none"
  \/ verdict.of \in Seq(Signatures) /\ verdict.answer = VerifyBundle(verdict.of)

LEMMA VerdictAccepts == VerdictInv => AcceptedIsDualSigned
<1> SUFFICES ASSUME VerdictInv, verdict.answer = "Ok"
             PROVE  /\ \A alg \in {"Ed25519", "MlDsa65"} :
                          \E i \in DOMAIN verdict.of : verdict.of[i].alg = alg /\ verdict.of[i].genuine
                    /\ \A b \in Bundle : VerifyBundle(verdict.of \o b) = "Ok"
  BY DEF AcceptedIsDualSigned
<1>1. verdict.of \in Seq(Signatures) /\ VerifyBundle(verdict.of) = "Ok"
  BY DEF VerdictInv
<1>2. \A alg \in {"Ed25519", "MlDsa65"} : Carries(verdict.of, alg) /\ First(verdict.of, alg).genuine
  BY <1>1, OkIs
<1>3. \A alg \in {"Ed25519", "MlDsa65"} :
        \E i \in DOMAIN verdict.of : verdict.of[i].alg = alg /\ verdict.of[i].genuine
  <2> SUFFICES ASSUME NEW alg \in {"Ed25519", "MlDsa65"}
               PROVE  \E i \in DOMAIN verdict.of : verdict.of[i].alg = alg /\ verdict.of[i].genuine
    OBVIOUS
  <2>1. Carries(verdict.of, alg) /\ First(verdict.of, alg).genuine
    BY <1>2
  <2>2. PICK i \in DOMAIN verdict.of : verdict.of[i].alg = alg /\ First(verdict.of, alg) = verdict.of[i]
    BY <1>1, <2>1, FirstIs
  <2> QED
    BY <2>1, <2>2
<1>4. ASSUME NEW b \in Bundle PROVE VerifyBundle(verdict.of \o b) = "Ok"
  <2>1. b \in Seq(Signatures)
    BY BundleAssumption DEF Signatures
  <2>2. \A alg \in {"Ed25519", "MlDsa65"} :
          Carries(verdict.of \o b, alg) /\ First(verdict.of \o b, alg).genuine
    BY <1>1, <1>2, <2>1, FirstStays
  <2> QED
    BY <2>2, OkIs
<1> QED
  BY <1>3, <1>4

LEMMA VerdictStep == VerdictInv /\ [CmdNext]_cmdVars => VerdictInv'
<1> SUFFICES ASSUME VerdictInv, [CmdNext]_cmdVars PROVE VerdictInv'
  OBVIOUS
<1>1. CASE verdict' = verdict
  BY <1>1 DEF VerdictInv
<1>2. CASE \E b \in Bundle : Present(b)
  <2>1. PICK b \in Bundle : verdict' = [of |-> b, answer |-> VerifyBundle(b)]
    BY <1>2 DEF Present
  <2> QED
    BY <2>1, BundleAssumption DEF VerdictInv, Signatures
<1> QED
  BY <1>1, <1>2 DEF CmdNext, cmdVars, Library, CollectLock, NextPass, ReadKey, ReadSet, Skip, Report

-------------------------------------------------------------------------------
(* The extension bridge. *)
(* With the enterprise cell filled, the enterprise layer is the winner. *)
LEMMA EnterpriseWins ==
  ASSUME NEW k \in PolicyKey, table[k][Enterprise] # NotSet
  PROVE  Policy!Winner(k) = Enterprise
<1>1. Enterprise \in Policy!Filled(k) /\ \A m \in Policy!Filled(k) : m <= Enterprise
  BY DEF Policy!Filled, Policy!Layer, Enterprise
<1>2. \A l \in Policy!Filled(k) : (\A m \in Policy!Filled(k) : m <= l) => l = Enterprise
  BY <1>1 DEF Policy!Filled, Policy!Layer, Enterprise
<1>3. QED
  BY <1>1, <1>2 DEF Policy!Winner

(* The same, in the state after a write. *)
LEMMA EnterpriseWinsNext ==
  ASSUME NEW k \in PolicyKey, table'[k][Enterprise] # NotSet
  PROVE  Policy!Winner(k)' = Enterprise
<1>1. Enterprise \in Policy!Filled(k)' /\ \A m \in Policy!Filled(k)' : m <= Enterprise
  BY DEF Policy!Filled, Policy!Layer, Enterprise
<1>2. \A l \in Policy!Filled(k)' : (\A m \in Policy!Filled(k)' : m <= l) => l = Enterprise
  BY <1>1 DEF Policy!Filled, Policy!Layer, Enterprise
<1>3. QED
  BY <1>1, <1>2 DEF Policy!Winner

(* The enterprise layer alone decides once it has set the three keys. *)
THEOREM EnterpriseDecides == EngineSpec => EnterpriseBinds
<1>1. ASSUME NEW id \in ExtId, NEW doc \in Mv2Document,
             \A k \in PolicyKey : table[k][Enterprise] # NotSet,
             \A k \in PolicyKey : table'[k][Enterprise] = table[k][Enterprise]
      PROVE  Decide2(id, doc)' = Decide2(id, doc)
  <2>1. ASSUME NEW k \in PolicyKey
        PROVE  HasPolicy(k) /\ HasPolicy(k)' /\ Effective(k)' = Effective(k)
    <3>1. Policy!Winner(k) = Enterprise /\ Policy!Winner(k)' = Enterprise
      BY <1>1, EnterpriseWins, EnterpriseWinsNext
    <3>2. Enterprise \in Policy!Filled(k) /\ Enterprise \in Policy!Filled(k)'
      BY <1>1 DEF Policy!Filled, Policy!Layer, Enterprise
    <3>3. QED
      BY <1>1, <3>1, <3>2 DEF HasPolicy, Effective
  <2>2. MODE \in PolicyKey /\ ALLOWLIST \in PolicyKey /\ BLOCKLIST \in PolicyKey
    BY DEF PolicyKey
  <2>3. /\ ListContains(BLOCKLIST, id)' <=> ListContains(BLOCKLIST, id)
        /\ ListContains(ALLOWLIST, id)' <=> ListContains(ALLOWLIST, id)
    BY <2>1, <2>2 DEF ListContains
  <2>4. ToMv4(ParseMv2(doc))' = ToMv4(ParseMv2(doc))
    OBVIOUS
  <2>5. QED
    BY <2>1, <2>2, <2>3, <2>4 DEF Decide2, Evaluate
<1>2. \A id \in ExtId, doc \in Mv2Document :
        (/\ \A k \in PolicyKey : table[k][Enterprise] # NotSet
         /\ \A k \in PolicyKey : table'[k][Enterprise] = table[k][Enterprise])
          => Decide2(id, doc)' = Decide2(id, doc)
  BY <1>1
<1>3. QED
  BY <1>2, PTL DEF EnterpriseBinds

(* No policy lets blocking webRequest through the MV2 shim without sign-off. *)
THEOREM Mv2SignOff == EngineSpec => []Mv2BlockingNeedsApproval
<1>1. ASSUME NEW id \in ExtId, NEW doc \in Mv2Document,
             "webRequestBlocking" \in doc.permissions
      PROVE  Decide2(id, doc) # "Allow"
  BY <1>1 DEF Decide2, Evaluate, ToMv4, ParseMv2
<1>2. Mv2BlockingNeedsApproval
  BY <1>1 DEF Mv2BlockingNeedsApproval
<1>3. QED
  BY <1>2, PTL

BridgeInv ==
  /\ table = [k \in PolicyKey |-> [l \in Policy!Layer |-> table[k][l]]]
  /\ \A k \in PolicyKey, l \in Policy!Layer : table[k][l] \in Policy!Cell(k) \cup {NotSet}

LEMMA BridgeInitInv == BridgeInit => BridgeInv
  BY DEF BridgeInit, BridgeInv, Policy!Init

LEMMA BridgeStep == BridgeInv /\ [BridgeNext]_table => BridgeInv'
<1> SUFFICES ASSUME BridgeInv, [BridgeNext]_table PROVE BridgeInv'
  OBVIOUS
<1>1. CASE UNCHANGED table
  BY <1>1 DEF BridgeInv
<1>2. CASE BridgeNext
  <2>1. PICK k \in PolicyKey, l \in Writers : \E v \in KeyValue[k] : Write(k, l, v)
    BY <1>2 DEF BridgeNext
  <2>2. PICK v \in KeyValue[k] : Write(k, l, v)
    BY <2>1
  <2> DEFINE c == [value |-> v, locked |-> FALSE]
  <2>3. c \in Policy!Cell(k)
    BY DEF Policy!Cell
  <2>4. table' = [table EXCEPT ![k] = [table[k] EXCEPT ![l] = c]]
    BY <2>2 DEF Write, Policy!Write
  <2> HIDE DEF c
  <2>5. table' = [h \in PolicyKey |-> IF h = k THEN [table[k] EXCEPT ![l] = c] ELSE table[h]]
    BY <2>4 DEF BridgeInv
  <2>6. table[k] = [m \in Policy!Layer |-> table[k][m]]
    BY DEF BridgeInv
  <2>7. table'[k] = [m \in Policy!Layer |-> IF m = l THEN c ELSE table[k][m]]
    BY <2>5, <2>6
  <2>8. \A h \in PolicyKey : table'[h] = [m \in Policy!Layer |-> table'[h][m]]
    BY <2>5, <2>7 DEF BridgeInv
  <2>9. \A h \in PolicyKey, m \in Policy!Layer : table'[h][m] \in Policy!Cell(h) \cup {NotSet}
    BY <2>3, <2>5, <2>7 DEF BridgeInv
  <2> QED
    BY <2>5, <2>8, <2>9 DEF BridgeInv
<1> QED
  BY <1>1, <1>2

-------------------------------------------------------------------------------
(* The span that is being built: its inputs are a set of inputs, in their order.
   The last line is one of the lines. *)
SpanInv ==
  /\ \/ span = NoSpan
     \/ \E d \in Decision :
          span = [decision |-> d.decision, source |-> d.source, inputs |-> span.inputs]
  /\ span.inputs \in Seq(Input) /\ Len(span.inputs) <= MaxInputs
  /\ \A i, j \in DOMAIN span.inputs : span.inputs[i] = span.inputs[j] => i = j
  /\ Cardinality(ToSet(span.inputs)) = Len(span.inputs)
  /\ span.inputs = Arranged(ToSet(span.inputs), PairOrder)
  /\ line \in Line \cup {NoLine}

LEMMA PairOrders == ASSUME NEW I \in SUBSET Input PROVE Orders(PairOrder, I)
<1>1. \A i \in I : i \in Input /\ i.k \in Nat /\ i.v \in Nat /\ i = [k |-> i.k, v |-> i.v]
  BY InputAssumption
<1>2. \A i, j \in I : <<i, j>> \in PairOrder <=> PairBefore(i, j)
  BY <1>1 DEF PairOrder
<1>3. /\ \A i \in I : ~PairBefore(i, i)
      /\ \A i, j, k \in I : PairBefore(i, j) /\ PairBefore(j, k) => PairBefore(i, k)
  BY <1>1 DEF PairBefore
<1>4. ASSUME NEW i \in I, NEW j \in I, ~PairBefore(i, j), ~PairBefore(j, i) PROVE i = j
  <2>1. i.k = j.k /\ i.v = j.v
    BY <1>1, <1>4 DEF PairBefore
  <2> QED
    BY <1>1, <2>1
<1> QED
  BY <1>2, <1>3, <1>4 DEF Orders

(* Attaching an input to a set of inputs in order gives the larger set in order. *)
LEMMA WithInputIs ==
  ASSUME NEW s \in Seq(Input), \A i, j \in DOMAIN s : s[i] = s[j] => i = j,
         NEW x \in Input, x \notin ToSet(s)
  PROVE  LET t == Sort(Append(s, x), PairBefore) IN
         /\ t \in Seq(Input) /\ Len(t) = Len(s) + 1
         /\ \A i, j \in DOMAIN t : t[i] = t[j] => i = j
         /\ Cardinality(ToSet(t)) = Len(t)
         /\ t = Arranged(ToSet(t), PairOrder)
         /\ ToSet(t) = ToSet(s) \cup {x}
<1> DEFINE a == Append(s, x)
           SO == StableOrder(a, PairBefore)
           t == Sort(a, PairBefore)
           R == {a[i] : i \in DOMAIN a}
<1>1. /\ Len(s) \in Nat /\ DOMAIN s = 1 .. Len(s)
      /\ a \in Seq(Input) /\ Len(a) = Len(s) + 1 /\ DOMAIN a = 1 .. Len(s) + 1
      /\ a[Len(s) + 1] = x /\ \A i \in 1 .. Len(s) : a[i] = s[i]
  BY LenProperties, AppendProperties
<1>2. ASSUME NEW i \in DOMAIN a, NEW j \in DOMAIN a, a[i] = a[j] PROVE i = j
  <2>1. CASE i \in 1 .. Len(s) /\ j \in 1 .. Len(s)
    <3>1. s[i] = s[j] /\ i \in DOMAIN s /\ j \in DOMAIN s
      BY <1>1, <1>2, <2>1
    <3> QED
      BY <3>1
  <2>2. CASE i = Len(s) + 1 \/ j = Len(s) + 1
    BY <1>1, <1>2, <2>2 DEF ToSet
  <2> QED
    BY <1>1, <2>1, <2>2
<1>3. \A i \in DOMAIN a : a[i] \in Input
  BY <1>1, ElementOfSeq
<1>16. R = ToSet(s) \cup {x}
  <2>1. DOMAIN a = DOMAIN s \cup {Len(s) + 1}
    BY <1>1
  <2>2. \A i \in DOMAIN s : a[i] = s[i]
    BY <1>1
  <2> QED
    BY <1>1, <2>1, <2>2 DEF ToSet
<1> HIDE DEF a
<1>4. R \subseteq Input /\ Orders(PairOrder, R)
  BY <1>3, PairOrders
<1>5. ASSUME NEW i \in DOMAIN a, NEW j \in DOMAIN a
      PROVE  <<i, j>> \in SO <=> <<a[i], a[j]>> \in PairOrder
  <2>1. a[i] \in R /\ a[j] \in R /\ <<a[i], a[j]>> \in Input \X Input
    BY <1>3
  <2>2. <<a[i], a[j]>> \in PairOrder <=> PairBefore(a[i], a[j])
    BY <2>1 DEF PairOrder
  <2>3. <<a[j], a[i]>> \in PairOrder <=> PairBefore(a[j], a[i])
    BY <2>1 DEF PairOrder
  <2>4. <<i, j>> \in SO <=> (PairBefore(a[i], a[j]) \/ (~PairBefore(a[j], a[i]) /\ i < j))
    BY DEF StableOrder
  <2>5. ~PairBefore(a[i], a[j]) /\ ~PairBefore(a[j], a[i]) => i = j
    BY <1>2, <1>4, <2>1, <2>2, <2>3 DEF Orders
  <2>6. i = j => ~(i < j)
    BY <1>1
  <2>7. PairBefore(a[i], a[j]) => ~PairBefore(a[j], a[i])
    BY <1>4, <2>1, <2>2, <2>3 DEF Orders
  <2> QED
    BY <2>2, <2>4, <2>5, <2>6, <2>7
<1>6. t = Picked(a, DOMAIN a, SO)
  BY DEF Sort
<1> HIDE DEF SO, t
<1>7. IsFiniteSet(R) /\ Cardinality(R) = Len(a) /\ Picked(a, DOMAIN a, SO) = Arranged(R, PairOrder)
  <2>1. a \in Seq(Input) /\ Orders(PairOrder, {a[i] : i \in DOMAIN a})
    BY <1>1, <1>4
  <2>2. /\ \A i, j \in DOMAIN a : a[i] = a[j] => i = j
        /\ \A i, j \in DOMAIN a : <<i, j>> \in SO <=> <<a[i], a[j]>> \in PairOrder
    BY <1>2, <1>5
  <2>3. /\ IsFiniteSet({a[i] : i \in DOMAIN a})
        /\ Cardinality({a[i] : i \in DOMAIN a}) = Len(a)
        /\ Picked(a, DOMAIN a, SO) = Arranged({a[i] : i \in DOMAIN a}, PairOrder)
    BY <2>1, <2>2, SortedIsArranged, Zenon
  <2> QED
    BY <2>3
<1>8. t = Arranged(R, PairOrder)
  BY <1>6, <1>7
<1>9. Lists(t, R, PairOrder)
  BY <1>4, <1>7, <1>8, ArrangedLists
<1> HIDE DEF R
<1>10. t \in [1 .. Len(s) + 1 -> R]
  BY <1>1, <1>7, <1>9 DEF Lists
<1>11. t \in [1 .. Len(s) + 1 -> Input] /\ DOMAIN t = 1 .. Len(s) + 1
  BY <1>4, <1>10
<1>12. t \in Seq(Input) /\ Len(t) = Len(s) + 1
  BY <1>1, <1>11, SeqDef, LenProperties
<1>13. ToSet(t) = R
  <2>1. \A r \in R : \E n \in 1 .. Len(s) + 1 : t[n] = r
    BY <1>1, <1>7, <1>9 DEF Lists
  <2> QED
    BY <1>10, <2>1 DEF ToSet
<1>14. ASSUME NEW i \in DOMAIN t, NEW j \in DOMAIN t, t[i] = t[j] PROVE i = j
  <2>1. \A m, n \in 1 .. Len(s) + 1 : m < n => <<t[m], t[n]>> \in PairOrder
    BY <1>1, <1>7, <1>9 DEF Lists
  <2>2. <<t[i], t[i]>> \notin PairOrder
    BY <1>4, <1>10, <1>11 DEF Orders
  <2>3. ~(i < j) /\ ~(j < i)
    BY <1>11, <1>14, <2>1, <2>2
  <2> QED
    BY <1>1, <1>11, <2>3
<1>15. Cardinality(ToSet(t)) = Len(t) /\ t = Arranged(ToSet(t), PairOrder)
  BY <1>1, <1>7, <1>8, <1>12, <1>13
<1> QED
  BY <1>12, <1>13, <1>14, <1>15, <1>16 DEF t, a

LEMMA AttachStep ==
  ASSUME SpanInv, NEW x \in Input, Attach(x)
  PROVE  SpanInv'
<1> DEFINE t == Sort(Append(span.inputs, x), PairBefore)
<1>1. PICK d \in Decision :
        span = [decision |-> d.decision, source |-> d.source, inputs |-> span.inputs]
  BY DEF SpanInv, Attach
<1>2. span' = [span EXCEPT !.inputs = t]
  BY DEF Attach, WithInput
<1>3. /\ t \in Seq(Input) /\ Len(t) = Len(span.inputs) + 1
      /\ \A i, j \in DOMAIN t : t[i] = t[j] => i = j
      /\ Cardinality(ToSet(t)) = Len(t)
      /\ t = Arranged(ToSet(t), PairOrder)
  BY WithInputIs DEF SpanInv, Attach
<1> HIDE DEF t
<1>4. span' = [decision |-> d.decision, source |-> d.source, inputs |-> t]
  BY <1>1, <1>2
<1>5. Len(t) <= MaxInputs
  BY <1>3, LenProperties, InputAssumption DEF Attach, SpanInv
<1>6. span'.inputs = t
  BY <1>4
<1>7. \E e \in Decision : span' = [decision |-> e.decision, source |-> e.source, inputs |-> span'.inputs]
  BY <1>4
<1>8. line' \in Line \cup {NoLine}
  BY DEF Attach, SpanInv
<1> QED
  BY <1>3, <1>5, <1>6, <1>7, <1>8 DEF SpanInv

LEMMA NoInputs ==
  /\ <<>> \in Seq(Input) /\ Len(<<>>) = 0 /\ Len(<<>>) <= MaxInputs
  /\ \A i, j \in DOMAIN <<>> : <<>>[i] = <<>>[j] => i = j
  /\ Cardinality(ToSet(<<>>)) = Len(<<>>)
  /\ <<>> = Arranged(ToSet(<<>>), PairOrder)
<1>1. ToSet(<<>>) = {} /\ Cardinality({}) = 0
  BY FS_EmptySet DEF ToSet
<1>2. Arranged({}, PairOrder) = <<>>
  BY <1>1 DEF Arranged
<1>3. <<>> \in Seq(Input) /\ Len(<<>>) = 0 /\ DOMAIN <<>> = {}
  OBVIOUS
<1>4. Len(<<>>) <= MaxInputs
  BY <1>3, InputAssumption
<1>5. \A i, j \in DOMAIN <<>> : <<>>[i] = <<>>[j] => i = j
  BY <1>3
<1>6. Cardinality(ToSet(<<>>)) = Len(<<>>)
  BY <1>1, <1>3
<1>7. <<>> = Arranged(ToSet(<<>>), PairOrder)
  BY <1>1, <1>2
<1> QED
  BY <1>3, <1>4, <1>5, <1>6, <1>7

(* An order in which a set of inputs can come: every input has its turn. *)
LEMMA OrderIs ==
  ASSUME NEW inputs \in SUBSET Input, IsFiniteSet(inputs), NEW order \in SetToSeqs(inputs)
  PROVE  /\ order \in Seq(Input) /\ DOMAIN order = 1 .. Len(order) /\ Len(order) \in Nat
         /\ \A i, j \in DOMAIN order : order[i] = order[j] => i = j
         /\ ToSet(order) = inputs
<1> DEFINE c == Cardinality(inputs)
<1>1. c \in Nat
  BY FS_CardinalityType
<1>2. order \in [1 .. c -> inputs] /\ \A i, j \in 1 .. c : order[i] = order[j] => i = j
  BY DEF SetToSeqs
<1> HIDE DEF c
<1>3. order \in Seq(Input) /\ order \in Seq(inputs) /\ DOMAIN order = 1 .. c
  BY <1>1, <1>2, SeqDef
<1>4. Len(order) = c
  BY <1>1, <1>3, LenProperties
<1>5. ToSet(order) \subseteq inputs
  BY <1>2, <1>3 DEF ToSet
<1>6. Cardinality(ToSet(order)) = c
  <2>1. order \in Bijection(1 .. c, ToSet(order))
    BY <1>2, <1>3 DEF Bijection, Injection, Surjection, IsInjective, ToSet
  <2>2. IsFiniteSet(1 .. c) /\ Cardinality(1 .. c) = c
    BY <1>1, FS_Interval
  <2>3. ExistsBijection(1 .. c, ToSet(order))
    BY <2>1 DEF ExistsBijection
  <2> QED
    BY <2>2, <2>3, FS_Bijection
<1>7. ToSet(order) = inputs
  BY <1>5, <1>6, FS_Subset DEF c
<1> QED
  BY <1>1, <1>2, <1>3, <1>4, <1>7

(* Inputs in any order: after n of them the span holds those n, in their order. *)
LEMMA AttachingIs ==
  ASSUME NEW d, NEW order \in Seq(Input),
         \A i, j \in DOMAIN order : order[i] = order[j] => i = j
  PROVE  Attaching(order, NewSpan(d))[Len(order)] =
           [NewSpan(d) EXCEPT !.inputs = Arranged(ToSet(order), PairOrder)]
<1> DEFINE N == Len(order)
           first(n) == {order[i] : i \in 1 .. n}
           start == NewSpan(d)
           held(n) == [start EXCEPT !.inputs = Arranged(first(n), PairOrder)]
           want == [n \in 0 .. N |-> held(n)]
           Attaches(g) == g = [n \in 0 .. N |-> IF n = 0 THEN start ELSE WithInput(g[n - 1], order[n])]
           after == Attaching(order, start)
<1>1. N \in Nat /\ DOMAIN order = 1 .. N /\ \A i \in 1 .. N : order[i] \in Input
  BY LenProperties, ElementOfSeq
<1>2. held(0) = start
  <2>1. first(0) = {}
    OBVIOUS
  <2>2. ToSet(<<>>) = {}
    BY DEF ToSet
  <2>3. Arranged({}, PairOrder) = <<>>
    BY <2>2, NoInputs
  <2>4. start = [decision |-> d.decision, source |-> d.source, inputs |-> <<>>]
    BY DEF NewSpan
  <2>5. held(0) = [start EXCEPT !.inputs = <<>>]
    BY <2>1, <2>3
  <2> HIDE DEF held
  <2> QED
    BY <2>4, <2>5
<1>3. \A n \in 0 .. N : held(n).inputs = Arranged(first(n), PairOrder)
  BY DEF NewSpan
<1>4. \A n \in 1 .. N : held(n) = WithInput(held(n - 1), order[n])
  <2> DEFINE T == {n \in Nat : n <= N =>
                     /\ Arranged(first(n), PairOrder) \in Seq(Input)
                     /\ \A i, j \in DOMAIN Arranged(first(n), PairOrder) :
                          Arranged(first(n), PairOrder)[i] = Arranged(first(n), PairOrder)[j] => i = j
                     /\ ToSet(Arranged(first(n), PairOrder)) = first(n)}
  <2>1. 0 \in T
    <3>1. first(0) = {}
      OBVIOUS
    <3>2. ToSet(<<>>) = {}
      BY DEF ToSet
    <3>3. Arranged(first(0), PairOrder) = <<>>
      BY <3>1, <3>2, NoInputs
    <3>4. <<>> \in Seq(Input) /\ \A i, j \in DOMAIN <<>> : <<>>[i] = <<>>[j] => i = j
      BY NoInputs
    <3> DEFINE s == Arranged(first(0), PairOrder)
    <3>5. s \in Seq(Input) /\ (\A i, j \in DOMAIN s : s[i] = s[j] => i = j) /\ ToSet(s) = first(0)
      BY <3>1, <3>2, <3>3, <3>4
    <3> HIDE DEF first
    <3> QED
      BY <3>5
  <2>2. ASSUME NEW n \in Nat, n \in T, n + 1 <= N
        PROVE  LET s == Arranged(first(n), PairOrder)
                   t == Sort(Append(s, order[n + 1]), PairBefore)
               IN  /\ t \in Seq(Input)
                   /\ \A i, j \in DOMAIN t : t[i] = t[j] => i = j
                   /\ ToSet(t) = first(n + 1)
                   /\ t = Arranged(first(n + 1), PairOrder)
    <3> DEFINE s == Arranged(first(n), PairOrder)
               x == order[n + 1]
               t == Sort(Append(s, x), PairBefore)
    <3>1. n <= N /\ n + 1 \in 1 .. N /\ 1 .. n \subseteq 1 .. N /\ n + 1 \notin 1 .. n
          /\ 1 .. n + 1 = (1 .. n) \cup {n + 1}
      BY <1>1, <2>2
    <3>2. s \in Seq(Input) /\ (\A i, j \in DOMAIN s : s[i] = s[j] => i = j) /\ ToSet(s) = first(n)
      BY <2>2, <3>1
    <3>3. x \in Input /\ x \notin first(n)
      BY <1>1, <3>1
    <3>4. first(n + 1) = first(n) \cup {x}
      BY <3>1
    <3> HIDE DEF s, x, first
    <3>5. /\ t \in Seq(Input)
          /\ \A i, j \in DOMAIN t : t[i] = t[j] => i = j
          /\ t = Arranged(ToSet(t), PairOrder)
          /\ ToSet(t) = ToSet(s) \cup {x}
      BY <3>2, <3>3, WithInputIs
    <3>6. ToSet(t) = first(n + 1)
      BY <3>2, <3>4, <3>5
    <3> HIDE DEF t
    <3>7. t = Arranged(first(n + 1), PairOrder)
      BY <3>5, <3>6
    <3> QED
      BY <3>5, <3>6, <3>7 DEF s, x, t
  <2>3. ASSUME NEW n \in Nat, n \in T PROVE n + 1 \in T
    <3>1. CASE n + 1 <= N
      <4>1. Sort(Append(Arranged(first(n), PairOrder), order[n + 1]), PairBefore)
              = Arranged(first(n + 1), PairOrder)
        <5> HIDE DEF T, first
        <5> QED
          BY <2>2, <2>3, <3>1
      <4> DEFINE t == Arranged(first(n + 1), PairOrder)
      <4>2. /\ t \in Seq(Input)
            /\ \A i, j \in DOMAIN t : t[i] = t[j] => i = j
            /\ ToSet(t) = first(n + 1)
        <5> HIDE DEF T, first
        <5> QED
          BY <2>2, <2>3, <3>1, <4>1
      <4> QED
        BY <4>2
    <3> QED
      BY <3>1
  <2> SUFFICES ASSUME NEW n \in 1 .. N PROVE held(n) = WithInput(held(n - 1), order[n])
    OBVIOUS
  <2>4. n - 1 \in Nat /\ (n - 1) + 1 = n /\ n <= N /\ n - 1 \in 0 .. N
    BY <1>1
  <2>5. n - 1 \in T
    <3> HIDE DEF T
    <3> QED
      BY <2>1, <2>3, <2>4, Induction
  <2>6. Sort(Append(Arranged(first(n - 1), PairOrder), order[n]), PairBefore) = Arranged(first(n), PairOrder)
    <3> HIDE DEF T, first
    <3> QED
      BY <2>2, <2>4, <2>5
  <2> QED
    BY <1>3, <2>4, <2>6 DEF WithInput, NewSpan
<1> HIDE DEF held, start
<1>5. Attaches(want)
  <2> SUFFICES ASSUME NEW n \in 0 .. N
               PROVE  want[n] = IF n = 0 THEN start ELSE WithInput(want[n - 1], order[n])
    OBVIOUS
  <2>1. CASE n = 0
    BY <1>2, <2>1
  <2>2. CASE n # 0
    <3>1. n \in 1 .. N /\ n - 1 \in 0 .. N
      BY <1>1, <2>2
    <3> QED
      BY <1>4, <2>2, <3>1
  <2> QED
    BY <2>1, <2>2
<1>6. after = CHOOSE g : Attaches(g)
  BY DEF Attaching
<1> HIDE DEF want, after
<1>7. Attaches(after)
  BY <1>5, <1>6
<1>8. after[0] = start /\ \A n \in 1 .. N : after[n] = WithInput(after[n - 1], order[n])
  BY <1>1, <1>7
<1> DEFINE T == {n \in Nat : n <= N => after[n] = held(n)}
<1>9. 0 \in T
  BY <1>2, <1>8
<1>10. ASSUME NEW n \in Nat, n \in T PROVE n + 1 \in T
  <2>1. CASE n + 1 <= N
    <3>1. n + 1 \in 1 .. N /\ (n + 1) - 1 = n /\ n <= N
      BY <1>1, <2>1
    <3>2. after[n] = held(n)
      BY <1>10, <3>1
    <3>3. after[n + 1] = WithInput(after[n], order[n + 1])
      BY <1>8, <3>1
    <3>4. held(n + 1) = WithInput(held(n), order[n + 1])
      BY <1>4, <3>1
    <3> QED
      BY <3>2, <3>3, <3>4
  <2> QED
    BY <2>1
<1>11. N \in T
  <2> HIDE DEF T
  <2> QED
    BY <1>1, <1>9, <1>10, Induction
<1>12. after[N] = held(N)
  BY <1>1, <1>11
<1>13. first(N) = ToSet(order)
  BY <1>1 DEF ToSet
<1> QED
  BY <1>12, <1>13 DEF held, after, start

(* For any decision and any inputs, however many: whatever order they came in,
   the line is the same (to_log_line of DecisionSpan). *)
THEOREM LinesAreReproducible ==
  ASSUME NEW d \in Decision, NEW inputs \in SUBSET Input, IsFiniteSet(inputs)
  PROVE  LineIsReproducible(d, inputs)
<1> SUFFICES ASSUME NEW a \in SetToSeqs(inputs), NEW b \in SetToSeqs(inputs)
             PROVE  Attaching(a, NewSpan(d))[Len(a)] = Attaching(b, NewSpan(d))[Len(b)]
  BY DEF LineIsReproducible
<1>1. /\ a \in Seq(Input) /\ (\A i, j \in DOMAIN a : a[i] = a[j] => i = j) /\ ToSet(a) = inputs
      /\ b \in Seq(Input) /\ (\A i, j \in DOMAIN b : b[i] = b[j] => i = j) /\ ToSet(b) = inputs
  BY OrderIs
<1>2. Attaching(a, NewSpan(d))[Len(a)] = [NewSpan(d) EXCEPT !.inputs = Arranged(ToSet(a), PairOrder)]
  BY <1>1, AttachingIs
<1>3. Attaching(b, NewSpan(d))[Len(b)] = [NewSpan(d) EXCEPT !.inputs = Arranged(ToSet(b), PairOrder)]
  BY <1>1, AttachingIs
<1> QED
  BY <1>1, <1>2, <1>3

(* Whatever a span has so far, its line is one of the lines. *)
LEMMA EmittedIsLine ==
  ASSUME SpanInv, span # NoSpan
  PROVE  ToLogLine(span) \in Line
<1>1. PICK d \in Decision :
        span = [decision |-> d.decision, source |-> d.source, inputs |-> span.inputs]
  BY DEF SpanInv
<1> DEFINE I == ToSet(span.inputs)
<1>2. I \in SUBSET Input
  BY ElementOfSeq DEF SpanInv, ToSet
<1>3. span.inputs = Arranged(I, PairOrder)
  BY DEF SpanInv
<1> HIDE DEF I
<1>4. span = [NewSpan(d) EXCEPT !.inputs = Arranged(I, PairOrder)]
  BY <1>1, <1>3 DEF NewSpan
<1> QED
  BY <1>2, <1>4 DEF Line

LEMMA TraceStep ==
  ASSUME SpanInv, Trace
  PROVE  SpanInv'
<1>1. ASSUME NEW d \in Decision, Decide(d) PROVE SpanInv'
  <2>1. span' = [decision |-> d.decision, source |-> d.source, inputs |-> <<>>]
    BY <1>1 DEF Decide, NewSpan
  <2>2. line' \in Line \cup {NoLine}
    BY <1>1 DEF Decide, SpanInv
  <2> QED
    BY <2>1, <2>2, NoInputs DEF SpanInv
<1>2. ASSUME NEW x \in Input, Attach(x) PROVE SpanInv'
  BY <1>2, AttachStep
<1>3. CASE Emit
  BY <1>3, EmittedIsLine DEF Emit, SpanInv
<1>4. CASE Simulate
  <2>1. ToLogLine(Simulated) \in Line
    BY DEF Line
  <2> QED
    BY <1>4, <2>1 DEF Simulate, SpanInv
<1> QED
  BY <1>1, <1>2, <1>3, <1>4 DEF Trace

LeavesInv == leaves \in Seq(Log!Leaf) /\ Len(leaves) <= MaxLen

LEMMA AppendStep ==
  ASSUME LeavesInv, NEW e \in Entry, Log!AppendEntry(e)
  PROVE  LeavesInv'
<1>1. Log!HashBytes(e) \in Log!Leaf
  BY DEF Log!Leaf
<1> QED
  BY <1>1, AppendProperties, LenProperties, InputAssumption DEF LeavesInv, Log!AppendEntry

-------------------------------------------------------------------------------
(* The whole crate. *)
EngineInv == CmdInv /\ VerdictInv /\ SpanInv /\ LeavesInv /\ BridgeInv

LEMMA EngineInitInv == EngineInit => EngineInv /\ Table!Init
<1> SUFFICES ASSUME EngineInit PROVE EngineInv /\ Table!Init
  OBVIOUS
<1>1. CmdInv /\ Table!Init /\ VerdictInv /\ BridgeInv
  BY CmdInitInv, BridgeInitInv DEF EngineInit, CmdInit, VerdictInv
<1>2. span = NoSpan /\ NoSpan.inputs = <<>> /\ line = NoLine
  BY DEF EngineInit, NoSpan
<1>3. SpanInv
  BY <1>2, NoInputs DEF SpanInv
<1>4. LeavesInv
  BY InputAssumption DEF EngineInit, Log!Init, LeavesInv
<1> QED
  BY <1>1, <1>3, <1>4 DEF EngineInv

LEMMA EngineStep ==
  ASSUME EngineInv, [EngineNext]_engineVars
  PROVE  EngineInv' /\ [Table!Next]_([k \in Key |-> Cells(values[k])])
<1>1. [CmdNext]_cmdVars /\ [BridgeNext]_table
  BY DEF EngineNext, engineVars
<1>2. SpanInv'
  <2>1. CASE Trace
    BY <2>1, TraceStep DEF EngineInv
  <2>2. CASE UNCHANGED <<span, line>>
    BY <2>2 DEF EngineInv, SpanInv
  <2> QED
    BY <2>1, <2>2 DEF EngineNext, engineVars
<1>3. LeavesInv'
  <2>1. CASE \E e \in Entry : Log!AppendEntry(e)
    BY <2>1, AppendStep DEF EngineInv
  <2>2. CASE UNCHANGED leaves
    BY <2>2 DEF EngineInv, LeavesInv
  <2> QED
    BY <2>1, <2>2 DEF EngineNext, engineVars
<1> QED
  BY <1>1, <1>2, <1>3, CmdStep, VerdictStep, BridgeStep DEF EngineInv

LEMMA EngineInvariant == EngineSpec => []EngineInv
  BY EngineInitInv, EngineStep, PTL DEF EngineSpec

(* Every state of the crate is of the types of its parts; a vector of layer values
   never has more than the four layers, the line of a span is always one of the lines. *)
THEOREM EngineTypeCorrect == EngineSpec => []EngineTypeOK
<1>1. EngineInv => EngineTypeOK
  <2> SUFFICES ASSUME EngineInv PROVE EngineTypeOK
    OBVIOUS
  <2>1. CmdTypeOK
    BY CmdTypes DEF EngineInv
  <2>2. Log!TypeOK /\ BridgeTypeOK
    BY DEF EngineInv, LeavesInv, Log!TypeOK, BridgeInv, BridgeTypeOK
  <2>3. /\ ToSet(span.inputs) \subseteq Input /\ Len(span.inputs) <= MaxInputs
        /\ line \in Line \cup {NoLine}
    BY ElementOfSeq DEF EngineInv, SpanInv, ToSet
  <2> QED
    BY <2>1, <2>2, <2>3 DEF EngineTypeOK
<1> QED
  BY <1>1, EngineInvariant, PTL

(* Whoever wrote the layers, in any order and however often, resolve answers with
   the last write of the highest. *)
THEOREM PrecedenceHolds == EngineSpec => []ResolveIsPrecedence
<1>1. EngineInv => ResolveIsPrecedence
  BY AnswersAsWritten DEF EngineInv, CmdInv
<1> QED
  BY <1>1, EngineInvariant, PTL

(* The vectors that set keeps implement a table with one cell per key and layer. *)
THEOREM ResolverImplementsTable == EngineSpec => ImplementsTable
  BY EngineInitInv, EngineStep, EngineInvariant, PTL DEF EngineSpec, ImplementsTable, Table!Spec

(* No bundle is accepted on one signature, whatever is put after the signatures. *)
THEOREM BothSignaturesVerify == EngineSpec => []AcceptedIsDualSigned
<1>1. EngineInv => AcceptedIsDualSigned
  BY VerdictAccepts DEF EngineInv
<1> QED
  BY <1>1, EngineInvariant, PTL

-------------------------------------------------------------------------------
(* The audit log.  A list is a sequence of hashes; Up is a round of root(). *)
List(s) == Len(s) \in Nat /\ s = [i \in 1 .. Len(s) |-> s[i]]
Up(below) == IF Len(below) > 1 THEN Log!Parent(below) ELSE below

(* The levels are those of the loop. *)
LEMMA LevelsAre ==
  ASSUME NEW log, Len(log) \in Nat
  PROVE  /\ Log!Levels(log)[0] = log
         /\ \A n \in 1 .. Len(log) : Log!Levels(log)[n] = Up(Log!Levels(log)[n - 1])
<1> DEFINE Body(f, m) == [n \in 0 .. m |-> IF n = 0 THEN log ELSE Up(f[n - 1])]
           S == {m \in Nat : \E f : f = Body(f, m)}
<1>1. 0 \in S
  <2>1. [n \in 0 .. 0 |-> log] = Body([n \in 0 .. 0 |-> log], 0)
    OBVIOUS
  <2> QED
    BY <2>1
<1>2. ASSUME NEW m \in Nat, m \in S PROVE m + 1 \in S
  <2>1. PICK f : f = Body(f, m)
    BY <1>2
  <2> DEFINE g == [n \in 0 .. m + 1 |-> IF n = m + 1 THEN Up(f[m]) ELSE f[n]]
  <2>2. ASSUME NEW n \in 0 .. m + 1 PROVE g[n] = IF n = 0 THEN log ELSE Up(g[n - 1])
    <3>1. CASE n = 0
      BY <2>1, <3>1
    <3>2. CASE n = m + 1
      BY <3>2
    <3>3. CASE n \in 1 .. m
      <4>1. n \in 0 .. m /\ n # 0 /\ n # m + 1 /\ n - 1 \in 0 .. m + 1 /\ n - 1 # m + 1
        BY <3>3
      <4>2. f[n] = Up(f[n - 1])
        BY <2>1, <4>1
      <4> QED
        BY <4>1, <4>2
    <3> QED
      BY <3>1, <3>2, <3>3
  <2>3. g = Body(g, m + 1)
    BY <2>2
  <2> HIDE DEF g, Body
  <2>4. \E e : e = Body(e, m + 1)
    BY <2>3
  <2> QED
    BY <2>4
<1> HIDE DEF Body
<1>3. Nat \subseteq S
  BY <1>1, <1>2, Induction
<1>4. PICK f : f = Body(f, Len(log))
  BY <1>3
<1>5. Log!Levels(log) = CHOOSE g : g = Body(g, Len(log))
  BY DEF Log!Levels, Up, Body
<1>6. Log!Levels(log) = Body(Log!Levels(log), Len(log))
  BY <1>4, <1>5
<1> QED
  BY <1>6 DEF Body

(* A round over a list of more than one hash. *)
LEMMA ParentIs ==
  ASSUME NEW b, List(b), Len(b) > 1
  PROVE  LET p == Log!Parent(b) IN
         /\ List(p) /\ Len(p) = (Len(b) + 1) \div 2
         /\ \A i \in 1 .. Len(p) :
              \E x, y \in 1 .. Len(b) : p[i] = Log!HashPair(b[x], b[y])
         /\ \A x \in 1 .. Len(b) :
              \E i \in 1 .. Len(p) : p[i].left = b[x] \/ p[i].right = b[x]
<1> DEFINE p == Log!Parent(b)
           h == (Len(b) + 1) \div 2
           Y(i) == IF 2*i <= Len(b) THEN 2*i ELSE 2*i - 1
<1>1. Len(b) \in Nat /\ h \in Nat
  BY DEF List
<1>2. p = [i \in 1 .. h |-> Log!HashPair(b[2*i - 1], b[Y(i)])]
  BY DEF Log!Parent
<1> HIDE DEF p
<1>3. List(p) /\ Len(p) = h
  <2>1. p = [i \in 1 .. h |-> p[i]]
    BY <1>2
  <2> HIDE DEF h
  <2> QED
    BY <1>1, <2>1, FunctionIsSequence DEF List
<1>4. \A i \in 1 .. h : 2*i - 1 \in 1 .. Len(b) /\ Y(i) \in 1 .. Len(b)
  BY <1>1
<1>5. \A x \in 1 .. Len(b) : \E i \in 1 .. h : x = 2*i - 1 \/ (x = Y(i) /\ 2*i <= Len(b))
  <2> SUFFICES ASSUME NEW x \in 1 .. Len(b)
               PROVE  \E i \in 1 .. h : x = 2*i - 1 \/ (x = Y(i) /\ 2*i <= Len(b))
    OBVIOUS
  <2>1. (x + 1) \div 2 \in 1 .. h
    BY <1>1
  <2>2. x = 2 * ((x + 1) \div 2) - 1 \/ x = 2 * ((x + 1) \div 2)
    BY <1>1
  <2> QED
    BY <1>1, <2>1, <2>2
<1> HIDE DEF Y, h
<1>6. \A i \in 1 .. h : p[i] = Log!HashPair(b[2*i - 1], b[Y(i)])
  BY <1>2
<1>7. \A x \in 1 .. Len(b) : \E i \in 1 .. h : p[i].left = b[x] \/ p[i].right = b[x]
  <2>1. \A i \in 1 .. h : p[i].left = b[2*i - 1] /\ p[i].right = b[Y(i)]
    <3> TAKE i \in 1 .. h
    <3>1. p[i] = [left |-> b[2*i - 1], right |-> b[Y(i)]]
      BY <1>6 DEF Log!HashPair
    <3> QED
      BY <3>1
  <2> QED
    BY <1>5, <2>1
<1>8. \A i \in 1 .. h : \E x, y \in 1 .. Len(b) : p[i] = Log!HashPair(b[x], b[y])
  BY <1>4, <1>6
<1> QED
  BY <1>3, <1>7, <1>8 DEF p, h

LEMMA ParentInjective ==
  ASSUME NEW a, List(a), NEW b, List(b), Len(a) = Len(b), Len(a) > 1,
         Log!Parent(a) = Log!Parent(b)
  PROVE  a = b
<1> DEFINE n == Len(a)
           h == (n + 1) \div 2
           Y(i) == IF 2*i <= n THEN 2*i ELSE 2*i - 1
<1>1. n \in Nat /\ h \in Nat
  BY DEF List
<1>2. /\ Log!Parent(a) = [i \in 1 .. h |-> Log!HashPair(a[2*i - 1], a[Y(i)])]
      /\ Log!Parent(b) = [i \in 1 .. h |-> Log!HashPair(b[2*i - 1], b[Y(i)])]
  BY DEF Log!Parent
<1>3. ASSUME NEW i \in 1 .. h PROVE a[2*i - 1] = b[2*i - 1] /\ a[Y(i)] = b[Y(i)]
  <2> HIDE DEF h, Y
  <2>1. Log!HashPair(a[2*i - 1], a[Y(i)]) = Log!HashPair(b[2*i - 1], b[Y(i)])
    BY <1>2
  <2> QED
    BY <2>1 DEF Log!HashPair
<1>4. ASSUME NEW x \in 1 .. n PROVE a[x] = b[x]
  <2>1. (x + 1) \div 2 \in 1 .. h
    BY <1>1
  <2>2. x = 2 * ((x + 1) \div 2) - 1 \/ x = 2 * ((x + 1) \div 2)
    BY <1>1
  <2>3. CASE x = 2 * ((x + 1) \div 2) - 1
    BY <1>3, <2>1, <2>3
  <2>4. CASE x = 2 * ((x + 1) \div 2)
    <3>1. x = Y((x + 1) \div 2)
      BY <1>1, <2>4
    <3> HIDE DEF Y, h
    <3> QED
      BY <1>3, <2>1, <3>1
  <2> QED
    BY <2>2, <2>3, <2>4
<1>5. a = [i \in 1 .. n |-> a[i]] /\ b = [i \in 1 .. n |-> b[i]]
  BY DEF List
<1> HIDE DEF n
<1> QED
  BY <1>4, <1>5

(* The levels of a log that is not empty: lists that get shorter until one hash
   is left, which happens before the levels end. *)
Halved(n) == IF n > 1 THEN (n + 1) \div 2 ELSE n

LEMMA HalvedShrinks ==
  ASSUME NEW n \in Nat, n >= 1
  PROVE  Halved(n) \in Nat /\ Halved(n) >= 1 /\ (Halved(n) = 1 \/ Halved(n) <= n - 1)
  BY DEF Halved

LEMMA LevelsShrink ==
  ASSUME NEW log, List(log), Len(log) >= 1
  PROVE  LET level == Log!Levels(log) IN
         /\ \A n \in 0 .. Len(log) : List(level[n]) /\ Len(level[n]) >= 1
         /\ \A n \in 1 .. Len(log) : Len(level[n]) = Halved(Len(level[n - 1]))
         /\ Len(level[Len(log)]) = 1
<1> DEFINE level == Log!Levels(log)
           m == Len(log)
           P(n) == List(level[n]) /\ Len(level[n]) >= 1 /\ (Len(level[n]) = 1 \/ Len(level[n]) <= m - n)
           S == {n \in Nat : n <= m => P(n)}
<1>1. m \in Nat
  BY DEF List
<1>2. level[0] = log /\ \A n \in 1 .. m : level[n] = Up(level[n - 1])
  BY <1>1, LevelsAre
<1> HIDE DEF level, m
<1>3. 0 \in S
  BY <1>1, <1>2 DEF m
<1>4. ASSUME NEW s, List(s), Len(s) >= 1
      PROVE  List(Up(s)) /\ Len(Up(s)) = Halved(Len(s)) /\ Len(Up(s)) >= 1
  <2>1. CASE Len(s) > 1
    BY <1>4, <2>1, ParentIs DEF Up, Halved, List
  <2>2. CASE ~(Len(s) > 1)
    BY <1>4, <2>2 DEF Up, Halved
  <2> QED
    BY <2>1, <2>2
<1>5. ASSUME NEW n \in Nat, n \in S PROVE n + 1 \in S
  <2> SUFFICES ASSUME n + 1 <= m PROVE P(n + 1)
    OBVIOUS
  <2>1. List(level[n]) /\ Len(level[n]) >= 1 /\ (Len(level[n]) = 1 \/ Len(level[n]) <= m - n)
    BY <1>1, <1>5
  <2>2. level[n + 1] = Up(level[n])
    BY <1>1, <1>2
  <2>3. /\ List(level[n + 1]) /\ Len(level[n + 1]) = Halved(Len(level[n]))
        /\ Len(level[n + 1]) >= 1
    BY <1>4, <2>1, <2>2
  <2>4. Len(level[n]) \in Nat
    BY <2>1 DEF List
  <2>5. Halved(Len(level[n])) = 1 \/ Halved(Len(level[n])) <= m - (n + 1)
    <3>1. CASE Len(level[n]) = 1
      BY <3>1 DEF Halved
    <3>2. CASE Len(level[n]) <= m - n
      <4> DEFINE l == Len(level[n])
      <4>1. l \in Nat /\ l >= 1 /\ l <= m - n
        BY <2>1, <2>4, <3>2
      <4> HIDE DEF l
      <4>2. Halved(l) \in Nat /\ (Halved(l) = 1 \/ Halved(l) <= l - 1)
        BY <4>1, HalvedShrinks
      <4>3. Halved(l) = 1 \/ Halved(l) <= m - (n + 1)
        BY <1>1, <4>1, <4>2
      <4> QED
        BY <4>3 DEF l
    <3> QED
      BY <2>1, <3>1, <3>2
  <2> QED
    BY <2>3, <2>5
<1> HIDE DEF S
<1>6. Nat \subseteq S
  BY <1>3, <1>5, Induction
<1>7. \A n \in 0 .. m : List(level[n]) /\ Len(level[n]) >= 1
  BY <1>1, <1>6 DEF S
<1>8. ASSUME NEW n \in 1 .. m PROVE Len(level[n]) = Halved(Len(level[n - 1]))
  <2>1. n - 1 \in 0 .. m
    BY <1>1
  <2>2. List(level[n - 1]) /\ Len(level[n - 1]) >= 1 /\ level[n] = Up(level[n - 1])
    BY <1>2, <1>7, <2>1
  <2> QED
    BY <1>4, <2>2
<1>9. Len(level[m]) = 1
  <2>1. m \in S /\ Len(level[m]) \in Nat
    BY <1>1, <1>6, <1>7 DEF List
  <2> QED
    BY <1>1, <1>7, <2>1 DEF S
<1> QED
  BY <1>7, <1>8, <1>9 DEF level, m

(* Two logs of one length with one root are the same log: from the last level
   down, a round maps different lists of one length to different lists. *)
LEMMA RootsDiffer ==
  ASSUME NEW a, List(a), NEW b, List(b), Len(a) = Len(b), Len(a) >= 1,
         Log!Root(a) = Log!Root(b)
  PROVE  a = b
<1> DEFINE m == Len(a)
           A == Log!Levels(a)
           B == Log!Levels(b)
           S == {n \in Nat : n <= m => Len(A[n]) = Len(B[n])}
           D == {n \in Nat : n <= m => A[m - n] = B[m - n]}
<1>1. m \in Nat /\ m >= 1 /\ m = Len(b)
  BY DEF List
<1>2. /\ A[0] = a /\ \A n \in 1 .. m : A[n] = Up(A[n - 1])
      /\ B[0] = b /\ \A n \in 1 .. m : B[n] = Up(B[n - 1])
  BY <1>1, LevelsAre
<1>3. /\ \A n \in 0 .. m : List(A[n]) /\ Len(A[n]) >= 1
      /\ \A n \in 1 .. m : Len(A[n]) = Halved(Len(A[n - 1]))
      /\ Len(A[m]) = 1
  BY LevelsShrink
<1>4. /\ \A n \in 0 .. m : List(B[n]) /\ Len(B[n]) >= 1
      /\ \A n \in 1 .. m : Len(B[n]) = Halved(Len(B[n - 1]))
      /\ Len(B[m]) = 1
  BY <1>1, LevelsShrink
<1>5. A[m][1] = B[m][1]
  <2>1. a # <<>> /\ b # <<>>
    BY <1>1
  <2> QED
    BY <1>1, <2>1 DEF Log!Root
<1> HIDE DEF A, B, m
<1>6. Nat \subseteq S
  <2>1. 0 \in S
    BY <1>1, <1>2 DEF m
  <2>2. ASSUME NEW n \in Nat, n \in S PROVE n + 1 \in S
    <3>1. CASE n + 1 <= m
      <4>1. n + 1 \in 1 .. m /\ n <= m
        BY <1>1, <3>1
      <4>2. Len(A[n + 1]) = Halved(Len(A[n])) /\ Len(B[n + 1]) = Halved(Len(B[n]))
        BY <1>3, <1>4, <4>1
      <4> QED
        BY <2>2, <4>1, <4>2
    <3>2. CASE ~(n + 1 <= m)
      BY <3>2
    <3> QED
      BY <3>1, <3>2
  <2> HIDE DEF S
  <2> QED
    BY <2>1, <2>2, Induction
<1>7. Nat \subseteq D
  <2>1. A[m] = B[m]
    <3>1. A[m] = [i \in 1 .. 1 |-> A[m][i]] /\ B[m] = [i \in 1 .. 1 |-> B[m][i]]
      <4>1. List(A[m]) /\ Len(A[m]) = 1 /\ List(B[m]) /\ Len(B[m]) = 1
        BY <1>1, <1>3, <1>4
      <4> QED
        BY <4>1 DEF List
    <3>2. \A i \in 1 .. 1 : A[m][i] = B[m][i]
      BY <1>5
    <3> QED
      BY <3>1, <3>2
  <2>2. 0 \in D
    BY <1>1, <2>1
  <2>3. ASSUME NEW n \in Nat, n \in D PROVE n + 1 \in D
    <3>1. CASE n + 1 <= m
      <4> DEFINE k == m - (n + 1)
      <4>1. k \in 0 .. m /\ k + 1 \in 1 .. m /\ k + 1 = m - n /\ n <= m
        BY <1>1, <3>1
      <4>2. A[k + 1] = B[k + 1]
        BY <2>3, <4>1
      <4> HIDE DEF k
      <4>3. (k + 1) - 1 = k
        BY <1>1, <4>1
      <4>4. Up(A[k]) = Up(B[k])
        BY <1>2, <4>1, <4>2, <4>3
      <4>5. /\ List(A[k]) /\ List(B[k]) /\ Len(A[k]) = Len(B[k])
        BY <1>1, <1>3, <1>4, <1>6, <4>1
      <4>6. A[k] = B[k]
        BY <4>4, <4>5, ParentInjective DEF Up
      <4> QED
        BY <4>6 DEF k
    <3>2. CASE ~(n + 1 <= m)
      BY <3>2
    <3> QED
      BY <3>1, <3>2
  <2> HIDE DEF D
  <2> QED
    BY <2>2, <2>3, Induction
<1>8. A[m - m] = B[m - m] /\ m - m = 0
  BY <1>1, <1>7
<1> QED
  BY <1>2, <1>8

(* The height of the tree: the first level with one hash, which is the last one. *)
HasHeight(log, h) ==
  LET level == Log!Levels(log) IN
  /\ h \in 0 .. Len(log)
  /\ Len(level[h]) = 1 /\ level[Len(log)] = level[h]
  /\ \A n \in 0 .. h - 1 : Len(level[n]) > 1

LEMMA HeightExists ==
  ASSUME NEW log, List(log), Len(log) >= 1
  PROVE  \E h \in Nat : HasHeight(log, h)
<1> DEFINE level == Log!Levels(log)
           m == Len(log)
           T == {n \in 0 .. m : Len(level[n]) = 1}
<1>1. m \in Nat /\ m >= 1
  BY DEF List
<1>2. \A n \in 1 .. m : level[n] = Up(level[n - 1])
  BY <1>1, LevelsAre
<1>3. /\ \A n \in 0 .. m : List(level[n]) /\ Len(level[n]) >= 1
      /\ Len(level[m]) = 1
  BY LevelsShrink
<1> HIDE DEF level, m
<1>4. T \in SUBSET Nat /\ T # {}
  BY <1>1, <1>3
<1>5. PICK h \in T : \A n \in T : h <= n
  BY <1>4, Least
<1>6. h \in 0 .. m /\ Len(level[h]) = 1
  BY <1>5
<1>7. ASSUME NEW n \in 0 .. h - 1 PROVE Len(level[n]) > 1
  <2>1. n \in 0 .. m /\ n \notin T
    BY <1>1, <1>5
  <2>2. Len(level[n]) # 1 /\ Len(level[n]) >= 1 /\ Len(level[n]) \in Nat
    BY <1>3, <2>1 DEF List
  <2>3. \A k \in Nat : k # 1 /\ k >= 1 => k > 1
    OBVIOUS
  <2> QED
    BY <2>2, <2>3
<1>8. level[m] = level[h]
  <2> DEFINE S == {n \in Nat : h + n <= m => level[h + n] = level[h]}
  <2>1. 0 \in S
    BY <1>6
  <2>2. ASSUME NEW n \in Nat, n \in S PROVE n + 1 \in S
    <3>1. CASE h + (n + 1) <= m
      <4>1. h + (n + 1) \in 1 .. m /\ (h + (n + 1)) - 1 = h + n /\ h + n <= m
        BY <1>1, <1>6, <3>1
      <4>2. level[h + (n + 1)] = Up(level[h + n])
        BY <1>2, <4>1
      <4>3. level[h + n] = level[h]
        BY <2>2, <4>1
      <4>4. Up(level[h]) = level[h]
        BY <1>6 DEF Up
      <4>5. level[h + (n + 1)] = level[h]
        BY <4>2, <4>3, <4>4
      <4> QED
        BY <4>5
    <3>2. CASE ~(h + (n + 1) <= m)
      BY <3>2
    <3> QED
      BY <3>1, <3>2
  <2> HIDE DEF S
  <2>3. Nat \subseteq S
    BY <2>1, <2>2, Induction
  <2>4. m - h \in Nat /\ h + (m - h) = m
    BY <1>1, <1>6
  <2> QED
    BY <2>3, <2>4 DEF S
<1>9. h \in Nat
  BY <1>6
<1> QED
  BY <1>6, <1>7, <1>8, <1>9 DEF HasHeight, level, m

(* What occurs in a list is what the pairs of the next level are made of. *)
Occurs(s) == {s[i] : i \in 1 .. Len(s)}
Parts(T) == UNION {{x.left, x.right} : x \in T}

LEMMA PartsOfParent ==
  ASSUME NEW b, List(b), Len(b) > 1
  PROVE  Occurs(b) = Parts(Occurs(Log!Parent(b)))
<1> DEFINE p == Log!Parent(b)
<1>1. /\ \A i \in 1 .. Len(p) : \E x, y \in 1 .. Len(b) : p[i] = Log!HashPair(b[x], b[y])
      /\ \A x \in 1 .. Len(b) : \E i \in 1 .. Len(p) : p[i].left = b[x] \/ p[i].right = b[x]
  BY ParentIs
<1> HIDE DEF p
<1>2. ASSUME NEW x \in 1 .. Len(b) PROVE b[x] \in Parts(Occurs(p))
  <2>1. PICK i \in 1 .. Len(p) : p[i].left = b[x] \/ p[i].right = b[x]
    BY <1>1
  <2>2. p[i] \in Occurs(p)
    BY DEF Occurs
  <2> QED
    BY <2>1, <2>2 DEF Parts
<1>3. ASSUME NEW i \in 1 .. Len(p) PROVE p[i].left \in Occurs(b) /\ p[i].right \in Occurs(b)
  <2>1. PICK x \in 1 .. Len(b), y \in 1 .. Len(b) : p[i] = Log!HashPair(b[x], b[y])
    BY <1>1
  <2>2. p[i].left = b[x] /\ p[i].right = b[y]
    BY <2>1 DEF Log!HashPair
  <2> QED
    BY <2>2 DEF Occurs
<1>4. Occurs(b) \subseteq Parts(Occurs(p))
  BY <1>2 DEF Occurs
<1>5. Parts(Occurs(p)) \subseteq Occurs(b)
  <2>1. \A x \in Occurs(p) : x.left \in Occurs(b) /\ x.right \in Occurs(b)
    BY <1>3 DEF Occurs
  <2> QED
    BY <2>1 DEF Parts
<1> QED
  BY <1>4, <1>5 DEF p

(* Below its height, every level is made from the next one; above 0, it is pairs. *)
LEMMA LevelParts ==
  ASSUME NEW log, List(log), Len(log) >= 1, NEW h, HasHeight(log, h), NEW n \in 1 .. h
  PROVE  LET level == Log!Levels(log) IN
         /\ Occurs(level[n - 1]) = Parts(Occurs(level[n]))
         /\ 1 \in 1 .. Len(level[n]) /\ \E x, y : level[n][1] = Log!HashPair(x, y)
<1> DEFINE level == Log!Levels(log)
<1>1. h \in 0 .. Len(log) /\ Len(log) \in Nat /\ \A i \in 0 .. h - 1 : Len(level[i]) > 1
  BY DEF HasHeight, List
<1>2. n \in 1 .. Len(log) /\ n - 1 \in 0 .. h - 1 /\ n - 1 \in 0 .. Len(log) /\ n \in 0 .. Len(log)
  BY <1>1
<1>3. /\ level[n] = Up(level[n - 1])
      /\ List(level[n - 1]) /\ List(level[n]) /\ Len(level[n]) >= 1 /\ Len(level[n - 1]) > 1
  BY <1>1, <1>2, LevelsAre, LevelsShrink
<1> HIDE DEF level
<1>4. level[n] = Log!Parent(level[n - 1])
  BY <1>3 DEF Up
<1>5. 1 \in 1 .. Len(level[n])
  BY <1>3 DEF List
<1>6. \E x, y : level[n][1] = Log!HashPair(x, y)
  <2> DEFINE b == level[n - 1]
  <2>1. List(b) /\ Len(b) > 1 /\ 1 \in 1 .. Len(Log!Parent(b))
    BY <1>3, <1>4, <1>5
  <2> HIDE DEF b
  <2>2. \E x, y \in 1 .. Len(b) : Log!Parent(b)[1] = Log!HashPair(b[x], b[y])
    BY <2>1, ParentIs
  <2> QED
    BY <1>4, <2>2 DEF b
<1> QED
  BY <1>3, <1>4, <1>5, <1>6, PartsOfParent DEF level

OnlyLeaves(s) == \A i \in 1 .. Len(s) : \E e : s[i] = Log!HashBytes(e)

LEMMA HashesDiffer ==
  ASSUME NEW e, NEW x, NEW y
  PROVE  /\ Log!HashBytes(e) # Log!HashPair(x, y)
         /\ Log!Zero # Log!HashBytes(e) /\ Log!Zero # Log!HashPair(x, y)
<1>1. /\ DOMAIN Log!HashBytes(e) = {"entry"}
      /\ DOMAIN Log!HashPair(x, y) = {"left", "right"}
      /\ DOMAIN Log!Zero = {"zero"}
  BY DEF Log!HashBytes, Log!HashPair, Log!Zero
<1>2. {"entry"} # {"left", "right"} /\ {"zero"} # {"entry"} /\ {"zero"} # {"left", "right"}
  OBVIOUS
<1> QED
  BY <1>1, <1>2

LEMMA HalvedMonotone ==
  ASSUME NEW x \in Nat, NEW y \in Nat, x <= y
  PROVE  Halved(x) <= Halved(y)
  BY DEF Halved

(* Logs with one root have one height and the same entries: level by level, from
   the root down, the same hashes occur in both trees. *)
LEMMA RootDetermines ==
  ASSUME NEW a, List(a), Len(a) >= 1, OnlyLeaves(a),
         NEW b, List(b), Len(b) >= 1, OnlyLeaves(b),
         Log!Root(a) = Log!Root(b),
         NEW g \in Nat, HasHeight(a, g), NEW h \in Nat, HasHeight(b, h)
  PROVE  g = h /\ Occurs(a) = Occurs(b)
<1> DEFINE A == Log!Levels(a)
           B == Log!Levels(b)
           S == {n \in Nat : n <= g /\ n <= h => Occurs(A[g - n]) = Occurs(B[h - n])}
<1>1. A[0] = a /\ B[0] = b
  BY LevelsAre DEF List
<1>2. /\ \A n \in 1 .. g : /\ Occurs(A[n - 1]) = Parts(Occurs(A[n]))
                          /\ 1 \in 1 .. Len(A[n]) /\ \E x, y : A[n][1] = Log!HashPair(x, y)
      /\ \A n \in 1 .. h : /\ Occurs(B[n - 1]) = Parts(Occurs(B[n]))
                          /\ 1 \in 1 .. Len(B[n]) /\ \E x, y : B[n][1] = Log!HashPair(x, y)
  BY LevelParts
<1>3. Len(A[g]) = 1 /\ Len(B[h]) = 1 /\ A[g][1] = B[h][1]
  <2>1. a # <<>> /\ b # <<>>
    OBVIOUS
  <2> QED
    BY <2>1 DEF Log!Root, HasHeight
<1> HIDE DEF A, B
<1>4. 0 \in S
  BY <1>3 DEF Occurs
<1>5. ASSUME NEW n \in Nat, n \in S PROVE n + 1 \in S
  <2>1. CASE n + 1 <= g /\ n + 1 <= h
    <3>1. g - n \in 1 .. g /\ h - n \in 1 .. h /\ n <= g /\ n <= h
      BY <2>1
    <3>2. Occurs(A[g - n]) = Occurs(B[h - n])
      BY <1>5, <3>1
    <3>3. Occurs(A[(g - n) - 1]) = Occurs(B[(h - n) - 1])
      BY <1>2, <3>1, <3>2
    <3>4. (g - n) - 1 = g - (n + 1) /\ (h - n) - 1 = h - (n + 1)
      OBVIOUS
    <3> QED
      BY <3>3, <3>4
  <2>2. CASE ~(n + 1 <= g /\ n + 1 <= h)
    BY <2>2
  <2> QED
    BY <2>1, <2>2
<1> HIDE DEF S
<1>6. Nat \subseteq S
  BY <1>4, <1>5, Induction
<1>7. ~(g > h)
  <2> SUFFICES ASSUME g > h PROVE FALSE
    OBVIOUS
  <2>1. g - h \in 1 .. g /\ h - h = 0 /\ h <= g /\ h <= h
    OBVIOUS
  <2>2. Occurs(A[g - h]) = Occurs(b)
    BY <1>1, <1>6, <2>1 DEF S
  <2>3. PICK x, y : A[g - h][1] = Log!HashPair(x, y)
    BY <1>2, <2>1
  <2>4. Log!HashPair(x, y) \in Occurs(b)
    BY <1>2, <2>1, <2>2, <2>3 DEF Occurs
  <2> QED
    BY <2>4, HashesDiffer DEF OnlyLeaves, Occurs
<1>8. ~(h > g)
  <2> SUFFICES ASSUME h > g PROVE FALSE
    OBVIOUS
  <2>1. h - g \in 1 .. h /\ g - g = 0 /\ g <= h /\ g <= g
    OBVIOUS
  <2>2. Occurs(B[h - g]) = Occurs(a)
    BY <1>1, <1>6, <2>1 DEF S
  <2>3. PICK x, y : B[h - g][1] = Log!HashPair(x, y)
    BY <1>2, <2>1
  <2>4. Log!HashPair(x, y) \in Occurs(a)
    BY <1>2, <2>1, <2>2, <2>3 DEF Occurs
  <2> QED
    BY <2>4, HashesDiffer DEF OnlyLeaves, Occurs
<1>9. g = h
  BY <1>7, <1>8
<1>10. Occurs(A[g - g]) = Occurs(B[h - h]) /\ g - g = 0 /\ h - h = 0
  BY <1>6, <1>9 DEF S
<1> QED
  BY <1>1, <1>9, <1>10

(* A log at least twice as long has a higher tree. *)
LEMMA TwiceIsHigher ==
  ASSUME NEW a, List(a), NEW b, List(b), Len(b) >= 1, Len(a) > Len(b),
         NEW h \in Nat, HasHeight(a, h), HasHeight(b, h)
  PROVE  Len(a) < 2 * Len(b)
<1> DEFINE m == Len(a)
           n == Len(b)
           A == Log!Levels(a)
           B == Log!Levels(b)
           S == {i \in Nat : i < m /\ i <= n => Len(B[i]) <= Len(A[i + 1])}
<1>1. m \in Nat /\ n \in Nat /\ m > n /\ n >= 1 /\ m >= 1
  BY DEF List
<1>2. /\ A[0] = a /\ B[0] = b
      /\ \A i \in 1 .. m : Len(A[i]) = Halved(Len(A[i - 1]))
      /\ \A i \in 1 .. n : Len(B[i]) = Halved(Len(B[i - 1]))
      /\ \A i \in 0 .. m : Len(A[i]) \in Nat
      /\ \A i \in 0 .. n : Len(B[i]) \in Nat
  BY <1>1, LevelsAre, LevelsShrink DEF List
<1>3. /\ h \in 0 .. m /\ h \in 0 .. n /\ Len(A[h]) = 1
      /\ \A i \in 0 .. h - 1 : Len(B[i]) > 1
  BY DEF HasHeight
<1>4. Len(A[0]) = m /\ Len(B[0]) = n
  BY <1>2
<1> HIDE DEF A, B, m, n
<1>5. SUFFICES ASSUME m >= 2 * n PROVE FALSE
  BY <1>1 DEF m, n
<1>6. h >= 1
  <2>1. ASSUME h = 0 PROVE FALSE
    <3>1. m = 1
      BY <1>3, <1>4, <2>1
    <3> QED
      BY <1>1, <3>1
  <2> QED
    BY <2>1
<1>7. 0 \in S
  <2>1. 1 \in 1 .. m /\ 1 - 1 = 0
    BY <1>1
  <2>2. Len(A[1]) = Halved(m)
    BY <1>2, <1>4, <2>1
  <2>3. Halved(m) >= n
    BY <1>1, <1>5 DEF Halved
  <2>4. 0 + 1 = 1
    OBVIOUS
  <2> QED
    BY <1>4, <2>2, <2>3, <2>4
<1>8. ASSUME NEW i \in Nat, i \in S PROVE i + 1 \in S
  <2>1. CASE i + 1 < m /\ i + 1 <= n
    <3>1. /\ (i + 1) + 1 \in 1 .. m /\ ((i + 1) + 1) - 1 = i + 1 /\ i + 1 \in 0 .. m
          /\ i + 1 \in 1 .. n /\ (i + 1) - 1 = i /\ i \in 0 .. n /\ i < m /\ i <= n
      BY <1>1, <2>1
    <3>2. Len(A[(i + 1) + 1]) = Halved(Len(A[i + 1])) /\ Len(B[i + 1]) = Halved(Len(B[i]))
      BY <1>2, <3>1
    <3>3. Len(B[i]) <= Len(A[i + 1]) /\ Len(B[i]) \in Nat /\ Len(A[i + 1]) \in Nat
      BY <1>2, <1>8, <3>1
    <3>4. Halved(Len(B[i])) <= Halved(Len(A[i + 1]))
      BY <3>3, HalvedMonotone
    <3> QED
      BY <3>2, <3>4
  <2>2. CASE ~(i + 1 < m /\ i + 1 <= n)
    BY <2>2
  <2> QED
    BY <2>1, <2>2
<1> HIDE DEF S
<1>9. Nat \subseteq S
  BY <1>7, <1>8, Induction
<1>10. h - 1 \in Nat /\ h - 1 < m /\ h - 1 <= n /\ (h - 1) + 1 = h /\ h - 1 \in 0 .. h - 1 /\ h - 1 \in 0 .. n
  BY <1>1, <1>3, <1>6
<1>11. Len(B[h - 1]) <= 1 /\ Len(B[h - 1]) > 1 /\ Len(B[h - 1]) \in Nat
  BY <1>2, <1>3, <1>9, <1>10 DEF S
<1> QED
  BY <1>11

-------------------------------------------------------------------------------
(* What LeavesInv says of a log in these terms. *)
LEMMA LeavesAreList ==
  ASSUME NEW s, s \in Seq(Log!Leaf)
  PROVE  List(s) /\ OnlyLeaves(s) /\ ToSet(s) = Occurs(s) /\ DOMAIN s = 1 .. Len(s)
<1>1. Len(s) \in Nat /\ DOMAIN s = 1 .. Len(s) /\ \A i \in 1 .. Len(s) : s[i] \in Log!Leaf
  BY LenProperties, ElementOfSeq
<1>2. s = [i \in 1 .. Len(s) |-> s[i]]
  BY LenProperties
<1>3. OnlyLeaves(s)
  BY <1>1 DEF OnlyLeaves, Log!Leaf
<1> QED
  BY <1>1, <1>2, <1>3 DEF List, ToSet, Occurs

(* The root of a log that is not empty is not that of the empty log. *)
LEMMA RootIsNotZero ==
  ASSUME NEW s, List(s), OnlyLeaves(s), Len(s) >= 1
  PROVE  Log!Root(s) # Log!Zero
<1> DEFINE level == Log!Levels(s)
<1>1. PICK h \in Nat : HasHeight(s, h)
  BY HeightExists
<1>2. s # <<>>
  OBVIOUS
<1>3. Log!Root(s) = level[h][1]
  BY <1>1, <1>2 DEF Log!Root, HasHeight
<1>4. CASE h = 0
  <2>1. level[0] = s /\ 1 \in 1 .. Len(s)
    BY LevelsAre DEF List
  <2> QED
    BY <1>3, <1>4, <2>1, HashesDiffer DEF OnlyLeaves
<1>5. CASE h # 0
  <2>1. h \in 1 .. h
    BY <1>5
  <2>2. \E x, y : level[h][1] = Log!HashPair(x, y)
    BY <1>1, <2>1, LevelParts
  <2> QED
    BY <1>3, <2>2, HashesDiffer
<1> QED
  BY <1>4, <1>5

(* However long the log is, no other log of its length has its root. *)
THEOREM TamperingShows == EngineSpec => []TamperEvident
<1>1. EngineInv => TamperEvident
  <2> SUFFICES ASSUME EngineInv, NEW other \in [DOMAIN leaves -> Log!Leaf],
                      Log!Root(other) = Log!Root(leaves)
               PROVE  other = leaves
    BY DEF TamperEvident, Log!TamperEvident
  <2>1. leaves \in Seq(Log!Leaf)
    BY DEF EngineInv, LeavesInv
  <2>2. List(leaves) /\ DOMAIN leaves = 1 .. Len(leaves) /\ Len(leaves) \in Nat
    BY <2>1, LeavesAreList DEF List
  <2>3. other = [i \in 1 .. Len(leaves) |-> other[i]]
    BY <2>2
  <2>4. Len(other) = Len(leaves)
    BY <2>2, <2>3, FunctionIsSequence
  <2>5. List(other)
    BY <2>2, <2>3, <2>4 DEF List
  <2>6. CASE Len(leaves) >= 1
    BY <2>2, <2>4, <2>5, <2>6, RootsDiffer
  <2>7. CASE ~(Len(leaves) >= 1)
    <3>1. 1 .. Len(leaves) = {}
      BY <2>2, <2>7
    <3>2. leaves = [i \in 1 .. Len(leaves) |-> leaves[i]]
      BY <2>2 DEF List
    <3>3. \A i \in 1 .. Len(leaves) : leaves[i] = other[i]
      BY <3>1
    <3> QED
      BY <2>3, <3>2, <3>3
  <2> QED
    BY <2>6, <2>7
<1> QED
  BY <1>1, EngineInvariant, PTL

(* However long the log is, what is cut off its end with the root unchanged is
   less than half of it, and only entries that what is left holds as well. *)
THEOREM TruncationShows == EngineSpec => []TruncationEvident
<1>1. EngineInv => TruncationEvident
  <2> SUFFICES ASSUME EngineInv, NEW n \in 0 .. Len(leaves) - 1,
                      Log!Root(SubSeq(leaves, 1, n)) = Log!Root(leaves)
               PROVE  Len(leaves) < 2 * n /\ ToSet(leaves) = ToSet(SubSeq(leaves, 1, n))
    BY DEF TruncationEvident, Log!TruncationEvident, Log!ToSet, ToSet
  <2> DEFINE kept == SubSeq(leaves, 1, n)
  <2>1. leaves \in Seq(Log!Leaf)
    BY DEF EngineInv, LeavesInv
  <2>2. List(leaves) /\ OnlyLeaves(leaves) /\ ToSet(leaves) = Occurs(leaves) /\ Len(leaves) \in Nat
    BY <2>1, LeavesAreList DEF List
  <2>3. kept \in Seq(Log!Leaf) /\ Len(kept) = n
    BY <2>1, <2>2, SubSeqProperties
  <2>4. List(kept) /\ OnlyLeaves(kept) /\ ToSet(kept) = Occurs(kept)
    BY <2>3, LeavesAreList
  <2>5. n \in Nat /\ Len(leaves) > n /\ Len(leaves) >= 1
    BY <2>2
  <2>6. n >= 1
    <3>1. CASE n = 0
      <4>1. kept = <<>>
        BY <2>3, <3>1, EmptySeq
      <4>2. Log!Root(kept) = Log!Zero
        BY <4>1 DEF Log!Root
      <4> QED
        BY <2>2, <2>5, <4>2, RootIsNotZero
    <3> QED
      BY <2>5, <3>1
  <2>7. PICK g \in Nat : HasHeight(leaves, g)
    BY <2>2, <2>5, HeightExists
  <2>8. PICK h \in Nat : HasHeight(kept, h)
    BY <2>3, <2>4, <2>6, HeightExists
  <2> HIDE DEF kept
  <2>9. Log!Root(leaves) = Log!Root(kept)
    BY DEF kept
  <2>10. g = h /\ Occurs(leaves) = Occurs(kept)
    BY <2>2, <2>3, <2>4, <2>5, <2>6, <2>7, <2>8, <2>9, RootDetermines
  <2>11. Len(leaves) < 2 * Len(kept)
    BY <2>2, <2>3, <2>4, <2>5, <2>6, <2>7, <2>8, <2>10, TwiceIsHigher
  <2> QED
    BY <2>2, <2>3, <2>4, <2>10, <2>11 DEF kept
<1> QED
  BY <1>1, EngineInvariant, PTL

-------------------------------------------------------------------------------
(* What a well-formed command line asks for, up to a position of the loop. *)
LocksBefore(a) ==
  {l \in Layer : \E i \in DOMAIN args :
     i < a /\ Option(i) /\ args[i] = "--lock" /\ ParseLayer(args[i + 1]) = l}

SetFor(i, k, l) ==
  /\ Option(i) /\ args[i] = "--set" /\ args[i + 1] \in DOMAIN SplitOnce
  /\ ParseLayer(SplitOnce[args[i + 1]].layer) = l /\ KeyAt(i) = k

SetsBefore(a, k, l) == {i \in DOMAIN args : i < a /\ SetFor(i, k, l)}

CellAsked(a, k, l) ==
  IF SetsBefore(a, k, l) = {} THEN Unset
  ELSE [value |-> SplitOnce[args[Max(SetsBefore(a, k, l)) + 1]].value, locked |-> l \in locks]

(* What the report has to be, for the layer that decides. *)
Asking(l) == {i \in DOMAIN args : Says(i, l)}
Reported ==
  /\ (\A l \in Layer : Asking(l) = {}) => report.exit = 1
  /\ \A top \in Layer :
       Asking(top) # {} /\ (\A l \in Layer : l > top => Asking(l) = {}) =>
         /\ report.exit = 0 /\ report.source = top
         /\ report.value = SplitOnce[args[Max(Asking(top)) + 1]].value
         /\ report.locked = (top \in LocksBefore(Len(args) + 1))

ReadInv ==
  /\ pass # 1 => use = "command"
  /\ use = "command" /\ WellFormed =>
       /\ pass = 1 => /\ values = [k \in Key |-> <<>>] /\ key = NoKey
                      /\ locks = LocksBefore(at)
       /\ pass = 2 => /\ locks = LocksBefore(Len(args) + 1)
                      /\ key = KeyAt(at - 1)
                      /\ \A k \in Key, l \in Layer : Cells(values[k])[l] = CellAsked(at, k, l)
       /\ pass = 3 => Reported

LEMMA MaxIs ==
  ASSUME NEW T \in SUBSET Nat, NEW m \in T, \A n \in T : n <= m
  PROVE  Max(T) = m
<1>1. \A x \in T : (\A y \in T : x >= y) => x = m
  OBVIOUS
<1>2. \A y \in T : m >= y
  OBVIOUS
<1> QED
  BY <1>1, <1>2 DEF Max

(* The key in force changes at a --key option, and nowhere else. *)
LEMMA KeyAtSkips ==
  ASSUME NEW i \in Nat, i >= 1, ~(Option(i) /\ args[i] = "--key")
  PROVE  KeyAt(i) = KeyAt(i - 1)
<1>1. {j \in 1 .. i : Option(j) /\ args[j] = "--key"} = {j \in 1 .. i - 1 : Option(j) /\ args[j] = "--key"}
  <2>1. 1 .. i = (1 .. i - 1) \cup {i}
    OBVIOUS
  <2> QED
    BY <2>1
<1> QED
  BY <1>1 DEF KeyAt

LEMMA KeyAtReads ==
  ASSUME NEW i \in Nat, i >= 1, Option(i), args[i] = "--key"
  PROVE  KeyAt(i) = args[i + 1]
<1> DEFINE T == {j \in 1 .. i : Option(j) /\ args[j] = "--key"}
<1>1. T \in SUBSET Nat /\ i \in T /\ \A n \in T : n <= i
  OBVIOUS
<1> HIDE DEF T
<1>2. Max(T) = i /\ T # {}
  BY <1>1, MaxIs
<1>3. KeyAt(i) = IF T = {} THEN NoKey ELSE args[Max(T) + 1]
  BY DEF KeyAt, T
<1> QED
  BY <1>2, <1>3

(* In a well-formed line an option is followed by a word that is none. *)
LEMMA OptionsAlternate ==
  ASSUME WellFormed, args \in Seq(STRING), NEW i \in DOMAIN args,
         args[i] \in {"--key", "--set", "--lock"}
  PROVE  Option(i) /\ i + 1 \in DOMAIN args /\ ~Option(i + 1) /\ i \in Nat /\ i >= 1
<1>1. Len(args) \in Nat /\ DOMAIN args = 1 .. Len(args)
  BY LenProperties
<1>2. i % 2 = 1 /\ Len(args) % 2 = 0
  BY DEF WellFormed
<1>3. i + 1 \in DOMAIN args
  BY <1>1, <1>2
<1>4. (i + 1) % 2 # 1
  BY <1>1, <1>2
<1> QED
  BY <1>1, <1>2, <1>3, <1>4 DEF Option

(* One position further. *)
LEMMA SetsNext ==
  ASSUME args \in Seq(STRING), NEW a \in Nat, NEW k, NEW l
  PROVE  SetsBefore(a + 1, k, l) =
           SetsBefore(a, k, l) \cup (IF a \in DOMAIN args /\ SetFor(a, k, l) THEN {a} ELSE {})
<1>1. \A i \in DOMAIN args : i \in Nat
  BY LenProperties
<1>2. \A i \in DOMAIN args : i < a + 1 <=> i < a \/ i = a
  BY <1>1
<1> QED
  BY <1>1, <1>2 DEF SetsBefore

LEMMA LocksNext ==
  ASSUME args \in Seq(STRING), NEW a \in DOMAIN args
  PROVE  LocksBefore(a + 1) =
           LocksBefore(a) \cup {l \in Layer : /\ Option(a) /\ args[a] = "--lock"
                                              /\ ParseLayer(args[a + 1]) = l}
<1>1. \A i \in DOMAIN args : i \in Nat
  BY LenProperties
<1>2. \A i \in DOMAIN args : i < a + 1 <=> i < a \/ i = a
  BY <1>1
<1> QED
  BY <1>2 DEF LocksBefore

LEMMA ReadInit == CmdInit => ReadInv
<1> SUFFICES ASSUME CmdInit PROVE ReadInv
  OBVIOUS
<1>1. pass = 1 /\ values = [k \in Key |-> <<>>] /\ key = NoKey /\ locks = {} /\ at = 1
  BY DEF CmdInit, Init
<1>2. LocksBefore(1) = {}
  <2>1. args \in Seq(STRING)
    BY CmdInitInv DEF CmdInv
  <2>2. \A i \in DOMAIN args : ~(i < 1)
    BY <2>1, LenProperties
  <2> QED
    BY <2>2 DEF LocksBefore
<1> QED
  BY <1>1, <1>2 DEF ReadInv

(* Whatever is asked is a cell. *)
LEMMA AskedIsCell ==
  ASSUME CmdInv, NEW a \in Nat, NEW k \in Key, NEW l \in Layer, SetsBefore(a, k, l) # {}
  PROVE  CellAsked(a, k, l) # Unset
<1> DEFINE T == SetsBefore(a, k, l)
<1>1. T \in SUBSET Nat /\ \A n \in T : n <= a
  <2>1. \A i \in DOMAIN args : i \in Nat
    BY LenProperties DEF CmdInv
  <2> QED
    BY <2>1 DEF SetsBefore
<1>2. PICK m \in T : \A n \in T : n <= m
  <2> HIDE DEF T
  <2> QED
    BY <1>1, Greatest DEF T
<1>3. Max(T) = m
  <2> HIDE DEF T
  <2> QED
    BY <1>1, <1>2, MaxIs
<1>4. args[m + 1] \in DOMAIN SplitOnce
  BY <1>2 DEF SetsBefore, SetFor
<1>5. SplitOnce[args[m + 1]].value \in ValueOf[k]
  BY <1>4, WordsAssumption
<1>6. CellAsked(a, k, l) = [value |-> SplitOnce[args[m + 1]].value, locked |-> l \in locks]
  BY <1>3 DEF CellAsked
<1> DEFINE b == l \in locks
<1>7. b \in BOOLEAN
  OBVIOUS
<1>8. CellAsked(a, k, l) = [value |-> SplitOnce[args[m + 1]].value, locked |-> b]
  BY <1>6
<1> HIDE DEF b
<1>9. CellAsked(a, k, l) \in [value : ValueOf[k], locked : BOOLEAN]
  BY <1>5, <1>7, <1>8
<1> QED
  BY <1>9, UnsetAssumption

(* Nothing but the arguments and the locks decides what is asked. *)
LEMMA SameLine ==
  ASSUME args' = args
  PROVE  /\ WellFormed' <=> WellFormed
         /\ \A i : KeyAt(i)' = KeyAt(i)
         /\ \A a : LocksBefore(a)' = LocksBefore(a)
         /\ \A a, k, l : SetsBefore(a, k, l)' = SetsBefore(a, k, l)
<1>1. \A i : Option(i)' <=> Option(i)
  BY DEF Option
<1>2. \A i : KeyAt(i)' = KeyAt(i)
  BY <1>1 DEF KeyAt
<1>3. \A i, k, l : SetFor(i, k, l)' <=> SetFor(i, k, l)
  BY <1>1, <1>2 DEF SetFor
<1>4. \A a, k, l : SetsBefore(a, k, l)' = SetsBefore(a, k, l)
  BY <1>3 DEF SetsBefore
<1>5. \A a : LocksBefore(a)' = LocksBefore(a)
  BY <1>1 DEF LocksBefore
<1>6. WellFormed' <=> WellFormed
  BY DEF WellFormed
<1> QED
  BY <1>2, <1>4, <1>5, <1>6

LEMMA CollectsLocks ==
  ASSUME CmdInv, WellFormed, locks = LocksBefore(at), CollectLock
  PROVE  locks' = LocksBefore(at + 1)
<1> DEFINE p == ParseLayer(args[at + 1])
<1>1. Len(args) \in Nat /\ DOMAIN args = 1 .. Len(args) /\ args \in Seq(STRING)
  BY LenProperties DEF CmdInv
<1>2. at \in DOMAIN args
  BY <1>1 DEF CollectLock, Reading, Has, CmdInv
<1>3. p \in Layer \/ (p = NoLayer /\ p \notin Layer)
  <2>1. NoLayer \notin Layer
    BY DEF NoLayer, Layer
  <2> QED
    BY <2>1, ParseLayerIs
<1> HIDE DEF p
<1>4. LocksBefore(at + 1) =
        LocksBefore(at) \cup {l \in Layer : Option(at) /\ args[at] = "--lock" /\ p = l}
  BY <1>1, <1>2, LocksNext DEF p
<1>5. CASE args[at] = "--lock"
  <2>1. Option(at) /\ Has(at + 1)
    BY <1>1, <1>2, <1>5, OptionsAlternate DEF Has
  <2>2. locks' = IF p # NoLayer THEN locks \cup {p} ELSE locks
    BY <1>5, <2>1 DEF CollectLock, p
  <2>3. NoLayer \notin Layer
    BY DEF NoLayer, Layer
  <2> QED
    BY <1>3, <1>4, <1>5, <2>1, <2>2, <2>3
<1>6. CASE args[at] # "--lock"
  BY <1>4, <1>6 DEF CollectLock
<1> QED
  BY <1>5, <1>6

LEMMA StartsReading ==
  ASSUME CmdInv, WellFormed, NextPass, locks = LocksBefore(at), key = NoKey,
         values = [k \in Key |-> <<>>]
  PROVE  /\ locks = LocksBefore(Len(args) + 1)
         /\ key = KeyAt(0)
         /\ \A k \in Key, l \in Layer : Cells(values[k])[l] = CellAsked(1, k, l)
<1>1. Len(args) \in Nat /\ DOMAIN args = 1 .. Len(args) /\ args \in Seq(STRING)
  BY LenProperties DEF CmdInv
<1>2. at > Len(args) /\ at \in Nat
  BY <1>1 DEF NextPass, Has, CmdInv
<1>3. LocksBefore(at) = LocksBefore(Len(args) + 1)
  <2>1. \A i \in DOMAIN args : i < at /\ i < Len(args) + 1
    BY <1>1, <1>2
  <2> QED
    BY <2>1 DEF LocksBefore
<1>4. KeyAt(0) = NoKey
  BY DEF KeyAt
<1>5. \A k, l : SetsBefore(1, k, l) = {}
  BY <1>1 DEF SetsBefore
<1>6. \A l \in Layer : Cells(<<>>)[l] = Unset
  BY DEF Cells
<1> QED
  BY <1>3, <1>4, <1>5, <1>6 DEF CellAsked

(* Nothing is set between two positions that are no --set options. *)
LEMMA SkipsSets ==
  ASSUME args \in Seq(STRING), NEW a \in Nat,
         a \in DOMAIN args => ~(Option(a) /\ args[a] = "--set")
  PROVE  \A k, l : CellAsked(a + 1, k, l) = CellAsked(a, k, l)
<1>1. \A k, l : SetsBefore(a + 1, k, l) = SetsBefore(a, k, l)
  <2> TAKE k, l
  <2>1. ~(a \in DOMAIN args /\ SetFor(a, k, l))
    BY DEF SetFor
  <2>2. SetsBefore(a + 1, k, l) =
          SetsBefore(a, k, l) \cup (IF a \in DOMAIN args /\ SetFor(a, k, l) THEN {a} ELSE {})
    BY SetsNext
  <2> QED
    BY <2>1, <2>2
<1> QED
  BY <1>1 DEF CellAsked

LEMMA ReadsKey ==
  ASSUME CmdInv, WellFormed, ReadKey, key = KeyAt(at - 1)
  PROVE  /\ key' = KeyAt(at + 1)
         /\ \A k, l : CellAsked(at + 2, k, l) = CellAsked(at, k, l)
<1>1. Len(args) \in Nat /\ DOMAIN args = 1 .. Len(args) /\ args \in Seq(STRING)
  BY LenProperties DEF CmdInv
<1>2. at \in DOMAIN args /\ args[at] = "--key"
  BY <1>1 DEF ReadKey, Reading, Has, CmdInv
<1>3. Option(at) /\ at + 1 \in DOMAIN args /\ ~Option(at + 1) /\ at \in Nat /\ at >= 1
  BY <1>1, <1>2, OptionsAlternate
<1>4. key' = args[at + 1]
  BY <1>1, <1>3 DEF ReadKey, Has
<1>5. KeyAt(at) = args[at + 1]
  BY <1>2, <1>3, KeyAtReads
<1>6. KeyAt(at + 1) = KeyAt((at + 1) - 1) /\ (at + 1) - 1 = at
  BY <1>3, KeyAtSkips
<1>7. /\ \A k, l : CellAsked(at + 1, k, l) = CellAsked(at, k, l)
      /\ \A k, l : CellAsked((at + 1) + 1, k, l) = CellAsked(at + 1, k, l)
  BY <1>1, <1>2, <1>3, SkipsSets
<1>8. (at + 1) + 1 = at + 2
  BY <1>3
<1> QED
  BY <1>4, <1>5, <1>6, <1>7, <1>8

LEMMA Skips ==
  ASSUME CmdInv, WellFormed, Skip, key = KeyAt(at - 1)
  PROVE  /\ key = KeyAt(at)
         /\ \A k, l : CellAsked(at + 1, k, l) = CellAsked(at, k, l)
<1>1. Len(args) \in Nat /\ DOMAIN args = 1 .. Len(args) /\ args \in Seq(STRING)
  BY LenProperties DEF CmdInv
<1>2. at \in DOMAIN args /\ args[at] # "--key" /\ args[at] # "--set" /\ at \in Nat /\ at >= 1
  BY <1>1 DEF Skip, Reading, Has, CmdInv
<1> QED
  BY <1>1, <1>2, KeyAtSkips, SkipsSets

LEMMA ReadsSet ==
  ASSUME CmdInv, WellFormed, ReadSet, key = KeyAt(at - 1),
         \A k \in Key, l \in Layer : Cells(values[k])[l] = CellAsked(at, k, l)
  PROVE  /\ key = KeyAt(at + 1)
         /\ \A k \in Key, l \in Layer : Cells(values'[k])[l] = CellAsked(at + 2, k, l)
<1> DEFINE word == args[at + 1]
           layer == ParseLayer(SplitOnce[word].layer)
           known == word \in DOMAIN SplitOnce /\ layer # NoLayer
           lv == [layer |-> layer, value |-> SplitOnce[word].value, locked |-> layer \in locks]
<1>1. Len(args) \in Nat /\ DOMAIN args = 1 .. Len(args) /\ args \in Seq(STRING)
  BY LenProperties DEF CmdInv
<1>2. at \in DOMAIN args /\ args[at] = "--set"
  BY <1>1 DEF ReadSet, Reading, Has, CmdInv
<1>3. Option(at) /\ at + 1 \in DOMAIN args /\ ~Option(at + 1) /\ at \in Nat /\ at >= 1
  BY <1>1, <1>2, OptionsAlternate
<1>4. KeyAt(at + 1) = KeyAt(at) /\ KeyAt(at) = KeyAt(at - 1)
  <2>1. KeyAt(at) = KeyAt(at - 1)
    BY <1>2, <1>3, KeyAtSkips
  <2>2. KeyAt(at + 1) = KeyAt((at + 1) - 1) /\ (at + 1) - 1 = at
    BY <1>3, KeyAtSkips
  <2> QED
    BY <2>1, <2>2
<1>5. \A k, l : CellAsked(at + 2, k, l) = CellAsked(at + 1, k, l)
  <2>1. \A k, l : CellAsked((at + 1) + 1, k, l) = CellAsked(at + 1, k, l)
    BY <1>1, <1>3, SkipsSets
  <2>2. (at + 1) + 1 = at + 2
    BY <1>3
  <2> QED
    BY <2>1, <2>2
<1>6. \A k, l : SetFor(at, k, l) <=> word \in DOMAIN SplitOnce /\ layer = l /\ key = k
  BY <1>2, <1>3, <1>4 DEF SetFor
<1>7. \A k, l : SetsBefore(at + 1, k, l) =
                  SetsBefore(at, k, l) \cup (IF SetFor(at, k, l) THEN {at} ELSE {})
  BY <1>1, <1>2, <1>3, SetsNext
<1>8. layer \in Layer \cup {NoLayer} /\ NoLayer \notin Layer
  BY ParseLayerIs DEF NoLayer, Layer
<1>9. CASE ~known
  <2>1. values' = values
    BY <1>9 DEF store, ReadSet
  <2>2. \A k \in Key, l \in Layer : ~SetFor(at, k, l)
    BY <1>6, <1>8, <1>9
  <2>3. ASSUME NEW k \in Key, NEW l \in Layer
        PROVE  CellAsked(at + 1, k, l) = CellAsked(at, k, l)
    <3>1. SetsBefore(at + 1, k, l) = SetsBefore(at, k, l)
      BY <1>7, <2>2
    <3> QED
      BY <3>1 DEF CellAsked
  <2> QED
    BY <1>4, <1>5, <2>1, <2>3
<1>10. CASE known
  <2>1. Has(at + 1)
    BY <1>1, <1>3 DEF Has
  <2>2. Set(key, lv)
    BY <1>10, <2>1 DEF ReadSet, LockedAt
  <2>3. key \in Key /\ layer \in Layer /\ SplitOnce[word].value \in ValueOf[key]
    BY <1>8, <1>10, WordsAssumption DEF CmdInv
  <2> HIDE DEF layer, word
  <2>4. lv \in LayerValue(key)
    <3>1. (layer \in locks) \in BOOLEAN
      OBVIOUS
    <3> QED
      BY <2>3, <3>1 DEF LayerValue
  <2>5. /\ lv.layer = layer /\ lv.value = SplitOnce[word].value /\ lv.locked = (layer \in locks)
    OBVIOUS
  <2> HIDE DEF lv
  <2>6. ResolverInv
    BY DEF CmdInv
  <2>7. values[key] \in Seq(LayerValue(key)) /\ Ordered(values[key])
    BY <2>3, <2>6 DEF ResolverInv
  <2>8. /\ values'[key] = SetIn(values[key], lv)
        /\ \A k \in Key \ {key} : values'[k] = values[k]
    BY <2>2, <2>3, <2>6 DEF Set, ResolverInv
  <2>9. Cells(values'[key]) =
          [Cells(values[key]) EXCEPT ![layer] = [value |-> SplitOnce[word].value, locked |-> layer \in locks]]
    <3>1. Cells(SetIn(values[key], lv)) =
            [Cells(values[key]) EXCEPT ![lv.layer] = [value |-> lv.value, locked |-> lv.locked]]
      BY <2>3, <2>4, <2>7, SetInCells
    <3> QED
      BY <2>5, <2>8, <3>1
  <2>10. Cells(values[key]) = [l \in Layer |-> Cells(values[key])[l]]
    BY DEF Cells
  <2>11. CellAsked(at + 1, key, layer) = [value |-> SplitOnce[word].value, locked |-> layer \in locks]
    <3> DEFINE T == SetsBefore(at + 1, key, layer)
    <3>1. at \in T
      BY <1>6, <1>7, <1>10
    <3>2. T \in SUBSET Nat /\ \A n \in T : n <= at
      BY <1>1, <1>3 DEF SetsBefore
    <3> HIDE DEF T
    <3>3. Max(T) = at /\ T # {}
      BY <3>1, <3>2, MaxIs
    <3> QED
      BY <3>3 DEF CellAsked, T, word
  <2>12. ASSUME NEW k \in Key, NEW l \in Layer, ~(k = key /\ l = layer)
         PROVE  CellAsked(at + 1, k, l) = CellAsked(at, k, l)
    <3>1. ~SetFor(at, k, l)
      BY <1>6, <2>12
    <3>2. SetsBefore(at + 1, k, l) = SetsBefore(at, k, l)
      BY <1>7, <3>1
    <3> QED
      BY <3>2 DEF CellAsked
  <2>13. ASSUME NEW k \in Key, NEW l \in Layer
         PROVE  Cells(values'[k])[l] = CellAsked(at + 1, k, l)
    <3>1. CASE k = key /\ l = layer
      BY <2>3, <2>9, <2>10, <2>11, <3>1
    <3>2. CASE k = key /\ l # layer
      BY <2>3, <2>9, <2>10, <2>12, <3>2
    <3>3. CASE k # key
      BY <2>8, <2>12, <3>3
    <3> QED
      BY <3>1, <3>2, <3>3
  <2> QED
    BY <1>4, <1>5, <2>13
<1> QED
  BY <1>9, <1>10

(* At the end of the line, the cells of the last key are what was asked. *)
LEMMA ReportsWhatWasAsked ==
  ASSUME CmdInv, WellFormed, Report, locks = LocksBefore(Len(args) + 1), key = KeyAt(at - 1),
         \A k \in Key, l \in Layer : Cells(values[k])[l] = CellAsked(at, k, l)
  PROVE  Reported'
<1> DEFINE n == Len(args)
           s == values[key]
<1>1. n \in Nat /\ DOMAIN args = 1 .. n /\ args \in Seq(STRING)
  BY LenProperties DEF CmdInv
<1>2. at > n /\ at \in Nat /\ at - 1 \in {n, n + 1}
  BY <1>1 DEF Report, Has, CmdInv
<1>3. key \in Key /\ ResolverInv
  BY DEF CmdInv
<1>4. key = KeyAt(n)
  <2>1. KeyAt(n + 1) = KeyAt(n)
    <3>1. ~Option(n + 1) /\ n + 1 >= 1 /\ n + 1 \in Nat /\ (n + 1) - 1 = n
      BY <1>1 DEF Option
    <3> HIDE DEF n
    <3> QED
      BY <3>1, KeyAtSkips
  <2> QED
    BY <1>2, <2>1
<1>5. \A l : Asking(l) = SetsBefore(at, key, l)
  <2>1. \A i \in DOMAIN args : i < at
    BY <1>1, <1>2
  <2> QED
    BY <1>4, <2>1 DEF Asking, Says, SetsBefore, SetFor
<1>6. s \in Seq(LayerValue(key)) /\ Ordered(s)
  BY <1>3 DEF ResolverInv
<1>7. \A l \in Layer : Asking(l) # {} <=> Cells(s)[l] # Unset
  <2>1. ASSUME NEW l \in Layer, SetsBefore(at, key, l) # {} PROVE Cells(s)[l] # Unset
    BY <1>2, <1>3, <2>1, AskedIsCell
  <2>2. ASSUME NEW l \in Layer, SetsBefore(at, key, l) = {} PROVE Cells(s)[l] = Unset
    BY <1>3, <2>2 DEF CellAsked
  <2> QED
    BY <1>5, <2>1, <2>2
<1>8. /\ args' = args
      /\ report' = IF IsSet(key)
                   THEN [exit |-> 0, source |-> Resolved(key).layer,
                         value |-> Resolved(key).value, locked |-> Resolved(key).locked]
                   ELSE [exit |-> 1, source |-> NoLayer]
  BY DEF Report
<1>9. \A l : Asking(l)' = Asking(l)
  <2>1. \A i : Option(i)' <=> Option(i)
    BY <1>8 DEF Option
  <2>2. \A i : KeyAt(i)' = KeyAt(i)
    BY <1>8, SameLine
  <2>3. \A i, l : Says(i, l)' <=> Says(i, l)
    BY <1>8, <2>1, <2>2 DEF Says
  <2> QED
    BY <1>8, <2>3 DEF Asking
<1>10. \A a : LocksBefore(a)' = LocksBefore(a)
  BY <1>8, SameLine
<1>11. ASSUME \A l \in Layer : Asking(l) = {} PROVE report'.exit = 1
  <2>1. \A e \in ToSet(s) : e.layer \in Layer /\ Cells(s)[e.layer] # Unset
    <3> TAKE e \in ToSet(s)
    <3>1. e \in LayerValue(key)
      BY <1>6, ElementOfSeq DEF ToSet
    <3>2. Cells(s)[e.layer] = [value |-> e.value, locked |-> e.locked]
      BY <1>3, <1>6, CellsAre
    <3>3. Cells(s)[e.layer] \in [value : ValueOf[key], locked : BOOLEAN]
      BY <3>1, <3>2 DEF LayerValue
    <3> QED
      BY <1>3, <3>1, <3>3, LayerIsNumber, UnsetAssumption
  <2>2. ToSet(s) = {}
    BY <1>7, <1>11, <2>1
  <2>3. ~IsSet(key)
    <3>1. s # <<>> => Len(s) \in Nat /\ Len(s) # 0 /\ DOMAIN s = 1 .. Len(s)
      BY <1>6, EmptySeq, LenProperties
    <3>2. s # <<>> => s[1] \in ToSet(s)
      BY <3>1 DEF ToSet
    <3> QED
      BY <2>2, <3>2 DEF IsSet
  <2> QED
    BY <1>8, <2>3
<1>12. ASSUME NEW top \in Layer, Asking(top) # {}, \A l \in Layer : l > top => Asking(l) = {}
       PROVE  /\ report'.exit = 0 /\ report'.source = top
              /\ report'.value = SplitOnce[args[Max(Asking(top)) + 1]].value
              /\ report'.locked = (top \in locks)
  <2>1. Cells(s)[top] # Unset
    BY <1>7, <1>12
  <2>2. IsSet(key)
    <3>1. CASE s = <<>>
      <4>1. Cells(<<>>)[top] = Unset
        BY DEF Cells
      <4> QED
        BY <2>1, <3>1, <4>1
    <3> QED
      BY <3>1 DEF IsSet
  <2>3. Table!Filled(key) = {l \in Layer : Asking(l) # {}}
    BY <1>3, <1>7 DEF Table!Filled, Table!Layer, Layer
  <2>4. Table!Winner(key) = top
    <3>1. top \in Table!Filled(key) /\ \A l \in Table!Filled(key) : l \in 0 .. 3 /\ l <= top
      BY <1>12, <2>3 DEF Layer
    <3>2. \A l \in Table!Filled(key) : (\A m \in Table!Filled(key) : m <= l) => l = top
      BY <3>1
    <3> QED
      BY <3>1, <3>2 DEF Table!Winner
  <2>5. Resolved(key) = [layer |-> top, value |-> Cells(s)[top].value, locked |-> Cells(s)[top].locked]
    BY <1>3, <2>2, <2>4, LastIsWinner
  <2>6. Cells(s)[top] = [value |-> SplitOnce[args[Max(Asking(top)) + 1]].value, locked |-> top \in locks]
    BY <1>3, <1>5, <1>12 DEF CellAsked
  <2> QED
    BY <1>8, <2>2, <2>5, <2>6
<1> QED
  BY <1>8, <1>9, <1>10, <1>11, <1>12 DEF Reported

LEMMA ReportedIsAsked ==
  ASSUME CmdInv, ReadInv
  PROVE  ReportIsWhatWasAsked
<1> SUFFICES ASSUME pass = 3, WellFormed
             PROVE  LET layers == {l \in Layer : \E i \in DOMAIN args : Says(i, l)}
                        top == Max(layers)
                        last == Max({i \in DOMAIN args : Says(i, top)})
                    IN  IF layers = {} THEN report.exit = 1
                        ELSE /\ report.exit = 0 /\ report.source = top
                             /\ report.value = SplitOnce[args[last + 1]].value
                             /\ report.locked = \E i \in DOMAIN args :
                                  Option(i) /\ args[i] = "--lock" /\ ParseLayer(args[i + 1]) = top
  BY DEF ReportIsWhatWasAsked
<1> DEFINE layers == {l \in Layer : Asking(l) # {}}
           top == Max(layers)
<1>1. Reported
  BY DEF ReadInv
<1>2. {l \in Layer : \E i \in DOMAIN args : Says(i, l)} = layers
  BY DEF Asking
<1>3. CASE layers = {}
  BY <1>1, <1>2, <1>3 DEF Reported
<1>4. CASE layers # {}
  <2>1. layers \in SUBSET Nat /\ \A l \in layers : l <= 3
    BY DEF Layer
  <2>2. PICK m \in layers : \A l \in layers : l <= m
    <3> HIDE DEF layers
    <3> QED
      BY <1>4, <2>1, Greatest
  <2>3. top = m
    <3> HIDE DEF layers
    <3> QED
      BY <2>1, <2>2, MaxIs
  <2>4. m \in Layer /\ Asking(m) # {} /\ \A l \in Layer : l > m => Asking(l) = {}
    BY <2>1, <2>2 DEF Layer
  <2>5. /\ report.exit = 0 /\ report.source = m
        /\ report.value = SplitOnce[args[Max(Asking(m)) + 1]].value
        /\ report.locked = (m \in LocksBefore(Len(args) + 1))
    BY <1>1, <2>4 DEF Reported
  <2>6. (m \in LocksBefore(Len(args) + 1)) =
          \E i \in DOMAIN args : Option(i) /\ args[i] = "--lock" /\ ParseLayer(args[i + 1]) = m
    <3>1. \A i \in DOMAIN args : i < Len(args) + 1
      BY LenProperties DEF CmdInv
    <3>2. (m \in LocksBefore(Len(args) + 1)) <=>
            \E i \in DOMAIN args : Option(i) /\ args[i] = "--lock" /\ ParseLayer(args[i + 1]) = m
      BY <2>4, <3>1 DEF LocksBefore
    <3> DEFINE b == m \in LocksBefore(Len(args) + 1)
               c == \E i \in DOMAIN args : Option(i) /\ args[i] = "--lock" /\ ParseLayer(args[i + 1]) = m
    <3>3. b \in BOOLEAN /\ c \in BOOLEAN
      OBVIOUS
    <3>4. b <=> c
      BY <3>2
    <3> SUFFICES b = c
      OBVIOUS
    <3> HIDE DEF b, c
    <3> QED
      BY <3>3, <3>4
  <2>7. {i \in DOMAIN args : Says(i, m)} = Asking(m)
    BY DEF Asking
  <2> HIDE DEF layers
  <2> QED
    BY <1>2, <1>4, <2>3, <2>5, <2>6, <2>7
<1> QED
  BY <1>3, <1>4

LEMMA ReadStep ==
  ASSUME CmdInv, ReadInv, [CmdNext]_cmdVars
  PROVE  ReadInv'
<1>1. args' = args /\ use' = use
  BY DEF CmdNext, cmdVars, Library, CollectLock, NextPass, ReadKey, ReadSet, Skip, Report, Present, resolving
<1>2. /\ WellFormed' <=> WellFormed
      /\ \A i : KeyAt(i)' = KeyAt(i)
      /\ \A a : LocksBefore(a)' = LocksBefore(a)
      /\ \A a, k, l : SetsBefore(a, k, l)' = SetsBefore(a, k, l)
  BY <1>1, SameLine
<1>3. ASSUME locks' = locks, NEW a, NEW k, NEW l PROVE CellAsked(a, k, l)' = CellAsked(a, k, l)
  BY <1>1, <1>2, <1>3 DEF CellAsked
<1>4. \A l : Asking(l)' = Asking(l)
  <2>1. \A i : Option(i)' <=> Option(i)
    BY <1>1 DEF Option
  <2>2. \A i, l : Says(i, l)' <=> Says(i, l)
    BY <1>1, <1>2, <2>1 DEF Says
  <2> QED
    BY <1>1, <2>2 DEF Asking
<1>5. CASE ~(use = "command" /\ WellFormed)
  <2>1. use # "command" => pass' = pass
    BY DEF CmdNext, cmdVars, Library, CollectLock, NextPass, ReadKey, ReadSet, Skip, Report, Present, resolving, Reading
  <2> QED
    BY <1>1, <1>2, <1>5, <2>1 DEF ReadInv
<1>8. at \in Nat
  BY LenProperties DEF CmdInv
<1>7. ASSUME use = "command", WellFormed, pass' = 2, locks' = locks, NEW a, at' = a,
             locks = LocksBefore(Len(args) + 1), key' = KeyAt(a - 1),
             \A k \in Key, l \in Layer : Cells(values'[k])[l] = CellAsked(a, k, l)
      PROVE  ReadInv'
  <2>1. locks' = LocksBefore(Len(args) + 1)'
    BY <1>1, <1>2, <1>7
  <2>2. key' = KeyAt(at - 1)'
    BY <1>2, <1>7
  <2>3. \A k, l : CellAsked(a, k, l)' = CellAsked(a, k, l)
    BY <1>3, <1>7
  <2>4. \A k \in Key, l \in Layer : Cells(values'[k])[l] = CellAsked(at, k, l)'
    BY <1>7, <2>3
  <2> QED
    BY <1>1, <1>7, <2>1, <2>2, <2>4 DEF ReadInv
<1>6. CASE use = "command" /\ WellFormed
  <2>1. CASE CollectLock
    <3>1. locks' = LocksBefore(at + 1)
      BY <1>6, <2>1, CollectsLocks DEF ReadInv, CollectLock, Reading
    <3>2. locks' = LocksBefore(at)'
      BY <1>2, <2>1, <3>1 DEF CollectLock
    <3>3. values' = values /\ key' = key /\ pass' = pass /\ pass = 1
      BY <2>1 DEF store, CollectLock, Reading
    <3> QED
      BY <1>1, <1>6, <3>2, <3>3 DEF ReadInv
  <2>2. CASE NextPass
    <3>1. /\ locks = LocksBefore(Len(args) + 1)
          /\ key = KeyAt(0)
          /\ \A k \in Key, l \in Layer : Cells(values[k])[l] = CellAsked(1, k, l)
      BY <1>6, <2>2, StartsReading DEF ReadInv, NextPass
    <3>2. pass' = 2 /\ at' = 1 /\ key' = key /\ locks' = locks /\ values' = values
      BY <2>2 DEF store, NextPass
    <3>3. 1 - 1 = 0
      OBVIOUS
    <3>4. /\ locks = LocksBefore(Len(args) + 1)
          /\ key' = KeyAt(1 - 1)
          /\ \A k \in Key, l \in Layer : Cells(values'[k])[l] = CellAsked(1, k, l)
      BY <3>1, <3>2, <3>3
    <3> QED
      BY <1>6, <1>7, <3>2, <3>4
  <2>3. CASE ReadKey
    <3>1. key' = KeyAt(at + 1) /\ \A k, l : CellAsked(at + 2, k, l) = CellAsked(at, k, l)
      BY <1>6, <2>3, ReadsKey DEF ReadInv, ReadKey, Reading
    <3>2. pass' = 2 /\ pass = 2 /\ at' = at + 2 /\ locks' = locks /\ values' = values
      BY <2>3 DEF store, ReadKey, Reading
    <3>3. (at + 2) - 1 = at + 1
      BY <1>8
    <3> QED
      BY <1>6, <1>7, <3>1, <3>2, <3>3 DEF ReadInv
  <2>4. CASE ReadSet
    <3>1. /\ key = KeyAt(at + 1)
          /\ \A k \in Key, l \in Layer : Cells(values'[k])[l] = CellAsked(at + 2, k, l)
      BY <1>6, <2>4, ReadsSet DEF ReadInv, ReadSet, Reading
    <3>2. pass' = 2 /\ pass = 2 /\ at' = at + 2 /\ locks' = locks /\ key' = key
      BY <2>4 DEF ReadSet, Reading
    <3>3. (at + 2) - 1 = at + 1
      BY <1>8
    <3> QED
      BY <1>6, <1>7, <3>1, <3>2, <3>3 DEF ReadInv
  <2>5. CASE Skip
    <3>1. key = KeyAt(at) /\ \A k, l : CellAsked(at + 1, k, l) = CellAsked(at, k, l)
      BY <1>6, <2>5, Skips DEF ReadInv, Skip, Reading
    <3>2. pass' = 2 /\ pass = 2 /\ at' = at + 1 /\ locks' = locks /\ values' = values /\ key' = key
      BY <2>5 DEF store, Skip, Reading
    <3>3. (at + 1) - 1 = at
      BY <1>8
    <3> QED
      BY <1>6, <1>7, <3>1, <3>2, <3>3 DEF ReadInv
  <2>6. CASE Report
    <3>1. Reported'
      BY <1>6, <2>6, ReportsWhatWasAsked DEF ReadInv, Report
    <3>2. pass' = 3
      BY <2>6 DEF Report
    <3> QED
      BY <1>1, <1>6, <3>1, <3>2 DEF ReadInv
  <2>7. CASE UNCHANGED cmdVars
    <3>1. Reported' <=> Reported
      BY <1>1, <1>2, <1>4, <2>7 DEF Reported, cmdVars
    <3>2. locks' = locks /\ values' = values /\ key' = key /\ pass' = pass /\ at' = at
      BY <2>7 DEF cmdVars, store
    <3>3. \A k, l : CellAsked(at, k, l)' = CellAsked(at, k, l)
      BY <1>3, <3>2
    <3>4. LocksBefore(at)' = LocksBefore(at) /\ LocksBefore(Len(args) + 1)' = LocksBefore(Len(args) + 1)
      BY <1>1, <1>2, <3>2
    <3>5. KeyAt(at - 1)' = KeyAt(at - 1)
      BY <1>2, <3>2
    <3> QED
      BY <1>1, <1>2, <3>1, <3>2, <3>3, <3>4, <3>5 DEF ReadInv
  <2>8. ~Library /\ ~\E b \in Bundle : Present(b)
    BY <1>6 DEF Library, Present
  <2> QED
    BY <2>1, <2>2, <2>3, <2>4, <2>5, <2>6, <2>7, <2>8 DEF CmdNext
<1> QED
  BY <1>5, <1>6

(* Whatever the command line, as long as its options come in pairs, what is printed
   is the value, the layer and the lock that were asked for last on the highest layer
   of the last key, and nothing that an option before or after could have changed. *)
THEOREM ReportIsAsked == EngineSpec => []ReportIsWhatWasAsked
<1>1. EngineInit => ReadInv
  BY ReadInit DEF EngineInit
<1>2. ReadInv /\ EngineInv /\ [EngineNext]_engineVars => ReadInv'
  <2> SUFFICES ASSUME ReadInv, EngineInv, [EngineNext]_engineVars PROVE ReadInv'
    OBVIOUS
  <2>1. [CmdNext]_cmdVars
    BY DEF EngineNext, engineVars
  <2>2. CmdInv
    BY DEF EngineInv
  <2> QED
    BY <2>1, <2>2, ReadStep
<1>3. EngineInv /\ ReadInv => ReportIsWhatWasAsked
  BY ReportedIsAsked DEF EngineInv
<1> QED
  BY <1>1, <1>2, <1>3, EngineInvariant, PTL DEF EngineSpec
===============================================================================
