-------------------------------- MODULE AuditLog --------------------------------
(***************************************************************************)
(* The audit log of admin/policy-engine/src/audit.rs and its Merkle root.  *)
(* Hashes are perfect: a leaf is its entry and a pair is the pair of its   *)
(* children, so two roots are equal exactly when the trees are.            *)
(***************************************************************************)
EXTENDS Naturals, Sequences, SequencesExt

CONSTANTS Entry,        \* what can be appended
          MaxLen        \* bound: the length of the log

VARIABLE leaves         \* the hashes of the entries

(* hash_bytes, hash_pair *)
HashBytes(e) == [entry |-> e]
HashPair(a, b) == [left |-> a, right |-> b]
Zero == [zero |-> 0]    \* the root of the empty log; no hash is 0

Leaf == {HashBytes(e) : e \in Entry}

TypeOK == leaves \in Seq(Leaf) /\ Len(leaves) <= MaxLen

Init == leaves = <<>>

(* append *)
AppendEntry(e) == Len(leaves) < MaxLen /\ leaves' = Append(leaves, HashBytes(e))

-------------------------------------------------------------------------------
(* Faulty variant of Parent: the loop stops at the last complete pair, and an
   odd node is dropped. *)
ParentDropping(level) ==
  [i \in 1 .. Len(level) \div 2 |-> HashPair(level[2*i - 1], level[2*i])]

(* One round of root(): neighbours are paired, an odd node with itself. *)
Parent(level) ==
  [i \in 1 .. (Len(level) + 1) \div 2 |->
    HashPair(level[2*i - 1], level[IF 2*i <= Len(level) THEN 2*i ELSE 2*i - 1])]

(* The loop of root(): a round until one hash is left, which takes no more
   rounds than there are entries. *)
Levels(log) ==
  LET level[n \in 0 .. Len(log)] ==
        IF n = 0 THEN log
        ELSE LET below == level[n - 1] IN IF Len(below) > 1 THEN Parent(below) ELSE below
  IN  level

Root(log) == IF log = <<>> THEN Zero ELSE Levels(log)[Len(log)][1]

-------------------------------------------------------------------------------
(* "any modification to a past entry changes the root" (audit.rs): the log has
   a root of its own among all logs of its length. *)
TamperEvident ==
  \A other \in [DOMAIN leaves -> Leaf] : Root(other) = Root(leaves) => other = leaves

(* A log whose end is cut off has another root, unless the tree had filled the
   place of the lost entries with copies of what is kept: nothing that was
   logged only once can be cut off, nor half of the log. *)
TruncationEvident ==
  \A n \in 0 .. Len(leaves) - 1 :
    LET kept == SubSeq(leaves, 1, n) IN
    Root(kept) = Root(leaves) =>
      Len(leaves) < 2 * n /\ ToSet(leaves) = ToSet(kept)
===============================================================================
