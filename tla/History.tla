-------------------------------- MODULE History --------------------------------
(***************************************************************************)
(* The semantic history index of storage/semantic_history.rs.  A text is   *)
(* its words, an embedding counts them in buckets.  Scores are the f32     *)
(* numbers that the code computes from two embeddings, rounding included:  *)
(* a table of them, in their order.  Two pages with the same cosine may    *)
(* have different scores.                                                  *)
(***************************************************************************)
EXTENDS Integers, Sequences, SequencesExt, FiniteSetsExt, Arrangement

CONSTANTS DIM,          \* the number of buckets
          BucketOf,     \* [word -> bucket]: two words may share one
          Page,         \* what is visited: the words of its title and address
          Cosine,       \* [two embeddings -> their score, numbered in its order]
          MaxEntries    \* bound: the number of visits

VARIABLE entries        \* SemanticIndex.entries, the pages in the order of the visits

(* embed, before it is divided by its norm *)
Embed(words) ==
  [b \in 1 .. DIM |-> Cardinality({i \in DOMAIN words : BucketOf[words[i]] = b})]

(* cosine, after the division by the norms *)
Score(query, visit) == Cosine[Embed(query), Embed(visit)]

(* partial_cmp, descending; sort_by is stable. *)
Ahead(query, visits, i, j) ==
  \/ Score(query, visits[i]) > Score(query, visits[j])
  \/ Score(query, visits[i]) = Score(query, visits[j]) /\ i < j

ScoreOrder(query, visits) ==
  {p \in (DOMAIN visits) \X (DOMAIN visits) : Ahead(query, visits, p[1], p[2])}
Ranking(query, visits) == Arranged(DOMAIN visits, ScoreOrder(query, visits))
Truncated(s, k) == SubSeq(s, 1, Min({k, Len(s)}))

(* Faulty variant of Search: truncated before it is sorted. *)
SearchTruncatedFirst(query, k) == Ranking(query, Truncated(entries, k))

(* search: the visits in descending order of score, stable, and k of them. *)
Search(query, k) == Truncated(Ranking(query, entries), k)

-------------------------------------------------------------------------------
Init == entries = <<>>

AddPage(p) == Len(entries) < MaxEntries /\ entries' = Append(entries, p)

Next == \E p \in Page : AddPage(p)

Spec == Init /\ [][Next]_entries

-------------------------------------------------------------------------------
(* "up to k results ranked by cosine similarity": the results come in descending
   order of score, nothing that was left out has a higher score than a result, nor
   the same one and is older; and if a page that shares a word with the query is
   left out, no result shares nothing with it. *)
FindsTheClosest ==
  \A query \in Page : \A k \in 0 .. MaxEntries :
    LET found == Search(query, k)
        left == DOMAIN entries \ ToSet(found)
    IN  /\ Cardinality(ToSet(found)) = Min({k, Len(entries)})
        /\ \A i, j \in DOMAIN found : i < j => Ahead(query, entries, found[i], found[j])
        /\ \A r \in ToSet(found), o \in left :
             /\ Ahead(query, entries, r, o)
             /\ ToSet(entries[o]) \cap ToSet(query) # {} => Score(query, entries[r]) > 0
===============================================================================
