----------------------------- MODULE CommandPalette -----------------------------
(***************************************************************************)
(* The command palette of the shell: what main.ts keeps of it (the text,   *)
(* the highlighted row) and the ranking of command-palette/fuzzy.ts.       *)
(***************************************************************************)
EXTENDS Integers, Sequences, SequencesExt, Arrangement

CONSTANTS Label,        \* the commands' labels, lower case, in registration order
          Letter,       \* what is typed
          MaxText       \* bound: the length of the text

VARIABLES open, text,
          selected,     \* selectedResult, counted from 0
          outcome       \* what the last Enter did, and for which text

paletteVars == <<open, text, selected, outcome>>

-------------------------------------------------------------------------------
(* fuzzyMatch: one pass over the label.  Scores are counted in quarters; 0 is
   no match. *)
Boundary(label, i) == i = 1 \/ label[i - 1] \in {" ", "-", "/"}

Scanned(query, label) ==
  LET scan[n \in 0 .. Len(label)] ==
        IF n = 0 THEN [next |-> 1, last |-> -1, score |-> 0]
        ELSE LET m == scan[n - 1] IN
             IF m.next > Len(query) \/ label[n] # query[m.next] THEN m
             ELSE [next |-> m.next + 1, last |-> n,
                   score |-> m.score + (IF n = m.last + 1 THEN 5 ELSE 1)
                                     + (IF Boundary(label, n) THEN 3 ELSE 0)]
  IN  scan
Scan(query, label) == Scanned(query, label)[Len(label)]

FuzzyMatch(query, label) ==
  IF query = <<>> THEN 4
  ELSE IF Scan(query, label).next <= Len(query) THEN 0
  ELSE 4 * Scan(query, label).score + Max({0, 40 - Len(label)})

(* rank: best first, and in registration order among equals. *)
Search(query) ==
  LET score == [i \in DOMAIN Label |-> FuzzyMatch(query, Label[i])]
      found == {i \in DOMAIN Label : score[i] > 0}
  IN  Arranged(found, {p \in found \X found :
                         \/ score[p[1]] > score[p[2]]
                         \/ score[p[1]] = score[p[2]] /\ p[1] < p[2]})

-------------------------------------------------------------------------------
Init == open = FALSE /\ text = <<>> /\ selected = 0 /\ outcome = [did |-> "nothing"]

OpenPalette == open' = TRUE /\ text' = <<>> /\ selected' = 0 /\ UNCHANGED outcome
ClosePalette == open /\ open' = FALSE /\ UNCHANGED <<text, selected, outcome>>

(* Faulty variant of Rerendered: the highlight stays where it was. *)
RerenderedKeeping(query) == selected

(* renderResults *)
Rerendered(query) == IF selected >= Len(Search(query)) THEN 0 ELSE selected

Edit(query) == /\ open /\ text' = query /\ selected' = Rerendered(query)
               /\ UNCHANGED <<open, outcome>>
Type == \E c \in Letter : Len(text) < MaxText /\ Edit(Append(text, c))
Erase == text # <<>> /\ Edit(Front(text))

ArrowDown == /\ open /\ selected' = Min({selected + 1, Len(Search(text)) - 1})
             /\ UNCHANGED <<open, text, outcome>>
ArrowUp == /\ open /\ selected' = Max({selected - 1, 0}) /\ UNCHANGED <<open, text, outcome>>
Hover == /\ open /\ selected' \in 0 .. Len(Search(text)) - 1
         /\ UNCHANGED <<open, text, outcome>>

(* A row is clicked, or Enter is pressed on it. *)
RunResult(i) == /\ open /\ i \in DOMAIN Search(text)
                /\ open' = FALSE /\ outcome' = [did |-> "ran", for |-> text]
                /\ UNCHANGED <<text, selected>>

(* Enter on a row that does not exist: the text is an omnibox intent. *)
Omnibox == /\ open /\ selected + 1 \notin DOMAIN Search(text)
           /\ open' = FALSE /\ outcome' = [did |-> "omnibox", for |-> text]
           /\ UNCHANGED <<text, selected>>

(* runPaletteEnter *)
Enter == RunResult(selected + 1) \/ Omnibox

Next == \/ OpenPalette \/ ClosePalette \/ Type \/ Erase \/ ArrowDown \/ ArrowUp \/ Hover
        \/ \E i \in 1 .. Len(Label) : RunResult(i)
        \/ Enter

Spec == Init /\ [][Next]_paletteVars

-------------------------------------------------------------------------------
(* The highlight never points below the list that is shown, however the list
   shrinks under it; above it, -1, is possible (ArrowDown in an empty list). *)
SelectionInList ==
  open => /\ selected >= -1
          /\ selected < Max({1, Len(Search(text))})

(* "No command matched: treat the text as an omnibox intent." (main.ts) *)
OmniboxOnlyWithoutMatch ==
  outcome.did = "omnibox" => Search(outcome.for) = <<>>

(* A reference for the greedy scan: what it finds are the labels that contain
   the query as a subsequence, and a longer query finds no other. *)
HasSubsequence(label, query) ==
  \E at \in [DOMAIN query -> DOMAIN label] :
    /\ \A i \in DOMAIN query : label[at[i]] = query[i]
    /\ \A i, j \in DOMAIN query : i < j => at[i] < at[j]
MatchesAreSubsequences(query) ==
  ToSet(Search(query)) = {i \in DOMAIN Label : HasSubsequence(Label[i], query)}
===============================================================================
