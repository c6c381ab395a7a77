------------------------------ MODULE AgentProofs ------------------------------
(***************************************************************************)
(* Proofs about Agent, for any sites, permissions, tools, calls and number *)
(* of steps.  Nothing is recorded before there is a runtime or a journal,  *)
(* and from then on the tools, the grants and the mode stay what they are. *)
(***************************************************************************)
EXTENDS Agent, SharedLemmas, TLAPS

Executed == [call : Call, approved : BOOLEAN, undone : BOOLEAN]

(* What is known of the history whatever is granted. *)
DoneInv == /\ done \in Seq(Executed) /\ journal \in Seq(Call)
           /\ stage \notin Supervision \cup {"keeping"} => done = <<>> /\ journal = <<>>
           /\ stage \in Supervision => Len(journal) = Len(done)

GateInv == DoneInv /\ NothingUngated

-------------------------------------------------------------------------------
(* Undo changes one flag of the history, no call and no approval. *)
LEMMA UndoKeeps ==
  ASSUME DoneInv, Undo
  PROVE  /\ done' \in Seq(Executed) /\ Len(done') = Len(done)
         /\ \A i \in DOMAIN done : /\ done'[i].call = done[i].call
                                   /\ done'[i].approved = done[i].approved
                                   /\ done'[i].undone = (done[i].undone \/ i = Max(Standing))
<1> DEFINE m == Max(Standing)
<1>1. done' = [done EXCEPT ![m] = [done[m] EXCEPT !.undone = TRUE]] /\ done \in Seq(Executed)
  BY DEF Undo, DoneInv
<1> HIDE DEF m
<1>2. DOMAIN done' = DOMAIN done
  BY <1>1
<1>3. ASSUME NEW i \in DOMAIN done
      PROVE  done'[i] = IF i = m THEN [done[i] EXCEPT !.undone = TRUE] ELSE done[i]
  BY <1>1
<1>4. ASSUME NEW i \in DOMAIN done
      PROVE  /\ done'[i] \in Executed
             /\ done'[i].call = done[i].call /\ done'[i].approved = done[i].approved
             /\ done'[i].undone = (done[i].undone \/ i = m)
  <2>1. done[i] \in Executed
    BY <1>1
  <2>2. done[i].undone \in BOOLEAN
    BY <2>1 DEF Executed
  <2> QED
    BY <1>3, <2>1, <2>2 DEF Executed
<1>5. done' \in Seq(Executed) /\ Len(done') = Len(done)
  <2>1. DOMAIN done = 1 .. Len(done) /\ Len(done) \in Nat
    BY <1>1
  <2>2. done' \in [1 .. Len(done) -> Executed]
    BY <1>1, <1>2, <1>4, <2>1
  <2> QED
    BY <2>1, <2>2
<1> QED
  BY <1>4, <1>5 DEF m

LEMMA RecordedAppends ==
  ASSUME DoneInv, NEW c \in Call, NEW approved \in BOOLEAN, Recorded(c, approved)
  PROVE  LET e == [call |-> c, approved |-> approved, undone |-> FALSE] IN
         /\ done' = Append(done, e) /\ journal' = Append(journal, c)
         /\ done' \in Seq(Executed) /\ journal' \in Seq(Call)
         /\ Len(done') = Len(done) + 1 /\ done'[Len(done) + 1] = e
         /\ Len(journal') = Len(journal) + 1
         /\ \A i \in DOMAIN done : done'[i] = done[i]
BY DEF Recorded, DoneInv, Executed

LEMMA DoneInit == Init => DoneInv
BY DEF Init, DoneInv, Supervision

LEMMA DoneStep == DoneInv /\ [Next]_vars => DoneInv'
<1> SUFFICES ASSUME DoneInv, [Next]_vars PROVE DoneInv'
  OBVIOUS
<1> USE DEF DoneInv
<1>1. ASSUME NEW c \in Call, NEW approved \in BOOLEAN, Step(c, approved) PROVE DoneInv'
  <2>1. stage \in Supervision /\ UNCHANGED stage /\ Recorded(c, approved)
    BY <1>1 DEF Step
  <2> QED
    BY <2>1, RecordedAppends
<1>2. ASSUME NEW c \in Call, Record(c) PROVE DoneInv'
  <2>1. stage' = "keeping" /\ Recorded(c, FALSE)
    BY <1>2 DEF Record
  <2> QED
    BY <2>1, RecordedAppends DEF Supervision
<1>3. CASE Undo
  <2>1. journal' \in Seq(Call) /\ stage = "keeping" /\ UNCHANGED stage
    BY <1>3 DEF Undo, Popped
  <2> QED
    BY <1>3, <2>1, UndoKeeps DEF Supervision
<1>4. ASSUME UNCHANGED <<journal, done>>,
             stage \notin Supervision \cup {"keeping"} \/ UNCHANGED stage
      PROVE  DoneInv'
  BY <1>4
<1> QED
  BY <1>1, <1>2, <1>3, <1>4
     DEF Next, vars, Grant, NewHost, Register, NewRuntime, Send, Supervision

-------------------------------------------------------------------------------
LEMMA GateInit == Init => GateInv
BY DoneInit DEF Init, GateInv, NothingUngated

LEMMA GateStep == GateInv /\ [Next]_vars => GateInv'
<1> SUFFICES ASSUME GateInv, [Next]_vars PROVE NothingUngated'
  BY DoneStep DEF GateInv
<1> USE DEF GateInv
<1>1. ASSUME NEW c \in Call, NEW approved \in BOOLEAN, Step(c, approved) PROVE NothingUngated'
  <2>1. UNCHANGED <<stage, grants, tools>> /\ stage \in Supervision /\ Recorded(c, approved)
    BY <1>1 DEF Step, Recorded
  <2>2. /\ c.tool \in DOMAIN tools /\ tools[c.tool] \in grants[c.site]
        /\ stage = "StepByStep" => approved
    BY <1>1 DEF Step, Authorize, Allows
  <2>3. ASSUME NEW i \in DOMAIN done'
        PROVE  \/ i \in DOMAIN done /\ done'[i] = done[i]
               \/ done'[i].call = c /\ done'[i].approved = approved
    <3> DEFINE e == [call |-> c, approved |-> approved, undone |-> FALSE]
    <3>1. /\ done' \in Seq(Executed) /\ Len(done') = Len(done) + 1
          /\ done'[Len(done) + 1] = e /\ \A n \in DOMAIN done : done'[n] = done[n]
      BY <2>1, RecordedAppends
    <3>2. i \in DOMAIN done \/ i = Len(done) + 1
      BY <3>1 DEF DoneInv
    <3> QED
      BY <3>1, <3>2
  <2> QED
    BY <2>1, <2>2, <2>3 DEF NothingUngated
<1>2. CASE stage' \notin Supervision
  BY <1>2 DEF NothingUngated
<1>3. CASE UNCHANGED done /\ done = <<>>
  BY <1>3 DEF NothingUngated
<1>4. CASE UNCHANGED vars
  BY <1>4 DEF vars, NothingUngated
<1>5. ASSUME stage \notin Supervision \cup {"keeping"}, UNCHANGED done PROVE NothingUngated'
  BY <1>5, <1>3 DEF DoneInv
<1> QED
  BY <1>1, <1>2, <1>4, <1>5
     DEF Next, Grant, NewHost, Register, NewRuntime, Send, Record, Undo, Supervision

(* AgentRuntime::step and McpHost::authorize: whatever was executed had its
   permission on its site and, step by step, its approval - also in the past. *)
THEOREM GateHolds == Spec => []NothingUngated
<1>1. GateInv => NothingUngated
  BY DEF GateInv
<1> QED
  BY GateInit, GateStep, <1>1, PTL DEF Spec

-------------------------------------------------------------------------------
(* Where the entries of the journal stand in the history. *)
Tracks(at) ==
  /\ at \in [DOMAIN journal -> Standing]
  /\ \A i \in DOMAIN journal : journal[i] = done[at[i]].call
  /\ \A i, j \in DOMAIN journal : i < j => at[i] < at[j]
  /\ \A n \in Standing : \E i \in DOMAIN journal : at[i] = n

LEMMA MaxIsLargest ==
  ASSUME NEW S \in SUBSET Nat, NEW m \in S, \A n \in S : n <= m
  PROVE  Max(S) = m
<1>1. \A x \in S : (\A y \in S : x >= y) => x = m
  OBVIOUS
<1>2. \A y \in S : m >= y
  OBVIOUS
<1> QED
  BY <1>1, <1>2 DEF Max

LEMMA RecordedTracks ==
  ASSUME DoneInv, NEW at, Tracks(at),
         NEW c \in Call, NEW approved \in BOOLEAN, Recorded(c, approved)
  PROVE  \E next : Tracks(next)'
<1> DEFINE k == Len(journal)  last == Len(done) + 1
           next == [i \in 1 .. k + 1 |-> IF i = k + 1 THEN last ELSE at[i]]
           e == [call |-> c, approved |-> approved, undone |-> FALSE]
<1>1. /\ done' \in Seq(Executed) /\ Len(done') = last
      /\ done'[last] = e /\ \A n \in DOMAIN done : done'[n] = done[n]
      /\ journal' = Append(journal, c) /\ journal' \in Seq(Call)
  BY RecordedAppends
<1>2. /\ k \in Nat /\ DOMAIN journal = 1 .. k /\ DOMAIN journal' = 1 .. k + 1
      /\ journal'[k + 1] = c /\ \A i \in 1 .. k : journal'[i] = journal[i]
  BY <1>1 DEF DoneInv
<1>3. /\ last \in Nat \ {0} /\ DOMAIN done = 1 .. last - 1 /\ DOMAIN done' = 1 .. last
      /\ \A n \in DOMAIN done : n \in Nat /\ n < last
  BY <1>1 DEF DoneInv
<1> HIDE DEF k, last
<1>4. Standing' = Standing \cup {last}
  <2>1. ~done'[last].undone
    BY <1>1
  <2>2. DOMAIN done' = DOMAIN done \cup {last} /\ last \notin DOMAIN done
    BY <1>3
  <2> QED
    BY <1>1, <2>1, <2>2 DEF Standing
<1>5. \A i \in 1 .. k : at[i] \in Standing /\ at[i] \in DOMAIN done
  BY <1>2 DEF Tracks, Standing
<1>6. /\ next[k + 1] = last /\ k + 1 \in 1 .. k + 1
      /\ \A i \in 1 .. k : i # k + 1 /\ i \in 1 .. k + 1 /\ next[i] = at[i]
      /\ \A i \in 1 .. k + 1 : i \in 1 .. k \/ i = k + 1
  BY <1>2
<1>7. next \in [DOMAIN journal' -> Standing']
  BY <1>2, <1>4, <1>5
<1> HIDE DEF next
<1>8. \A i \in DOMAIN journal' : journal'[i] = done'[next[i]].call
  <2>1. ASSUME NEW i \in 1 .. k PROVE journal'[i] = done'[next[i]].call
    <3>1. journal[i] = done[at[i]].call /\ done'[at[i]] = done[at[i]]
      BY <1>1, <1>2, <1>5 DEF Tracks
    <3> QED
      BY <3>1, <1>2, <1>6
  <2>2. journal'[k + 1] = done'[next[k + 1]].call
    <3>1. done'[last].call = c
      BY <1>1
    <3> QED
      BY <3>1, <1>2, <1>6
  <2> QED
    BY <1>2, <1>6, <2>1, <2>2
<1>9. \A i, j \in DOMAIN journal' : i < j => next[i] < next[j]
  <2> SUFFICES ASSUME NEW i \in 1 .. k + 1, NEW j \in 1 .. k + 1, i < j
               PROVE  next[i] < next[j]
    BY <1>2
  <2>1. i \in 1 .. k
    BY <1>2
  <2>2. CASE j = k + 1
    BY <1>3, <1>5, <1>6, <2>1, <2>2
  <2>3. CASE j \in 1 .. k
    BY <1>2, <1>6, <2>1, <2>3 DEF Tracks
  <2> QED
    BY <1>6, <2>2, <2>3
<1>10. \A n \in Standing' : \E i \in DOMAIN journal' : next[i] = n
  BY <1>2, <1>4, <1>6 DEF Tracks
<1>11. PICK rigid : rigid = next
  OBVIOUS
<1>12. Tracks(rigid)'
  BY <1>7, <1>8, <1>9, <1>10, <1>11 DEF Tracks
<1> QED
  BY <1>12

LEMMA UndoTracks ==
  ASSUME DoneInv, NEW at, Tracks(at), Undo
  PROVE  \E next : Tracks(next)'
<1> DEFINE k == Len(journal)
           next == [i \in 1 .. k - 1 |-> at[i]]
<1>1. /\ k \in Nat \ {0} /\ DOMAIN journal = 1 .. k
      /\ journal' \in Seq(Call) /\ DOMAIN journal' = 1 .. k - 1
      /\ \A i \in 1 .. k - 1 : journal'[i] = journal[i]
  BY DEF Undo, Popped, DoneInv
<1>2. /\ done' \in Seq(Executed) /\ Len(done') = Len(done)
      /\ \A i \in DOMAIN done : /\ done'[i].call = done[i].call
                                /\ done'[i].undone = (done[i].undone \/ i = Max(Standing))
  BY UndoKeeps
<1>3. DOMAIN done' = DOMAIN done /\ \A n \in DOMAIN done : n \in Nat
  BY <1>2 DEF DoneInv
<1> HIDE DEF k
<1>4. at[k] \in Standing /\ \A n \in Standing : n <= at[k]
  <2>1. at[k] \in Standing
    BY <1>1 DEF Tracks
  <2>2. ASSUME NEW n \in Standing PROVE n <= at[k]
    <3>1. PICK i \in 1 .. k : at[i] = n
      BY <1>1 DEF Tracks
    <3>2. i = k \/ at[i] < at[k]
      BY <1>1 DEF Tracks
    <3>3. at[k] \in Nat /\ n \in Nat
      BY <2>1, <1>3 DEF Standing
    <3> QED
      BY <3>1, <3>2, <3>3
  <2> QED
    BY <2>1, <2>2
<1>5. Max(Standing) = at[k]
  <2>1. Standing \in SUBSET Nat
    BY <1>3 DEF Standing
  <2> QED
    BY <2>1, <1>4, MaxIsLargest
<1>6. Standing' = Standing \ {at[k]}
  BY <1>2, <1>3, <1>5 DEF Standing
<1>7. /\ \A i \in 1 .. k - 1 : next[i] = at[i] /\ i \in 1 .. k /\ at[i] # at[k]
      /\ \A i \in 1 .. k : i \in 1 .. k - 1 \/ i = k
  <2>1. ASSUME NEW i \in 1 .. k - 1 PROVE i \in 1 .. k /\ at[i] # at[k]
    <3>1. i \in 1 .. k /\ k \in 1 .. k /\ i < k
      BY <1>1
    <3>2. at[i] < at[k]
      BY <3>1, <1>1 DEF Tracks
    <3>3. at[i] \in Nat /\ at[k] \in Nat
      BY <3>1, <1>1, <1>3 DEF Tracks, Standing
    <3> QED
      BY <3>1, <3>2, <3>3
  <2> QED
    BY <2>1, <1>1
<1>8. next \in [DOMAIN journal' -> Standing']
  BY <1>1, <1>6, <1>7 DEF Tracks
<1> HIDE DEF next
<1>9. \A i \in DOMAIN journal' : journal'[i] = done'[next[i]].call
  <2>1. ASSUME NEW i \in 1 .. k - 1 PROVE journal'[i] = done'[next[i]].call
    <3>1. at[i] \in DOMAIN done
      BY <1>1, <1>7 DEF Tracks, Standing
    <3>2. journal[i] = done[at[i]].call
      BY <1>1, <1>7 DEF Tracks
    <3> QED
      BY <3>1, <3>2, <1>1, <1>2, <1>7
  <2> QED
    BY <1>1, <2>1
<1>10. \A i, j \in DOMAIN journal' : i < j => next[i] < next[j]
  BY <1>1, <1>7 DEF Tracks
<1>11. \A n \in Standing' : \E i \in DOMAIN journal' : next[i] = n
  BY <1>1, <1>6, <1>7 DEF Tracks
<1>12. PICK rigid : rigid = next
  OBVIOUS
<1>13. Tracks(rigid)'
  BY <1>8, <1>9, <1>10, <1>11, <1>12 DEF Tracks
<1> QED
  BY <1>13

JournalInv == DoneInv /\ \E at : Tracks(at)

LEMMA JournalInit == Init => JournalInv
<1> SUFFICES ASSUME Init PROVE Tracks(<<>>)
  BY DoneInit DEF JournalInv
<1>1. journal = <<>> /\ done = <<>> /\ Standing = {}
  BY DEF Init, Standing
<1> QED
  BY <1>1 DEF Tracks

LEMMA JournalStep == JournalInv /\ [Next]_vars => JournalInv'
<1> SUFFICES ASSUME JournalInv, [Next]_vars PROVE \E at : Tracks(at)'
  BY DoneStep DEF JournalInv
<1>1. PICK at : Tracks(at)
  BY DEF JournalInv
<1>2. ASSUME NEW c \in Call, NEW approved \in BOOLEAN, Step(c, approved)
      PROVE  \E next : Tracks(next)'
  BY <1>1, <1>2, RecordedTracks DEF JournalInv, Step
<1>5. ASSUME NEW c \in Call, Record(c) PROVE \E next : Tracks(next)'
  BY <1>1, <1>5, RecordedTracks DEF JournalInv, Record
<1>3. CASE Undo
  BY <1>1, <1>3, UndoTracks DEF JournalInv
<1>4. CASE UNCHANGED <<journal, done>>
  BY <1>1, <1>4 DEF Tracks, Standing
<1> QED
  BY <1>2, <1>3, <1>4, <1>5 DEF Next, vars, Grant, NewHost, Register, NewRuntime, Send

(* ActionJournal: after any steps, refusals and undos the journal lists the
   actions that stand, in the order in which they were executed. *)
THEOREM JournalIsExact == Spec => []JournalIsWhatStands
<1>1. JournalInv => JournalIsWhatStands
  BY DEF JournalInv, DoneInv, Tracks, JournalIsWhatStands
<1> QED
  BY JournalInit, JournalStep, <1>1, PTL DEF Spec
-------------------------------------------------------------------------------
(* Redaction.  Nothing is kept of what holds no position. *)
LEMMA KeepNothing == ASSUME NEW s PROVE Keep(s, {}) = <<>> /\ Len(Keep(s, {})) = 0
<1>1. Cardinality({}) = 0
  BY FS_EmptySet
<1>2. 1 .. 0 = {}
  OBVIOUS
<1>3. Keep(s, {}) = [n \in 1 .. 0 |-> s[Arranged({}, Ascending({}))[n]]]
  BY <1>1 DEF Keep, Picked
<1> QED
  BY <1>2, <1>3

(* No detector answers to a placeholder: it has no digit and no @, and brackets. *)
LEMMA PlaceholderIsPlain ==
  ASSUME NEW f \in Finding, NEW cfg PROVE Detect(Placeholder(f), cfg) = Kept
<1> DEFINE w == Placeholder(f)
<1>1. PICK x : w = <<"[", x, "]">> /\ x \in {"REDACTED_EMAIL", "REDACTED_CARD", "REDACTED_SECRET"}
  BY DEF Placeholder, Finding
<1>2. DOMAIN w = 1 .. 3 /\ w[1] = "[" /\ w[2] = x /\ w[3] = "]" /\ Len(w) = 3
  BY <1>1
<1> HIDE DEF w
<1>3. \A i \in DOMAIN w : w[i] # "@" /\ w[i] \notin ToSet(Digit)
  <2>1. ToSet(Digit) = {"0", "1", "2", "3", "4", "5", "6", "7", "8", "9"}
    <3>1. DOMAIN Digit = 1 .. 10
      BY DEF Digit
    <3>2. 1 .. 10 = {1, 2, 3, 4, 5, 6, 7, 8, 9, 10}
      OBVIOUS
    <3>3. /\ Digit[1] = "0" /\ Digit[2] = "1" /\ Digit[3] = "2" /\ Digit[4] = "3" /\ Digit[5] = "4"
          /\ Digit[6] = "5" /\ Digit[7] = "6" /\ Digit[8] = "7" /\ Digit[9] = "8" /\ Digit[10] = "9"
      BY DEF Digit
    <3> QED
      BY <3>1, <3>2, <3>3 DEF ToSet
  <2>2. \A i \in DOMAIN w : i = 1 \/ i = 2 \/ i = 3
    BY <1>2
  <2> QED
    BY <1>1, <1>2, <2>1, <2>2
<1>4. ~LooksLikeEmail(w)
  BY <1>3 DEF LooksLikeEmail
<1>5. ~LooksLikeCard(w)
  <2>1. Digits(w) = {}
    BY <1>3 DEF Digits
  <2>2. Cardinality(Digits(w)) = 0
    BY <2>1, FS_EmptySet
  <2> QED
    BY <2>2, CardAssumption DEF LooksLikeCard
<1>6. ~LooksLikeApiKey(w)
  <2>1. w[1] \notin KeyPrefixes
    BY <1>2 DEF KeyPrefixes
  <2>2. "[" \in ToSet(w)
    BY <1>2 DEF ToSet
  <2> QED
    BY <2>1, <2>2 DEF LooksLikeApiKey, Punctuation
<1> QED
  BY <1>4, <1>5, <1>6 DEF Detect, w

(* Nothing is detected in what redact has left of a text. *)
LEMMA RedactedIsPlain ==
  ASSUME NEW text, NEW cfg
  PROVE  LET left == Redact(text, cfg).text IN
         Redact(left, cfg).findings = <<>> /\ Redact(left, cfg).text = left
<1> DEFINE left == Redact(text, cfg).text
           at(i) == Detect(text[i], cfg)
<1>1. left = [i \in DOMAIN text |-> IF at(i) = Kept THEN text[i] ELSE Placeholder(at(i))]
  BY DEF Redact
<1>2. \A i : at(i) = Kept \/ at(i) \in Finding
  BY DEF Detect, Finding
<1>3. \A i \in DOMAIN text : at(i) = Detect(text[i], cfg)
  OBVIOUS
<1> HIDE DEF at, left
<1>4. ASSUME NEW i \in DOMAIN left PROVE Detect(left[i], cfg) = Kept
  <2>1. i \in DOMAIN text /\ left[i] = IF at(i) = Kept THEN text[i] ELSE Placeholder(at(i))
    BY <1>1
  <2> QED
    BY <1>2, <1>3, <2>1, PlaceholderIsPlain
<1> DEFINE f == [i \in DOMAIN left |-> Detect(left[i], cfg)]
<1>5. Redact(left, cfg).findings = Keep(f, {i \in DOMAIN left : f[i] # Kept})
  BY DEF Redact
<1>6. {i \in DOMAIN left : f[i] # Kept} = {}
  BY <1>4
<1>7. Redact(left, cfg).text = [i \in DOMAIN left |-> left[i]]
  <2>1. Redact(left, cfg).text = [i \in DOMAIN left |->
          LET found == Detect(left[i], cfg)
          IN  IF found = Kept THEN left[i] ELSE Placeholder(found)]
    BY DEF Redact
  <2> QED
    BY <1>4, <2>1
<1>8. left = [i \in DOMAIN left |-> left[i]]
  BY <1>1
<1> HIDE DEF f
<1> QED
  BY <1>5, <1>6, <1>7, <1>8, KeepNothing DEF left

(* Whatever text is sent under whatever settings, redacting what left the device
   finds nothing and changes nothing (redact; the fuzz target's claim). *)
THEOREM RedactionIsIdempotent == Spec => []NothingDetectableLeaves
<1>1. Init => NothingDetectableLeaves
  <2> SUFFICES ASSUME Init PROVE NothingDetectableLeaves
    OBVIOUS
  <2>1. Redact(<<>>, DefaultConfig).text = <<>>
    BY DEF Redact
  <2>2. /\ Redact(<<>>, DefaultConfig).findings = <<>>
        /\ Redact(<<>>, DefaultConfig).text = <<>>
    BY <2>1, RedactedIsPlain
  <2>3. sent.left = <<>> /\ sent.cfg = DefaultConfig
    BY DEF Init, NothingSent
  <2> QED
    BY <2>2, <2>3 DEF NothingDetectableLeaves
<1>2. NothingDetectableLeaves /\ [Next]_vars => NothingDetectableLeaves'
  <2> SUFFICES ASSUME NothingDetectableLeaves, [Next]_vars PROVE NothingDetectableLeaves'
    OBVIOUS
  <2>1. CASE UNCHANGED sent
    BY <2>1 DEF NothingDetectableLeaves
  <2>2. ASSUME NEW text, NEW cfg, Send(text, cfg) PROVE NothingDetectableLeaves'
    <3>1. sent'.left = Redact(text, cfg).text /\ sent'.cfg = cfg
      BY <2>2 DEF Send
    <3>2. Redact(sent'.left, sent'.cfg).findings = <<>> /\ Redact(sent'.left, sent'.cfg).text = sent'.left
      BY <3>1, RedactedIsPlain
    <3> QED
      BY <3>2 DEF NothingDetectableLeaves
  <2> QED
    BY <2>1, <2>2 DEF Next, vars, Grant, NewHost, Register, NewRuntime, Step, Record, Recorded, Undo
<1> QED
  BY <1>1, <1>2, PTL DEF Spec
(* For any text: what one setting replaces, the default settings replace too, and
   the findings are as many as the words replaced (redact). *)
THEOREM StricterHidesMore ==
  ASSUME NEW S, NEW text \in Seq(S), NEW cfg \in Config
  PROVE  SettingsOnlyHide(text, cfg)
<1> DEFINE at(i) == Detect(text[i], cfg)
           found == [i \in DOMAIN text |-> at(i)]
           hidden == {i \in DOMAIN text : Redact(text, cfg).text[i] # text[i]}
<1>1. DOMAIN text = 1 .. Len(text) /\ Len(text) \in Nat
  BY LenProperties
<1>2. ASSUME NEW i \in DOMAIN text, NEW c
      PROVE  Redact(text, c).text[i] = text[i] <=> Detect(text[i], c) = Kept
  <2>1. Redact(text, c).text[i] =
          IF Detect(text[i], c) = Kept THEN text[i] ELSE Placeholder(Detect(text[i], c))
    BY DEF Redact
  <2>2. Detect(text[i], c) = Kept \/ Detect(text[i], c) \in Finding
    BY DEF Detect, Finding
  <2>3. ASSUME Detect(text[i], c) \in Finding PROVE Placeholder(Detect(text[i], c)) # text[i]
    BY <2>3, PlaceholderIsPlain DEF Finding, Kept
  <2> QED
    BY <2>1, <2>2, <2>3 DEF Finding, Kept
<1>3. \A w : Detect(w, cfg) # Kept => Detect(w, DefaultConfig) # Kept
  BY DEF Detect, DefaultConfig, Kept
<1>4. \A i \in hidden : Redact(text, DefaultConfig).text[i] # text[i]
  BY <1>2, <1>3
<1>5. Len(Redact(text, cfg).findings) = Cardinality(hidden)
  <2>1. hidden = {i \in DOMAIN text : found[i] # Kept}
    BY <1>2
  <2>2. Redact(text, cfg).findings = Keep(found, {i \in DOMAIN text : found[i] # Kept})
    BY DEF Redact
  <2> HIDE DEF hidden
  <2>3. found \in Seq(Finding \cup {Kept}) /\ hidden \in SUBSET DOMAIN found
    <3>1. \A i \in DOMAIN text : at(i) \in Finding \cup {Kept}
      BY DEF Detect, Finding
    <3>2. DOMAIN found = DOMAIN text /\ found \in [1 .. Len(text) -> Finding \cup {Kept}]
      BY <1>1, <3>1
    <3> QED
      BY <1>1, <2>1, <3>2, FunctionIsSequence
  <2> HIDE DEF found
  <2> QED
    BY <2>1, <2>2, <2>3, KeepIs
<1> QED
  BY <1>4, <1>5 DEF SettingsOnlyHide, hidden
(* Luhn's checksum.  Characters that are digits have ten values, each its own. *)
LEMMA DigitsAre ==
  /\ \A c \in ToSet(Digit) : ValueOf(c) \in 0 .. 9
  /\ \A c, d \in ToSet(Digit) : ValueOf(c) = ValueOf(d) => c = d
<1>1. DOMAIN Digit = 1 .. 10
  BY DEF Digit
<1>2. \A c \in ToSet(Digit) : \E i \in 1 .. 10 : Digit[i] = c
  BY <1>1 DEF ToSet
<1>3. ASSUME NEW c \in ToSet(Digit) PROVE ValueOf(c) \in 0 .. 9 /\ Digit[ValueOf(c) + 1] = c
  <2> DEFINE at == CHOOSE i \in DOMAIN Digit : Digit[i] = c
  <2>1. at \in 1 .. 10 /\ Digit[at] = c
    BY <1>1, <1>2
  <2> HIDE DEF at
  <2>2. at - 1 \in 0 .. 9 /\ (at - 1) + 1 = at
    BY <2>1
  <2> QED
    BY <2>1, <2>2 DEF ValueOf, at
<1> QED
  BY <1>3

LEMMA WeightIs ==
  ASSUME NEW word, NEW i \in Digits(word)
  PROVE  Weight(word, i) \in 0 .. 9
<1>1. ValueOf(word[i]) \in 0 .. 9
  BY DigitsAre DEF Digits
<1> QED
  BY <1>1 DEF Weight

(* What a position adds to the sum. *)
Counted(word, n) == IF n \in Digits(word) THEN Weight(word, n) ELSE 0

LEMMA SumsAre ==
  ASSUME NEW S, NEW word \in Seq(S)
  PROVE  /\ Sums(word) \in [0 .. Len(word) -> Nat]
         /\ Sums(word)[0] = 0
         /\ \A n \in 1 .. Len(word) : Sums(word)[n] = Sums(word)[n - 1] + Counted(word, n)
<1> DEFINE N == Len(word)
           counted(n) == Counted(word, n)
           Rule(g) == g = [n \in 0 .. N |-> IF n = 0 THEN 0 ELSE g[n - 1] + counted(n)]
           sums == Sums(word)
<1>1. N \in Nat
  BY LenProperties
<1>2. \A n : counted(n) \in Nat
  BY WeightIs DEF Counted
<1>3. sums = CHOOSE g : Rule(g)
  BY DEF Sums, Counted
<1> HIDE DEF N, counted, sums
<1> DEFINE step == [p \in (1 .. N) \X Nat |-> p[2] + counted(p[1])]
<1>4. step \in [(1 .. N) \X Nat -> Nat]
  BY <1>2
<1>5. \A n \in 1 .. N, x \in Nat : step[<<n, x>>] = x + counted(n)
  OBVIOUS
<1> HIDE DEF step
<1>6. PICK f \in [0 .. N -> Nat] : f[0] = 0 /\ \A n \in 1 .. N : f[n] = step[<<n, f[n - 1]>>]
  <2>1. \E f : Iterated(f, Nat, N, 0, step)
    BY <1>1, <1>4, Iterates
  <2> QED
    BY <2>1 DEF Iterated
<1>7. \A n \in 1 .. N : f[n] = f[n - 1] + counted(n)
  <2> TAKE n \in 1 .. N
  <2>1. n - 1 \in 0 .. N
    BY <1>1
  <2>2. f[n - 1] \in Nat
    BY <1>6, <2>1
  <2> QED
    BY <1>5, <1>6, <2>2
<1>8. Rule(f)
  <2>1. \A n \in 0 .. N : f[n] = IF n = 0 THEN 0 ELSE f[n - 1] + counted(n)
    BY <1>1, <1>6, <1>7
  <2> QED
    BY <1>6, <2>1
<1>9. Rule(sums)
  BY <1>3, <1>8
<1>10. sums[0] = 0 /\ \A n \in 1 .. N : sums[n] = sums[n - 1] + counted(n)
  BY <1>1, <1>9
<1>11. sums = f
  <2> DEFINE T == {n \in Nat : n <= N => sums[n] = f[n]}
  <2>1. 0 \in T
    BY <1>6, <1>10
  <2>2. ASSUME NEW n \in Nat, n \in T PROVE n + 1 \in T
    <3>1. CASE n + 1 <= N
      <4>1. n + 1 \in 1 .. N /\ (n + 1) - 1 = n /\ sums[n] = f[n]
        BY <1>1, <2>2, <3>1
      <4> QED
        BY <1>7, <1>10, <4>1
    <3> QED
      BY <3>1
  <2>3. Nat \subseteq T
    BY <2>1, <2>2, Induction
  <2>4. \A n \in 0 .. N : sums[n] = f[n]
    BY <2>3
  <2> QED
    BY <1>6, <1>9, <2>4
<1> QED
  BY <1>6, <1>10, <1>11 DEF N, counted, sums

(* A slip changes what its own position adds, by less than ten, and nothing else. *)
LEMMA SlipCounts ==
  ASSUME NEW S, NEW word \in Seq(S), NEW i \in DOMAIN word, NEW d \in ToSet(Digit),
         word[i] \in ToSet(Digit) \ {d}
  PROVE  LET slip == [word EXCEPT ![i] = d] IN
         /\ Digits(slip) = Digits(word)
         /\ \A n : n # i => Counted(slip, n) = Counted(word, n)
         /\ Counted(slip, i) \in 0 .. 9 /\ Counted(word, i) \in 0 .. 9
         /\ Counted(slip, i) # Counted(word, i)
<1> DEFINE slip == [word EXCEPT ![i] = d]
           D == Digits(word)
           after == Cardinality({j \in D : j > i})
           x == ValueOf(word[i])
           y == ValueOf(d)
<1>1. DOMAIN slip = DOMAIN word /\ slip[i] = d /\ \A n \in DOMAIN word : n # i => slip[n] = word[n]
  OBVIOUS
<1> HIDE DEF slip
<1>2. Digits(slip) = D
  BY <1>1 DEF Digits
<1>3. i \in D /\ D \subseteq DOMAIN word
  BY DEF Digits
<1>4. x \in 0 .. 9 /\ y \in 0 .. 9 /\ x # y
  BY DigitsAre
<1>5. \A n : n # i => Counted(slip, n) = Counted(word, n)
  BY <1>1, <1>2, <1>3 DEF Counted, Weight
<1>6. /\ Counted(word, i) = IF after % 2 = 0 THEN x ELSE IF 2 * x > 9 THEN 2 * x - 9 ELSE 2 * x
      /\ Counted(slip, i) = IF after % 2 = 0 THEN y ELSE IF 2 * y > 9 THEN 2 * y - 9 ELSE 2 * y
  BY <1>1, <1>2, <1>3 DEF Counted, Weight
<1> HIDE DEF x, y, D, after
<1>7. /\ Counted(slip, i) \in 0 .. 9 /\ Counted(word, i) \in 0 .. 9
      /\ Counted(slip, i) # Counted(word, i)
  <2>1. CASE after % 2 = 0
    BY <1>4, <1>6, <2>1
  <2>2. CASE ~(after % 2 = 0)
    <3>1. /\ Counted(word, i) = IF 2 * x > 9 THEN 2 * x - 9 ELSE 2 * x
          /\ Counted(slip, i) = IF 2 * y > 9 THEN 2 * y - 9 ELSE 2 * y
      BY <1>6, <2>2
    <3> QED
      BY <1>4, <3>1
  <2> QED
    BY <2>1, <2>2
<1> QED
  BY <1>2, <1>5, <1>7 DEF slip, D

LEMMA TensApart ==
  ASSUME NEW a \in Nat, NEW b \in Nat, NEW x \in 0 .. 9, NEW y \in 0 .. 9, x # y,
         a % 10 = 0, b % 10 = 0
  PROVE  b # a + x - y
  OBVIOUS

(* For any word: a slip in one digit of a card number makes it none, so what is
   redacted as a card has passed the checksum of exactly these digits (luhn). *)
THEOREM SlipShows ==
  ASSUME NEW S, NEW word \in Seq(S)
  PROVE  SlipIsNoCard(word)
<1> SUFFICES ASSUME LooksLikeCard(word), NEW i \in DOMAIN word, NEW d \in ToSet(Digit),
                    word[i] \in ToSet(Digit) \ {d}, LooksLikeCard([word EXCEPT ![i] = d])
             PROVE  FALSE
  BY DEF SlipIsNoCard
<1> DEFINE slip == [word EXCEPT ![i] = d]
           N == Len(word)
           s == Sums(word)
           t == Sums(slip)
           p == Counted(word, i)
           q == Counted(slip, i)
<1>1. slip \in Seq(S \cup ToSet(Digit)) /\ Len(slip) = N /\ N \in Nat /\ DOMAIN word = 1 .. N
  OBVIOUS
<1>2. /\ \A n : n # i => Counted(slip, n) = Counted(word, n)
      /\ p \in 0 .. 9 /\ q \in 0 .. 9 /\ p # q
  BY SlipCounts
<1>3. /\ s \in [0 .. N -> Nat] /\ s[0] = 0
      /\ \A n \in 1 .. N : s[n] = s[n - 1] + Counted(word, n)
  BY SumsAre
<1>4. /\ t \in [0 .. N -> Nat] /\ t[0] = 0
      /\ \A n \in 1 .. N : t[n] = t[n - 1] + Counted(slip, n)
  BY <1>1, SumsAre
<1>5. s[N] % 10 = 0 /\ t[N] % 10 = 0
  BY <1>1 DEF LooksLikeCard, Luhn
<1>6. i \in 1 .. N
  BY <1>1
<1> HIDE DEF N, s, t, p, q, slip
<1> DEFINE T == {n \in Nat : n <= N => t[n] = IF n < i THEN s[n] ELSE s[n] + q - p}
<1>7. 0 \in T
  BY <1>3, <1>4, <1>6
<1>8. ASSUME NEW n \in Nat, n \in T PROVE n + 1 \in T
  <2> SUFFICES ASSUME n + 1 <= N
               PROVE  t[n + 1] = IF n + 1 < i THEN s[n + 1] ELSE s[n + 1] + q - p
    OBVIOUS
  <2> DEFINE u == Counted(word, n + 1)
             v == Counted(slip, n + 1)
  <2>1. n + 1 \in 1 .. N /\ (n + 1) - 1 = n /\ n \in 0 .. N /\ n + 1 \in 0 .. N
    BY <1>1
  <2>2. s[n + 1] = s[n] + u /\ t[n + 1] = t[n] + v
    BY <1>3, <1>4, <2>1
  <2>3. t[n] = IF n < i THEN s[n] ELSE s[n] + q - p
    BY <1>1, <1>8
  <2>4. n + 1 # i => u = v
    BY <1>2
  <2>5. n + 1 = i => u = p /\ v = q
    BY DEF p, q
  <2>6. s[n] \in Nat /\ t[n] \in Nat /\ u \in Nat
    <3>1. u \in Nat
      BY WeightIs DEF Counted
    <3> QED
      BY <1>3, <1>4, <2>1, <3>1
  <2> HIDE DEF u, v
  <2>7. CASE n + 1 = i
    BY <1>1, <1>2, <1>6, <2>2, <2>3, <2>5, <2>6, <2>7
  <2>8. CASE n + 1 # i
    <3>1. u = v /\ i \in Int /\ p \in Int /\ q \in Int
      BY <1>1, <1>2, <1>6, <2>4, <2>8
    <3>2. n < i <=> n + 1 < i
      BY <2>8, <3>1
    <3> QED
      BY <2>2, <2>3, <2>6, <3>1, <3>2
  <2> QED
    BY <2>7, <2>8
<1>9. Nat \subseteq T
  <2> HIDE DEF T
  <2> QED
    BY <1>7, <1>8, Induction
<1>10. t[N] = s[N] + q - p /\ s[N] \in Nat /\ t[N] \in Nat
  BY <1>1, <1>3, <1>4, <1>6, <1>9
<1> QED
  BY <1>2, <1>5, <1>10, TensApart
(* Decentralised identifiers: the least of some positions is one of them. *)
LEMMA MinIs ==
  ASSUME NEW T \in SUBSET Nat, T # {}
  PROVE  Min(T) \in T /\ \A n \in T : Min(T) <= n
<1>1. PICK m \in T : \A n \in T : m <= n
  BY Least
<1> QED
  BY <1>1 DEF Min

(* A word with two colons, cut at them. *)
LEMMA CutsAre ==
  ASSUME NEW S, NEW word \in Seq(S), ParseDid(word) # NoDid
  PROVE  \E m \in Nat :
           /\ 2 < m /\ m <= Len(word)
           /\ Len(word) \in Nat /\ word[1] = "did" /\ word[2] = ":" /\ word[m] = ":"
           /\ \A i \in 3 .. m - 1 : word[i] # ":"
           /\ ParseDid(word) = [method |-> SubSeq(word, 3, m - 1),
                                identifier |-> SubSeq(word, m + 1, Len(word))]
<1> DEFINE colons == {i \in DOMAIN word : word[i] = ":"}
           first == Min(colons)
           second == Min(colons \ {first})
           N == Len(word)
<1>1. N \in Nat /\ DOMAIN word = 1 .. N
  BY LenProperties
<1>2. ~(Cardinality(colons) < 2) /\ SubSeq(word, 1, first - 1) = <<"did">>
  BY DEF ParseDid
<1>3. IsFiniteSet(colons) /\ Cardinality(colons) \in Nat
  <2>1. IsFiniteSet(1 .. N)
    BY <1>1, FS_Interval
  <2> QED
    BY <1>1, <2>1, FS_Subset, FS_CardinalityType
<1>4. colons \in SUBSET Nat /\ \A i \in colons : i >= 1 /\ i <= N /\ word[i] = ":"
  BY <1>1
<1>5. \A i \in 1 .. N : word[i] = ":" => i \in colons
  BY <1>1
<1> DEFINE method == SubSeq(word, first + 1, second - 1)
           identifier == SubSeq(word, second + 1, N)
<1>6. ParseDid(word) = [method |-> method, identifier |-> identifier]
  BY DEF ParseDid
<1> HIDE DEF colons, N
<1>7. colons # {}
  <2>1. Cardinality(colons) # 0
    BY <1>2, <1>3
  <2> QED
    BY <1>3, <2>1, FS_EmptySet
<1>8. first \in colons /\ \A i \in colons : first <= i
  BY <1>4, <1>7, MinIs
<1> HIDE DEF first
<1>9. colons \ {first} # {}
  <2>1. IsFiniteSet(colons \ {first}) /\ Cardinality(colons \ {first}) = Cardinality(colons) - 1
    BY <1>3, <1>8, FS_RemoveElement
  <2>2. Cardinality(colons \ {first}) # 0
    BY <1>2, <1>3, <2>1
  <2> QED
    BY <2>1, <2>2, FS_EmptySet
<1>10. second \in colons \ {first} /\ \A i \in colons \ {first} : second <= i
  BY <1>4, <1>9, MinIs
<1> HIDE DEF second
<1>11. first = 2 /\ word[1] = "did"
  <2> DEFINE head == SubSeq(word, 1, first - 1)
  <2>1. \A i \in 1 .. first - 1 : word[i] \in S
    BY <1>1, <1>4, <1>8
  <2>2. 1 \in Int /\ first - 1 \in Int
    BY <1>4, <1>8
  <2>3. /\ Len(head) = IF 1 <= first - 1 THEN (first - 1) - 1 + 1 ELSE 0
        /\ \A i \in 1 .. (first - 1) - 1 + 1 : head[i] = word[1 + i - 1]
    BY <2>1, <2>2, SubSeqProperties
  <2>4. head = <<"did">>
    BY <1>2
  <2> HIDE DEF head
  <2>5. Len(head) = 1 /\ head[1] = "did"
    BY <2>4
  <2>6. first = 2
    <3>1. first \in Nat
      BY <1>4, <1>8
    <3>2. 1 = IF 1 <= first - 1 THEN (first - 1) - 1 + 1 ELSE 0
      BY <2>3, <2>5
    <3> QED
      BY <3>1, <3>2
  <2> QED
    BY <2>3, <2>5, <2>6
<1>12. /\ second \in Nat /\ 2 < second /\ second <= N /\ word[2] = ":" /\ word[second] = ":"
       /\ \A i \in 3 .. second - 1 : word[i] # ":"
  <2>1. second \in Nat /\ 2 < second /\ second <= N /\ word[2] = ":" /\ word[second] = ":"
    BY <1>4, <1>8, <1>10, <1>11
  <2>2. ASSUME NEW i \in 3 .. second - 1, word[i] = ":" PROVE FALSE
    <3>1. i \in 1 .. N /\ i # 2 /\ i < second
      BY <1>1, <2>1
    <3>2. i \in colons \ {first}
      BY <1>5, <1>11, <2>2, <3>1
    <3> QED
      BY <1>10, <2>1, <3>1, <3>2
  <2> QED
    BY <2>1, <2>2
<1>13. ParseDid(word) = [method |-> SubSeq(word, 3, second - 1),
                         identifier |-> SubSeq(word, second + 1, N)]
  BY <1>6, <1>11
<1> QED
  BY <1>1, <1>11, <1>12, <1>13 DEF N

(* x is the n characters of z after the first k. *)
PieceOf(x, W, z, k, n) ==
  x \in Seq(W) /\ Len(x) = n /\ \A i \in 1 .. n : x[i] = z[i + k]

LEMMA GluedIs ==
  ASSUME NEW W, NEW z, NEW x, NEW y, NEW m \in Nat, NEW n \in Nat,
         PieceOf(x, W, z, 0, m), PieceOf(y, W, z, m, n)
  PROVE  PieceOf(x \o y, W, z, 0, m + n)
<1> DEFINE k == x \o y
<1>1. x \in Seq(W) /\ y \in Seq(W) /\ Len(x) = m /\ Len(y) = n
  BY DEF PieceOf
<1>2. /\ k \in Seq(W) /\ Len(k) = Len(x) + Len(y)
      /\ \A i \in 1 .. Len(x) + Len(y) : k[i] = IF i <= Len(x) THEN x[i] ELSE y[i - Len(x)]
  BY <1>1, ConcatProperties
<1> HIDE DEF k
<1>3. ASSUME NEW i \in 1 .. m + n PROVE k[i] = z[i + 0]
  <2>1. k[i] = IF i <= m THEN x[i] ELSE y[i - m]
    BY <1>1, <1>2
  <2>2. CASE i <= m
    BY <2>1, <2>2 DEF PieceOf
  <2>3. CASE ~(i <= m)
    <3>1. i - m \in 1 .. n /\ (i - m) + m = i /\ i + 0 = i
      BY <2>3
    <3>2. y[i - m] = z[(i - m) + m]
      BY <3>1 DEF PieceOf
    <3> QED
      BY <2>1, <2>3, <3>1, <3>2
  <2> QED
    BY <2>2, <2>3
<1>4. Len(k) = m + n
  BY <1>1, <1>2
<1> QED
  BY <1>2, <1>3, <1>4 DEF PieceOf, k

(* For any word: what parse_did accepts is did, the method and the identifier put
   together again with their colons, and no colon is lost to the method. *)
THEOREM DidsRoundTrip ==
  ASSUME NEW S, NEW word \in Seq(S)
  PROVE  DidRoundTrip(word)
<1> SUFFICES ASSUME ParseDid(word) # NoDid
             PROVE  /\ word = <<"did", ":">> \o ParseDid(word).method \o <<":">> \o ParseDid(word).identifier
                    /\ ":" \notin ToSet(ParseDid(word).method)
  BY DEF DidRoundTrip
<1> DEFINE N == Len(word)
           W == S \cup {"did", ":"}
<1>1. PICK m \in Nat :
           /\ 2 < m /\ m <= N
           /\ N \in Nat /\ word[1] = "did" /\ word[2] = ":" /\ word[m] = ":"
           /\ \A i \in 3 .. m - 1 : word[i] # ":"
           /\ ParseDid(word) = [method |-> SubSeq(word, 3, m - 1),
                                identifier |-> SubSeq(word, m + 1, N)]
  BY CutsAre
<1> DEFINE a == SubSeq(word, 3, m - 1)
           b == SubSeq(word, m + 1, N)
           p == <<"did", ":">>
           q == <<":">>
<1>2. word \in Seq(W) /\ \A i \in 1 .. N : word[i] \in W
  BY LenProperties
<1>3. N = Len(word)
  OBVIOUS
<1> HIDE DEF N
<1>4. PieceOf(a, W, word, 2, m - 3)
  <2>1. \A i \in 3 .. m - 1 : word[i] \in W
    BY <1>1, <1>2
  <2>2. 3 \in Int /\ m - 1 \in Int
    BY <1>1
  <2>3. /\ a \in Seq(W) /\ Len(a) = IF 3 <= m - 1 THEN (m - 1) - 3 + 1 ELSE 0
        /\ \A i \in 1 .. (m - 1) - 3 + 1 : a[i] = word[3 + i - 1]
    BY <2>1, <2>2, SubSeqProperties
  <2> HIDE DEF a, W
  <2>4. a \in Seq(W) /\ Len(a) = m - 3 /\ \A i \in 1 .. m - 3 : a[i] = word[i + 2]
    BY <1>1, <2>3
  <2> QED
    BY <2>4 DEF PieceOf
<1>5. PieceOf(b, W, word, m, N - m)
  <2>1. \A i \in m + 1 .. N : word[i] \in W
    BY <1>1, <1>2
  <2>2. m + 1 \in Int /\ N \in Int
    BY <1>1
  <2>3. /\ b \in Seq(W) /\ Len(b) = IF m + 1 <= N THEN N - (m + 1) + 1 ELSE 0
        /\ \A i \in 1 .. N - (m + 1) + 1 : b[i] = word[m + 1 + i - 1]
    BY <2>1, <2>2, SubSeqProperties
  <2> HIDE DEF b, W
  <2>4. b \in Seq(W) /\ Len(b) = N - m /\ \A i \in 1 .. N - m : b[i] = word[i + m]
    BY <1>1, <2>3
  <2> QED
    BY <2>4 DEF PieceOf
<1>6. PieceOf(p, W, word, 0, 2)
  <2>1. p \in Seq(W) /\ Len(p) = 2 /\ p[1] = "did" /\ p[2] = ":"
    OBVIOUS
  <2> HIDE DEF p
  <2>2. \A i \in 1 .. 2 : (i = 1 \/ i = 2) /\ i + 0 = i
    OBVIOUS
  <2>3. \A i \in 1 .. 2 : p[i] = word[i + 0]
    BY <1>1, <2>1, <2>2
  <2> QED
    BY <2>1, <2>3 DEF PieceOf
<1>7. PieceOf(q, W, word, m - 1, 1)
  <2>1. q \in Seq(W) /\ Len(q) = 1 /\ q[1] = ":"
    OBVIOUS
  <2> HIDE DEF q
  <2>2. \A i \in 1 .. 1 : i = 1 /\ i + (m - 1) = m
    BY <1>1
  <2>3. \A i \in 1 .. 1 : q[i] = word[i + (m - 1)]
    BY <1>1, <2>1, <2>2
  <2> QED
    BY <2>1, <2>3 DEF PieceOf
<1> HIDE DEF a, b, p, q, W
<1>8. /\ m - 3 \in Nat /\ 2 + (m - 3) = m - 1 /\ m - 1 \in Nat /\ (m - 1) + 1 = m
      /\ N - m \in Nat /\ m + (N - m) = N
  BY <1>1
<1> DEFINE t == ((p \o a) \o q) \o b
<1>9. PieceOf(p \o a, W, word, 0, m - 1)
  <2>1. PieceOf(p \o a, W, word, 0, 2 + (m - 3))
    BY <1>4, <1>6, <1>8, GluedIs
  <2> QED
    BY <1>8, <2>1
<1>10. PieceOf(t, W, word, 0, N)
  <2>1. PieceOf((p \o a) \o q, W, word, 0, (m - 1) + 1)
    BY <1>7, <1>8, <1>9, GluedIs
  <2>2. PieceOf((p \o a) \o q, W, word, 0, m)
    BY <1>8, <2>1
  <2>3. PieceOf(t, W, word, 0, m + (N - m))
    BY <1>5, <1>8, <2>2, GluedIs
  <2> QED
    BY <1>8, <2>3
<1> HIDE DEF t
<1>11. word = t
  <2>1. t \in Seq(W) /\ Len(t) = N /\ \A i \in 1 .. N : t[i] = word[i + 0] /\ i + 0 = i
    BY <1>1, <1>10 DEF PieceOf
  <2> QED
    BY <1>2, <1>3, <2>1, SeqEqual
<1>12. word = <<"did", ":">> \o ParseDid(word).method \o <<":">> \o ParseDid(word).identifier
  BY <1>1, <1>11 DEF t, a, b, p, q
<1>13. ":" \notin ToSet(ParseDid(word).method)
  <2>1. ParseDid(word).method = a
    BY <1>1 DEF a
  <2>2. DOMAIN a = 1 .. m - 3
    BY <1>4, LenProperties DEF PieceOf
  <2>3. \A i \in 1 .. m - 3 : a[i] # ":"
    BY <1>1, <1>4 DEF PieceOf
  <2> QED
    BY <2>1, <2>2, <2>3 DEF ToSet
<1> QED
  BY <1>12, <1>13
===============================================================================
