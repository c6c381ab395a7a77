------------------------------ MODULE PolicyEngine ------------------------------
(***************************************************************************)
(* The whole crate: resolver, command line and bundle check                *)
(* (PolicyCommand), the spans that an embedding process builds or the      *)
(* policy simulator prints, the audit log (AuditLog), and the bridge that  *)
(* decides about extensions (ExtensionPolicy).  They share no state:       *)
(* provenance.rs says that the audit log uses the lines of spans, but no   *)
(* code appends one.                                                       *)
(***************************************************************************)
EXTENDS PolicyCommand, ExtensionPolicy

CONSTANTS Decision,     \* what is decided: [decision, source]
          Input,        \* what is attached: [k, v], numbers in their sort order
          Residency,    \* the input the simulator attaches
          Entry,        \* what callers append to the log
          MaxInputs,    \* bound: inputs of a span, each attached once
          MaxLen        \* bound: the length of the log

ASSUME InputAssumption ==
  /\ MaxInputs \in Nat /\ MaxLen \in Nat /\ Input \subseteq [k : Nat, v : Nat]

VARIABLES span,         \* the DecisionSpan that is being built
          line,         \* the last line that to_log_line returned
          leaves        \* AuditLog.leaves

engineVars == <<cmdVars, span, line, leaves, table>>

-------------------------------------------------------------------------------
NewSpan(d) == [decision |-> d.decision, source |-> d.source, inputs |-> <<>>]

PairBefore(a, b) == a.k < b.k \/ (a.k = b.k /\ a.v < b.v)

(* with_input: push, then sort the pairs. *)
WithInput(s, input) == [s EXCEPT !.inputs = Sort(Append(@, input), PairBefore)]

(* to_log_line: the fields in a fixed order, then the inputs one after another. *)
ToLogLine(s) == [head |-> <<s.decision, s.source>>, tail |-> s.inputs]

(* policy-simulator: three layers of one key, the highest of them decides. *)
Scenario == <<[layer |-> 0, value |-> "b2030b", locked |-> FALSE],
              [layer |-> 1, value |-> "google", locked |-> FALSE],
              [layer |-> 3, value |-> "quad9", locked |-> TRUE]>>
Simulated ==
  LET resolved == Last(FoldLeft(SetIn, <<>>, Scenario))
  IN  WithInput(NewSpan([decision |-> resolved.value, source |-> resolved.layer]), Residency)

(* The lines there are: whatever the order in which they were attached, the
   inputs of a decision are written in theirs. *)
PairOrder == {p \in Input \X Input : PairBefore(p[1], p[2])}
Line == {ToLogLine(Simulated)}
        \cup {ToLogLine([NewSpan(d) EXCEPT !.inputs = Arranged(i, PairOrder)]) :
                d \in Decision, i \in SUBSET Input}

Log == INSTANCE AuditLog

NoSpan == [decision |-> "none", source |-> NoLayer, inputs |-> <<>>]
NoLine == ToLogLine(NoSpan)

EngineInit == CmdInit /\ Log!Init /\ span = NoSpan /\ line = NoLine /\ BridgeInit

(* A decision is made: a new span. *)
Decide(d) == span' = NewSpan(d) /\ UNCHANGED line

Attach(input) == /\ span # NoSpan /\ Len(span.inputs) < MaxInputs
                 /\ input \notin ToSet(span.inputs)
                 /\ span' = WithInput(span, input) /\ UNCHANGED line

(* A line of the span so far, which stays as it is. *)
Emit == span # NoSpan /\ line' = ToLogLine(span) /\ UNCHANGED span

(* main of the simulator prints the line of its one decision. *)
Simulate == line' = ToLogLine(Simulated) /\ UNCHANGED span

Trace == \/ \E d \in Decision : Decide(d)
         \/ \E i \in Input : Attach(i)
         \/ Emit \/ Simulate

EngineNext == \/ use = "trace" /\ Trace /\ UNCHANGED <<cmdVars, leaves, table>>
              \/ /\ use = "audit" /\ \E e \in Entry : Log!AppendEntry(e)
                 /\ UNCHANGED <<cmdVars, span, line, table>>
              \/ use = "bridge" /\ BridgeNext /\ UNCHANGED <<cmdVars, span, line, leaves>>
              \/ CmdNext /\ UNCHANGED <<span, line, leaves, table>>

EngineSpec == EngineInit /\ [][EngineNext]_engineVars

-------------------------------------------------------------------------------
EngineTypeOK == /\ CmdTypeOK /\ Log!TypeOK /\ BridgeTypeOK
                /\ ToSet(span.inputs) \subseteq Input /\ Len(span.inputs) <= MaxInputs
                /\ line \in Line \cup {NoLine}

TamperEvident == Log!TamperEvident
TruncationEvident == Log!TruncationEvident

(* "inputs are kept sorted for deterministic serialization" (provenance.rs): the
   line of a decision does not depend on the order in which its inputs came. *)
Attaching(order, s) ==
  LET after[n \in 0 .. Len(order)] ==
        IF n = 0 THEN s ELSE WithInput(after[n - 1], order[n])
  IN  after
LineIsReproducible(d, inputs) ==
  \A a, b \in SetToSeqs(inputs) :
    ToLogLine(Attaching(a, NewSpan(d))[Len(a)]) = ToLogLine(Attaching(b, NewSpan(d))[Len(b)])
===============================================================================
