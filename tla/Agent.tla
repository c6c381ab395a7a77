--------------------------------- MODULE Agent ---------------------------------
(***************************************************************************)
(* The supervised agent: an MCP host with its tools and per-site grants,   *)
(* the approval gate and the journal of agent-runtime, and the text that   *)
(* leaves the device through redaction.  A policy is filled, a host is     *)
(* built on it and handed to a runtime, and from then on all three, the    *)
(* runtime's journal too, are out of reach: it is only appended to.  A     *)
(* journal that an embedder keeps can be undone, and texts are redacted    *)
(* without either; none shares state with another, so a behaviour is of    *)
(* one of them.  Who calls step, approves, records, undoes and sends is    *)
(* outside the repository: any order will do.                              *)
(***************************************************************************)
EXTENDS Redaction, FiniteSets

CONSTANTS Site,
          Granted,      \* the permissions that are granted at some time
          CustomTools,  \* what an embedder registers: [name, permission]
          Called,       \* the names that agents call
          TextToSend,
          MaxSteps      \* bound: actions that are recorded

StandardTools == [t \in {"navigate", "click", "type", "scroll", "read_page", "fetch"} |->
  CASE t = "read_page" -> "agent.observe" [] t = "fetch" -> "agent.network"
    [] OTHER -> "agent.actuate"]

Supervision == {"StepByStep", "Supervised"}
Call == [tool : Called, site : Site]

VARIABLES stage,        \* what exists: the policy, the host, or the runtime in its mode;
                        \* "keeping" a journal, "sending" texts
          grants,       \* AgentPolicy.grants
          tools,        \* McpHost.tools: the permission each tool requires
          journal,      \* ActionJournal.entries
          done,         \* history: the recorded actions, and whether they were undone
          sent          \* the text that was read, the one that left, and the settings

vars == <<stage, grants, tools, journal, done, sent>>

NothingSent == [read |-> <<>>, left |-> <<>>, findings |-> <<>>, cfg |-> DefaultConfig]

Init == /\ stage = "policy" /\ grants = [s \in Site |-> {}] /\ tools = <<>>
        /\ journal = <<>> /\ done = <<>> /\ sent = NothingSent

-------------------------------------------------------------------------------
(* AgentPolicy::grant *)
Grant(site, permission) ==
  /\ stage = "policy"
  /\ grants' = [grants EXCEPT ![site] = @ \cup {permission}]
  /\ UNCHANGED <<stage, tools, journal, done, sent>>

(* McpHost::new and with_standard_tools take the policy over. *)
NewHost(standard) ==
  /\ stage = "policy" /\ stage' = "host"
  /\ tools' = IF standard THEN StandardTools ELSE <<>>
  /\ UNCHANGED <<grants, journal, done, sent>>

(* McpHost::register: the last registration of a name counts. *)
Register(tool) ==
  /\ stage = "host"
  /\ tools' = [t \in DOMAIN tools \cup {tool.name} |->
                 IF t = tool.name THEN tool.permission ELSE tools[t]]
  /\ UNCHANGED <<stage, grants, journal, done, sent>>

(* AgentRuntime::new takes the host over. *)
NewRuntime(supervision) ==
  /\ stage = "host" /\ stage' = supervision
  /\ UNCHANGED <<grants, tools, journal, done, sent>>

Allows(site, permission) == permission \in grants[site]

(* McpHost::authorize *)
Authorize(call) ==
  IF call.tool \notin DOMAIN tools THEN "UnknownTool"
  ELSE IF Allows(call.site, tools[call.tool]) THEN "Allowed" ELSE "Denied"

(* ActionJournal::record *)
Recorded(call, approved) ==
  /\ Len(done) < MaxSteps
  /\ journal' = Append(journal, call)
  /\ done' = Append(done, [call |-> call, approved |-> approved, undone |-> FALSE])
  /\ UNCHANGED <<grants, tools, sent>>

(* Faulty variant of Step: without the gate. *)
StepUngated(call, approved) ==
  /\ stage \in Supervision /\ UNCHANGED stage
  /\ Authorize(call) = "Allowed"
  /\ Recorded(call, approved)

(* AgentRuntime::step; the other results (AwaitingApproval, BlockedByPolicy,
   UnknownTool) change nothing. *)
Step(call, approved) ==
  /\ stage \in Supervision /\ UNCHANGED stage
  /\ ~(stage = "StepByStep" /\ ~approved)
  /\ Authorize(call) = "Allowed"
  /\ Recorded(call, approved)

Untouched == grants = [s \in Site |-> {}]

(* An embedder records an action in a journal of its own, ungated. *)
Record(call) ==
  /\ Untouched /\ stage \in {"policy", "keeping"} /\ stage' = "keeping"
  /\ Recorded(call, FALSE)

(* The journal without the entry that undo pops; the caller performs the inverse operation, on the
   last action of that kind that still stands. *)
Standing == {i \in DOMAIN done : ~done[i].undone}

(* Faulty variant of Popped: the oldest entry. *)
PoppedFirst == Tail(journal)
Popped == SubSeq(journal, 1, Len(journal) - 1)

(* ActionJournal::undo *)
Undo ==
  /\ stage = "keeping" /\ journal # <<>>
  /\ journal' = Popped
  /\ done' = [done EXCEPT ![Max(Standing)] = [@ EXCEPT !.undone = TRUE]]
  /\ UNCHANGED <<stage, grants, tools, sent>>

(* A text leaves the device: redact, under the settings in force.  The runtime
   never calls it. *)
Send(text, cfg) ==
  LET redacted == Redact(text, cfg) IN
  /\ Untouched /\ stage \in {"policy", "sending"} /\ stage' = "sending"
  /\ sent' = [read |-> text, left |-> redacted.text, findings |-> redacted.findings, cfg |-> cfg]
  /\ UNCHANGED <<grants, tools, journal, done>>

Next == \/ \E s \in Site, p \in Granted : Grant(s, p)
        \/ \E standard \in BOOLEAN : NewHost(standard)
        \/ \E t \in CustomTools : Register(t)
        \/ \E s \in Supervision : NewRuntime(s)
        \/ \E c \in Call, approved \in BOOLEAN : Step(c, approved)
        \/ (\E c \in Call : Record(c)) \/ Undo
        \/ \E text \in TextToSend, cfg \in Config : Send(text, cfg)

Spec == Init /\ [][Next]_vars

-------------------------------------------------------------------------------
(* "Each tool invocation is checked against the per-site agent policy before it
   is allowed" (mcp-host), and "Each action requires explicit approval" step by
   step (agent-runtime): so it is for everything that a runtime ever executed. *)
NothingUngated ==
  stage \in Supervision => \A i \in DOMAIN done :
    LET call == done[i].call IN
    /\ call.tool \in DOMAIN tools /\ tools[call.tool] \in grants[call.site]
    /\ stage = "StepByStep" => done[i].approved

(* A journal lists exactly the actions that stand, in the order in which they were
   recorded, after any records and undos: undoing it from its end takes back the
   latest first.  A runtime, which undoes nothing, has all that it ever executed
   in it, which is what action_count counts. *)
JournalIsWhatStands ==
  \E at \in [DOMAIN journal -> Standing] :
    /\ \A i \in DOMAIN journal : journal[i] = done[at[i]].call
    /\ \A i, j \in DOMAIN journal : i < j => at[i] < at[j]
    /\ \A n \in Standing : \E i \in DOMAIN journal : at[i] = n
    /\ stage \in Supervision => Len(journal) = Len(done)

(* Redacting again finds nothing ("Redaction must be idempotent", the fuzz
   target): no placeholder looks like a secret, nothing detectable is left. *)
NothingDetectableLeaves ==
  /\ Redact(sent.left, sent.cfg).findings = <<>>
  /\ Redact(sent.left, sent.cfg).text = sent.left
===============================================================================
