----------------------------- MODULE CopilotClient -----------------------------
(***************************************************************************)
(* The copilot panel of ui/shell-desktop/src/main.ts: the main thread      *)
(* (CopilotClient, toggleCopilot, askCopilot, scheduleNudges) and the web  *)
(* worker of copilot/worker.ts exchange numbered messages over two ordered *)
(* channels.  Texts are left out: a bubble records who speaks and which    *)
(* question it answers.                                                    *)
(***************************************************************************)
EXTENDS Naturals, Sequences, SequencesExt, FiniteSetsExt

CONSTANTS MaxCalls,     \* bound: messages posted to the worker
          MaxAsks       \* bound: questions the user asks

ASSUME CopilotBounds == MaxCalls \in Nat /\ MaxAsks \in Nat

VARIABLES worker,       \* "none": the constructor threw; "alive"; "dead"
          seq,          \* CopilotClient.seq
          pending,      \* CopilotClient.pending: ids with an unresolved promise
          inbox,        \* messages posted to the worker
          outbox,       \* messages posted by the worker
          open,         \* copilotOpen
          asked,        \* how many questions the user has asked
          stream        \* the bubbles of the panel

copilotVars == <<worker, seq, pending, inbox, outbox, open, asked, stream>>

Kind == {"ask", "chips", "nudge"}
Question == 0..MaxAsks             \* 0: not about a question
Request == [id : 1..MaxCalls, kind : Kind, question : Question]
Response == [id : 1..MaxCalls, kind : Kind, question : Question, item : BOOLEAN]
Bubble == [role : {"me", "ai", "suggest"}, question : Question]

CopilotTypeOK == /\ worker \in {"none", "alive", "dead"}
          /\ seq \in 0..MaxCalls
          /\ pending \subseteq 1..MaxCalls
          /\ inbox \in Seq(Request)
          /\ outbox \in Seq(Response)
          /\ open \in BOOLEAN
          /\ asked \in Question
          /\ stream \in Seq(Bubble)

CopilotInit == /\ worker \in {"none", "alive"}
        /\ seq = 0 /\ pending = {} /\ inbox = <<>> /\ outbox = <<>>
        /\ open = FALSE /\ asked = 0 /\ stream = <<>>

-------------------------------------------------------------------------------
Say(role, q) == <<[role |-> role, question |-> q]>>

(* The greeting of toggleCopilot, once. *)
Greeted == IF stream = <<>> THEN Say("ai", 0) ELSE stream

(* call: number the message, remember its promise, post it.  `kinds` are the
   calls made one after the other in a single task of the main thread. *)
Call(kinds, q) ==
  /\ seq + Len(kinds) <= MaxCalls
  /\ seq' = seq + Len(kinds)
  /\ pending' = pending \cup (seq + 1)..(seq + Len(kinds))
  /\ inbox' = inbox \o
       [i \in DOMAIN kinds |-> [id |-> seq + i, kind |-> kinds[i], question |-> q]]

NoCall == UNCHANGED <<seq, pending, inbox>>

(* askCopilot: opens the panel (which asks for chips), shows the question and
   asks.  Without a worker the local engine answers at once. *)
Ask ==
  /\ asked < MaxAsks
  /\ asked' = asked + 1
  /\ open' = TRUE
  /\ \/ /\ worker = "none" /\ NoCall
        /\ stream' = Greeted \o Say("me", asked + 1) \o Say("ai", asked + 1)
     \/ /\ worker # "none" /\ Call(<<"chips", "ask">>, asked + 1)
        /\ stream' = Greeted \o Say("me", asked + 1)
  /\ UNCHANGED <<worker, outbox>>

(* toggleCopilot by its buttons and by the palette, which opens the panel
   whether or not it is open. *)
Toggle(force) ==
  /\ open' = force
  /\ \/ /\ ~force /\ NoCall /\ UNCHANGED stream
     \/ /\ force /\ stream' = Greeted
        /\ IF worker = "none" THEN NoCall ELSE Call(<<"chips">>, 0)
  /\ UNCHANGED <<worker, outbox, asked>>

(* The interval of scheduleNudges; without a worker the nudge, if the context
   gives one, is pushed at once.  The last conjunct bounds an instance. *)
Nudge ==
  /\ \/ /\ worker = "none" /\ NoCall
        /\ \/ open /\ stream' = stream \o Say("suggest", 0)
           \/ UNCHANGED stream
     \/ /\ worker # "none" /\ Call(<<"nudge">>, 0) /\ UNCHANGED stream
  /\ UNCHANGED <<worker, outbox, open, asked>>
  /\ Len(stream) < MaxCalls

(* Faulty variant of WorkerStep: the newest message is handled first. *)
WorkerStepNewest ==
  /\ worker = "alive" /\ inbox # <<>>
  /\ LET m == Last(inbox) IN
       outbox' = Append(outbox, [id |-> m.id, kind |-> m.kind,
                                 question |-> m.question, item |-> TRUE])
  /\ inbox' = Front(inbox)
  /\ UNCHANGED <<worker, seq, pending, open, asked, stream>>

(* onmessage of the worker; a nudge may have nothing to say. *)
WorkerStep ==
  /\ worker = "alive" /\ inbox # <<>>
  /\ LET m == Head(inbox) IN
     \E item \in IF m.kind = "nudge" THEN BOOLEAN ELSE {TRUE} :
       outbox' = Append(outbox, [id |-> m.id, kind |-> m.kind,
                                 question |-> m.question, item |-> item])
  /\ inbox' = Tail(inbox)
  /\ UNCHANGED <<worker, seq, pending, open, asked, stream>>

(* Faulty variant of ReplyShown: an answer that comes when the panel is closed is
   dropped. *)
ShownWhenOpen(r) == CASE r.kind = "ask" /\ open -> Say("ai", r.question)
                      [] r.kind = "nudge" /\ r.item /\ open -> Say("suggest", 0)
                      [] OTHER -> <<>>

(* What the continuation of a resolved call appends. *)
ReplyShown(r) == CASE r.kind = "ask" -> Say("ai", r.question)
              [] r.kind = "nudge" /\ r.item /\ open -> Say("suggest", 0)
              [] OTHER -> <<>>

(* Faulty variant of Deliver: the newest promise is resolved, whatever the id. *)
DeliverNewest ==
  /\ outbox # <<>>
  /\ LET r == Head(outbox) IN
       IF pending # {}
       THEN /\ stream' = stream \o ReplyShown(r)
            /\ pending' = pending \ {Max(pending)}
       ELSE UNCHANGED <<stream, pending>>
  /\ outbox' = Tail(outbox)
  /\ UNCHANGED <<worker, seq, inbox, open, asked>>

(* worker.onmessage of the main thread: the promise with the id of the reply is
   resolved and forgotten. *)
Deliver ==
  /\ outbox # <<>>
  /\ LET r == Head(outbox) IN
       IF r.id \in pending
       THEN /\ stream' = stream \o ReplyShown(r)
            /\ pending' = pending \ {r.id}
       ELSE UNCHANGED <<stream, pending>>
  /\ outbox' = Tail(outbox)
  /\ UNCHANGED <<worker, seq, inbox, open, asked>>

(* The worker's script fails to load, or the worker crashes: an error event
   that nothing listens to. *)
WorkerDies ==
  /\ worker = "alive" /\ worker' = "dead"
  /\ UNCHANGED <<seq, pending, inbox, outbox, open, asked, stream>>

CopilotNext == \/ Ask \/ (\E force \in BOOLEAN : Toggle(force)) \/ Nudge
        \/ WorkerStep \/ Deliver \/ WorkerDies

(* The event loops run whatever has been posted to them. *)
CopilotFairness == WF_copilotVars(WorkerStep) /\ WF_copilotVars(Deliver)

CopilotSpec == CopilotInit /\ [][CopilotNext]_copilotVars /\ CopilotFairness

-------------------------------------------------------------------------------
(* Where the stream answers a question. *)
AnswerAt(s) == {i \in DOMAIN s : s[i].role = "ai" /\ s[i].question # 0}

(* Answers appear in the order of the questions, each once: replies travel
   through a worker, a map of promises and closures, with chips and nudges in
   between and the panel closed and opened meanwhile (askCopilot). *)
AnswersInOrder ==
  \A i \in AnswerAt(stream) :
    /\ stream[i].question = Cardinality({j \in AnswerAt(stream) : j <= i})
    /\ stream[i].question <= asked

(* CopilotClient.pending holds exactly the calls that are still on their way:
   no promise is resolved early or twice, none is forgotten while its reply
   travels, and resolved ones do not pile up. *)
PendingExact == pending = {m.id : m \in ToSet(inbox)} \cup {m.id : m \in ToSet(outbox)}

(* Every question gets its answer ("Talks to the copilot Web Worker when
   available, falling back to the local engine synchronously", CopilotClient). *)
EveryQuestionAnswered ==
  \A q \in 1..MaxAsks :
    asked >= q ~> [role |-> "ai", question |-> q] \in ToSet(stream)

(* The same as far as the worker keeps running: no reply is lost between the
   worker, the map of promises and the panel, open or closed. *)
AnsweredWhileWorkerRuns ==
  \A q \in 1..MaxAsks :
    asked >= q ~> \/ [role |-> "ai", question |-> q] \in ToSet(stream)
                 \/ worker = "dead"

(* Why PendingExact holds: both channels keep the order of the calls, so what
   is on its way are the most recent calls, numbered without a gap. *)
Numbering ==
  LET answered == seq - Len(inbox) - Len(outbox) IN
  /\ answered >= 0
  /\ \A i \in DOMAIN inbox : inbox[i].id = answered + Len(outbox) + i
  /\ \A i \in DOMAIN outbox : outbox[i].id = answered + i
  /\ pending = (answered + 1)..seq
===============================================================================
