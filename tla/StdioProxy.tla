----------------------------- MODULE StdioProxy -----------------------------
(***************************************************************************)
(* One run of the stdio proxy with action pairing and required auditing    *)
(* (internal/proxy/stdio.go): the input goroutine carries one client line  *)
(* at a time through the gate to the upstream, the response goroutine      *)
(* matches the upstream's lines with the calls in flight, and Run opens    *)
(* the audit run, shuts both down and closes it.  They share the map of    *)
(* pending calls, the audit queue and the writer.                          *)
(*                                                                         *)
(* A line is named by the sequence number it reserves.  Cards are left to  *)
(* SessionAudit: every row here carries card 0.                            *)
(***************************************************************************)
EXTENDS AuditQueue

CONSTANTS
  Ids,          \* the JSON-RPC ids a client uses
  MaxAnswers,   \* bound on the answers the upstream gives
  EndsBusy      \* output may end while a line is being decided

ASSUME ProxyAssumption ==
  Ids \subseteq Nat /\ MaxAnswers \in Nat /\ EndsBusy \in BOOLEAN

Lines == 0..(MaxSeq - 1)
NoLine == MaxSeq

\* A tools/call request or notification, or the cancellation of a request.
Kinds == {"call", "notification", "cancel"}

VARIABLES
  input,      \* what the input goroutine is doing
  kind, id,   \* of each line: what it is, and the id it carries or cancels
  pending,    \* the calls in the pending map
  activeIDs,  \* the calls whose id is tracked
  forwarded,  \* the calls whose bytes may have reached the upstream
  observation,\* of each call: its first observation
  late,       \* the calls whose late response is recorded
  suppressed, \* the calls whose later answers are not passed on
  reader,     \* what the response goroutine is doing
  taken,      \* the call whose answer it is handling
  answers,    \* of each call: the answers received
  results,    \* the calls whose result was passed on to the client
  relayed,    \* of each call: the unmatched answers passed on
  main,       \* where Run is
  stopping,   \* p.runStopping
  closeAllowed

lines == <<kind, id>>
calls == <<pending, activeIDs, forwarded, observation, late, suppressed>>
upstream == <<reader, taken, answers, results, relayed>>
control == <<main, stopping, closeAllowed>>
vars == <<queueVars, input, lines, calls, upstream, control>>

Init ==
  /\ QueueInit
  /\ input = "scan" /\ reader = "scan" /\ main = "starting"
  /\ kind = [s \in Lines |-> "call"]
  /\ id \in [Lines -> {CHOOSE i \in Ids : TRUE}]
  /\ pending = {} /\ activeIDs = {} /\ forwarded = {}
  /\ observation = [s \in Lines |-> ""]
  /\ late = {} /\ suppressed = {} /\ taken = NoLine
  /\ answers = [s \in Lines |-> 0]
  /\ results = {} /\ relayed = [s \in Lines |-> 0]
  /\ stopping = FALSE /\ closeAllowed = FALSE

Row(s, what, action) == [seq |-> s, what |-> what, card |-> 0, action |-> action]
RunRow(what) == Row(NoLine, what, FALSE)

Running == main \notin {"starting", "exited"}

\* Fault: every observation is recorded.
ObserveAlways(s, what) ==
  /\ observation' = [observation EXCEPT ![s] = what]
  /\ AppendObservation(s, Row(s, what, TRUE))
  /\ UNCHANGED late

(***************************************************************************)
(* observeAction, under card.mu: the first observation of a call stands,   *)
(* except that a response after an unknown outcome is recorded once more.  *)
(***************************************************************************)
Observe(s, what) ==
  LET second == /\ observation[s] = "outcome_unknown" /\ what = "response_observed"
                /\ s \notin late
  IN  IF observation[s] = ""
        THEN /\ observation' = [observation EXCEPT ![s] = what]
             /\ AppendObservation(s, Row(s, what, TRUE))
             /\ UNCHANGED late
      ELSE IF second
        THEN /\ late' = late \cup {s}
             /\ AppendObservation(s, Row(s, "late_response_observed", TRUE))
             /\ UNCHANGED observation
      ELSE UNCHANGED <<observation, late, queueVars>>

-----------------------------------------------------------------------------
(***************************************************************************)
(* The input goroutine.  It holds inputLineMu from the moment it accepts a *)
(* line until it scans for the next one: while input is not "scan" or      *)
(* "closed".  A line taken once the run is stopping ends the loop, and one *)
(* taken once the writer is latched is refused without a trace.            *)
(***************************************************************************)
cur == auditSeq - 1

\* The first line's id is called 1.
IdsSoFar == {i \in Ids : i <= auditSeq + 1}

AcceptLine ==
  /\ Running /\ input = "scan" /\ ~stopping /\ sink = "open"
  /\ Reserve
  /\ \E k \in Kinds, i \in IdsSoFar :
       /\ kind' = [kind EXCEPT ![auditSeq] = k]
       /\ id' = [id EXCEPT ![auditSeq] = i]
  /\ input' = "accepted"
  /\ UNCHANGED <<auditNext, auditTodo, auditResolved, cardAfterSeq, actionIDs, output,
                 calls, upstream, control>>

\* The agent closes its end, or a line finds the run stopping.
CloseInput ==
  /\ Running /\ input = "scan"
  /\ input' = "closed"
  /\ UNCHANGED <<queueVars, lines, calls, upstream, control>>

NewAction ==
  /\ Running /\ input = "accepted"
  /\ IF kind[cur] = "cancel" THEN UNCHANGED actionIDs ELSE QueueActionID(cur)
  /\ input' = "named"
  /\ UNCHANGED <<auditSeq, auditNext, auditTodo, auditResolved, auditPending,
                 cardAfterSeq, output, lines, calls, upstream, control>>

\* Fault: the id of a call whose answer is being handled may be used again.
InUsePending(i) == \E s \in pending : id[s] = i

InUse(i) == \E s \in pending \cup activeIDs : id[s] = i

\* The rows a verdict queues.  A row is an action's only while the queue
\* still knows the action of its sequence.
Verdict(what) == Row(cur, what, cur \in actionIDs)

\* A request whose id is in use is refused before the gate, and the gate
\* refuses others; either way the refusal is resolved and observed.
Decide ==
  /\ Running /\ input = "named" /\ kind[cur] # "cancel"
  /\ \/ /\ kind[cur] = "call" /\ InUse(id[cur])
        /\ AppendAudit(cur, <<Verdict("block")>>)
        /\ input' = "duplicate"
     \/ /\ kind[cur] = "notification" \/ ~InUse(id[cur])
        /\ \/ AppendAudit(cur, <<Verdict("deny")>>) /\ input' = "refused"
           \/ AppendAudit(cur, <<Verdict("allow")>>) /\ input' = "allowed"
           \/ /\ AppendAudit(cur, <<Verdict("granted"), Verdict("allow")>>)
              /\ input' = "granted"
  /\ UNCHANGED <<auditSeq, auditNext, auditResolved, auditPending, cardAfterSeq,
                 actionIDs, output, lines, calls, upstream, control>>

\* resolveAudit, wherever the input goroutine calls it.  A writer found latched
\* after the gate ends the line there.
Resolve ==
  /\ Running /\ input \in {"duplicate", "refused", "granted", "unsent", "sent"}
  /\ ResolveAudit(cur)
  /\ input' = CASE input = "duplicate" -> "unobserved"
                [] input = "refused" -> IF sink' = "failed" THEN "unsent" ELSE "unobserved"
                [] input = "granted" -> IF sink' = "failed" THEN "unsent" ELSE "allowed"
                [] input = "sent" -> "unknown"
                [] input = "unsent" -> "scan"
  /\ UNCHANGED <<lines, calls, upstream, control>>

ObserveRefused ==
  /\ Running /\ input = "unobserved"
  /\ Observe(cur, "not_forwarded")
  /\ input' = "scan"
  /\ UNCHANGED <<lines, pending, activeIDs, forwarded, suppressed, upstream, control>>

\* Fault: the call goes on though its dispatch row was refused.
DispatchAnyway ==
  /\ Running /\ input = "allowed"
  /\ WriteDirect(Row(cur, "dispatch", TRUE))
  /\ input' = "dispatched"
  /\ UNCHANGED <<queue, lines, calls, upstream, control>>

\* The dispatch row is written before anything is registered or sent.
Dispatch ==
  /\ Running /\ input = "allowed"
  /\ WriteDirect(Row(cur, "dispatch", TRUE))
  /\ input' = IF sink' = "open" THEN "dispatched" ELSE "unsent"
  /\ UNCHANGED <<queue, lines, calls, upstream, control>>

Register ==
  /\ Running /\ input = "dispatched"
  /\ IF kind[cur] = "call"
       THEN pending' = pending \cup {cur} /\ activeIDs' = activeIDs \cup {cur}
       ELSE UNCHANGED <<pending, activeIDs>>
  /\ input' = "registered"
  /\ UNCHANGED <<queueVars, lines, forwarded, observation, late, suppressed, upstream,
                 control>>

\* The bytes reach the upstream while the write is still returning.
Deliver ==
  /\ Running /\ input = "registered" /\ cur \notin forwarded
  /\ forwarded' = forwarded \cup {cur}
  /\ UNCHANGED <<queueVars, input, lines, pending, activeIDs, observation, late,
                 suppressed, upstream, control>>

\* A request sent is resolved by its answer; a notification at once, and its
\* outcome is unknown.
WriteReturns ==
  /\ Running /\ input = "registered" /\ cur \in forwarded
  /\ input' = IF kind[cur] = "call" THEN "scan" ELSE "sent"
  /\ UNCHANGED <<queueVars, lines, calls, upstream, control>>

ObserveSent ==
  /\ Running /\ input = "unknown"
  /\ Observe(cur, "outcome_unknown")
  /\ input' = "scan"
  /\ UNCHANGED <<lines, pending, activeIDs, forwarded, suppressed, upstream, control>>

\* A failed write gives the call up, unless its answer has been taken.
WriteFails ==
  /\ Running /\ input = "registered"
  /\ pending' = pending \ {cur}
  /\ input' = IF kind[cur] = "call" /\ cur \notin pending THEN "closed" ELSE "lost"
  /\ UNCHANGED <<queueVars, lines, activeIDs, forwarded, observation, late, suppressed,
                 upstream, control>>

ObserveLost ==
  /\ Running /\ input = "lost"
  /\ Observe(cur, "outcome_unknown")
  /\ activeIDs' = activeIDs \ {cur}
  /\ input' = "closed"
  /\ UNCHANGED <<lines, pending, forwarded, suppressed, upstream, control>>

\* notifications/cancelled: its row goes past the queue, the call it names
\* has an unknown outcome from now on, and the line is passed on.
CancelRow ==
  /\ Running /\ input = "named" /\ kind[cur] = "cancel"
  /\ WriteDirect(Row(cur, "method-allow", FALSE))
  /\ input' = IF sink' = "open" THEN "cancelling" ELSE "unsent"
  /\ UNCHANGED <<queue, lines, calls, upstream, control>>

Cancel ==
  /\ Running /\ input = "cancelling"
  /\ \/ \E s \in pending : id[s] = id[cur] /\ Observe(s, "outcome_unknown")
     \/ /\ \A s \in pending : id[s] # id[cur]
        /\ UNCHANGED <<queueVars, observation, late>>
  /\ input' = "unsent"
  /\ UNCHANGED <<lines, pending, activeIDs, forwarded, suppressed, upstream, control>>

-----------------------------------------------------------------------------
(***************************************************************************)
(* The response goroutine.  A valid answer is taken from the pending map,  *)
(* observed, and passed on once its rows are in the trail; an answer that  *)
(* cannot be verified leaves its call pending, with an unknown outcome and *)
(* an error to the client, and suppresses what comes later.                *)
(***************************************************************************)
Answer(s) ==
  /\ Running /\ reader = "scan" /\ s \in forwarded /\ kind[s] = "call"
  /\ FoldFunction(+, 0, answers) < MaxAnswers
  /\ answers' = [answers EXCEPT ![s] = @ + 1]

Take(s) ==
  /\ Answer(s) /\ s \in pending
  /\ pending' = pending \ {s}
  /\ reader' = "taken" /\ taken' = s
  /\ UNCHANGED <<queueVars, input, lines, activeIDs, forwarded, observation, late,
                 suppressed, results, relayed, control>>

ObserveResponse ==
  /\ Running /\ reader = "taken"
  /\ Observe(taken, "response_observed")
  /\ reader' = "observed"
  /\ UNCHANGED <<input, lines, pending, activeIDs, forwarded, suppressed, taken,
                 answers, results, relayed, control>>

\* auditSequenceDurable
Durable(s) ==
  /\ s \notin auditFailed /\ sink = "open"
  /\ s < auditNext \/ (Settled(s) /\ s \notin DOMAIN auditTodo)

\* The observation resolved the call already; resolving it again does
\* nothing.  The result is passed on, or an error in its place.
PassOn ==
  LET s == taken IN
  /\ Running /\ reader = "observed"
  /\ results' = IF Durable(s) /\ s \notin suppressed
                THEN results \cup {s} ELSE results
  /\ auditFailed' = auditFailed \ {s}
  /\ activeIDs' = activeIDs \ {s}
  /\ reader' = "scan" /\ taken' = NoLine
  /\ UNCHANGED <<queue, written, sink, input, lines, pending, forwarded, observation,
                 late, suppressed, answers, relayed, control>>

\* An answer for a call that is not pending is dropped while its id is
\* tracked, and passed on otherwise.
Unmatched(s) ==
  /\ Answer(s) /\ s \notin pending
  /\ relayed' = IF InUse(id[s]) THEN relayed ELSE [relayed EXCEPT ![s] = @ + 1]
  /\ UNCHANGED <<queueVars, input, lines, calls, reader, taken, results, control>>

Invalid(s) ==
  /\ Answer(s) /\ s \in pending
  /\ IF s \in suppressed
       THEN UNCHANGED <<queueVars, observation, late, suppressed, reader, taken>>
       ELSE /\ suppressed' = suppressed \cup {s}
            /\ Observe(s, "outcome_unknown")
            /\ reader' = "invalid" /\ taken' = s
  /\ UNCHANGED <<input, lines, pending, activeIDs, forwarded, results, relayed, control>>

\* The error is sent in its place, and the failures of the sequence forgotten.
AnswerInvalid ==
  /\ Running /\ reader = "invalid"
  /\ auditFailed' = auditFailed \ {taken}
  /\ reader' = "scan" /\ taken' = NoLine
  /\ UNCHANGED <<queue, written, sink, input, lines, calls, answers, results, relayed,
                 control>>

MidLine == reader \in {"taken", "observed", "invalid"}

\* The output ends, whatever the input goroutine is doing: the calls still
\* pending get an unknown outcome and the queue is drained.
Unobserved == {s \in pending : observation[s] = ""}

EndOutput ==
  /\ Running /\ reader = "scan"
  /\ EndsBusy \/ input \in {"scan", "closed"}
  /\ reader' = "sweeping"
  /\ UNCHANGED <<queueVars, input, lines, calls, taken, answers, results, relayed, control>>

SweepByReader ==
  /\ Running /\ reader = "sweeping"
  /\ \E s \in Unobserved : Observe(s, "outcome_unknown")
  /\ UNCHANGED <<input, lines, pending, activeIDs, forwarded, suppressed, upstream,
                 control>>

DrainByReader ==
  /\ Running /\ reader = "sweeping" /\ Unobserved = {}
  /\ EndsBusy \/ input \in {"scan", "closed"}
  /\ DrainAudits
  /\ reader' = "done"
  /\ UNCHANGED <<input, lines, calls, taken, answers, results, relayed, control>>

-----------------------------------------------------------------------------
(***************************************************************************)
(* Run.  The run is opened before a line is read; when the output ended,   *)
(* the upstream exited or a signal came, Run stops input, waits for the    *)
(* input goroutine to be idle, observes and drains what is left, and       *)
(* closes the run.  Each wait has a deadline, and a missed one leaves the  *)
(* run open.                                                               *)
(***************************************************************************)
Open ==
  /\ main = "starting"
  /\ WriteDirect(RunRow("open"))
  /\ main' = IF sink' = "open" THEN "running" ELSE "exited"
  /\ UNCHANGED <<queue, input, lines, calls, upstream, stopping, closeAllowed>>

\* One heartbeat, before the first line, is let through: a bound.  One that
\* fails may come at any time.
Heartbeat ==
  /\ main = "running" /\ sink = "open"
  /\ WriteDirect(RunRow("heartbeat"))
  /\ \/ auditSeq = 0 /\ Len(written) = 1
     \/ sink' = "failed"
  /\ UNCHANGED <<queue, input, lines, calls, upstream, control>>

Stop ==
  /\ main = "running"
  /\ stopping' = TRUE
  /\ main' = "waiting"
  /\ UNCHANGED <<queueVars, input, lines, calls, upstream, closeAllowed>>

InputIdle ==
  /\ main = "waiting"
  /\ input \in {"scan", "closed"}
  /\ main' = "sweeping"
  /\ UNCHANGED <<queueVars, input, lines, calls, upstream, stopping, closeAllowed>>

Sweep ==
  /\ main = "sweeping"
  /\ \E s \in Unobserved : Observe(s, "outcome_unknown")
  /\ UNCHANGED <<input, lines, pending, activeIDs, forwarded, suppressed, upstream,
                 control>>

\* Fault: the run is closed with calls nobody observed.
DrainUnswept ==
  /\ main = "sweeping"
  /\ DrainAudits
  /\ closeAllowed' = TRUE
  /\ main' = "closing"
  /\ UNCHANGED <<input, lines, calls, upstream, stopping>>

Drain ==
  /\ main = "sweeping" /\ Unobserved = {}
  /\ DrainAudits
  /\ closeAllowed' = TRUE
  /\ main' = "closing"
  /\ UNCHANGED <<input, lines, calls, upstream, stopping>>

\* Fault: the wait for the input goroutine has no deadline.
DrainTimeoutAfterIdle ==
  /\ main = "sweeping"
  /\ main' = "closing"
  /\ UNCHANGED <<queueVars, input, lines, calls, upstream, stopping, closeAllowed>>

DrainTimeout ==
  /\ main \in {"waiting", "sweeping"}
  /\ main' = "closing"
  /\ UNCHANGED <<queueVars, input, lines, calls, upstream, stopping, closeAllowed>>

\* The run stops accepting rows, and is closed if it is healthy.
Close ==
  /\ main = "closing"
  /\ IF closeAllowed /\ sink = "open"
       THEN \/ written' = Append(written, RunRow("close")) /\ sink' = "closed"
            \/ SinkMayFail /\ sink' = "failed" /\ UNCHANGED written
       ELSE sink' = "closed" /\ UNCHANGED written
  /\ main' = "exited"
  /\ UNCHANGED <<queue, auditFailed, input, lines, calls, upstream, stopping,
                 closeAllowed>>

-----------------------------------------------------------------------------
InputStep ==
  \/ NewAction \/ Decide \/ Resolve \/ ObserveRefused \/ Dispatch \/ Register
  \/ Deliver \/ WriteReturns \/ ObserveSent \/ WriteFails \/ ObserveLost
  \/ CancelRow \/ Cancel

ReaderStep ==
  \/ ObserveResponse \/ PassOn \/ AnswerInvalid \/ SweepByReader \/ DrainByReader

Upstream ==
  \/ \E s \in Lines : Take(s) \/ Unmatched(s) \/ Invalid(s)
  \/ EndOutput

RunStep == InputIdle \/ Sweep \/ Drain \/ DrainTimeout \/ Close

Next ==
  \/ AcceptLine \/ CloseInput \/ InputStep
  \/ Upstream \/ ReaderStep
  \/ Open \/ Heartbeat \/ Stop \/ RunStep

Spec == Init /\ [][Next]_vars

\* Only Run's own goroutine is sure to run: the deadlines are its timers.
FairSpec == Spec /\ WF_vars(RunStep)

-----------------------------------------------------------------------------
At(what) == {i \in DOMAIN written : written[i].what = what}
RowOf(s, what) == \E i \in At(what) : written[i].seq = s

(***************************************************************************)
(* Never forward unless the dispatch is durable: a call the upstream may   *)
(* have seen has its dispatch row in an opened run.                        *)
(***************************************************************************)
ForwardedIsDispatched ==
  \A s \in forwarded :
    kind[s] # "cancel" => RowOf(s, "dispatch") /\ written[1].what = "open"

(***************************************************************************)
(* The rows as AssessRuns reads them: numbered and chained by the writer.  *)
(***************************************************************************)
Analyzer == INSTANCE Completeness WITH NoAction <- NoLine

Stream ==
  [i \in DOMAIN written |->
     [what |-> written[i].what,
      action |-> IF written[i].action THEN written[i].seq ELSE NoLine,
      seq |-> i, sig |-> i, count |-> i - 1, head |-> i - 1, at |-> 0, valid |-> TRUE]]

RunVerdict == Analyzer!Verdict(Stream, TRUE, 0)

(***************************************************************************)
(* Whatever order the input goroutine, the response goroutine and the      *)
(* shutdown work in, the trail they leave is one the analyzer accepts: no  *)
(* decision after a terminal observation, no second dispatch or terminal,  *)
(* no observation of an action without a decision.                         *)
(***************************************************************************)
RunNotBroken == written # <<>> => RunVerdict # "BROKEN"

(***************************************************************************)
(* The design: a run may close only after the producer has stopped         *)
(* accepting calls and recorded all observations it can make for in-flight *)
(* calls.  So a run that is closed is assessed as complete, unless the     *)
(* shutdown overtook the response goroutine between taking an answer and   *)
(* passing it on: that call's observation is not made.                     *)
(***************************************************************************)
ClosedRunComplete == At("close") # {} /\ ~MidLine => RunVerdict = "LIMITED"

(***************************************************************************)
(* No answer slips past the audit: one that is passed on as it came, with  *)
(* no row of its own, is for a call whose end is already observed, whatever*)
(* released its id: its answer, its failed write or the drain.             *)
(***************************************************************************)
NoUnauditedAnswer == \A s \in Lines : relayed[s] > 0 => observation[s] # ""

(***************************************************************************)
(* Shutdown is bounded: it ends although the input goroutine, the reader   *)
(* and the upstream may never move again.                                  *)
(***************************************************************************)
ShutdownEnds == stopping ~> main = "exited"

=============================================================================
