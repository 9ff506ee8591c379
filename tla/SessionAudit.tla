---------------------------- MODULE SessionAudit ----------------------------
(***************************************************************************)
(* The requests of one session over the audit queue, each carried from its *)
(* sequence number to its reply: by the input and the response goroutine   *)
(* of the stdio proxy, each of which handles one line at a time, or by the *)
(* concurrent handlers of the HTTP listener.  A successful claim or        *)
(* release changes the session's card when its answer arrives, which need  *)
(* not be the order the requests came in.                                  *)
(*                                                                         *)
(* Card state is kept twice, as in the code: currentCard, which rows that  *)
(* bypass the queue are stamped with, under cardMu, and cardAfterSeq, from *)
(* which queued rows are stamped, under auditMutex; a commit takes the two *)
(* locks one after the other.                                              *)
(***************************************************************************)
EXTENDS AuditQueue

CONSTANTS
  Reqs,   \* the requests
  Modes   \* the kinds of session: each with its transport, "stdio" or "http",
          \* whether every call is a paired action, whether audit is required
          \* (a dispatch row precedes forwarding), the cards its calls name,
          \* a bound on its requests, and whether its refused calls are ones
          \* without a name that fail_mode: ask holds for approval first

ASSUME SessionAssumption ==
  \A m \in Modes :
    /\ m.transport \in {"stdio", "http"}
    /\ m.pairing \in BOOLEAN /\ m.required \in BOOLEAN
    /\ m.pairing => m.required
    /\ m.required => m.transport = "stdio"
    /\ m.cards \subseteq Nat \ {0}
    /\ m.requests \in Nat
    /\ m.nameless \in BOOLEAN /\ (m.nameless => ~m.pairing)

VARIABLES
  mode,         \* the kind of this session
  pc,           \* where each request is
  seqOf,        \* its sequence
  call,         \* the tool it calls, and the card the call names
  reply,        \* what the client was told
  currentCard,  \* p.currentCard
  ended,        \* the upstream's output has ended
  main,         \* Run: "running", "stopping", "late" once past the deadline of
                \* its drain, or returned: "drained" when the drain ended in time
                \* with no line to come, "left" otherwise
  accepting,    \* the next line of the agent is still taken up
  history       \* every card commit ever made, for the abstract log

run == <<ended, main, accepting>>
session == <<mode, pc, seqOf, call, reply, currentCard, run, history>>
vars == <<queueVars, session>>

Transport == mode.transport
Pairing == mode.pairing
Required == mode.required

NoCall == [tool |-> "other", card |-> 0]
Calls == {NoCall} \cup [tool : {"claim", "release"}, card : mode.cards]

Init ==
  /\ QueueInit
  /\ mode \in Modes
  /\ pc = [r \in Reqs |-> "idle"]
  /\ seqOf = [r \in Reqs |-> 0]
  /\ call = [r \in Reqs |-> NoCall]
  /\ reply = [r \in Reqs |-> "none"]
  /\ currentCard = 0
  /\ ended = FALSE /\ main = "running" /\ accepting = TRUE
  /\ history = << >>

Goto(r, s) == pc' = [pc EXCEPT ![r] = s]

Input == {"reserved", "named", "asked", "turned down", "granted", "allowed",
          "unsent", "refused", "denied", "unobserved"}
Answering == {"committing", "answered", "observed", "resolved"}

\* One line at a time in each goroutine of the stdio proxy.
Alone(S) == Transport = "stdio" => \A q \in Reqs : pc[q] \notin S

Row(r, what) == [seq |-> seqOf[r], what |-> what, card |-> call[r].card,
                 action |-> Pairing]

-----------------------------------------------------------------------------
\* A request arrives: its sequence is reserved before anything else.
Arrive(r) ==
  /\ pc[r] = "idle" /\ accepting /\ auditSeq < mode.requests
  /\ Alone(Input)
  /\ Reserve
  /\ seqOf' = [seqOf EXCEPT ![r] = auditSeq]
  /\ \E c \in Calls : call' = [call EXCEPT ![r] = c]
  /\ Goto(r, "reserved")
  /\ UNCHANGED <<auditNext, auditTodo, auditResolved, cardAfterSeq, actionIDs, output,
                 reply, currentCard, run, history, mode>>

Name(r) ==
  /\ pc[r] = "reserved"
  /\ IF Pairing THEN QueueActionID(seqOf[r]) ELSE UNCHANGED actionIDs
  /\ Goto(r, "named")
  /\ UNCHANGED <<auditSeq, auditNext, auditTodo, auditResolved, auditPending,
                 cardAfterSeq, output, seqOf, call, reply, currentCard, run, history, mode>>

\* decide queues the rows of its verdict.  A call without a name that the
\* approver turns down is resolved there and then refused a second time.
Decide(r) ==
  /\ LET asked == mode.nameless /\ pc[r] = "named" IN
     \/ /\ pc[r] \in {"named", "turned down"}
        /\ AppendAudit(seqOf[r], <<Row(r, IF asked THEN "approval-denied" ELSE "deny")>>)
        /\ Goto(r, IF asked THEN "asked" ELSE "refused")
     \/ /\ pc[r] = "named"
        /\ \/ AppendAudit(seqOf[r], <<Row(r, "granted"), Row(r, "allow")>>) /\ Goto(r, "granted")
           \/ AppendAudit(seqOf[r], <<Row(r, "allow")>>) /\ Goto(r, "allowed")
  /\ UNCHANGED <<auditSeq, auditNext, auditResolved, auditPending, cardAfterSeq,
                 actionIDs, output, seqOf, call, reply, currentCard, run, history, mode>>

(***************************************************************************)
(* resolveAudit, wherever a request calls it: a refusal in decide and      *)
(* again in the handler, a granted call before its dispatch, a call that   *)
(* could not be sent, and every call once its answer is dealt with.        *)
(***************************************************************************)
AfterResolve(s) ==
  CASE s = "asked"    -> "turned down"
    [] s = "refused"  -> "denied"
    [] s = "denied"   -> IF Pairing THEN "unobserved" ELSE "done"
    [] s = "granted"  -> "allowed"
    [] s = "unsent"   -> "done"
    [] s = "observed" -> "resolved"

Resolve(r) ==
  /\ pc[r] \in {"asked", "refused", "denied", "granted", "unsent", "observed"}
  /\ ResolveAudit(seqOf[r])
  /\ Goto(r, AfterResolve(pc[r]))
  /\ UNCHANGED <<seqOf, call, reply, currentCard, run, history, mode>>

\* audit() writes the dispatch row past the queue, with the current card;
\* when the writer refuses it the request is not forwarded.
DirectRow(r, what) ==
  [Row(r, what) EXCEPT !.card = IF call[r].card = 0 THEN currentCard ELSE @]

Dispatch(r) ==
  /\ pc[r] = "allowed"
  /\ IF Required THEN WriteDirect(DirectRow(r, "dispatch")) ELSE UNCHANGED output
  /\ Goto(r, IF Required /\ sink' = "failed" THEN "unsent" ELSE "sent")
  /\ UNCHANGED <<queue, seqOf, call, reply, currentCard, run, history, mode>>

-----------------------------------------------------------------------------
Answerable(r) == pc[r] = "sent" /\ ~ended /\ Alone(Answering)

\* An answer that commits no card: an error, another tool, or a release of a
\* card that is not the current one.
Answer(r) ==
  /\ Answerable(r)
  /\ Goto(r, "answered")
  /\ UNCHANGED <<queueVars, seqOf, call, reply, currentCard, run, history, mode>>

(***************************************************************************)
(* updateCardState on a successful answer: the current card first, the     *)
(* history behind the queue after.                                         *)
(***************************************************************************)
CommitCurrent(r) ==
  /\ Answerable(r)
  /\ \/ call[r].tool = "claim" /\ currentCard' = call[r].card
     \/ call[r].tool = "release" /\ call[r].card = currentCard /\ currentCard' = 0
  /\ Goto(r, "committing")
  /\ UNCHANGED <<queueVars, seqOf, call, reply, run, history, mode>>

CommitHistory(r) ==
  LET card == IF call[r].tool = "claim" THEN call[r].card ELSE 0
      with(f) == [s \in DOMAIN f \cup {seqOf[r]} |-> IF s = seqOf[r] THEN card ELSE f[s]]
  IN  /\ pc[r] = "committing"
      /\ cardAfterSeq' = with(cardAfterSeq)
      /\ history' = with(history)
      /\ Goto(r, "answered")
      /\ UNCHANGED <<auditSeq, auditNext, auditTodo, auditResolved, auditPending,
                     actionIDs, output, seqOf, call, reply, currentCard, run, mode>>

\* appendActionObservation up to its resolveAudit: past the queue once the
\* sequence is resolved, into it otherwise.
Observe(r) ==
  LET row == Row(r, IF pc[r] = "unobserved" THEN "not_forwarded" ELSE "response")
  IN  /\ pc[r] \in {"answered", "unobserved"}
      /\ IF ~Pairing THEN UNCHANGED <<auditTodo, output>>
         ELSE IF Settled(seqOf[r]) THEN Write(<<row>>) /\ UNCHANGED auditTodo
         ELSE AppendAudit(seqOf[r], <<row>>) /\ UNCHANGED output
      /\ Goto(r, IF pc[r] = "unobserved" THEN "done" ELSE "observed")
      /\ UNCHANGED <<auditSeq, auditNext, auditResolved, auditPending, cardAfterSeq,
                     actionIDs, seqOf, call, reply, currentCard, run, history, mode>>

\* auditSequenceDurable
Durable(s) ==
  /\ s \notin auditFailed
  /\ s < auditNext \/ (Settled(s) /\ s \notin DOMAIN auditTodo)
  /\ Required => sink = "open"

\* Fault: the result is passed on without asking whether its rows are durable.
ReplyUnchecked(r) ==
  /\ pc[r] = "resolved"
  /\ reply' = [reply EXCEPT ![r] = "result"]
  /\ auditFailed' = auditFailed \ {seqOf[r]}
  /\ Goto(r, "done")
  /\ UNCHANGED <<queue, written, sink, seqOf, call, currentCard, run, history, mode>>

\* The tool's result is passed on, or replaced by an error; the failures of
\* the sequence are forgotten with it.
Reply(r) ==
  /\ pc[r] = "resolved"
  /\ reply' = [reply EXCEPT ![r] =
       IF (Required /\ sink = "failed") \/ (Pairing /\ ~Durable(seqOf[r]))
         THEN "unverified" ELSE "result"]
  /\ auditFailed' = auditFailed \ {seqOf[r]}
  /\ Goto(r, "done")
  /\ UNCHANGED <<queue, written, sink, seqOf, call, currentCard, run, history, mode>>

-----------------------------------------------------------------------------
(***************************************************************************)
(* The stdio session ends.  The response goroutine drains the queue when   *)
(* the upstream's output ends, and Run drains it before it returns, but    *)
(* only for so long.  The drains that find a line in hand, of the response *)
(* goroutine and of a legacy Run, are not here: StdioProxy models what     *)
(* they do to it, and what Run records for the calls nobody answered.      *)
(***************************************************************************)
CloseInput ==
  /\ Transport = "stdio" /\ accepting
  /\ Alone(Input)
  /\ accepting' = FALSE
  /\ UNCHANGED <<queueVars, mode, pc, seqOf, call, reply, currentCard, ended, main, history>>

DrainAtEOF ==
  /\ ~ended /\ Transport = "stdio"
  /\ Alone(Answering) /\ Alone(Input)
  /\ DrainAudits
  /\ ended' = TRUE
  /\ UNCHANGED <<mode, pc, seqOf, call, reply, currentCard, main, accepting, history>>

\* The upstream exits or a signal arrives, whether or not its output has
\* ended.  A paired run takes up no further line (runStopping); a legacy one
\* goes on forwarding.
Stop ==
  /\ Transport = "stdio" /\ main = "running"
  /\ main' = "stopping"
  /\ accepting' = (accepting /\ ~Pairing)
  /\ UNCHANGED <<queueVars, mode, pc, seqOf, call, reply, currentCard, ended, history>>

(***************************************************************************)
(* drainRunForClose, and what a legacy run does in its place: the drain    *)
(* begins with no line in hand, which a paired run waits for, and the      *)
(* response goroutine may be anywhere in its answer.                       *)
(***************************************************************************)
DrainAtExit ==
  /\ main \in {"stopping", "late"}
  /\ Alone(Input)
  /\ DrainAudits
  /\ main' = IF main = "stopping" /\ ~accepting THEN "drained" ELSE "left"
  /\ UNCHANGED <<mode, pc, seqOf, call, reply, currentCard, ended, accepting, history>>

\* The deadline passes: before any drain, and nothing is swept, or with the
\* drain under way, which ends after Run has given up on it.
GiveUp ==
  /\ main = "stopping"
  /\ main' \in {"left"} \cup {l \in {"late"} : Alone(Input)}
  /\ UNCHANGED <<queueVars, mode, pc, seqOf, call, reply, currentCard, ended, accepting, history>>

Progress(r) ==
  \/ Name(r) \/ Decide(r) \/ Resolve(r) \/ Dispatch(r)
  \/ CommitHistory(r) \/ Observe(r) \/ Reply(r)

\* A best-effort row that is not written is only lost: no session of that
\* kind has a writer that fails here.
Next ==
  /\ \/ \E r \in Reqs : Arrive(r) \/ Progress(r) \/ Answer(r) \/ CommitCurrent(r)
     \/ CloseInput \/ DrainAtEOF \/ Stop \/ DrainAtExit \/ GiveUp
  /\ Required \/ UNCHANGED sink

Spec == Init /\ [][Next]_vars

-----------------------------------------------------------------------------
RowsIn(r, what) == {i \in DOMAIN written : /\ written[i].seq = seqOf[r]
                                           /\ written[i].what = what}
Quiet == \A r \in Reqs : pc[r] \in {"idle", "done"}

(***************************************************************************)
(* A tool's result reaches the client only when the decision to allow the  *)
(* call and its dispatch, in either order, are in the trail, and its       *)
(* response is there after both.                                           *)
(***************************************************************************)
ResultsAreAudited ==
  Pairing => \A r \in Reqs : reply[r] = "result" =>
    \E i \in RowsIn(r, "allow"), j \in RowsIn(r, "dispatch"), k \in RowsIn(r, "response") :
      j < k /\ i < k

(***************************************************************************)
(* When no request is under way nothing is retained for any: no queued     *)
(* row, no range, no pending entry and no action.  Nor does a request that *)
(* waits cost one card state per commit behind it: whenever the frontier   *)
(* moves, at most one state is left for every unsettled sequence, and the  *)
(* latest.                                                                 *)
(***************************************************************************)
NothingRetained ==
  /\ [](Quiet => /\ Unsettled = {} /\ auditResolved = {} /\ actionIDs = {}
                 /\ auditNext = auditSeq)
  /\ [][auditNext' # auditNext =>
          Cardinality(DOMAIN cardAfterSeq') <= Cardinality(Unsettled') + 1]_queueVars

(***************************************************************************)
(* The compacted queue and the pruned card history write exactly the rows, *)
(* in the order and with the cards, that the log with whole histories      *)
(* would.                                                                  *)
(***************************************************************************)
Log == INSTANCE RequestOrderLog WITH
         requests <- auditSeq,
         waiting <- auditTodo,
         settled <- (0..(auditNext - 1)) \cup
                    {s \in 0..auditSeq : Resolved(auditResolved, s)},
         commits <- history,
         log <- written,
         alive <- sink = "open"

ImplementsLog == Log!Spec

(***************************************************************************)
(* No decision is lost with the session: when the drain of a Run that has  *)
(* no line to come ends in time, every row that was queued is in the       *)
(* trail, and with it the verdict of every call that went out, wherever    *)
(* its answer is, unless the writer failed; and so it stays while the      *)
(* response goroutine goes on.  A Run that gives up, or that leaves lines  *)
(* to come, promises nothing: what was queued may be lost with it, and a   *)
(* paired run is then not closed.                                          *)
(***************************************************************************)
DecisionsReachTrail ==
  main = "drained" /\ sink = "open" =>
    /\ auditTodo = << >>
    /\ \A r \in Reqs : pc[r] \in {"sent"} \cup Answering => RowsIn(r, "allow") # {}

=============================================================================
