---------------------------- MODULE HttpListener ----------------------------
(***************************************************************************)
(* The handler of internal/proxy/httplisten.go: one POST is one JSON-RPC   *)
(* message, which is decided by the gate, forwarded to the upstream and    *)
(* answered.  A gate keeps its audit rows in a queue that is written in    *)
(* the order of the requests (AuditQueue has the queue itself); all gates  *)
(* share one signed trail, whose writer latches its first failure.         *)
(*                                                                         *)
(* A required gate serves one request at a time, forwards a tool call only *)
(* once its dispatch row is written and releases an answer only while the  *)
(* writer has not failed.  A best-effort gate serves requests side by side *)
(* and answers before it resolves.                                         *)
(***************************************************************************)
EXTENDS Naturals, Sequences, FiniteSets, SequencesExt

CONSTANTS
  Reqs,       \* the requests, each made once
  Gates,      \* the gates, one for each session
  MayFail     \* a write to the trail may fail

ASSUME ListenerAssumption == Gates \subseteq Nat \ {0} /\ MayFail \in BOOLEAN

NoGate == 0

VARIABLES
  required,   \* whether the gates require audit
  at,         \* where each request is
  method,     \* what it asks
  gateOf,     \* the gate that serves it
  answer,     \* what the client was told
  reached,    \* the requests the upstream received
  auditMu,    \* gate -> the requests that hold its auditMu: at most one
  queue,      \* gate -> its reserved sequences not yet passed, in order
  trail,      \* the rows written: <<request, what it says>>
  sink        \* the writer: "open", "failed" (latched) or "closed"

gateVars == <<auditMu, queue>>
trailVars == <<trail, sink>>
listenerVars == <<required, at, method, gateOf, answer, reached, gateVars, trailVars>>

Methods == {"initialize", "tools/list", "tools/call"}

Goto(r, l) == at' = [at EXCEPT ![r] = l]
Tell(r, a) == answer' = [answer EXCEPT ![r] = a]

-----------------------------------------------------------------------------
(***************************************************************************)
(* Rows reach the writer in order; it may fail at any of them, and once it *)
(* has failed or is closed it refuses all.                                 *)
(***************************************************************************)
Write(rows) ==
  \E k \in 0..Len(rows) :
    /\ sink # "open" => k = 0
    /\ sink = "open" /\ k < Len(rows) => MayFail
    /\ trail' = trail \cup {rows[i] : i \in 1..k}
    /\ sink' = IF sink = "open" /\ k < Len(rows) THEN "failed" ELSE sink

Entry(r) == CHOOSE i \in DOMAIN queue[gateOf[r]] : queue[gateOf[r]][i].req = r
Reserved(r) == \E i \in DOMAIN queue[gateOf[r]] : queue[gateOf[r]][i].req = r

\* The queue once the sequence of r is resolved.
Marked(r) ==
  IF Reserved(r) THEN [queue[gateOf[r]] EXCEPT ![Entry(r)].resolved = TRUE]
                 ELSE queue[gateOf[r]]

\* resolveAudit: the rows up to the first unresolved sequence are written.
ResolveAudit(r) ==
  LET marked == Marked(r)
      left == SelectInSeq(marked, LAMBDA e : ~e.resolved)
      upto == IF left = 0 THEN Len(marked) ELSE left - 1
  IN  /\ Write(FlattenSeq([i \in 1..upto |-> marked[i].rows]))
      /\ queue' = [queue EXCEPT ![gateOf[r]] = SubSeq(marked, upto + 1, Len(marked))]

Row(r, what) == <<r, what>>

\* auditError
AuditError == required /\ sink # "open"

-----------------------------------------------------------------------------
\* reserveAuditSequence, then decide queues the rows of its verdict: a call
\* that was approved is resolved within decide.
Reserve(r, rows) ==
  queue' = [queue EXCEPT ![gateOf[r]] =
              Append(@, [req |-> r, rows |-> rows, resolved |-> FALSE])]

Decide(r) ==
  \/ Reserve(r, <<Row(r, "deny")>>) /\ Goto(r, "rejected")
  \/ method[r] = "tools/call" /\ Reserve(r, <<Row(r, "allow")>>) /\ Goto(r, "cleared")
  \/ method[r] = "tools/call" /\ Reserve(r, <<Row(r, "granted"), Row(r, "allow")>>)
     /\ Goto(r, "approved")
  \/ method[r] # "tools/call" /\ Reserve(r, <<>>) /\ Goto(r, "cleared")

TurnAway(r, a) == Tell(r, a) /\ Goto(r, "returned") /\ UNCHANGED gateVars

(***************************************************************************)
(* A required gate turns away a request that overlaps another, and every   *)
(* request once the writer has failed.                                     *)
(***************************************************************************)
Enter(r) ==
  /\ at[r] = "serve"
  /\ IF required /\ auditMu[gateOf[r]] # {} THEN TurnAway(r, "gate busy")
     ELSE IF AuditError THEN TurnAway(r, "not forwarded")
     ELSE /\ auditMu' = IF required THEN [auditMu EXCEPT ![gateOf[r]] = {r}] ELSE auditMu
          /\ Decide(r)
          /\ UNCHANGED answer
  /\ UNCHANGED <<required, method, gateOf, reached, trailVars>>

Approved(r) ==
  /\ at[r] = "approved"
  /\ ResolveAudit(r)
  /\ Goto(r, "cleared")
  /\ UNCHANGED <<required, method, gateOf, answer, reached, auditMu>>

\* A refusal resolves its sequence and says so, without a second look at the
\* writer.
Reject(r) ==
  /\ at[r] = "rejected"
  /\ IF AuditError THEN Tell(r, "not forwarded") /\ UNCHANGED <<queue, trailVars>>
                   ELSE Tell(r, "denied") /\ ResolveAudit(r)
  /\ Goto(r, "leaving")
  /\ UNCHANGED <<required, method, gateOf, reached, auditMu>>

Forward(r) == reached' = reached \cup {r} /\ Goto(r, "waiting") /\ UNCHANGED answer

\* The dispatch row of a required tool call is written past the queue, and
\* the call is forwarded only when it was.
Dispatch(r) ==
  /\ at[r] = "cleared"
  /\ IF required /\ method[r] = "tools/call" THEN Write(<<Row(r, "dispatch")>>)
                                             ELSE UNCHANGED trailVars
  /\ IF required /\ sink' # "open"
       THEN Tell(r, "not forwarded") /\ Goto(r, "leaving") /\ UNCHANGED reached
       ELSE Forward(r)
  /\ UNCHANGED <<required, method, gateOf, gateVars>>

-----------------------------------------------------------------------------
\* No answer of the upstream, and none that can be used: too late, too long,
\* of another media type, or with an envelope that does not match.
Unreachable(r) == Goto(r, "failed") /\ UNCHANGED queue

Unverified(r) == method[r] = "tools/call" /\ Goto(r, "failed") /\ UNCHANGED queue

\* A discovery stream that ends without a reply is answered before it is
\* resolved.
NoDiscovery(r) ==
  /\ method[r] = "tools/list"
  /\ Goto(r, "failed") \/ Goto(r, "lost")
  /\ UNCHANGED queue

\* The matching discovery reply queues a row for the tools it hides.  A
\* best-effort gate passes it on before it resolves.
Discovery(r) ==
  /\ method[r] = "tools/list"
  /\ \/ UNCHANGED queue
     \/ queue' = [queue EXCEPT ![gateOf[r]][Entry(r)].rows = Append(@, Row(r, "hide"))]
  /\ Goto(r, IF required THEN "answered" ELSE "settled")

\* So does it with the JSON result of a tool, though not with a stream.
ToolResult(r) ==
  /\ method[r] = "tools/call"
  /\ Goto(r, "answered") \/ (~required /\ Goto(r, "settled"))
  /\ UNCHANGED queue

Relay(r) == method[r] = "initialize" /\ Goto(r, "answered") /\ UNCHANGED queue

Hear(r) ==
  /\ at[r] = "waiting"
  /\ \/ Unreachable(r) \/ Unverified(r) \/ NoDiscovery(r)
     \/ Discovery(r) \/ ToolResult(r) \/ Relay(r)
  /\ UNCHANGED <<required, method, gateOf, answer, reached, auditMu, trailVars>>

Resolve(r) ==
  /\ at[r] \in {"failed", "answered"}
  /\ ResolveAudit(r)
  /\ Goto(r, IF at[r] = "failed" THEN "lost" ELSE "settled")
  /\ UNCHANGED <<required, method, gateOf, answer, reached, auditMu>>

\* Fault: the writer is not asked again after the rows went out.
PublishUnchecked(r) ==
  /\ at[r] \in {"lost", "settled"}
  /\ Tell(r, IF at[r] = "lost" THEN "unverified" ELSE "result")
  /\ Goto(r, "leaving")
  /\ UNCHANGED <<required, method, gateOf, reached, gateVars, trailVars>>

Publish(r) ==
  /\ at[r] \in {"lost", "settled"}
  /\ Tell(r, IF AuditError THEN "audit failed"
             ELSE IF at[r] = "lost" THEN "unverified" ELSE "result")
  /\ Goto(r, "leaving")
  /\ UNCHANGED <<required, method, gateOf, reached, gateVars, trailVars>>

\* Fault: an early return leaves its sequence unresolved.
LeaveUnresolved(r) ==
  /\ at[r] = "leaving"
  /\ auditMu' = [auditMu EXCEPT ![gateOf[r]] = @ \ {r}]
  /\ Goto(r, "returned")
  /\ UNCHANGED <<required, method, gateOf, answer, reached, queue, trailVars>>

\* The deferred calls, in their order: a sequence no path resolved is
\* resolved, and the gate is released.
Leave(r) ==
  /\ at[r] = "leaving"
  /\ ResolveAudit(r)
  /\ auditMu' = [auditMu EXCEPT ![gateOf[r]] = @ \ {r}]
  /\ Goto(r, "returned")
  /\ UNCHANGED <<required, method, gateOf, answer, reached>>

Handle(r) ==
  \/ Enter(r) \/ Approved(r) \/ Reject(r) \/ Dispatch(r) \/ Hear(r)
  \/ Resolve(r) \/ Publish(r) \/ Leave(r)

-----------------------------------------------------------------------------
Recorded(r, what) == Row(r, what) \in trail

(***************************************************************************)
(* A gate that requires audit lets nothing happen off the record: a tool   *)
(* call that reached the upstream has its dispatch row, and its result     *)
(* reached the client with the row that allowed it, whatever became of the *)
(* writer, of earlier requests of the gate and of the other gates.         *)
(***************************************************************************)
NothingOffRecord ==
  required => \A r \in Reqs : method[r] = "tools/call" =>
    /\ r \in reached => Recorded(r, "dispatch")
    /\ answer[r] = "result" => Recorded(r, "allow")

=============================================================================
