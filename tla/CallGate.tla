------------------------------ MODULE CallGate ------------------------------
(***************************************************************************)
(* The gate every tools/call passes (decide and decideToolCall of          *)
(* internal/proxy/stdio.go), in the sessions of one gateway.  The policy   *)
(* is read only; the limiter (internal/ratelimit), the trust score         *)
(* (internal/trust), the approver and the forwarder (internal/forward) are *)
(* shared by all sessions, each behind a lock or a channel of its own, so  *)
(* each use of one of them is a step.                                      *)
(*                                                                         *)
(* Time is counted in half minutes.  The score is counted in 1/10000, in   *)
(* which outcomes are exact and decay is rounded down; the program uses    *)
(* floats.  What an approver does is in ApprovalLocal and ApprovalTelegram *)
(* and the order in which rows reach the trail is in SessionAudit.         *)
(***************************************************************************)
EXTENDS Policy, FiniteSetsExt

CONSTANTS
  Sessions, Tools, Methods,
  NoName,      \* a tools/call whose tool name cannot be extracted
  Policies,    \* the policies the gateway may run under
  Stored,      \* the scores an earlier process may have saved
  Buffer,      \* capacity of the forwarder's channel
  MaxCalls, MaxTime   \* bounds: calls made, half minutes

ASSUME NamesAssumption == NoName \notin Tools \cup Methods /\ Tools \cap Methods = {}
ASSUME GateBounds == Buffer \in Nat \ {0} /\ MaxCalls \in Nat /\ MaxTime \in Nat
ASSUME PoliciesLoad == \A pol \in Policies : Loads(pol, FALSE)
ASSUME LimitsAssumption == \A pol \in Policies : {pol.max, pol.window, pol.spend} \subseteq Int

VARIABLES
  policy,      \* the agent's
  approver,    \* an approver is wired
  host,        \* "stdio", one line decided at a time, or "http"
  call,        \* of each session: the call it decides, where it is, and whether
               \* the limiter has counted it and a human granted it
  made,        \* the number of calls made
  upstream,    \* what was known of each call forwarded: the reference
  now,
  times,       \* l.times
  total,       \* l.total
  score,       \* a.score
  updated,     \* a.updated
  queue,       \* the forwarder's channel: the decisions it reports
  worker,      \* "running", "stopping" once the channel is closed, "stopped";
               \* "dead" when the process died of a panic
  accepted,    \* how many reports the channel took: the reference
  posted,      \* how many the worker took out and posted
  admitted     \* when each call was let through by the limiter: the reference

settings == <<policy, approver, host>>
limiter == <<times, total, admitted>>
trust == <<score, updated>>
forwarder == <<queue, worker, accepted, posted>>
calls == <<call, made, upstream>>
vars == <<settings, calls, now, limiter, trust, forwarder>>

Called(t, place) ==
  [name |-> t, at |-> place, counted |-> FALSE, granted |-> FALSE, tapped |-> FALSE]
Idle == Called(NoName, "idle")

-----------------------------------------------------------------------------
(***************************************************************************)
(* Trust.                                                                  *)
(***************************************************************************)
Baseline == 5000
DefaultHalf == 2

Clamp(v) == IF v < 0 THEN 0 ELSE IF v > 10000 THEN 10000 ELSE v

\* decayTo: the whole way in a minute, counted from the last read.
Decayed ==
  IF now - updated >= DefaultHalf THEN Baseline
  ELSE Baseline + ((score - Baseline) * (DefaultHalf - (now - updated))) \div DefaultHalf

Delta(decision) ==
  CASE decision \in {"allow", "approval-granted"} -> 100
    [] decision \in {"ratelimit", "block", "approval-denied"} -> -200
    [] decision = "deny" -> -500
    [] OTHER -> 0

\* ApplyOutcome, for a row that has an outcome.
ApplyOutcome(decision) ==
  IF policy.trust /\ Delta(decision) # 0
    THEN score' = Clamp(Decayed + Delta(decision)) /\ updated' = now
    ELSE UNCHANGED trust

\* MultiplierFor, in tenths.
Multiplier(s) ==
  CASE s >= 8000 -> 20 [] s >= 5000 /\ s < 8000 -> 10
    [] s >= 3000 /\ s < 5000 -> 5 [] OTHER -> 1

\* RateLimitForScore: rounded up, and never less than one.
RateLimitForScore(base, s) == (base * Multiplier(s) + 9) \div 10

-----------------------------------------------------------------------------
(***************************************************************************)
(* The limiter.                                                            *)
(***************************************************************************)
LimiterEnabled == policy.max > 0 \/ policy.spend > 0

\* The timestamps of ts that came after the cutoff.
After(ts, cutoff) == {i \in DOMAIN ts : ts[i] > cutoff}

\* The timestamps from the first that came after the cutoff.
CutAt(ts, cutoff) ==
  IF After(ts, cutoff) = {} THEN <<>> ELSE SubSeq(ts, Min(After(ts, cutoff)), Len(ts))

\* Fault: a timestamp leaves when it is as old as the window, less one.
PruneEarly(ts) == CutAt(ts, now - policy.window + 1)

\* prune: the oldest timestamps leave, up to the first still in the window.
Prune(ts) == CutAt(ts, now - policy.window)

\* Reading the score decays it, and saves it.
Score == IF policy.trust THEN Decayed ELSE Baseline

SpendReached == policy.spend > 0 /\ total >= policy.spend

RateReached ==
  policy.max > 0 /\ Len(Prune(times)) >= RateLimitForScore(policy.max, Score)

AfterLimit(t) == IF NeedsHuman(policy, t) THEN "hold" ELSE "inject"

\* Limiter.Allow: the spend cap first, then the rate; a call refused is not
\* counted.
Allow(s) ==
  /\ call[s].at = "limit"
  /\ IF SpendReached \/ ~policy.trust THEN UNCHANGED trust
     ELSE score' = Decayed /\ updated' = now
  /\ \/ /\ SpendReached \/ RateReached
        /\ times' = IF SpendReached \/ policy.max <= 0 THEN times ELSE Prune(times)
        /\ call' = [call EXCEPT ![s].at = "limited"]
        /\ UNCHANGED <<total, admitted>>
     \/ /\ ~SpendReached /\ ~RateReached
        /\ times' = IF policy.max <= 0 THEN times ELSE Append(Prune(times), now)
        /\ total' = total + 1
        /\ admitted' = Append(admitted, now)
        /\ call' = [call EXCEPT ![s].counted = TRUE, ![s].at = AfterLimit(call[s].name)]
  /\ UNCHANGED <<settings, made, upstream, now, forwarder>>

-----------------------------------------------------------------------------
(***************************************************************************)
(* The forwarder.                                                          *)
(***************************************************************************)
isEnforcement(d) ==
  d \in {"deny", "method-deny", "block", "ratelimit", "approval-granted",
         "approval-denied", "would-deny"}

\* Once Stop has closed the channel a send on it panics, full or not.
Panics(decision) == isEnforcement(decision) /\ worker # "running"

\* Enqueue: a report that finds the channel full is dropped.
Enqueue(decision) ==
  /\ ~Panics(decision)
  /\ IF isEnforcement(decision) /\ Len(queue) < Buffer
       THEN queue' = Append(queue, decision) /\ accepted' = accepted + 1
       ELSE UNCHANGED <<queue, accepted>>
  /\ UNCHANGED <<worker, posted>>

\* What the panic ends: a handler, which net/http recovers, and its call with
\* it; or the stdio proxy, which recovers nothing.
Panic(s) ==
  /\ IF host = "http" THEN call' = [call EXCEPT ![s] = Called(NoName, "panicked")] /\ UNCHANGED worker
     ELSE worker' = "dead" /\ UNCHANGED call
  /\ UNCHANGED <<upstream, queue, accepted, posted>>

\* A report, and what the call does next if it is made.
Report(s, decision, next) ==
  IF Panics(decision) THEN Panic(s) ELSE Enqueue(decision) /\ next

\* The worker posts one report, whatever becomes of the post.
Post ==
  /\ worker # "stopped" /\ queue # <<>>
  /\ queue' = Tail(queue) /\ posted' = posted + 1
  /\ UNCHANGED <<settings, calls, now, limiter, trust, worker, accepted>>

\* Stop, deferred until Run returns, which gives up on what is still decided
\* (the server after 5 seconds, the stdio proxy after its drains): calls may be
\* open, and go on.  The channel is closed, and the worker ends once it is empty.
Stop ==
  /\ worker = "running"
  /\ worker' = "stopping"
  /\ UNCHANGED <<settings, calls, now, limiter, trust, queue, accepted, posted>>

\* Fault: the worker ends when it is told to.
WorkerEndsAtOnce ==
  /\ worker = "stopping"
  /\ worker' = "stopped"
  /\ UNCHANGED <<settings, calls, now, limiter, trust, queue, accepted, posted>>

WorkerEnds ==
  /\ worker = "stopping" /\ queue = <<>>
  /\ worker' = "stopped"
  /\ UNCHANGED <<settings, calls, now, limiter, trust, queue, accepted, posted>>

-----------------------------------------------------------------------------
(***************************************************************************)
(* The gate.                                                               *)
(***************************************************************************)
\* appendAudit, audit or auditMethod: the outcome to the trust score, then the
\* report to the forwarder.
Audit(s, decision, next) == ApplyOutcome(decision) /\ Report(s, decision, next)

\* The decision on a call to t, if it can be refused before anything shared is
\* touched: its policy's, or the pin's or the validator's.
Refusals(t) ==
  IF t = NoName THEN IF FailModeAsks(policy) THEN {} ELSE {"deny"}
  ELSE IF t \in Methods THEN IF DeniesMethod(policy, t) THEN {"method-deny"} ELSE {}
  ELSE IF Verdict(policy, t) = "deny" THEN {"deny"} ELSE {"block"}

Accepts(s) ==
  /\ call[s] = Idle /\ made < MaxCalls
  /\ host = "stdio" => \A x \in Sessions : call[x] = Idle
  /\ made' = made + 1

Refuse(s) ==
  /\ Accepts(s)
  /\ \E t \in Tools \cup Methods \cup {NoName} : \E decision \in Refusals(t) :
       Audit(s, decision, UNCHANGED <<call, upstream>>)
  /\ UNCHANGED <<settings, now, limiter>>

\* Other methods pass; their row is neither an outcome nor reported.
PassMethod(s) ==
  /\ Accepts(s)
  /\ \E m \in Methods : ~DeniesMethod(policy, m)
  /\ UNCHANGED <<settings, call, upstream, now, limiter, trust, forwarder>>

Enter(s) ==
  /\ Accepts(s)
  /\ \E t \in Tools \cup {NoName} :
       /\ "deny" \notin Refusals(t)
       /\ call' = [call EXCEPT ![s] =
            Called(t, IF t = NoName THEN "hold"
                      ELSE IF LimiterEnabled THEN "limit" ELSE AfterLimit(t))]
  /\ UNCHANGED <<settings, upstream, now, limiter, trust, forwarder>>

Reject(s) == call' = [call EXCEPT ![s] = Idle] /\ UNCHANGED upstream

Send(s, c) ==
  /\ call' = [call EXCEPT ![s] = Idle]
  /\ upstream' = upstream \cup {[name |-> c.name, counted |-> c.counted, granted |-> c.granted]}

Limited(s) ==
  /\ call[s].at = "limited"
  /\ Audit(s, "ratelimit", Reject(s))
  /\ UNCHANGED <<settings, made, now, limiter>>

\* approveAsk.  A call without a name is forwarded once it is granted, and
\* denied once more when it is not.
Grant(s) ==
  LET granted == [call[s] EXCEPT !.granted = TRUE, !.at = "inject"] IN
  /\ call[s].at = "hold" /\ approver
  /\ Audit(s, "approval-granted",
       IF granted.name = NoName THEN Send(s, granted)
       ELSE call' = [call EXCEPT ![s] = granted] /\ UNCHANGED upstream)
  /\ UNCHANGED <<settings, made, now, limiter>>

TurnDown(s) ==
  /\ call[s].at = "hold"
  /\ Audit(s, "approval-denied",
       IF call[s].name # NoName THEN Reject(s)
       ELSE call' = [call EXCEPT ![s].at = "unnamed"] /\ UNCHANGED upstream)
  /\ UNCHANGED <<settings, made, now, limiter>>

Unnamed(s) ==
  /\ call[s].at = "unnamed"
  /\ Audit(s, "deny", Reject(s))
  /\ UNCHANGED <<settings, made, now, limiter>>

\* OnRejectedTap: the first tap of somebody who may not answer is reported,
\* and does not count against the agent.
RejectedTap(s) ==
  /\ call[s].at = "hold" /\ approver /\ ~call[s].tapped
  /\ Report(s, "block", call' = [call EXCEPT ![s].tapped = TRUE] /\ UNCHANGED upstream)
  /\ UNCHANGED <<settings, made, now, limiter, trust>>

\* applyInject fails on a secret or on an argument, and rejects the call.
NotInjected(s) ==
  /\ call[s].at = "inject" /\ InjectRulesFor(policy, call[s].name) # <<>>
  /\ Audit(s, "block", Reject(s))
  /\ UNCHANGED <<settings, made, now, limiter>>

\* Every gate is cleared: a would-deny row if a shadow pattern matches, which
\* is reported and no outcome, and the allow row, an outcome and not reported.
Forward(s) ==
  LET row == IF ShadowWouldDeny(policy, call[s].name) THEN "would-deny" ELSE "allow" IN
  /\ call[s].at = "inject"
  /\ IF Panics(row) THEN UNCHANGED trust ELSE ApplyOutcome("allow")
  /\ Report(s, row, Send(s, call[s]))
  /\ UNCHANGED <<settings, made, now, limiter>>

Tick ==
  /\ now < MaxTime
  /\ now' = now + 1
  /\ UNCHANGED <<settings, calls, limiter, trust, forwarder>>

-----------------------------------------------------------------------------
Init ==
  /\ policy \in Policies
  /\ approver \in BOOLEAN /\ host \in {"stdio", "http"}
  /\ call = [s \in Sessions |-> Idle]
  /\ made = 0 /\ upstream = {}
  /\ now = 0
  /\ times = <<>> /\ total = 0 /\ admitted = <<>>
  /\ score \in (IF policy.trust THEN Stored ELSE {Baseline}) /\ updated = 0
  /\ queue = <<>> /\ worker = "running" /\ accepted = 0 /\ posted = 0

Next ==
  /\ worker # "dead"
  /\ \/ \E s \in Sessions :
          \/ Refuse(s) \/ PassMethod(s) \/ Enter(s) \/ Allow(s) \/ Limited(s)
          \/ RejectedTap(s) \/ Grant(s) \/ TurnDown(s) \/ Unnamed(s)
          \/ NotInjected(s) \/ Forward(s)
     \/ Tick \/ Post \/ Stop \/ WorkerEnds

Spec == Init /\ [][Next]_vars

-----------------------------------------------------------------------------
InWindow(ts) == Cardinality(After(ts, now - policy.window))

RoomLeft ==
  /\ policy.spend > 0 => Len(admitted) < policy.spend
  /\ policy.max > 0 => InWindow(admitted) < RateLimitForScore(policy.max, Score)

\* What a step may do under the limits: a call is let through only while there
\* is room, and refused only when the calls let through, however long ago, and
\* not the calls refused, have used it up.
KeepsLimits ==
  /\ admitted' # admitted => RoomLeft
  /\ \A s \in Sessions :
       call'[s].at = "limited" /\ call[s].at = "limit" => ~RoomLeft

(***************************************************************************)
(* A tool call goes upstream only if no deny pattern matches its name, the *)
(* list or mode in force has it, the limiter has counted it, and a human   *)
(* has let this very call through when an ask or a require_approval        *)
(* pattern matches: with no approver, never.  A call without a name goes   *)
(* only after a human's answer.                                            *)
(***************************************************************************)
ForwardedIsCleared ==
  \A c \in upstream :
    LET names(ps) == UNION {p.names : p \in ps}
    IN  IF c.name = NoName THEN approver /\ c.granted
        ELSE /\ c.name \notin names(policy.deny)
             /\ \/ c.name \in names(policy.ask) \cup names(policy.allow)
                \/ policy.mode = "allow" /\ policy.allow = {}
             /\ LimiterEnabled => c.counted
             /\ c.name \in names(policy.ask) \cup names(policy.require) =>
                  approver /\ c.granted

(***************************************************************************)
(* When Stop returns every report the channel took has been posted, however*)
(* many calls are still open and go on while it waits: what is lost of the *)
(* refusals is only what found the channel full, or found it closed.  Stop *)
(* does not return if a stdio proxy dies of such a report, though none is  *)
(* to "stall or fail a tool call" (forward.go:13): see the README.         *)
(***************************************************************************)
StopPostsAll == worker = "stopped" => posted = accepted

=============================================================================
