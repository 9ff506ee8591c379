------------------------------ MODULE Gateway -------------------------------
(***************************************************************************)
(* The OAuth gateway of internal/gateway/gateway.go in front of HTTP       *)
(* listeners: every session has a fresh gate, all of them share the        *)
(* agent's trail.  A request is authenticated, admitted, given its session *)
(* and handed to the session's listener; an initialize is buffered until   *)
(* the listener has returned, and its session is released before the       *)
(* result is written, since the client may answer the first byte of it.    *)
(*                                                                         *)
(* The same listener also runs without a gateway, as mcp-listen: then all  *)
(* requests meet at one gate, which may be a best-effort one.              *)
(***************************************************************************)
EXTENDS HttpListener

CONSTANTS
  Limit,      \* sessionLimit: of sessions, and of requests in flight
  AuthLimit,  \* authLimit: of authentications in flight
  TTL,        \* sessionTTL, in ticks; a request lasts one tick at most
  Unhosted    \* bound on the requests without a gateway

ASSUME GatewayAssumption ==
  /\ Reqs \subseteq Nat
  /\ Limit \in Nat \ {0} /\ AuthLimit \in Nat \ {0} /\ TTL \in Nat \ {0, 1} /\ Unhosted \in Nat

VARIABLES
  hosted,     \* whether the gateway is in front
  sessions,   \* the table: gate -> busy, age (now - lastUsed), upstreamID
  issued,     \* the session ids ever made; no id is made twice
  exposed,    \* those a client has been told
  since,      \* gate -> ticks since its client was last answered
  carried,    \* request -> the upstream session it was forwarded under
  authInflight, inflight,  \* the requests that hold a slot
  old         \* the requests that have lived a tick

tableVars == <<sessions, issued, exposed>>
slotVars == <<authInflight, inflight>>
gatewayVars == <<hosted, tableVars, since, carried, slotVars, old>>
vars == <<listenerVars, gatewayVars>>

Active(r) == at[r] \notin {"idle", "done"}

Init ==
  /\ required \in BOOLEAN /\ hosted \in BOOLEAN /\ (hosted => required)
  /\ at = [r \in Reqs |-> "idle"]
  /\ method = [r \in Reqs |-> "tools/list"]
  /\ gateOf = [r \in Reqs |-> NoGate]
  /\ answer = [r \in Reqs |-> "none"]
  /\ reached = {}
  /\ auditMu = [g \in Gates |-> {}]
  /\ queue = [g \in Gates |-> <<>>]
  /\ trail = {} /\ sink = "open"
  /\ sessions = << >> /\ issued = {} /\ exposed = {}
  /\ since = [g \in Gates |-> 0]
  /\ carried = [r \in Reqs |-> NoGate]
  /\ authInflight = {} /\ inflight = {} /\ old = {}

-----------------------------------------------------------------------------
\* Requests are numbered as they arrive: one with a session id the client was
\* told, or an initialize without.
\* An mcp-listen has one gate for everything.
Arrive(r) ==
  /\ at[r] = "idle" /\ sink # "closed" /\ (hosted \/ r <= Unhosted)
  /\ \A q \in Reqs : q < r => at[q] # "idle"
  /\ \E m \in Methods, g \in Gates \cup {NoGate} :
       /\ method' = [method EXCEPT ![r] = m]
       /\ gateOf' = [gateOf EXCEPT ![r] = g]
       /\ IF hosted THEN (g \in exposed /\ m # "initialize") \/ (g = NoGate /\ m = "initialize")
                    ELSE g = 1
  /\ IF ~hosted THEN Goto(r, "serve") /\ UNCHANGED <<answer, authInflight>>
     ELSE IF Cardinality(authInflight) < AuthLimit
       THEN /\ authInflight' = authInflight \cup {r}
            /\ Goto(r, "auth") /\ UNCHANGED answer
       ELSE Tell(r, "gateway busy") /\ Goto(r, "done") /\ UNCHANGED authInflight
  /\ UNCHANGED <<required, reached, gateVars, trailVars, hosted, tableVars, since, carried,
                 inflight, old>>

\* The answer of the introspection gives the authentication slot back; a
\* valid token then needs a request slot.
Authenticate(r) ==
  /\ at[r] = "auth"
  /\ authInflight' = authInflight \ {r}
  /\ \/ /\ Cardinality(inflight) < Limit
        /\ inflight' = inflight \cup {r}
        /\ Goto(r, "admitted") /\ UNCHANGED <<answer, old>>
     \/ /\ Cardinality(inflight) >= Limit
        /\ Tell(r, "gateway busy") /\ Goto(r, "done")
        /\ old' = old \ {r} /\ UNCHANGED inflight
     \/ /\ Tell(r, "unauthenticated") /\ Goto(r, "done")
        /\ old' = old \ {r} /\ UNCHANGED inflight
  /\ UNCHANGED <<required, method, gateOf, reached, gateVars, trailVars, hosted, tableVars,
                 since, carried>>

-----------------------------------------------------------------------------
Put(f, k, v) == [x \in DOMAIN f \cup {k} |-> IF x = k THEN v ELSE f[x]]
Drop(f, k) == [x \in DOMAIN f \ {k} |-> f[x]]

\* acquire first forgets the sessions that have been idle for the TTL.
Swept == [g \in {x \in DOMAIN sessions : sessions[x].busy \/ sessions[x].age < TTL}
            |-> sessions[g]]

Refuse(r, a, table) ==
  /\ Tell(r, a) /\ Goto(r, "done")
  /\ sessions' = table
  /\ inflight' = inflight \ {r} /\ old' = old \ {r}
  /\ UNCHANGED <<gateOf, issued>>

Take(r, g, table) ==
  /\ sessions' = table
  /\ gateOf' = [gateOf EXCEPT ![r] = g]
  /\ Goto(r, "serve")
  /\ UNCHANGED <<answer, inflight, old>>

AcquireExisting(r, g) ==
  /\ UNCHANGED issued
  /\ IF g \notin DOMAIN Swept THEN Refuse(r, "session not found", Swept)
     ELSE IF sessions[g].busy THEN Refuse(r, "session busy", Swept)
     ELSE Take(r, g, [Swept EXCEPT ![g].busy = TRUE])

AcquireNew(r) ==
  IF Cardinality(DOMAIN Swept) >= Limit THEN Refuse(r, "table full", Swept)
  ELSE LET g == Cardinality(issued) + 1
       IN  /\ g \in Gates
           /\ issued' = issued \cup {g}
           /\ Take(r, g, Put(Swept, g, [busy |-> TRUE, age |-> 0, upstreamID |-> NoGate]))

Acquire(r) ==
  /\ at[r] = "admitted"
  /\ IF gateOf[r] = NoGate THEN AcquireNew(r) ELSE AcquireExisting(r, gateOf[r])
  /\ UNCHANGED <<required, method, reached, gateVars, trailVars, hosted, exposed, since,
                 carried, authInflight>>

\* The request cannot be read, is not one message, or starts a session and
\* names one.
Malformed(r) ==
  /\ at[r] = "admitted"
  /\ Tell(r, "bad request") /\ Goto(r, "done")
  /\ inflight' = inflight \ {r} /\ old' = old \ {r}
  /\ UNCHANGED <<required, method, gateOf, reached, gateVars, trailVars, hosted, tableVars,
                 since, carried, authInflight>>

-----------------------------------------------------------------------------
\* Fault: an initialize releases its session inside the listener's handler,
\* with the result.
ServeReleasing(r) ==
  LET ready == hosted /\ method[r] = "initialize" /\ answer'[r] # answer[r]
                      /\ answer'[r] = "result"
      g == gateOf[r]
  IN  /\ Handle(r)
      /\ carried' = IF hosted /\ reached' # reached
                      THEN [carried EXCEPT ![r] = sessions[g].upstreamID] ELSE carried
      /\ sessions' = IF ready THEN [sessions EXCEPT ![g].busy = FALSE, ![g].upstreamID = g]
                              ELSE sessions
      /\ exposed' = IF ready THEN exposed \cup {g} ELSE exposed
      /\ UNCHANGED <<hosted, issued, since, slotVars, old>>

\* The listener's steps; a request is forwarded under the upstream session
\* of its own session.
Serve(r) ==
  /\ Handle(r)
  /\ carried' = IF hosted /\ reached' # reached
                  THEN [carried EXCEPT ![r] = sessions[gateOf[r]].upstreamID] ELSE carried
  /\ UNCHANGED <<hosted, tableVars, since, slotVars, old>>

Gone(r) ==
  /\ Goto(r, "done")
  /\ inflight' = inflight \ {r} /\ old' = old \ {r}

(***************************************************************************)
(* onReady: a valid initialize result installs the upstream session and    *)
(* releases the session before any byte of it is written.                  *)
(***************************************************************************)
Ready(r) ==
  /\ sessions' = [sessions EXCEPT ![gateOf[r]] =
                    [busy |-> FALSE, age |-> 0, upstreamID |-> gateOf[r]]]
  /\ exposed' = exposed \cup {gateOf[r]}
  /\ Goto(r, "flushing")
  /\ UNCHANGED <<inflight, old, since, issued>>

\* The deferred release: the session of a failed initialize is deleted.
Release(r) ==
  /\ sessions' = IF method[r] = "initialize" THEN Drop(sessions, gateOf[r])
                 ELSE [sessions EXCEPT ![gateOf[r]].busy = FALSE, ![gateOf[r]].age = 0]
  /\ since' = [since EXCEPT ![gateOf[r]] = 0]
  /\ Gone(r)
  /\ UNCHANGED <<issued, exposed>>

\* The listener has returned.  An initialize result may still be no success
\* of its own request.
Return(r) ==
  /\ at[r] = "returned"
  /\ IF ~hosted THEN Gone(r) /\ UNCHANGED <<tableVars, since>>
     ELSE \/ method[r] = "initialize" /\ answer[r] = "result" /\ Ready(r)
          \/ Release(r)
  /\ UNCHANGED <<required, method, gateOf, answer, reached, gateVars, trailVars, hosted,
                 carried, authInflight>>

\* Fault: the idle time of a session runs from its release alone.
FlushedUnrefreshed(r) ==
  /\ at[r] = "flushing"
  /\ since' = [since EXCEPT ![gateOf[r]] = 0]
  /\ Gone(r)
  /\ UNCHANGED <<required, method, gateOf, answer, reached, gateVars, trailVars, hosted,
                 tableVars, carried, authInflight>>

\* The result is out: the idle time starts anew, unless a later request owns
\* the session by now or it is gone.
Flushed(r) ==
  LET g == gateOf[r]
  IN  /\ at[r] = "flushing"
      /\ sessions' = IF g \in DOMAIN sessions /\ ~sessions[g].busy
                       THEN [sessions EXCEPT ![g].age = 0] ELSE sessions
      /\ since' = [since EXCEPT ![g] = 0]
      /\ Gone(r)
      /\ UNCHANGED <<required, method, gateOf, answer, reached, gateVars, trailVars, hosted,
                     issued, exposed, carried, authInflight>>

-----------------------------------------------------------------------------
Older(a) == IF a < TTL THEN a + 1 ELSE a

\* Time passes; no request outlives its deadline, which is shorter than a
\* tick.
Tick ==
  /\ hosted
  /\ old = {}
  /\ old' = {r \in Reqs : Active(r)}
  /\ sessions' = [g \in DOMAIN sessions |-> [sessions[g] EXCEPT !.age = Older(@)]]
  /\ since' = [g \in Gates |-> Older(since[g])]
  /\ UNCHANGED <<listenerVars, hosted, issued, exposed, carried, slotVars>>

\* Run: no request is accepted any more; the writer is closed when the last
\* one is done or when five seconds have passed.
Close ==
  /\ sink' = "closed"
  /\ UNCHANGED <<required, at, method, gateOf, answer, reached, gateVars, trail, gatewayVars>>

Step(r) ==
  \/ Authenticate(r) \/ Acquire(r) \/ Malformed(r) \/ Serve(r) \/ Return(r) \/ Flushed(r)

Next == (\E r \in Reqs : Arrive(r) \/ Step(r)) \/ Tick \/ Close

Spec == Init /\ [][Next]_vars

-----------------------------------------------------------------------------
(***************************************************************************)
(* A client that was told its session may use it: unless the writer failed *)
(* its request is never turned away by the gate behind the session, which  *)
(* the initialize it answers may still be inside, and it is forwarded      *)
(* under the upstream session that initialize made.                        *)
(***************************************************************************)
ToldSessionsAreReady ==
  hosted => \A r \in Reqs :
    /\ answer[r] # "gate busy"
    /\ r \in reached /\ method[r] # "initialize" => carried[r] = gateOf[r]

(***************************************************************************)
(* A refusal is justified: a session is reported missing to a client that  *)
(* was told of it only when it went unused for the TTL, counted from the   *)
(* last answer the client had; and the table is full only of sessions that *)
(* are busy or were used within the TTL.                                   *)
(***************************************************************************)
RefusalsJustified ==
  [][\A r \in Reqs : answer'[r] # answer[r] =>
       /\ answer'[r] = "session not found" => since[gateOf[r]] >= TTL
       /\ answer'[r] = "table full" =>
            Cardinality({g \in DOMAIN sessions : sessions[g].busy \/ sessions[g].age < TTL})
              >= Limit]_vars

(***************************************************************************)
(* When no request is under way nothing of one is left behind: no slot, no *)
(* lock, no audit sequence that would hold back the rows after it, no busy *)
(* session and none that no client knows of.                               *)
(***************************************************************************)
NothingLeftBehind ==
  (\A r \in Reqs : ~Active(r)) =>
    /\ inflight = {} /\ authInflight = {}
    /\ \A g \in Gates : auditMu[g] = {} /\ queue[g] = <<>>
    /\ \A g \in DOMAIN sessions : ~sessions[g].busy /\ g \in exposed

=============================================================================
