--------------------------- MODULE CallGateProofs ---------------------------
(***************************************************************************)
(* Theorems about CallGate, for any sessions, tools, policies that load,   *)
(* and limits; and about the router beside it in CallGateMC, for any pool  *)
(* files that parse, sessions and trees.                                   *)
(***************************************************************************)
EXTENDS CallGateMC, FiniteSetTheorems, SequenceTheorems, WellFoundedInduction, TLAPS

Places == {"idle", "limit", "limited", "hold", "unnamed", "inject", "panicked"}
CallRecords ==
  [name : Tools \cup {NoName}, at : Places, counted : BOOLEAN, granted : BOOLEAN,
   tapped : BOOLEAN]

CallsTyped == call \in [Sessions -> CallRecords] /\ approver \in BOOLEAN

Counted(c) == LimiterEnabled => c.counted

\* What a call has passed when it waits for a human, and when it is cleared.
PassedAt(c) ==
  /\ c.at \in {"limit", "hold", "inject"} =>
       \/ c.name = NoName /\ c.at = "hold"
       \/ c.name \in Tools /\ Verdict(policy, c.name) # "deny"
  /\ c.at \in {"hold", "inject"} /\ c.name # NoName => Counted(c)
  /\ c.at = "inject" => (NeedsHuman(policy, c.name) => approver /\ c.granted)

\* What is known of a call that went upstream.
Cleared(u) ==
  IF u.name = NoName THEN approver /\ u.granted
  ELSE /\ u.name \in Tools /\ Verdict(policy, u.name) # "deny"
       /\ Counted(u)
       /\ NeedsHuman(policy, u.name) => approver /\ u.granted

IInv ==
  /\ CallsTyped
  /\ \A s \in Sessions : PassedAt(call[s])
  /\ \A u \in upstream : Cleared(u)

-----------------------------------------------------------------------------
NamesOf(ps) == UNION {p.names : p \in ps}

LEMMA MatchesIsNames ==
  ASSUME NEW ps, NEW t
  PROVE  matchesAny(ps, t) <=> t \in NamesOf(ps)
BY DEF matchesAny, matchPattern, NamesOf

LEMMA ClearedMeetsLists ==
  ASSUME NEW t, Verdict(policy, t) # "deny"
  PROVE  /\ t \notin NamesOf(policy.deny)
         /\ \/ t \in NamesOf(policy.ask) \cup NamesOf(policy.allow)
            \/ policy.mode = "allow" /\ policy.allow = {}
         /\ t \in NamesOf(policy.ask) \cup NamesOf(policy.require)
              => NeedsHuman(policy, t)
<1>1. t \notin NamesOf(policy.deny)
  BY DEF Verdict, DeniedByRule, matchPattern, NamesOf
<1>2. CASE matchesAny(policy.ask, t)
  BY <1>1, <1>2, MatchesIsNames DEF Verdict, NeedsHuman
<1>3. CASE ~matchesAny(policy.ask, t)
  <2>1. Allowed(policy, t) /\ Verdict(policy, t) = "allow"
    BY <1>3 DEF Verdict
  <2>2. t \notin NamesOf(policy.ask)
    BY <1>3, MatchesIsNames
  <2>3. matchesAny(policy.allow, t) <=> t \in NamesOf(policy.allow)
    BY MatchesIsNames
  <2>4. matchesAny(policy.require, t) <=> t \in NamesOf(policy.require)
    BY MatchesIsNames
  <2> QED BY <1>1, <2>1, <2>2, <2>3, <2>4 DEF Allowed, NeedsHuman, RequiresApproval
<1> QED BY <1>2, <1>3

LEMMA EnteredIsNotDenied ==
  ASSUME NEW t \in Tools, "deny" \notin Refusals(t)
  PROVE  Verdict(policy, t) # "deny" /\ t # NoName
<1>1. t # NoName /\ t \notin Methods
  BY NamesAssumption
<1> QED BY <1>1 DEF Refusals

-----------------------------------------------------------------------------
LEMMA InitInv == Init => IInv
<1> SUFFICES ASSUME Init PROVE IInv
  OBVIOUS
<1>1. CallsTyped
  BY DEF Init, CallsTyped, CallRecords, Places, Idle, Called
<1>2. \A s \in Sessions : PassedAt(call[s])
  BY DEF Init, PassedAt, Idle, Called
<1>3. upstream = {}
  BY DEF Init
<1> QED BY <1>1, <1>2, <1>3 DEF IInv

\* A step that leaves the policy and the approver alone, changes one call to
\* one that is in order, and sends only what is.
LEMMA OneCallMoves ==
  ASSUME IInv, UNCHANGED <<policy, approver>>,
         NEW s \in Sessions, NEW c \in CallRecords, PassedAt(c),
         call' = [call EXCEPT ![s] = c],
         \/ upstream' = upstream
         \/ \E u : Cleared(u) /\ upstream' = upstream \cup {u}
  PROVE  IInv'
<1>1. CallsTyped'
  BY DEF IInv, CallsTyped, CallRecords, Places
<1>2. LimiterEnabled' = LimiterEnabled
  BY DEF LimiterEnabled
<1>3. \A x \in Sessions : PassedAt(call[x])'
  BY <1>2 DEF IInv, CallsTyped, PassedAt, Counted
<1>4. \A u : Cleared(u) => Cleared(u)'
  BY <1>2 DEF Cleared, Counted
<1>5. \A u \in upstream' : Cleared(u)'
  BY <1>4 DEF IInv
<1> QED BY <1>1, <1>3, <1>5 DEF IInv

\* What a report does to the call: it is over if it panics.
LEMMA PanicKeeps ==
  ASSUME IInv, UNCHANGED <<policy, approver>>, NEW s \in Sessions, Panic(s)
  PROVE  IInv'
<1>1. CASE UNCHANGED call
  <2>1. UNCHANGED <<policy, approver, call, upstream>>
    BY <1>1 DEF Panic
  <2> QED
    BY <2>1 DEF IInv, CallsTyped, CallRecords, Places, PassedAt, Cleared, Counted, LimiterEnabled
<1>2. CASE call' = [call EXCEPT ![s] = Called(NoName, "panicked")]
  <2> DEFINE c == Called(NoName, "panicked")
  <2>1. c \in CallRecords /\ PassedAt(c)
    BY DEF Called, CallRecords, Places, PassedAt
  <2>2. call' = [call EXCEPT ![s] = c] /\ upstream' = upstream
    BY <1>2 DEF Panic
  <2> QED BY <2>1, <2>2, OneCallMoves
<1> QED BY <1>1, <1>2 DEF Panic

LEMMA NoCallMoves ==
  ASSUME IInv, UNCHANGED <<policy, approver, call, upstream>>
  PROVE  IInv'
BY DEF IInv, CallsTyped, CallRecords, Places, PassedAt, Cleared, Counted, LimiterEnabled

LEMMA NextInv == IInv /\ [Next]_vars => IInv'
<1> SUFFICES ASSUME IInv, [Next]_vars PROVE IInv'
  OBVIOUS
<1> USE DEF calls, settings
<1>0. ASSUME NEW s \in Sessions
      PROVE  call[s] \in CallRecords /\ PassedAt(call[s])
  BY <1>0 DEF IInv, CallsTyped
<1>idle. Idle \in CallRecords /\ PassedAt(Idle)
  BY DEF Idle, Called, CallRecords, Places, PassedAt
<1>1. ASSUME NEW s \in Sessions, Refuse(s) \/ PassMethod(s)
      PROVE  IInv'
  <2>1. UNCHANGED <<policy, approver>> /\ (Panic(s) \/ UNCHANGED <<call, upstream>>)
    BY <1>1 DEF Refuse, PassMethod, Audit, Report
  <2> QED BY <2>1, NoCallMoves, PanicKeeps
<1>2. ASSUME NEW s \in Sessions, Enter(s)
      PROVE  IInv'
  <2>1. PICK t \in Tools \cup {NoName} :
          /\ "deny" \notin Refusals(t)
          /\ call' = [call EXCEPT ![s] =
               Called(t, IF t = NoName THEN "hold"
                         ELSE IF LimiterEnabled THEN "limit" ELSE AfterLimit(t))]
    BY <1>2 DEF Enter
  <2> DEFINE c == Called(t, IF t = NoName THEN "hold"
                            ELSE IF LimiterEnabled THEN "limit" ELSE AfterLimit(t))
  <2>2. t # NoName => t \in Tools /\ Verdict(policy, t) # "deny"
    BY <2>1, EnteredIsNotDenied
  <2>3. c \in CallRecords
    BY DEF CallRecords, Places, Called, AfterLimit
  <2>4. PassedAt(c)
    BY <2>2 DEF PassedAt, Called, Counted, AfterLimit
  <2> QED BY <1>2, <2>1, <2>3, <2>4, OneCallMoves DEF Enter
<1>3. ASSUME NEW s \in Sessions, Allow(s)
      PROVE  IInv'
  <2>1. UNCHANGED <<policy, approver, upstream>> /\ call[s].at = "limit"
    BY <1>3 DEF Allow
  <2>2. call[s].name \in Tools /\ Verdict(policy, call[s].name) # "deny"
    BY <1>0, <2>1 DEF PassedAt
  <2>3. CASE call' = [call EXCEPT ![s].at = "limited"]
    <3> DEFINE c == [call[s] EXCEPT !.at = "limited"]
    <3>1. c \in CallRecords /\ PassedAt(c)
      BY <1>0 DEF CallRecords, Places, PassedAt
    <3>2. call' = [call EXCEPT ![s] = c]
      BY <2>3
    <3> QED BY <2>1, <3>1, <3>2, OneCallMoves
  <2>4. CASE call' = [call EXCEPT ![s].counted = TRUE, ![s].at = AfterLimit(call[s].name)]
    <3> DEFINE c == [call[s] EXCEPT !.counted = TRUE, !.at = AfterLimit(call[s].name)]
    <3>1. c \in CallRecords
      BY <1>0 DEF CallRecords, Places, AfterLimit
    <3>2. PassedAt(c)
      BY <1>0, <2>2 DEF CallRecords, PassedAt, Counted, AfterLimit
    <3>3. call' = [call EXCEPT ![s] = c]
      BY <1>0, <2>4 DEF IInv, CallsTyped, CallRecords
    <3> QED BY <2>1, <3>1, <3>2, <3>3, OneCallMoves
  <2> QED BY <1>3, <2>3, <2>4 DEF Allow
<1>4. ASSUME NEW s \in Sessions, Reject(s), UNCHANGED <<policy, approver>>
      PROVE  IInv'
  BY <1>4, <1>idle, OneCallMoves DEF Reject
<1>p. ASSUME NEW s \in Sessions, Panic(s), UNCHANGED <<policy, approver>>
      PROVE  IInv'
  BY <1>p, PanicKeeps
<1>5. ASSUME NEW s \in Sessions, Limited(s) \/ Unnamed(s) \/ NotInjected(s)
      PROVE  IInv'
  <2>1. UNCHANGED <<policy, approver>> /\ (Panic(s) \/ Reject(s))
    BY <1>5 DEF Limited, Unnamed, NotInjected, Audit, Report
  <2> QED BY <1>4, <1>p, <2>1
<1>6. ASSUME NEW s \in Sessions, RejectedTap(s)
      PROVE  IInv'
  <2> DEFINE c == [call[s] EXCEPT !.tapped = TRUE]
  <2>1. c \in CallRecords /\ PassedAt(c)
    BY <1>0 DEF CallRecords, PassedAt, Counted
  <2>2. /\ UNCHANGED <<policy, approver>>
        /\ Panic(s) \/ (call' = [call EXCEPT ![s] = c] /\ upstream' = upstream)
    BY <1>6 DEF RejectedTap, Report
  <2> QED BY <1>p, <2>1, <2>2, OneCallMoves
<1>7. ASSUME NEW s \in Sessions, Grant(s)
      PROVE  IInv'
  <2> DEFINE c == [call[s] EXCEPT !.granted = TRUE, !.at = "inject"]
             u == [name |-> c.name, counted |-> c.counted, granted |-> c.granted]
  <2>1. UNCHANGED <<policy, approver>> /\ call[s].at = "hold" /\ approver
    BY <1>7 DEF Grant
  <2>p. \/ Panic(s)
        \/ IF c.name = NoName THEN Send(s, c)
           ELSE call' = [call EXCEPT ![s] = c] /\ UNCHANGED upstream
    BY <1>7 DEF Grant, Audit, Report
  <2>2. CASE c.name = NoName /\ ~Panic(s)
    <3>1. call' = [call EXCEPT ![s] = Idle] /\ upstream' = upstream \cup {u}
      BY <2>p, <2>2 DEF Send
    <3>2. Cleared(u)
      BY <1>0, <2>1, <2>2 DEF Cleared, CallRecords
    <3> QED BY <1>idle, <2>1, <3>1, <3>2, OneCallMoves
  <2>3. CASE c.name # NoName /\ ~Panic(s)
    <3>1. call' = [call EXCEPT ![s] = c] /\ upstream' = upstream
      BY <2>p, <2>3
    <3>2. c \in CallRecords
      BY <1>0 DEF CallRecords, Places
    <3>3. PassedAt(c)
      BY <1>0, <2>1, <2>3 DEF PassedAt, Counted, CallRecords
    <3> QED BY <2>1, <3>1, <3>2, <3>3, OneCallMoves
  <2> QED BY <1>p, <2>1, <2>2, <2>3
<1>8. ASSUME NEW s \in Sessions, TurnDown(s)
      PROVE  IInv'
  <2>1. UNCHANGED <<policy, approver>>
    BY <1>8 DEF TurnDown
  <2>2. CASE Reject(s)
    BY <1>4, <2>1, <2>2
  <2>3. CASE call' = [call EXCEPT ![s].at = "unnamed"] /\ upstream' = upstream
    <3> DEFINE c == [call[s] EXCEPT !.at = "unnamed"]
    <3>1. c \in CallRecords /\ PassedAt(c)
      BY <1>0 DEF CallRecords, Places, PassedAt
    <3>2. call' = [call EXCEPT ![s] = c]
      BY <2>3
    <3> QED BY <2>1, <2>3, <3>1, <3>2, OneCallMoves
  <2> QED BY <1>p, <1>8, <2>1, <2>2, <2>3 DEF TurnDown, Audit, Report
<1>9. ASSUME NEW s \in Sessions, Forward(s)
      PROVE  IInv'
  <2> DEFINE u == [name |-> call[s].name, counted |-> call[s].counted,
                   granted |-> call[s].granted]
  <2>1. UNCHANGED <<policy, approver>> /\ call[s].at = "inject"
    BY <1>9 DEF Forward
  <2>2. Panic(s) \/ (call' = [call EXCEPT ![s] = Idle] /\ upstream' = upstream \cup {u})
    BY <1>9 DEF Forward, Report, Send
  <2>3. call[s].name \in Tools /\ call[s].name # NoName
    BY <1>0, <2>1, NamesAssumption DEF PassedAt
  <2>4. Cleared(u)
    BY <1>0, <2>1, <2>3 DEF PassedAt, Cleared, Counted, CallRecords
  <2> QED BY <1>idle, <1>p, <2>1, <2>2, <2>4, OneCallMoves
<1>10. CASE Tick \/ Post \/ Stop \/ WorkerEnds \/ UNCHANGED vars
  BY <1>10, NoCallMoves DEF Tick, Post, Stop, WorkerEnds, vars
<1> QED BY <1>1, <1>2, <1>3, <1>5, <1>6, <1>7, <1>8, <1>9, <1>10 DEF Next

LEMMA InvClears == IInv => ForwardedIsCleared
<1> SUFFICES ASSUME IInv, NEW c \in upstream, c.name # NoName
             PROVE  /\ c.name \notin NamesOf(policy.deny)
                    /\ \/ c.name \in NamesOf(policy.ask) \cup NamesOf(policy.allow)
                       \/ policy.mode = "allow" /\ policy.allow = {}
                    /\ LimiterEnabled => c.counted
                    /\ c.name \in NamesOf(policy.ask) \cup NamesOf(policy.require) =>
                         approver /\ c.granted
  BY DEF ForwardedIsCleared, NamesOf, IInv, Cleared
<1>1. Verdict(policy, c.name) # "deny" /\ Counted(c)
      /\ (NeedsHuman(policy, c.name) => approver /\ c.granted)
  BY DEF IInv, Cleared
<1> QED BY <1>1, ClearedMeetsLists DEF Counted

(***************************************************************************)
(* Whatever the sessions do side by side, under any policies that load, no *)
(* call goes upstream that a deny pattern names, that the limiter has not  *)
(* counted, or that a person had to let through and did not.               *)
(***************************************************************************)
THEOREM CallsAreCleared == Spec => []ForwardedIsCleared
<1>1. Spec => []IInv
  BY InitInv, NextInv, PTL DEF Spec
<1> QED BY <1>1, InvClears, PTL

-----------------------------------------------------------------------------
(***************************************************************************)
(* The forwarder: what the channel took is posted or still in it, calls    *)
(* that go on after it is closed add nothing, and its worker empties it.   *)
(***************************************************************************)
Enforcements ==
  {"deny", "method-deny", "block", "ratelimit", "approval-granted", "approval-denied",
   "would-deny"}

ForwarderInv ==
  /\ queue \in Seq(Enforcements)
  /\ posted \in Nat /\ accepted = posted + Len(queue)
  /\ worker = "stopped" => queue = <<>>

LEMMA ReportKeeps ==
  ASSUME ForwarderInv, NEW s, NEW d, Panic(s) \/ Enqueue(d)
  PROVE  ForwarderInv'
<1>1. CASE Panic(s)
  BY <1>1 DEF ForwarderInv, Panic
<1>2. CASE Enqueue(d) /\ isEnforcement(d) /\ Len(queue) < Buffer
  <2>1. d \in Enforcements /\ worker = "running"
    BY <1>2 DEF Enqueue, Panics, isEnforcement, Enforcements
  <2>2. /\ queue' = Append(queue, d) /\ accepted' = accepted + 1
        /\ UNCHANGED <<worker, posted>>
    BY <1>2 DEF Enqueue
  <2>3. queue' \in Seq(Enforcements) /\ Len(queue') = Len(queue) + 1 /\ Len(queue) \in Nat
    BY <2>1, <2>2 DEF ForwarderInv
  <2> QED BY <2>1, <2>2, <2>3 DEF ForwarderInv
<1>3. CASE Enqueue(d) /\ ~(isEnforcement(d) /\ Len(queue) < Buffer)
  BY <1>3 DEF ForwarderInv, Enqueue
<1> QED BY <1>1, <1>2, <1>3

LEMMA ForwarderQuiet ==
  ASSUME ForwarderInv, UNCHANGED forwarder
  PROVE  ForwarderInv'
BY DEF ForwarderInv, forwarder

LEMMA ForwarderInvInit == Init => ForwarderInv
BY DEF Init, ForwarderInv

LEMMA ForwarderInvStep == ForwarderInv /\ [Next]_vars => ForwarderInv'
<1> SUFFICES ASSUME ForwarderInv, [Next]_vars PROVE ForwarderInv'
  OBVIOUS
<1> USE DEF calls, settings
<1>1. ASSUME NEW s \in Sessions, Refuse(s) PROVE ForwarderInv'
  <2>1. PICK d : Panic(s) \/ Enqueue(d)
    BY <1>1 DEF Refuse, Audit, Report
  <2> QED BY <2>1, ReportKeeps
<1>2. ASSUME NEW s \in Sessions, PassMethod(s) \/ Enter(s) \/ Allow(s) PROVE ForwarderInv'
  BY <1>2, ForwarderQuiet DEF PassMethod, Enter, Allow
<1>3. ASSUME NEW s \in Sessions, Limited(s) \/ Grant(s) \/ TurnDown(s) \/ Unnamed(s)
                                   \/ NotInjected(s) \/ RejectedTap(s) \/ Forward(s)
      PROVE  ForwarderInv'
  <2>1. PICK d : Panic(s) \/ Enqueue(d)
    BY <1>3 DEF Limited, Grant, TurnDown, Unnamed, NotInjected, RejectedTap, Forward, Audit, Report
  <2> QED BY <2>1, ReportKeeps
<1>4. CASE Post
  <2>1. queue # <<>> /\ queue' = Tail(queue) /\ posted' = posted + 1 /\ worker # "stopped"
        /\ UNCHANGED <<worker, accepted>>
    BY <1>4 DEF Post
  <2>2. Len(Tail(queue)) = Len(queue) - 1 /\ Len(queue) \in Nat
    BY <2>1 DEF ForwarderInv
  <2>3. queue' \in Seq(Enforcements)
    BY <2>1 DEF ForwarderInv
  <2> QED BY <2>1, <2>2, <2>3 DEF ForwarderInv
<1>5. CASE Stop
  BY <1>5 DEF Stop, ForwarderInv
<1>6. CASE WorkerEnds
  BY <1>6 DEF WorkerEnds, ForwarderInv
<1>7. CASE Tick \/ UNCHANGED vars
  BY <1>7, ForwarderQuiet DEF Tick, vars
<1> QED BY <1>1, <1>2, <1>3, <1>4, <1>5, <1>6, <1>7 DEF Next

(***************************************************************************)
(* When Stop returns, every report the channel took has been posted,       *)
(* however many calls are open when the channel is closed and go on while  *)
(* the worker empties it: they add nothing, they panic.  Nothing is said   *)
(* of a process that dies of that before Stop returns.                     *)
(***************************************************************************)
THEOREM StopLosesNothing == Spec => []StopPostsAll
<1>1. ForwarderInv => StopPostsAll
  BY DEF ForwarderInv, StopPostsAll
<1> QED BY <1>1, ForwarderInvInit, ForwarderInvStep, PTL DEF Spec

-----------------------------------------------------------------------------
(***************************************************************************)
(* Timestamps in order.                                                    *)
(***************************************************************************)
Ordered(ts) == \A i, j \in 1..Len(ts) : i <= j => ts[i] <= ts[j]

LEMMA SmallestOf ==
  ASSUME NEW T, T \subseteq Nat, T # {}
  PROVE  \E x \in T : \A y \in T : x <= y
<1>1. IsWellFoundedOn(OpToRel(<, Nat), Nat)
  BY NatLessThanWellFounded
<1>2. PICK x \in T : \A y \in T : <<y, x>> \notin OpToRel(<, Nat)
  BY <1>1, WFMin
<1>3. \A y \in T : ~(y < x)
  BY <1>2 DEF OpToRel
<1> QED BY <1>3

(***************************************************************************)
(* What is cut off at a time is the timestamps up to some place, and those *)
(* after it are the later ones.                                            *)
(***************************************************************************)
LEMMA CutIsSuffix ==
  ASSUME NEW ts \in Seq(Nat), Ordered(ts), NEW cutoff \in Int
  PROVE  \E e \in 0..Len(ts) :
           /\ CutAt(ts, cutoff) \in Seq(Nat) /\ Len(CutAt(ts, cutoff)) = Len(ts) - e
           /\ \A i \in 1..(Len(ts) - e) : CutAt(ts, cutoff)[i] = ts[e + i]
           /\ After(ts, cutoff) = (e + 1)..Len(ts)
<1> DEFINE S == After(ts, cutoff)
           n == Len(ts)
<1>t. n \in Nat /\ DOMAIN ts = 1..n /\ \A i \in 1..n : ts[i] \in Nat
  OBVIOUS
<1>1. \A i \in 1..n : i \in S <=> ts[i] > cutoff
  BY DEF After
<1>2. S \subseteq 1..n /\ S \subseteq Nat
  BY DEF After
<1>3. CutAt(ts, cutoff) = IF S = {} THEN <<>> ELSE SubSeq(ts, Min(S), n)
  BY DEF CutAt
<1>4. Min(S) = CHOOSE x \in S : \A y \in S : x <= y
  BY DEF Min
<1> HIDE DEF S
<1>5. CASE S = {}
  <2>1. CutAt(ts, cutoff) = <<>> /\ n \in 0..n /\ S = (n + 1)..n /\ n - n = 0
    BY <1>t, <1>3, <1>5
  <2>2. CutAt(ts, cutoff) \in Seq(Nat) /\ Len(CutAt(ts, cutoff)) = n - n
    BY <2>1
  <2>3. \A i \in 1..(n - n) : CutAt(ts, cutoff)[i] = ts[n + i]
    BY <2>1
  <2> QED BY <2>1, <2>2, <2>3 DEF S
<1>6. CASE S # {}
  <2>1. Min(S) \in S /\ \A y \in S : Min(S) <= y
    BY <1>2, <1>4, <1>6, SmallestOf
  <2> DEFINE m == Min(S)
  <2> HIDE DEF m
  <2>2. m \in 1..n /\ m \in S /\ \A y \in S : m <= y
    BY <1>2, <2>1 DEF m
  <2>3. m..n \subseteq S
    <3> SUFFICES ASSUME NEW i \in m..n PROVE i \in S
      OBVIOUS
    <3>1. i \in 1..n /\ m <= i
      BY <1>t, <2>2
    <3>2. ts[m] <= ts[i] /\ ts[m] > cutoff
      BY <1>1, <2>2, <3>1 DEF Ordered
    <3> QED BY <1>1, <1>t, <2>2, <3>1, <3>2
  <2>4. S = ((m - 1) + 1)..n /\ m - 1 \in 0..n
    <3>1. \A i \in S : i \in m..n
      BY <1>2, <1>t, <2>2
    <3>2. (m - 1) + 1 = m /\ m - 1 \in 0..n
      BY <1>t, <2>2
    <3> QED BY <2>3, <3>1, <3>2
  <2>5. CutAt(ts, cutoff) = SubSeq(ts, m, n)
    BY <1>3, <1>6 DEF m
  <2>6. SubSeq(ts, m, n) \in Seq(Nat) /\ Len(SubSeq(ts, m, n)) = n - (m - 1)
        /\ \A i \in 1..(n - (m - 1)) : SubSeq(ts, m, n)[i] = ts[(m - 1) + i]
    <3>1. m \in 1..n + 1 /\ n \in m - 1..n
      BY <1>t, <2>2
    <3>2. SubSeq(ts, m, n) \in Seq(Nat) /\ Len(SubSeq(ts, m, n)) = n - m + 1
          /\ \A i \in 1..(n - m + 1) : SubSeq(ts, m, n)[i] = ts[m + i - 1]
      BY <1>t, <2>2, <3>1, SubSeqProperties
    <3> QED BY <1>t, <2>2, <3>2
  <2> QED BY <2>4, <2>5, <2>6 DEF S
<1> QED BY <1>5, <1>6

(***************************************************************************)
(* The limiter's own timestamps are the last of those of all calls let     *)
(* through, and none of the others is in the window any more.              *)
(***************************************************************************)
LimiterTyped ==
  /\ policy \in Policies
  /\ now \in Nat /\ times \in Seq(Nat) /\ admitted \in Seq(Nat)
  /\ total = Len(admitted)

Left(ts, d, cutoff) ==
  /\ Len(ts) = Len(admitted) - d
  /\ \A i \in 1..Len(ts) : ts[i] = admitted[d + i]
  /\ \A i \in 1..d : admitted[i] <= cutoff

LimiterInv ==
  /\ LimiterTyped
  /\ Ordered(admitted) /\ \A i \in 1..Len(admitted) : admitted[i] <= now
  /\ policy.max > 0 => \E d \in 0..Len(admitted) : Left(times, d, now - policy.window)
LEMMA PruneCounts ==
  ASSUME LimiterInv, policy.max > 0
  PROVE  /\ Prune(times) \in Seq(Nat)
         /\ Len(Prune(times)) = InWindow(admitted)
         /\ \E d \in 0..Len(admitted) : Left(Prune(times), d, now - policy.window)
<1> DEFINE cutoff == now - policy.window
           n == Len(admitted)
<1>t. cutoff \in Int /\ n \in Nat /\ Len(times) \in Nat /\ times \in Seq(Nat)
      /\ admitted \in Seq(Nat) /\ DOMAIN admitted = 1..n /\ DOMAIN times = 1..Len(times)
      /\ (\A i \in 1..n : admitted[i] \in Nat) /\ (\A i \in 1..Len(times) : times[i] \in Nat)
  <2>1. policy.window \in Int /\ now \in Nat
    BY LimitsAssumption DEF LimiterInv, LimiterTyped
  <2>2. times \in Seq(Nat) /\ admitted \in Seq(Nat)
    BY DEF LimiterInv, LimiterTyped
  <2> QED BY <2>1, <2>2
<1>1. PICK d \in 0..n : Left(times, d, cutoff)
  BY DEF LimiterInv
<1> HIDE DEF cutoff, n
<1>2. Len(times) = n - d /\ (\A i \in 1..(n - d) : times[i] = admitted[d + i])
      /\ \A i \in 1..d : admitted[i] <= cutoff
  BY <1>1 DEF Left, n
<1>3. \A i \in 1..(n - d) : d + i \in 1..n
  BY <1>t
<1>4. Ordered(times)
  BY <1>t, <1>2, <1>3 DEF LimiterInv, Ordered, n
<1>5. PICK e \in 0..Len(times) :
        /\ CutAt(times, cutoff) \in Seq(Nat) /\ Len(CutAt(times, cutoff)) = Len(times) - e
        /\ \A i \in 1..(Len(times) - e) : CutAt(times, cutoff)[i] = times[e + i]
        /\ After(times, cutoff) = (e + 1)..Len(times)
  BY <1>t, <1>4, CutIsSuffix
<1>6. Prune(times) = CutAt(times, cutoff)
  BY DEF Prune, cutoff
<1>7. \A i \in 1..Len(times) : i \in (e + 1)..Len(times) <=> times[i] > cutoff
  BY <1>t, <1>5 DEF After
<1>8. After(admitted, cutoff) = (d + e + 1)..n
  <2>1. ASSUME NEW i \in 1..n PROVE admitted[i] > cutoff <=> i \in (d + e + 1)..n
    <3>1. CASE i <= d
      BY <1>t, <1>2, <2>1, <3>1
    <3>2. CASE i > d
      <4>1. i - d \in 1..Len(times) /\ d + (i - d) = i
        BY <1>t, <1>2, <3>2
      <4>2. admitted[i] > cutoff <=> i - d \in (e + 1)..Len(times)
        BY <1>2, <1>7, <4>1
      <4> QED BY <1>t, <1>2, <4>1, <4>2
    <3> QED BY <1>t, <3>1, <3>2
  <2>2. \A i \in (d + e + 1)..n : i \in 1..n
    BY <1>t
  <2> QED BY <1>t, <2>1, <2>2 DEF After
<1>9. Cardinality((d + e + 1)..n) = n - (d + e)
  <2>1. d + e + 1 \in Int /\ n \in Int /\ d + e <= n
    BY <1>t, <1>2
  <2>2. Cardinality((d + e + 1)..n) = IF d + e + 1 > n THEN 0 ELSE n - (d + e + 1) + 1
    BY <2>1, FS_Interval
  <2> QED BY <2>1, <2>2
<1>10. Len(Prune(times)) = InWindow(admitted)
  <2>1. Len(Prune(times)) = Len(times) - e
    BY <1>5, <1>6
  <2>2. InWindow(admitted) = Cardinality((d + e + 1)..n)
    BY <1>8 DEF InWindow, cutoff
  <2> QED BY <1>t, <1>2, <1>9, <2>1, <2>2
<1>11. Left(Prune(times), d + e, cutoff)
  <2>1. Len(Prune(times)) = n - (d + e)
    BY <1>t, <1>2, <1>5, <1>6
  <2>2. \A i \in 1..(n - (d + e)) : Prune(times)[i] = admitted[(d + e) + i]
    <3> SUFFICES ASSUME NEW i \in 1..(n - (d + e))
                 PROVE  Prune(times)[i] = admitted[(d + e) + i]
      OBVIOUS
    <3>1. i \in 1..(Len(times) - e) /\ e + i \in 1..(n - d) /\ d + (e + i) = (d + e) + i
      BY <1>t, <1>2
    <3> QED BY <1>2, <1>5, <1>6, <3>1
  <2>3. \A i \in 1..(d + e) : admitted[i] <= cutoff
    <3> SUFFICES ASSUME NEW i \in 1..(d + e) PROVE admitted[i] <= cutoff
      OBVIOUS
    <3>1. i \in 1..n /\ i \notin (d + e + 1)..n
      BY <1>t, <1>2
    <3>2. ~(admitted[i] > cutoff)
      BY <1>t, <1>8, <3>1 DEF After
    <3>3. admitted[i] \in Nat
      BY <1>t, <3>1
    <3> QED BY <1>t, <3>2, <3>3
  <2> QED BY <2>1, <2>2, <2>3 DEF Left, n
<1>12. d + e \in 0..n
  BY <1>t, <1>2
<1> QED BY <1>5, <1>6, <1>10, <1>11, <1>12 DEF cutoff, n

LEMMA RateIsNumber ==
  ASSUME NEW base \in Int, NEW s
  PROVE  RateLimitForScore(base, s) \in Int
<1>1. Multiplier(s) \in {1, 5, 10, 20}
  BY DEF Multiplier
<1>2. base * Multiplier(s) \in Int
  BY <1>1
<1> QED BY <1>2 DEF RateLimitForScore

LEMMA RoomMeans ==
  ASSUME LimiterInv
  PROVE  RoomLeft <=> ~SpendReached /\ ~RateReached
<1>1. policy.max \in Int /\ policy.spend \in Int /\ total \in Nat /\ total = Len(admitted)
  BY LimitsAssumption DEF LimiterInv, LimiterTyped
<1>2. RateLimitForScore(policy.max, Score) \in Int
  BY <1>1, RateIsNumber
<1>3. policy.max > 0 => Len(Prune(times)) = InWindow(admitted) /\ Len(Prune(times)) \in Nat
  BY PruneCounts
<1> QED BY <1>1, <1>2, <1>3 DEF RoomLeft, SpendReached, RateReached

-----------------------------------------------------------------------------
LEMMA LimiterInvInit == Init => LimiterInv
<1> SUFFICES ASSUME Init PROVE LimiterInv
  OBVIOUS
<1>1. LimiterTyped
  BY DEF Init, LimiterTyped
<1>2. times = <<>> /\ admitted = <<>> /\ 0 \in 0..Len(admitted)
  BY DEF Init
<1>3. Ordered(admitted) /\ \A i \in 1..Len(admitted) : admitted[i] <= now
  BY <1>2 DEF Ordered
<1>4. Left(times, 0, now - policy.window)
  BY <1>2 DEF Left
<1> QED BY <1>1, <1>2, <1>3, <1>4 DEF LimiterInv

LEMMA LimiterQuiet ==
  ASSUME LimiterInv, UNCHANGED <<policy, now, limiter>>
  PROVE  LimiterInv'
BY DEF LimiterInv, LimiterTyped, Ordered, Left, limiter

LEMMA LimiterAllow ==
  ASSUME LimiterInv, NEW s \in Sessions, Allow(s)
  PROVE  LimiterInv'
<1>u. UNCHANGED <<policy, now>>
  BY DEF Allow, settings
<1>t. /\ policy.max \in Int /\ policy.window \in Int /\ now \in Nat
      /\ admitted \in Seq(Nat) /\ times \in Seq(Nat)
  BY LimitsAssumption DEF LimiterInv, LimiterTyped
<1> DEFINE cutoff == now - policy.window
<1>c. cutoff \in Int /\ cutoff' = cutoff
  BY <1>u, <1>t
<1> HIDE DEF cutoff
<1>1. CASE UNCHANGED <<total, admitted, times>>
  BY <1>1, <1>u, LimiterQuiet DEF limiter
<1>2. CASE policy.max > 0 /\ UNCHANGED <<total, admitted>> /\ times' = Prune(times)
  <2>1. Prune(times) \in Seq(Nat)
    BY <1>2, PruneCounts
  <2>2. PICK d \in 0..Len(admitted) : Left(Prune(times), d, now - policy.window)
    BY <1>2, PruneCounts
  <2>3. LimiterTyped'
    BY <1>2, <1>u, <2>1 DEF LimiterInv, LimiterTyped
  <2>4. Left(times, d, now - policy.window)'
    BY <1>2, <1>u, <2>2 DEF Left
  <2> QED BY <1>2, <1>u, <2>3, <2>4 DEF LimiterInv, Ordered
<1>3. CASE total' = total + 1 /\ admitted' = Append(admitted, now)
           /\ times' = IF policy.max <= 0 THEN times ELSE Append(Prune(times), now)
  <2> DEFINE n == Len(admitted)
  <2>1. /\ admitted' \in Seq(Nat) /\ Len(admitted') = n + 1 /\ admitted'[n + 1] = now
        /\ (\A i \in 1..n : admitted'[i] = admitted[i]) /\ n \in Nat
    BY <1>3, <1>t
  <2>2. (\A i \in 1..n : admitted[i] <= now /\ admitted[i] \in Nat)
        /\ \A i, j \in 1..n : i <= j => admitted[i] <= admitted[j]
    BY <1>t DEF LimiterInv, Ordered
  <2>3. total' = Len(admitted')
    BY <1>3, <2>1 DEF LimiterInv, LimiterTyped
  <2> HIDE DEF n
  <2>4. Ordered(admitted')
    <3>1. \A i \in 1..(n + 1) : i \in 1..n \/ i = n + 1
      BY <2>1
    <3> SUFFICES ASSUME NEW i \in 1..(n + 1), NEW j \in 1..(n + 1), i <= j
                 PROVE  admitted'[i] <= admitted'[j]
      BY <2>1 DEF Ordered
    <3>2. CASE j \in 1..n
      <4>1. i \in 1..n
        BY <2>1, <3>2
      <4> QED BY <2>1, <2>2, <3>2, <4>1
    <3>3. CASE j = n + 1 /\ i \in 1..n
      BY <2>1, <2>2, <3>3
    <3>4. CASE j = n + 1 /\ i = n + 1
      BY <1>t, <2>1, <3>4
    <3> QED BY <3>1, <3>2, <3>3, <3>4
  <2>5. \A i \in 1..Len(admitted') : admitted'[i] <= now
    <3>1. \A i \in 1..(n + 1) : i \in 1..n \/ i = n + 1
      BY <2>1
    <3> SUFFICES ASSUME NEW i \in 1..(n + 1) PROVE admitted'[i] <= now
      BY <2>1
    <3>2. CASE i \in 1..n
      BY <2>1, <2>2, <3>2
    <3>3. CASE i = n + 1
      BY <1>t, <2>1, <3>3
    <3> QED BY <3>1, <3>2, <3>3
  <2>6. CASE policy.max > 0
    <3>1. Prune(times) \in Seq(Nat)
      BY <2>6, PruneCounts
    <3>2. PICK d \in 0..n : Left(Prune(times), d, now - policy.window)
      BY <2>6, PruneCounts DEF n
    <3> DEFINE kept == Prune(times)
               new == Append(kept, now)
    <3>3. times' = new
      BY <1>3, <1>t, <2>6
    <3>4. Len(kept) = n - d /\ (\A i \in 1..(n - d) : kept[i] = admitted[d + i])
          /\ \A i \in 1..d : admitted[i] <= now - policy.window
      BY <3>2 DEF Left, n
    <3> HIDE DEF kept
    <3>5. /\ new \in Seq(Nat) /\ Len(new) = n - d + 1 /\ new[n - d + 1] = now
          /\ \A i \in 1..(n - d) : new[i] = kept[i]
      BY <1>t, <3>1, <3>4 DEF kept
    <3> HIDE DEF new
    <3>6. \A i \in 1..(n - d + 1) : new[i] = admitted'[d + i]
      <4> SUFFICES ASSUME NEW i \in 1..(n - d + 1) PROVE new[i] = admitted'[d + i]
        OBVIOUS
      <4>1. CASE i \in 1..(n - d)
        BY <2>1, <3>4, <3>5, <4>1
      <4>2. CASE i = n - d + 1
        <5>1. d + i = n + 1
          BY <2>1, <4>2
        <5> QED BY <2>1, <3>5, <4>2, <5>1
      <4> QED BY <2>1, <4>1, <4>2
    <3>7. \A i \in 1..d : admitted'[i] <= now - policy.window
      <4>1. \A i \in 1..d : i \in 1..n
        BY <2>1
      <4> QED BY <2>1, <3>4, <4>1
    <3>8. Len(new) = Len(admitted') - d /\ d \in 0..Len(admitted')
      BY <2>1, <3>5
    <3>9. Left(times, d, now - policy.window)'
      BY <1>u, <3>3, <3>5, <3>6, <3>7, <3>8 DEF Left
    <3>10. LimiterTyped'
      BY <1>u, <2>1, <2>3, <3>3, <3>5 DEF LimiterInv, LimiterTyped
    <3> QED BY <1>u, <2>4, <2>5, <3>8, <3>9, <3>10 DEF LimiterInv
  <2>7. CASE ~(policy.max > 0)
    <3>1. times' = times
      BY <1>3, <1>t, <2>7
    <3>2. LimiterTyped'
      BY <1>u, <2>1, <2>3, <3>1 DEF LimiterInv, LimiterTyped
    <3> QED BY <1>u, <2>4, <2>5, <2>7, <3>2 DEF LimiterInv
  <2> QED BY <2>6, <2>7
<1> QED BY <1>t, <1>1, <1>2, <1>3 DEF Allow

LEMMA LimiterTick ==
  ASSUME LimiterInv, Tick
  PROVE  LimiterInv'
<1>1. UNCHANGED <<policy, times, total, admitted>> /\ now' = now + 1
  BY DEF Tick, settings, limiter
<1>2. policy.window \in Int /\ now \in Nat /\ \A i \in 1..Len(admitted) : admitted[i] \in Nat
  BY LimitsAssumption DEF LimiterInv, LimiterTyped
<1>3. LimiterTyped'
  BY <1>1 DEF LimiterInv, LimiterTyped
<1>4. \A i \in 1..Len(admitted) : admitted[i] <= now'
  BY <1>1, <1>2 DEF LimiterInv
<1>5. ASSUME NEW d \in 0..Len(admitted), Left(times, d, now - policy.window)
      PROVE  Left(times, d, now - policy.window)'
  <2>1. \A i \in 1..d : i \in 1..Len(admitted)
    BY <1>3 DEF LimiterInv, LimiterTyped
  <2>2. \A i \in 1..d : admitted[i] <= now' - policy.window
    BY <1>1, <1>2, <1>5, <2>1 DEF Left
  <2> QED BY <1>1, <1>5, <2>2 DEF Left
<1> QED BY <1>1, <1>3, <1>4, <1>5 DEF LimiterInv, Ordered

LEMMA LimiterInvStep == LimiterInv /\ [Next]_vars => LimiterInv'
<1> SUFFICES ASSUME LimiterInv, [Next]_vars PROVE LimiterInv'
  OBVIOUS
<1>1. CASE \E s \in Sessions : Allow(s)
  BY <1>1, LimiterAllow
<1>2. CASE Tick
  BY <1>2, LimiterTick
<1>3. CASE UNCHANGED <<policy, now, limiter>>
  BY <1>3, LimiterQuiet
<1> QED
  BY <1>1, <1>2, <1>3 DEF Next, vars, settings, limiter, Refuse, PassMethod, Enter, Limited, RejectedTap,
     Grant, TurnDown, Unnamed, NotInjected, Forward, Post, Stop, WorkerEnds

(***************************************************************************)
(* A step that lets a call through, or refuses one, does so with the room  *)
(* there is.                                                               *)
(***************************************************************************)
LEMMA NobodyLimited ==
  ASSUME IInv, NEW s \in Sessions, NEW c, c.at # "limited", call' = [call EXCEPT ![s] = c]
  PROVE  \A x \in Sessions : call'[x].at = "limited" => call[x].at = "limited"
BY DEF IInv, CallsTyped

LEMMA StepKeepsLimits == IInv /\ LimiterInv /\ [Next]_vars => [KeepsLimits]_vars
<1> SUFFICES ASSUME IInv, LimiterInv, Next PROVE KeepsLimits
  OBVIOUS
<1> USE DEF calls, settings
<1> DEFINE Unlimited == \A x \in Sessions : call'[x].at = "limited" => call[x].at = "limited"
<1>0. ASSUME UNCHANGED admitted, Unlimited PROVE KeepsLimits
  <2>1. \A x \in Sessions : ~(call'[x].at = "limited" /\ call[x].at = "limit")
    BY <1>0
  <2> QED BY <1>0, <2>1 DEF KeepsLimits
<1>i. Idle.at # "limited"
  BY DEF Idle, Called
<1>c. ASSUME NEW s \in Sessions PROVE call[s] \in CallRecords
  BY DEF IInv, CallsTyped
<1>p. ASSUME NEW s \in Sessions, Panic(s), UNCHANGED limiter PROVE KeepsLimits
  <2> DEFINE c == Called(NoName, "panicked")
  <2>1. c.at # "limited" /\ UNCHANGED admitted
    BY <1>p DEF Called, limiter
  <2>2. UNCHANGED call \/ call' = [call EXCEPT ![s] = c]
    BY <1>p DEF Panic
  <2> HIDE DEF c
  <2> QED BY <1>0, <2>1, <2>2, NobodyLimited
<1>1. ASSUME NEW s \in Sessions, Refuse(s) \/ PassMethod(s) PROVE KeepsLimits
  <2>1. UNCHANGED limiter /\ (Panic(s) \/ UNCHANGED call)
    BY <1>1 DEF Refuse, PassMethod, Audit, Report
  <2> QED BY <1>0, <1>p, <2>1 DEF limiter
<1>2. ASSUME NEW s \in Sessions, Enter(s) PROVE KeepsLimits
  <2>1. UNCHANGED admitted
    BY <1>2 DEF Enter, limiter
  <2>2. PICK t : call' = [call EXCEPT ![s] =
                   Called(t, IF t = NoName THEN "hold"
                             ELSE IF LimiterEnabled THEN "limit" ELSE AfterLimit(t))]
    BY <1>2 DEF Enter
  <2> DEFINE c == Called(t, IF t = NoName THEN "hold"
                            ELSE IF LimiterEnabled THEN "limit" ELSE AfterLimit(t))
  <2>3. c.at # "limited"
    BY DEF Called, AfterLimit
  <2> HIDE DEF c
  <2>4. Unlimited
    BY <2>2, <2>3, NobodyLimited DEF c
  <2> QED BY <1>0, <2>1, <2>4
<1>3. ASSUME NEW s \in Sessions, Allow(s) PROVE KeepsLimits
  <2>1. CASE (SpendReached \/ RateReached) /\ UNCHANGED admitted
    BY <2>1, RoomMeans DEF KeepsLimits
  <2>2. CASE ~SpendReached /\ ~RateReached
             /\ call' = [call EXCEPT ![s].counted = TRUE, ![s].at = AfterLimit(call[s].name)]
    <3> DEFINE c == [call[s] EXCEPT !.counted = TRUE, !.at = AfterLimit(call[s].name)]
    <3>1. c.at # "limited"
      BY <1>c DEF CallRecords, AfterLimit
    <3>2. call' = [call EXCEPT ![s] = c]
      BY <1>c, <2>2 DEF IInv, CallsTyped, CallRecords
    <3> HIDE DEF c
    <3>3. Unlimited
      BY <3>1, <3>2, NobodyLimited
    <3>4. \A x \in Sessions : ~(call'[x].at = "limited" /\ call[x].at = "limit")
      BY <3>3
    <3> QED BY <2>2, <3>4, RoomMeans DEF KeepsLimits
  <2> QED BY <1>3, <2>1, <2>2 DEF Allow
<1>4. ASSUME NEW s \in Sessions, Reject(s), UNCHANGED limiter PROVE KeepsLimits
  BY <1>0, <1>4, <1>i, NobodyLimited DEF Reject, limiter
<1>5. ASSUME NEW s \in Sessions, Limited(s) \/ Unnamed(s) \/ NotInjected(s) PROVE KeepsLimits
  <2>1. UNCHANGED limiter /\ (Panic(s) \/ Reject(s))
    BY <1>5 DEF Limited, Unnamed, NotInjected, Audit, Report
  <2> QED BY <1>4, <1>p, <2>1
<1>6. ASSUME NEW s \in Sessions, RejectedTap(s) PROVE KeepsLimits
  <2>1. /\ UNCHANGED limiter /\ call[s].at = "hold"
        /\ Panic(s) \/ call' = [call EXCEPT ![s].tapped = TRUE]
    BY <1>6 DEF RejectedTap, Report
  <2> DEFINE c == [call[s] EXCEPT !.tapped = TRUE]
  <2>2. c.at # "limited" /\ (Panic(s) \/ call' = [call EXCEPT ![s] = c])
    BY <1>c, <2>1 DEF CallRecords
  <2> HIDE DEF c
  <2> QED BY <1>0, <1>p, <2>1, <2>2, NobodyLimited DEF limiter
<1>7. ASSUME NEW s \in Sessions, Grant(s) PROVE KeepsLimits
  <2> DEFINE c == [call[s] EXCEPT !.granted = TRUE, !.at = "inject"]
  <2>1. c.at # "limited" /\ UNCHANGED limiter
    BY <1>7, <1>c DEF Grant, CallRecords
  <2>2. Panic(s) \/ call' = [call EXCEPT ![s] = Idle] \/ call' = [call EXCEPT ![s] = c]
    BY <1>7 DEF Grant, Audit, Report, Send
  <2> HIDE DEF c
  <2> QED BY <1>0, <1>i, <1>p, <2>1, <2>2, NobodyLimited DEF limiter
<1>8. ASSUME NEW s \in Sessions, TurnDown(s) PROVE KeepsLimits
  <2> DEFINE c == [call[s] EXCEPT !.at = "unnamed"]
  <2>1. c.at # "limited" /\ UNCHANGED limiter
    BY <1>8, <1>c DEF TurnDown, CallRecords
  <2>2. Panic(s) \/ call' = [call EXCEPT ![s] = Idle] \/ call' = [call EXCEPT ![s] = c]
    BY <1>8 DEF TurnDown, Audit, Report, Reject
  <2> HIDE DEF c
  <2> QED BY <1>0, <1>i, <1>p, <2>1, <2>2, NobodyLimited DEF limiter
<1>9. ASSUME NEW s \in Sessions, Forward(s) PROVE KeepsLimits
  <2>1. UNCHANGED limiter /\ (Panic(s) \/ call' = [call EXCEPT ![s] = Idle])
    BY <1>9 DEF Forward, Report, Send
  <2> QED BY <1>0, <1>i, <1>p, <2>1, NobodyLimited DEF limiter
<1>10. CASE Tick \/ Post \/ Stop \/ WorkerEnds
  BY <1>0, <1>10 DEF Tick, Post, Stop, WorkerEnds, limiter
<1> QED BY <1>1, <1>2, <1>3, <1>5, <1>6, <1>7, <1>8, <1>9, <1>10 DEF Next

(***************************************************************************)
(* Whatever the sessions do side by side, a call is let through only while *)
(* fewer were let through in the window than the score allows, and fewer   *)
(* in all than the spend cap; and one is refused only when there is no     *)
(* such room: a call refused, or long past, takes none.                    *)
(***************************************************************************)
THEOREM LimitsAreKept == Spec => [][KeepsLimits]_vars
<1>1. Spec => [](IInv /\ LimiterInv)
  BY InitInv, NextInv, LimiterInvInit, LimiterInvStep, PTL DEF Spec
<1> QED BY <1>1, StepKeepsLimits, PTL DEF Spec
-----------------------------------------------------------------------------
(***************************************************************************)
(* The router of the pool, and the gate and the router together            *)
(* (CallGateMC).                                                           *)
(***************************************************************************)
Accounts == P!Range(P!Labels)

PoolTyped ==
  /\ config \in PoolConfigs /\ P!Validate(config)
  /\ sessions \in [PoolSessions -> Accounts \cup {NoLabel}]
  /\ headroom \in [Accounts -> {-1, 0, 1}]
  /\ coolUntil \in [Accounts -> Int] /\ failed \in [Accounts -> Int]
  /\ clock \in Nat
  /\ spend \in [P!Trees -> Int] /\ dear \in [P!Trees -> Int]
  /\ asked \in [P!Trees -> SUBSET Int]
  /\ told \in Seq(P!Trees \X Int)

\* What the calls that are not cheap cost is part of what the tree spent, so
\* that a tree whose dear calls reach the cap makes no other.
DearIsCapped ==
  \A t \in P!Trees :
    /\ dear[t] <= spend[t]
    /\ dear[t] = 0 \/ \E l \in Accounts : dear[t] < config.max + P!Cost(l)

\* The announcements are the crossings, and the trees remember them.
Announced ==
  /\ P!IsInjective(told) /\ P!Range(told) = crossed
  /\ \A t \in P!Trees, x \in Int : x \in asked[t] <=> <<t, x>> \in crossed

\* How long an upstream cools follows from when it failed.
CoolsAfterFailure ==
  \A l \in Accounts :
    /\ coolUntil[l] = -1 <=> failed[l] = -1
    /\ failed[l] # -1 => coolUntil[l] = failed[l] + P!Cooldown

RoutedIsSpared ==
  routed.reason \notin {"", "sticky-session"} /\ routed.label # NoLabel =>
    failed[routed.label] = -1 \/ clock - failed[routed.label] >= P!Cooldown

PoolInv == PoolTyped /\ DearIsCapped /\ Announced /\ CoolsAfterFailure /\ RoutedIsSpared

LEMMA ConfigTyped ==
  ASSUME PoolTyped
  PROVE  /\ config.upstreams \in Seq([label : STRING, tier : STRING, cost : Int])
         /\ config.cooldown \in Int /\ config.max \in Int /\ config.thresholds \in Seq(Int)
BY PoolAssumption DEF PoolTyped

LEMMA ElementTyped ==
  ASSUME NEW T, NEW q \in Seq(T), NEW i \in DOMAIN q
  PROVE  q[i] \in T
OBVIOUS

LEMMA AccountIsListed ==
  ASSUME PoolTyped, NEW l \in Accounts
  PROVE  /\ l # NoLabel /\ P!Cost(l) \in Nat
         /\ P!Upstream(l).tier \in {"", "cheap", "standard", "expensive"}
<1>1. P!Labels = [i \in DOMAIN config.upstreams |-> config.upstreams[i].label]
  BY DEF P!Labels
<1>2. PICK j \in DOMAIN P!Labels : P!Labels[j] = l
  BY DEF Accounts, P!Range
<1> DEFINE i == CHOOSE k \in DOMAIN P!Labels : P!Labels[k] = l
<1>3. i \in DOMAIN P!Labels /\ P!Labels[i] = l
  BY <1>2
<1>4. P!Upstream(l) = config.upstreams[i]
  BY DEF P!Upstream
<1> HIDE DEF i
<1>5. i \in DOMAIN config.upstreams /\ config.upstreams[i].label = l
  BY <1>1, <1>3
<1>6. config.upstreams[i] \in [label : STRING, tier : STRING, cost : Int]
  BY <1>5, ConfigTyped, ElementTyped
<1>7. \A k \in DOMAIN config.upstreams :
        /\ config.upstreams[k].label # NoLabel
        /\ config.upstreams[k].tier \in {"", "cheap", "standard", "expensive"}
        /\ config.upstreams[k].cost >= 0
  BY Zenon DEF PoolTyped, P!Validate
<1>8. config.upstreams[i].cost \in Int /\ config.upstreams[i].cost >= 0
  BY <1>5, <1>6, <1>7, Zenon
<1>9. config.upstreams[i].cost \in Nat
  BY <1>8
<1> QED BY <1>4, <1>5, <1>7, <1>9, Zenon DEF P!Cost

(***************************************************************************)
(* What a request is routed to is allowed, and not cooling unless the      *)
(* session is pinned to it.                                                *)
(***************************************************************************)
GoodRoute(r, s, A) ==
  /\ r.label # NoLabel => r.label \in A
  /\ r.reason = "sticky-session" => s # NoId
  /\ r.label # NoLabel /\ r.reason # "sticky-session" => ~P!Cooling(r.label)

LEMMA FullestExists ==
  ASSUME PoolTyped, NEW O, O \subseteq DOMAIN P!Labels, O # {}
  PROVE  \E i \in O : \A k \in O : P!Headroom(P!Labels[k]) <= P!Headroom(P!Labels[i])
<1>1. \A i \in O : P!Headroom(P!Labels[i]) \in {0, 1, 2}
  <2> SUFFICES ASSUME NEW i \in O PROVE P!Headroom(P!Labels[i]) \in {0, 1, 2}
    OBVIOUS
  <2>1. P!Labels[i] \in Accounts
    BY DEF Accounts, P!Range
  <2>2. headroom[P!Labels[i]] \in {-1, 0, 1}
    BY <2>1 DEF PoolTyped
  <2> QED BY <2>2 DEF P!Headroom, P!Unknown, P!Full
<1>2. CASE \E i \in O : P!Headroom(P!Labels[i]) = 2
  BY <1>1, <1>2
<1>3. CASE ~(\E i \in O : P!Headroom(P!Labels[i]) = 2) /\ \E i \in O : P!Headroom(P!Labels[i]) = 1
  BY <1>1, <1>3
<1>4. CASE ~(\E i \in O : P!Headroom(P!Labels[i]) = 2) /\ ~\E i \in O : P!Headroom(P!Labels[i]) = 1
  BY <1>1, <1>4
<1> QED BY <1>2, <1>3, <1>4

LEMMA CandidatesAreGood ==
  ASSUME PoolTyped, NEW s \in PoolSessions \cup {NoId}, NEW A \in SUBSET Accounts
  PROVE  GoodRoute(P!routeCandidates(s, A), s, A)
<1> DEFINE O == {i \in DOMAIN P!Labels : P!Labels[i] \in A /\ ~P!Cooling(P!Labels[i])}
           B == {i \in O : \A k \in O : P!Headroom(P!Labels[k]) <= P!Headroom(P!Labels[i])}
<1>1. P!routeCandidates(s, A) =
        IF s # NoId /\ sessions[s] \in A
          THEN [reason |-> "sticky-session", label |-> sessions[s]]
        ELSE IF O = {} THEN [reason |-> "all-upstreams-exhausted", label |-> NoLabel]
        ELSE [reason |-> IF \E l \in A : P!Cooling(l) THEN "cooldown-skip" ELSE "max-headroom",
              label |-> P!Labels[P!Min(B)]]
  BY DEF P!routeCandidates
<1>2. CASE s # NoId /\ sessions[s] \in A
  BY <1>1, <1>2 DEF GoodRoute
<1>3. CASE ~(s # NoId /\ sessions[s] \in A) /\ O = {}
  BY <1>1, <1>3 DEF GoodRoute
<1>4. CASE ~(s # NoId /\ sessions[s] \in A) /\ O # {}
  <2>1. B # {}
    BY <1>4, FullestExists
  <2>2. B \subseteq O /\ O \subseteq DOMAIN P!Labels
    OBVIOUS
  <2>3. DOMAIN P!Labels \subseteq Nat
    <3>1. DOMAIN P!Labels = DOMAIN config.upstreams
      BY DEF P!Labels
    <3> QED BY <3>1, ConfigTyped
  <2>4. P!Min(B) = CHOOSE x \in B : \A y \in B : x =< y
    BY DEF P!Min
  <2> DEFINE m == P!Min(B)
  <2> HIDE DEF B, m
  <2>5. B \subseteq Nat
    BY <2>2, <2>3
  <2>6. m \in B
    BY <2>1, <2>4, <2>5, SmallestOf DEF m
  <2>7. P!Labels[m] \in A /\ ~P!Cooling(P!Labels[m])
    BY <2>2, <2>6
  <2> HIDE DEF O
  <2>8. P!routeCandidates(s, A) =
          [reason |-> IF \E l \in A : P!Cooling(l) THEN "cooldown-skip" ELSE "max-headroom",
           label |-> P!Labels[m]]
    BY <1>1, <1>4 DEF m
  <2> QED BY <2>7, <2>8 DEF GoodRoute
<1> QED BY <1>2, <1>3, <1>4

LEMMA LockedIsGood ==
  ASSUME PoolTyped, NEW s \in PoolSessions \cup {NoId}, NEW t \in P!Trees
  PROVE  /\ GoodRoute(P!routeLocked(s, t), s, Accounts)
         /\ P!routeLocked(s, t).label # NoLabel =>
              \/ spend[t] < config.max
              \/ P!Upstream(P!routeLocked(s, t).label).tier = "cheap"
<1> DEFINE cheap == {l \in Accounts : P!EffectiveTier(P!Upstream(l)) = "cheap"}
           found == P!routeCandidates(NoId, cheap)
<1>1. P!routeLocked(s, t) =
        IF spend[t] < config.max THEN P!Route(s)
        ELSE IF found.label = NoLabel
          THEN [reason |-> "budget-no-cheap-upstreams", label |-> NoLabel]
        ELSE [reason |-> "budget-downgrade", label |-> found.label]
  BY DEF P!routeLocked, Accounts
<1>2. GoodRoute(P!Route(s), s, Accounts)
  BY CandidatesAreGood DEF P!Route, Accounts
<1>3. cheap \in SUBSET Accounts
  OBVIOUS
<1> HIDE DEF cheap
<1>4. GoodRoute(found, NoId, cheap)
  BY <1>3, CandidatesAreGood
<1> HIDE DEF found
<1>5. \A l \in cheap : l \in Accounts /\ P!Upstream(l).tier = "cheap"
  BY DEF cheap, P!EffectiveTier
<1>6. CASE spend[t] < config.max
  BY <1>1, <1>2, <1>6
<1>7. CASE ~(spend[t] < config.max) /\ found.label = NoLabel
  BY <1>1, <1>7 DEF GoodRoute
<1>8. CASE ~(spend[t] < config.max) /\ found.label # NoLabel
  BY <1>1, <1>4, <1>5, <1>8 DEF GoodRoute
<1> QED BY <1>6, <1>7, <1>8

(***************************************************************************)
(* A finite set as a sequence, and one sequence after another.             *)
(***************************************************************************)
LEMMA RangeIsFinite ==
  ASSUME NEW T, NEW q \in Seq(T), NEW S, S \subseteq P!Range(q)
  PROVE  IsFiniteSet(S)
<1>1. q \in Surjection(1..Len(q), P!Range(q)) /\ Len(q) \in Nat
  BY DEF P!Range, Surjection
<1>2. IsFiniteSet(P!Range(q))
  BY <1>1, FS_NatSurjection DEF ExistsSurjection
<1> QED BY <1>2, FS_Subset

LEMMA SetAsSequence ==
  ASSUME NEW T, NEW S, S \subseteq T, IsFiniteSet(S)
  PROVE  /\ P!SetToSeq(S) \in Seq(T)
         /\ P!IsInjective(P!SetToSeq(S)) /\ P!Range(P!SetToSeq(S)) = S
<1> DEFINE n == Cardinality(S)
           q == P!SetToSeq(S)
<1>1. n \in Nat /\ ExistsBijection(1..n, S)
  BY FS_CardinalityType
<1>2. PICK f \in Bijection(1..n, S) : TRUE
  BY <1>1 DEF ExistsBijection
<1>3. f \in [1..n -> S] /\ P!IsInjective(f)
  BY <1>2 DEF Bijection, Injection, IsInjective, P!IsInjective
<1>4. q = CHOOSE g \in [1..n -> S] : P!IsInjective(g)
  BY DEF P!SetToSeq, P!Cardinality, Cardinality
<1> HIDE DEF q, n
<1>5. q \in [1..n -> S] /\ P!IsInjective(q)
  BY <1>3, <1>4
<1>6. q \in Injection(1..n, S)
  BY <1>5 DEF Injection, IsInjective, P!IsInjective
<1>7. IsFiniteSet(1..n) /\ Cardinality(1..n) = n
  <2>1. 1 \in Int /\ n \in Int
    BY <1>1
  <2> QED BY <1>1, <2>1, FS_Interval
<1>8. q \in Surjection(1..n, S)
  BY <1>6, <1>7, FS_Injection DEF n
<1>9. P!Range(q) = S
  BY <1>5, <1>8 DEF P!Range, Surjection
<1>10. q \in Seq(T)
  BY <1>1, <1>5
<1> QED BY <1>5, <1>9, <1>10 DEF q

LEMMA JoinedOnce ==
  ASSUME NEW T, NEW a \in Seq(T), NEW b \in Seq(T),
         P!IsInjective(a), P!IsInjective(b), P!Range(a) \cap P!Range(b) = {}
  PROVE  P!IsInjective(a \o b) /\ P!Range(a \o b) = P!Range(a) \cup P!Range(b)
<1> DEFINE c == a \o b
           m == Len(a)
           n == Len(b)
<1>1. /\ m \in Nat /\ n \in Nat /\ DOMAIN a = 1..m /\ DOMAIN b = 1..n /\ DOMAIN c = 1..(m + n)
      /\ \A i \in 1..(m + n) : c[i] = IF i <= m THEN a[i] ELSE b[i - m]
  OBVIOUS
<1> HIDE DEF c, m, n
<1>2. \A i \in 1..(m + n) : \/ i \in 1..m /\ c[i] = a[i]
                            \/ i - m \in 1..n /\ ~(i <= m) /\ c[i] = b[i - m]
  BY <1>1
<1>3. \A i \in 1..m : i \in 1..(m + n) /\ c[i] = a[i]
  BY <1>1
<1>4. \A i \in 1..n : i + m \in 1..(m + n) /\ c[i + m] = b[i]
  <2> SUFFICES ASSUME NEW i \in 1..n PROVE i + m \in 1..(m + n) /\ c[i + m] = b[i]
    OBVIOUS
  <2>1. i + m \in 1..(m + n) /\ ~(i + m <= m) /\ (i + m) - m = i
    BY <1>1
  <2> QED BY <1>1, <2>1
<1>5. P!Range(c) = P!Range(a) \cup P!Range(b)
  <2>1. ASSUME NEW x \in P!Range(c) PROVE x \in P!Range(a) \cup P!Range(b)
    <3>1. PICK i \in 1..(m + n) : c[i] = x
      BY <1>1 DEF P!Range
    <3> QED BY <1>1, <1>2, <3>1 DEF P!Range
  <2>2. ASSUME NEW x \in P!Range(a) PROVE x \in P!Range(c)
    <3>1. PICK i \in 1..m : a[i] = x
      BY <1>1 DEF P!Range
    <3> QED BY <1>1, <1>3, <3>1 DEF P!Range
  <2>3. ASSUME NEW x \in P!Range(b) PROVE x \in P!Range(c)
    <3>1. PICK i \in 1..n : b[i] = x
      BY <1>1 DEF P!Range
    <3> QED BY <1>1, <1>4, <3>1 DEF P!Range
  <2> QED BY <2>1, <2>2, <2>3
<1>6. \A i \in 1..m, j \in 1..n : a[i] # b[j]
  BY <1>1 DEF P!Range
<1>7. P!IsInjective(c)
  <2> SUFFICES ASSUME NEW i \in 1..(m + n), NEW j \in 1..(m + n), c[i] = c[j] PROVE i = j
    BY <1>1 DEF P!IsInjective
  <2>1. CASE i \in 1..m /\ j \in 1..m
    BY <1>1, <1>3, <2>1 DEF P!IsInjective
  <2>2. CASE i - m \in 1..n /\ j - m \in 1..n /\ c[i] = b[i - m] /\ c[j] = b[j - m]
    <3>1. i - m = j - m
      BY <1>1, <2>2 DEF P!IsInjective
    <3> QED BY <1>1, <3>1
  <2> QED BY <1>2, <1>6, <2>1, <2>2
<1> QED BY <1>5, <1>7 DEF c

-----------------------------------------------------------------------------
LEMMA PoolInvInit == P!Init => PoolInv
<1> SUFFICES ASSUME P!Init PROVE PoolInv
  OBVIOUS
<1>1. config \in PoolConfigs /\ P!Validate(config)
  BY DEF P!Init
<1>2. told \in Seq(P!Trees \X Int) /\ P!Range(told) = {} /\ P!IsInjective(told)
  BY DEF P!Init, P!Range, P!IsInjective
<1>3. PoolTyped
  BY <1>1, <1>2 DEF PoolTyped, P!Init, P!Unknown, P!Never, Accounts
<1>4. DearIsCapped
  BY DEF P!Init, DearIsCapped
<1>5. Announced
  BY <1>2 DEF P!Init, Announced
<1>6. CoolsAfterFailure
  BY DEF P!Init, CoolsAfterFailure, P!Never, Accounts
<1>7. RoutedIsSpared
  BY DEF P!Init, RoutedIsSpared, P!Nothing
<1> QED BY <1>3, <1>4, <1>5, <1>6, <1>7 DEF PoolInv

\* The accounts and what they cost follow from the configuration.
LEMMA SameConfig ==
  ASSUME UNCHANGED config
  PROVE  /\ Accounts' = Accounts /\ P!Cooldown' = P!Cooldown
         /\ \A l : P!Cost(l)' = P!Cost(l)
         /\ P!Validate(config)' <=> P!Validate(config)
BY DEF Accounts, P!Cooldown, P!Cost, P!Upstream, P!Labels, P!Validate, P!Range

LEMMA ChargeKeeps ==
  ASSUME PoolTyped, DearIsCapped, Announced, UNCHANGED config,
         NEW t \in P!Trees, NEW l \in Accounts, P!Charge(t, l),
         spend[t] < config.max \/ P!Upstream(l).tier = "cheap"
  PROVE  /\ spend' \in [P!Trees -> Int] /\ dear' \in [P!Trees -> Int]
         /\ asked' \in [P!Trees -> SUBSET Int] /\ told' \in Seq(P!Trees \X Int)
         /\ DearIsCapped' /\ Announced'
<1> DEFINE after == spend[t] + P!Cost(l)
           C == P!Crossed(spend[t], after)
           X == C \ asked[t]
           asks == P!newAskThresholds(t, spend[t], after)
           new == [i \in DOMAIN asks |-> <<t, asks[i]>>]
<1>1. /\ spend' = [spend EXCEPT ![t] = after]
      /\ asked' = [asked EXCEPT ![t] = @ \cup P!Range(asks)]
      /\ told' = told \o new
      /\ crossed' = crossed \cup {<<t, x>> : x \in C}
      /\ dear' = IF P!Upstream(l).tier = "cheap" THEN dear
                 ELSE [dear EXCEPT ![t] = @ + P!Cost(l)]
  BY DEF P!Charge
<1>2. P!Cost(l) \in Nat /\ config.max \in Int
  BY AccountIsListed, ConfigTyped
<1>3. C \subseteq P!Range(config.thresholds)
  BY DEF P!Crossed
<1>4. config.thresholds \in Seq(Int)
  BY ConfigTyped
<1>5. C \subseteq Int
  BY <1>3, <1>4 DEF P!Range
<1>6. asks = P!SetToSeq(X)
  BY DEF P!newAskThresholds
<1>t. spend \in [P!Trees -> Int] /\ dear \in [P!Trees -> Int] /\ asked \in [P!Trees -> SUBSET Int]
      /\ told \in Seq(P!Trees \X Int)
  BY DEF PoolTyped
<1>a. P!Trees' = P!Trees
  BY DEF P!Trees
<1> HIDE DEF asks, C, after
<1>7. X \subseteq C /\ X \subseteq Int
  BY <1>5
<1>8. IsFiniteSet(X)
  BY <1>3, <1>4, <1>7, RangeIsFinite
<1>9. asks \in Seq(Int) /\ P!IsInjective(asks) /\ P!Range(asks) = X
  BY <1>6, <1>7, <1>8, SetAsSequence
<1>10. new \in Seq(P!Trees \X Int) /\ P!IsInjective(new) /\ P!Range(new) = {<<t, x>> : x \in X}
  <2>1. DOMAIN asks = 1..Len(asks) /\ Len(asks) \in Nat /\ \A i \in DOMAIN asks : asks[i] \in Int
    BY <1>9
  <2>2. new \in Seq(P!Trees \X Int)
    BY <2>1
  <2>3. DOMAIN new = DOMAIN asks /\ \A i \in DOMAIN asks : new[i] = <<t, asks[i]>>
    OBVIOUS
  <2> HIDE DEF new
  <2>4. P!IsInjective(new)
    BY <1>9, <2>3 DEF P!IsInjective
  <2>5. P!Range(new) = {<<t, x>> : x \in P!Range(asks)}
    BY <2>3 DEF P!Range
  <2> QED BY <1>9, <2>2, <2>4, <2>5
<1> HIDE DEF new, X
<1>11. P!Range(told) \cap P!Range(new) = {}
  BY <1>7, <1>10 DEF Announced, X
<1>12. told' \in Seq(P!Trees \X Int)
  BY <1>1, <1>t, <1>10
<1>13. P!IsInjective(told') /\ P!Range(told') = crossed \cup {<<t, x>> : x \in X}
  BY <1>1, <1>t, <1>10, <1>11, JoinedOnce DEF Announced
<1>14. crossed' = crossed \cup {<<t, x>> : x \in X}
  BY <1>1, <1>5 DEF Announced, X
<1>15. asked' \in [P!Trees -> SUBSET Int] /\ asked'[t] = asked[t] \cup X
       /\ \A u \in P!Trees : u # t => asked'[u] = asked[u]
  BY <1>1, <1>t, <1>7, <1>9
<1>16. Announced'
  <2>1. ASSUME NEW u \in P!Trees, NEW x \in Int
        PROVE  x \in asked'[u] <=> <<u, x>> \in crossed'
    <3>1. x \in asked[u] <=> <<u, x>> \in crossed
      BY DEF Announced
    <3>2. <<u, x>> \in {<<t, y>> : y \in X} <=> u = t /\ x \in X
      OBVIOUS
    <3> QED BY <1>14, <1>15, <3>1, <3>2
  <2> QED BY <1>a, <1>13, <1>14, <2>1 DEF Announced, P!IsInjective, P!Range
<1>17. spend' \in [P!Trees -> Int] /\ dear' \in [P!Trees -> Int]
  BY <1>1, <1>2, <1>t DEF after
<1>18. DearIsCapped'
  <2>1. ASSUME NEW u \in P!Trees
        PROVE  /\ dear'[u] <= spend'[u]
               /\ dear'[u] = 0 \/ \E k \in Accounts : dear'[u] < config.max + P!Cost(k)
    <3>1. dear[u] <= spend[u] /\ dear[u] \in Int /\ spend[u] \in Int
          /\ (dear[u] = 0 \/ \E k \in Accounts : dear[u] < config.max + P!Cost(k))
      BY <1>t DEF DearIsCapped
    <3>2. CASE u # t
      BY <1>1, <1>t, <3>1, <3>2
    <3>3. CASE u = t /\ P!Upstream(l).tier = "cheap"
      <4>1. dear'[u] = dear[u] /\ spend'[u] = spend[u] + P!Cost(l)
        BY <1>1, <1>t, <3>3 DEF after
      <4> QED BY <1>2, <3>1, <4>1
    <3>4. CASE u = t /\ P!Upstream(l).tier # "cheap"
      <4>1. dear'[u] = dear[u] + P!Cost(l) /\ spend'[u] = spend[u] + P!Cost(l)
        BY <1>1, <1>t, <3>4 DEF after
      <4>2. spend[u] < config.max
        BY <3>4
      <4>3. dear'[u] < config.max + P!Cost(l)
        BY <1>2, <3>1, <4>1, <4>2
      <4> QED BY <1>2, <3>1, <4>1, <4>3
    <3> QED BY <3>2, <3>3, <3>4
  <2> QED BY <1>a, <2>1, SameConfig DEF DearIsCapped
<1> QED BY <1>12, <1>15, <1>16, <1>17, <1>18

\* A step that leaves the trees' accounts alone, or only adds to what they spent.
LEMMA AccountsStand ==
  ASSUME PoolTyped, DearIsCapped, Announced,
         UNCHANGED <<config, asked, dear, crossed, told>>,
         spend' \in [P!Trees -> Int], \A t \in P!Trees : spend[t] <= spend'[t]
  PROVE  DearIsCapped' /\ Announced'
<1>a. P!Trees' = P!Trees
  BY DEF P!Trees
<1>1. DearIsCapped'
  <2>1. ASSUME NEW t \in P!Trees
        PROVE  /\ dear'[t] <= spend'[t]
               /\ dear'[t] = 0 \/ \E k \in Accounts : dear'[t] < config.max + P!Cost(k)
    <3>1. dear[t] \in Int /\ spend[t] \in Int /\ spend'[t] \in Int
      BY DEF PoolTyped
    <3> QED BY <3>1 DEF DearIsCapped
  <2> QED BY <1>a, <2>1, SameConfig DEF DearIsCapped
<1>2. Announced'
  BY <1>a DEF Announced, P!IsInjective, P!Range
<1> QED BY <1>1, <1>2

\* No upstream fails, and none cools.
LEMMA CoolingStands ==
  ASSUME CoolsAfterFailure, UNCHANGED <<config, coolUntil, failed>>
  PROVE  CoolsAfterFailure'
BY SameConfig DEF CoolsAfterFailure

LEMMA RoutingKeeps ==
  ASSUME PoolInv, NEW s \in PoolSessions \cup {NoId}, NEW r \in Roots \cup {NoId},
         P!RouteWithBudget(s, r)
  PROVE  PoolInv'
<1> DEFINE t == P!budgetRoot(r, s)
           g == IF P!Enabled THEN P!routeLocked(s, t) ELSE P!Route(s)
<1>1. /\ routed' = [tree |-> t, reason |-> g.reason, label |-> g.label]
      /\ IF P!Enabled /\ g.label # NoLabel THEN P!Charge(t, g.label) ELSE UNCHANGED P!account
      /\ UNCHANGED <<config, sessions, headroom, coolUntil, failed, clock>>
  BY DEF P!RouteWithBudget, P!settings
<1>2. t \in P!Trees
  BY DEF P!budgetRoot, P!Trees
<1>3. PoolTyped /\ DearIsCapped /\ Announced /\ CoolsAfterFailure
  BY DEF PoolInv
<1>4. GoodRoute(g, s, Accounts)
      /\ (P!Enabled /\ g.label # NoLabel =>
            \/ spend[t] < config.max
            \/ P!Upstream(g.label).tier = "cheap")
  <2>1. CASE P!Enabled
    BY <1>2, <1>3, <2>1, LockedIsGood
  <2>2. CASE ~P!Enabled
    BY <1>3, <2>2, CandidatesAreGood DEF P!Route, Accounts
  <2> QED BY <2>1, <2>2
<1> HIDE DEF g, t
<1>5. /\ spend' \in [P!Trees -> Int] /\ dear' \in [P!Trees -> Int]
      /\ asked' \in [P!Trees -> SUBSET Int] /\ told' \in Seq(P!Trees \X Int)
      /\ DearIsCapped' /\ Announced'
  <2>1. CASE P!Enabled /\ g.label # NoLabel
    <3>1. g.label \in Accounts /\ P!Charge(t, g.label)
      BY <1>1, <1>4, <2>1 DEF GoodRoute
    <3> QED BY <1>1, <1>2, <1>3, <1>4, <2>1, <3>1, ChargeKeeps
  <2>2. CASE ~(P!Enabled /\ g.label # NoLabel)
    <3>1. UNCHANGED <<config, spend, asked, dear, crossed, told>>
      BY <1>1, <2>2 DEF P!account
    <3>2. \A u \in P!Trees : spend[u] <= spend'[u]
      BY <1>3, <3>1 DEF PoolTyped
    <3> QED BY <1>3, <3>1, <3>2, AccountsStand DEF PoolTyped
  <2> QED BY <2>1, <2>2
<1>6. PoolTyped'
  <2>1. P!Trees' = P!Trees
    BY DEF P!Trees
  <2> QED BY <1>1, <1>3, <1>5, <2>1, SameConfig DEF PoolTyped
<1>7. CoolsAfterFailure'
  BY <1>1, <1>3, CoolingStands
<1>8. RoutedIsSpared'
  <2>1. routed'.reason = g.reason /\ routed'.label = g.label
    BY <1>1
  <2>2. ASSUME g.label # NoLabel, g.reason # "sticky-session"
        PROVE  failed[g.label] = -1 \/ clock - failed[g.label] >= P!Cooldown
    <3>1. g.label \in Accounts /\ ~P!Cooling(g.label)
      BY <1>4, <2>2 DEF GoodRoute
    <3>2. failed[g.label] \in Int /\ clock \in Nat
      BY <1>3, <3>1 DEF PoolTyped
    <3>3. P!Cooldown \in Int
      BY <1>3, ConfigTyped DEF P!Cooldown, P!defaultCooldown
    <3>4. failed[g.label] # -1 => coolUntil[g.label] = failed[g.label] + P!Cooldown
                                  /\ coolUntil[g.label] # -1
      BY <1>3, <3>1 DEF CoolsAfterFailure
    <3>5. failed[g.label] # -1 => ~(clock < coolUntil[g.label])
      BY <3>1, <3>4 DEF P!Cooling, P!Never
    <3> QED BY <3>2, <3>3, <3>4, <3>5
  <2> QED BY <1>1, <2>1, <2>2, SameConfig DEF RoutedIsSpared
<1> QED BY <1>5, <1>6, <1>7, <1>8 DEF PoolInv

LEMMA PoolQuiet == PoolInv /\ UNCHANGED pool => PoolInv'
<1> SUFFICES ASSUME PoolInv, UNCHANGED pool PROVE PoolInv'
  OBVIOUS
<1>1. UNCHANGED <<config, sessions, headroom, coolUntil, spend, asked, clock, dear, crossed, told,
                  failed, routed>>
  BY DEF pool
<1>2. PoolTyped /\ DearIsCapped /\ Announced /\ CoolsAfterFailure /\ P!Trees' = P!Trees
  BY DEF PoolInv, P!Trees
<1>3. PoolTyped'
  BY <1>1, <1>2, SameConfig DEF PoolTyped
<1>4. \A t \in P!Trees : spend[t] <= spend'[t]
  BY <1>1, <1>2 DEF PoolTyped
<1>5. DearIsCapped' /\ Announced'
  BY <1>1, <1>2, <1>4, AccountsStand DEF PoolTyped
<1>6. CoolsAfterFailure'
  BY <1>1, <1>2, CoolingStands
<1>7. RoutedIsSpared'
  BY <1>1, SameConfig DEF PoolInv, RoutedIsSpared
<1> QED BY <1>3, <1>5, <1>6, <1>7 DEF PoolInv

LEMMA PoolInvStep == PoolInv /\ P!Next => PoolInv'
<1> SUFFICES ASSUME PoolInv, P!Next PROVE PoolInv'
  OBVIOUS
<1>0. PoolTyped /\ DearIsCapped /\ Announced /\ CoolsAfterFailure /\ P!Trees' = P!Trees
  BY DEF PoolInv, P!Trees
<1>n. routed' = P!Nothing => RoutedIsSpared'
  <2>0. \E b : P!Nothing = [tree |-> "default", reason |-> b, label |-> NoLabel]
    BY Zenon DEF P!Nothing
  <2>1. routed' = P!Nothing => routed'.label = NoLabel
    BY <2>0
  <2> QED BY <2>1, Zenon DEF RoutedIsSpared
<1>a. UNCHANGED <<config, P!account>> => DearIsCapped' /\ Announced'
  <2> SUFFICES ASSUME UNCHANGED <<config, P!account>> PROVE DearIsCapped' /\ Announced'
    OBVIOUS
  <2>1. UNCHANGED <<config, spend, asked, dear, crossed, told>>
    BY DEF P!account
  <2>2. \A u \in P!Trees : spend[u] <= spend'[u]
    BY <1>0, <2>1 DEF PoolTyped
  <2> QED BY <1>0, <2>1, <2>2, AccountsStand DEF PoolTyped
<1>1. ASSUME NEW s \in PoolSessions \cup {NoId}, NEW r \in Roots \cup {NoId},
             P!RouteWithBudget(s, r)
      PROVE  PoolInv'
  BY <1>1, RoutingKeeps
<1>2. ASSUME NEW r \in Roots \cup {NoId}, P!RecordSpend(r, 1)
      PROVE  PoolInv'
  <2> DEFINE t == P!budgetRoot(r, NoId)
  <2>1. t \in P!Trees
    BY DEF P!budgetRoot, P!Trees
  <2>2. /\ spend' = IF P!Enabled THEN [spend EXCEPT ![t] = @ + 1] ELSE spend
        /\ routed' = P!Nothing
        /\ UNCHANGED <<config, sessions, headroom, coolUntil, failed, clock>>
        /\ UNCHANGED <<asked, dear, crossed, told>>
    BY <1>2 DEF P!RecordSpend, P!settings
  <2> HIDE DEF t
  <2>3. spend' \in [P!Trees -> Int] /\ \A u \in P!Trees : spend[u] <= spend'[u]
    BY <1>0, <2>1, <2>2 DEF PoolTyped
  <2>4. DearIsCapped' /\ Announced'
    BY <1>0, <2>2, <2>3, AccountsStand
  <2>5. PoolTyped'
    BY <1>0, <2>2, <2>3, SameConfig DEF PoolTyped
  <2> QED BY <1>0, <1>n, <2>2, <2>4, <2>5, CoolingStands DEF PoolInv
<1>3. ASSUME NEW s \in PoolSessions, NEW l \in Accounts, P!Pin(s, l) \/ P!Unpin(s)
      PROVE  PoolInv'
  <2>1. /\ sessions' = [sessions EXCEPT ![s] = l] \/ sessions' = [sessions EXCEPT ![s] = NoLabel]
        /\ routed' = P!Nothing
        /\ UNCHANGED <<config, headroom, coolUntil, failed, clock>> /\ UNCHANGED P!account
    BY <1>3 DEF P!Pin, P!Unpin
  <2>2. sessions' \in [PoolSessions -> Accounts \cup {NoLabel}]
    BY <1>0, <2>1 DEF PoolTyped
  <2>3. PoolTyped'
    BY <1>0, <2>1, <2>2, SameConfig DEF PoolTyped, P!account
  <2> QED BY <1>0, <1>a, <1>n, <2>1, <2>3, CoolingStands DEF PoolInv
<1>4. ASSUME NEW s \in PoolSessions, P!Unpin(s)
      PROVE  PoolInv'
  <2>1. \E l \in Accounts : TRUE
    <3>1. sessions[s] \in Accounts
      BY <1>0, <1>4 DEF PoolTyped, P!Unpin
    <3> QED BY <3>1
  <2> QED BY <1>3, <1>4, <2>1
<1>5. ASSUME NEW l \in Accounts, P!RecordFailure(l)
      PROVE  PoolInv'
  <2>1. /\ coolUntil' = [coolUntil EXCEPT ![l] = clock + P!Cooldown]
        /\ failed' = [failed EXCEPT ![l] = clock]
        /\ routed' = P!Nothing
        /\ UNCHANGED <<config, sessions, headroom, clock>> /\ UNCHANGED P!account
    BY <1>5 DEF P!RecordFailure
  <2>2. P!Cooldown \in Nat /\ clock \in Nat
    BY <1>0, ConfigTyped DEF PoolTyped, P!Cooldown, P!defaultCooldown
  <2>3. coolUntil' \in [Accounts -> Int] /\ failed' \in [Accounts -> Int]
    BY <1>0, <2>1, <2>2 DEF PoolTyped
  <2>4. PoolTyped'
    BY <1>0, <2>1, <2>3, SameConfig DEF PoolTyped, P!account
  <2>5. ASSUME NEW k \in Accounts
        PROVE  /\ coolUntil'[k] = -1 <=> failed'[k] = -1
               /\ failed'[k] # -1 => coolUntil'[k] = failed'[k] + P!Cooldown
    <3>1. CASE k = l
      <4>1. coolUntil'[k] = clock + P!Cooldown /\ failed'[k] = clock
        BY <1>0, <2>1, <3>1 DEF PoolTyped
      <4> QED BY <2>2, <4>1
    <3>2. CASE k # l
      <4>1. coolUntil'[k] = coolUntil[k] /\ failed'[k] = failed[k]
        BY <1>0, <2>1, <3>2 DEF PoolTyped
      <4> QED BY <1>0, <4>1 DEF CoolsAfterFailure
    <3> QED BY <3>1, <3>2
  <2>6. CoolsAfterFailure'
    BY <2>1, <2>5, SameConfig DEF CoolsAfterFailure
  <2> QED BY <1>a, <1>n, <2>1, <2>4, <2>6 DEF PoolInv
<1>6. ASSUME NEW l \in Accounts, NEW h \in {0, 1}, P!RecordHeadroom(l, h)
      PROVE  PoolInv'
  <2>1. /\ headroom' = [headroom EXCEPT ![l] = h]
        /\ routed' = P!Nothing
        /\ UNCHANGED <<config, sessions, coolUntil, failed, clock>> /\ UNCHANGED P!account
    BY <1>6 DEF P!RecordHeadroom
  <2>2. headroom' \in [Accounts -> {-1, 0, 1}]
    BY <1>0, <2>1 DEF PoolTyped
  <2>3. PoolTyped'
    BY <1>0, <2>1, <2>2, SameConfig DEF PoolTyped, P!account
  <2> QED BY <1>0, <1>a, <1>n, <2>1, <2>3, CoolingStands DEF PoolInv
<1>7. CASE P!Tick
  <2>1. clock' = clock + 1 /\ routed' = P!Nothing
        /\ UNCHANGED <<config, sessions, headroom, coolUntil, failed>> /\ UNCHANGED P!account
    BY <1>7 DEF P!Tick, P!settings
  <2>2. clock' \in Nat
    BY <1>0, <2>1 DEF PoolTyped
  <2>3. PoolTyped'
    BY <1>0, <2>1, <2>2, SameConfig DEF PoolTyped, P!account
  <2> QED BY <1>0, <1>a, <1>n, <2>1, <2>3, CoolingStands DEF PoolInv
<1> QED BY <1>1, <1>2, <1>3, <1>4, <1>5, <1>6, <1>7 DEF P!Next, Accounts

LEMMA PoolInvKeepsBudget == PoolInv => P!TreesKeepBudget
<1> SUFFICES ASSUME PoolInv PROVE P!TreesKeepBudget
  OBVIOUS
<1>1. \A t \in P!Trees : \/ dear[t] = 0
                         \/ \E l \in P!Range(P!Labels) : dear[t] < config.max + P!Cost(l)
  BY DEF PoolInv, DearIsCapped, Accounts
<1>2. P!IsInjective(told) /\ P!Range(told) = crossed
  BY DEF PoolInv, Announced
<1>3. RoutedIsSpared
  BY DEF PoolInv
<1> QED BY <1>1, <1>2, <1>3 DEF P!TreesKeepBudget, RoutedIsSpared, P!Never

-----------------------------------------------------------------------------
LEMMA GateBesidePool == SpecBoth => Spec
<1>1. InitBoth => Init
  BY DEF InitBoth
<1>2. [NextBoth]_all => [Next]_vars
  BY DEF NextBoth, all
<1> QED BY <1>1, <1>2, PTL DEF SpecBoth, Spec

(***************************************************************************)
(* Both budgets are kept, for any pool files that parse, sessions and      *)
(* trees: the gate lets calls through while there is room, and refuses     *)
(* none before; and in the router a tree's calls to upstreams that are not *)
(* cheap cost less than the cap and one call more, each threshold they     *)
(* cross is announced once, and an upstream that failed is spared for the  *)
(* cooldown.                                                               *)
(***************************************************************************)
THEOREM BudgetsAreKept == SpecBoth => BudgetsKept
<1>1. Spec => [](IInv /\ LimiterInv)
  BY InitInv, NextInv, LimiterInvInit, LimiterInvStep, PTL DEF Spec
<1>2. InitBoth => PoolInv
  BY PoolInvInit DEF InitBoth
<1>3. PoolInv /\ [NextBoth]_all => PoolInv'
  BY PoolQuiet, PoolInvStep DEF NextBoth, all
<1>4. PoolInv' => P!TreesKeepBudget'
  BY PoolInvKeepsBudget, PTL
<1>5. UNCHANGED vars => KeepsLimits
  BY DEF vars, limiter, calls, KeepsLimits
<1>6. IInv /\ LimiterInv /\ PoolInv /\ PoolInv' /\ [NextBoth]_all
        => [KeepsLimits /\ P!TreesKeepBudget']_all
  BY <1>4, <1>5, StepKeepsLimits DEF NextBoth, all
<1> QED BY <1>1, <1>2, <1>3, <1>6, GateBesidePool, PTL DEF SpecBoth, BudgetsKept

=============================================================================
