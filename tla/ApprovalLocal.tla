--------------------------- MODULE ApprovalLocal ---------------------------
(***************************************************************************)
(* The approver of internal/approval/local.go: Ask puts a hold into a map  *)
(* and waits for its channel or its timer; every connection of the unix    *)
(* socket runs handle, which takes the hold out of the map under the lock, *)
(* sends the verdict after it, and tells the operator after that.  Each    *)
(* lock region and each channel operation is one action.                   *)
(*                                                                         *)
(* The uid check of the peer, the permissions of the socket and its        *)
(* directory are not modelled: every operator here has passed them.        *)
(***************************************************************************)
CONSTANTS
  Asks,     \* the calls held in this process
  Conns,    \* the connections that carry a decide request
  NoAsk     \* a connection that has sent no request yet

ASSUME NoAskAssumption == NoAsk \notin Asks

VARIABLES
  pc,        \* of each Ask: "new", "held", "expired", "owed" or "returned"
  pending,   \* the map of holds
  decide,    \* the channel of each hold, of capacity one: "none" when empty
  verdict,   \* what each Ask returned: "none", "approved" or "denied"
  conn,      \* of each connection: "new", "sent", "taken", "decided", "told",
             \* "unheard" or "refused"
  target,    \* the call each connection's request names
  choice     \* and what it decides: "approve" or "deny"

vars == <<pc, pending, decide, verdict, conn, target, choice>>
asks == <<pc, verdict>>
requests == <<conn, target, choice>>

Choices == {"approve", "deny"}

Init ==
  /\ pc = [a \in Asks |-> "new"]
  /\ pending = {}
  /\ decide = [a \in Asks |-> "none"]
  /\ verdict = [a \in Asks |-> "none"]
  /\ conn = [c \in Conns |-> "new"]
  /\ target = [c \in Conns |-> NoAsk]
  /\ choice = [c \in Conns |-> "deny"]

Outcome(v) == IF v = "approve" THEN "approved" ELSE "denied"

-----------------------------------------------------------------------------
Hold(a) ==
  /\ pc[a] = "new"
  /\ pc' = [pc EXCEPT ![a] = "held"]
  /\ pending' = pending \cup {a}
  /\ UNCHANGED <<decide, verdict, requests>>

\* The verdict arrives, before the timer or owed to an Ask whose timer lost.
\* The deferred delete goes with it.
TakeVerdict(a) ==
  /\ pc[a] \in {"held", "owed"} /\ decide[a] # "none"
  /\ verdict' = [verdict EXCEPT ![a] = Outcome(decide[a])]
  /\ decide' = [decide EXCEPT ![a] = "none"]
  /\ pending' = pending \ {a}
  /\ pc' = [pc EXCEPT ![a] = "returned"]
  /\ UNCHANGED requests

TimerFires(a) ==
  /\ pc[a] = "held"
  /\ pc' = [pc EXCEPT ![a] = "expired"]
  /\ UNCHANGED <<pending, decide, verdict, requests>>

\* Fault: the timeout denies without looking whether the hold was taken.
CheckTimeoutBlind(a) ==
  /\ pc[a] = "expired"
  /\ pending' = pending \ {a}
  /\ verdict' = [verdict EXCEPT ![a] = "denied"]
  /\ pc' = [pc EXCEPT ![a] = "returned"]
  /\ UNCHANGED <<decide, requests>>

\* Fault: the timeout waits for a decision even when it owns the hold.
CheckTimeoutOwed(a) ==
  /\ pc[a] = "expired"
  /\ pending' = pending \ {a}
  /\ pc' = [pc EXCEPT ![a] = "owed"]
  /\ UNCHANGED <<verdict, decide, requests>>

\* Check and delete under one lock: the timeout owns the hold, or a decision
\* that has taken it is waited for.
CheckTimeout(a) ==
  /\ pc[a] = "expired"
  /\ pending' = pending \ {a}
  /\ \/ /\ a \in pending
        /\ verdict' = [verdict EXCEPT ![a] = "denied"]
        /\ pc' = [pc EXCEPT ![a] = "returned"]
     \/ /\ a \notin pending
        /\ pc' = [pc EXCEPT ![a] = "owed"]
        /\ UNCHANGED verdict
  /\ UNCHANGED <<decide, requests>>

-----------------------------------------------------------------------------
\* An operator decides a call it saw in a list, which may be over by now, or
\* one it guesses the id of.
Request(c, a, v) ==
  /\ conn[c] = "new"
  /\ conn' = [conn EXCEPT ![c] = "sent"]
  /\ target' = [target EXCEPT ![c] = a]
  /\ choice' = [choice EXCEPT ![c] = v]
  /\ UNCHANGED <<asks, pending, decide>>

TakeHold(c) ==
  /\ conn[c] = "sent"
  /\ pending' = pending \ {target[c]}
  /\ conn' = [conn EXCEPT ![c] = IF target[c] \in pending THEN "taken" ELSE "refused"]
  /\ UNCHANGED <<asks, decide, target, choice>>

SendVerdict(c) ==
  /\ conn[c] = "taken" /\ decide[target[c]] = "none"
  /\ decide' = [decide EXCEPT ![target[c]] = choice[c]]
  /\ conn' = [conn EXCEPT ![c] = "decided"]
  /\ UNCHANGED <<asks, pending, target, choice>>

\* The OK reaches the operator, or the connection breaks before it does.
Reply(c) ==
  /\ conn[c] = "decided"
  /\ \E end \in {"told", "unheard"} : conn' = [conn EXCEPT ![c] = end]
  /\ UNCHANGED <<asks, pending, decide, target, choice>>

AskStep(a) == TakeVerdict(a) \/ TimerFires(a) \/ CheckTimeout(a)
ConnStep(c) == TakeHold(c) \/ SendVerdict(c) \/ Reply(c)

Next ==
  \/ \E a \in Asks : Hold(a) \/ AskStep(a)
  \/ \E c \in Conns : ConnStep(c) \/ \E a \in Asks, v \in Choices : Request(c, a, v)

Spec == Init /\ [][Next]_vars

\* Timers fire and goroutines run.
FairSpec ==
  /\ Spec
  /\ \A a \in Asks : WF_vars(AskStep(a))
  /\ \A c \in Conns : WF_vars(ConnStep(c))

-----------------------------------------------------------------------------
TypeOK ==
  /\ pc \in [Asks -> {"new", "held", "expired", "owed", "returned"}]
  /\ pending \subseteq {a \in Asks : pc[a] \in {"held", "expired"}}
  /\ decide \in [Asks -> Choices \cup {"none"}]
  /\ verdict \in [Asks -> {"none", "approved", "denied"}]
  /\ conn \in [Conns -> {"new", "sent", "taken", "decided", "told", "unheard", "refused"}]
  /\ target \in [Conns -> Asks \cup {NoAsk}]
  /\ choice \in [Conns -> Choices]

\* The request of c took the hold of a.
Decides(c, a) ==
  target[c] = a /\ conn[c] \in {"taken", "decided", "told", "unheard"}

(***************************************************************************)
(* "Its verdict, already reported to the operator, is honored": whatever   *)
(* the timer does meanwhile, an Ask that returns after an operator was     *)
(* told OK returns what that operator chose.                               *)
(***************************************************************************)
ToldIsHonored ==
  \A c \in Conns : conn[c] = "told" =>
    verdict[target[c]] \in {"none", Outcome(choice[c])}

(***************************************************************************)
(* Of several requests for a call one takes the hold, so that no second    *)
(* operator is told OK and no handler waits for room in the channel.       *)
(***************************************************************************)
OneDecision ==
  \A a \in Asks : \A c, d \in Conns :
    Decides(c, a) /\ Decides(d, a) => c = d

(***************************************************************************)
(* Whoever decides or does not, and whenever, a held call's Ask returns.   *)
(***************************************************************************)
AskReturns == \A a \in Asks : pc[a] = "held" ~> pc[a] = "returned"

(***************************************************************************)
(* The approver implements the gate: the answer to a call is the choice of *)
(* the request that took its hold.                                         *)
(***************************************************************************)
Answer(a) ==
  IF \E c \in Conns : Decides(c, a) /\ choice[c] = "approve" THEN "approve"
  ELSE IF \E c \in Conns : Decides(c, a) THEN "deny" ELSE "none"

Gate == INSTANCE ApprovalGate WITH
          held <- {a \in Asks : pc[a] # "new"},
          answer <- [a \in Asks |-> Answer(a)]

ImplementsGate == Gate!Spec
=============================================================================
