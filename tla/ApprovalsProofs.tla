-------------------------- MODULE ApprovalsProofs --------------------------
(***************************************************************************)
(* What the approvers promise for every set of calls, of connections and   *)
(* of pollers.  For the local one, the inductive invariant follows a       *)
(* decision through its three steps: while the request that took a hold    *)
(* has not sent its verdict the call has none, afterwards the verdict is   *)
(* in the channel or returned.  For the one of Telegram, it says which     *)
(* goroutine the flag polling stands for.  A process has one of the two    *)
(* approvers (Approvals), so that its steps are steps of either, or leave  *)
(* it alone.                                                               *)
(***************************************************************************)
EXTENDS Approvals, FiniteSetTheorems, SequenceTheorems, WellFoundedInduction, TLAPS

\* Only an unused connection names no call.
RequestNamesCall == \A c \in Conns : conn[c] # "new" => target[c] \in Asks

\* A hold that was taken is in the map no more, and its Ask has begun.
TakenIsGone ==
  \A a \in Asks : \A c \in Conns : Decides(c, a) => a \notin pending /\ pc[a] # "new"

\* A verdict is what was returned, and a call timed out was not decided.
ReturnedHasVerdict ==
  \A a \in Asks : pc[a] = "returned" <=> verdict[a] # "none"

\* A decision is on its way, in the channel, or returned.
DecisionKept ==
  \A c \in Conns : \A a \in Asks : Decides(c, a) =>
    \/ conn[c] = "taken" /\ decide[a] = "none" /\ verdict[a] = "none"
    \/ conn[c] # "taken" /\ decide[a] = choice[c] /\ verdict[a] = "none"
    \/ conn[c] # "taken" /\ decide[a] = "none" /\ verdict[a] = Outcome(choice[c])

\* Only a request that took the hold puts something into the channel.
ChannelFromDecider ==
  \A a \in Asks : decide[a] # "none" =>
    \E c \in Conns : Decides(c, a) /\ choice[c] = decide[a]

IInv ==
  /\ TypeOK
  /\ RequestNamesCall
  /\ OneDecision
  /\ TakenIsGone
  /\ ReturnedHasVerdict
  /\ DecisionKept
  /\ ChannelFromDecider

(***************************************************************************)
(* The initial state satisfies the invariant.                              *)
(***************************************************************************)
LEMMA InitIInv == Init => IInv
BY NoAskAssumption DEF Init, IInv, TypeOK, Choices, RequestNamesCall, OneDecision,
  TakenIsGone, ReturnedHasVerdict, DecisionKept, ChannelFromDecider, Decides

USE DEF asks, requests

(***************************************************************************)
(* An Ask that begins disturbs no decision: nobody took its hold before.   *)
(***************************************************************************)
LEMMA HoldIInv ==
  ASSUME IInv, NEW a \in Asks, Hold(a)
  PROVE  IInv'
<1> USE DEF IInv, Hold, TypeOK, Choices, Outcome
<1>1. TypeOK'
  OBVIOUS
<1>2. RequestNamesCall'
  BY DEF RequestNamesCall
<1>3. OneDecision'
  BY DEF OneDecision, TakenIsGone, Decides, RequestNamesCall
<1>4. TakenIsGone'
  BY DEF TakenIsGone, Decides, RequestNamesCall
<1>5. ReturnedHasVerdict'
  BY DEF ReturnedHasVerdict, DecisionKept, TakenIsGone
<1>6. DecisionKept'
  BY DEF DecisionKept, ReturnedHasVerdict, OneDecision, TakenIsGone, ChannelFromDecider, Decides, RequestNamesCall
<1>7. ChannelFromDecider'
  BY DEF ChannelFromDecider, Decides, RequestNamesCall
<1> QED  BY <1>1, <1>2, <1>3, <1>4, <1>5, <1>6, <1>7

(***************************************************************************)
(* Taking the verdict moves the decision from the channel to the Ask.      *)
(***************************************************************************)
LEMMA TakeVerdictIInv ==
  ASSUME IInv, NEW a \in Asks, TakeVerdict(a)
  PROVE  IInv'
<1> USE DEF IInv, TakeVerdict, TypeOK, Choices, Outcome
<1>1. TypeOK'
  OBVIOUS
<1>2. RequestNamesCall'
  BY DEF RequestNamesCall
<1>3. OneDecision'
  BY DEF OneDecision, TakenIsGone, Decides, RequestNamesCall
<1>4. TakenIsGone'
  BY DEF TakenIsGone, Decides, RequestNamesCall
<1>5. ReturnedHasVerdict'
  BY DEF ReturnedHasVerdict, DecisionKept, TakenIsGone
<1>6. DecisionKept'
  BY DEF DecisionKept, ReturnedHasVerdict, OneDecision, TakenIsGone, ChannelFromDecider, Decides, RequestNamesCall
<1>7. ChannelFromDecider'
  BY DEF ChannelFromDecider, Decides, RequestNamesCall
<1> QED  BY <1>1, <1>2, <1>3, <1>4, <1>5, <1>6, <1>7

(***************************************************************************)
(* The timer changes only where the Ask is.                                *)
(***************************************************************************)
LEMMA TimerFiresIInv ==
  ASSUME IInv, NEW a \in Asks, TimerFires(a)
  PROVE  IInv'
<1> USE DEF IInv, TimerFires, TypeOK, Choices, Outcome
<1>1. TypeOK'
  OBVIOUS
<1>2. RequestNamesCall'
  BY DEF RequestNamesCall
<1>3. OneDecision'
  BY DEF OneDecision, TakenIsGone, Decides, RequestNamesCall
<1>4. TakenIsGone'
  BY DEF TakenIsGone, Decides, RequestNamesCall
<1>5. ReturnedHasVerdict'
  BY DEF ReturnedHasVerdict, DecisionKept, TakenIsGone
<1>6. DecisionKept'
  BY DEF DecisionKept, ReturnedHasVerdict, OneDecision, TakenIsGone, ChannelFromDecider, Decides, RequestNamesCall
<1>7. ChannelFromDecider'
  BY DEF ChannelFromDecider, Decides, RequestNamesCall
<1> QED  BY <1>1, <1>2, <1>3, <1>4, <1>5, <1>6, <1>7

(***************************************************************************)
(* The timeout owns its hold, or leaves the verdict to the request that took it. *)
(***************************************************************************)
LEMMA CheckTimeoutIInv ==
  ASSUME IInv, NEW a \in Asks, CheckTimeout(a)
  PROVE  IInv'
<1> USE DEF IInv, CheckTimeout, TypeOK, Choices, Outcome
<1>1. TypeOK'
  OBVIOUS
<1>2. RequestNamesCall'
  BY DEF RequestNamesCall
<1>3. OneDecision'
  BY DEF OneDecision, TakenIsGone, Decides, RequestNamesCall
<1>4. TakenIsGone'
  BY DEF TakenIsGone, Decides, RequestNamesCall
<1>5. ReturnedHasVerdict'
  BY DEF ReturnedHasVerdict, DecisionKept, TakenIsGone
<1>6. DecisionKept'
  BY DEF DecisionKept, ReturnedHasVerdict, OneDecision, TakenIsGone, ChannelFromDecider, Decides, RequestNamesCall
<1>7. ChannelFromDecider'
  BY DEF ChannelFromDecider, Decides, RequestNamesCall
<1> QED  BY <1>1, <1>2, <1>3, <1>4, <1>5, <1>6, <1>7

(***************************************************************************)
(* A request takes a hold that is in the map, so that no other did.        *)
(***************************************************************************)
LEMMA TakeHoldIInv ==
  ASSUME IInv, NEW c \in Conns, TakeHold(c)
  PROVE  IInv'
<1> USE DEF IInv, TakeHold, TypeOK, Choices, Outcome
<1>1. TypeOK'
  OBVIOUS
<1>2. RequestNamesCall'
  BY DEF RequestNamesCall
<1>3. OneDecision'
  BY DEF OneDecision, TakenIsGone, Decides, RequestNamesCall
<1>4. TakenIsGone'
  BY DEF TakenIsGone, Decides, RequestNamesCall
<1>5. ReturnedHasVerdict'
  BY DEF ReturnedHasVerdict, DecisionKept, TakenIsGone
<1>6. DecisionKept'
  BY DEF DecisionKept, ReturnedHasVerdict, OneDecision, TakenIsGone, ChannelFromDecider, Decides, RequestNamesCall
<1>7. ChannelFromDecider'
  BY DEF ChannelFromDecider, Decides, RequestNamesCall
<1> QED  BY <1>1, <1>2, <1>3, <1>4, <1>5, <1>6, <1>7

(***************************************************************************)
(* The verdict is sent into a channel no other request uses.               *)
(***************************************************************************)
LEMMA SendVerdictIInv ==
  ASSUME IInv, NEW c \in Conns, SendVerdict(c)
  PROVE  IInv'
<1> USE DEF IInv, SendVerdict, TypeOK, Choices, Outcome
<1>1. TypeOK'
  OBVIOUS
<1>2. RequestNamesCall'
  BY DEF RequestNamesCall
<1>3. OneDecision'
  BY DEF OneDecision, TakenIsGone, Decides, RequestNamesCall
<1>4. TakenIsGone'
  BY DEF TakenIsGone, Decides, RequestNamesCall
<1>5. ReturnedHasVerdict'
  BY DEF ReturnedHasVerdict, DecisionKept, TakenIsGone
<1>6. DecisionKept'
  BY DEF DecisionKept, ReturnedHasVerdict, OneDecision, TakenIsGone, ChannelFromDecider, Decides, RequestNamesCall
<1>7. ChannelFromDecider'
  BY DEF ChannelFromDecider, Decides, RequestNamesCall
<1> QED  BY <1>1, <1>2, <1>3, <1>4, <1>5, <1>6, <1>7

(***************************************************************************)
(* The reply changes nothing a decision depends on.                        *)
(***************************************************************************)
LEMMA ReplyIInv ==
  ASSUME IInv, NEW c \in Conns, Reply(c)
  PROVE  IInv'
<1> USE DEF IInv, Reply, TypeOK, Choices, Outcome
<1>1. TypeOK'
  OBVIOUS
<1>2. RequestNamesCall'
  BY DEF RequestNamesCall
<1>3. OneDecision'
  BY DEF OneDecision, TakenIsGone, Decides, RequestNamesCall
<1>4. TakenIsGone'
  BY DEF TakenIsGone, Decides, RequestNamesCall
<1>5. ReturnedHasVerdict'
  BY DEF ReturnedHasVerdict, DecisionKept, TakenIsGone
<1>6. DecisionKept'
  BY DEF DecisionKept, ReturnedHasVerdict, OneDecision, TakenIsGone, ChannelFromDecider, Decides, RequestNamesCall
<1>7. ChannelFromDecider'
  BY DEF ChannelFromDecider, Decides, RequestNamesCall
<1> QED  BY <1>1, <1>2, <1>3, <1>4, <1>5, <1>6, <1>7

(***************************************************************************)
(* A request names a call and decides nothing yet.                         *)
(***************************************************************************)
LEMMA RequestIInv ==
  ASSUME IInv, NEW c \in Conns, NEW a \in Asks, NEW v \in Choices, Request(c, a, v)
  PROVE  IInv'
<1> USE DEF IInv, Request, TypeOK, Choices, Outcome
<1>1. TypeOK'
  OBVIOUS
<1>2. RequestNamesCall'
  BY DEF RequestNamesCall
<1>3. OneDecision'
  BY DEF OneDecision, TakenIsGone, Decides, RequestNamesCall
<1>4. TakenIsGone'
  BY DEF TakenIsGone, Decides, RequestNamesCall
<1>5. ReturnedHasVerdict'
  BY DEF ReturnedHasVerdict, DecisionKept, TakenIsGone
<1>6. DecisionKept'
  BY DEF DecisionKept, ReturnedHasVerdict, OneDecision, TakenIsGone, ChannelFromDecider, Decides, RequestNamesCall
<1>7. ChannelFromDecider'
  BY DEF ChannelFromDecider, Decides, RequestNamesCall
<1> QED  BY <1>1, <1>2, <1>3, <1>4, <1>5, <1>6, <1>7


(***************************************************************************)
(* Every step keeps the invariant.                                         *)
(***************************************************************************)
LEMMA StepIInv == IInv /\ [Next]_vars => IInv'
<1> SUFFICES ASSUME IInv, [Next]_vars PROVE IInv'
  OBVIOUS
<1>1. CASE \E a \in Asks : Hold(a)
  BY <1>1, HoldIInv
<1>2. CASE \E a \in Asks : AskStep(a)
  BY <1>2, TakeVerdictIInv, TimerFiresIInv, CheckTimeoutIInv DEF AskStep
<1>3. CASE \E c \in Conns : ConnStep(c)
  BY <1>3, TakeHoldIInv, SendVerdictIInv, ReplyIInv DEF ConnStep
<1>4. CASE \E c \in Conns, a \in Asks, v \in Choices : Request(c, a, v)
  BY <1>4, RequestIInv
<1>5. CASE UNCHANGED vars
  BY <1>5 DEF vars, IInv, TypeOK, RequestNamesCall, OneDecision, TakenIsGone,
    ReturnedHasVerdict, DecisionKept, ChannelFromDecider, Decides
<1> QED  BY <1>1, <1>2, <1>3, <1>4, <1>5 DEF Next

(***************************************************************************)
(* The invariant holds in every reachable state.                           *)
(***************************************************************************)
THEOREM DecisionsTracked == Spec => []IInv
BY InitIInv, StepIInv, PTL DEF Spec

(***************************************************************************)
(* Handle and Ask: an operator told OK decided the call, whenever the      *)
(* timer fires and whoever else asks.                                      *)
(***************************************************************************)
THEOREM OperatorsAreHonored == Spec => []ToldIsHonored
<1>1. IInv => ToldIsHonored
  BY DEF IInv, ToldIsHonored, DecisionKept, Decides, RequestNamesCall
<1> QED  BY <1>1, DecisionsTracked, PTL

(***************************************************************************)
(* Handle: one request takes a hold, for any number of connections.        *)
(***************************************************************************)
THEOREM OneRequestDecides == Spec => []OneDecision
<1>1. IInv => OneDecision
  BY DEF IInv
<1> QED  BY <1>1, DecisionsTracked, PTL

-----------------------------------------------------------------------------
(***************************************************************************)
(* A call's answer is the choice of the one request that decides it.       *)
(***************************************************************************)
LEMMA AnswerOfDecider ==
  ASSUME OneDecision, choice \in [Conns -> Choices],
         NEW a \in Asks, NEW c \in Conns, Decides(c, a)
  PROVE  Answer(a) = choice[c]
BY DEF Answer, OneDecision, Choices

\* When no request turns into a decision or stops being one, no answer changes.
LEMMA SameAnswers ==
  ASSUME UNCHANGED choice,
         \A c \in Conns, a \in Asks : Decides(c, a)' <=> Decides(c, a)
  PROVE  UNCHANGED [a \in Asks |-> Answer(a)]
BY DEF Answer

GateUnchanged == UNCHANGED Gate!vars

(***************************************************************************)
(* Every step of the approver is one of the gate or changes nothing there. *)
(***************************************************************************)
LEMMA AskImplementsGate ==
  ASSUME IInv, NEW a \in Asks, Hold(a) \/ AskStep(a)
  PROVE  Gate!Next \/ GateUnchanged
<1> USE DEF IInv, TypeOK, Choices
<1>0. UNCHANGED [b \in Asks |-> Answer(b)]
  BY SameAnswers DEF Hold, AskStep, TakeVerdict, TimerFires, CheckTimeout, Decides
<1>1. CASE Hold(a)
  <2>1. Gate!Hold(a)
    BY <1>0, <1>1 DEF Hold, Gate!Hold
  <2> QED  BY <2>1 DEF Gate!Next
<1>2. CASE TakeVerdict(a)
  <2>1. PICK c \in Conns : Decides(c, a) /\ choice[c] = decide[a]
    BY <1>2 DEF TakeVerdict, ChannelFromDecider
  <2>2. Answer(a) = decide[a] /\ verdict[a] = "none"
    BY <1>2, <2>1, AnswerOfDecider DEF TakeVerdict, ReturnedHasVerdict
  <2>3. {b \in Asks : pc'[b] # "new"} = {b \in Asks : pc[b] # "new"} /\ pc[a] # "new"
    BY <1>2 DEF TakeVerdict
  <2>4. CASE decide[a] = "approve"
    <3>1. Gate!Grant(a)
      BY <1>0, <1>2, <2>2, <2>3, <2>4 DEF TakeVerdict, Gate!Grant, Outcome
    <3> QED  BY <3>1 DEF Gate!Next
  <2>5. CASE decide[a] = "deny"
    <3>1. Gate!Deny(a)
      BY <1>0, <1>2, <2>2, <2>3, <2>5 DEF TakeVerdict, Gate!Deny, Outcome
    <3> QED  BY <3>1 DEF Gate!Next
  <2> QED  BY <1>2, <2>4, <2>5 DEF TakeVerdict
<1>3. CASE TimerFires(a)
  <2>1. {b \in Asks : pc'[b] # "new"} = {b \in Asks : pc[b] # "new"}
    BY <1>3 DEF TimerFires
  <2> QED  BY <1>0, <1>3, <2>1 DEF TimerFires, GateUnchanged, Gate!vars
<1>4. CASE CheckTimeout(a)
  <2>1. {b \in Asks : pc'[b] # "new"} = {b \in Asks : pc[b] # "new"} /\ pc[a] # "new"
    BY <1>4 DEF CheckTimeout
  <2>2. CASE a \in pending
    <3>1. verdict[a] = "none"
      BY <1>4 DEF CheckTimeout, ReturnedHasVerdict
    <3>2. Gate!Deny(a)
      BY <1>0, <1>4, <2>1, <2>2, <3>1 DEF CheckTimeout, Gate!Deny
    <3> QED  BY <3>2 DEF Gate!Next
  <2>3. CASE a \notin pending
    BY <1>0, <1>4, <2>1, <2>3 DEF CheckTimeout, GateUnchanged, Gate!vars
  <2> QED  BY <2>2, <2>3
<1> QED  BY <1>1, <1>2, <1>3, <1>4 DEF AskStep

(***************************************************************************)
(* A request that takes a hold is the call's answer; its other steps, and  *)
(* a request too late, are none of the gate's.                             *)
(***************************************************************************)
LEMMA ConnImplementsGate ==
  ASSUME IInv, IInv', NEW c \in Conns,
         ConnStep(c) \/ \E a \in Asks, v \in Choices : Request(c, a, v)
  PROVE  Gate!Next \/ GateUnchanged
<1> USE DEF IInv, TypeOK, Choices
<1>0. UNCHANGED <<pc, verdict>>
  BY DEF ConnStep, TakeHold, SendVerdict, Reply, Request
<1>1. CASE TakeHold(c) /\ target[c] \in pending
  <2>0. PICK t \in Asks : t = target[c]
    BY <1>1
  <2>1. t \in pending /\ pc[t] # "new" /\ Decides(c, t)'
    BY <1>1, <2>0 DEF TakeHold, Decides
  <2>2. Answer(t) = "none"
    BY <2>1 DEF Answer, TakenIsGone
  <2>3. Answer(t)' = choice[c]
    <3>1. OneDecision' /\ choice' = choice
      BY <1>1 DEF TakeHold
    <3> QED  BY <2>1, <3>1 DEF Answer, OneDecision
  <2>4. \A a \in Asks \ {t} : Answer(a)' = Answer(a)
    <3>1. \A a \in Asks \ {t}, d \in Conns : Decides(d, a)' <=> Decides(d, a)
      BY <1>1, <2>0 DEF TakeHold, Decides
    <3>2. choice' = choice
      BY <1>1 DEF TakeHold
    <3> QED  BY <3>1, <3>2 DEF Answer
  <2>5. [a \in Asks |-> Answer(a)]' = [[a \in Asks |-> Answer(a)] EXCEPT ![t] = choice[c]]
    BY <2>3, <2>4
  <2>6. Gate!Cast(t, choice[c])
    BY <1>0, <2>1, <2>2, <2>5 DEF Gate!Cast
  <2> QED  BY <2>1, <2>6 DEF Gate!Next
<1>2. CASE (TakeHold(c) /\ target[c] \notin pending) \/ SendVerdict(c) \/ Reply(c)
  <2>1. UNCHANGED choice /\ \A d \in Conns, a \in Asks : Decides(d, a)' <=> Decides(d, a)
    BY <1>2 DEF TakeHold, SendVerdict, Reply, Decides
  <2> QED  BY <1>0, <2>1, SameAnswers DEF GateUnchanged, Gate!vars
<1>3. CASE \E a \in Asks, v \in Choices : Request(c, a, v)
  <2>1. \A d \in Conns, a \in Asks : Decides(d, a)' <=> Decides(d, a)
    BY <1>3 DEF Request, Decides
  <2>2. \A d \in Conns, a \in Asks : Decides(d, a) => choice'[d] = choice[d]
    BY <1>3 DEF Request, Decides
  <2>3. \A a \in Asks : Answer(a)' = Answer(a)
    BY <2>1, <2>2 DEF Answer
  <2> QED  BY <1>0, <2>3 DEF GateUnchanged, Gate!vars
<1> QED  BY <1>1, <1>2, <1>3 DEF ConnStep

(***************************************************************************)
(* Ask and handle implement the approval gate: no call is let through      *)
(* except by the choice of the request that took its hold.                 *)
(***************************************************************************)
THEOREM LocalImplementsGate == Spec => ImplementsGate
<1>1. Init => Gate!Init
  BY NoAskAssumption DEF Init, Gate!Init, Answer, Decides
<1>2. IInv /\ IInv' /\ [Next]_vars => [Gate!Next]_(Gate!vars)
  <2> SUFFICES ASSUME IInv, IInv', [Next]_vars PROVE Gate!Next \/ GateUnchanged
    BY DEF GateUnchanged
  <2>1. CASE \E a \in Asks : Hold(a) \/ AskStep(a)
    BY <2>1, AskImplementsGate
  <2>2. CASE \E c \in Conns : ConnStep(c) \/ \E a \in Asks, v \in Choices : Request(c, a, v)
    BY <2>2, ConnImplementsGate
  <2>3. CASE UNCHANGED vars
    BY <2>3 DEF vars, GateUnchanged, Gate!vars, Answer, Decides
  <2> QED  BY <2>1, <2>2, <2>3 DEF Next
<1> QED  BY <1>1, <1>2, DecisionsTracked, PTL DEF Spec, ImplementsGate, Gate!Spec

-----------------------------------------------------------------------------
(***************************************************************************)
(* A process with one of the approvers is a behaviour of each of them.     *)
(***************************************************************************)
LEMMA EitherIsEach == SpecOfEither => Spec /\ T!Spec
<1>1. buildApprover => Init /\ T!Init
  BY DEF buildApprover
<1>2. [NextOfEither]_either => [Next]_vars
  BY DEF NextOfEither, either, vars
<1>3. [NextOfEither]_either => [T!Next]_(T!vars)
  BY DEF NextOfEither, either, telegram, T!vars, T!asks, T!mailboxes, T!polls
<1> QED  BY <1>1, <1>2, <1>3, PTL DEF SpecOfEither, Spec, T!Spec

(***************************************************************************)
(* Handle and Ask of the local approver, in whatever process: an operator  *)
(* told OK decided the call.                                               *)
(***************************************************************************)
THEOREM EitherHonorsOperators == SpecOfEither => []ToldIsHonored
BY EitherIsEach, OperatorsAreHonored, PTL

-----------------------------------------------------------------------------
Running == {p \in Pollers : poller[p] # "off"}

PollersTyped ==
  /\ DOMAIN poller = Pollers /\ poller = [p \in Pollers |-> poller[p]]
  /\ DOMAIN tpc = Asks /\ tpc = [a \in Asks |-> tpc[a]]
  /\ polling \in BOOLEAN

\* The flag stands for one goroutine.
FlagIsPoller ==
  /\ polling => \E p \in Pollers : Running = {p}
  /\ ~polling => Running = {}

\* An Ask that waits is waited on.
WaitersArePolled == \A a \in waiters : tpc[a] \notin {"sending", "starting"} => polling

PInv == PollersTyped /\ FlagIsPoller /\ WaitersArePolled

LEMMA InitPInv == T!Init => PInv
BY DEF T!Init, PInv, PollersTyped, FlagIsPoller, WaitersArePolled, Running

(***************************************************************************)
(* A goroutine that goes from one place of its loop to another is still    *)
(* the one that runs.                                                      *)
(***************************************************************************)
LEMMA GoesOnRunning ==
  ASSUME PInv, NEW p \in Pollers, NEW at, poller[p] # "off", at # "off",
         poller' = [poller EXCEPT ![p] = at]
  PROVE  Running' = Running /\ DOMAIN poller' = Pollers
         /\ poller' = [q \in Pollers |-> poller'[q]]
BY DEF Running, PInv, PollersTyped

(***************************************************************************)
(* The steps of an Ask: only the one that starts a poller sets the flag,   *)
(* and the step before it is the only one from which a waiter has none.    *)
(***************************************************************************)
LEMMA AskPInv ==
  ASSUME PInv, NEW a \in Asks,
         T!Register(a) \/ T!AskStep(a) \/ T!Expire(a) \/ T!Tap(a)
  PROVE  PInv'
<1> USE DEF PInv, PollersTyped, T!polls, T!asks, T!mailboxes, T!Goto, T!Return
<1>1. CASE T!StartPoller(a)
  <2>1. tpc' = [tpc EXCEPT ![a] = "waiting"] /\ waiters' = waiters /\ polling'
    BY <1>1 DEF T!StartPoller
  <2>2. CASE polling /\ UNCHANGED <<polling, poller>>
    BY <2>1, <2>2 DEF FlagIsPoller, WaitersArePolled, Running
  <2>3. CASE ~polling
    <3>1. PICK p \in Pollers : poller[p] = "off" /\ poller' = [poller EXCEPT ![p] = "checking"]
      BY <1>1, <2>3 DEF T!StartPoller
    <3>2. Running' = {p}
      BY <2>3, <3>1 DEF FlagIsPoller, Running
    <3> QED  BY <1>1, <2>1, <3>1, <3>2 DEF FlagIsPoller, WaitersArePolled, T!StartPoller
  <2> QED  BY <1>1, <2>2, <2>3 DEF T!StartPoller
<1>0. ASSUME NEW l, UNCHANGED <<polling, poller>>, tpc' = [tpc EXCEPT ![a] = l],
             \/ waiters' \subseteq waiters \cup {a} /\ l \in {"sending", "starting"}
             \/ waiters' = waiters \ {a}
             \/ waiters' = waiters /\ tpc[a] \notin {"sending", "starting"}
      PROVE  PInv'
  <2>1. WaitersArePolled'
    BY <1>0 DEF WaitersArePolled
  <2>2. PollersTyped' /\ FlagIsPoller'
    BY <1>0 DEF FlagIsPoller, Running
  <2> QED  BY <2>1, <2>2
<1>2. CASE T!Register(a)
  BY <1>0, <1>2 DEF T!Register
<1>3. CASE T!Send(a)
  BY <1>0, <1>3 DEF T!Send
<1>5. CASE T!Timeout(a)
  BY <1>0, <1>5 DEF T!Timeout
<1>6. CASE T!Wake(a)
  BY <1>0, <1>6 DEF T!Wake
<1>7. CASE T!Reply(a)
  BY <1>0, <1>7 DEF T!Reply
<1>8. CASE T!Expire(a) \/ T!Tap(a)
  <2>1. UNCHANGED <<tpc, waiters, polling, poller>>
    BY <1>8 DEF T!Expire, T!Tap
  <2> QED  BY <2>1 DEF FlagIsPoller, WaitersArePolled, Running
<1>4. CASE T!Take(a)
  <2>1. UNCHANGED <<polling, poller>> /\ tpc[a] = "woken" /\ T!Judge(a, Head(updates[a]))
    BY <1>4 DEF T!Take
  <2> QED  BY <1>0, <2>1 DEF T!Judge
<1> QED  BY <1>1, <1>2, <1>3, <1>4, <1>5, <1>6, <1>7, <1>8 DEF T!AskStep

(***************************************************************************)
(* The steps of a poller: it stops, and clears the flag, only when nobody  *)
(* waits.                                                                  *)
(***************************************************************************)
LEMMA PollerPInv ==
  ASSUME PInv, NEW p \in Pollers, T!PollerStep(p)
  PROVE  PInv'
<1> USE DEF PInv, PollersTyped, T!polls, T!asks, T!mailboxes
<1>1. UNCHANGED <<tpc, waiters>>
  BY DEF T!PollerStep, T!CheckWaiters, T!Fetch, T!FetchFails, T!Deliver, T!Sleep
<1>2. CASE poller[p] = "checking" /\ waiters = {} /\ polling' = FALSE
           /\ poller' = [poller EXCEPT ![p] = "off"]
  <2>1. p \in Running
    BY <1>2 DEF Running
  <2>2. Running = {p}
    BY <2>1 DEF FlagIsPoller
  <2>3. poller'[p] = "off" /\ \A q \in Pollers \ {p} : poller'[q] = poller[q]
    BY <1>2
  <2>4. \A q \in Pollers \ {p} : poller[q] = "off"
    BY <2>2 DEF Running
  <2>5. Running' = {}
    BY <2>3, <2>4 DEF Running
  <2> QED  BY <1>1, <1>2, <2>5 DEF FlagIsPoller, WaitersArePolled
<1>3. ASSUME NEW at, poller[p] # "off", at # "off", poller' = [poller EXCEPT ![p] = at],
             UNCHANGED polling
      PROVE  PInv'
  BY <1>1, <1>3, GoesOnRunning DEF FlagIsPoller, WaitersArePolled
<1>4. CASE T!CheckWaiters(p)
  BY <1>2, <1>3, <1>4 DEF T!CheckWaiters
<1>5. CASE T!Fetch(p) \/ T!FetchFails(p) \/ T!Sleep(p)
  BY <1>3, <1>5 DEF T!Fetch, T!FetchFails, T!Sleep
<1>6. CASE T!Deliver(p)
  BY <1>1, <1>6 DEF T!Deliver, FlagIsPoller, WaitersArePolled, Running
<1> QED  BY <1>4, <1>5, <1>6 DEF T!PollerStep

LEMMA StepPInv == PInv /\ [T!Next]_(T!vars) => PInv'
<1> SUFFICES ASSUME PInv, [T!Next]_(T!vars) PROVE PInv'
  OBVIOUS
<1>1. CASE UNCHANGED T!vars
  BY <1>1 DEF T!vars, T!asks, T!polls, PInv, PollersTyped, FlagIsPoller, WaitersArePolled, Running
<1> QED  BY <1>1, AskPInv, PollerPInv DEF T!Next

\* ApprovalTelegram counts with the same Cardinality.
LEMMA SameCardinality == ASSUME NEW S PROVE T!Cardinality(S) = Cardinality(S)
BY DEF T!Cardinality, Cardinality

(***************************************************************************)
(* Ask and pollUpdates: however the Asks that start meet the poller that   *)
(* stops, one goroutine polls while a call waits, for any number of calls  *)
(* and of goroutines.                                                      *)
(***************************************************************************)
THEOREM OnePollerRuns == SpecOfEither => []OnePoller
<1>1. PInv => OnePoller
  <2> SUFFICES ASSUME PInv PROVE OnePoller
    OBVIOUS
  <2>0. OnePoller <=> (Cardinality(Running) = IF polling THEN 1 ELSE 0) /\ WaitersArePolled
    BY SameCardinality, Zenon DEF OnePoller, T!OnePoller, WaitersArePolled, Running
  <2>1. CASE polling
    <3>1. PICK p \in Pollers : Running = {p}
      BY <2>1 DEF PInv, FlagIsPoller
    <3>2. Cardinality({p}) = 1
      BY FS_Singleton
    <3>3. Cardinality(Running) = 1
      BY <3>1, <3>2
    <3> QED  BY <2>0, <2>1, <3>3 DEF PInv
  <2>2. CASE ~polling
    <3>1. Cardinality(Running) = 0
      <4>1. Running = {}
        BY <2>2 DEF PInv, FlagIsPoller
      <4> QED  BY <4>1, FS_EmptySet
    <3> QED  BY <2>0, <2>2, <3>1 DEF PInv
  <2> QED  BY <2>1, <2>2
<1>2. T!Spec => []PInv
  BY InitPInv, StepPInv, PTL DEF T!Spec
<1> QED  BY <1>1, <1>2, EitherIsEach, PTL
-----------------------------------------------------------------------------
(***************************************************************************)
(* The taps on their way: those Telegram has and the poller has not        *)
(* fetched, the rest of its batch, the mailbox of each Ask, and those the  *)
(* Ask took.  The n-th tap on the buttons of a call is the n-th that was   *)
(* delivered to it, wherever it is.                                        *)
(***************************************************************************)
TapsOfAsks == [ask : Asks, choice : {"approve", "deny"}, by : {"approver", "stranger", "other-chat"}]

\* The taps on the buttons of a call among the first n.
CountOf(s, a, n) == Cardinality({i \in 1..n : s[i].ask = a})

IsAnswer(a, i) == taps[i].ask = a /\ taps[i].by = "approver"

TapsTyped ==
  /\ taps \in Seq(TapsOfAsks) /\ offset \in 1..(Len(taps) + 1)
  /\ reported \in [Asks -> Nat] /\ updates \in [Asks -> Seq(TapsOfAsks)]
  /\ batch \in [Pollers -> Seq(TapsOfAsks)]
  /\ DOMAIN tverdict = Asks /\ tverdict = [a \in Asks |-> tverdict[a]]

\* An Ask is registered from its first step to its last, which gives the verdict.
AsksRegistered ==
  /\ waiters \subseteq Asks
  /\ \A a \in Asks :
       /\ a \in waiters <=> tpc[a] \notin {"new", "returned"}
       /\ tpc[a] = "returned" <=> tverdict[a] # "none"
       /\ tpc[a] = "new" => updates[a] = <<>> /\ reported[a] = 0 /\ a \notin ready
       /\ tpc[a] = "new" => \A i \in 1..Len(taps) : taps[i].ask # a

\* The first d taps were delivered, and the rest of those fetched is the batch
\* of the one poller.
InFlight(d) ==
  \/ d = offset - 1 /\ \A p \in Pollers : batch[p] = <<>>
  \/ \E p \in Pollers :
       /\ poller[p] = "delivering" /\ \A q \in Pollers \ {p} : batch[q] = <<>>
       /\ Len(batch[p]) = offset - 1 - d
       /\ \A j \in 1..Len(batch[p]) : batch[p][j] = taps[d + j]

\* The taps an Ask has taken out of its mailbox.
Taken(a) == reported[a] + IF tpc[a] \in {"approving", "denying"} THEN 1 ELSE 0

\* What is in a mailbox are the taps delivered and not taken, in their order,
\* and those taken were reported or are the answer.
Mailbox(a, d) ==
  /\ Taken(a) + Len(updates[a]) = CountOf(taps, a, d)
  /\ \A j \in 1..Len(updates[a]) : \E i \in 1..d :
       CountOf(taps, a, i) = Taken(a) + j /\ taps[i].ask = a /\ updates[a][j] = taps[i]
  /\ \A i \in 1..d : IsAnswer(a, i) => CountOf(taps, a, i) > reported[a]

TapsDelivered == \E d \in 0..Len(taps) : InFlight(d) /\ \A a \in waiters : Mailbox(a, d)

\* A wakeup announces a tap, and a second one a second.
WakeupsMeanTaps ==
  \A a \in waiters :
    /\ a \in ready => Len(updates[a]) >= 1
    /\ tpc[a] = "woken" => Len(updates[a]) >= 1
    /\ tpc[a] = "woken" /\ a \in ready => Len(updates[a]) >= 2

\* c was the first answer to the call, and every tap before it was reported.
Answered(a, c) ==
  \E k \in 1..Len(taps) :
    /\ IsAnswer(a, k) /\ taps[k].choice = c
    /\ \A j \in 1..k - 1 : ~IsAnswer(a, j)
    /\ reported[a] = CountOf(taps, a, k - 1)

AnswersKnown ==
  \A a \in Asks :
    /\ tpc[a] = "approving" \/ tverdict[a] = "approved" => Answered(a, "approve")
    /\ tpc[a] = "denying" => Answered(a, "deny")

TInv == TapsTyped /\ AsksRegistered /\ TapsDelivered /\ WakeupsMeanTaps /\ AnswersKnown

-----------------------------------------------------------------------------
(***************************************************************************)
(* Counting the taps on a call.                                            *)
(***************************************************************************)
LEMMA CountTyped ==
  ASSUME NEW s, NEW a, NEW n \in Nat
  PROVE  IsFiniteSet({i \in 1..n : s[i].ask = a}) /\ CountOf(s, a, n) \in Nat
<1> DEFINE W == {i \in 1..n : s[i].ask = a}
<1>1. IsFiniteSet(1..n) /\ W \in SUBSET (1..n)
  BY FS_Interval
<1>2. IsFiniteSet(W)
  BY <1>1, FS_Subset
<1>3. Cardinality(W) \in Nat
  BY <1>2, FS_CardinalityType
<1> QED  BY <1>2, <1>3 DEF CountOf

LEMMA CountNone == ASSUME NEW s, NEW a PROVE CountOf(s, a, 0) = 0
<1>1. {i \in 1..0 : s[i].ask = a} = {}
  OBVIOUS
<1> QED  BY <1>1, FS_EmptySet DEF CountOf

LEMMA CountNext ==
  ASSUME NEW s, NEW a, NEW n \in Nat
  PROVE  CountOf(s, a, n + 1) = CountOf(s, a, n) + (IF s[n + 1].ask = a THEN 1 ELSE 0)
<1> DEFINE W == {i \in 1..n : s[i].ask = a}
           U == {i \in 1..(n + 1) : s[i].ask = a}
<1>1. U = IF s[n + 1].ask = a THEN W \cup {n + 1} ELSE W
  OBVIOUS
<1>2. n + 1 \notin W /\ IsFiniteSet(W) /\ Cardinality(W) \in Nat
  <2>1. IsFiniteSet(W) /\ Cardinality(W) \in Nat
    BY CountTyped DEF CountOf
  <2>2. n + 1 \notin W
    OBVIOUS
  <2> QED  BY <2>1, <2>2
<1>3. Cardinality(W \cup {n + 1}) = Cardinality(W) + 1
  BY <1>2, FS_AddElement
<1>4. Cardinality(U) = Cardinality(W) + (IF s[n + 1].ask = a THEN 1 ELSE 0)
  BY <1>1, <1>2, <1>3
<1> QED  BY <1>4 DEF CountOf

\* An earlier tap has the smaller number.
LEMMA CountGrows ==
  ASSUME NEW s, NEW a, NEW i \in Nat, NEW j \in Nat, i < j, s[j].ask = a
  PROVE  CountOf(s, a, i) < CountOf(s, a, j)
<1> DEFINE W == {k \in 1..i : s[k].ask = a}
           U == {k \in 1..j : s[k].ask = a}
<1>1. IsFiniteSet(W) /\ IsFiniteSet(U) /\ Cardinality(W) \in Nat /\ Cardinality(U) \in Nat
  <2>1. IsFiniteSet(W) /\ IsFiniteSet(U)
    BY CountTyped
  <2> QED  BY <2>1, FS_CardinalityType
<1>2. W \subseteq U /\ j \in U /\ j \notin W
  OBVIOUS
<1>3. Cardinality(W) <= Cardinality(U) /\ Cardinality(W) # Cardinality(U)
  BY <1>1, <1>2, FS_Subset
<1>4. Cardinality(W) < Cardinality(U)
  BY <1>1, <1>3
<1> QED  BY <1>4 DEF CountOf

\* A tap made later changes no number.
LEMMA CountKept ==
  ASSUME NEW s, NEW t, NEW a, NEW n \in Nat, \A i \in 1..n : t[i] = s[i]
  PROVE  CountOf(t, a, n) = CountOf(s, a, n)
<1>1. {i \in 1..n : t[i].ask = a} = {i \in 1..n : s[i].ask = a}
  OBVIOUS
<1> QED  BY <1>1 DEF CountOf

-----------------------------------------------------------------------------
(***************************************************************************)
(* The first answer to a call.                                             *)
(***************************************************************************)
LEMMA SmallestOf ==
  ASSUME NEW W, W \subseteq Nat, W # {}
  PROVE  \E x \in W : \A y \in W : x <= y
<1>1. IsWellFoundedOn(OpToRel(<, Nat), Nat)
  BY NatLessThanWellFounded
<1>2. PICK x \in W : \A y \in W : <<y, x>> \notin OpToRel(<, Nat)
  BY <1>1, WFMin
<1>3. \A y \in W : ~(y < x)
  BY <1>2 DEF OpToRel
<1> QED  BY <1>3

AnswerAt(s, a, i) == s[i].ask = a /\ s[i].by = "approver"

First(s, a, k) == k \in 1..Len(s) /\ AnswerAt(s, a, k) /\ \A j \in 1..k - 1 : ~AnswerAt(s, a, j)

\* What FirstAnswer and Answer say of the taps s.
FirstIn(s, a) ==
  LET I == {i \in 1..Len(s) : AnswerAt(s, a, i)} IN
  IF I # {} THEN CHOOSE x \in I : \A y \in I : x <= y ELSE 0

AnswerIn(s, a) == IF FirstIn(s, a) = 0 THEN "none" ELSE s[FirstIn(s, a)].choice

LEMMA AnswerOfTaps ==
  ASSUME NEW a
  PROVE  /\ T!FirstAnswer(a) = FirstIn(taps, a) /\ T!FirstAnswer(a)' = FirstIn(taps', a)
         /\ T!Answer(a) = AnswerIn(taps, a) /\ T!Answer(a)' = AnswerIn(taps', a)
BY DEF T!Answer, T!FirstAnswer, T!SelectInSeq, T!Min, FirstIn, AnswerIn, AnswerAt

LEMMA FirstAnswerIs ==
  ASSUME NEW s, Len(s) \in Nat, NEW a, NEW k, First(s, a, k)
  PROVE  FirstIn(s, a) = k /\ AnswerIn(s, a) = s[k].choice
<1> DEFINE I == {i \in 1..Len(s) : AnswerAt(s, a, i)}
<1>1. k \in I /\ \A j \in I : k <= j
  BY DEF First
<1>2. \A x \in I : (\A y \in I : x <= y) => x = k
  BY <1>1
<1> HIDE DEF I
<1>3. (CHOOSE x \in I : \A y \in I : x <= y) = k
  BY <1>1, <1>2
<1> USE DEF I
<1>4. FirstIn(s, a) = k
  BY <1>1, <1>3 DEF FirstIn
<1> QED  BY <1>1, <1>4 DEF AnswerIn

LEMMA FirstAnswerNone ==
  ASSUME NEW s, NEW a, \A i \in 1..Len(s) : ~AnswerAt(s, a, i)
  PROVE  FirstIn(s, a) = 0 /\ AnswerIn(s, a) = "none"
<1>1. {i \in 1..Len(s) : AnswerAt(s, a, i)} = {}
  OBVIOUS
<1>2. FirstIn(s, a) = 0
  BY <1>1 DEF FirstIn
<1> QED  BY <1>2 DEF AnswerIn

LEMMA AnsweredOrNot ==
  ASSUME NEW s, Len(s) \in Nat, NEW a
  PROVE  (\E k \in 1..Len(s) : First(s, a, k)) \/ \A i \in 1..Len(s) : ~AnswerAt(s, a, i)
<1> DEFINE I == {i \in 1..Len(s) : AnswerAt(s, a, i)}
<1>1. CASE I = {}
  BY <1>1
<1>2. CASE I # {}
  <2>1. I \subseteq Nat
    OBVIOUS
  <2>2. PICK k \in I : \A j \in I : k <= j
    BY <1>2, <2>1, SmallestOf
  <2>3. First(s, a, k)
    BY <2>2 DEF First
  <2> QED  BY <2>3
<1> QED  BY <1>1, <1>2

-----------------------------------------------------------------------------
LEMMA InitTInv == T!Init => TInv
<1> SUFFICES ASSUME T!Init PROVE TInv
  OBVIOUS
<1> USE DEF T!Init
<1>1. Len(taps) = 0 /\ taps \in Seq(TapsOfAsks)
  OBVIOUS
<1>2. TapsTyped
  BY <1>1 DEF TapsTyped
<1>3. AsksRegistered /\ WakeupsMeanTaps /\ AnswersKnown
  BY <1>1 DEF AsksRegistered, WakeupsMeanTaps, AnswersKnown
<1>4. 0 \in 0..Len(taps) /\ InFlight(0) /\ \A a \in waiters : Mailbox(a, 0)
  BY <1>1 DEF InFlight
<1> QED  BY <1>2, <1>3, <1>4 DEF TInv, TapsDelivered

(***************************************************************************)
(* What an Ask has in its mailbox and has taken stays so while neither the *)
(* taps nor the Ask's own part change.                                     *)
(***************************************************************************)
LEMMA MailboxKept ==
  ASSUME UNCHANGED taps, NEW a, NEW d, Mailbox(a, d),
         UNCHANGED <<Taken(a), updates[a], reported[a]>>
  PROVE  Mailbox(a, d)'
<1> DEFINE k == Taken(a)
           m == updates[a]
           r == reported[a]
<1>1. k' = k /\ m' = m /\ r' = r /\ taps' = taps
  OBVIOUS
<1>2. /\ k + Len(m) = CountOf(taps, a, d)
      /\ \A j \in 1..Len(m) : \E i \in 1..d :
           CountOf(taps, a, i) = k + j /\ taps[i].ask = a /\ m[j] = taps[i]
      /\ \A i \in 1..d : IsAnswer(a, i) => CountOf(taps, a, i) > r
  BY DEF Mailbox
<1>3. \A i \in 1..d : IsAnswer(a, i)' <=> IsAnswer(a, i)
  BY <1>1 DEF IsAnswer
<1> HIDE DEF k, m, r
<1>4. /\ k' + Len(m') = CountOf(taps', a, d)
      /\ \A j \in 1..Len(m') : \E i \in 1..d :
           CountOf(taps', a, i) = k' + j /\ taps'[i].ask = a /\ m'[j] = taps'[i]
      /\ \A i \in 1..d : IsAnswer(a, i)' => CountOf(taps', a, i) > r'
  BY <1>1, <1>2, <1>3
<1> USE DEF k, m, r
<1> QED  BY <1>4 DEF Mailbox

LEMMA DeliveredKept ==
  ASSUME TapsDelivered, UNCHANGED <<taps, offset, batch>>,
         \A p \in Pollers : poller[p] = "delivering" => poller'[p] = "delivering",
         \A b \in waiters' : b \in waiters /\ UNCHANGED <<Taken(b), updates[b], reported[b]>>
  PROVE  TapsDelivered'
<1>1. PICK d \in 0..Len(taps) : InFlight(d) /\ \A a \in waiters : Mailbox(a, d)
  BY DEF TapsDelivered
<1>2. InFlight(d)'
  BY <1>1 DEF InFlight
<1>3. \A b \in waiters' : Mailbox(b, d)'
  BY <1>1, MailboxKept
<1> QED  BY <1>1, <1>2, <1>3 DEF TapsDelivered

LEMMA AnsweredKept ==
  ASSUME NEW a, NEW c, Answered(a, c), UNCHANGED <<taps, reported[a]>>
  PROVE  Answered(a, c)'
<1>1. PICK k \in 1..Len(taps) :
        /\ IsAnswer(a, k) /\ taps[k].choice = c
        /\ \A j \in 1..k - 1 : ~IsAnswer(a, j)
        /\ reported[a] = CountOf(taps, a, k - 1)
  BY DEF Answered
<1>2. IsAnswer(a, k)' /\ \A j \in 1..k - 1 : ~IsAnswer(a, j)'
  BY <1>1 DEF IsAnswer
<1> QED  BY <1>1, <1>2 DEF Answered

(***************************************************************************)
(* An Ask goes on to another place of its code, where it waits.            *)
(***************************************************************************)
LEMMA AskGoesOn ==
  ASSUME TInv, NEW a \in Asks, NEW l,
         l \notin {"new", "returned", "approving", "denying"},
         tpc[a] \notin {"new", "returned", "approving", "denying"},
         tpc = [b \in Asks |-> tpc[b]], tpc' = [tpc EXCEPT ![a] = l],
         l = "woken" => a \in ready /\ a \notin ready',
         ready' \subseteq ready,
         UNCHANGED <<tverdict, waiters, reported, updates, taps, offset, batch>>,
         \A p \in Pollers : poller[p] = "delivering" => poller'[p] = "delivering"
  PROVE  TInv'
<1>1. tpc'[a] = l /\ \A b \in Asks \ {a} : tpc'[b] = tpc[b]
  OBVIOUS
<1>2. TapsTyped'
  BY DEF TInv, TapsTyped
<1>3. AsksRegistered'
  BY <1>1 DEF TInv, AsksRegistered
<1>4. TapsDelivered'
  <2>1. \A b \in waiters' : b \in waiters /\ UNCHANGED <<Taken(b), updates[b], reported[b]>>
    BY <1>1 DEF TInv, AsksRegistered, Taken
  <2> QED  BY <2>1, DeliveredKept DEF TInv
<1>5. WakeupsMeanTaps'
  BY <1>1 DEF TInv, AsksRegistered, WakeupsMeanTaps
<1>6. AnswersKnown'
  <2>1. \A b \in Asks, c \in {"approve", "deny"} : Answered(b, c) => Answered(b, c)'
    BY AnsweredKept
  <2> QED  BY <1>1, <2>1 DEF TInv, AnswersKnown
<1> QED  BY <1>2, <1>3, <1>4, <1>5, <1>6 DEF TInv

(***************************************************************************)
(* An Ask returns: it approves only what it was told to approve.           *)
(***************************************************************************)
LEMMA AskReturnsKeeps ==
  ASSUME TInv, NEW a \in Asks, NEW v \in {"approved", "denied"},
         tpc[a] \notin {"new", "returned"},
         v = "approved" => tpc[a] = "approving",
         tpc = [b \in Asks |-> tpc[b]], T!Return(a, v),
         updates' \in [Asks -> Seq(TapsOfAsks)],
         ready' \subseteq ready \cup {a},
         \A b \in Asks \ {a} : updates'[b] = updates[b],
         UNCHANGED <<reported, taps, offset, batch, poller>>
  PROVE  TInv'
<1>1. /\ tpc'[a] = "returned" /\ \A b \in Asks \ {a} : tpc'[b] = tpc[b]
      /\ waiters' = waiters \ {a} /\ tverdict' = [tverdict EXCEPT ![a] = v]
  BY DEF T!Return, T!Goto
<1>2. tverdict'[a] = v /\ \A b \in Asks \ {a} : tverdict'[b] = tverdict[b]
  BY <1>1 DEF TInv, TapsTyped
<1>3. TapsTyped'
  BY <1>1 DEF TInv, TapsTyped
<1>4. AsksRegistered'
  BY <1>1, <1>2 DEF TInv, AsksRegistered
<1>5. TapsDelivered'
  <2>1. \A b \in waiters' : b \in waiters /\ UNCHANGED <<Taken(b), updates[b], reported[b]>>
    BY <1>1 DEF TInv, AsksRegistered, Taken
  <2> QED  BY <2>1, DeliveredKept DEF TInv
<1>6. WakeupsMeanTaps'
  BY <1>1 DEF TInv, AsksRegistered, WakeupsMeanTaps
<1>7. AnswersKnown'
  <2>1. \A b \in Asks, c \in {"approve", "deny"} : Answered(b, c) => Answered(b, c)'
    BY AnsweredKept
  <2> QED  BY <1>1, <1>2, <2>1 DEF TInv, AnswersKnown
<1> QED  BY <1>3, <1>4, <1>5, <1>6, <1>7 DEF TInv

(***************************************************************************)
(* Ask registers its waiter before its message is sent, so that no tap is  *)
(* delivered to it before.                                                 *)
(***************************************************************************)
LEMMA RegisterKeeps ==
  ASSUME TInv, NEW a \in Asks, tpc = [b \in Asks |-> tpc[b]], T!Register(a)
  PROVE  TInv'
<1>1. /\ tpc[a] = "new" /\ tpc'[a] = "sending" /\ \A b \in Asks \ {a} : tpc'[b] = tpc[b]
      /\ waiters' = waiters \cup {a}
      /\ UNCHANGED <<tverdict, reported, updates, ready, taps, offset, batch, poller>>
  BY DEF T!Register, T!Goto, T!mailboxes, T!polls
<1>2. TapsTyped'
  BY <1>1 DEF TInv, TapsTyped
<1>3. AsksRegistered'
  BY <1>1 DEF TInv, AsksRegistered
<1>4. TapsDelivered'
  <2>1. PICK d \in 0..Len(taps) : InFlight(d) /\ \A b \in waiters : Mailbox(b, d)
    BY DEF TInv, TapsDelivered
  <2>2. InFlight(d)'
    BY <1>1, <2>1 DEF InFlight
  <2>3. \A b \in waiters : Mailbox(b, d)'
    <3>1. \A b \in waiters : UNCHANGED <<Taken(b), updates[b], reported[b]>>
      BY <1>1 DEF TInv, AsksRegistered, Taken
    <3> QED  BY <1>1, <2>1, <3>1, MailboxKept
  <2>4. Mailbox(a, d)'
    <3>1. /\ reported'[a] = 0 /\ updates'[a] = <<>> /\ d \in Nat
          /\ \A i \in 1..d : taps'[i].ask # a
      BY <1>1 DEF TInv, TapsTyped, AsksRegistered
    <3>2. {i \in 1..d : taps'[i].ask = a} = {}
      BY <3>1
    <3>3. CountOf(taps', a, d) = 0
      BY <3>2, FS_EmptySet DEF CountOf
    <3>4. Taken(a)' = 0 /\ Len(updates'[a]) = 0
      BY <1>1, <3>1 DEF Taken
    <3>5. \A i \in 1..d : ~IsAnswer(a, i)'
      BY <3>1 DEF IsAnswer
    <3> QED  BY <3>3, <3>4, <3>5 DEF Mailbox
  <2>5. \A b \in waiters' : Mailbox(b, d)'
    BY <1>1, <2>3, <2>4
  <2> QED  BY <1>1, <2>1, <2>2, <2>5 DEF TapsDelivered
<1>5. WakeupsMeanTaps'
  BY <1>1 DEF TInv, AsksRegistered, WakeupsMeanTaps
<1>6. AnswersKnown'
  <2>1. \A b \in Asks, c \in {"approve", "deny"} : Answered(b, c) => Answered(b, c)'
    BY <1>1, AnsweredKept
  <2> QED  BY <1>1, <2>1 DEF TInv, AnswersKnown
<1> QED  BY <1>2, <1>3, <1>4, <1>5, <1>6 DEF TInv

LEMMA OneTaken == \A x, y \in Int : x + 1 + (y - 1) = x + y
OBVIOUS

(***************************************************************************)
(* The tap an Ask takes out of its mailbox is the next one on its buttons, *)
(* and no answer came before it.                                           *)
(***************************************************************************)
LEMMA NextTap ==
  ASSUME TInv, NEW a \in waiters, NEW d \in 0..Len(taps), Mailbox(a, d), tpc[a] = "woken"
  PROVE  \E i \in 1..d :
           /\ taps[i].ask = a /\ Head(updates[a]) = taps[i] /\ taps[i] \in TapsOfAsks
           /\ CountOf(taps, a, i) = reported[a] + 1
           /\ reported[a] = CountOf(taps, a, i - 1)
           /\ \A j \in 1..i - 1 : ~IsAnswer(a, j)
           /\ \A j \in 1..d : IsAnswer(a, j) /\ j # i => CountOf(taps, a, j) > reported[a] + 1
<1>1. /\ a \in Asks /\ reported[a] \in Nat /\ updates[a] \in Seq(TapsOfAsks)
      /\ taps \in Seq(TapsOfAsks) /\ d \in Nat
  BY DEF TInv, TapsTyped, AsksRegistered
<1>2. Len(updates[a]) >= 1 /\ Taken(a) = reported[a]
  BY <1>1 DEF TInv, WakeupsMeanTaps, Taken
<1>3. 1 \in 1..Len(updates[a]) /\ Head(updates[a]) = updates[a][1]
  BY <1>1, <1>2
<1>4. PICK i \in 1..d :
        CountOf(taps, a, i) = Taken(a) + 1 /\ taps[i].ask = a /\ updates[a][1] = taps[i]
  BY <1>3 DEF Mailbox
<1>5. i \in Nat /\ i - 1 \in Nat /\ i \in 1..Len(taps) /\ (i - 1) + 1 = i
  BY <1>1
<1>6. taps[i] \in TapsOfAsks
  BY <1>1, <1>5
<1>7. reported[a] = CountOf(taps, a, i - 1)
  <2>1. CountOf(taps, a, i) = CountOf(taps, a, i - 1) + 1
    BY <1>4, <1>5, CountNext
  <2>2. CountOf(taps, a, i - 1) \in Nat
    BY <1>5, CountTyped
  <2> QED  BY <1>1, <1>2, <1>4, <2>1, <2>2
<1>8. ASSUME NEW j \in 1..i - 1, IsAnswer(a, j) PROVE FALSE
  <2>1. j \in 1..d /\ j \in Nat /\ j < i
    BY <1>5
  <2>2. CountOf(taps, a, j) < CountOf(taps, a, i)
    BY <1>4, <1>5, <2>1, CountGrows
  <2>3. CountOf(taps, a, j) > reported[a] /\ CountOf(taps, a, j) \in Nat
    BY <1>8, <2>1, CountTyped DEF Mailbox
  <2> QED  BY <1>1, <1>2, <1>4, <2>2, <2>3
<1>9. ASSUME NEW j \in 1..d, IsAnswer(a, j), j # i
      PROVE  CountOf(taps, a, j) > reported[a] + 1
  <2>1. j \in Nat /\ i < j
    BY <1>5, <1>8, <1>9
  <2>2. taps[j].ask = a
    BY <1>9 DEF IsAnswer
  <2>3. CountOf(taps, a, i) < CountOf(taps, a, j)
    BY <1>5, <2>1, <2>2, CountGrows
  <2> QED  BY <1>2, <1>4, <2>3
<1> QED  BY <1>2, <1>3, <1>4, <1>6, <1>7, <1>8, <1>9

(***************************************************************************)
(* An Ask takes a tap.                                                     *)
(***************************************************************************)
LEMMA TakeKeeps ==
  ASSUME TInv, NEW a \in Asks, tpc = [b \in Asks |-> tpc[b]], T!Take(a)
  PROVE  TInv'
<1>1. /\ tpc[a] = "woken" /\ T!Judge(a, Head(updates[a]))
      /\ updates' = [updates EXCEPT ![a] = Tail(@)]
      /\ ready' = (IF Len(updates[a]) > 1 THEN ready \cup {a} ELSE ready)
      /\ UNCHANGED <<taps, offset, batch, poller>>
  BY DEF T!Take, T!polls
<1>2. a \in waiters /\ Len(updates[a]) >= 1 /\ updates[a] \in Seq(TapsOfAsks)
  BY <1>1 DEF TInv, AsksRegistered, WakeupsMeanTaps, TapsTyped
<1>3. /\ Tail(updates[a]) \in Seq(TapsOfAsks) /\ Len(Tail(updates[a])) = Len(updates[a]) - 1
      /\ \A j \in 1..Len(updates[a]) - 1 : Tail(updates[a])[j] = updates[a][j + 1]
  BY <1>2, HeadTailProperties
<1>4. /\ updates' \in [Asks -> Seq(TapsOfAsks)] /\ updates'[a] = Tail(updates[a])
      /\ \A b \in Asks \ {a} : updates'[b] = updates[b]
  BY <1>1, <1>3 DEF TInv, TapsTyped
<1>5. CASE T!Return(a, "denied") /\ UNCHANGED reported
  BY <1>1, <1>4, <1>5, AskReturnsKeeps
<1>6. ASSUME NEW l \in {"replying", "approving", "denying"}, tpc' = [tpc EXCEPT ![a] = l],
             UNCHANGED <<tverdict, waiters>>,
             reported' = [reported EXCEPT ![a] = IF l = "replying" THEN @ + 1 ELSE @],
             l = "replying" <=> Head(updates[a]).by # "approver",
             l # "replying" => Head(updates[a]).choice = IF l = "approving" THEN "approve" ELSE "deny"
      PROVE  TInv'
  <2>1. tpc'[a] = l /\ \A b \in Asks \ {a} : tpc'[b] = tpc[b]
    BY <1>6
  <2>2. /\ reported[a] \in Nat /\ reported'[a] = (IF l = "replying" THEN reported[a] + 1 ELSE reported[a])
        /\ reported' \in [Asks -> Nat] /\ \A b \in Asks \ {a} : reported'[b] = reported[b]
    BY <1>6 DEF TInv, TapsTyped
  <2>3. TapsTyped'
    BY <1>1, <1>4, <1>6, <2>2 DEF TInv, TapsTyped
  <2>4. AsksRegistered'
    BY <1>1, <1>2, <1>4, <1>6, <2>1, <2>2 DEF TInv, AsksRegistered
  <2>5. PICK d \in 0..Len(taps) : InFlight(d) /\ \A b \in waiters : Mailbox(b, d)
    BY DEF TInv, TapsDelivered
  <2>6. PICK i \in 1..d :
           /\ taps[i].ask = a /\ Head(updates[a]) = taps[i] /\ taps[i] \in TapsOfAsks
           /\ CountOf(taps, a, i) = reported[a] + 1
           /\ reported[a] = CountOf(taps, a, i - 1)
           /\ \A j \in 1..i - 1 : ~IsAnswer(a, j)
           /\ \A j \in 1..d : IsAnswer(a, j) /\ j # i => CountOf(taps, a, j) > reported[a] + 1
    BY <1>1, <1>2, <2>5, NextTap
  <2>7. Taken(a) = reported[a] /\ Taken(a)' = reported[a] + 1
    BY <1>1, <2>1, <2>2 DEF Taken
  <2>8. Mailbox(a, d)'
    <3>1. Taken(a)' + Len(updates'[a]) = CountOf(taps', a, d)
      <4>1. Taken(a) + Len(updates[a]) = CountOf(taps, a, d)
        BY <1>2, <2>5 DEF Mailbox
      <4>2. Len(updates[a]) \in Nat /\ Len(updates'[a]) = Len(updates[a]) - 1
        BY <1>2, <1>3, <1>4
      <4>3. reported[a] \in Nat /\ taps' = taps
        BY <1>1, <2>2
      <4>4. reported[a] + Len(updates[a]) = CountOf(taps, a, d)
        BY <2>7, <4>1
      <4>5. reported[a] + 1 + Len(updates'[a]) = reported[a] + Len(updates[a])
        <5>1. PICK x \in Nat, y \in Nat, z \in Int : x = reported[a] /\ y = Len(updates[a]) /\ z = Len(updates'[a])
          BY <4>2, <4>3
        <5>2. z = y - 1
          BY <4>2, <5>1
        <5>3. x + 1 + (y - 1) = x + y
          BY OneTaken
        <5> QED  BY <5>1, <5>2, <5>3
      <4> QED  BY <2>7, <4>3, <4>4, <4>5
    <3>2. ASSUME NEW j \in 1..Len(updates'[a])
          PROVE  \E k \in 1..d : CountOf(taps', a, k) = Taken(a)' + j /\ taps'[k].ask = a
                                 /\ updates'[a][j] = taps'[k]
      <4>1. /\ Len(updates[a]) \in Nat /\ j \in 1..Len(updates[a]) - 1 /\ j + 1 \in 1..Len(updates[a])
            /\ updates'[a][j] = updates[a][j + 1]
        BY <1>2, <1>3, <1>4
      <4>2. PICK k \in 1..d : CountOf(taps, a, k) = Taken(a) + (j + 1) /\ taps[k].ask = a
                              /\ updates[a][j + 1] = taps[k]
        BY <1>2, <2>5, <4>1 DEF Mailbox
      <4>3. CountOf(taps, a, k) = Taken(a)' + j
        <5>1. PICK x \in Nat : x = reported[a]
          BY <2>2
        <5>2. CountOf(taps, a, k) = x + (j + 1)
          BY <2>7, <4>2, <5>1
        <5>3. PICK y \in Nat : y = j
          BY <4>1
        <5>4. CountOf(taps, a, k) = (x + 1) + y
          BY <5>1, <5>2, <5>3
        <5> QED  BY <2>7, <5>1, <5>3, <5>4
      <4> QED  BY <1>1, <4>1, <4>2, <4>3
    <3>3. ASSUME NEW k \in 1..d, IsAnswer(a, k)' PROVE CountOf(taps', a, k) > reported'[a]
      <4>1. IsAnswer(a, k) /\ CountOf(taps, a, k) > reported[a]
        BY <1>1, <1>2, <2>5, <3>3 DEF IsAnswer, Mailbox
      <4>2. CASE l = "replying"
        <5>1. k # i
          BY <1>6, <2>6, <4>1, <4>2 DEF IsAnswer
        <5>2. CountOf(taps, a, k) > reported[a] + 1
          BY <2>6, <4>1, <5>1
        <5> QED  BY <1>1, <2>2, <4>2, <5>2
      <4> QED  BY <1>1, <2>2, <4>1, <4>2
    <3> QED  BY <3>1, <3>2, <3>3 DEF Mailbox
  <2>9. TapsDelivered'
    <3>1. \A b \in waiters \ {a} : UNCHANGED <<Taken(b), updates[b], reported[b]>>
      BY <1>4, <2>1, <2>2 DEF TInv, AsksRegistered, Taken
    <3>2. \A b \in waiters' : Mailbox(b, d)'
      BY <1>1, <1>6, <2>5, <2>8, <3>1, MailboxKept
    <3>3. InFlight(d)'
      BY <1>1, <2>5 DEF InFlight
    <3> QED  BY <1>1, <3>2, <3>3 DEF TapsDelivered
  <2>10. WakeupsMeanTaps'
    <3>1. \A b \in waiters \ {a} : b \in ready' <=> b \in ready
      BY <1>1
    <3>2. \A b \in waiters \ {a} : updates'[b] = updates[b] /\ tpc'[b] = tpc[b]
      BY <1>4, <2>1 DEF TInv, AsksRegistered
    <3>3. Len(updates[a]) \in Nat /\ Len(updates'[a]) = Len(updates[a]) - 1
      BY <1>2, <1>3, <1>4
    <3>4. a \in ready => Len(updates[a]) >= 2
      BY <1>1, <1>2 DEF TInv, WakeupsMeanTaps
    <3>5. a \in ready' => Len(updates'[a]) >= 1
      BY <1>1, <3>3, <3>4
    <3> QED  BY <1>6, <2>1, <3>1, <3>2, <3>5 DEF TInv, WakeupsMeanTaps
  <2>11. AnswersKnown'
    <3>1. \A b \in Asks \ {a}, c \in {"approve", "deny"} : Answered(b, c) => Answered(b, c)'
      BY <1>1, <2>2, AnsweredKept
    <3>2. l # "replying" => Answered(a, IF l = "approving" THEN "approve" ELSE "deny")'
      <4>1. SUFFICES ASSUME l # "replying"
                     PROVE  Answered(a, IF l = "approving" THEN "approve" ELSE "deny")'
        OBVIOUS
      <4>2. IsAnswer(a, i)' /\ \A j \in 1..i - 1 : ~IsAnswer(a, j)'
        BY <1>1, <1>6, <2>6, <4>1 DEF IsAnswer
      <4>3. taps'[i].choice = (IF l = "approving" THEN "approve" ELSE "deny")
            /\ reported'[a] = CountOf(taps', a, i - 1)
        BY <1>1, <1>6, <2>2, <2>6, <4>1
      <4>4. i \in 1..Len(taps')
        BY <1>1 DEF TInv, TapsTyped
      <4> QED  BY <4>2, <4>3, <4>4 DEF Answered
    <3>3. tverdict'[a] # "approved"
      BY <1>1, <1>6 DEF TInv, AsksRegistered
    <3> QED  BY <1>6, <2>1, <3>1, <3>2, <3>3 DEF TInv, AnswersKnown
  <2> QED  BY <2>3, <2>4, <2>9, <2>10, <2>11 DEF TInv
<1>7. Head(updates[a]) \in TapsOfAsks
  BY <1>2, HeadTailProperties
<1>8. CASE Head(updates[a]).by # "approver" /\ reported' = [reported EXCEPT ![a] = @ + 1]
           /\ T!Goto(a, "replying") /\ UNCHANGED <<tverdict, waiters>>
  BY <1>6, <1>8 DEF T!Goto
<1>9. CASE Head(updates[a]).by = "approver" /\ UNCHANGED <<tverdict, reported, waiters>>
           /\ T!Goto(a, IF Head(updates[a]).choice = "approve" THEN "approving" ELSE "denying")
  <2> DEFINE l == IF Head(updates[a]).choice = "approve" THEN "approving" ELSE "denying"
  <2>1. l \in {"replying", "approving", "denying"} /\ l # "replying"
    OBVIOUS
  <2>2. tpc' = [tpc EXCEPT ![a] = l]
    BY <1>9 DEF T!Goto
  <2>3. Head(updates[a]).choice = IF l = "approving" THEN "approve" ELSE "deny"
    BY <1>7 DEF TapsOfAsks
  <2>4. reported' = [reported EXCEPT ![a] = IF l = "replying" THEN @ + 1 ELSE @]
    BY <1>9, <2>1 DEF TInv, TapsTyped
  <2> HIDE DEF l
  <2> QED  BY <1>6, <1>9, <2>1, <2>2, <2>3, <2>4
<1> QED  BY <1>1, <1>5, <1>8, <1>9 DEF T!Judge

(***************************************************************************)
(* A tap is made: it is the last one, and nothing before it changes.       *)
(***************************************************************************)
LEMMA TapKeeps ==
  ASSUME TInv, NEW a \in Asks, T!Tap(a)
  PROVE  TInv'
<1>1. PICK tap \in T!Taps(a) : taps' = Append(taps, tap)
  BY DEF T!Tap
<1>2. tpc[a] # "new" /\ UNCHANGED <<tpc, tverdict, reported, waiters, updates, ready, offset, batch, poller>>
  BY DEF T!Tap, T!asks, T!mailboxes, T!polls
<1>3. tap \in TapsOfAsks /\ tap.ask = a
  BY <1>1 DEF T!Taps, TapsOfAsks
<1>4. taps \in Seq(TapsOfAsks) /\ Len(taps) \in Nat
  BY DEF TInv, TapsTyped
<1>5. /\ taps' \in Seq(TapsOfAsks) /\ Len(taps') = Len(taps) + 1
      /\ \A i \in 1..Len(taps) : taps'[i] = taps[i]
      /\ taps'[Len(taps) + 1] = tap
  BY <1>1, <1>3, <1>4, AppendProperties
<1>6. TapsTyped'
  <2>1. offset \in 1..(Len(taps') + 1)
    BY <1>4, <1>5 DEF TInv, TapsTyped
  <2> QED  BY <1>2, <1>5, <2>1 DEF TInv, TapsTyped
<1>7. AsksRegistered'
  <2>1. ASSUME NEW b \in Asks, tpc[b] = "new", NEW i \in 1..Len(taps') PROVE taps'[i].ask # b
    <3>1. i \in 1..Len(taps) \/ i = Len(taps) + 1
      BY <1>4, <1>5
    <3> QED  BY <1>2, <1>3, <1>5, <2>1, <3>1 DEF TInv, AsksRegistered
  <2> QED  BY <1>2, <2>1 DEF TInv, AsksRegistered
<1>8. \A b, i : i \in 1..Len(taps) => (IsAnswer(b, i)' <=> IsAnswer(b, i))
  BY <1>5 DEF IsAnswer
<1>9. \A b, n : n \in 0..Len(taps) => CountOf(taps', b, n) = CountOf(taps, b, n)
  <2> TAKE b, n
  <2> HAVE n \in 0..Len(taps)
  <2>1. n \in Nat /\ \A i \in 1..n : taps'[i] = taps[i]
    BY <1>4, <1>5
  <2> QED  BY <2>1, CountKept
<1>10. TapsDelivered'
  <2>1. PICK d \in 0..Len(taps) : InFlight(d) /\ \A b \in waiters : Mailbox(b, d)
    BY DEF TInv, TapsDelivered
  <2>2. d \in Nat /\ d \in 0..Len(taps') /\ \A i \in 1..d : i \in 1..Len(taps) /\ i \in 0..Len(taps)
    BY <1>4, <1>5
  <2>3. InFlight(d)'
    <3>1. CASE d = offset - 1 /\ \A p \in Pollers : batch[p] = <<>>
      BY <1>2, <3>1 DEF InFlight
    <3>2. ASSUME NEW p \in Pollers, poller[p] = "delivering",
                 \A q \in Pollers \ {p} : batch[q] = <<>>,
                 Len(batch[p]) = offset - 1 - d,
                 \A j \in 1..Len(batch[p]) : batch[p][j] = taps[d + j]
          PROVE  InFlight(d)'
      <4>1. \A j \in 1..Len(batch[p]) : d + j \in 1..Len(taps)
        BY <1>4, <2>2, <3>2 DEF TInv, TapsTyped
      <4>2. \A j \in 1..Len(batch[p]) : batch[p][j] = taps'[d + j]
        BY <1>5, <3>2, <4>1
      <4> QED  BY <1>2, <3>2, <4>2 DEF InFlight
    <3> QED  BY <2>1, <3>1, <3>2 DEF InFlight
  <2>4. ASSUME NEW b \in waiters PROVE Mailbox(b, d)'
    <3>1. Taken(b)' = Taken(b)
      BY <1>2 DEF Taken
    <3>2. \A i \in 1..d : CountOf(taps', b, i) = CountOf(taps, b, i) /\ taps'[i] = taps[i]
      BY <1>5, <1>9, <2>2
    <3>3. CountOf(taps', b, d) = CountOf(taps, b, d)
      BY <1>9
    <3>4. \A i \in 1..d : IsAnswer(b, i)' => CountOf(taps', b, i) > reported[b]
      BY <1>8, <2>1, <2>2, <3>2 DEF Mailbox
    <3>5. \A j \in 1..Len(updates[b]) : \E i \in 1..d :
            CountOf(taps', b, i) = Taken(b) + j /\ taps'[i].ask = b /\ updates[b][j] = taps'[i]
      BY <2>1, <3>2 DEF Mailbox
    <3>6. Taken(b) + Len(updates[b]) = CountOf(taps', b, d)
      BY <2>1, <3>3 DEF Mailbox
    <3> QED  BY <1>2, <3>1, <3>4, <3>5, <3>6 DEF Mailbox
  <2> QED  BY <1>2, <2>2, <2>3, <2>4 DEF TapsDelivered
<1>11. WakeupsMeanTaps'
  BY <1>2 DEF TInv, WakeupsMeanTaps
<1>12. AnswersKnown'
  <2>1. ASSUME NEW b \in Asks, NEW c \in {"approve", "deny"}, Answered(b, c) PROVE Answered(b, c)'
    <3>1. PICK k \in 1..Len(taps) :
            /\ IsAnswer(b, k) /\ taps[k].choice = c
            /\ \A j \in 1..k - 1 : ~IsAnswer(b, j)
            /\ reported[b] = CountOf(taps, b, k - 1)
      BY <2>1 DEF Answered
    <3>2. k \in 1..Len(taps') /\ k - 1 \in 0..Len(taps) /\ \A j \in 1..k - 1 : j \in 1..Len(taps)
      BY <1>4, <1>5
    <3>3. IsAnswer(b, k)' /\ taps'[k].choice = c /\ \A j \in 1..k - 1 : ~IsAnswer(b, j)'
      BY <1>5, <1>8, <3>1, <3>2
    <3>4. reported'[b] = CountOf(taps', b, k - 1)
      BY <1>2, <1>9, <3>1, <3>2
    <3> QED  BY <3>2, <3>3, <3>4 DEF Answered
  <2> QED  BY <1>2, <2>1 DEF TInv, AnswersKnown
<1> QED  BY <1>6, <1>7, <1>10, <1>11, <1>12 DEF TInv

-----------------------------------------------------------------------------
(***************************************************************************)
(* The poller.  One alone has a batch, since one alone runs.               *)
(***************************************************************************)
LEMMA OnlyPoller ==
  ASSUME PInv, NEW p \in Pollers, NEW q \in Pollers, poller[p] # "off", poller[q] # "off"
  PROVE  p = q
BY DEF PInv, FlagIsPoller, Running, PollersTyped

LEMMA PollerPasses ==
  ASSUME TInv,
         UNCHANGED <<tpc, tverdict, reported, waiters, updates, ready, taps>>,
         TapsTyped', \A d \in 0..Len(taps) : InFlight(d) => InFlight(d)'
  PROVE  TInv'
<1>1. AsksRegistered' /\ WakeupsMeanTaps'
  BY DEF TInv, AsksRegistered, WakeupsMeanTaps
<1>2. TapsDelivered'
  <2>1. PICK d \in 0..Len(taps) : InFlight(d) /\ \A b \in waiters : Mailbox(b, d)
    BY DEF TInv, TapsDelivered
  <2>2. \A b \in waiters : UNCHANGED <<Taken(b), updates[b], reported[b]>>
    BY DEF Taken
  <2>3. \A b \in waiters' : Mailbox(b, d)'
    BY <2>1, <2>2, MailboxKept
  <2> QED  BY <2>1, <2>3 DEF TapsDelivered
<1>3. AnswersKnown'
  <2>1. \A b \in Asks, c \in {"approve", "deny"} : Answered(b, c) => Answered(b, c)'
    BY AnsweredKept
  <2> QED  BY <2>1 DEF TInv, AnswersKnown
<1> QED  BY <1>1, <1>2, <1>3 DEF TInv

LEMMA FetchKeeps ==
  ASSUME PInv, TInv, NEW p \in Pollers, T!Fetch(p)
  PROVE  TInv'
<1>1. /\ poller[p] = "fetching" /\ poller' = [poller EXCEPT ![p] = "delivering"]
      /\ batch' = [batch EXCEPT ![p] = SubSeq(taps, offset, Len(taps))]
      /\ offset' = Len(taps) + 1
      /\ UNCHANGED <<tpc, tverdict, reported, waiters, updates, ready, taps>>
  BY DEF T!Fetch, T!asks, T!mailboxes
<1>2. /\ taps \in Seq(TapsOfAsks) /\ Len(taps) \in Nat /\ offset \in 1..(Len(taps) + 1)
      /\ batch \in [Pollers -> Seq(TapsOfAsks)]
  BY DEF TInv, TapsTyped
<1> DEFINE new == SubSeq(taps, offset, Len(taps))
<1>3. /\ new \in Seq(TapsOfAsks) /\ Len(new) = Len(taps) - offset + 1
      /\ \A j \in 1..Len(new) : new[j] = taps[offset + j - 1]
  <2>1. offset \in Int /\ Len(taps) \in Int /\ \A i \in offset..Len(taps) : taps[i] \in TapsOfAsks
    BY <1>2
  <2>2. /\ new \in Seq(TapsOfAsks)
        /\ Len(new) = IF offset <= Len(taps) THEN Len(taps) - offset + 1 ELSE 0
        /\ \A j \in 1..Len(taps) - offset + 1 : new[j] = taps[offset + j - 1]
    BY <2>1, SubSeqProperties
  <2>3. Len(new) = Len(taps) - offset + 1
    BY <1>2, <2>2
  <2> QED  BY <2>2, <2>3
<1> HIDE DEF new
<1>4. /\ batch'[p] = new /\ poller'[p] = "delivering"
      /\ \A q \in Pollers \ {p} : batch'[q] = batch[q]
  BY <1>1, <1>2 DEF PInv, PollersTyped, new
<1>5. TapsTyped'
  BY <1>1, <1>2, <1>3 DEF TInv, TapsTyped, new
<1>6. ASSUME NEW d \in 0..Len(taps), InFlight(d) PROVE InFlight(d)'
  <2>1. d = offset - 1 /\ \A q \in Pollers : batch[q] = <<>>
    <3>1. \A q \in Pollers : poller[q] # "delivering"
      BY <1>1, OnlyPoller
    <3> QED  BY <1>6, <3>1 DEF InFlight
  <2>2. Len(new) = offset' - 1 - d
    BY <1>1, <1>2, <1>3, <2>1
  <2>3. \A j \in 1..Len(new) : new[j] = taps[d + j]
    <3>1. \A j \in Int : offset + j - 1 = d + j
      BY <1>2, <2>1
    <3> QED  BY <1>3, <3>1
  <2>4. taps' = taps /\ batch'[p] = new /\ poller'[p] = "delivering"
    BY <1>1, <1>4
  <2>5. \A q \in Pollers \ {p} : batch'[q] = <<>>
    BY <1>4, <2>1
  <2>6. \A j \in 1..Len(batch'[p]) : batch'[p][j] = taps'[d + j]
    BY <2>3, <2>4
  <2>7. Len(batch'[p]) = offset' - 1 - d
    BY <2>2, <2>4
  <2> QED  BY <2>4, <2>5, <2>6, <2>7 DEF InFlight
<1> QED  BY <1>1, <1>5, <1>6, PollerPasses

(***************************************************************************)
(* The step from one place of the loop to another leaves the batch alone.  *)
(***************************************************************************)
LEMMA LoopKeeps ==
  ASSUME PInv, TInv, NEW p \in Pollers, T!CheckWaiters(p) \/ T!FetchFails(p) \/ T!Sleep(p)
  PROVE  TInv'
<1>1. UNCHANGED <<tpc, tverdict, reported, waiters, updates, ready, taps, offset, batch>>
  BY DEF T!CheckWaiters, T!FetchFails, T!Sleep, T!asks, T!mailboxes
<1>2. /\ \A q \in Pollers \ {p} : poller'[q] = poller[q]
      /\ poller[p] = "delivering" => batch[p] = <<>>
  BY DEF T!CheckWaiters, T!FetchFails, T!Sleep, PInv, PollersTyped
<1>3. TapsTyped'
  BY <1>1 DEF TInv, TapsTyped
<1>4. ASSUME NEW d \in 0..Len(taps), InFlight(d) PROVE InFlight(d)'
  <2>1. CASE d = offset - 1 /\ \A q \in Pollers : batch[q] = <<>>
    BY <1>1, <2>1 DEF InFlight
  <2>2. ASSUME NEW r \in Pollers, poller[r] = "delivering",
               \A q \in Pollers \ {r} : batch[q] = <<>>,
               Len(batch[r]) = offset - 1 - d,
               \A j \in 1..Len(batch[r]) : batch[r][j] = taps[d + j]
        PROVE  InFlight(d)'
    <3>1. CASE r = p
      <4>1. batch[p] = <<>> /\ offset \in Nat /\ d \in Nat /\ 0 = offset - 1 - d
        BY <1>2, <2>2, <3>1 DEF TInv, TapsTyped
      <4>2. d = offset - 1
        BY <4>1
      <4> QED  BY <1>1, <2>2, <3>1, <4>1, <4>2 DEF InFlight
    <3>2. CASE r # p
      BY <1>1, <1>2, <2>2, <3>2 DEF InFlight
    <3> QED  BY <3>1, <3>2
  <2> QED  BY <1>4, <2>1, <2>2 DEF InFlight
<1> QED  BY <1>1, <1>3, <1>4, PollerPasses

(***************************************************************************)
(* A tap delivered is the next one, and goes to the end of the mailbox of  *)
(* its call if that still waits.                                           *)
(***************************************************************************)
LEMMA DeliverKeeps ==
  ASSUME PInv, TInv, NEW p \in Pollers, T!Deliver(p)
  PROVE  TInv'
<1> DEFINE tap == Head(batch[p])
<1>1. /\ poller[p] = "delivering" /\ batch[p] # <<>> /\ batch' = [batch EXCEPT ![p] = Tail(@)]
      /\ UNCHANGED <<tpc, tverdict, reported, waiters, poller, offset, taps>>
  BY DEF T!Deliver, T!asks
<1>2. \/ /\ tap.ask \in waiters /\ updates' = [updates EXCEPT ![tap.ask] = Append(@, tap)]
         /\ ready' = ready \cup {tap.ask}
      \/ tap.ask \notin waiters /\ UNCHANGED <<updates, ready>>
  BY DEF T!Deliver, T!mailboxes
<1>3. /\ taps \in Seq(TapsOfAsks) /\ Len(taps) \in Nat /\ offset \in 1..(Len(taps) + 1)
      /\ batch \in [Pollers -> Seq(TapsOfAsks)] /\ updates \in [Asks -> Seq(TapsOfAsks)]
      /\ waiters \subseteq Asks
  BY DEF TInv, TapsTyped, AsksRegistered
<1>4. /\ batch[p] \in Seq(TapsOfAsks) /\ Len(batch[p]) \in Nat /\ Len(batch[p]) >= 1
      /\ tap \in TapsOfAsks /\ tap = batch[p][1] /\ Tail(batch[p]) \in Seq(TapsOfAsks)
      /\ Len(Tail(batch[p])) = Len(batch[p]) - 1
      /\ \A j \in 1..Len(Tail(batch[p])) : Tail(batch[p])[j] = batch[p][j + 1]
  BY <1>1, <1>3, HeadTailProperties
<1>5. batch'[p] = Tail(batch[p]) /\ \A q \in Pollers \ {p} : batch'[q] = batch[q]
  BY <1>1, <1>3
<1>6. PICK d \in 0..Len(taps) : InFlight(d) /\ \A b \in waiters : Mailbox(b, d)
  BY DEF TInv, TapsDelivered
<1>7. /\ Len(batch[p]) = offset - 1 - d /\ \A q \in Pollers \ {p} : batch[q] = <<>>
      /\ \A j \in 1..Len(batch[p]) : batch[p][j] = taps[d + j]
  BY <1>1, <1>6 DEF InFlight
<1>8. d \in Nat /\ d + 1 \in 1..Len(taps) /\ d + 1 \in 0..Len(taps)
  BY <1>3, <1>4, <1>7
<1>9. tap = taps[d + 1]
  BY <1>4, <1>7
<1>10. InFlight(d + 1)'
  <2>1. Len(batch'[p]) = offset' - 1 - (d + 1)
    <3>1. Len(batch'[p]) = Len(batch[p]) - 1 /\ offset' = offset
      BY <1>1, <1>4, <1>5
    <3>2. Len(batch[p]) = offset - 1 - d
      BY <1>7
    <3>3. offset \in Int /\ d \in Int
      BY <1>3, <1>8
    <3> QED  BY <3>1, <3>2, <3>3
  <2>2. ASSUME NEW j \in 1..Len(batch'[p]) PROVE batch'[p][j] = taps'[d + 1 + j]
    <3>1. j \in Int /\ j + 1 \in 1..Len(batch[p]) /\ d \in Int
      BY <1>4, <1>5, <1>8
    <3>2. batch'[p][j] = batch[p][j + 1]
      BY <1>4, <1>5
    <3>3. batch[p][j + 1] = taps[d + (j + 1)]
      BY <1>7, <3>1
    <3>4. d + (j + 1) = d + 1 + j
      BY <3>1
    <3> QED  BY <1>1, <3>2, <3>3, <3>4
  <2>3. poller'[p] = "delivering" /\ \A q \in Pollers \ {p} : batch'[q] = <<>>
    BY <1>1, <1>5, <1>7
  <2> QED  BY <2>1, <2>2, <2>3 DEF InFlight
<1>11. \A b \in waiters :
         /\ b = tap.ask => updates'[b] = Append(updates[b], tap)
         /\ b # tap.ask => updates'[b] = updates[b]
  BY <1>2, <1>3
<1>12. updates' \in [Asks -> Seq(TapsOfAsks)]
  <2>1. CASE UNCHANGED updates
    BY <1>3, <2>1
  <2>2. CASE tap.ask \in waiters /\ updates' = [updates EXCEPT ![tap.ask] = Append(@, tap)]
    <3>1. tap.ask \in Asks /\ Append(updates[tap.ask], tap) \in Seq(TapsOfAsks)
      BY <1>3, <1>4, <2>2, AppendProperties
    <3> QED  BY <1>3, <2>2, <3>1
  <2> QED  BY <1>2, <2>1, <2>2
<1>13. TapsTyped'
  <2>1. batch' \in [Pollers -> Seq(TapsOfAsks)]
    BY <1>1, <1>3, <1>4
  <2> QED  BY <1>1, <1>12, <2>1 DEF TInv, TapsTyped
<1>14. AsksRegistered'
  <2>1. \A b \in Asks : tpc[b] = "new" => b \notin waiters
    BY DEF TInv, AsksRegistered
  <2>2. \A b \in Asks : b \notin waiters => updates'[b] = updates[b] /\ (b \in ready' <=> b \in ready)
    BY <1>2, <1>3
  <2> QED  BY <1>1, <2>1, <2>2 DEF TInv, AsksRegistered
<1>15. ASSUME NEW b \in waiters PROVE Mailbox(b, d + 1)'
  <2> DEFINE k == Taken(b)
             m == updates[b]
  <2>1. b \in Asks /\ reported[b] \in Nat /\ m \in Seq(TapsOfAsks) /\ Len(m) \in Nat
    BY <1>3 DEF TInv, TapsTyped
  <2>2. k \in Nat /\ k >= reported[b]
    BY <2>1 DEF Taken
  <2>3. Taken(b)' = k /\ reported'[b] = reported[b] /\ taps' = taps
    BY <1>1 DEF Taken
  <2>4. /\ k + Len(m) = CountOf(taps, b, d)
        /\ \A j \in 1..Len(m) : \E i \in 1..d :
             CountOf(taps, b, i) = k + j /\ taps[i].ask = b /\ m[j] = taps[i]
        /\ \A i \in 1..d : IsAnswer(b, i) => CountOf(taps, b, i) > reported[b]
    BY <1>6 DEF Mailbox
  <2>5. CountOf(taps, b, d + 1) = CountOf(taps, b, d) + (IF taps[d + 1].ask = b THEN 1 ELSE 0)
    BY <1>8, CountNext
  <2>6. \A i : IsAnswer(b, i)' <=> IsAnswer(b, i)
    BY <2>3 DEF IsAnswer
  <2>7. \A i \in 1..(d + 1) : i \in 1..d \/ i = d + 1
    BY <1>8
  <2>8. 1..d \subseteq 1..(d + 1) /\ d + 1 \in 1..(d + 1)
    BY <1>8
  <2> HIDE DEF k, m
  <2>9. CASE b # tap.ask
    <3>1. updates'[b] = m /\ CountOf(taps, b, d + 1) = CountOf(taps, b, d)
      <4>1. updates'[b] = m
        BY <1>11, <2>9 DEF m
      <4>2. CountOf(taps, b, d + 1) = CountOf(taps, b, d) + 0
        BY <1>9, <2>5, <2>9
      <4>3. CountOf(taps, b, d) \in Nat
        BY <1>8, CountTyped
      <4> QED  BY <4>1, <4>2, <4>3
    <3>2. ~IsAnswer(b, d + 1)
      BY <1>9, <2>9 DEF IsAnswer
    <3>3. \A i \in 1..(d + 1) : IsAnswer(b, i)' => CountOf(taps', b, i) > reported'[b]
      BY <2>3, <2>4, <2>6, <2>7, <3>2
    <3>4. \A j \in 1..Len(m) : \E i \in 1..(d + 1) :
             CountOf(taps', b, i) = k + j /\ taps'[i].ask = b /\ m[j] = taps'[i]
      BY <2>3, <2>4, <2>8
    <3>5. k + Len(m) = CountOf(taps', b, d + 1)
      BY <2>3, <2>4, <3>1
    <3> QED  BY <2>3, <3>1, <3>3, <3>4, <3>5 DEF Mailbox
  <2>10. CASE b = tap.ask
    <3>1. updates'[b] = Append(m, tap)
      BY <1>11, <2>10 DEF m
    <3>2. /\ Len(updates'[b]) = Len(m) + 1 /\ updates'[b][Len(m) + 1] = tap
          /\ \A j \in 1..Len(m) : updates'[b][j] = m[j]
      BY <1>4, <2>1, <3>1, AppendProperties
    <3>3. CountOf(taps, b, d + 1) = k + (Len(m) + 1)
      <4>1. CountOf(taps, b, d + 1) = CountOf(taps, b, d) + 1
        BY <1>9, <2>5, <2>10
      <4> QED  BY <2>1, <2>2, <2>4, <4>1
    <3>4. \A i \in 1..(d + 1) : IsAnswer(b, i)' => CountOf(taps', b, i) > reported'[b]
      <4>1. CountOf(taps, b, d + 1) > reported[b]
        BY <2>1, <2>2, <3>3
      <4> QED  BY <2>3, <2>4, <2>6, <2>7, <4>1
    <3>5. ASSUME NEW j \in 1..Len(updates'[b])
          PROVE  \E i \in 1..(d + 1) :
                   CountOf(taps', b, i) = k + j /\ taps'[i].ask = b /\ updates'[b][j] = taps'[i]
      <4>1. j \in 1..Len(m) \/ j = Len(m) + 1
        BY <2>1, <3>2
      <4>2. CASE j \in 1..Len(m)
        BY <2>3, <2>4, <2>8, <3>2, <4>2
      <4>3. CASE j = Len(m) + 1
        BY <1>9, <2>3, <2>8, <2>10, <3>2, <3>3, <4>3
      <4> QED  BY <4>1, <4>2, <4>3
    <3>6. k + Len(updates'[b]) = CountOf(taps', b, d + 1)
      BY <2>3, <3>2, <3>3
    <3> QED  BY <2>3, <3>4, <3>5, <3>6 DEF Mailbox
  <2> QED  BY <2>9, <2>10
<1>16. TapsDelivered'
  BY <1>1, <1>8, <1>10, <1>15 DEF TapsDelivered
<1>17. WakeupsMeanTaps'
  <2>1. ASSUME NEW b \in waiters, b = tap.ask PROVE Len(updates'[b]) = Len(updates[b]) + 1
    BY <1>3, <1>4, <1>11, <2>1, AppendProperties
  <2>2. \A b \in waiters : Len(updates[b]) \in Nat
    BY <1>3
  <2>3. \A b \in waiters : b # tap.ask => updates'[b] = updates[b] /\ (b \in ready' <=> b \in ready)
    BY <1>2, <1>11
  <2> QED  BY <1>1, <2>1, <2>2, <2>3 DEF TInv, WakeupsMeanTaps
<1>18. AnswersKnown'
  <2>1. \A b \in Asks, c \in {"approve", "deny"} : Answered(b, c) => Answered(b, c)'
    BY <1>1, AnsweredKept
  <2> QED  BY <1>1, <2>1 DEF TInv, AnswersKnown
<1> QED  BY <1>13, <1>14, <1>16, <1>17, <1>18 DEF TInv

-----------------------------------------------------------------------------
LEMMA StepTInv == PInv /\ TInv /\ [T!Next]_(T!vars) => TInv'
<1> SUFFICES ASSUME PInv, TInv, [T!Next]_(T!vars) PROVE TInv'
  OBVIOUS
<1>0. tpc = [b \in Asks |-> tpc[b]] /\ DOMAIN poller = Pollers
  BY DEF PInv, PollersTyped
<1>1. ASSUME NEW a \in Asks, T!Register(a) \/ T!AskStep(a) \/ T!Expire(a) \/ T!Tap(a) PROVE TInv'
  <2> USE DEF T!asks, T!mailboxes, T!polls
  <2>1. updates \in [Asks -> Seq(TapsOfAsks)]
    BY DEF TInv, TapsTyped
  <2>2. CASE T!Send(a)
    <3>1. CASE T!Return(a, "denied")
      BY <1>0, <2>1, <2>2, <3>1, AskReturnsKeeps DEF T!Send
    <3>2. CASE T!Goto(a, "starting") /\ UNCHANGED <<tverdict, waiters>>
      BY <1>0, <2>2, <3>2, AskGoesOn DEF T!Send, T!Goto
    <3> QED  BY <2>2, <3>1, <3>2 DEF T!Send
  <2>3. CASE T!StartPoller(a)
    <3>1. \A p \in Pollers : poller[p] = "delivering" => poller'[p] = "delivering"
      BY <1>0, <2>3 DEF T!StartPoller
    <3> QED  BY <1>0, <2>3, <3>1, AskGoesOn DEF T!StartPoller, T!Goto
  <2>4. CASE T!Expire(a)
    <3>1. UNCHANGED <<tpc, tverdict, reported, waiters, updates, ready, taps, offset, batch, poller>>
      BY <2>4 DEF T!Expire
    <3>2. TapsTyped' /\ \A d \in 0..Len(taps) : InFlight(d) => InFlight(d)'
      BY <3>1 DEF TInv, TapsTyped, InFlight
    <3> QED  BY <3>1, <3>2, PollerPasses
  <2>5. CASE T!Timeout(a)
    BY <1>0, <2>1, <2>5, AskReturnsKeeps DEF T!Timeout
  <2>6. CASE T!Wake(a)
    BY <1>0, <2>6, AskGoesOn DEF T!Wake, T!Goto
  <2>7. CASE T!Reply(a)
    <3>1. CASE tpc[a] = "replying" /\ T!Goto(a, "waiting") /\ UNCHANGED <<tverdict, waiters>>
      BY <1>0, <2>7, <3>1, AskGoesOn DEF T!Reply, T!Goto
    <3>2. CASE tpc[a] = "approving" /\ T!Return(a, "approved")
      BY <1>0, <2>1, <2>7, <3>2, AskReturnsKeeps DEF T!Reply
    <3>3. CASE tpc[a] = "denying" /\ T!Return(a, "denied")
      BY <1>0, <2>1, <2>7, <3>3, AskReturnsKeeps DEF T!Reply
    <3> QED  BY <2>7, <3>1, <3>2, <3>3 DEF T!Reply
  <2> QED  BY <1>0, <1>1, <2>2, <2>3, <2>4, <2>5, <2>6, <2>7, RegisterKeeps, TakeKeeps, TapKeeps
           DEF T!AskStep
<1>2. CASE UNCHANGED T!vars
  <2>1. UNCHANGED <<tpc, tverdict, reported, waiters, updates, ready, taps, offset, batch, poller>>
    BY <1>2 DEF T!vars, T!asks, T!mailboxes, T!polls
  <2>2. TapsTyped' /\ \A d \in 0..Len(taps) : InFlight(d) => InFlight(d)'
    BY <2>1 DEF TInv, TapsTyped, InFlight
  <2> QED  BY <2>1, <2>2, PollerPasses
<1> QED  BY <1>1, <1>2, FetchKeeps, LoopKeeps, DeliverKeeps DEF T!Next, T!PollerStep

(***************************************************************************)
(* The path of the taps is kept in every reachable state of a process with *)
(* either approver.                                                        *)
(***************************************************************************)
LEMMA TapsTracked == SpecOfEither => [](PInv /\ TInv)
<1>1. T!Spec => [](PInv /\ TInv)
  BY InitPInv, InitTInv, StepPInv, StepTInv, PTL DEF T!Spec
<1> QED  BY <1>1, EitherIsEach, PTL

LEMMA AnsweredFirst ==
  ASSUME TInv, NEW a, NEW c, Answered(a, c)
  PROVE  T!Answer(a) = c /\ reported[a] = CountOf(taps, a, T!FirstAnswer(a) - 1)
<1>1. PICK k \in 1..Len(taps) :
        /\ IsAnswer(a, k) /\ taps[k].choice = c
        /\ \A j \in 1..k - 1 : ~IsAnswer(a, j)
        /\ reported[a] = CountOf(taps, a, k - 1)
  BY DEF Answered
<1>2. Len(taps) \in Nat /\ First(taps, a, k)
  BY <1>1 DEF First, AnswerAt, IsAnswer, TInv, TapsTyped
<1>3. FirstIn(taps, a) = k /\ AnswerIn(taps, a) = taps[k].choice
  BY <1>2, FirstAnswerIs
<1> QED  BY <1>1, <1>3, AnswerOfTaps

(***************************************************************************)
(* Ask and pollUpdates: an approval comes with the report of every tap     *)
(* before it that was somebody else's, each once, whatever fetches fail    *)
(* and however wakeups and deliveries interleave.                          *)
(***************************************************************************)
THEOREM RejectionsAreReported == SpecOfEither => []RejectedTapsReported
<1>1. TInv => RejectedTapsReported
  <2> SUFFICES ASSUME TInv, NEW a \in Asks, tverdict[a] = "approved"
               PROVE  reported[a] =
                        T!Cardinality({i \in 1..T!FirstAnswer(a) - 1 : taps[i].ask = a})
    BY DEF RejectedTapsReported, T!RejectedTapsReported
  <2>1. reported[a] = CountOf(taps, a, T!FirstAnswer(a) - 1)
    BY AnsweredFirst DEF TInv, AnswersKnown
  <2> QED  BY <2>1, SameCardinality DEF CountOf
<1> QED  BY <1>1, TapsTracked, PTL

-----------------------------------------------------------------------------
(***************************************************************************)
(* The gate of a process with either approver.                             *)
(***************************************************************************)
heldBy == {a \in Asks : pc[a] # "new" \/ tpc[a] # "new"}
answers == IF approver = "local" THEN [a \in Asks |-> Answer(a)] ELSE [a \in Asks |-> T!Answer(a)]
verdicts == IF approver = "local" THEN verdict ELSE tverdict

EitherUnchanged == UNCHANGED EitherGate!vars

\* The approver a process does not have was never asked.
OneApprover ==
  /\ approver \in {"local", "telegram"}
  /\ approver = "local" => tpc = [a \in Asks |-> "new"]
  /\ approver = "telegram" => pc = [a \in Asks |-> "new"]

LEMMA OneApproverBuilt == SpecOfEither => []OneApprover
<1>1. buildApprover => OneApprover
  BY DEF buildApprover, OneApprover, Init, T!Init
<1>2. OneApprover /\ [NextOfEither]_either => OneApprover'
  BY DEF OneApprover, NextOfEither, either, telegram, vars
<1> QED  BY <1>1, <1>2, PTL DEF SpecOfEither

LEMMA EitherHold ==
  ASSUME NEW a \in Asks, a \notin heldBy, heldBy' = heldBy \cup {a}, UNCHANGED <<answers, verdicts>>
  PROVE  EitherGate!Next
<1>1. EitherGate!Hold(a)
  BY DEF EitherGate!Hold, heldBy, answers, verdicts
<1> QED  BY <1>1 DEF EitherGate!Next

LEMMA EitherCast ==
  ASSUME NEW a \in Asks, NEW c \in {"approve", "deny"}, a \in heldBy, answers[a] = "none",
         answers' = [answers EXCEPT ![a] = c], UNCHANGED <<heldBy, verdicts>>
  PROVE  EitherGate!Next
<1>1. EitherGate!Cast(a, c)
  BY DEF EitherGate!Cast, heldBy, answers, verdicts
<1> QED  BY <1>1 DEF EitherGate!Next

LEMMA EitherGrant ==
  ASSUME NEW a \in Asks, a \in heldBy, answers[a] = "approve", verdicts[a] = "none",
         verdicts' = [verdicts EXCEPT ![a] = "approved"], UNCHANGED <<heldBy, answers>>
  PROVE  EitherGate!Next
<1>1. EitherGate!Grant(a)
  BY DEF EitherGate!Grant, heldBy, answers, verdicts
<1> QED  BY <1>1 DEF EitherGate!Next

LEMMA EitherDeny ==
  ASSUME NEW a \in Asks, a \in heldBy, verdicts[a] = "none",
         verdicts' = [verdicts EXCEPT ![a] = "denied"], UNCHANGED <<heldBy, answers>>
  PROVE  EitherGate!Next
<1>1. EitherGate!Deny(a)
  BY DEF EitherGate!Deny, heldBy, answers, verdicts
<1> QED  BY <1>1 DEF EitherGate!Next

LEMMA EitherSame == ASSUME UNCHANGED <<heldBy, answers, verdicts>> PROVE EitherUnchanged
BY DEF EitherUnchanged, EitherGate!vars, heldBy, answers, verdicts

(***************************************************************************)
(* The gate of the local approver is that of a process that has it.        *)
(***************************************************************************)
LEMMA LocalGateIsEither ==
  ASSUME approver = "local", approver' = "local",
         tpc = [a \in Asks |-> "new"], tpc' = [a \in Asks |-> "new"],
         Gate!Next \/ GateUnchanged
  PROVE  EitherGate!Next \/ EitherUnchanged
<1> DEFINE h == {a \in Asks : pc[a] # "new"}
           an == [a \in Asks |-> Answer(a)]
<1>1. heldBy = h /\ answers = an /\ verdicts = verdict
  BY DEF heldBy, answers, verdicts
<1>2. heldBy' = h' /\ answers' = an' /\ verdicts' = verdict'
  BY DEF heldBy, answers, verdicts
<1>3. CASE GateUnchanged
  <2>1. h' = h /\ an' = an /\ verdict' = verdict
    BY <1>3 DEF GateUnchanged, Gate!vars
  <2> QED  BY <1>1, <1>2, <2>1, EitherSame
<1>4. ASSUME NEW a \in Asks, Gate!Hold(a) PROVE EitherGate!Next
  <2>1. a \notin h /\ h' = h \cup {a} /\ an' = an /\ verdict' = verdict
    BY <1>4 DEF Gate!Hold
  <2> QED  BY <1>1, <1>2, <2>1, EitherHold
<1>5. ASSUME NEW a \in Asks, Gate!Grant(a) PROVE EitherGate!Next
  <2>1. a \in h /\ an[a] = "approve" /\ verdict[a] = "none"
        /\ verdict' = [verdict EXCEPT ![a] = "approved"] /\ h' = h /\ an' = an
    BY <1>5 DEF Gate!Grant
  <2> QED  BY <1>1, <1>2, <2>1, EitherGrant
<1>6. ASSUME NEW a \in Asks, Gate!Deny(a) PROVE EitherGate!Next
  <2>1. a \in h /\ verdict[a] = "none"
        /\ verdict' = [verdict EXCEPT ![a] = "denied"] /\ h' = h /\ an' = an
    BY <1>6 DEF Gate!Deny
  <2> QED  BY <1>1, <1>2, <2>1, EitherDeny
<1>7. ASSUME NEW a \in Asks, NEW c \in {"approve", "deny"}, Gate!Cast(a, c) PROVE EitherGate!Next
  <2>1. a \in h /\ an[a] = "none" /\ an' = [an EXCEPT ![a] = c]
        /\ h' = h /\ verdict' = verdict
    BY <1>7 DEF Gate!Cast
  <2> QED  BY <1>1, <1>2, <2>1, EitherCast
<1> QED  BY <1>3, <1>4, <1>5, <1>6, <1>7 DEF Gate!Next

-----------------------------------------------------------------------------
(***************************************************************************)
(* A tap is the answer to its call if it is a listed approver's and none   *)
(* came before it; else it changes no answer.                              *)
(***************************************************************************)
LEMMA TapAnswers ==
  ASSUME TInv, NEW a \in Asks, T!Tap(a)
  PROVE  \/ \A b \in Asks : T!Answer(b)' = T!Answer(b)
         \/ /\ T!Answer(a) = "none" /\ T!Answer(a)' \in {"approve", "deny"}
            /\ \A b \in Asks \ {a} : T!Answer(b)' = T!Answer(b)
<1>1. PICK tap \in T!Taps(a) : taps' = Append(taps, tap)
  BY DEF T!Tap
<1>2. tap \in TapsOfAsks /\ tap.ask = a
  BY <1>1 DEF T!Taps, TapsOfAsks
<1>3. PICK n \in Nat : n = Len(taps)
  <2>1. taps \in Seq(TapsOfAsks)
    BY DEF TInv, TapsTyped
  <2>2. Len(taps) \in Nat
    BY <2>1
  <2> QED  BY <2>2
<1>4. /\ taps \in Seq(TapsOfAsks) /\ Len(taps') = n + 1 /\ Len(taps') \in Nat
      /\ \A i \in 1..n : taps'[i] = taps[i]
      /\ taps'[n + 1] = tap
  BY <1>1, <1>2, <1>3, AppendProperties DEF TInv, TapsTyped
<1>5. \A b, i : i \in 1..n => (AnswerAt(taps', b, i) <=> AnswerAt(taps, b, i))
  BY <1>4 DEF AnswerAt
<1>6. \A i \in 1..Len(taps') : i \in 1..n \/ i = n + 1
  BY <1>4
<1>7. ASSUME NEW b, NEW k \in 1..n, First(taps, b, k)
      PROVE  AnswerIn(taps', b) = AnswerIn(taps, b)
  <2>1. k \in 1..Len(taps') /\ \A j \in 1..k - 1 : j \in 1..n
    BY <1>4
  <2>2. First(taps', b, k)
    BY <1>5, <1>7, <2>1 DEF First
  <2>3. AnswerIn(taps, b) = taps[k].choice
    BY <1>3, <1>7, FirstAnswerIs
  <2>4. AnswerIn(taps', b) = taps'[k].choice
    BY <1>4, <2>2, FirstAnswerIs
  <2> QED  BY <1>4, <2>3, <2>4
<1>8. ASSUME NEW b, \A i \in 1..n : ~AnswerAt(taps, b, i), ~AnswerAt(taps', b, n + 1)
      PROVE  AnswerIn(taps', b) = AnswerIn(taps, b)
  <2>1. AnswerIn(taps, b) = "none"
    BY <1>3, <1>8, FirstAnswerNone
  <2>2. \A i \in 1..Len(taps') : ~AnswerAt(taps', b, i)
    BY <1>5, <1>6, <1>8
  <2>3. AnswerIn(taps', b) = "none"
    BY <2>2, FirstAnswerNone
  <2> QED  BY <2>1, <2>3
<1>9. \A b : b # a => ~AnswerAt(taps', b, n + 1)
  BY <1>2, <1>4 DEF AnswerAt
<1>10. \A b : (\E k \in 1..n : First(taps, b, k)) \/ \A i \in 1..n : ~AnswerAt(taps, b, i)
  BY <1>3, AnsweredOrNot
<1>11. \A b \in Asks \ {a} : AnswerIn(taps', b) = AnswerIn(taps, b)
  BY <1>7, <1>8, <1>9, <1>10
<1>12. CASE (\A i \in 1..n : ~AnswerAt(taps, a, i)) /\ AnswerAt(taps', a, n + 1)
  <2>1. AnswerIn(taps, a) = "none"
    BY <1>3, <1>12, FirstAnswerNone
  <2>2. n + 1 \in 1..Len(taps') /\ \A j \in 1..(n + 1) - 1 : j \in 1..n
    BY <1>4
  <2>3. First(taps', a, n + 1)
    BY <1>5, <1>12, <2>2 DEF First
  <2>4. AnswerIn(taps', a) = taps'[n + 1].choice
    BY <1>4, <2>3, FirstAnswerIs
  <2>5. AnswerIn(taps', a) \in {"approve", "deny"}
    BY <1>2, <1>4, <2>4 DEF TapsOfAsks
  <2> QED  BY <1>11, <2>1, <2>5, AnswerOfTaps
<1>13. CASE ~((\A i \in 1..n : ~AnswerAt(taps, a, i)) /\ AnswerAt(taps', a, n + 1))
  <2>1. AnswerIn(taps', a) = AnswerIn(taps, a)
    BY <1>7, <1>8, <1>10, <1>13
  <2> QED  BY <1>11, <2>1, AnswerOfTaps
<1> QED  BY <1>12, <1>13

(***************************************************************************)
(* Every step of the approver on Telegram is one of the gate or changes    *)
(* nothing there.                                                          *)
(***************************************************************************)
LEMMA TelegramImplementsGate ==
  ASSUME PInv, TInv, approver = "telegram", approver' = "telegram",
         pc = [a \in Asks |-> "new"], pc' = [a \in Asks |-> "new"], [T!Next]_(T!vars)
  PROVE  EitherGate!Next \/ EitherUnchanged
<1> USE DEF T!asks, T!mailboxes, T!polls
<1> DEFINE h == {a \in Asks : tpc[a] # "new"}
           an == [a \in Asks |-> T!Answer(a)]
<1>1. heldBy = h /\ answers = an /\ verdicts = tverdict
  BY DEF heldBy, answers, verdicts
<1>2. heldBy' = h' /\ answers' = an' /\ verdicts' = tverdict'
  BY DEF heldBy, answers, verdicts
<1>3. tpc = [a \in Asks |-> tpc[a]]
  BY DEF PInv, PollersTyped
<1>4. UNCHANGED taps => an' = an
  BY DEF T!Answer, T!FirstAnswer, T!SelectInSeq
<1>5. \A a \in Asks : \A l : tpc[a] # "new" /\ l # "new" /\ tpc' = [tpc EXCEPT ![a] = l] => h' = h
  BY <1>3
<1>6. CASE UNCHANGED <<tpc, tverdict, taps>>
  BY <1>1, <1>2, <1>4, <1>6, EitherSame
<1>7. ASSUME NEW a \in Asks, NEW l, tpc[a] # "new", l # "new", tpc' = [tpc EXCEPT ![a] = l],
             UNCHANGED <<tverdict, taps>>
      PROVE  EitherUnchanged
  BY <1>1, <1>2, <1>4, <1>5, <1>7, EitherSame
<1>8. ASSUME NEW a \in Asks, tpc[a] \notin {"new", "returned"}, T!Return(a, "denied"), UNCHANGED taps
      PROVE  EitherGate!Next
  <2>1. tpc' = [tpc EXCEPT ![a] = "returned"] /\ tverdict' = [tverdict EXCEPT ![a] = "denied"]
    BY <1>8 DEF T!Return, T!Goto
  <2>2. a \in h /\ tverdict[a] = "none" /\ h' = h
    BY <1>5, <1>8, <2>1 DEF TInv, AsksRegistered
  <2> QED  BY <1>1, <1>2, <1>4, <1>8, <2>1, <2>2, EitherDeny
<1>9. ASSUME NEW a \in Asks, T!Register(a) PROVE EitherGate!Next
  <2>1. tpc[a] = "new" /\ tpc' = [tpc EXCEPT ![a] = "sending"] /\ UNCHANGED <<tverdict, taps>>
    BY <1>9 DEF T!Register, T!Goto
  <2>2. a \notin h /\ h' = h \cup {a}
    BY <1>3, <2>1
  <2> QED  BY <1>1, <1>2, <1>4, <2>1, <2>2, EitherHold
<1>10. ASSUME NEW a \in Asks, T!Send(a) PROVE EitherGate!Next \/ EitherUnchanged
  BY <1>7, <1>8, <1>10 DEF T!Send, T!Goto
<1>11. ASSUME NEW a \in Asks, T!StartPoller(a) \/ T!Wake(a) PROVE EitherUnchanged
  BY <1>7, <1>11 DEF T!StartPoller, T!Wake, T!Goto
<1>12. ASSUME NEW a \in Asks, T!Timeout(a) PROVE EitherGate!Next
  BY <1>8, <1>12 DEF T!Timeout
<1>13. ASSUME NEW a \in Asks, T!Take(a) PROVE EitherGate!Next \/ EitherUnchanged
  <2>1. tpc[a] = "woken" /\ UNCHANGED taps /\ T!Judge(a, Head(updates[a]))
    BY <1>13 DEF T!Take
  <2> QED  BY <1>7, <1>8, <2>1 DEF T!Judge, T!Goto
<1>14. ASSUME NEW a \in Asks, T!Reply(a) PROVE EitherGate!Next \/ EitherUnchanged
  <2>0. UNCHANGED taps
    BY <1>14 DEF T!Reply
  <2>1. CASE tpc[a] = "replying" /\ T!Goto(a, "waiting") /\ UNCHANGED <<tverdict, waiters>>
    BY <1>7, <2>0, <2>1 DEF T!Goto
  <2>2. CASE tpc[a] = "approving" /\ T!Return(a, "approved")
    <3>1. tpc' = [tpc EXCEPT ![a] = "returned"] /\ tverdict' = [tverdict EXCEPT ![a] = "approved"]
      BY <2>2 DEF T!Return, T!Goto
    <3>2. a \in h /\ tverdict[a] = "none" /\ h' = h
      BY <1>5, <2>2, <3>1 DEF TInv, AsksRegistered
    <3>3. an[a] = "approve"
      BY <2>2, AnsweredFirst DEF TInv, AnswersKnown
    <3> QED  BY <1>1, <1>2, <1>4, <2>0, <3>1, <3>2, <3>3, EitherGrant
  <2>3. CASE tpc[a] = "denying" /\ T!Return(a, "denied")
    BY <1>8, <2>0, <2>3
  <2> QED  BY <1>14, <2>1, <2>2, <2>3 DEF T!Reply
<1>15. ASSUME NEW a \in Asks, T!Expire(a) PROVE EitherUnchanged
  <2>1. UNCHANGED <<tpc, tverdict, taps>>
    BY <1>15 DEF T!Expire
  <2> QED  BY <1>1, <1>2, <1>4, <2>1, EitherSame
<1>16. ASSUME NEW a \in Asks, T!Tap(a) PROVE EitherGate!Next \/ EitherUnchanged
  <2>1. tpc[a] # "new" /\ UNCHANGED <<tpc, tverdict>>
    BY <1>16 DEF T!Tap
  <2>2. CASE \A b \in Asks : T!Answer(b)' = T!Answer(b)
    <3>1. an' = an
      BY <2>2
    <3> QED  BY <1>1, <1>2, <2>1, <3>1, EitherSame
  <2>3. CASE /\ T!Answer(a) = "none" /\ T!Answer(a)' \in {"approve", "deny"}
             /\ \A b \in Asks \ {a} : T!Answer(b)' = T!Answer(b)
    <3>1. PICK c \in {"approve", "deny"} : T!Answer(a)' = c
      BY <2>3
    <3>2. an[a] = "none" /\ an' = [an EXCEPT ![a] = c]
      BY <2>3, <3>1
    <3>3. a \in h /\ h' = h
      BY <2>1
    <3> QED  BY <1>1, <1>2, <2>1, <3>2, <3>3, EitherCast
  <2> QED  BY <1>16, <2>2, <2>3, TapAnswers
<1>17. ASSUME NEW p \in Pollers, T!PollerStep(p) PROVE EitherUnchanged
  <2>1. UNCHANGED <<tpc, tverdict, taps>>
    BY <1>17 DEF T!PollerStep, T!CheckWaiters, T!Fetch, T!FetchFails, T!Deliver, T!Sleep
  <2> QED  BY <1>1, <1>2, <1>4, <2>1, EitherSame
<1>18. CASE UNCHANGED T!vars
  <2>1. UNCHANGED <<tpc, tverdict, taps>>
    BY <1>18 DEF T!vars
  <2> QED  BY <1>1, <1>2, <1>4, <2>1, EitherSame
<1> QED  BY <1>9, <1>10, <1>11, <1>12, <1>13, <1>14, <1>15, <1>16, <1>17, <1>18 DEF T!Next, T!AskStep

(***************************************************************************)
(* Whichever approver was built, no call is let through except by the      *)
(* first answer of a person who may give it, over a socket or by a tap.    *)
(***************************************************************************)
THEOREM ApproversAreGates == SpecOfEither => EitherImplementsGate
<1>1. buildApprover => EitherGate!Init
  <2> SUFFICES ASSUME buildApprover PROVE EitherGate!Init
    OBVIOUS
  <2>1. Init /\ T!Init /\ approver \in {"local", "telegram"}
    BY DEF buildApprover
  <2>2. [a \in Asks |-> Answer(a)] = [a \in Asks |-> "none"]
    BY <2>1, NoAskAssumption DEF Init, Answer, Decides
  <2>3. [a \in Asks |-> T!Answer(a)] = [a \in Asks |-> "none"]
    <3>1. \A a, i : i \in 1..Len(taps) => ~AnswerAt(taps, a, i)
      BY <2>1 DEF T!Init
    <3> QED  BY <3>1, FirstAnswerNone, AnswerOfTaps
  <2>4. {a \in Asks : pc[a] # "new" \/ tpc[a] # "new"} = {}
    BY <2>1 DEF Init, T!Init
  <2>5. verdict = [a \in Asks |-> "none"] /\ tverdict = [a \in Asks |-> "none"]
    BY <2>1 DEF Init, T!Init
  <2> QED  BY <2>2, <2>3, <2>4, <2>5 DEF EitherGate!Init
<1>2. IInv /\ IInv' /\ PInv /\ TInv /\ OneApprover /\ OneApprover' /\ [NextOfEither]_either
        => [EitherGate!Next]_(EitherGate!vars)
  <2> SUFFICES ASSUME IInv, IInv', PInv, TInv, OneApprover, OneApprover', [NextOfEither]_either
               PROVE  EitherGate!Next \/ EitherUnchanged
    BY DEF EitherUnchanged
  <2>1. approver' = approver /\ [Next]_vars /\ [T!Next]_(T!vars)
    BY DEF NextOfEither, either, telegram, vars, T!vars, T!asks, T!mailboxes, T!polls
  <2>2. CASE approver = "local"
    <3>1. CASE \E a \in Asks : Hold(a) \/ AskStep(a)
      BY <3>1, AskImplementsGate, <2>1, <2>2, LocalGateIsEither DEF OneApprover
    <3>2. CASE \E c \in Conns : ConnStep(c) \/ \E a \in Asks, v \in Choices : Request(c, a, v)
      BY <3>2, ConnImplementsGate, <2>1, <2>2, LocalGateIsEither DEF OneApprover
    <3>3. CASE UNCHANGED vars
      <4>1. GateUnchanged
        BY <3>3 DEF vars, GateUnchanged, Gate!vars, Answer, Decides
      <4> QED  BY <4>1, <2>1, <2>2, LocalGateIsEither DEF OneApprover
    <3> QED  BY <2>1, <3>1, <3>2, <3>3 DEF Next
  <2>3. CASE approver = "telegram"
    BY <2>1, <2>3, TelegramImplementsGate DEF OneApprover
  <2> QED  BY <2>2, <2>3 DEF OneApprover
<1>3. SpecOfEither => []IInv
  BY EitherIsEach, DecisionsTracked, PTL
<1> QED  BY <1>1, <1>2, <1>3, TapsTracked, OneApproverBuilt, PTL
         DEF SpecOfEither, EitherImplementsGate, EitherGate!Spec

=============================================================================
