----------------------------- MODULE Approvals -----------------------------
(***************************************************************************)
(* The approver a proxy or a gateway runs with.  buildApprover             *)
(* (cmd/nockguard/main.go) chooses it once, from the environment: the      *)
(* local socket of ApprovalLocal, or the bot of ApprovalTelegram.  The     *)
(* sessions hold their calls through the interface and do not know which   *)
(* of the two they ask, so both must be the same gate.  Without an         *)
(* approver no call is held at all (CallGate).                             *)
(***************************************************************************)
EXTENDS ApprovalLocal, Naturals

CONSTANTS Pollers, MaxTaps    \* of ApprovalTelegram

ASSUME PollersAssumption == \E p, q \in Pollers : p # q
ASSUME MaxTapsAssumption == MaxTaps \in Nat

VARIABLES
  approver,   \* what buildApprover returned: "local" or "telegram"
  tpc, expired, tverdict, reported, waiters, updates, ready, polling, poller,
  batch, offset, taps

T == INSTANCE ApprovalTelegram WITH pc <- tpc, verdict <- tverdict

telegram == <<tpc, expired, tverdict, reported, waiters, updates, ready, polling,
              poller, batch, offset, taps>>
either == <<approver, vars, telegram>>

buildApprover == approver \in {"local", "telegram"} /\ Init /\ T!Init

NextOfEither ==
  /\ UNCHANGED approver
  /\ \/ approver = "local" /\ Next /\ UNCHANGED telegram
     \/ approver = "telegram" /\ T!Next /\ UNCHANGED vars

\* What each approver assumes of its goroutines, its timers and its network.
SpecOfEither ==
  /\ buildApprover /\ [][NextOfEither]_either
  /\ \A a \in Asks : WF_vars(AskStep(a)) /\ WF_telegram(T!AskStep(a))
  /\ \A c \in Conns : WF_vars(ConnStep(c))
  /\ \A p \in Pollers : WF_telegram(T!PollerStep(p)) /\ SF_telegram(T!Fetch(p))

-----------------------------------------------------------------------------
(***************************************************************************)
(* Whichever approver was built, the gate is the one the sessions rely on: *)
(* the first answer of a person who may give it lets a call through or     *)
(* not, and every other end denies it.                                     *)
(***************************************************************************)
EitherGate == INSTANCE ApprovalGate WITH
  held <- {a \in Asks : pc[a] # "new" \/ tpc[a] # "new"},
  answer <- IF approver = "local" THEN [a \in Asks |-> Answer(a)]
                                  ELSE [a \in Asks |-> T!Answer(a)],
  verdict <- IF approver = "local" THEN verdict ELSE tverdict

EitherImplementsGate == EitherGate!Spec

(***************************************************************************)
(* One goroutine polls Telegram while a call waits, whichever Ask starts   *)
(* as the last one returns.                                                *)
(***************************************************************************)
OnePoller == T!OnePoller

(***************************************************************************)
(* An approval through Telegram comes with a report of every tap of        *)
(* somebody else before it, each reported once.                            *)
(***************************************************************************)
RejectedTapsReported == T!RejectedTapsReported

(***************************************************************************)
(* An approver's tap decides, even if the deadline never passes.           *)
(***************************************************************************)
AnswerDecides == T!AnswerDecides

=============================================================================
