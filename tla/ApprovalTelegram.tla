-------------------------- MODULE ApprovalTelegram --------------------------
(***************************************************************************)
(* The approver of internal/approval/telegram.go: every Ask registers a    *)
(* waiter, posts a message and waits for a wakeup or its deadline; one     *)
(* poller goroutine, started by the first Ask and stopped when no waiter   *)
(* is left, fetches the taps on the buttons and hands each to its waiter.  *)
(* Each lock region, channel operation and HTTP exchange is one action.    *)
(*                                                                         *)
(* A call stands for its nonce: nonces are 26 random letters and digits    *)
(* and two calls never share one here.  Updates that are no tap on one of  *)
(* this process's buttons are skipped by the code and left out.            *)
(***************************************************************************)
EXTENDS Naturals, Sequences, FiniteSets, SequencesExt

CONSTANTS
  Asks,      \* the calls held in this process
  Pollers,   \* goroutines that may run pollUpdates
  MaxTaps    \* taps made in all

VARIABLES
  pc,        \* of each Ask: "new", "sending", "starting", "waiting", "woken",
             \* "replying", "approving", "denying" or "returned"
  expired,   \* the Asks whose deadline has passed
  verdict,   \* what each Ask returned: "none", "approved" or "denied"
  reported,  \* of each Ask: the taps it handed to OnRejectedTap
  waiters,   \* the registered Asks
  updates,   \* of each waiter: the taps delivered to it and not taken
  ready,     \* the waiters whose wakeup channel, of capacity one, is full
  polling,   \* the approver's flag that a poller runs
  poller,    \* of each goroutine: "off", "checking", "fetching" or "delivering"
  batch,     \* the taps it fetched and has not delivered
  offset,    \* the next tap to fetch
  taps       \* the taps Telegram received, in order

asks == <<pc, expired, verdict, reported>>
mailboxes == <<updates, ready>>
polls == <<polling, poller, batch, offset>>
vars == <<asks, waiters, mailboxes, polls, taps>>

\* Whose tap it is: a listed approver's in the approval chat, somebody else's
\* there, or one in another chat.  Nobody reads what a rejected tap chose.
Taps(a) ==
  {[ask |-> a, choice |-> c, by |-> "approver"] : c \in {"approve", "deny"}} \cup
  {[ask |-> a, choice |-> "approve", by |-> b] : b \in {"stranger", "other-chat"}}

Init ==
  /\ pc = [a \in Asks |-> "new"]
  /\ expired = {}
  /\ verdict = [a \in Asks |-> "none"]
  /\ reported = [a \in Asks |-> 0]
  /\ waiters = {}
  /\ updates = [a \in Asks |-> <<>>]
  /\ ready = {}
  /\ polling = FALSE
  /\ poller = [p \in Pollers |-> "off"]
  /\ batch = [p \in Pollers |-> <<>>]
  /\ offset = 1
  /\ taps = <<>>

Goto(a, l) == pc' = [pc EXCEPT ![a] = l]

Return(a, v) ==
  /\ Goto(a, "returned")
  /\ verdict' = [verdict EXCEPT ![a] = v]
  /\ waiters' = waiters \ {a}

-----------------------------------------------------------------------------
Register(a) ==
  /\ pc[a] = "new"
  /\ Goto(a, "sending")
  /\ waiters' = waiters \cup {a}
  /\ UNCHANGED <<expired, verdict, reported, mailboxes, polls, taps>>

\* A send that fails may have posted the message all the same.
Send(a) ==
  /\ pc[a] = "sending"
  /\ \/ Goto(a, "starting") /\ UNCHANGED <<verdict, waiters>>
     \/ Return(a, "denied")
  /\ UNCHANGED <<expired, reported, mailboxes, polls, taps>>

\* Fault: every Ask starts a poller of its own.
StartPollerAlways(a) ==
  /\ pc[a] = "starting"
  /\ Goto(a, "waiting")
  /\ polling' = TRUE
  /\ \E p \in Pollers : poller[p] = "off" /\ poller' = [poller EXCEPT ![p] = "checking"]
  /\ UNCHANGED <<expired, verdict, reported, waiters, mailboxes, batch, offset, taps>>

StartPoller(a) ==
  /\ pc[a] = "starting"
  /\ Goto(a, "waiting")
  /\ \/ polling /\ UNCHANGED <<polling, poller>>
     \/ /\ ~polling
        /\ polling' = TRUE
        /\ \E p \in Pollers : poller[p] = "off"
                              /\ poller' = [poller EXCEPT ![p] = "checking"]
  /\ UNCHANGED <<expired, verdict, reported, waiters, mailboxes, batch, offset, taps>>

Expire(a) ==
  /\ pc[a] \notin {"new", "sending", "returned"} /\ a \notin expired
  /\ expired' = expired \cup {a}
  /\ UNCHANGED <<pc, verdict, reported, waiters, mailboxes, polls, taps>>

Timeout(a) ==
  /\ pc[a] = "waiting" /\ a \in expired
  /\ Return(a, "denied")
  /\ UNCHANGED <<expired, reported, mailboxes, polls, taps>>

\* The wakeup is received before the lock is taken, so that the poller may
\* wake this Ask again before it looks.
Wake(a) ==
  /\ pc[a] = "waiting" /\ a \in ready
  /\ Goto(a, "woken")
  /\ ready' = ready \ {a}
  /\ UNCHANGED <<expired, verdict, reported, waiters, updates, polls, taps>>

\* The deadline is checked first, then the chat and the sender.
Judge(a, tap) ==
  \/ /\ a \in expired
     /\ Return(a, "denied")
     /\ UNCHANGED reported
  \/ /\ a \notin expired /\ tap.by # "approver"
     /\ reported' = [reported EXCEPT ![a] = @ + 1]
     /\ Goto(a, "replying")
     /\ UNCHANGED <<verdict, waiters>>
  \/ /\ a \notin expired /\ tap.by = "approver"
     /\ Goto(a, IF tap.choice = "approve" THEN "approving" ELSE "denying")
     /\ UNCHANGED <<verdict, reported, waiters>>

\* Fault: the latest tap is taken for the answer.
TakeLatest(a) ==
  /\ pc[a] = "woken"
  /\ Judge(a, Last(updates[a]))
  /\ updates' = [updates EXCEPT ![a] = Front(@)]
  /\ ready' = IF Len(updates[a]) > 1 THEN ready \cup {a} ELSE ready
  /\ UNCHANGED <<expired, polls, taps>>

\* One tap is taken, and the wakeup passed on if more are left.
Take(a) ==
  /\ pc[a] = "woken"
  /\ Judge(a, Head(updates[a]))
  /\ updates' = [updates EXCEPT ![a] = Tail(@)]
  /\ ready' = IF Len(updates[a]) > 1 THEN ready \cup {a} ELSE ready
  /\ UNCHANGED <<expired, polls, taps>>

\* The answer to the tap is sent, or fails; nothing depends on it.
Reply(a) ==
  /\ \/ pc[a] = "replying" /\ Goto(a, "waiting") /\ UNCHANGED <<verdict, waiters>>
     \/ pc[a] = "approving" /\ Return(a, "approved")
     \/ pc[a] = "denying" /\ Return(a, "denied")
  /\ UNCHANGED <<expired, reported, mailboxes, polls, taps>>

-----------------------------------------------------------------------------
\* Fault: the poller stops without saying so.
CheckWaitersSilently(p) ==
  /\ poller[p] = "checking"
  /\ poller' = [poller EXCEPT ![p] = IF waiters = {} THEN "off" ELSE "fetching"]
  /\ UNCHANGED <<asks, waiters, mailboxes, polling, batch, offset, taps>>

\* The poller stops under the lock, so that no Ask finds it running and is
\* left without one.
CheckWaiters(p) ==
  /\ poller[p] = "checking"
  /\ \/ /\ waiters = {}
        /\ polling' = FALSE
        /\ poller' = [poller EXCEPT ![p] = "off"]
     \/ /\ waiters # {}
        /\ poller' = [poller EXCEPT ![p] = "fetching"]
        /\ UNCHANGED polling
  /\ UNCHANGED <<asks, waiters, mailboxes, batch, offset, taps>>

\* Fault: what was fetched is not confirmed.
FetchAgain(p) ==
  /\ poller[p] = "fetching"
  /\ batch' = [batch EXCEPT ![p] = taps]
  /\ poller' = [poller EXCEPT ![p] = "delivering"]
  /\ UNCHANGED <<asks, waiters, mailboxes, polling, offset, taps>>

Fetch(p) ==
  /\ poller[p] = "fetching"
  /\ batch' = [batch EXCEPT ![p] = SubSeq(taps, offset, Len(taps))]
  /\ offset' = Len(taps) + 1
  /\ poller' = [poller EXCEPT ![p] = "delivering"]
  /\ UNCHANGED <<asks, waiters, mailboxes, polling, taps>>

FetchFails(p) ==
  /\ poller[p] = "fetching"
  /\ poller' = [poller EXCEPT ![p] = "checking"]
  /\ UNCHANGED <<asks, waiters, mailboxes, polling, batch, offset, taps>>

Deliver(p) ==
  /\ poller[p] = "delivering" /\ batch[p] # <<>>
  /\ LET tap == Head(batch[p]) IN
     \/ /\ tap.ask \in waiters
        /\ updates' = [updates EXCEPT ![tap.ask] = Append(@, tap)]
        /\ ready' = ready \cup {tap.ask}
     \/ tap.ask \notin waiters /\ UNCHANGED mailboxes
  /\ batch' = [batch EXCEPT ![p] = Tail(@)]
  /\ UNCHANGED <<asks, waiters, polling, poller, offset, taps>>

Sleep(p) ==
  /\ poller[p] = "delivering" /\ batch[p] = <<>>
  /\ poller' = [poller EXCEPT ![p] = "checking"]
  /\ UNCHANGED <<asks, waiters, mailboxes, polling, batch, offset, taps>>

\* The message may be in the chat as soon as its post is under way, and its
\* buttons stay there.
Tap(a) ==
  /\ pc[a] # "new" /\ Len(taps) < MaxTaps
  /\ \E tap \in Taps(a) : taps' = Append(taps, tap)
  /\ UNCHANGED <<asks, waiters, mailboxes, polls>>

AskStep(a) == Send(a) \/ StartPoller(a) \/ Timeout(a) \/ Wake(a) \/ Take(a) \/ Reply(a)
PollerStep(p) == CheckWaiters(p) \/ Fetch(p) \/ FetchFails(p) \/ Deliver(p) \/ Sleep(p)

Next ==
  \/ \E a \in Asks : Register(a) \/ AskStep(a) \/ Expire(a) \/ Tap(a)
  \/ \E p \in Pollers : PollerStep(p)

Spec == Init /\ [][Next]_vars

\* Goroutines run, and a fetch tried again and again succeeds once.  No
\* deadline need ever pass.
FairSpec ==
  /\ Spec
  /\ \A a \in Asks : WF_vars(AskStep(a))
  /\ \A p \in Pollers : WF_vars(PollerStep(p)) /\ SF_vars(Fetch(p))

-----------------------------------------------------------------------------
(***************************************************************************)
(* One goroutine owns the offset, and none is missing while a call waits,  *)
(* whichever Ask starts as the last one returns.                           *)
(***************************************************************************)
OnePoller ==
  /\ Cardinality({p \in Pollers : poller[p] # "off"}) = IF polling THEN 1 ELSE 0
  /\ \A a \in waiters : pc[a] \notin {"sending", "starting"} => polling

\* The first tap of a listed approver on the call's buttons; 0: none.
FirstAnswer(a) == SelectInSeq(taps, LAMBDA t : t.ask = a /\ t.by = "approver")

(***************************************************************************)
(* A human's approval comes with a report of every tap before it that was  *)
(* somebody else's, each reported once, though fetches fail and repeat.    *)
(***************************************************************************)
RejectedTapsReported ==
  \A a \in Asks : verdict[a] = "approved" =>
    reported[a] = Cardinality({i \in 1..FirstAnswer(a) - 1 : taps[i].ask = a})

(***************************************************************************)
(* An approver's tap decides: no wakeup, fetch or poller is lost on the    *)
(* way, even if the deadline never passes.                                 *)
(***************************************************************************)
AnswerDecides ==
  \A a \in Asks : FirstAnswer(a) # 0 ~> pc[a] = "returned"

(***************************************************************************)
(* The approver implements the gate: the answer to a call is the first tap *)
(* Telegram received on its buttons from an approver in the chat.          *)
(***************************************************************************)
Answer(a) ==
  IF FirstAnswer(a) = 0 THEN "none" ELSE taps[FirstAnswer(a)].choice
=============================================================================
