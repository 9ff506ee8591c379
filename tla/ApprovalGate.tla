---------------------------- MODULE ApprovalGate ----------------------------
(***************************************************************************)
(* What an approver promises (internal/approval/approval.go, Approver): a  *)
(* held call is let through only by an affirmative answer of a person who  *)
(* may give it, the first answer counts, and any other end denies.         *)
(***************************************************************************)
CONSTANT Asks    \* the calls that may be held

VARIABLES
  held,       \* the calls whose Ask has begun
  answer,     \* the first authorised answer to each: "none", "approve", "deny"
  verdict     \* what Ask returned: "none", "approved" or "denied"

vars == <<held, answer, verdict>>

Init ==
  /\ held = {}
  /\ answer = [a \in Asks |-> "none"]
  /\ verdict = [a \in Asks |-> "none"]

Hold(a) ==
  /\ a \notin held
  /\ held' = held \cup {a}
  /\ UNCHANGED <<answer, verdict>>

\* An answer to a call already denied changes nothing that was returned.
Cast(a, choice) ==
  /\ a \in held /\ answer[a] = "none"
  /\ answer' = [answer EXCEPT ![a] = choice]
  /\ UNCHANGED <<held, verdict>>

Grant(a) ==
  /\ a \in held /\ verdict[a] = "none" /\ answer[a] = "approve"
  /\ verdict' = [verdict EXCEPT ![a] = "approved"]
  /\ UNCHANGED <<held, answer>>

Deny(a) ==
  /\ a \in held /\ verdict[a] = "none"
  /\ verdict' = [verdict EXCEPT ![a] = "denied"]
  /\ UNCHANGED <<held, answer>>

Next ==
  \E a \in Asks :
    \/ Hold(a) \/ Grant(a) \/ Deny(a)
    \/ \E choice \in {"approve", "deny"} : Cast(a, choice)

Spec == Init /\ [][Next]_vars
=============================================================================
