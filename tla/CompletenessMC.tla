--------------------------- MODULE CompletenessMC ---------------------------
(***************************************************************************)
(* Every stream of up to MaxRows rows of one run: misplaced or repeated    *)
(* rows, and at most one row that is damaged in itself by a wrong number,  *)
(* a missing signature, an invalid field, or a close that commits to the   *)
(* wrong count or head.  A broken stream grows by one more row only.       *)
(***************************************************************************)
EXTENDS Completeness

CONSTANTS Actions, MaxRows, Now, Times

VARIABLES rows, damaged

vars == <<rows, damaged>>

Decided == {"deny", "dispatch"} \cup Terminals \cup {Late}

\* A row that continues the stream as a sound writer would, and the ways in
\* which it can be damaged.
Sound(what, action, at) ==
  LET n == Len(rows) IN
  [what |-> what, action |-> action, seq |-> n + 1, sig |-> n + 1, count |-> n,
   head |-> IF n = 0 THEN 0 ELSE rows[n].sig, at |-> at, valid |-> TRUE]

Damaged(row) ==
  {[row EXCEPT !.seq = @ + 1], [row EXCEPT !.sig = 0], [row EXCEPT !.valid = FALSE]}
  \cup (IF row.what = "close"
          THEN {[row EXCEPT !.count = @ + 1], [row EXCEPT !.head = @ + 1]} ELSE {})

NextRows ==
  {Sound(what, NoAction, 0) : what \in {"close", "deny", "hide"}}
  \cup {Sound(what, NoAction, at) : what \in {"open", "heartbeat"}, at \in Times}
  \cup {Sound(what, a, 0) : what \in Decided, a \in Actions}

Init == rows = <<>> /\ damaged = FALSE

Broken(r) == Verdict(r, TRUE, Now) = "BROKEN"

Next ==
  /\ Len(rows) < MaxRows
  /\ Len(rows) > 1 => ~Broken(Front(rows))
  /\ \E row \in NextRows :
       \/ rows' = Append(rows, row) /\ UNCHANGED damaged
       \/ ~damaged /\ damaged' = TRUE /\ \E d \in Damaged(row) : rows' = Append(rows, d)

Spec == Init /\ [][Next]_vars

(***************************************************************************)
(* The one-pass assessment gives its best verdict exactly to the streams   *)
(* the design calls complete, on a checkpointed trail whose heartbeats are *)
(* not in the future.                                                      *)
(***************************************************************************)
LimitedMeansComplete == \A checkpointed \in BOOLEAN :
  Verdict(rows, checkpointed, Now) = "LIMITED" <=>
    /\ checkpointed /\ CompleteStream(rows)
    /\ \A i \in DOMAIN rows : rows[i].what \in {"open", "heartbeat"} => rows[i].at <= Now + 1

(***************************************************************************)
(* A broken stream stays broken whatever rows are appended to it: a writer *)
(* cannot repair the record of a run afterwards.                           *)
(***************************************************************************)
BrokenForGood ==
  [][Broken(rows) => Broken(rows')]_vars

=============================================================================
