---------------------------- MODULE Completeness ----------------------------
(***************************************************************************)
(* AssessRuns of internal/audit/completeness.go: the verdict on the rows   *)
(* one run left in a verified trail, as the code computes it in one pass,  *)
(* and the conditions the design (docs/design/n11756-audit-schema.md) says *)
(* a complete stream meets.                                                *)
(*                                                                         *)
(* A row says what it is: a run event, a decision or an observation; the   *)
(* action it belongs to; its run_seq; its signature, 0 when it has none;   *)
(* the run_count and run_head a close commits to; and when it was written, *)
(* in heartbeats of 30 seconds.  That a row passes validateAuditEvent is   *)
(* its field valid.                                                        *)
(***************************************************************************)
EXTENDS Integers, Sequences, FiniteSets, SequencesExt

CONSTANT NoAction

RunEvents == {"open", "heartbeat", "close"}
Methods == {"method-allow", "method-deny", "hide"}
Terminals == {"not_forwarded", "response_observed", "outcome_unknown"}
Late == "late_response_observed"
Observations == Terminals \cup {Late}
IsDecision(what) == what \notin RunEvents \cup Observations

NoActionState ==
  [dispatch |-> FALSE, terminal |-> FALSE, unknown |-> FALSE, decisions |-> 0,
   late |-> FALSE]

NoRun ==
  [count |-> 0, head |-> 0, open |-> FALSE, closed |-> FALSE, broken |-> FALSE,
   future |-> FALSE, latest |-> 0, actions |-> << >>]

-----------------------------------------------------------------------------
ActionState(run, a) == IF a \in DOMAIN run.actions THEN run.actions[a] ELSE NoActionState

\* The structure every row of a run has to fit.
Misplaced(run, row) ==
  \/ row.sig = 0 \/ ~row.valid \/ run.closed \/ row.seq # run.count + 1
  \/ run.count = 0 /\ row.what # "open"

\* Fault: a sound close clears what was wrong before it.
RunEventClears(run, row, now) ==
  IF row.what = "close"
    THEN [run EXCEPT !.closed = TRUE,
                     !.broken = ~run.open \/ row.count # run.count \/ row.head # run.head]
    ELSE [run EXCEPT !.open = @ \/ row.what = "open",
                     !.broken = @ \/ (row.what = "open") = run.open \/ run.closed,
                     !.future = @ \/ row.at > now + 1,
                     !.latest = row.at]

RunEvent(run, row, now) ==
  IF row.what = "close"
    THEN [run EXCEPT !.closed = TRUE,
                     !.broken = @ \/ ~run.open \/ row.count # run.count
                                  \/ row.head # run.head]
    ELSE [run EXCEPT !.open = @ \/ row.what = "open",
                     !.broken = @ \/ (row.what = "open") = run.open \/ run.closed,
                     !.future = @ \/ row.at > now + 1,
                     !.latest = row.at]

ActionRow(run, row) ==
  LET a == ActionState(run, row.action)
      dispatch == row.what = "dispatch"
      wrong ==
        CASE IsDecision(row.what) -> a.terminal \/ (dispatch /\ a.dispatch)
          [] row.what = Late -> ~a.unknown \/ a.late
          [] OTHER -> \/ a.decisions = 0 \/ a.terminal
                      \/ (row.what = "not_forwarded") = a.dispatch
      next ==
        CASE IsDecision(row.what) ->
               [a EXCEPT !.decisions = @ + 1, !.dispatch = @ \/ dispatch]
          [] row.what = Late -> [a EXCEPT !.late = TRUE]
          [] OTHER -> [a EXCEPT !.terminal = TRUE,
                                !.unknown = row.what = "outcome_unknown"]
  IN  [run EXCEPT !.broken = @ \/ wrong,
                  !.actions = [x \in DOMAIN run.actions \cup {row.action} |->
                                 IF x = row.action THEN next ELSE run.actions[x]]]

Assess(run, row, now) ==
  LET placed == [run EXCEPT !.broken = @ \/ Misplaced(run, row)]
      read == IF row.what \in RunEvents THEN RunEvent(placed, row, now)
              ELSE IF row.action # NoAction THEN ActionRow(placed, row)
              ELSE [placed EXCEPT !.broken = @ \/ row.what \notin Methods]
  IN  [read EXCEPT !.count = @ + 1, !.head = row.sig]

\* Fault: only a dispatched action needs a terminal observation.
IncompleteIfDispatched(run) ==
  \E a \in DOMAIN run.actions : run.actions[a].dispatch /\ ~run.actions[a].terminal

Incomplete(run) == \E a \in DOMAIN run.actions : ~run.actions[a].terminal

\* The verdict on the rows of one run, in a trail that is exclusively v2.
Verdict(rows, checkpointed, now) ==
  LET run == FoldLeft(LAMBDA r, row : Assess(r, row, now), NoRun, rows)
  IN  IF ~checkpointed \/ \A i \in DOMAIN rows : rows[i].sig = 0 THEN "UNASSESSABLE"
      ELSE IF ~run.open \/ run.broken THEN "BROKEN"
      ELSE IF run.future THEN "UNASSESSABLE"
      ELSE IF run.closed THEN IF Incomplete(run) THEN "INCOMPLETE" ELSE "LIMITED"
      ELSE IF now - run.latest >= 3 THEN "INCOMPLETE" ELSE "IN_PROGRESS"

-----------------------------------------------------------------------------
(***************************************************************************)
(* The design's words for the best verdict, over the whole stream at once. *)
(***************************************************************************)
At(rows, what) == {i \in DOMAIN rows : rows[i].what = what}
Of(rows, a) == {i \in DOMAIN rows : rows[i].action = a /\ rows[i].what \notin RunEvents}
ActionsIn(rows) == {rows[i].action : i \in DOMAIN rows} \ {NoAction}

Numbered(rows) ==
  \A i \in DOMAIN rows : rows[i].seq = i /\ rows[i].sig # 0 /\ rows[i].valid

Enclosed(rows) ==
  LET n == Len(rows) IN
  /\ n > 1 /\ At(rows, "open") = {1} /\ At(rows, "close") = {n}
  /\ rows[n].count = n - 1 /\ rows[n].head = rows[n-1].sig

Accounted(rows) ==
  \A i \in Of(rows, NoAction) : rows[i].what \in Methods

\* One terminal observation, after every decision of the action and fitting
\* whether it was dispatched; a late response at most once, after an unknown
\* outcome.
ActionComplete(rows, a) ==
  LET mine == Of(rows, a)
      decisions == {i \in mine : IsDecision(rows[i].what)}
      dispatches == mine \cap At(rows, "dispatch")
      late == mine \cap At(rows, Late)
  IN  \E t \in mine :
        /\ {i \in mine : rows[i].what \in Terminals} = {t}
        /\ decisions # {} /\ \A i \in decisions : i < t
        /\ Cardinality(dispatches) = IF rows[t].what = "not_forwarded" THEN 0 ELSE 1
        /\ Cardinality(late) <= 1
        /\ \A i \in late : i > t /\ rows[t].what = "outcome_unknown"

CompleteStream(rows) ==
  /\ Numbered(rows) /\ Enclosed(rows) /\ Accounted(rows)
  /\ \A a \in ActionsIn(rows) : ActionComplete(rows, a)

=============================================================================
