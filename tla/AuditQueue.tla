----------------------------- MODULE AuditQueue -----------------------------
(***************************************************************************)
(* The request-order audit queue of internal/proxy/stdio.go, shared by the *)
(* stdio proxy and the HTTP listener.  Every request reserves a sequence   *)
(* number, queues its rows under it and resolves it once; the queue writes *)
(* the rows of resolved sequences in request order, or at once when the    *)
(* sequence belongs to a paired action, and stamps a row with the card the *)
(* session had claimed as of its request.  The operations here hold        *)
(* auditMutex from start to end; the modules that extend this one say who  *)
(* calls them.                                                             *)
(*                                                                         *)
(* A row names its sequence, what it says, and its card: 0 when the tool   *)
(* call named none.  The writer below the queue is written, the rows that  *)
(* reached it, and sink, whether it still accepts them.                    *)
(***************************************************************************)
EXTENDS Naturals, Sequences, FiniteSets, FiniteSetsExt, SequencesExt

CONSTANTS
  SinkMayFail,   \* a write may fail, which latches a required writer
  MaxSeq         \* bound on reserved sequences

ASSUME QueueAssumption == SinkMayFail \in BOOLEAN /\ MaxSeq \in Nat \ {0}

VARIABLES
  auditSeq,       \* next sequence to reserve
  auditNext,      \* next sequence to write
  auditTodo,      \* sequence -> its queued rows
  auditResolved,  \* ranges of resolved sequences not yet consumed
  auditPending,   \* reserved sequences whose lifecycle is unsettled
  auditFailed,    \* action sequences with a row the writer refused
  cardAfterSeq,   \* sequence -> card state after its commit
  actionIDs,      \* sequences that own an action not yet resolved
  written,        \* rows the writer accepted, in order
  sink            \* "open", "failed" (latched) or "closed" (the run is over)

queue == <<auditSeq, auditNext, auditTodo, auditResolved, auditPending,
           cardAfterSeq, actionIDs>>
output == <<written, sink, auditFailed>>
queueVars == <<queue, output>>

QueueInit ==
  /\ auditSeq = 0 /\ auditNext = 0
  /\ auditTodo = << >> /\ auditResolved = {}
  /\ auditPending = {} /\ auditFailed = {}
  /\ cardAfterSeq = << >> /\ actionIDs = {}
  /\ written = <<>> /\ sink = "open"

Without(f, S) == [x \in DOMAIN f \ S |-> f[x]]

-----------------------------------------------------------------------------
\* auditSequenceResolvedLocked.  The ranges are kept sorted in the code; here
\* they are a set, and the first is the one that starts first.
Resolved(ranges, s) == \E r \in ranges : r.start <= s /\ s <= r.end

\* markAuditSequenceResolvedLocked: s joins the ranges it touches.
Mark(ranges, s) ==
  LET touching == {r \in ranges : s <= r.end + 1 /\ r.start <= s + 1}
      starts == {s} \cup {r.start : r \in touching}
      ends == {s} \cup {r.end : r \in touching}
  IN  (ranges \ touching) \cup {[start |-> Min(starts), end |-> Max(ends)]}

\* The sequence the frontier stops at: the first one not resolved.
Frontier(ranges, n) ==
  LET at == {r \in ranges : r.start <= n /\ n <= r.end}
  IN  IF at = {} THEN n ELSE (CHOOSE r \in at : TRUE).end + 1

\* Fault: passed ranges are never dropped.
ConsumeNone(ranges, n) == ranges

\* consumeAuditSequenceLocked for every sequence the frontier passes: only
\* the first range is ever consumed, and only from its start.
Consume(ranges, n) == {r \in ranges : r.start # n \/ \E q \in ranges : q.start < n}

\* The highest committed card state at or before s; 0 when there is none.
CardAt(cards, s) ==
  LET earlier == {k \in DOMAIN cards : k <= s}
  IN  IF earlier = {} THEN 0 ELSE cards[Max(earlier)]

Stamped(rows, card) ==
  [i \in DOMAIN rows |->
     IF rows[i].card = 0 THEN [rows[i] EXCEPT !.card = card] ELSE rows[i]]

\* Faults: the history is never pruned, or pruned to its latest state.
PruneNone(cards, unsettled) == cards

PruneToLatest(cards, unsettled) ==
  [k \in {x \in DOMAIN cards : \A y \in DOMAIN cards : y <= x} |-> cards[k]]

\* pruneCardHistoryLocked: the latest state stays, and for every sequence
\* that may still have rows the state it would be stamped with.
Prune(cards, unsettled) ==
  LET latest == {Max(DOMAIN cards)}
      before(s) == {k \in DOMAIN cards : k <= s}
      kept == latest \cup {Max(before(s)) : s \in {u \in unsettled : before(u) # {}}}
  IN  IF Cardinality(DOMAIN cards) <= 1 THEN cards
      ELSE [k \in kept |-> cards[k]]

-----------------------------------------------------------------------------
(***************************************************************************)
(* recordAudit for a run of rows.  A latched or closed writer refuses them *)
(* all; an open one may fail at any of them, and then refuses the rest.    *)
(* The queue remembers the action sequences that had a row refused.        *)
(***************************************************************************)
Write(rows) ==
  \E k \in 0..Len(rows) :
    /\ k < Len(rows) => sink # "open" \/ SinkMayFail
    /\ sink # "open" => k = 0
    /\ written' = written \o SubSeq(rows, 1, k)
    /\ sink' = IF sink = "open" /\ k < Len(rows) THEN "failed" ELSE sink
    /\ auditFailed' = auditFailed \cup
         {rows[i].seq : i \in {j \in (k+1)..Len(rows) : rows[j].action}}

\* audit: one row past the queue, whose refusal is noticed by its caller and
\* not remembered.
WriteDirect(row) ==
  /\ \/ sink = "open" /\ written' = Append(written, row) /\ UNCHANGED sink
     \/ /\ sink # "open" \/ SinkMayFail
        /\ sink' = IF sink = "open" THEN "failed" ELSE sink
        /\ UNCHANGED written
  /\ UNCHANGED auditFailed

\* reserveAuditSequence
Reserve ==
  /\ auditSeq < MaxSeq
  /\ auditSeq' = auditSeq + 1
  /\ auditPending' = auditPending \cup {auditSeq}

\* queueActionID
QueueActionID(s) == actionIDs' = actionIDs \cup {s}

\* appendAudit: rows join those already queued under s.
Queued(s, rows) ==
  [x \in DOMAIN auditTodo \cup {s} |->
     IF x # s THEN auditTodo[x]
     ELSE IF s \in DOMAIN auditTodo THEN auditTodo[s] \o rows ELSE rows]

AppendAudit(s, rows) == auditTodo' = Queued(s, rows)

RowsOf(todo, cards, s) ==
  IF s \in DOMAIN todo THEN Stamped(todo[s], CardAt(cards, s)) ELSE <<>>

(***************************************************************************)
(* flushAuditsLocked and advanceAuditFrontierLocked, once marked are the   *)
(* resolved ranges, todo the queued rows, pending the unsettled sequences, *)
(* ids the unresolved actions, cards the card history and first the rows   *)
(* already taken for writing.  The history is pruned after every sequence  *)
(* passed, which changes no later stamp, so it is pruned here once.        *)
(***************************************************************************)
Flush(marked, todo, pending, ids, cards, first) ==
  LET upto == Frontier(marked, auditNext)
      passed == auditNext..(upto - 1)
      left == Without(todo, passed)
      rows == FlattenSeq([i \in 1..Cardinality(passed) |->
                            RowsOf(todo, cards, auditNext + i - 1)])
  IN  /\ Write(first \o rows)
      /\ auditNext' = upto
      /\ auditResolved' = IF passed = {} THEN marked ELSE Consume(marked, auditNext)
      /\ auditTodo' = left
      /\ auditPending' = pending \ passed
      /\ actionIDs' = ids \ passed
      /\ cardAfterSeq' = IF passed = {} THEN cards
                         ELSE Prune(cards, (pending \ passed) \cup DOMAIN left)
      /\ UNCHANGED auditSeq

\* Fault: the rows of any request go out as soon as it is resolved.
ResolveEarly(s, queued) ==
  LET todo == Without(queued, {s})
      pending == auditPending \ {s}
  IN  Flush(Mark(auditResolved, s), todo, pending, actionIDs \ {s},
            Prune(cardAfterSeq, pending \cup DOMAIN todo),
            RowsOf(queued, cardAfterSeq, s))

\* Fault: the rows of an action wait for the requests before it.
ResolveInOrder(s, queued) ==
  LET pending == auditPending \ {s}
  IN  Flush(Mark(auditResolved, s), queued, pending, actionIDs \ {s},
            Prune(cardAfterSeq, pending \cup DOMAIN queued), <<>>)

\* resolveAudit with queued rows: those of s go out at once when s still owns
\* an action, and a sequence already passed is left alone.
ResolveQueued(s, queued) ==
  LET early == s \in actionIDs
      todo == IF early THEN Without(queued, {s}) ELSE queued
      pending == auditPending \ {s}
  IN  Flush(Mark(auditResolved, s), todo, pending, actionIDs \ {s},
            Prune(cardAfterSeq, pending \cup DOMAIN todo),
            IF early THEN RowsOf(queued, cardAfterSeq, s) ELSE <<>>)

ResolveAudit(s) ==
  IF s < auditNext THEN UNCHANGED queueVars ELSE ResolveQueued(s, auditTodo)

Settled(s) == s < auditNext \/ Resolved(auditResolved, s)

\* appendActionObservation: past the queue once s is resolved, and through
\* it, resolving s, otherwise.
AppendObservation(s, row) ==
  IF Settled(s)
    THEN Write(<<row>>) /\ UNCHANGED queue
    ELSE ResolveQueued(s, Queued(s, <<row>>))

\* Fault: only what is resolved already is drained.
DrainResolved ==
  Flush(auditResolved, auditTodo, auditPending, actionIDs, cardAfterSeq, <<>>)

\* drainAudits: everything queued or pending is resolved and written.
DrainAudits ==
  LET new == {s \in DOMAIN auditTodo \cup auditPending : ~Resolved(auditResolved, s)}
  IN  Flush(FoldSet(LAMBDA s, ranges : Mark(ranges, s), auditResolved, new),
            auditTodo, auditPending, actionIDs, cardAfterSeq, <<>>)

-----------------------------------------------------------------------------
Unsettled == auditPending \cup DOMAIN auditTodo

=============================================================================
