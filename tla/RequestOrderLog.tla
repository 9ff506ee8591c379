--------------------------- MODULE RequestOrderLog ---------------------------
(***************************************************************************)
(* What the audit queue of internal/proxy/stdio.go promises, with nothing  *)
(* compacted or pruned: every request has a place in the order requests    *)
(* came in; the rows of a settled request are written once, when all the   *)
(* requests before it are settled or, for a paired action and for no other *)
(* request, as soon as it is; and a row without a card of its own carries  *)
(* the card the session held as of its request, from the whole history of  *)
(* card commits.                                                           *)
(***************************************************************************)
EXTENDS Naturals, Sequences, FiniteSetsExt, SequencesExt

VARIABLES
  requests,   \* number of requests so far
  waiting,    \* request -> rows waiting to be written
  settled,    \* requests that are settled
  commits,    \* request -> card state its commit left
  log,        \* rows written
  alive       \* the writer accepts rows

vars == <<requests, waiting, settled, commits, log, alive>>

Init ==
  /\ requests = 0 /\ waiting = << >> /\ settled = {}
  /\ commits = << >> /\ log = <<>> /\ alive = TRUE

CardAsOf(s) ==
  LET earlier == {k \in DOMAIN commits : k <= s}
  IN  IF earlier = {} THEN 0 ELSE commits[CHOOSE k \in earlier : \A j \in earlier : j <= k]

WithCard(s) ==
  [i \in DOMAIN waiting[s] |->
     IF waiting[s][i].card = 0 THEN [waiting[s][i] EXCEPT !.card = CardAsOf(s)]
     ELSE waiting[s][i]]

Arrive == requests' = requests + 1 /\ UNCHANGED <<waiting, settled, commits, log, alive>>

\* Rows are queued only for a request that is not settled yet, so that
\* settling it writes them all.
Queue ==
  /\ \E s \in 0..(requests - 1) \ settled :
       /\ DOMAIN waiting' = DOMAIN waiting \cup {s}
       /\ \A x \in DOMAIN waiting' : x # s => waiting'[x] = waiting[x]
       /\ s \in DOMAIN waiting => IsPrefix(waiting[s], waiting'[s])
  /\ UNCHANGED <<requests, settled, commits, log, alive>>

Commit ==
  /\ \E s \in 0..(requests - 1) :
       /\ DOMAIN commits' = DOMAIN commits \cup {s}
       /\ \A x \in DOMAIN commits : commits'[x] = commits[x]
  /\ UNCHANGED <<requests, waiting, settled, log, alive>>

\* The rows that may go out once done are settled: those whose every earlier
\* request is settled, in order, after the rows of an action settled now.
Prefix(done) == {s \in 0..(requests - 1) : \A u \in 0..s : u \in done}

InOrder(S) == FlattenSeq([i \in 1..requests |-> IF i - 1 \in S THEN WithCard(i - 1)
                                                ELSE <<>>])

WriteOut(early, S) ==
  LET rows == InOrder(early) \o InOrder(S) IN
  /\ waiting' = [x \in DOMAIN waiting \ (early \cup S) |-> waiting[x]]
  /\ \/ alive /\ log' = log \o rows /\ alive'
     \/ /\ ~alive'
        /\ IsPrefix(log, log') /\ IsPrefix(log', log \o rows)
        /\ ~alive => log' = log

\* Rows of a paired action wait for nobody else.
Paired(s) == \E i \in DOMAIN waiting[s] : waiting[s][i].action

Settle ==
  /\ \E new \in SUBSET (0..(requests - 1)), early \in SUBSET (DOMAIN waiting) :
       /\ new # {} /\ early \subseteq new
       /\ \A s \in early : Paired(s)
       /\ settled' = settled \cup new
       /\ WriteOut(early, (Prefix(settled \cup new) \cap DOMAIN waiting) \ early)
       /\ \A s \in DOMAIN waiting' : Paired(s) => s \notin settled'
  /\ UNCHANGED <<requests, commits>>

\* A row written past the queue, such as a dispatch.
Direct ==
  /\ Len(log') <= Len(log) + 1 /\ IsPrefix(log, log')
  /\ log' # log => alive /\ alive'
  /\ alive' => alive
  /\ UNCHANGED <<requests, waiting, settled, commits>>

Next == Arrive \/ Queue \/ Commit \/ Settle \/ Direct

Spec == Init /\ [][Next]_vars

=============================================================================
