-------------------------- MODULE StdioProxyProofs --------------------------
(***************************************************************************)
(* For any ids and bounds, and wherever the output ends: StdioProxy        *)
(* forwards no call without its durable dispatch row, and passes on no     *)
(* answer unaudited before the end of its call is observed.                *)
(*                                                                         *)
(* The argument: the trail only grows, and the input goroutine holds one   *)
(* line from its dispatch to the end of its write.  The id of a forwarded  *)
(* call is released by its taken answer or its failed write, each after it *)
(* has observed the call, and an observation stands.                       *)
(***************************************************************************)
EXTENDS StdioProxy, SequenceTheorems, TLAPS

Deciding == {"accepted", "named", "duplicate", "refused", "allowed", "granted", "unsent",
             "unobserved", "dispatched", "registered", "sent", "unknown", "lost", "cancelling"}
Ends == {"not_forwarded", "response_observed", "outcome_unknown"}

LinesTyped ==
  /\ auditSeq \in 0..MaxSeq
  /\ input \in {"scan", "closed"} \cup Deciding
  /\ input \in Deciding => auditSeq > 0
  /\ observation \in [Lines -> Ends \cup {""}]
  /\ relayed \in [Lines -> Nat]
  /\ kind \in [Lines -> Kinds]
  /\ forwarded \subseteq 0..(auditSeq - 1)
  /\ pending \subseteq 0..(auditSeq - 1)
  /\ reader \in {"taken", "observed"} => taken \in forwarded

TrailTyped == \E S : written \in Seq(S)

\* A line is read only in an opened run.
RunOpened ==
  /\ main = "starting" => written = <<>> /\ input = "scan"
  /\ main \notin {"starting", "exited"} => written # <<>>
  /\ written # <<>> => written[1].what = "open"

\* The line being written has its dispatch row, as every forwarded one.
DispatchedFirst ==
  /\ input \in {"dispatched", "registered"} => RowOf(cur, "dispatch")
  /\ \A s \in forwarded : RowOf(s, "dispatch")

\* A forwarded call whose id is free has been observed.
ObservedFirst ==
  /\ (input = "registered" /\ kind[cur] = "call" /\ cur \notin forwarded) => cur \in activeIDs
  /\ reader = "observed" => observation[taken] # ""
  /\ \A s \in forwarded : (kind[s] = "call" /\ s \notin activeIDs) => observation[s] # ""
  /\ \A s \in Lines : relayed[s] > 0 => observation[s] # ""

IInv == LinesTyped /\ TrailTyped /\ RunOpened /\ DispatchedFirst /\ ObservedFirst

-----------------------------------------------------------------------------
(***************************************************************************)
(* The trail only grows, whatever rows a step writes.                      *)
(***************************************************************************)
Grown ==
  /\ TrailTyped'
  /\ \A i \in DOMAIN written : i \in DOMAIN written' /\ written'[i] = written[i]

LEMMA Extends ==
  ASSUME TrailTyped, NEW rows, NEW k \in Nat, written' = written \o [i \in 1..k |-> rows[i]]
  PROVE  Grown
<1>1. PICK R : written \in Seq(R)
  BY DEF TrailTyped
<1> DEFINE S == R \cup {rows[i] : i \in 1..k}
           more == [i \in 1..k |-> rows[i]]
<1>2. written \in Seq(S)
  BY <1>1
<1>3. more \in Seq(S)
  <2>1. \A i \in 1..k : rows[i] \in S
    OBVIOUS
  <2> HIDE DEF S
  <2> QED  BY <2>1
<1> HIDE DEF S, more
<1>4. written \o more \in Seq(S) /\ Len(written \o more) = Len(written) + Len(more)
  BY <1>2, <1>3, ConcatProperties
<1>5. \A i \in 1..Len(written) : (written \o more)[i] = written[i]
  BY <1>2, <1>3, ConcatProperties
<1>6. Len(written) \in Nat /\ Len(more) \in Nat
  BY <1>2, <1>3, LenProperties
<1>7. DOMAIN written = 1..Len(written)
  BY <1>2, LenProperties
<1>8. DOMAIN (written \o more) = 1..(Len(written) + Len(more))
  BY <1>4, LenProperties
<1>9. written' = written \o more
  BY DEF more
<1>10. TrailTyped'
  BY <1>4, <1>9 DEF TrailTyped
<1>11. \A i \in DOMAIN written : i \in DOMAIN written' /\ written'[i] = written[i]
  BY <1>5, <1>6, <1>7, <1>8, <1>9
<1> QED  BY <1>10, <1>11 DEF Grown

LEMMA OneMore ==
  ASSUME TrailTyped, NEW row, written' = Append(written, row)
  PROVE  /\ Grown
         /\ Len(written') \in DOMAIN written' /\ written'[Len(written')] = row
         /\ Len(written') = Len(written) + 1
<1>1. PICK R : written \in Seq(R)
  BY DEF TrailTyped
<1> DEFINE S == R \cup {row}
<1>2. written \in Seq(S) /\ row \in S
  BY <1>1
<1> HIDE DEF S
<1>3. /\ Append(written, row) \in Seq(S) /\ Len(Append(written, row)) = Len(written) + 1
      /\ \A i \in 1..Len(written) : Append(written, row)[i] = written[i]
      /\ Append(written, row)[Len(written) + 1] = row
  BY <1>2, AppendProperties
<1>4. Len(written) \in Nat /\ DOMAIN written = 1..Len(written)
  BY <1>2, LenProperties
<1>5. DOMAIN Append(written, row) = 1..(Len(written) + 1)
  BY <1>3, LenProperties
<1> QED  BY <1>3, <1>4, <1>5 DEF Grown, TrailTyped

LEMMA Same ==
  ASSUME TrailTyped, UNCHANGED written PROVE Grown
BY DEF Grown, TrailTyped

LEMMA WriteGrows ==
  ASSUME TrailTyped, NEW rows, Write(rows) PROVE Grown
<1>1. PICK k \in 0..Len(rows) : written' = written \o SubSeq(rows, 1, k)
  BY DEF Write
<1>2. k \in Nat
  OBVIOUS
<1>3. SubSeq(rows, 1, k) = [i \in 1..k |-> rows[i]]
  BY <1>2
<1> QED  BY <1>1, <1>2, <1>3, Extends

LEMMA WriteDirectGrows ==
  ASSUME TrailTyped, NEW row, WriteDirect(row)
  PROVE  /\ Grown
         /\ sink' = "open" =>
              /\ Len(written') \in DOMAIN written' /\ written'[Len(written')] = row
              /\ Len(written') = Len(written) + 1
<1>1. \/ written' = Append(written, row)
      \/ UNCHANGED written /\ sink' # "open"
  BY DEF WriteDirect
<1> QED  BY <1>1, OneMore, Same

\* What a flush leaves alone, and what it does to the trail.
Flushed == Grown /\ UNCHANGED auditSeq

LEMMA FlushGrows ==
  ASSUME TrailTyped, NEW m, NEW t, NEW p, NEW a, NEW c, NEW f, Flush(m, t, p, a, c, f)
  PROVE  Flushed
<1>1. (\E rows : Write(rows)) /\ UNCHANGED auditSeq
  BY DEF Flush
<1> QED  BY <1>1, WriteGrows DEF Flushed

LEMMA ResolveGrows ==
  ASSUME TrailTyped, NEW s, ResolveAudit(s) PROVE Flushed
<1>1. CASE UNCHANGED queueVars
  BY <1>1, Same DEF queueVars, queue, output, Flushed
<1>2. CASE ResolveQueued(s, auditTodo)
  BY <1>2, FlushGrows DEF ResolveQueued
<1> QED  BY <1>1, <1>2 DEF ResolveAudit

LEMMA DrainGrows ==
  ASSUME TrailTyped, DrainAudits PROVE Flushed
BY FlushGrows DEF DrainAudits

LEMMA ObserveGrows ==
  ASSUME TrailTyped, LinesTyped, NEW s \in Lines, NEW what \in Ends, Observe(s, what)
  PROVE  /\ Flushed
         /\ observation' \in [Lines -> Ends \cup {""}]
         /\ \A x \in Lines : observation[x] # "" => observation'[x] # ""
         /\ observation'[s] # ""
<1>1. ASSUME NEW row, AppendObservation(s, row) PROVE Flushed
  <2>1. CASE Write(<<row>>) /\ UNCHANGED queue
    BY <2>1, WriteGrows DEF queue, Flushed
  <2>2. CASE ResolveQueued(s, Queued(s, <<row>>))
    BY <2>2, FlushGrows DEF ResolveQueued
  <2> QED  BY <1>1, <2>1, <2>2 DEF AppendObservation
<1>2. Flushed
  <2>1. UNCHANGED queueVars => Flushed
    BY Same DEF queueVars, queue, output, Flushed
  <2> QED  BY <1>1, <2>1 DEF Observe
<1>3. \/ observation' = [observation EXCEPT ![s] = what]
      \/ UNCHANGED observation /\ observation[s] # ""
  BY DEF Observe
<1>4. what # "" /\ observation \in [Lines -> Ends \cup {""}]
  BY DEF Ends, LinesTyped
<1> QED  BY <1>2, <1>3, <1>4

-----------------------------------------------------------------------------
\* The steps by the goroutine that takes them.
Observing ==
  \/ ObserveRefused \/ ObserveSent \/ ObserveLost \/ Cancel
  \/ ObserveResponse \/ SweepByReader \/ Sweep \/ \E s \in Lines : Invalid(s)

LEMMA Steps ==
  ASSUME [Next]_vars
  PROVE  \/ UNCHANGED vars
         \/ AcceptLine \/ CloseInput \/ NewAction \/ Decide \/ Resolve \/ Dispatch \/ Register
         \/ Deliver \/ WriteReturns \/ WriteFails \/ CancelRow
         \/ Observing \/ PassOn \/ AnswerInvalid \/ DrainByReader \/ EndOutput
         \/ \E s \in Lines : Take(s) \/ Unmatched(s)
         \/ Open \/ Heartbeat \/ Stop \/ InputIdle \/ Drain \/ DrainTimeout \/ Close
BY DEF Next, InputStep, ReaderStep, Upstream, RunStep, Observing

LEMMA CurLine ==
  ASSUME LinesTyped, input \in Deciding
  PROVE  cur \in Lines /\ cur \in 0..(auditSeq - 1)
<1>1. auditSeq \in 0..MaxSeq /\ auditSeq > 0 /\ MaxSeq \in Nat
  BY QueueAssumption DEF LinesTyped
<1> QED  BY <1>1 DEF cur, Lines

LEMMA KnownLines ==
  ASSUME LinesTyped
  PROVE  /\ forwarded \subseteq Lines /\ pending \subseteq Lines
         /\ reader \in {"taken", "observed"} => taken \in Lines
         /\ auditSeq \notin forwarded /\ auditSeq \notin pending
         /\ 0..(auditSeq - 1) \subseteq 0..auditSeq
         /\ auditSeq \in Nat
<1>1. auditSeq \in 0..MaxSeq /\ MaxSeq \in Nat
  BY QueueAssumption DEF LinesTyped
<1>2. 0..(auditSeq - 1) \subseteq Lines /\ auditSeq \notin 0..(auditSeq - 1)
  BY <1>1 DEF Lines
<1>3. 0..(auditSeq - 1) \subseteq 0..auditSeq /\ auditSeq \in Nat
  BY <1>1
<1> QED  BY <1>2, <1>3 DEF LinesTyped

LEMMA Observed ==
  ASSUME LinesTyped, TrailTyped, Observing
  PROVE  /\ Flushed
         /\ observation' \in [Lines -> Ends \cup {""}]
         /\ \A x \in Lines : observation[x] # "" => observation'[x] # ""
<1>1. observation \in [Lines -> Ends \cup {""}] /\ pending \subseteq Lines
  BY KnownLines DEF LinesTyped
<1>2. \/ UNCHANGED <<queueVars, observation>>
      \/ \E s \in Lines : Observe(s, "not_forwarded") \/ Observe(s, "response_observed")
                            \/ Observe(s, "outcome_unknown")
  <2>1. CASE ObserveRefused \/ ObserveSent \/ ObserveLost
    <3>1. cur \in Lines
      BY <2>1, CurLine DEF ObserveRefused, ObserveSent, ObserveLost, Deciding
    <3> QED  BY <2>1, <3>1 DEF ObserveRefused, ObserveSent, ObserveLost
  <2>2. CASE Cancel \/ SweepByReader \/ Sweep
    BY <1>1, <2>2 DEF Cancel, SweepByReader, Sweep, Unobserved
  <2>3. CASE ObserveResponse
    BY <2>3, KnownLines DEF ObserveResponse
  <2>4. ASSUME NEW s \in Lines, Invalid(s)
        PROVE  UNCHANGED <<queueVars, observation>> \/ Observe(s, "outcome_unknown")
    BY <2>4 DEF Invalid
  <2> QED  BY <2>1, <2>2, <2>3, <2>4 DEF Observing
<1>3. CASE UNCHANGED <<queueVars, observation>>
  BY <1>1, <1>3, Same DEF queueVars, queue, output, Flushed
<1>4. ASSUME NEW s \in Lines, NEW what \in Ends, Observe(s, what)
      PROVE  /\ Flushed
             /\ observation' \in [Lines -> Ends \cup {""}]
             /\ \A x \in Lines : observation[x] # "" => observation'[x] # ""
  BY <1>4, ObserveGrows
<1> QED  BY <1>2, <1>3, <1>4 DEF Ends

(***************************************************************************)
(* The trail grows with every step, and a line stays what it is.           *)
(***************************************************************************)
LEMMA TrailGrows ==
  ASSUME LinesTyped, TrailTyped, [Next]_vars
  PROVE  /\ Grown
         /\ UNCHANGED <<auditSeq, kind>> \/ AcceptLine
<1> USE DEF queueVars, queue, output, lines, Flushed
<1>1. CASE UNCHANGED vars
  BY <1>1, Same DEF vars
<1>2. CASE AcceptLine
  BY <1>2, Same DEF AcceptLine
<1>3. CASE Observing
  <2>1. UNCHANGED kind
    BY <1>3 DEF Observing, ObserveRefused, ObserveSent, ObserveLost, Cancel, ObserveResponse,
       SweepByReader, Sweep, Invalid
  <2> QED  BY <1>3, <2>1, Observed
<1>4. CASE Resolve
  BY <1>4, ResolveGrows DEF Resolve
<1>5. CASE Drain \/ DrainByReader
  BY <1>5, DrainGrows DEF Drain, DrainByReader
<1>6. CASE Dispatch \/ CancelRow \/ Open \/ Heartbeat
  <2>1. \E row : WriteDirect(row)
    BY <1>6 DEF Dispatch, CancelRow, Open, Heartbeat
  <2>2. UNCHANGED <<auditSeq, kind>>
    BY <1>6 DEF Dispatch, CancelRow, Open, Heartbeat
  <2> QED  BY <2>1, <2>2, WriteDirectGrows
<1>7. CASE Close
  <2>1. written' = Append(written, RunRow("close")) \/ UNCHANGED written
    BY <1>7 DEF Close
  <2>2. UNCHANGED <<auditSeq, kind>>
    BY <1>7 DEF Close
  <2> QED  BY <2>1, <2>2, OneMore, Same
<1>8. CASE \/ CloseInput \/ NewAction \/ Decide \/ Register \/ Deliver \/ WriteReturns
           \/ WriteFails \/ PassOn \/ AnswerInvalid \/ EndOutput
           \/ \E s \in Lines : Take(s) \/ Unmatched(s)
           \/ Stop \/ InputIdle \/ DrainTimeout
  <2>1. UNCHANGED <<written, auditSeq, kind>>
    BY <1>8 DEF CloseInput, NewAction, Decide, Register, Deliver, WriteReturns, WriteFails, PassOn,
       AnswerInvalid, EndOutput, Take, Unmatched, Stop, InputIdle, DrainTimeout
  <2> QED  BY <2>1, Same
<1> QED  BY <1>1, <1>2, <1>3, <1>4, <1>5, <1>6, <1>7, <1>8, Steps

LEMMA RowsStay ==
  ASSUME Grown, NEW s, NEW what, RowOf(s, what) PROVE RowOf(s, what)'
BY DEF Grown, RowOf, At
-----------------------------------------------------------------------------
LEMMA InputMoves ==
  ASSUME LinesTyped, [Next]_vars
  PROVE  /\ input' \in {"scan", "closed"} \cup Deciding
         /\ input' \in Deciding => input \in Deciding \/ AcceptLine
         /\ input' = "dispatched" => input = "dispatched" \/ (Dispatch /\ sink' = "open")
         /\ input' = "registered" => input = "registered" \/ Register
         /\ AcceptLine => input' = "accepted"
<1>1. input \in {"scan", "closed"} \cup Deciding
  BY DEF LinesTyped
<1>2. CASE UNCHANGED input
  <2>1. ~AcceptLine
    BY <1>2 DEF AcceptLine
  <2> QED  BY <1>1, <1>2, <2>1
<1>3. CASE AcceptLine
  BY <1>3 DEF AcceptLine, Deciding
<1>4. CASE \/ CloseInput \/ WriteReturns \/ WriteFails \/ ObserveRefused \/ ObserveSent
           \/ ObserveLost \/ Cancel
  <2>1. /\ input' \in {"scan", "closed", "sent", "lost", "unsent"}
        /\ input' \in {"sent", "lost", "unsent"} => input \in {"registered", "cancelling"}
    BY <1>4 DEF CloseInput, WriteReturns, WriteFails, ObserveRefused, ObserveSent, ObserveLost,
       Cancel
  <2> QED  BY <2>1 DEF Deciding, AcceptLine
<1>5. CASE NewAction \/ Decide \/ CancelRow
  <2>1. /\ input' \in {"named", "duplicate", "refused", "allowed", "granted", "cancelling",
                       "unsent"}
        /\ input \in {"accepted", "named"}
    BY <1>5 DEF NewAction, Decide, CancelRow
  <2> QED  BY <2>1 DEF Deciding, AcceptLine
<1>6. CASE Resolve
  <2>1. /\ input' \in {"unobserved", "unsent", "allowed", "unknown", "scan"}
        /\ input \in {"duplicate", "refused", "granted", "unsent", "sent"}
    BY <1>6 DEF Resolve
  <2> QED  BY <2>1 DEF Deciding, AcceptLine
<1>7. CASE Dispatch
  <2>1. input = "allowed" /\ input' = IF sink' = "open" THEN "dispatched" ELSE "unsent"
    BY <1>7 DEF Dispatch
  <2> QED  BY <1>7, <2>1 DEF Deciding, AcceptLine
<1>8. CASE Register
  BY <1>8 DEF Register, Deciding, AcceptLine
<1>9. ASSUME \/ Deliver \/ ObserveResponse \/ SweepByReader \/ Sweep
             \/ \E s \in Lines : Invalid(s) \/ Take(s) \/ Unmatched(s)
             \/ PassOn \/ AnswerInvalid \/ DrainByReader \/ EndOutput
             \/ Open \/ Heartbeat \/ Stop \/ InputIdle \/ Drain \/ DrainTimeout \/ Close
      PROVE  UNCHANGED input
  BY <1>9 DEF Deliver, ObserveResponse, SweepByReader, Sweep, Invalid, Take, Unmatched, PassOn,
     AnswerInvalid, DrainByReader, EndOutput, Open, Heartbeat, Stop, InputIdle, Drain,
     DrainTimeout, Close
<1>10. UNCHANGED vars => UNCHANGED input
  BY DEF vars
<1> QED  BY <1>2, <1>3, <1>4, <1>5, <1>6, <1>7, <1>8, <1>9, <1>10, Steps DEF Observing

LEMMA CallSteps ==
  ASSUME LinesTyped, [Next]_vars
  PROVE  /\ forwarded' = forwarded \/ (Deliver /\ forwarded' = forwarded \cup {cur})
         /\ \/ pending' \subseteq pending
            \/ Register /\ pending' = pending \cup {cur}
         /\ \/ UNCHANGED <<reader, taken>>
            \/ reader' \notin {"taken", "observed"}
            \/ \E s \in Lines : Take(s) /\ reader' = "taken" /\ taken' = s
            \/ ObserveResponse /\ reader' = "observed" /\ taken' = taken
         /\ \/ activeIDs \subseteq activeIDs'
            \/ PassOn /\ activeIDs' = activeIDs \ {taken}
            \/ ObserveLost /\ activeIDs' = activeIDs \ {cur}
         /\ Register /\ kind[cur] = "call" => cur \in activeIDs'
         /\ \/ relayed' = relayed
            \/ \E s \in Lines : Unmatched(s)
<1> USE DEF calls, upstream
<1>1. CASE UNCHANGED vars
  <2>1. ~Register
    BY <1>1 DEF Register, vars
  <2> QED  BY <1>1, <2>1 DEF vars
<1>2. CASE Register
  BY <1>2 DEF Register
<1>3. CASE Deliver
  BY <1>3 DEF Deliver, Register
<1>4. CASE Observing
  <2>1. ASSUME NEW s \in Lines, Invalid(s)
        PROVE  /\ UNCHANGED <<forwarded, pending, activeIDs, relayed>>
               /\ UNCHANGED <<reader, taken>> \/ reader' = "invalid"
    BY <2>1 DEF Invalid
  <2>2. CASE \E s \in Lines : Invalid(s)
    <3>1. UNCHANGED input
      BY <2>2 DEF Invalid
    <3>2. ~Register
      BY <3>1 DEF Register
    <3> QED  BY <2>1, <2>2, <3>2
  <2>3. CASE ObserveRefused \/ ObserveSent \/ ObserveLost \/ Cancel
    <3>1. ~Register
      BY <2>3 DEF Register, ObserveRefused, ObserveSent, ObserveLost, Cancel
    <3> QED  BY <2>3, <3>1 DEF ObserveRefused, ObserveSent, ObserveLost, Cancel
  <2>4. CASE ObserveResponse \/ SweepByReader \/ Sweep
    <3>1. ~Register
      BY <2>4 DEF Register, ObserveResponse, SweepByReader, Sweep
    <3> QED  BY <2>4, <3>1 DEF ObserveResponse, SweepByReader, Sweep
  <2> QED  BY <1>4, <2>2, <2>3, <2>4 DEF Observing
<1>5. CASE WriteFails
  <2>1. ~Register
    BY <1>5 DEF Register, WriteFails
  <2> QED  BY <1>5, <2>1 DEF WriteFails
<1>6. CASE PassOn \/ AnswerInvalid \/ DrainByReader \/ EndOutput
  <2>1. ~Register
    BY <1>6 DEF Register, PassOn, AnswerInvalid, DrainByReader, EndOutput
  <2> QED  BY <1>6, <2>1 DEF PassOn, AnswerInvalid, DrainByReader, EndOutput
<1>7. ASSUME NEW s \in Lines, Take(s) \/ Unmatched(s)
      PROVE  /\ ~Register
             /\ UNCHANGED <<forwarded, activeIDs>> /\ pending' \subseteq pending
             /\ \/ UNCHANGED <<reader, taken>> /\ Unmatched(s)
                \/ Take(s) /\ reader' = "taken" /\ taken' = s /\ relayed' = relayed
  <2>1. ~Register
    BY <1>7 DEF Register, Take, Unmatched
  <2> QED  BY <1>7, <2>1 DEF Take, Unmatched
<1>8. ASSUME \/ AcceptLine \/ CloseInput \/ NewAction \/ Decide \/ Resolve \/ Dispatch
             \/ WriteReturns \/ CancelRow
             \/ Open \/ Heartbeat \/ Stop \/ InputIdle \/ Drain \/ DrainTimeout \/ Close
      PROVE  UNCHANGED <<calls, upstream>> /\ ~Register
  <2>1. CASE AcceptLine \/ CloseInput \/ NewAction \/ Decide \/ Dispatch \/ WriteReturns \/ CancelRow
    BY <2>1 DEF AcceptLine, CloseInput, NewAction, Decide, Dispatch, WriteReturns, CancelRow, Register
  <2>2. CASE Resolve
    BY <2>2 DEF Resolve, Register
  <2>3. CASE Open \/ Heartbeat \/ Stop \/ InputIdle \/ Drain \/ DrainTimeout \/ Close
    BY <2>3 DEF Open, Heartbeat, Stop, InputIdle, Drain, DrainTimeout, Close, Register
  <2> QED  BY <1>8, <2>1, <2>2, <2>3
<1> QED  BY <1>1, <1>2, <1>3, <1>4, <1>5, <1>6, <1>7, <1>8, Steps
LEMMA LinesKept ==
  ASSUME LinesTyped, TrailTyped, [Next]_vars
  PROVE  LinesTyped'
<1>1. auditSeq \in 0..MaxSeq /\ auditSeq \in Nat /\ MaxSeq \in Nat
  BY KnownLines, QueueAssumption DEF LinesTyped
<1>2. /\ auditSeq' \in 0..MaxSeq
      /\ 0..(auditSeq - 1) \subseteq 0..(auditSeq' - 1)
      /\ input' \in Deciding => auditSeq' > 0
  <2>1. CASE AcceptLine
    <3>1. auditSeq' = auditSeq + 1 /\ auditSeq < MaxSeq
      BY <2>1 DEF AcceptLine, Reserve
    <3> QED  BY <1>1, <3>1
  <2>2. CASE ~AcceptLine
    <3>1. auditSeq' = auditSeq
      BY <2>2, TrailGrows
    <3> QED  BY <1>1, <2>2, <3>1, InputMoves DEF LinesTyped
  <2> QED  BY <2>1, <2>2
<1>3. input' \in {"scan", "closed"} \cup Deciding
  BY InputMoves
<1>4. kind' \in [Lines -> Kinds]
  <2>1. AcceptLine => \E k \in Kinds : kind' = [kind EXCEPT ![auditSeq] = k]
    BY DEF AcceptLine
  <2> QED  BY <2>1, TrailGrows DEF LinesTyped
<1>5. observation' \in [Lines -> Ends \cup {""}]
  <2>1. Observing \/ UNCHANGED observation
    BY Steps DEF AcceptLine, CloseInput, NewAction, Decide, Resolve, Dispatch, Register, Deliver,
       WriteReturns, WriteFails, CancelRow, PassOn, AnswerInvalid, DrainByReader, EndOutput, Take,
       Unmatched, Open, Heartbeat, Stop, InputIdle, Drain, DrainTimeout, Close, vars, calls
  <2> QED  BY <2>1, Observed DEF LinesTyped
<1>6. relayed' \in [Lines -> Nat]
  <2>1. ASSUME NEW s \in Lines, Unmatched(s)
        PROVE  relayed' = relayed \/ relayed' = [relayed EXCEPT ![s] = @ + 1]
    BY <2>1 DEF Unmatched
  <2>2. relayed' = relayed \/ \E s \in Lines : relayed' = [relayed EXCEPT ![s] = @ + 1]
    BY <2>1, CallSteps
  <2>3. relayed \in [Lines -> Nat]
    BY DEF LinesTyped
  <2>4. ASSUME NEW s \in Lines, relayed' = [relayed EXCEPT ![s] = @ + 1]
        PROVE  relayed' \in [Lines -> Nat]
    <3>1. relayed[s] + 1 \in Nat
      BY <2>3
    <3> QED  BY <2>3, <2>4, <3>1
  <2> QED  BY <2>2, <2>3, <2>4
<1>7. forwarded' \subseteq 0..(auditSeq' - 1) /\ forwarded \subseteq forwarded'
  <2>1. Deliver => cur \in 0..(auditSeq - 1)
    BY CurLine DEF Deliver, Deciding
  <2>2. forwarded' \subseteq 0..(auditSeq - 1) /\ forwarded \subseteq forwarded'
    BY <2>1, CallSteps DEF LinesTyped
  <2> QED  BY <1>2, <2>2
<1>8. pending' \subseteq 0..(auditSeq' - 1)
  <2>1. Register => cur \in 0..(auditSeq - 1)
    BY CurLine DEF Register, Deciding
  <2>2. pending' \subseteq 0..(auditSeq - 1)
    BY <2>1, CallSteps DEF LinesTyped
  <2> QED  BY <1>2, <2>2
<1>9. reader' \in {"taken", "observed"} => taken' \in forwarded'
  <2>1. ASSUME NEW s, Take(s) PROVE s \in forwarded
    BY <2>1 DEF Take, Answer
  <2>2. ObserveResponse => reader = "taken"
    BY DEF ObserveResponse
  <2> QED  BY <1>7, <2>1, <2>2, CallSteps DEF LinesTyped
<1> QED  BY <1>2, <1>3, <1>4, <1>5, <1>6, <1>7, <1>8, <1>9 DEF LinesTyped

LEMMA RunKept ==
  ASSUME LinesTyped, TrailTyped, RunOpened, [Next]_vars
  PROVE  RunOpened'
<1>1. Grown
  BY TrailGrows
<1>2. written # <<>> => 1 \in DOMAIN written
  BY LenProperties, EmptySeq DEF TrailTyped
<1>3. ASSUME written # <<>>, main # "starting", main' # "starting" PROVE RunOpened'
  <2>1. 1 \in DOMAIN written' /\ written'[1].what = "open"
    BY <1>1, <1>2, <1>3 DEF Grown, RunOpened
  <2>2. written' # <<>>
    BY <2>1
  <2> QED  BY <1>3, <2>1, <2>2 DEF RunOpened
<1>4. CASE Running
  <2>1. main' # "starting"
    <3>1. main' = main \/ main' \in {"waiting", "sweeping", "closing", "exited"} \/ Open
      BY Steps DEF AcceptLine, CloseInput, NewAction, Decide, Resolve, Dispatch, Register, Deliver,
         WriteReturns, WriteFails, CancelRow, Observing, ObserveRefused, ObserveSent, ObserveLost,
         Cancel, ObserveResponse, SweepByReader, Sweep, Invalid, PassOn, AnswerInvalid,
         DrainByReader, EndOutput, Take, Unmatched, Heartbeat, Stop, InputIdle, Drain,
         DrainTimeout, Close, vars, control
    <3> QED  BY <1>4, <3>1 DEF Running, Open
  <2> QED  BY <1>3, <1>4, <2>1 DEF Running, RunOpened
<1>5. CASE Open
  <2>1. main = "starting" /\ written = <<>> /\ main' = IF sink' = "open" THEN "running" ELSE "exited"
    BY <1>5 DEF Open, RunOpened
  <2>2. WriteDirect(RunRow("open"))
    BY <1>5 DEF Open
  <2>3. /\ written' = Append(written, RunRow("open")) \/ (written' = written /\ sink' # "open")
    BY <2>2 DEF WriteDirect
  <2>4. Append(<< >>, RunRow("open")) = << RunRow("open") >>
    OBVIOUS
  <2>5. << RunRow("open") >> # <<>> /\ << RunRow("open") >>[1].what = "open"
    BY DEF RunRow, Row
  <2> QED  BY <2>1, <2>3, <2>4, <2>5 DEF RunOpened
<1>6. CASE UNCHANGED vars
  BY <1>6 DEF vars, queueVars, output, control, RunOpened
<1>7. Running \/ Open \/ UNCHANGED vars
  BY Steps DEF AcceptLine, CloseInput, NewAction, Decide, Resolve, Dispatch, Register, Deliver,
     WriteReturns, WriteFails, CancelRow, Observing, ObserveRefused, ObserveSent, ObserveLost,
     Cancel, ObserveResponse, SweepByReader, Sweep, Invalid, PassOn, AnswerInvalid,
     DrainByReader, EndOutput, Take, Unmatched, Answer, Heartbeat, Stop, InputIdle, Drain,
     DrainTimeout, Close, Running
<1> QED  BY <1>4, <1>5, <1>6, <1>7

LEMMA DispatchesKept ==
  ASSUME LinesTyped, TrailTyped, DispatchedFirst, [Next]_vars
  PROVE  DispatchedFirst'
<1>1. Grown /\ (UNCHANGED auditSeq \/ AcceptLine)
  BY TrailGrows
<1>2. ASSUME input' \in {"dispatched", "registered"} PROVE RowOf(cur, "dispatch")'
  <2>1. ~AcceptLine /\ cur' = cur
    BY <1>1, <1>2, InputMoves DEF cur
  <2>2. CASE input \in {"dispatched", "registered"}
    <3>1. RowOf(cur, "dispatch")
      BY <2>2 DEF DispatchedFirst
    <3> QED  BY <1>1, <2>1, <3>1, RowsStay DEF RowOf, At
  <2>3. CASE Dispatch /\ sink' = "open"
    <3> DEFINE n == Len(written')
    <3>1. WriteDirect(Row(cur, "dispatch", TRUE))
      BY <2>3 DEF Dispatch
    <3>2. n \in DOMAIN written' /\ written'[n] = Row(cur, "dispatch", TRUE)
      BY <2>3, <3>1, WriteDirectGrows
    <3>3. written'[n].what = "dispatch" /\ written'[n].seq = cur
      BY <3>2 DEF Row
    <3> HIDE DEF n
    <3> QED  BY <2>1, <3>2, <3>3 DEF RowOf, At
  <2> QED  BY <1>2, <2>2, <2>3, InputMoves DEF Register
<1>3. ASSUME NEW s \in forwarded' PROVE RowOf(s, "dispatch")'
  <2>1. RowOf(s, "dispatch")
    BY CallSteps DEF DispatchedFirst, Deliver
  <2> QED  BY <1>1, <2>1, RowsStay
<1> QED  BY <1>2, <1>3 DEF DispatchedFirst

LEMMA ObservedKept ==
  ASSUME LinesTyped, TrailTyped, ObservedFirst, [Next]_vars
  PROVE  ObservedFirst'
<1>1. UNCHANGED <<auditSeq, kind>> \/ AcceptLine
  BY TrailGrows
<1>2. \A s \in Lines : observation[s] # "" => observation'[s] # ""
  <2>1. Observing \/ UNCHANGED observation
    BY Steps DEF AcceptLine, CloseInput, NewAction, Decide, Resolve, Dispatch, Register, Deliver,
       WriteReturns, WriteFails, CancelRow, PassOn, AnswerInvalid, DrainByReader, EndOutput, Take,
       Unmatched, Open, Heartbeat, Stop, InputIdle, Drain, DrainTimeout, Close, vars, calls
  <2> QED  BY <2>1, Observed
<1>3. ObserveResponse => observation'[taken] # ""
  BY ObserveGrows, KnownLines DEF ObserveResponse, Ends
<1>4. ObserveLost => observation'[cur] # "" /\ cur \in Lines
  BY ObserveGrows, CurLine DEF ObserveLost, Ends, Deciding
<1>5. ASSUME input' = "registered", kind'[cur'] = "call", cur' \notin forwarded'
      PROVE  cur' \in activeIDs'
  <2>1. cur' = cur /\ kind' = kind
    BY <1>1, <1>5, InputMoves DEF cur
  <2>2. CASE Register
    BY <1>5, <2>1, <2>2, CallSteps
  <2>3. CASE input = "registered"
    <3>1. cur \notin forwarded
      BY <1>5, <2>1, CallSteps
    <3>2. cur \in activeIDs
      BY <1>5, <2>1, <2>3, <3>1 DEF ObservedFirst
    <3>3. ~ObserveLost
      BY <2>3 DEF ObserveLost
    <3>4. PassOn => taken # cur
      BY <3>1 DEF PassOn, LinesTyped
    <3> QED  BY <2>1, <3>2, <3>3, <3>4, CallSteps
  <2> QED  BY <1>5, <2>2, <2>3, InputMoves
<1>6. ASSUME reader' = "observed" PROVE observation'[taken'] # ""
  <2>1. CASE UNCHANGED <<reader, taken>>
    BY <1>2, <1>6, <2>1, KnownLines DEF ObservedFirst
  <2> QED  BY <1>3, <1>6, <2>1, CallSteps
<1>7. ASSUME NEW s \in forwarded', kind'[s] = "call", s \notin activeIDs'
      PROVE  observation'[s] # ""
  <2>1. CASE s \in forwarded
    <3>1. kind[s] = "call" /\ s \in Lines
      <4>1. s # auditSeq /\ s \in Lines
        BY <2>1, KnownLines
      <4>2. AcceptLine => \E k : kind' = [kind EXCEPT ![auditSeq] = k]
        BY DEF AcceptLine
      <4> QED  BY <1>1, <1>7, <4>1, <4>2 DEF LinesTyped
    <3>2. CASE s \notin activeIDs
      BY <1>2, <2>1, <3>1, <3>2 DEF ObservedFirst
    <3>3. CASE s \in activeIDs /\ PassOn
      <4>1. s = taken /\ reader = "observed"
        BY <1>7, <3>3, CallSteps DEF PassOn
      <4> QED  BY <1>2, <3>1, <4>1 DEF ObservedFirst
    <3>4. CASE s \in activeIDs /\ ObserveLost
      <4>1. s = cur
        BY <1>7, <3>4, CallSteps DEF ObserveLost
      <4> QED  BY <1>4, <3>4, <4>1
    <3> QED  BY <1>7, <3>2, <3>3, <3>4, CallSteps
  <2>2. CASE s \notin forwarded
    <3>1. Deliver /\ s = cur
      BY <1>7, <2>2, CallSteps
    <3>2. input = "registered" /\ kind' = kind /\ activeIDs' = activeIDs
      BY <3>1 DEF Deliver, lines
    <3> QED  BY <1>7, <2>2, <3>1, <3>2 DEF ObservedFirst
  <2> QED  BY <2>1, <2>2
<1>8. ASSUME NEW s \in Lines, relayed'[s] > 0 PROVE observation'[s] # ""
  <2>1. CASE relayed'[s] = relayed[s]
    BY <1>2, <1>8, <2>1 DEF ObservedFirst
  <2>2. ASSUME NEW m \in Lines, Unmatched(m), relayed'[s] # relayed[s] PROVE observation'[s] # ""
    <3>1. m = s /\ ~InUse(id[m])
      BY <2>2 DEF Unmatched, LinesTyped
    <3>2. m \notin activeIDs
      BY <3>1 DEF InUse
    <3>3. m \in forwarded /\ kind[m] = "call"
      BY <2>2 DEF Unmatched, Answer
    <3> QED  BY <1>2, <3>1, <3>2, <3>3 DEF ObservedFirst
  <2> QED  BY <1>8, <2>1, <2>2, CallSteps
<1> QED  BY <1>5, <1>6, <1>7, <1>8 DEF ObservedFirst

-----------------------------------------------------------------------------
LEMMA InitInvariant == Init => IInv
<1> SUFFICES ASSUME Init PROVE IInv
  OBVIOUS
<1>1. /\ written = <<>> /\ auditSeq = 0 /\ input = "scan" /\ reader = "scan" /\ main = "starting"
      /\ kind = [s \in Lines |-> "call"] /\ observation = [s \in Lines |-> ""]
      /\ relayed = [s \in Lines |-> 0] /\ forwarded = {} /\ pending = {}
  BY DEF Init, QueueInit
<1>2. LinesTyped
  <2>1. auditSeq \in 0..MaxSeq
    <3>1. MaxSeq \in Nat /\ auditSeq = 0
      BY <1>1, QueueAssumption
    <3> QED  BY <3>1
  <2> QED  BY <1>1, <2>1 DEF LinesTyped, Deciding, Kinds
<1>3. TrailTyped
  <2>1. written \in Seq({})
    BY <1>1, EmptySeq
  <2> QED  BY <2>1 DEF TrailTyped
<1>4. RunOpened
  BY <1>1 DEF RunOpened
<1>5. DispatchedFirst
  BY <1>1 DEF DispatchedFirst
<1>6. ObservedFirst
  <2>1. \A s \in Lines : ~(relayed[s] > 0)
    <3>1. relayed = [s \in Lines |-> 0]
      BY <1>1
    <3> QED  BY <3>1
  <2>2. /\ input # "registered" /\ reader # "observed" /\ forwarded = {}
    BY <1>1
  <2> QED  BY <2>1, <2>2 DEF ObservedFirst
<1> QED  BY <1>2, <1>3, <1>4, <1>5, <1>6 DEF IInv

LEMMA StepInvariant == IInv /\ [Next]_vars => IInv'
BY LinesKept, TrailGrows, RunKept, DispatchesKept, ObservedKept DEF IInv, Grown

(***************************************************************************)
(* Never forward unless the dispatch is durable: for any ids and bounds,   *)
(* and whichever goroutine, failure or deadline comes between, a call the  *)
(* upstream may have seen has its dispatch row in an opened run.           *)
(***************************************************************************)
THEOREM ForwardedCallsAreDispatched == Spec => []ForwardedIsDispatched
<1>1. Init => IInv
  BY InitInvariant
<1>2. IInv /\ [Next]_vars => IInv'
  BY StepInvariant
<1>3. IInv => ForwardedIsDispatched
  <2> SUFFICES ASSUME IInv, NEW s \in forwarded
               PROVE  RowOf(s, "dispatch") /\ written[1].what = "open"
    BY DEF ForwardedIsDispatched
  <2>1. RowOf(s, "dispatch")
    BY DEF IInv, DispatchedFirst
  <2>2. written # <<>>
    BY <2>1, LenProperties, EmptySeq DEF RowOf, At
  <2> QED  BY <2>1, <2>2 DEF IInv, RunOpened
<1> QED  BY <1>1, <1>2, <1>3, PTL DEF Spec

(***************************************************************************)
(* No answer slips past the audit: one that is passed on as it came is for *)
(* a call whose end is observed, whatever released its id, also where the  *)
(* output ends while a line is being decided.                              *)
(***************************************************************************)
THEOREM RelayedCallsAreObserved == Spec => []NoUnauditedAnswer
<1>1. Init => IInv
  BY InitInvariant
<1>2. IInv /\ [Next]_vars => IInv'
  BY StepInvariant
<1>3. IInv => NoUnauditedAnswer
  BY DEF IInv, ObservedFirst, NoUnauditedAnswer
<1> QED  BY <1>1, <1>2, <1>3, PTL DEF Spec

=============================================================================
