--------------------------- MODULE ReadSideProofs ---------------------------
(***************************************************************************)
(* Theorems about the proofs the wall hands out, about what its readers    *)
(* are given, and about the verdict on the rows of a run, for any          *)
(* sessions, readers, scenes, ages, bounds and lengths.                    *)
(***************************************************************************)
EXTENDS ReadSide, SequenceTheorems, FiniteSetTheorems, WellFoundedInduction, TLAPS

Rows == [session : Sessions, at : Int, good : BOOLEAN]

TrailTyped == trail \in Seq(Rows) /\ now \in Int /\ hwm \in Nat

\* A question has the fields of Quiet.
Shaped(r) == {"at", "kind", "snap"} \subseteq DOMAIN r

ReadersShaped ==
  /\ reader = [c \in Readers |-> reader[c]]
  /\ \A c \in Readers : Shaped(reader[c]) /\ (reader[c].at = "queued" => reader[c].kind # "proof")

\* Who makes a proof, between its two reads: it holds the flock, and has the
\* time of the first.
Capturing(c) ==
  /\ writer.at = "idle"
  /\ reader[c].snap.at \in Int /\ reader[c].snap.at <= now
  /\ reader[c].snap = [Snapshot EXCEPT !.mark = reader[c].snap.mark, !.at = reader[c].snap.at]

CapturesHoldFlock ==
  \A c \in Readers : reader[c].kind = "proof" /\ reader[c].at = "read" => Capturing(c)

\* A proof ends before now, and before any row that is on its way.
ProofsArePast ==
  /\ writer.at = "stamped" => writer.time \in Int
  /\ \A p \in proofs :
       /\ p.until \in Int /\ p.until < now
       /\ writer.at = "stamped" => p.until < writer.time

IInv == TrailTyped /\ ReadersShaped /\ CapturesHoldFlock /\ ProofsArePast /\ ProofComplete

-----------------------------------------------------------------------------
LEMMA InitInv == InitReadSide => IInv
<1> SUFFICES ASSUME Init PROVE IInv
  BY DEF InitReadSide
<1>1. trail \in Seq(Rows) /\ Len(trail) \in Nat
  <2>1. CASE trail = <<>>
    BY <2>1
  <2>2. CASE \E x \in Sessions : trail = <<[session |-> x, at |-> 0, good |-> TRUE]>>
    <3>1. PICK x \in Sessions : trail = <<[session |-> x, at |-> 0, good |-> TRUE]>>
      BY <2>2
    <3>2. [session |-> x, at |-> 0, good |-> TRUE] \in Rows
      BY DEF Rows
    <3> QED BY <3>1, <3>2
  <2> QED BY <2>1, <2>2 DEF Init
<1>4. TrailTyped
  BY <1>1 DEF Init, TrailTyped
<1>2. ReadersShaped /\ CapturesHoldFlock
  BY DEF Init, ReadersShaped, CapturesHoldFlock, Shaped, Quiet
<1>3. ProofsArePast /\ ProofComplete
  BY DEF Init, ProofsArePast, ProofComplete
<1> QED BY <1>4, <1>2, <1>3 DEF IInv

\* The steps that leave the trail, the writer and the proofs alone, and give
\* one reader another question or place.
LEMMA ReaderMoves ==
  ASSUME IInv, UNCHANGED <<trail, hwm, writer, proofs, now>>,
         NEW c \in Readers, NEW r, Shaped(r), r.at = "queued" => r.kind # "proof",
         reader' = [reader EXCEPT ![c] = r],
         r.kind = "proof" /\ r.at = "read" => Capturing(c)'
  PROVE  IInv'
<1>1. TrailTyped' /\ ProofsArePast' /\ ProofComplete'
  BY DEF IInv, TrailTyped, ProofsArePast, ProofComplete
<1>2. reader'[c] = r /\ \A d \in Readers : d # c => reader'[d] = reader[d]
  BY DEF IInv, ReadersShaped
<1>3. ReadersShaped'
  BY <1>2 DEF IInv, ReadersShaped, Shaped
<1>4. CapturesHoldFlock'
  <2>1. \A d \in Readers : d # c /\ Capturing(d) => Capturing(d)'
    BY <1>2 DEF Capturing, Snapshot
  <2>2. CapturesHoldFlock
    BY DEF IInv
  <2> QED BY <1>2, <2>1, <2>2 DEF CapturesHoldFlock
<1> QED BY <1>1, <1>3, <1>4 DEF IInv

LEMMA QuietIsShaped == Shaped(Quiet) /\ Quiet.at = "idle"
BY DEF Shaped, Quiet

LEMMA NothingMoves ==
  ASSUME IInv, UNCHANGED <<trail, hwm, writer, reader, proofs, now>>
  PROVE  IInv'
BY DEF IInv, TrailTyped, ReadersShaped, Shaped, CapturesHoldFlock, Capturing, ProofsArePast,
       ProofComplete

-----------------------------------------------------------------------------
LEMMA WriterInv == IInv /\ (Writer \/ Tick) => IInv'
<1> SUFFICES ASSUME IInv, Writer \/ Tick PROVE IInv'
  OBVIOUS
<1> USE DEF readers
<1>r. UNCHANGED <<reader, proofs>>
  BY DEF Writer, Stamp, Write, Checkpoint, Damage, Tick
<1>s. ReadersShaped'
  BY <1>r DEF IInv, ReadersShaped, Shaped
<1>1. CASE Stamp
  <2>1. TrailTyped' /\ ProofComplete'
    BY <1>1, <1>r DEF Stamp, IInv, TrailTyped, ProofComplete
  <2>2. ProofsArePast'
    BY <1>1, <1>r DEF Stamp, IInv, TrailTyped, ProofsArePast
  <2>3. CapturesHoldFlock'
    BY <1>1, <1>r DEF Stamp, SharesFlock, CapturesHoldFlock
  <2> QED BY <1>s, <2>1, <2>2, <2>3 DEF IInv
<1>2. CASE Write
  <2>1. writer.at = "stamped" /\ now' = now /\ hwm' = hwm /\ writer'.at = "appended"
    BY <1>2 DEF Write
  <2>2. PICK x \in Sessions :
          trail' = Append(trail, [session |-> x, at |-> writer.time, good |-> TRUE])
    BY <1>2 DEF Write
  <2>3. TrailTyped'
    BY <2>1, <2>2 DEF IInv, TrailTyped, Rows, ProofsArePast
  <2>4. ProofsArePast'
    BY <1>r, <2>1 DEF IInv, ProofsArePast
  <2>5. CapturesHoldFlock'
    BY <1>r, <2>1 DEF IInv, CapturesHoldFlock, Capturing
  <2>6. ASSUME NEW p \in proofs, NEW i \in DOMAIN trail', trail'[i].at <= p.until
        PROVE  i \in p.rows
    <3>1. i \in DOMAIN trail \/ (i = Len(trail) + 1 /\ trail'[i].at = writer.time)
      BY <2>2 DEF IInv, TrailTyped
    <3>2. p.until \in Int /\ writer.time \in Int /\ p.until < writer.time
      BY <2>1 DEF IInv, ProofsArePast
    <3>3. i \in DOMAIN trail => trail'[i] = trail[i]
      BY <2>2 DEF IInv, TrailTyped
    <3> QED BY <2>6, <3>1, <3>2, <3>3 DEF IInv, ProofComplete
  <2> QED BY <1>r, <1>s, <2>3, <2>4, <2>5, <2>6 DEF IInv, ProofComplete
<1>3. CASE Checkpoint
  <2>1. writer.at = "appended" /\ writer'.at = "idle" /\ trail' = trail /\ now' = now
        /\ hwm' \in {hwm, Len(trail)}
    BY <1>3 DEF Checkpoint
  <2>2. TrailTyped' /\ ProofComplete'
    BY <1>r, <2>1 DEF IInv, TrailTyped, ProofComplete
  <2>3. ProofsArePast' /\ CapturesHoldFlock'
    BY <1>r, <2>1 DEF IInv, ProofsArePast, CapturesHoldFlock, Capturing
  <2> QED BY <1>s, <2>2, <2>3 DEF IInv
<1>4. CASE Damage
  <2>1. UNCHANGED <<hwm, writer, now>>
    BY <1>4 DEF Damage
  <2>2. trail' \in Seq(Rows)
        /\ \A i \in DOMAIN trail' : i \in DOMAIN trail /\ trail'[i].at = trail[i].at
    <3>1. ASSUME NEW k \in DOMAIN trail, trail' = [trail EXCEPT ![k].good = FALSE]
          PROVE  trail' \in Seq(Rows)
                 /\ \A i \in DOMAIN trail' : i \in DOMAIN trail /\ trail'[i].at = trail[i].at
      <4> DEFINE row == [trail[k] EXCEPT !.good = FALSE]
      <4>1. trail \in Seq(Rows) /\ trail[k] \in Rows
        BY <3>1 DEF IInv, TrailTyped
      <4>2. row \in Rows /\ row.at = trail[k].at
        BY <4>1 DEF Rows
      <4>3. trail' = [trail EXCEPT ![k] = row]
        BY <3>1
      <4> HIDE DEF row
      <4>4. k \in 1 .. Len(trail) /\ DOMAIN trail = 1 .. Len(trail)
        BY <3>1, <4>1
      <4>5. /\ trail' \in Seq(Rows) /\ Len(trail') = Len(trail)
            /\ \A i \in 1 .. Len(trail) : trail'[i] = IF i = k THEN row ELSE trail[i]
        BY <4>1, <4>2, <4>3, <4>4, ExceptSeq
      <4>6. DOMAIN trail' = DOMAIN trail
        BY <4>4, <4>5
      <4> QED BY <4>2, <4>4, <4>5, <4>6
    <3>2. CASE hwm > 0 /\ hwm = Len(trail) /\ trail' = SubSeq(trail, 1, hwm - 1)
      <4>1. trail \in Seq(Rows) /\ Len(trail) \in Nat
        BY DEF IInv, TrailTyped
      <4>2. trail' \in Seq(Rows) /\ Len(trail') = hwm - 1
            /\ \A i \in 1 .. hwm - 1 : trail'[i] = trail[i]
        BY <3>2, <4>1, SubSeqProperties
      <4> QED BY <3>2, <4>1, <4>2
    <3> QED BY <1>4, <3>1, <3>2 DEF Damage
  <2>3. TrailTyped' /\ ProofsArePast' /\ CapturesHoldFlock'
    BY <1>r, <2>1, <2>2 DEF IInv, TrailTyped, ProofsArePast, CapturesHoldFlock, Capturing
  <2>4. ProofComplete'
    BY <1>r, <2>2 DEF IInv, ProofComplete
  <2> QED BY <1>s, <2>3, <2>4 DEF IInv
<1>5. CASE Tick
  <2>1. now' = now + 1 /\ UNCHANGED <<trail, hwm, writer>>
    BY <1>5 DEF Tick, files
  <2>2. TrailTyped' /\ ProofComplete'
    BY <1>r, <2>1 DEF IInv, TrailTyped, ProofComplete
  <2>3. ProofsArePast'
    BY <1>r, <2>1 DEF IInv, TrailTyped, ProofsArePast
  <2>4. ASSUME NEW c \in Readers, reader[c].kind = "proof", reader[c].at = "read"
        PROVE  Capturing(c)'
    <3>1. Capturing(c) /\ now \in Int
      BY <2>4 DEF IInv, TrailTyped, CapturesHoldFlock
    <3>2. Snapshot' = Snapshot
      BY DEF Snapshot
    <3> HIDE DEF Snapshot
    <3> QED BY <1>r, <2>1, <3>1, <3>2 DEF Capturing
  <2>5. CapturesHoldFlock'
    BY <1>r, <2>4 DEF CapturesHoldFlock
  <2> QED BY <1>s, <2>2, <2>3, <2>5 DEF IInv
<1> QED BY <1>1, <1>2, <1>3, <1>4, <1>5 DEF Writer

-----------------------------------------------------------------------------
LEMMA RequestInv == ASSUME NEW c \in Readers PROVE IInv /\ Request(c) => IInv'
<1> SUFFICES ASSUME IInv, Request(c) PROVE IInv'
  OBVIOUS
<1> USE DEF files
<1>0. Shaped(reader[c]) /\ (reader[c].at = "queued" => reader[c].kind # "proof")
  BY DEF IInv, ReadersShaped
<1>1. ASSUME NEW r, Answers(c, r), UNCHANGED <<trail, hwm, writer, proofs, now>>
      PROVE  IInv'
  BY <1>1, QuietIsShaped, ReaderMoves DEF Answers
<1>2. ASSUME NEW r, Becomes(c, r), Shaped(r), r.kind # "proof" \/ r.at = "start",
             UNCHANGED <<trail, hwm, writer, proofs, now>>
      PROVE  IInv'
  BY <1>2, ReaderMoves DEF Becomes
<1>3. CASE Ask(c)
  <2>1. UNCHANGED <<trail, hwm, writer, proofs, now>>
    BY <1>3 DEF Ask
  <2>2. PICK k \in scene.kinds :
          LET q == [Quiet EXCEPT !.kind = k, !.since = Present] IN
          IF ~ThroughCache(k) THEN Becomes(c, [q EXCEPT !.at = "start"])
          ELSE IF Fresh(k, headSig) THEN Answers(c, [q EXCEPT !.snap = view.snap])
          ELSE Becomes(c, [q EXCEPT !.at = "queued", !.sig = headSig, !.seen = builds])
    BY <1>3 DEF Ask
  <2> DEFINE q == [Quiet EXCEPT !.kind = k, !.since = Present]
             start == [q EXCEPT !.at = "start"]
             wait == [q EXCEPT !.at = "queued", !.sig = headSig, !.seen = builds]
  <2>3. Shaped(start) /\ start.at = "start"
    BY DEF Shaped, Quiet
  <2>4. Shaped(wait) /\ wait.kind = k
    BY DEF Shaped, Quiet
  <2>5. ThroughCache(k) => k # "proof"
    BY DEF ThroughCache
  <2>6. CASE Becomes(c, start)
    BY <1>2, <2>1, <2>3, <2>6
  <2>7. CASE ThroughCache(k) /\ Becomes(c, wait)
    BY <1>2, <2>1, <2>4, <2>5, <2>7
  <2>8. CASE Answers(c, [q EXCEPT !.snap = view.snap])
    BY <1>1, <2>1, <2>8
  <2> QED BY <2>2, <2>6, <2>7, <2>8
<1>4. CASE Turn(c)
  <2>1. UNCHANGED <<trail, hwm, writer, proofs, now>> /\ reader[c].kind # "proof"
    BY <1>0, <1>4 DEF Turn
  <2>2. CASE Answers(c, [reader[c] EXCEPT !.snap = view.snap])
    BY <1>1, <2>1, <2>2
  <2>3. CASE Becomes(c, [reader[c] EXCEPT !.at = "read", !.snap = ReadFirst(Snapshot)])
    <3> DEFINE r == [reader[c] EXCEPT !.at = "read", !.snap = ReadFirst(Snapshot)]
    <3>1. Shaped(r) /\ r.kind # "proof"
      BY <1>0, <2>1 DEF Shaped
    <3> QED BY <1>2, <2>1, <2>3, <3>1
  <2> QED BY <1>4, <2>2, <2>3 DEF Turn
<1>5. CASE Start(c)
  <2>1. UNCHANGED <<trail, hwm, writer, proofs, now>>
        /\ (reader[c].kind = "proof" => writer.at = "idle")
    BY <1>5 DEF Start
  <2>2. PICK s \in (IF reader[c].kind = "session" THEN LockRead(Snapshot) ELSE {Snapshot}) :
          Becomes(c, [reader[c] EXCEPT !.at = "read", !.snap = ReadFirst(s)])
    BY <1>5 DEF Start
  <2> DEFINE r == [reader[c] EXCEPT !.at = "read", !.snap = ReadFirst(s)]
  <2>3. Shaped(r) /\ r.at = "read" /\ r.kind = reader[c].kind /\ r.snap = ReadFirst(s)
    BY <1>0 DEF Shaped
  <2>4. CASE r.kind # "proof"
    BY <1>2, <2>1, <2>2, <2>3, <2>4
  <2>5. CASE r.kind = "proof"
    <3>1. reader' = [reader EXCEPT ![c] = r] /\ reader'[c] = r
      BY <2>2 DEF Becomes, IInv, ReadersShaped
    <3>2. r.snap = [Snapshot EXCEPT !.mark = hwm, !.at = now]
      BY <2>2, <2>3, <2>5 DEF ReadFirst, ReadOrder, Read
    <3>3. r.snap.mark = hwm /\ r.snap.at = now
      <4>1. PICK s0 : s0 = r.snap
        OBVIOUS
      <4>2. s0 = [Snapshot EXCEPT !.mark = hwm, !.at = now]
        BY <3>2, <4>1
      <4>3. s0.mark = hwm /\ s0.at = now
        BY <4>2 DEF Snapshot
      <4> QED BY <4>1, <4>3
    <3>4. now \in Int /\ now' = now /\ writer'.at = "idle"
      <4>1. now \in Int
        BY DEF IInv, TrailTyped
      <4> QED BY <2>1, <2>3, <2>5, <4>1
    <3>5. Capturing(c)'
      <4>1. Snapshot' = Snapshot
        BY DEF Snapshot
      <4>2. reader'[c].snap = [Snapshot EXCEPT !.mark = hwm, !.at = now]
            /\ reader'[c].snap.mark = hwm /\ reader'[c].snap.at = now
        BY <3>1, <3>2, <3>3
      <4>3. now' = now /\ now \in Int /\ now <= now
        BY <3>4
      <4> QED BY <3>4, <4>1, <4>2, <4>3 DEF Capturing
    <3> QED BY <2>1, <2>3, <3>1, <3>5, ReaderMoves
  <2> QED BY <2>4, <2>5
<1>6. CASE ReadSecond(c)
  <2> DEFINE s == Read(reader[c].snap, ReadOrder[2])
  <2>1. UNCHANGED <<trail, hwm, writer, now>> /\ reader[c].at = "read"
    BY <1>6 DEF ReadSecond
  <2>2. CASE reader[c].kind # "proof"
    <3>1. proofs' = proofs
      BY <1>6, <2>2 DEF ReadSecond
    <3> DEFINE r == [reader[c] EXCEPT !.at = "fence", !.snap = s]
    <3>2. Shaped(r) /\ r.kind # "proof"
      BY <1>0, <2>2 DEF Shaped
    <3>3. CASE Becomes(c, r)
      BY <1>2, <2>1, <3>1, <3>2, <3>3
    <3>4. CASE Answers(c, [reader[c] EXCEPT !.snap = s])
      BY <1>1, <2>1, <3>1, <3>4
    <3> QED BY <1>6, <3>3, <3>4 DEF ReadSecond
  <2>3. CASE reader[c].kind = "proof"
    <3> DEFINE t == reader[c].snap.at
               p == [until |-> t - 1, rows |-> {i \in DOMAIN trail : trail[i].at <= t - 1}]
    <3>1. Capturing(c)
      BY <2>1, <2>3 DEF IInv, CapturesHoldFlock
    <3>2. s.rows = trail
      BY <3>1 DEF Capturing, Read, ReadOrder, Snapshot
    <3>3. proofs' = proofs \/ proofs' = proofs \cup {p}
      BY <1>6, <2>3, <3>2 DEF ReadSecond, Proof, CaptureUntil
    <3>4. p.until \in Int /\ p.until < now /\ writer.at # "stamped"
      BY <3>1 DEF Capturing, IInv, TrailTyped
    <3>5. TrailTyped'
      BY <2>1 DEF IInv, TrailTyped
    <3>6. ProofsArePast'
      BY <2>1, <3>3, <3>4 DEF IInv, ProofsArePast
    <3>7. ProofComplete'
      BY <2>1, <3>3 DEF IInv, ProofComplete
    <3>8. reader' = [reader EXCEPT ![c] = Quiet]
      BY <1>6, <2>3 DEF ReadSecond, Answers
    <3>9. ReadersShaped' /\ CapturesHoldFlock'
      BY <2>1, <3>8, QuietIsShaped DEF IInv, ReadersShaped, Shaped, CapturesHoldFlock, Capturing
    <3> QED BY <3>5, <3>6, <3>7, <3>9 DEF IInv
  <2> QED BY <2>2, <2>3
<1>7. CASE ReadFails(c)
  <2> DEFINE s == [reader[c].snap EXCEPT !.failed = TRUE, !.at = now]
             r == [reader[c] EXCEPT !.at = "fence", !.snap = [s EXCEPT !.rows = trail]]
  <2>1. UNCHANGED <<trail, hwm, writer, proofs, now>>
    BY <1>7 DEF ReadFails
  <2>2. ThroughCache(reader[c].kind) => Shaped(r) /\ r.kind # "proof"
    BY <1>0 DEF Shaped, ThroughCache
  <2>3. CASE ThroughCache(reader[c].kind) /\ Becomes(c, r)
    BY <1>2, <2>1, <2>2, <2>3
  <2>4. CASE Answers(c, [reader[c] EXCEPT !.snap = s])
    BY <1>1, <2>1, <2>4
  <2> QED BY <1>7, <2>3, <2>4 DEF ReadFails
<1>8. CASE Publish(c)
  <2>1. UNCHANGED <<trail, hwm, writer, proofs, now>>
    BY <1>8 DEF Publish
  <2>2. PICK s \in LockRead(reader[c].snap) : Answers(c, [reader[c] EXCEPT !.snap = s])
    BY <1>8 DEF Publish
  <2> QED BY <1>1, <2>1, <2>2
<1> QED BY <1>3, <1>4, <1>5, <1>6, <1>7, <1>8 DEF Request

LEMMA NextInv == IInv /\ [NextReadSide]_all => IInv'
<1> SUFFICES ASSUME IInv, [NextReadSide]_all PROVE IInv'
  OBVIOUS
<1>1. CASE LockLog \/ tailLock
  BY <1>1, NothingMoves
     DEF LockLog, tailLock, Fence, Replace, Look, PollFailed, Poll, Advance, files, readers
<1>2. CASE UNCHANGED vars
  BY <1>2, NothingMoves DEF vars, files, readers
<1> QED BY <1>1, <1>2, WriterInv, RequestInv DEF NextReadSide, all

LEMMA InvHolds == SpecReadSide => []IInv
BY InitInv, NextInv, PTL DEF SpecReadSide

(***************************************************************************)
(* A proof of the rows up to a moment is complete for ever, however rows   *)
(* are stamped, appended and checkpointed beside those who read, and       *)
(* whatever is damaged: the second it was made in is not in its window,    *)
(* and no row is on its way while it is made.                              *)
(***************************************************************************)
THEOREM ProofsStayComplete == SpecReadSide => []ProofComplete
BY InvHolds, PTL DEF IInv

-----------------------------------------------------------------------------
(***************************************************************************)
(* What a reader is given: the rows and the fence rows that were there     *)
(* when it asked, from a read of its own or from a view built since.       *)
(***************************************************************************)
Kept == damaged = Never /\ ~replaced

SnapShaped(s) == DOMAIN s = {"rows", "mark", "failed", "fence", "lockErr", "at"} /\ s.at \in Int
QuestionShaped(r) == DOMAIN r = {"at", "kind", "sig", "seen", "snap", "since"} /\ SnapShaped(r.snap)

QuestionsShaped ==
  /\ \A c \in Readers : QuestionShaped(reader[c])
  /\ SnapShaped(view.snap) /\ builds \in Nat /\ now \in Nat
  /\ fence \in Seq([session : Sessions \cup {NoSession}, readable : BOOLEAN])
  /\ replaced \in BOOLEAN

HasRows(s, n) == s.failed \/ Len(s.rows) >= n
Covers(s, n, m) == s.failed \/ s.lockErr \/ (Len(s.rows) >= n /\ Len(s.fence) >= m)

\* A question is of what was there then, and there still is.
AskedOf(r) ==
  /\ r.since.rows \in Nat /\ r.since.fence \in Nat
  /\ r.since.rows <= Len(trail) /\ r.since.fence <= Len(fence)
  /\ ThroughCache(r.kind) => r.sig[1] = r.since.rows /\ r.sig[4] = r.since.fence

Places(r) ==
  /\ r.at \in {"idle", "queued", "start", "read", "fence"}
  /\ r.at = "queued" => ThroughCache(r.kind)
  /\ r.at = "start" => ~ThroughCache(r.kind)
  /\ r.at = "fence" => r.kind \in {"poll", "connect", "export"} /\ HasRows(r.snap, r.since.rows)
  /\ r.at = "read" /\ r.kind = "session" => r.snap.lockErr \/ Len(r.snap.fence) >= r.since.fence

\* Who waits for the build lock is given a view as young as the one it found,
\* or one that has what it asked for, unless it found a build under way.
Waits(r) ==
  /\ r.seen \in Nat /\ r.seen <= builds
  /\ builds = r.seen /\ view # NoView /\ now - view.snap.at < Reverify => r.since.young
  /\ ~r.since.building =>
       /\ builds # r.seen => Covers(view.snap, r.since.rows, r.since.fence)
       /\ \A d \in Readers : lmu = d /\ reader[d].at = "fence" => HasRows(reader[d].snap, r.since.rows)

ReadersServed ==
  /\ view # NoView => Covers(view.snap, view.sig[1], view.sig[4])
  /\ \A c \in Readers :
       LET r == reader[c] IN
       r.at # "idle" =>
         /\ AskedOf(r) /\ Places(r)
         /\ ThroughCache(r.kind) /\ r.at \in {"read", "fence"} => lmu = c
         /\ r.at = "queued" => Waits(r)

\* The log was as it is now, or shorter, or not yet replaced.
Earlier(sig) ==
  sig = <<>> \/ \E n \in Nat, r \in BOOLEAN :
    sig = <<n, r>> /\ (r => replaced) /\ (r = replaced => n <= Len(fence))

LockRow == [log : BOOLEAN, id : Int]

\* Of what was shown, e: the order, the rows of a log it has, and those it has
\* not, of a log that is yet to come or was not looked at, or past the cursor.
InOrder(e) == \A i, j \in 1..Len(e) : i < j =>
  \/ e[i].log = e[j].log /\ e[i].id < e[j].id
  \/ ~e[i].log /\ e[j].log

Shows(e, log, ids) == \A id \in ids : \E i \in 1..Len(e) : e[i].log = log /\ e[i].id = id

NoneAhead(e, log, first, last) == \A i \in 1..Len(e) :
  /\ e[i].log => log
  /\ e[i].log = log => first # Never /\ e[i].id <= last

Streams(looked, last, e, log, n) ==
  /\ looked \in [BOOLEAN -> Nat \cup {Never}] /\ (~log => looked[TRUE] = Never)
  /\ last \in Nat \cup {Never}
  /\ e \in Seq(LockRow)
  /\ looked[log] # Never =>
       looked[log] <= last /\ last <= n /\ Shows(e, log, (looked[log] + 1)..last)
  /\ NoneAhead(e, log, looked[log], last)
  /\ InOrder(e)

\* What a poll shows: the m rows after the cursor, up to row n.
NextRows(new, log, last, m, n) ==
  /\ m \in Nat /\ new \in Seq(LockRow) /\ Len(new) = m
  /\ \A i \in 1..m : new[i] = [log |-> log, id |-> last + i]
  /\ m # 0 => last \in Nat /\ last + m = n
  /\ last \in Nat /\ last <= n => last + m = n

Streamed == Streams(poller.looked, poller.last, poller.emitted, replaced, Len(fence))

PollerKeepsUp ==
  /\ Earlier(poller.sig) /\ Earlier(poller.head)
  /\ poller.sig = LockSig => poller.last = Len(fence) /\ poller.looked[replaced] # Never
  /\ Streamed

KInv ==
  /\ QuestionsShaped
  /\ Kept => ReadersServed
  /\ PollerKeepsUp
  /\ ViewsKeepUp

Given(r) ==
  \/ r.snap.failed \/ r.snap.lockErr
  \/ /\ Len(r.snap.rows) >= r.since.rows
     /\ r.kind \in {"poll", "connect", "session"} => Len(r.snap.fence) >= r.since.fence
  \/ r.kind = "poll" /\ r.since.young
  \/ r.kind \in {"poll", "connect"} /\ r.since.building

LEMMA StreamIsKept == PollerKeepsUp => StreamKeepsUp
<1> SUFFICES ASSUME PollerKeepsUp PROVE StreamKeepsUp
  OBVIOUS
<1> DEFINE e == poller.emitted
<1>1. \A i, j \in 1..Len(e) : i < j =>
        \/ e[i].log = e[j].log /\ e[i].id < e[j].id
        \/ ~e[i].log /\ e[j].log
  BY DEF PollerKeepsUp, Streamed, Streams, Shows, InOrder
<1>2. ASSUME poller.sig = LockSig, NEW id \in (poller.looked[replaced] + 1)..Len(fence)
      PROVE  \E i \in 1..Len(e) : e[i].log = replaced /\ e[i].id = id
  BY <1>2 DEF PollerKeepsUp, Streamed, Streams, Shows, InOrder
<1> QED BY <1>1, <1>2 DEF StreamKeepsUp

LEMMA ViewsKeepUpWhen ==
  ASSUME PollerKeepsUp,
         answer.at = "answered" /\ answer.kind # "proof" /\ Kept => Given(answer)
  PROVE  ViewsKeepUp
BY StreamIsKept DEF ViewsKeepUp, Given, Kept

LEMMA StreamIsKeptNext == PollerKeepsUp' => StreamKeepsUp'
BY StreamIsKept, PTL

LEMMA PollerRests ==
  ASSUME PollerKeepsUp, UNCHANGED <<fence, replaced, poller>>
  PROVE  PollerKeepsUp'
<1>1. Earlier(poller.sig)' /\ Earlier(poller.head)'
  BY DEF PollerKeepsUp, Earlier
<1>2. Streamed'
  BY DEF PollerKeepsUp, Streamed
<1>3. LockSig' = LockSig
  BY DEF LockSig
<1> QED BY <1>1, <1>2, <1>3 DEF PollerKeepsUp

(***************************************************************************)
(* What a poll shows: nothing, or the rows from the cursor to the end.     *)
(***************************************************************************)
LEMMA RowsShown ==
  ASSUME poller.last \in Nat \cup {Never}, replaced \in BOOLEAN, NEW n \in Nat
  PROVE  \E m \in Nat : NextRows(RowsUpTo(n), replaced, poller.last, m, n)
<1>1. CASE poller.last = Never
  <2>1. RowsUpTo(n) = <<>> /\ poller.last \notin Nat
    BY <1>1 DEF RowsUpTo, Never
  <2>2. NextRows(RowsUpTo(n), replaced, poller.last, 0, n)
    BY <2>1 DEF NextRows
  <2> QED BY <2>2
<1>2. CASE poller.last \in Nat
  <2> DEFINE row(i) == [log |-> replaced, id |-> poller.last + i]
  <2>1. PICK m \in Nat : /\ poller.last <= n => m = n - poller.last
                         /\ ~(poller.last <= n) => m = 0
    BY <1>2
  <2>2. 1..(n - poller.last) = 1..m
    BY <1>2, <2>1
  <2>3. RowsUpTo(n) = [i \in 1..m |-> row(i)]
    <3>1. RowsUpTo(n) = [i \in 1..(n - poller.last) |-> row(i)]
      BY <1>2 DEF RowsUpTo, Never
    <3> QED BY <2>2, <3>1
  <2>4. \A i \in 1..m : row(i) \in LockRow
    BY <1>2 DEF LockRow
  <2>5. RowsUpTo(n) \in Seq(LockRow) /\ Len(RowsUpTo(n)) = m
    BY <2>3, <2>4
  <2>6. m # 0 => poller.last + m = n
    BY <1>2, <2>1
  <2>7. poller.last <= n => poller.last + m = n
    BY <1>2, <2>1
  <2>8. \A i \in 1..m : RowsUpTo(n)[i] = [log |-> replaced, id |-> poller.last + i]
    BY <2>3
  <2>9. NextRows(RowsUpTo(n), replaced, poller.last, m, n)
    BY <1>2, <2>5, <2>6, <2>7, <2>8 DEF NextRows
  <2> QED BY <2>9
<1> QED BY <1>1, <1>2

LEMMA LockRowTyped ==
  ASSUME NEW e \in Seq(LockRow), NEW i \in 1..Len(e)
  PROVE  e[i].id \in Int /\ e[i].log \in BOOLEAN
<1>1. e[i] \in LockRow
  OBVIOUS
<1> QED BY <1>1 DEF LockRow

LEMMA LockRowsJoined ==
  ASSUME NEW e \in Seq(LockRow), NEW new, NEW log, NEW last \in Int, NEW m, NEW n,
         NextRows(new, log, last, m, n)
  PROVE  LET f == e \o new IN
         /\ f \in Seq(LockRow) /\ Len(f) = Len(e) + m
         /\ \A i \in 1..Len(e) : i \in 1..Len(f) /\ f[i] = e[i]
         /\ \A i \in 1..Len(f) : i \notin 1..Len(e) =>
              i - Len(e) \in 1..m /\ f[i].log = log /\ f[i].id = last + (i - Len(e))
<1>0. PICK f : f = e \o new
  OBVIOUS
<1>1. Len(e) \in Nat /\ new \in Seq(LockRow) /\ Len(new) = m /\ m \in Nat
  BY DEF NextRows
<1>2. /\ f \in Seq(LockRow) /\ Len(f) = Len(e) + m
      /\ \A i \in 1..Len(f) : f[i] = IF i <= Len(e) THEN e[i] ELSE new[i - Len(e)]
  <2>1. e \o new \in Seq(LockRow) /\ Len(e \o new) = Len(e) + Len(new)
    BY <1>1
  <2>2. \A i \in 1..(Len(e) + Len(new)) :
          (e \o new)[i] = IF i <= Len(e) THEN e[i] ELSE new[i - Len(e)]
    BY <1>1, ConcatProperties
  <2> QED BY <1>0, <1>1, <2>1, <2>2
<1>3. ASSUME NEW i \in 1..Len(f), i \notin 1..Len(e)
      PROVE  i - Len(e) \in 1..m /\ f[i].log = log /\ f[i].id = last + (i - Len(e))
  <2>1. i - Len(e) \in 1..m /\ ~(i <= Len(e))
    BY <1>1, <1>2, <1>3
  <2>2. f[i] = new[i - Len(e)]
    BY <1>2, <2>1
  <2>3. new[i - Len(e)] = [log |-> log, id |-> last + (i - Len(e))]
    BY <2>1 DEF NextRows
  <2>4. PICK r : r = f[i]
    OBVIOUS
  <2>5. r = [log |-> log, id |-> last + (i - Len(e))]
    BY <2>2, <2>3, <2>4
  <2> QED BY <2>1, <2>4, <2>5
<1> QED BY <1>0, <1>1, <1>2, <1>3

(***************************************************************************)
(* A poll streams the m rows after the cursor, up to row n.                *)
(***************************************************************************)
LEMMA StreamExtends ==
  ASSUME NEW looked, NEW last, NEW e, NEW log \in BOOLEAN, NEW n \in Nat,
         Streams(looked, last, e, log, n), NEW new, NEW m, NextRows(new, log, last, m, n)
  PROVE  Streams([looked EXCEPT ![log] = IF @ = Never THEN n ELSE @], n, e \o new, log, n)
<1>1. PICK f, seen : f = e \o new /\ seen = [looked EXCEPT ![log] = IF @ = Never THEN n ELSE @]
  OBVIOUS
<1>m. /\ m \in Nat
      /\ m # 0 => last \in Nat /\ last + m = n
      /\ last \in Nat /\ last <= n => last + m = n
  BY DEF NextRows
<1> DEFINE first == looked[log]
<1>2. PICK k : k = Len(e)
  OBVIOUS
<1>3. /\ looked \in [BOOLEAN -> Nat \cup {Never}] /\ (~log => looked[TRUE] = Never)
      /\ last \in Nat \cup {Never} /\ e \in Seq(LockRow)
      /\ first \in Nat \cup {Never}
  BY DEF Streams
<1>t. last \in Int /\ k \in Nat
  BY <1>2, <1>3 DEF Never
<1>4. first # Never =>
        /\ first \in Nat /\ last \in Nat /\ first <= last /\ last <= n /\ last + m = n
        /\ \A id \in (first + 1)..last : \E i \in 1..k : e[i].log = log /\ e[i].id = id
  <2>1. first # Never => first <= last /\ last <= n /\ Shows(e, log, (first + 1)..last)
    BY DEF Streams
  <2>2. first # Never => first \in Nat /\ last \in Nat
    BY <1>3, <2>1 DEF Never
  <2> QED BY <1>2, <1>m, <2>1, <2>2 DEF Shows
<1>5. \A i \in 1..k :
        /\ e[i].log => log
        /\ e[i].log = log => first # Never /\ e[i].id <= last
  BY <1>2 DEF Streams, NoneAhead
<1>6. \A i, j \in 1..k : i < j =>
        \/ e[i].log = e[j].log /\ e[i].id < e[j].id
        \/ ~e[i].log /\ e[j].log
  BY <1>2 DEF Streams, InOrder
<1>7. \A i \in 1..k : e[i].id \in Int /\ e[i].log \in BOOLEAN
  BY <1>2, <1>3, LockRowTyped
<1>8. /\ f \in Seq(LockRow) /\ Len(f) = k + m
      /\ \A i \in 1..k : i \in 1..Len(f) /\ f[i] = e[i]
      /\ \A i \in 1..Len(f) : i \notin 1..k =>
           i - k \in 1..m /\ f[i].log = log /\ f[i].id = last + (i - k)
  BY <1>t, <1>1, <1>2, <1>3, LockRowsJoined
<1> HIDE DEF first
<1>9. ASSUME first # Never, NEW id \in (first + 1)..n
      PROVE  \E i \in 1..Len(f) : f[i].log = log /\ f[i].id = id
  <2>1. first \in Nat /\ last \in Nat /\ id \in Int /\ id >= first + 1 /\ id <= last + m
    BY <1>4, <1>9
  <2>2. CASE id <= last
    <3>1. id \in (first + 1)..last
      BY <2>1, <2>2
    <3>2. PICK i \in 1..k : e[i].log = log /\ e[i].id = id
      BY <1>4, <1>9, <3>1
    <3> QED BY <1>8, <3>2
  <2>3. CASE id > last
    <3>1. PICK i \in Int : i = k + (id - last)
      BY <1>t, <2>1
    <3>2. i \in 1..Len(f) /\ i \notin 1..k /\ last + (i - k) = id
      BY <1>t, <1>m, <1>8, <2>1, <2>3, <3>1
    <3> QED BY <1>8, <3>2
  <2>4. id <= last \/ id > last
    BY <2>1
  <2> QED BY <2>2, <2>3, <2>4
<1>10. ASSUME NEW i \in 1..Len(f)
       PROVE  (f[i].log => log) /\ (f[i].log = log => f[i].id <= n)
  <2>1. CASE i \in 1..k
    <3>1. f[i] = e[i] /\ e[i].id \in Int
      BY <1>7, <1>8, <2>1
    <3>2. (e[i].log => log) /\ (e[i].log = log => first # Never /\ e[i].id <= last)
      BY <1>5, <2>1
    <3>3. first # Never /\ e[i].id <= last => e[i].id <= n
      BY <1>4, <3>1
    <3> QED BY <3>1, <3>2, <3>3
  <2>2. CASE i \notin 1..k
    <3>1. i - k \in 1..m /\ f[i].log = log /\ f[i].id = last + (i - k)
      BY <1>8, <2>2
    <3>2. last + (i - k) <= n
      BY <1>t, <1>m, <3>1
    <3> QED BY <3>1, <3>2
  <2> QED BY <2>1, <2>2
<1>11. ASSUME NEW i \in 1..Len(f), NEW j \in 1..Len(f), i < j
       PROVE  \/ f[i].log = f[j].log /\ f[i].id < f[j].id
              \/ ~f[i].log /\ f[j].log
  <2>1. CASE j \in 1..k
    <3>1. i \in 1..k
      BY <1>t, <1>8, <1>11, <2>1
    <3>2. \/ e[i].log = e[j].log /\ e[i].id < e[j].id
          \/ ~e[i].log /\ e[j].log
      BY <1>6, <1>11, <2>1, <3>1
    <3> QED BY <1>8, <2>1, <3>1, <3>2
  <2>2. CASE j \notin 1..k /\ i \in 1..k
    <3>1. j - k \in 1..m /\ f[j].log = log /\ f[j].id = last + (j - k)
      BY <1>8, <2>2
    <3>2. last \in Nat
      BY <1>m, <3>1
    <3>3. f[i] = e[i] /\ e[i].id \in Int /\ e[i].log \in BOOLEAN
      BY <1>7, <1>8, <2>2
    <3>4. (e[i].log => log) /\ (e[i].log = log => e[i].id <= last)
      BY <1>5, <2>2
    <3>5. e[i].log = log => e[i].id < last + (j - k)
      BY <1>t, <3>1, <3>2, <3>3, <3>4
    <3>6. e[i].log # log => ~e[i].log /\ log
      BY <3>3, <3>4
    <3> QED BY <3>1, <3>3, <3>5, <3>6
  <2>3. CASE j \notin 1..k /\ i \notin 1..k
    <3>1. /\ j - k \in 1..m /\ f[j].log = log /\ f[j].id = last + (j - k)
          /\ i - k \in 1..m /\ f[i].log = log /\ f[i].id = last + (i - k)
      BY <1>8, <2>3
    <3>2. last + (i - k) < last + (j - k)
      BY <1>t, <1>11, <3>1
    <3> QED BY <3>1, <3>2
  <2> QED BY <2>1, <2>2, <2>3
<1>13. /\ seen \in [BOOLEAN -> Nat \cup {Never}]
       /\ seen[log] = IF first = Never THEN n ELSE first
       /\ ~log => seen[TRUE] = Never
  BY <1>1, <1>3 DEF first
<1>14. seen[log] # Never /\ seen[log] <= n
  BY <1>3, <1>4, <1>13 DEF Never
<1>15. \A id \in (seen[log] + 1)..n : \E i \in 1..Len(f) : f[i].log = log /\ f[i].id = id
  <2>1. CASE first = Never
    BY <1>13, <2>1
  <2>2. CASE first # Never
    BY <1>9, <1>13, <2>2
  <2> QED BY <2>1, <2>2
<1>16. Shows(f, log, (seen[log] + 1)..n) /\ InOrder(f) /\ NoneAhead(f, log, seen[log], n)
  BY <1>10, <1>11, <1>14, <1>15 DEF Shows, InOrder, NoneAhead
<1>17. n \in Nat \cup {Never} /\ n <= n
  OBVIOUS
<1>18. Streams(seen, n, f, log, n)
  BY <1>8, <1>13, <1>14, <1>16, <1>17 DEF Streams
<1> QED BY <1>1, <1>18

LEMMA PollStreams ==
  ASSUME Streamed, replaced \in BOOLEAN, Len(fence) \in Nat, Poll
  PROVE  Streamed' /\ poller'.last = Len(fence) /\ poller'.looked[replaced] # Never
<1>1. PICK looked, last, e, log, new, seen, f :
        /\ looked = poller.looked /\ last = poller.last /\ e = poller.emitted /\ log = replaced
        /\ new = RowsUpTo(Len(fence)) /\ f = e \o new
        /\ seen = [looked EXCEPT ![log] = IF @ = Never THEN Len(fence) ELSE @]
  OBVIOUS
<1>2. PICK n \in Nat : n = Len(fence)
  OBVIOUS
<1>3. /\ poller'.looked = seen /\ poller'.last = n /\ poller'.emitted = f
      /\ UNCHANGED <<fence, replaced>>
  BY <1>1, <1>2 DEF Poll, Advance, lockLog
<1>4. Streams(looked, last, e, log, n) /\ log \in BOOLEAN
  BY <1>1, <1>2 DEF Streamed
<1>5. last \in Nat \cup {Never} /\ looked \in [BOOLEAN -> Nat \cup {Never}]
  BY <1>4 DEF Streams
<1>6. PICK m \in Nat : NextRows(new, log, last, m, n)
  BY <1>1, <1>2, <1>4, <1>5, RowsShown
<1>7. Streams(seen, n, f, log, n)
  BY <1>1, <1>2, <1>4, <1>6, StreamExtends
<1>8. seen[log] # Never
  BY <1>1, <1>2, <1>4, <1>5 DEF Never
<1>9. Streamed'
  BY <1>1, <1>2, <1>3, <1>7 DEF Streamed
<1> QED BY <1>1, <1>2, <1>3, <1>8, <1>9

LEMMA InitKInv == InitReadSide => KInv
<1> SUFFICES ASSUME Init PROVE KInv
  BY DEF InitReadSide
<1>1. fence \in Seq([session : Sessions \cup {NoSession}, readable : BOOLEAN])
  <2> DEFINE R == [session : Sessions \cup {NoSession}, readable : BOOLEAN]
  <2>1. CASE fence = <<>>
    BY <2>1
  <2>2. CASE \E x \in Sessions : fence = <<[session |-> x, readable |-> TRUE]>>
    <3>1. PICK x \in Sessions : fence = <<[session |-> x, readable |-> TRUE]>>
      BY <2>2
    <3>2. [session |-> x, readable |-> TRUE] \in R
      OBVIOUS
    <3> QED BY <3>1, <3>2
  <2> QED BY <2>1, <2>2 DEF Init
<1>2. QuestionsShaped
  <2>1. SnapShaped(Snapshot)
    BY DEF SnapShaped, Snapshot
  <2>2. QuestionShaped(Quiet)
    BY <2>1 DEF QuestionShaped, Quiet
  <2>3. SnapShaped(view.snap)
    BY <2>1 DEF Init, NoView
  <2>4. \A c \in Readers : QuestionShaped(reader[c])
    BY <2>2 DEF Init
  <2>5. builds \in Nat /\ now \in Nat /\ replaced \in BOOLEAN
    BY DEF Init
  <2> QED BY <1>1, <2>3, <2>4, <2>5 DEF QuestionsShaped
<1>3. ReadersServed
  BY DEF Init, ReadersServed, Quiet
<1>4. PollerKeepsUp
  <2>1. /\ poller = [last |-> Never, sig |-> <<>>, head |-> <<>>,
                     looked |-> [log \in BOOLEAN |-> Never], emitted |-> <<>>]
        /\ replaced = FALSE
    BY DEF Init
  <2>2. Earlier(poller.sig) /\ Earlier(poller.head) /\ poller.sig # LockSig
    BY <2>1 DEF Earlier, LockSig
  <2>3. Streamed
    <3>1. /\ poller.looked = [log \in BOOLEAN |-> Never] /\ poller.last = Never
          /\ poller.emitted = <<>> /\ poller.looked[replaced] = Never
      BY <2>1
    <3> QED BY <2>1, <3>1 DEF Streamed, Streams, Shows, InOrder, NoneAhead
  <2> QED BY <2>2, <2>3 DEF PollerKeepsUp
<1>5. answer.at # "answered"
  BY DEF Init, Quiet
<1>6. ViewsKeepUp
  BY <1>4, <1>5, ViewsKeepUpWhen
<1> QED BY <1>2, <1>3, <1>4, <1>6 DEF KInv

(***************************************************************************)
(* What was asked for, and what was found, stays so while the trail and    *)
(* the log grow and time passes.                                           *)
(***************************************************************************)
LEMMA OthersServed ==
  ASSUME IInv, IInv', QuestionsShaped, Kept => ReadersServed,
         UNCHANGED <<scene, reader, view, builds, lmu>>,
         Kept' => /\ Kept
                  /\ Len(trail) \in Nat /\ Len(trail') \in Nat /\ Len(trail) <= Len(trail')
                  /\ Len(fence) \in Nat /\ Len(fence') \in Nat /\ Len(fence) <= Len(fence')
                  /\ now <= now'
  PROVE  Kept' => ReadersServed'
<1> SUFFICES ASSUME Kept' PROVE ReadersServed'
  OBVIOUS
<1>1. ReadersServed
  OBVIOUS
<1>2. view' # NoView' => Covers(view'.snap, view'.sig[1], view'.sig[4])
  BY <1>1 DEF ReadersServed, Covers, NoView, Snapshot
<1>3. ASSUME NEW c \in Readers, reader[c].at # "idle"
      PROVE  /\ AskedOf(reader[c])' /\ Places(reader[c])'
             /\ ThroughCache(reader[c].kind)' /\ reader[c].at \in {"read", "fence"} => lmu' = c
             /\ reader[c].at = "queued" => Waits(reader[c])'
  <2>0. /\ AskedOf(reader[c]) /\ Places(reader[c])
        /\ ThroughCache(reader[c].kind) /\ reader[c].at \in {"read", "fence"} => lmu = c
        /\ reader[c].at = "queued" => Waits(reader[c])
    BY <1>1, <1>3 DEF ReadersServed
  <2>1. AskedOf(reader[c])'
    BY <2>0 DEF AskedOf, ThroughCache
  <2>2. Places(reader[c])'
    BY <2>0 DEF Places, ThroughCache, HasRows
  <2>3. ThroughCache(reader[c].kind)' <=> ThroughCache(reader[c].kind)
    BY DEF ThroughCache
  <2>4. ASSUME Waits(reader[c]) PROVE Waits(reader[c])'
    <3>1. now - view.snap.at < Reverify \/ ~(now' - view.snap.at < Reverify)
      <4>1. now \in Int /\ now' \in Int /\ view.snap.at \in Int /\ now <= now'
        BY DEF IInv, TrailTyped, QuestionsShaped, SnapShaped
      <4>2. Reverify \in Int
        BY WallAges
      <4> QED BY <4>1, <4>2
    <3>2. NoView' = NoView
      BY DEF NoView, Snapshot
    <3> QED BY <2>4, <3>1, <3>2 DEF Waits, Covers, HasRows
  <2> QED BY <2>0, <2>1, <2>2, <2>3, <2>4
<1> QED BY <1>2, <1>3 DEF ReadersServed

(***************************************************************************)
(* The writer and the clock.                                               *)
(***************************************************************************)
LEMMA WriterServes ==
  ASSUME IInv, IInv', KInv, Writer \/ Tick, Silent
  PROVE  KInv'
<1> USE DEF files, readers, cache, lockLog
<1>1. UNCHANGED <<scene, reader, view, builds, lmu, fence, replaced, poller>>
  BY DEF Writer, Stamp, Write, Checkpoint, Damage, Tick
<1>2. QuestionsShaped'
  <2>1. now \in Nat /\ now' \in {now, now + 1}
    BY DEF KInv, QuestionsShaped, Writer, Stamp, Write, Checkpoint, Damage, Tick
  <2> QED BY <1>1, <2>1 DEF KInv, QuestionsShaped, QuestionShaped, SnapShaped
<1>3. PollerKeepsUp'
  BY <1>1, PollerRests DEF KInv
<1>4. Len(trail) \in Nat /\ Len(trail') \in Nat /\ Len(fence) \in Nat /\ now \in Int /\ trail \in Seq(Rows)
  BY DEF IInv, TrailTyped, KInv, QuestionsShaped
<1>5. Kept' => Kept /\ Len(trail) <= Len(trail') /\ now <= now'
  <2>1. CASE Stamp \/ Checkpoint
    BY <1>1, <1>4, <2>1 DEF Stamp, Checkpoint, Kept
  <2>2. CASE Write
    <3>1. PICK x \in Sessions :
            trail' = Append(trail, [session |-> x, at |-> writer.time, good |-> TRUE])
      BY <2>2 DEF Write
    <3>2. Len(trail') = Len(trail) + 1
      BY <1>4, <3>1
    <3>3. now' = now /\ damaged' = damaged
      BY <2>2 DEF Write
    <3> QED BY <1>1, <1>4, <3>2, <3>3 DEF Kept
  <2>3. CASE Damage
    <3>1. damaged' = now /\ now' = now
      BY <2>3 DEF Damage
    <3>2. now \in Nat
      BY DEF KInv, QuestionsShaped
    <3>3. ~Kept'
      BY <3>1, <3>2 DEF Kept, Never
    <3> QED BY <3>3
  <2>4. CASE Tick
    BY <1>1, <1>4, <2>4 DEF Tick, Kept
  <2> QED BY <2>1, <2>2, <2>3, <2>4 DEF Writer
<1>6. Kept' => ReadersServed'
  BY <1>1, <1>4, <1>5, OthersServed DEF KInv
<1>7. ViewsKeepUp'
  BY <1>3, StreamIsKeptNext DEF Silent, Quiet, ViewsKeepUp
<1> QED BY <1>2, <1>3, <1>6, <1>7 DEF KInv

(***************************************************************************)
(* The NockLock log only grows, or is replaced once; so when the poller    *)
(* finds it as it was at a look, nothing came between that look and now.   *)
(***************************************************************************)
LEMMA LogServes ==
  ASSUME IInv, IInv', KInv, LockLog \/ tailLock, Silent
  PROVE  KInv'
<1> USE DEF files, readers, cache, lockLog
<1> DEFINE R == [session : Sessions \cup {NoSession}, readable : BOOLEAN]
<1>1. UNCHANGED <<scene, reader, view, builds, lmu, trail, damaged, now>>
  BY DEF LockLog, tailLock, Fence, Replace, Look, PollFailed, Poll, Advance
<1>2. fence \in Seq(R) /\ Len(fence) \in Nat /\ replaced \in BOOLEAN /\ now \in Nat /\ Len(trail) \in Nat
  BY DEF KInv, QuestionsShaped, IInv, TrailTyped
<1>3. \/ fence' = fence /\ replaced' = replaced
      \/ /\ replaced' = replaced /\ poller' = poller
         /\ fence' \in Seq(R) /\ Len(fence') = Len(fence) + 1
      \/ /\ ~replaced /\ replaced' /\ replaced' \in BOOLEAN /\ poller' = poller
         /\ fence' = <<>>
  <2>1. CASE Fence
    <3>1. PICK x \in Sessions \cup {NoSession}, readable \in BOOLEAN :
            fence' = Append(fence, [session |-> x, readable |-> readable])
      BY <2>1 DEF Fence
    <3>2. [session |-> x, readable |-> readable] \in R
      OBVIOUS
    <3>3. fence' \in Seq(R) /\ Len(fence') = Len(fence) + 1
      BY <1>2, <3>1, <3>2, AppendProperties
    <3>4. replaced' = replaced /\ poller' = poller
      BY <2>1 DEF Fence
    <3> QED BY <3>3, <3>4
  <2>2. CASE Replace
    BY <2>2 DEF Replace
  <2>3. CASE tailLock
    BY <2>3 DEF tailLock, Look, PollFailed, Poll, Advance
  <2> QED BY <2>1, <2>2, <2>3 DEF LockLog
<1>4. fence' \in Seq(R) /\ replaced' \in BOOLEAN /\ Len(fence') \in Nat
  <2>1. <<>> \in Seq(R)
    OBVIOUS
  <2>2. fence' \in Seq(R) /\ replaced' \in BOOLEAN
    BY <1>2, <1>3, <2>1
  <2> QED BY <2>2
<1>5. QuestionsShaped'
  BY <1>1, <1>4 DEF KInv, QuestionsShaped, QuestionShaped, SnapShaped
<1>6. Kept' => Kept /\ Len(fence) <= Len(fence')
  BY <1>1, <1>2, <1>3 DEF Kept
<1>7. Kept' => ReadersServed'
  BY <1>1, <1>2, <1>4, <1>6, OthersServed DEF KInv
<1>8. \A sig : Earlier(sig) => Earlier(sig)'
  BY <1>2, <1>3 DEF Earlier
<1>9. PollerKeepsUp'
  <2>0. PollerKeepsUp
    BY DEF KInv
  <2>1. CASE UNCHANGED <<fence, replaced, poller>>
    BY <2>0, <2>1, PollerRests
  <2>2. CASE poller' = poller /\ replaced' = replaced /\ Len(fence') = Len(fence) + 1
    <3>1. poller.sig # <<Len(fence'), replaced'>>
      <4>1. CASE poller.sig = <<>>
        BY <4>1
      <4>2. ASSUME NEW n \in Nat, NEW f \in BOOLEAN, poller.sig = <<n, f>>, f = replaced => n <= Len(fence)
            PROVE  poller.sig # <<Len(fence'), replaced'>>
        <5>1. f = replaced => n < Len(fence')
          BY <1>2, <2>2, <4>2
        <5> QED BY <2>2, <4>2, <5>1
      <4> QED BY <2>0, <4>1, <4>2 DEF PollerKeepsUp, Earlier
    <3>2. Streamed'
      <4>1. Streamed
        BY <2>0 DEF PollerKeepsUp
      <4>2. poller.looked[replaced] # Never => poller.last \in Nat /\ poller.last <= Len(fence')
        BY <1>2, <2>2, <4>1 DEF Streamed, Streams, Never
      <4> QED BY <1>2, <2>2, <4>1, <4>2 DEF Streamed, Streams, Shows, InOrder, NoneAhead
    <3> QED BY <1>8, <2>0, <2>2, <3>1, <3>2 DEF PollerKeepsUp, LockSig
  <2>3. CASE poller' = poller /\ ~replaced /\ replaced'
    <3>1. poller.sig # <<Len(fence'), replaced'>>
      <4>1. CASE poller.sig = <<>>
        BY <4>1
      <4>2. ASSUME NEW n \in Nat, NEW f \in BOOLEAN, poller.sig = <<n, f>>, f => replaced
            PROVE  poller.sig # <<Len(fence'), replaced'>>
        <5>1. f = FALSE
          BY <2>3, <4>2
        <5>2. f # replaced'
          BY <2>3, <5>1
        <5>3. <<n, f>> # <<Len(fence'), replaced'>>
          BY <5>2
        <5> QED BY <4>2, <5>3
      <4> QED BY <2>0, <4>1, <4>2 DEF PollerKeepsUp, Earlier
    <3>2. Streamed'
      <4>1. Streamed
        BY <2>0 DEF PollerKeepsUp
      <4>2. replaced' = TRUE
        BY <1>4, <2>3
      <4>3. poller.looked[TRUE] = Never
        BY <2>3, <4>1 DEF Streamed, Streams, Shows, InOrder, NoneAhead
      <4>4. \A i \in 1..Len(poller.emitted) : ~poller.emitted[i].log
        BY <2>3, <4>1 DEF Streamed, Streams, Shows, InOrder, NoneAhead
      <4>5. \A i \in 1..Len(poller.emitted) : poller.emitted[i].log # replaced'
        BY <4>2, <4>4
      <4> QED BY <2>3, <4>1, <4>2, <4>3, <4>4, <4>5 DEF Streamed, Streams, Shows, InOrder, NoneAhead
    <3> QED BY <1>8, <2>0, <2>3, <3>1, <3>2 DEF PollerKeepsUp, LockSig
  <2>4. CASE UNCHANGED <<fence, replaced>> /\ tailLock
    <3>1. Earlier(LockSig) /\ Earlier(<<>>)
      BY <1>2 DEF Earlier, LockSig
    <3>2. LockSig' = LockSig /\ \A sig : Earlier(sig)' <=> Earlier(sig)
      BY <2>4 DEF LockSig, Earlier
    <3>3. CASE Look \/ PollFailed
      <4>1. PICK head \in {LockSig, <<>>} : poller' = [poller EXCEPT !.head = head]
        BY <3>3 DEF Look, PollFailed
      <4>2. /\ poller'.sig = poller.sig /\ poller'.last = poller.last
            /\ poller'.looked = poller.looked /\ poller'.emitted = poller.emitted
        BY <4>1
      <4>3. Streamed'
        BY <2>0, <2>4, <4>2 DEF PollerKeepsUp, Streamed
      <4>4. Earlier(poller'.head)
        BY <3>1, <4>1
      <4> QED BY <2>0, <2>4, <3>2, <4>2, <4>3, <4>4 DEF PollerKeepsUp
    <3>5. CASE Poll
      <4>1. poller'.sig = poller.head /\ poller'.head = <<>>
        BY <3>5 DEF Poll, Advance
      <4>2. Streamed' /\ poller'.last = Len(fence) /\ poller'.looked[replaced] # Never
        BY <1>2, <2>0, <3>5, PollStreams DEF PollerKeepsUp
      <4> QED BY <2>0, <2>4, <3>1, <3>2, <4>1, <4>2 DEF PollerKeepsUp
    <3> QED BY <2>4, <3>3, <3>5 DEF tailLock
  <2>5. CASE LockLog
    <3>1. poller' = poller
      BY <2>5 DEF LockLog, Fence, Replace
    <3> QED BY <1>3, <2>1, <2>2, <2>3, <3>1
  <2>6. CASE tailLock
    <3>1. UNCHANGED <<fence, replaced>>
      BY <2>6 DEF tailLock, Look, PollFailed, Poll, Advance
    <3> QED BY <2>4, <2>6, <3>1
  <2> QED BY <2>5, <2>6
<1>10. ViewsKeepUp'
  BY <1>9, StreamIsKeptNext DEF Silent, Quiet, ViewsKeepUp
<1> QED BY <1>5, <1>7, <1>9, <1>10 DEF KInv

-----------------------------------------------------------------------------
(***************************************************************************)
(* A step of one reader that touches neither the cached view nor the files.*)
(***************************************************************************)
LEMMA ReaderServed ==
  ASSUME KInv, NEW c \in Readers, NEW r, QuestionShaped(r),
         reader = [d \in Readers |-> reader[d]], reader' = [reader EXCEPT ![c] = r],
         UNCHANGED <<scene, trail, damaged, fence, replaced, poller, view, builds, now>>,
         lmu' = lmu \/ (lmu = NoReader /\ lmu' = c /\ r.at = "read"),
         Kept /\ ReadersServed /\ r.at # "idle" =>
           /\ AskedOf(r) /\ Places(r)
           /\ ThroughCache(r.kind) /\ r.at \in {"read", "fence"} => lmu' = c
           /\ r.at = "queued" => Waits(r)
           /\ r.at = "fence" => r.snap.failed \/ r.snap.rows = trail
  PROVE  QuestionsShaped' /\ PollerKeepsUp' /\ (Kept' => ReadersServed')
<1>1. reader'[c] = r /\ \A d \in Readers \ {c} : reader'[d] = reader[d]
  OBVIOUS
<1>2. QuestionsShaped'
  BY <1>1 DEF KInv, QuestionsShaped, QuestionShaped, SnapShaped
<1>3. PollerKeepsUp'
  BY PollerRests DEF KInv
<1>4. ASSUME Kept' PROVE ReadersServed'
  <2>1. Kept /\ ReadersServed
    BY <1>4 DEF Kept, KInv
  <2>2. view' # NoView' => Covers(view'.snap, view'.sig[1], view'.sig[4])
    BY <2>1 DEF ReadersServed, Covers, NoView, Snapshot
  <2>3. \A q : /\ AskedOf(q) <=> AskedOf(q)'
               /\ Places(q) <=> Places(q)'
               /\ ThroughCache(q.kind) <=> ThroughCache(q.kind)'
    BY DEF AskedOf, Places, ThroughCache, HasRows
  <2>4. ASSUME NEW q, AskedOf(q), Waits(q)
        PROVE  Waits(q)'
    <3>1. NoView' = NoView
      BY DEF NoView, Snapshot
    <3>2. ASSUME ~q.since.building, NEW d \in Readers, lmu' = d, reader'[d].at = "fence"
          PROVE  HasRows(reader'[d].snap, q.since.rows)
      <4>1. lmu' = lmu
        BY <1>1, <3>2
      <4>2. CASE d = c
        <5>1. r.at = "fence" /\ reader'[d] = r
          BY <1>1, <3>2, <4>2
        <5>2. r.snap.failed \/ r.snap.rows = trail
          BY <2>1, <5>1
        <5>3. q.since.rows <= Len(trail) /\ q.since.rows \in Nat
          BY <2>4 DEF AskedOf
        <5>4. trail' = trail
          OBVIOUS
        <5>5. q.since.rows \in Nat /\ Len(trail) >= q.since.rows
          BY <5>3
        <5> QED BY <5>1, <5>2, <5>5 DEF HasRows
      <4>3. CASE d # c
        BY <1>1, <2>4, <3>2, <4>1, <4>3 DEF Waits
      <4> QED BY <4>2, <4>3
    <3> QED BY <2>4, <3>1, <3>2 DEF Waits, Covers, HasRows
  <2>5. ASSUME NEW d \in Readers, reader'[d].at # "idle"
        PROVE  /\ AskedOf(reader[d])' /\ Places(reader[d])'
               /\ ThroughCache(reader[d].kind)' /\ reader'[d].at \in {"read", "fence"} => lmu' = d
               /\ reader'[d].at = "queued" => Waits(reader[d])'
    <3>0. PICK q : q = reader'[d]
      OBVIOUS
    <3>1. CASE d = c
      <4>1. q = r
        BY <1>1, <3>0, <3>1
      <4>2. /\ AskedOf(q) /\ Places(q)
            /\ ThroughCache(q.kind) /\ q.at \in {"read", "fence"} => lmu' = d
            /\ q.at = "queued" => Waits(q)
        BY <2>1, <2>5, <3>0, <3>1, <4>1
      <4>3. q.at = "queued" => Waits(q)'
        BY <2>4, <4>2
      <4> QED BY <2>3, <3>0, <4>2, <4>3 DEF AskedOf, Places, ThroughCache, Waits
    <3>2. CASE d # c
      <4>1. q = reader[d]
        BY <1>1, <3>0, <3>2
      <4>2. /\ AskedOf(q) /\ Places(q)
            /\ ThroughCache(q.kind) /\ q.at \in {"read", "fence"} => lmu = d
            /\ q.at = "queued" => Waits(q)
        BY <2>1, <2>5, <3>0, <4>1 DEF ReadersServed
      <4>3. lmu = d => lmu' = d
        BY WallNames
      <4>4. q.at = "queued" => Waits(q)'
        BY <2>4, <4>2
      <4> QED BY <2>3, <3>0, <4>2, <4>3, <4>4 DEF AskedOf, Places, ThroughCache, Waits
    <3> QED BY <3>1, <3>2
  <2> QED BY <2>2, <2>5 DEF ReadersServed
<1> QED BY <1>2, <1>3, <1>4

(***************************************************************************)
(* An answer, whether given from the view or from what was just read.      *)
(***************************************************************************)
LEMMA Answered ==
  ASSUME KInv, NEW c \in Readers, NEW r, QuestionShaped(r),
         reader = [d \in Readers |-> reader[d]], Answers(c, r),
         UNCHANGED <<scene, trail, damaged, fence, replaced, poller, view, builds, lmu, now>>,
         r.kind # "proof" /\ Kept /\ ReadersServed => Given(r)
  PROVE  KInv'
<1>1. reader' = [reader EXCEPT ![c] = Quiet] /\ answer' = [r EXCEPT !.at = "answered"]
  BY DEF Answers
<1>2. QuestionShaped(Quiet) /\ Quiet.at = "idle"
  BY DEF QuestionShaped, SnapShaped, Quiet, Snapshot
<1>3. QuestionsShaped' /\ PollerKeepsUp' /\ (Kept' => ReadersServed')
  BY <1>1, <1>2, ReaderServed
<1>4. /\ answer'.kind = r.kind /\ answer'.snap = r.snap /\ answer'.since = r.since
  BY <1>1 DEF QuestionShaped
<1>5. ViewsKeepUp'
  <2>1. answer'.kind # "proof" /\ Kept' => Given(answer')
    <3>1. Kept' => Kept /\ ReadersServed
      BY DEF Kept, KInv
    <3>2. Given(r) => Given(answer')
      BY <1>4 DEF Given
    <3> QED BY <1>4, <3>1, <3>2
  <2> QED BY <1>3, <2>1, StreamIsKeptNext DEF ViewsKeepUp, Given, Kept
<1> QED BY <1>3, <1>5 DEF KInv

LEMMA GoesOn ==
  ASSUME KInv, NEW c \in Readers, NEW r, QuestionShaped(r),
         reader = [d \in Readers |-> reader[d]], Becomes(c, r),
         UNCHANGED <<scene, trail, damaged, fence, replaced, poller, view, builds, now>>,
         lmu' = lmu \/ (lmu = NoReader /\ lmu' = c /\ r.at = "read"),
         Kept /\ ReadersServed /\ r.at # "idle" =>
           /\ AskedOf(r) /\ Places(r)
           /\ ThroughCache(r.kind) /\ r.at \in {"read", "fence"} => lmu' = c
           /\ r.at = "queued" => Waits(r)
           /\ r.at = "fence" => r.snap.failed \/ r.snap.rows = trail
  PROVE  KInv'
<1>1. reader' = [reader EXCEPT ![c] = r] /\ Silent
  BY DEF Becomes
<1>2. QuestionsShaped' /\ PollerKeepsUp' /\ (Kept' => ReadersServed')
  BY <1>1, ReaderServed
<1>3. ViewsKeepUp'
  BY <1>1, <1>2, StreamIsKeptNext DEF Silent, Quiet, ViewsKeepUp
<1> QED BY <1>2, <1>3 DEF KInv

-----------------------------------------------------------------------------
LEMMA AskServes ==
  ASSUME IInv, KInv, NEW c \in Readers, Ask(c)
  PROVE  KInv'
<1> USE DEF files, cache, lockLog
<1>1. /\ reader = [d \in Readers |-> reader[d]] /\ reader[c].at = "idle"
      /\ UNCHANGED <<scene, trail, damaged, fence, replaced, poller, view, builds, lmu, now>>
  BY DEF Ask, IInv, ReadersShaped
<1>2. PICK k \in scene.kinds :
        LET q == [Quiet EXCEPT !.kind = k, !.since = Present] IN
        IF ~ThroughCache(k) THEN Becomes(c, [q EXCEPT !.at = "start"])
        ELSE IF Fresh(k, headSig) THEN Answers(c, [q EXCEPT !.snap = view.snap])
        ELSE Becomes(c, [q EXCEPT !.at = "queued", !.sig = headSig, !.seen = builds])
  BY DEF Ask
<1> DEFINE q == [Quiet EXCEPT !.kind = k, !.since = Present]
           start == [q EXCEPT !.at = "start"]
           wait == [q EXCEPT !.at = "queued", !.sig = headSig, !.seen = builds]
           found == [q EXCEPT !.snap = view.snap]
<1>3. QuestionShaped(q) /\ q.kind = k /\ q.since = Present
  BY DEF QuestionShaped, SnapShaped, Quiet, Snapshot
<1>4. /\ QuestionShaped(start) /\ start.at = "start" /\ start.kind = k /\ start.since = Present
      /\ QuestionShaped(wait) /\ wait.at = "queued" /\ wait.kind = k /\ wait.since = Present
      /\ wait.sig = headSig /\ wait.seen = builds
      /\ QuestionShaped(found) /\ found.kind = k /\ found.since = Present /\ found.snap = view.snap
  BY <1>3 DEF QuestionShaped, KInv, QuestionsShaped
<1>5. /\ Present.rows = Len(trail) /\ Present.fence = Len(fence) /\ Present.building = (lmu # NoReader)
      /\ Present.young = (view # NoView /\ now - view.snap.at < Reverify)
  BY DEF Present
<1>6. Len(trail) \in Nat /\ Len(fence) \in Nat /\ builds \in Nat
  BY DEF KInv, QuestionsShaped, IInv, TrailTyped
<1>7. headSig[1] = Len(trail) /\ headSig[4] = Len(fence)
  BY DEF headSig, LockSig
<1> HIDE DEF q, start, wait, found
<1>8. CASE ~ThroughCache(k) /\ Becomes(c, start)
  <2>1. AskedOf(start) /\ Places(start)
    BY <1>4, <1>5, <1>6, <1>8 DEF AskedOf, Places
  <2> QED BY <1>1, <1>4, <1>8, <2>1, GoesOn
<1>9. CASE ThroughCache(k) /\ Becomes(c, wait)
  <2>1. AskedOf(wait) /\ Places(wait)
    BY <1>4, <1>5, <1>6, <1>7, <1>9 DEF AskedOf, Places
  <2>2. Waits(wait)
    <3>1. wait.seen \in Nat /\ wait.seen <= builds /\ builds = wait.seen
      BY <1>4, <1>6
    <3>2. view # NoView /\ now - view.snap.at < Reverify => wait.since.young
      BY <1>4, <1>5
    <3>3. ~wait.since.building => \A d \in Readers : lmu # d
      BY <1>4, <1>5, WallNames
    <3> QED BY <3>1, <3>2, <3>3 DEF Waits
  <2> QED BY <1>1, <1>4, <1>9, <2>1, <2>2, GoesOn
<1>10. CASE Fresh(k, headSig) /\ Answers(c, found)
  <2>1. k = "poll" /\ (Present.young \/ view.sig = headSig) /\ view # NoView
    BY <1>5, <1>10 DEF Fresh
  <2>2. Kept /\ ReadersServed => Given(found)
    <3>1. CASE Present.young
      BY <1>4, <2>1, <3>1 DEF Given
    <3>2. CASE view.sig = headSig
      BY <1>4, <1>5, <1>7, <2>1, <3>2 DEF ReadersServed, Covers, Given
    <3> QED BY <2>1, <3>1, <3>2
  <2> QED BY <1>1, <1>4, <1>10, <2>2, Answered
<1> QED BY <1>2, <1>8, <1>9, <1>10 DEF q, start, wait, found

LEMMA TurnServes ==
  ASSUME IInv, KInv, NEW c \in Readers, Turn(c)
  PROVE  KInv'
<1> USE DEF files, cache, lockLog
<1> DEFINE r == reader[c]
           found == [r EXCEPT !.snap = view.snap]
           reads == [r EXCEPT !.at = "read", !.snap = ReadFirst(Snapshot)]
<1>1. /\ reader = [d \in Readers |-> reader[d]] /\ r.at = "queued" /\ lmu = NoReader
      /\ UNCHANGED <<scene, trail, damaged, fence, replaced, poller, view, builds, now>>
  BY DEF Turn, IInv, ReadersShaped
<1>2. QuestionShaped(r) /\ SnapShaped(view.snap) /\ SnapShaped(ReadFirst(Snapshot))
  BY DEF KInv, QuestionsShaped, SnapShaped, ReadFirst, ReadOrder, Read, Snapshot
<1>3. /\ QuestionShaped(found) /\ found.kind = r.kind /\ found.since = r.since /\ found.snap = view.snap
      /\ QuestionShaped(reads) /\ reads.kind = r.kind /\ reads.since = r.since /\ reads.at = "read"
      /\ reads.sig = r.sig
  BY <1>2 DEF QuestionShaped
<1>4. Kept /\ ReadersServed => AskedOf(r) /\ Places(r) /\ Waits(r) /\ ThroughCache(r.kind)
                              /\ (view # NoView => Covers(view.snap, view.sig[1], view.sig[4]))
  BY <1>1 DEF ReadersServed, Places
<1> HIDE DEF found, reads
<1>5. CASE ((r.kind # "export" /\ builds # r.seen) \/ Fresh(r.kind, r.sig)) /\ Answers(c, found) /\ lmu' = lmu
  <2>1. ASSUME Kept, ReadersServed PROVE Given(found)
    <3>1. /\ AskedOf(r) /\ Waits(r) /\ ThroughCache(r.kind)
          /\ (view # NoView => Covers(view.snap, view.sig[1], view.sig[4]))
      BY <1>4, <2>1
    <3>2. r.since.rows \in Nat /\ r.since.fence \in Nat /\ r.sig[1] = r.since.rows /\ r.sig[4] = r.since.fence
      BY <3>1 DEF AskedOf
    <3>3. CASE r.kind \in {"poll", "connect"} /\ builds # r.seen
      BY <1>3, <3>1, <3>3 DEF Waits, Covers, Given
    <3>4. CASE Fresh(r.kind, r.sig) /\ builds = r.seen
      <4>1. r.kind = "poll" /\ view # NoView /\ (now - view.snap.at < Reverify \/ view.sig = r.sig)
        BY <3>4 DEF Fresh
      <4>2. CASE now - view.snap.at < Reverify
        BY <1>3, <3>1, <3>4, <4>1, <4>2 DEF Waits, Given
      <4>3. CASE view.sig = r.sig
        BY <1>3, <3>1, <3>2, <4>1, <4>3 DEF Covers, Given
      <4> QED BY <4>1, <4>2, <4>3
    <3> QED BY <1>5, <3>1, <3>3, <3>4 DEF ThroughCache, Fresh
  <2> QED BY <1>1, <1>3, <1>5, <2>1, Answered
<1>6. CASE Becomes(c, reads) /\ lmu' = c
  <2>1. Kept /\ ReadersServed => AskedOf(reads) /\ Places(reads)
    <3>1. r.kind # "session" \/ ~ThroughCache(r.kind)
      BY DEF ThroughCache
    <3> QED BY <1>3, <1>4, <3>1 DEF AskedOf, Places
  <2> QED BY <1>1, <1>3, <1>6, <2>1, GoesOn
<1> QED BY <1>5, <1>6 DEF Turn, found, reads

LEMMA StartServes ==
  ASSUME IInv, KInv, NEW c \in Readers, Start(c)
  PROVE  KInv'
<1> USE DEF files, cache, lockLog
<1> DEFINE r == reader[c]
<1>1. /\ reader = [d \in Readers |-> reader[d]] /\ r.at = "start"
      /\ UNCHANGED <<scene, trail, damaged, fence, replaced, poller, view, builds, lmu, now>>
  BY DEF Start, IInv, ReadersShaped
<1>2. PICK s \in (IF r.kind = "session" THEN LockRead(Snapshot) ELSE {Snapshot}) :
        Becomes(c, [r EXCEPT !.at = "read", !.snap = ReadFirst(s)])
  BY DEF Start
<1> DEFINE reads == [r EXCEPT !.at = "read", !.snap = ReadFirst(s)]
<1>3. /\ DOMAIN s = {"rows", "mark", "failed", "fence", "lockErr", "at"} /\ s.at = 0
      /\ r.kind = "session" => s.lockErr \/ s.fence = fence
  BY <1>2 DEF LockRead, Snapshot
<1>4. QuestionShaped(r) /\ now \in Nat
  BY DEF KInv, QuestionsShaped
<1>5. /\ SnapShaped(ReadFirst(s)) /\ ReadFirst(s).lockErr = s.lockErr /\ ReadFirst(s).fence = s.fence
  BY <1>3, <1>4 DEF SnapShaped, ReadFirst, ReadOrder, Read
<1>6. /\ QuestionShaped(reads) /\ reads.kind = r.kind /\ reads.since = r.since /\ reads.at = "read"
      /\ reads.sig = r.sig /\ reads.snap = ReadFirst(s)
  BY <1>4, <1>5 DEF QuestionShaped
<1> HIDE DEF reads
<1>7. ASSUME Kept, ReadersServed PROVE AskedOf(reads) /\ Places(reads) /\ ~ThroughCache(reads.kind)
  <2>1. AskedOf(r) /\ ~ThroughCache(r.kind)
    BY <1>1, <1>7 DEF ReadersServed, Places
  <2>2. r.since.fence \in Nat /\ Len(fence) >= r.since.fence
    BY <2>1 DEF AskedOf
  <2>3. Places(reads)
    BY <1>3, <1>5, <1>6, <2>2 DEF Places
  <2> QED BY <1>6, <2>1, <2>3 DEF AskedOf
<1> QED BY <1>1, <1>2, <1>6, <1>7, GoesOn DEF reads
LEMMA ReadSecondServes ==
  ASSUME IInv, KInv, NEW c \in Readers, ReadSecond(c)
  PROVE  KInv'
<1> USE DEF files, cache, lockLog
<1> DEFINE r == reader[c]
           s == Read(r.snap, ReadOrder[2])
           fenced == [r EXCEPT !.at = "fence", !.snap = s]
           ended == [r EXCEPT !.snap = s]
<1>1. /\ reader = [d \in Readers |-> reader[d]] /\ r.at = "read"
      /\ UNCHANGED <<scene, trail, damaged, fence, replaced, poller, view, builds, lmu, now>>
  BY DEF ReadSecond, IInv, ReadersShaped
<1>2. QuestionShaped(r) /\ now \in Nat
  BY DEF KInv, QuestionsShaped
<1>3. /\ SnapShaped(s) /\ s.rows = trail /\ s.failed = r.snap.failed
      /\ s.lockErr = r.snap.lockErr /\ s.fence = r.snap.fence
  BY <1>2 DEF QuestionShaped, SnapShaped, ReadOrder, Read
<1> HIDE DEF s
<1>4. /\ QuestionShaped(fenced) /\ fenced.at = "fence" /\ fenced.kind = r.kind
      /\ fenced.since = r.since /\ fenced.sig = r.sig /\ fenced.snap = s
      /\ QuestionShaped(ended) /\ ended.kind = r.kind /\ ended.since = r.since /\ ended.snap = s
  BY <1>2, <1>3 DEF QuestionShaped
<1> HIDE DEF fenced, ended
<1>5. ASSUME Kept, ReadersServed
      PROVE  /\ AskedOf(r) /\ Places(r) /\ (ThroughCache(r.kind) => lmu = c)
             /\ Len(trail) >= r.since.rows
  <2>1. AskedOf(r) /\ Places(r) /\ (ThroughCache(r.kind) => lmu = c)
    BY <1>1, <1>5 DEF ReadersServed
  <2>2. r.since.rows \in Nat /\ r.since.rows <= Len(trail) /\ Len(trail) \in Nat
    BY <2>1 DEF AskedOf, IInv, TrailTyped
  <2> QED BY <2>1, <2>2
<1>6. CASE r.kind \in {"poll", "connect", "export"} /\ Becomes(c, fenced)
  <2>1. Kept /\ ReadersServed => AskedOf(fenced) /\ Places(fenced)
    BY <1>3, <1>4, <1>5, <1>6 DEF AskedOf, Places, HasRows
  <2> QED BY <1>1, <1>3, <1>4, <1>5, <1>6, <2>1, GoesOn
<1>7. CASE r.kind \notin {"poll", "connect", "export"} /\ Answers(c, ended)
  <2>1. ASSUME Kept, ReadersServed PROVE Given(ended)
    <3>1. r.kind = "session" => r.snap.lockErr \/ Len(r.snap.fence) >= r.since.fence
      BY <1>1, <1>5, <2>1 DEF Places
    <3> QED BY <1>3, <1>4, <1>5, <1>7, <2>1, <3>1 DEF Given
  <2> QED BY <1>1, <1>4, <1>7, <2>1, Answered
<1> QED BY <1>6, <1>7 DEF ReadSecond, s, fenced, ended

LEMMA ReadFailsServes ==
  ASSUME IInv, KInv, NEW c \in Readers, ReadFails(c)
  PROVE  KInv'
<1> USE DEF files, cache, lockLog
<1> DEFINE r == reader[c]
           s == [r.snap EXCEPT !.failed = TRUE, !.at = now]
           t == [s EXCEPT !.rows = trail]
           fenced == [r EXCEPT !.at = "fence", !.snap = t]
           ended == [r EXCEPT !.snap = s]
<1>1. /\ reader = [d \in Readers |-> reader[d]] /\ r.at = "read"
      /\ UNCHANGED <<scene, trail, damaged, fence, replaced, poller, view, builds, lmu, now>>
  BY DEF ReadFails, IInv, ReadersShaped
<1>2. QuestionShaped(r) /\ now \in Nat
  BY DEF KInv, QuestionsShaped
<1>3. SnapShaped(s) /\ s.failed = TRUE
  BY <1>2 DEF QuestionShaped, SnapShaped
<1> HIDE DEF s
<1>4. SnapShaped(t) /\ t.failed = TRUE
  BY <1>3 DEF SnapShaped
<1> HIDE DEF t
<1>5. /\ QuestionShaped(fenced) /\ fenced.at = "fence" /\ fenced.kind = r.kind
      /\ fenced.since = r.since /\ fenced.sig = r.sig /\ fenced.snap = t
      /\ QuestionShaped(ended) /\ ended.kind = r.kind /\ ended.since = r.since /\ ended.snap = s
  BY <1>2, <1>3, <1>4 DEF QuestionShaped
<1> HIDE DEF fenced, ended
<1>6. CASE ThroughCache(r.kind) /\ Becomes(c, fenced)
  <2>1. ASSUME Kept, ReadersServed PROVE AskedOf(fenced) /\ Places(fenced) /\ lmu = c
    <3>1. AskedOf(r) /\ lmu = c
      BY <1>1, <1>6, <2>1 DEF ReadersServed
    <3>2. r.kind \in {"poll", "connect", "export"}
      BY <1>6 DEF ThroughCache
    <3> QED BY <1>4, <1>5, <3>1, <3>2 DEF AskedOf, Places, HasRows
  <2> QED BY <1>1, <1>4, <1>5, <1>6, <2>1, GoesOn
<1>7. CASE ~ThroughCache(r.kind) /\ Answers(c, ended)
  <2>1. Given(ended)
    BY <1>3, <1>5 DEF Given
  <2> QED BY <1>1, <1>5, <1>7, <2>1, Answered
<1> QED BY <1>6, <1>7 DEF ReadFails, s, t, fenced, ended

(***************************************************************************)
(* Whoever waited while a view was built is given that view, which has the *)
(* rows there were when the build began its second file, and the fence     *)
(* rows there are now.                                                     *)
(***************************************************************************)
LEMMA PublishServes ==
  ASSUME IInv, KInv, NEW c \in Readers, Publish(c)
  PROVE  KInv'
<1> USE DEF files, cache, lockLog
<1> DEFINE r == reader[c]
<1>1. /\ reader = [d \in Readers |-> reader[d]] /\ r.at = "fence"
      /\ UNCHANGED <<scene, trail, damaged, fence, replaced, poller, now>>
  BY DEF Publish, IInv, ReadersShaped
<1>2. PICK s \in LockRead(r.snap) :
        /\ Answers(c, [r EXCEPT !.snap = s])
        /\ IF ThroughCache(r.kind)
             THEN view' = [sig |-> HeadOf(c), snap |-> s] /\ builds' = builds + 1 /\ lmu' = NoReader
             ELSE UNCHANGED cache
  BY DEF Publish
<1> DEFINE ended == [r EXCEPT !.snap = s]
<1>3. QuestionShaped(r) /\ now \in Nat /\ builds \in Nat /\ Len(fence) \in Nat /\ Len(trail) \in Nat
  BY DEF KInv, QuestionsShaped, IInv, TrailTyped
<1>4. /\ SnapShaped(s) /\ s.rows = r.snap.rows /\ s.failed = r.snap.failed
      /\ s.lockErr = TRUE \/ s.fence = fence
  BY <1>2, <1>3 DEF QuestionShaped, SnapShaped, LockRead
<1>5. /\ QuestionShaped(ended) /\ ended.kind = r.kind /\ ended.since = r.since /\ ended.snap = s
  BY <1>3, <1>4 DEF QuestionShaped
<1> HIDE DEF ended
<1>6. ASSUME Kept, ReadersServed
      PROVE  /\ AskedOf(r) /\ HasRows(s, r.since.rows) /\ Covers(s, r.since.rows, r.since.fence)
             /\ r.kind \in {"poll", "connect", "export"} /\ (ThroughCache(r.kind) => lmu = c)
  <2>1. AskedOf(r) /\ Places(r) /\ (ThroughCache(r.kind) => lmu = c)
    BY <1>1, <1>6 DEF ReadersServed
  <2>2. Len(fence) >= r.since.fence
    BY <1>3, <2>1 DEF AskedOf
  <2>3. HasRows(s, r.since.rows) /\ r.kind \in {"poll", "connect", "export"}
    BY <1>1, <1>4, <2>1 DEF Places, HasRows
  <2> QED BY <1>4, <2>1, <2>2, <2>3 DEF HasRows, Covers
<1>7. Kept /\ ReadersServed => Given(ended)
  BY <1>5, <1>6 DEF Given, Covers
<1>8. CASE ~ThroughCache(r.kind)
  BY <1>1, <1>2, <1>5, <1>7, <1>8, Answered DEF ended
<1>9. CASE ThroughCache(r.kind)
  <2>1. /\ view' = [sig |-> r.sig, snap |-> s] /\ builds' = builds + 1 /\ lmu' = NoReader
        /\ reader' = [reader EXCEPT ![c] = Quiet] /\ answer' = [ended EXCEPT !.at = "answered"]
    BY <1>2, <1>9 DEF HeadOf, Answers, ended
  <2>2. /\ reader'[c] = Quiet /\ \A d \in Readers \ {c} : reader'[d] = reader[d]
        /\ view'.snap = s /\ view'.sig = r.sig
    BY <1>1, <2>1
  <2>3. QuestionShaped(Quiet) /\ Quiet.at = "idle"
    BY DEF QuestionShaped, SnapShaped, Quiet, Snapshot
  <2>4. QuestionsShaped'
    BY <1>1, <1>3, <1>4, <2>1, <2>2, <2>3 DEF KInv, QuestionsShaped, QuestionShaped, SnapShaped
  <2>5. PollerKeepsUp'
    BY <1>1, PollerRests DEF KInv
  <2>6. ASSUME Kept' PROVE ReadersServed'
    <3>1. Kept /\ ReadersServed
      BY <1>1, <2>6 DEF Kept, KInv
    <3>2. (view # NoView => Covers(view.snap, view.sig[1], view.sig[4]))'
      <4>1. Covers(s, r.sig[1], r.sig[4])
        BY <1>6, <1>9, <3>1 DEF AskedOf
      <4> QED BY <2>2, <4>1 DEF Covers
    <3>3. ASSUME NEW d \in Readers, reader'[d].at # "idle"
          PROVE  /\ AskedOf(reader[d])' /\ Places(reader[d])'
                 /\ ThroughCache(reader[d].kind)' /\ reader'[d].at \in {"read", "fence"} => lmu' = d
                 /\ reader'[d].at = "queued" => Waits(reader[d])'
      <4>0. PICK q : q = reader'[d]
        OBVIOUS
      <4>1. d # c /\ q = reader[d]
        BY <2>2, <2>3, <3>3, <4>0
      <4>2. /\ AskedOf(q) /\ Places(q)
            /\ ThroughCache(q.kind) /\ q.at \in {"read", "fence"} => lmu = d
            /\ q.at = "queued" => Waits(q)
        BY <3>1, <3>3, <4>0, <4>1 DEF ReadersServed
      <4>3. ~(ThroughCache(q.kind) /\ q.at \in {"read", "fence"})
        BY <1>6, <1>9, <3>1, <4>1, <4>2
      <4>4. ASSUME q.at = "queued" PROVE Waits(q)'
        <5>1. q.seen \in Nat /\ q.seen <= builds /\ Waits(q)
          BY <4>2, <4>4 DEF Waits
        <5>2. q.seen <= builds' /\ builds' # q.seen
          BY <1>3, <2>1, <5>1
        <5>3. ASSUME ~q.since.building PROVE Covers(s, q.since.rows, q.since.fence)
          <6>1. HasRows(r.snap, q.since.rows)
            BY <1>1, <1>6, <1>9, <3>1, <5>1, <5>3 DEF Waits
          <6>2. Len(fence) >= q.since.fence
            BY <1>3, <4>2 DEF AskedOf
          <6> QED BY <1>4, <6>1, <6>2 DEF HasRows, Covers
        <5>4. \A e \in Readers : lmu' # e
          BY <2>1, WallNames
        <5> QED BY <2>2, <5>1, <5>2, <5>3, <5>4 DEF Waits, Covers
      <4>5. /\ AskedOf(q) <=> AskedOf(q)'
            /\ Places(q) <=> Places(q)'
            /\ ThroughCache(q.kind) <=> ThroughCache(q.kind)'
        BY <1>1 DEF AskedOf, Places, ThroughCache, HasRows
      <4> QED BY <4>0, <4>2, <4>3, <4>4, <4>5 DEF AskedOf, Places, ThroughCache, Waits
    <3> QED BY <3>2, <3>3 DEF ReadersServed
  <2>7. ViewsKeepUp'
    <3>1. /\ answer'.kind = ended.kind /\ answer'.snap = ended.snap /\ answer'.since = ended.since
      BY <1>5, <2>1 DEF QuestionShaped
    <3>2. Kept' => Kept /\ ReadersServed
      BY <1>1 DEF Kept, KInv
    <3>3. Kept' => Given(answer')
      BY <1>7, <3>1, <3>2 DEF Given
    <3> QED BY <2>5, <3>3, StreamIsKeptNext DEF ViewsKeepUp, Given, Kept
  <2> QED BY <2>4, <2>5, <2>6, <2>7 DEF KInv
<1> QED BY <1>8, <1>9

LEMMA StepKInv == IInv /\ IInv' /\ KInv /\ [NextReadSide]_all => KInv'
<1> SUFFICES ASSUME IInv, IInv', KInv, [NextReadSide]_all PROVE KInv'
  OBVIOUS
<1>1. CASE UNCHANGED vars
  <2>1. PollerKeepsUp'
    BY <1>1, PollerRests DEF vars, lockLog, KInv
  <2>2. QuestionsShaped' /\ (Kept' => ReadersServed')
    BY <1>1 DEF vars, files, lockLog, cache, readers, KInv, QuestionsShaped, QuestionShaped,
                SnapShaped, Kept, ReadersServed, AskedOf, Places, ThroughCache, HasRows, Covers,
                Waits, NoView, Snapshot
  <2>3. ViewsKeepUp'
    BY <1>1, <2>1, StreamIsKeptNext DEF vars, files, lockLog, KInv, ViewsKeepUp
  <2> QED BY <2>1, <2>2, <2>3 DEF KInv
<1>2. CASE (Writer \/ Tick) /\ Silent
  BY <1>2, WriterServes
<1>3. CASE (LockLog \/ tailLock) /\ Silent
  BY <1>3, LogServes
<1>4. CASE \E c \in Readers : Request(c)
  <2>1. PICK c \in Readers : Request(c)
    BY <1>4
  <2> QED BY <2>1, AskServes, TurnServes, StartServes, ReadSecondServes, ReadFailsServes,
             PublishServes DEF Request
<1> QED BY <1>1, <1>2, <1>3, <1>4 DEF NextReadSide, all

(***************************************************************************)
(* Whatever is appended while a view is built, whoever shares a build, and *)
(* however often a file cannot be read, an answer has what was there when  *)
(* it was asked for; and the stream of fence rows has each at most once,   *)
(* in order, and each that came after the poller's first look at the log,  *)
(* or at the one that replaced it.                                         *)
(***************************************************************************)
THEOREM ViewsStayCurrent == SpecReadSide => []ViewsKeepUp
<1>1. KInv => ViewsKeepUp
  BY DEF KInv
<1> QED BY <1>1, InvHolds, InitKInv, StepKInv, PTL DEF SpecReadSide

-----------------------------------------------------------------------------
(***************************************************************************)
(* What damage shows in: of a sidecar that counts mark rows and a trail,   *)
(* one of the two when nothing was damaged, the other ever after.          *)
(***************************************************************************)
Whole(mark, rows) == mark <= Len(rows) /\ \A i \in 1..Len(rows) : rows[i].good
Spoiled == \E i \in 1..Len(trail) : ~trail[i].good

\* A trail that was cut is left alone by its writers.
DamageKnown ==
  /\ damaged = Never \/ (damaged \in Nat /\ damaged <= now)
  /\ Whole(hwm, trail) <=> damaged = Never
  /\ hwm > Len(trail) => writer.at = "idle"

SnapTyped(s) == s.mark \in Nat /\ s.rows \in Seq(Rows)
Sound(s) == s.failed \/ Whole(s.mark, s.rows)
Finds(s) == s.failed \/ ~Whole(s.mark, s.rows)
InTrail(s) ==
  s.failed \/ (Len(s.rows) <= Len(trail) /\ \A i \in 1..Len(s.rows) : s.rows[i] = trail[i])

\* What was so when a question was asked is so still.
AskedTruly(r) ==
  /\ r.since.damaged => damaged # Never
  /\ r.since.shown => r.since.damaged /\ damaged + Forced + 2 * BuildTime <= now

Timely(r) == r.snap.at \in Int /\ r.snap.at <= now /\ now <= r.snap.at + BuildTime

\* Between the sidecar and the trail: what is read since the damage will show it.
HalfRead(r) ==
  /\ damaged = Never => r.snap.mark <= Len(trail)
  /\ damaged # Never /\ (r.since.damaged \/ r.snap.at > damaged) => Spoiled \/ r.snap.mark = hwm

BothRead(r) ==
  /\ damaged = Never => Sound(r.snap)
  /\ damaged # Never /\ (r.since.damaged \/ r.snap.at > damaged + BuildTime) => Finds(r.snap)
  /\ r.since.damaged => InTrail(r.snap)

\* A view shared with those who waited for it was built while they waited.
SharedLate(r) ==
  /\ r.kind \in {"poll", "connect", "export"}
  /\ r.since.shown /\ builds # r.seen => view.snap.at > damaged + BuildTime

HonestReader(r) ==
  r.at # "idle" =>
    /\ AskedTruly(r)
    /\ r.at \in {"read", "fence"} => Timely(r)
    /\ r.at = "read" => HalfRead(r)
    /\ r.at = "fence" => BothRead(r)
    /\ r.at = "queued" => SharedLate(r)

HonestView ==
  /\ view.snap.at <= now
  /\ damaged = Never => Sound(view.snap)
  /\ damaged # Never /\ view.snap.at > damaged + BuildTime => Finds(view.snap)

\* After the damage, or, of a view that may be shared, long enough after it.
Late(r) == IF r.kind \in {"poll", "connect"} THEN r.since.shown ELSE r.since.damaged

HonestAnswer(r) ==
  /\ r.snap.failed \/ SnapTyped(r.snap)
  /\ damaged = Never => Sound(r.snap)
  /\ Late(r) => Finds(r.snap) /\ (r.kind = "export" => InTrail(r.snap))

VInv ==
  /\ scene \in Scenes
  /\ DamageKnown
  /\ \A c \in Readers : SnapTyped(reader[c].snap) /\ HonestReader(reader[c])
  /\ SnapTyped(view.snap) /\ HonestView
  /\ answer.at = "answered" => HonestAnswer(answer)

-----------------------------------------------------------------------------
LEMMA GuardOf ==
  ASSUME NEW s, s.failed \/ SnapTyped(s)
  PROVE  /\ Finds(s) => CheckGuard(s) \in {"TAMPERED", "UNVERIFIABLE"}
         /\ Sound(s) /\ s.mark # 0 => CheckGuard(s) \in {"", "UNVERIFIABLE"}
         /\ CheckGuard(s) \in {"", "TAMPERED", "UNVERIFIABLE"}
<1>1. CASE s.failed
  BY <1>1 DEF CheckGuard
<1>2. CASE SnapTyped(s) /\ ~s.failed
  <2>1. DOMAIN s.rows = 1..Len(s.rows) /\ Len(s.rows) \in Nat /\ s.mark \in Nat
    BY <1>2 DEF SnapTyped
  <2>2. Whole(s.mark, s.rows) <=> s.mark <= Len(s.rows) /\ BadRows(s) = {}
    BY <2>1 DEF Whole, BadRows
  <2>3. s.mark > Len(s.rows) <=> ~(s.mark <= Len(s.rows))
    BY <2>1
  <2> QED BY <1>2, <2>2, <2>3 DEF CheckGuard, Finds, Sound
<1> QED BY <1>1, <1>2

\* The worse of two verdicts.
LEMMA CombineTwo ==
  ASSUME NEW a \in DOMAIN failRank, NEW b \in DOMAIN failRank
  PROVE  /\ Combine({a, b}) \in {a, b}
         /\ failRank[Combine({a, b})] >= failRank[a] /\ failRank[Combine({a, b})] >= failRank[b]
<1>1. failRank[a] \in Int /\ failRank[b] \in Int
  BY DEF failRank
<1>2. \E v \in {a, b} : \A w \in {a, b} : failRank[v] >= failRank[w]
  BY <1>1
<1> HIDE DEF failRank
<1>3. /\ Combine({a, b}) \in {a, b}
      /\ \A w \in {a, b} : failRank[Combine({a, b})] >= failRank[w]
  BY <1>2 DEF Combine
<1> QED BY <1>3

LEMMA VerdictsKnown ==
  ASSUME scene \in Scenes, NEW s, s.failed \/ SnapTyped(s), NEW x
  PROVE  /\ LockChain(s, x) \in DOMAIN failRank /\ GuardChain(s, x) \in DOMAIN failRank
         /\ LockChain(s, x) = "TAMPERED" => scene.chain = "TAMPERED"
         /\ CheckGuard(s) # "" => GuardChain(s, x) = CheckGuard(s)
         /\ CheckGuard(s) = "" => GuardChain(s, x) \in {"NO_ROWS", "UNANCHORED", "PROTECTED"}
<1>1. scene.chain \in DOMAIN failRank
  BY WallChains
<1>2. DOMAIN failRank = {"TAMPERED", "UNVERIFIABLE", "UNSIGNED", "NO_ROWS", "UNANCHORED", "PROTECTED"}
  BY DEF failRank
<1>3. LockChain(s, x) \in DOMAIN failRank /\ (LockChain(s, x) = "TAMPERED" => scene.chain = "TAMPERED")
  BY <1>1, <1>2 DEF LockChain
<1>4. CheckGuard(s) = "" => GuardChain(s, x) \in {"NO_ROWS", "UNANCHORED", "PROTECTED"}
  BY DEF GuardChain, GuardVerdict
<1>5. CheckGuard(s) # "" => GuardChain(s, x) = CheckGuard(s)
  BY DEF GuardChain
<1> QED BY <1>2, <1>3, <1>4, <1>5, GuardOf

LEMMA SessionsKnown ==
  ASSUME scene \in Scenes, NEW s, s.failed \/ SnapTyped(s), NEW x
  PROVE  /\ Finds(s) => SessionVerdict(s, x) # "PROTECTED" /\ Badge(s, x) # "PROTECTED"
         /\ Sound(s) /\ s.mark # 0 /\ scene.chain # "TAMPERED" =>
              SessionVerdict(s, x) # "TAMPERED" /\ Badge(s, x) # "TAMPERED"
<1> DEFINE a == LockChain(s, x)
           b == GuardChain(s, x)
           v == SessionVerdict(s, x)
<1>1. a \in DOMAIN failRank /\ b \in DOMAIN failRank
  BY VerdictsKnown
<1>2. v \in {a, b} /\ failRank[v] >= failRank[b]
  BY <1>1, CombineTwo DEF SessionVerdict
<1>3. Finds(s) => b \in {"TAMPERED", "UNVERIFIABLE"}
  BY GuardOf, VerdictsKnown
<1>4. Sound(s) /\ s.mark # 0 => b # "TAMPERED"
  BY GuardOf, VerdictsKnown
<1>5. scene.chain # "TAMPERED" => a # "TAMPERED"
  BY VerdictsKnown
<1>6. b \in {"TAMPERED", "UNVERIFIABLE"} => v # "PROTECTED"
  BY <1>2 DEF failRank
<1>7. Badge(s, x) \in {"UNVERIFIABLE", v}
  BY DEF Badge
<1> HIDE DEF a, b, v
<1> QED BY <1>2, <1>3, <1>4, <1>5, <1>6, <1>7 DEF v

LEMMA TrailKnown ==
  ASSUME NEW s, s.failed \/ SnapTyped(s)
  PROVE  /\ Finds(s) => TrailVerdict(s) # "PROTECTED"
         /\ Sound(s) /\ s.mark # 0 => TrailVerdict(s) # "TAMPERED"
BY GuardOf DEF TrailVerdict, GuardVerdict

-----------------------------------------------------------------------------
LEMMA SmallestOf ==
  ASSUME NEW S \in SUBSET Nat, S # {}
  PROVE  \E m \in S : \A k \in S : m <= k
<1>1. IsWellFoundedOn(OpToRel(<, Nat), Nat)
  BY NatLessThanWellFounded
<1>2. PICK m \in S : \A k \in S : <<k, m>> \notin OpToRel(<, Nat)
  BY <1>1, WFMin
<1>3. \A k \in S : ~(k < m)
  BY <1>2 DEF OpToRel
<1> QED BY <1>3

\* No row of an export from the break on is marked as verified.
LEMMA MarksKnown ==
  ASSUME NEW s, s.failed \/ SnapTyped(s), Finds(s), NEW i \in DOMAIN s.rows, RowMark(s, i) = "verified"
  PROVE  /\ ~s.failed /\ DOMAIN s.rows = 1..Len(s.rows)
         /\ \A j \in 1..i : s.rows[j].good
<1>1. CheckGuard(s) = "TAMPERED" /\ ~s.failed
  <2>1. CheckGuard(s) \in {"TAMPERED", "UNVERIFIABLE"}
    BY GuardOf
  <2>2. CheckGuard(s) # "UNVERIFIABLE"
    BY DEF RowMark
  <2> QED BY <2>1, <2>2 DEF CheckGuard
<1>2. SnapTyped(s) /\ DOMAIN s.rows = 1..Len(s.rows) /\ Len(s.rows) \in Nat
  BY <1>1 DEF SnapTyped
<1>3. BadRows(s) # {} /\ i < Min(BadRows(s))
  BY <1>1 DEF RowMark
<1>4. BadRows(s) \in SUBSET Nat
  BY <1>2 DEF BadRows
<1>5. \A k \in BadRows(s) : Min(BadRows(s)) <= k
  BY <1>3, <1>4, SmallestOf DEF Min
<1>6. Min(BadRows(s)) \in Nat
  BY <1>3, <1>4, SmallestOf DEF Min
<1>7. ASSUME NEW j \in 1..i PROVE s.rows[j].good
  <2>1. j \in DOMAIN s.rows /\ j < Min(BadRows(s))
    BY <1>2, <1>3, <1>6
  <2> QED BY <1>4, <1>5, <1>6, <2>1 DEF BadRows
<1> QED BY <1>1, <1>2, <1>7

LEMMA AnswersTrue ==
  ASSUME scene \in Scenes,
         answer.at = "answered" => HonestAnswer(answer)
  PROVE  VerdictsAreTrue
<1> SUFFICES ASSUME answer.at = "answered", HonestAnswer(answer) PROVE VerdictsAreTrue
  BY DEF VerdictsAreTrue
<1> DEFINE r == answer
           s == answer.snap
<1>1. s.failed \/ SnapTyped(s)
  BY DEF HonestAnswer
<1>2. \A v \in OnSessions : \E x : v \in {SessionVerdict(s, x), Badge(s, x)}
  BY DEF OnSessions
<1>3. OnTrail \in {{"TAMPERED"}, {}, {"UNCONFIGURED"}, {TrailVerdict(s)}}
      /\ (OnTrail = {"TAMPERED"} /\ TrailVerdict(s) # "TAMPERED" => r.kind = "verify" /\ s.failed)
  BY DEF OnTrail
<1>4. ASSUME "TAMPERED" \in OnTrail \cup OnSessions, damaged = Never, s.mark # 0,
             ~(r.kind = "verify" /\ s.failed)
      PROVE  scene.chain = "TAMPERED" /\ "TAMPERED" \notin OnTrail
  <2>1. Sound(s)
    BY <1>4 DEF HonestAnswer
  <2>2. TrailVerdict(s) # "TAMPERED"
    BY <1>1, <1>4, <2>1, TrailKnown
  <2>3. "TAMPERED" \notin OnTrail
    BY <1>3, <1>4, <2>2
  <2>4. \E x : SessionVerdict(s, x) = "TAMPERED" \/ Badge(s, x) = "TAMPERED"
    BY <1>2, <1>4, <2>3
  <2> QED BY <1>1, <1>4, <2>1, <2>3, <2>4, SessionsKnown
<1>5. ASSUME Late(r) PROVE "PROTECTED" \notin OnTrail \cup OnSessions
  <2>1. Finds(s)
    BY <1>5 DEF HonestAnswer
  <2>2. "PROTECTED" \notin OnTrail
    BY <1>1, <1>3, <2>1, TrailKnown
  <2>3. "PROTECTED" \notin OnSessions
    BY <1>1, <1>2, <2>1, SessionsKnown
  <2> QED BY <2>2, <2>3
<1>6. ASSUME Late(r), r.kind = "export", NEW i \in DOMAIN s.rows, RowMark(s, i) = "verified",
             NEW j \in 1..i
      PROVE  trail[j].good
  <2>1. Finds(s) /\ InTrail(s)
    BY <1>6 DEF HonestAnswer
  <2>2. ~s.failed /\ DOMAIN s.rows = 1..Len(s.rows) /\ s.rows[j].good
    BY <1>1, <1>6, <2>1, MarksKnown
  <2>3. SnapTyped(s) /\ Len(s.rows) \in Nat
    BY <1>1, <2>2 DEF SnapTyped
  <2>4. j \in 1..Len(s.rows)
    BY <1>6, <2>2, <2>3
  <2> QED BY <2>1, <2>2, <2>4 DEF InTrail
<1> HIDE DEF OnTrail, OnSessions
<1> QED BY <1>4, <1>5, <1>6 DEF VerdictsAreTrue, Late

-----------------------------------------------------------------------------
LEMMA InitVInv == InitReadSide => VInv
<1> SUFFICES ASSUME Init, IInv, KInv PROVE VInv
  BY InitInv, InitKInv DEF InitReadSide
<1>0. <<>> \in Seq(Rows) /\ Len(<<>>) = 0
  OBVIOUS
<1>1. Whole(hwm, trail) /\ hwm = Len(trail) /\ Len(trail) \in Nat
  <2>1. hwm = Len(trail) /\ Len(trail) \in Nat
    BY DEF Init, IInv, TrailTyped
  <2>2. ASSUME NEW i \in 1..Len(trail) PROVE trail[i].good
    BY <2>2 DEF Init
  <2> QED BY <2>1, <2>2 DEF Whole
<1>2. DamageKnown
  BY <1>1 DEF DamageKnown, Init
<1>3. SnapTyped(Snapshot) /\ Whole(Snapshot.mark, Snapshot.rows)
  BY <1>0 DEF SnapTyped, Snapshot, Whole
<1>4. \A c \in Readers : SnapTyped(reader[c].snap) /\ HonestReader(reader[c])
  BY <1>3 DEF Init, Quiet, HonestReader
<1>5. SnapTyped(view.snap) /\ HonestView
  BY <1>3 DEF Init, NoView, HonestView, Sound, Snapshot
<1>6. scene \in Scenes /\ answer.at # "answered"
  BY DEF Init, Quiet
<1> QED BY <1>2, <1>4, <1>5, <1>6 DEF VInv

-----------------------------------------------------------------------------
(***************************************************************************)
(* The writer, the fence rows and the clock.                               *)
(***************************************************************************)
LEMMA FilesMove ==
  ASSUME IInv, IInv', KInv, VInv, UNCHANGED <<scene, reader, view, builds>>, Silent,
         DamageKnown',
         damaged' = damaged \/ (damaged = Never /\ damaged' = now /\ now' = now),
         damaged' = Never => Len(trail) <= Len(trail'),
         damaged # Never =>
           /\ Spoiled => Spoiled'
           /\ hwm' = hwm \/ Spoiled
           /\ Len(trail) <= Len(trail') /\ \A i \in 1..Len(trail) : trail'[i] = trail[i],
         now' = now \/ (now' = now + 1 /\ \A c \in Readers : Reading(c) => now - reader[c].snap.at < BuildTime)
  PROVE  VInv'
<1>0. /\ now \in Nat /\ now' \in Nat /\ now <= now' /\ BuildTime \in Nat /\ Forced \in Nat
      /\ trail \in Seq(Rows) /\ trail' \in Seq(Rows) /\ Len(trail) \in Nat /\ Len(trail') \in Nat
      /\ view.snap.at \in Int
  BY WallAges DEF KInv, QuestionsShaped, SnapShaped, IInv, TrailTyped
<1>1. DamageKnown /\ (damaged = Never \/ damaged \in Nat) /\ (damaged' = Never \/ damaged' \in Nat)
  BY DEF VInv, DamageKnown
<1>n. Never = -1
  BY DEF Never
<1>2. ASSUME NEW c \in Readers
      PROVE  SnapTyped(reader[c].snap) /\ HonestReader(reader[c])'
  <2> DEFINE r == reader[c]
  <2>1. SnapTyped(r.snap) /\ HonestReader(r) /\ r.snap.at \in Int
    BY DEF VInv, KInv, QuestionsShaped, QuestionShaped, SnapShaped
  <2>2. reader' = reader /\ r.snap.mark \in Nat
    BY <2>1 DEF SnapTyped
  <2>3. ASSUME r.at # "idle" PROVE AskedTruly(r)'
    BY <1>0, <1>1, <2>1, <2>3 DEF HonestReader, AskedTruly
  <2>4. ASSUME r.at \in {"read", "fence"} PROVE Timely(r) /\ Timely(r)'
    <3>1. Timely(r)
      BY <2>1, <2>4 DEF HonestReader
    <3>2. r.at \in {"read", "fence"} <=> Reading(c)
      BY DEF Reading
    <3> QED BY <1>0, <2>4, <3>1, <3>2 DEF Timely
  <2>5. ASSUME r.at = "read" PROVE HalfRead(r)'
    <3>1. HalfRead(r) /\ AskedTruly(r) /\ r.snap.at <= now
      BY <2>1, <2>4, <2>5 DEF HonestReader, Timely
    <3>2. CASE damaged' = Never
      BY <1>0, <1>1, <1>n, <2>2, <3>1, <3>2 DEF HalfRead
    <3>3. CASE damaged' # Never /\ damaged' = damaged
      BY <3>1, <3>3 DEF HalfRead
    <3>4. CASE damaged' # Never /\ damaged = Never /\ damaged' = now
      BY <1>0, <2>1, <3>1, <3>4 DEF HalfRead, AskedTruly
    <3> QED BY <3>2, <3>3, <3>4
  <2>6. ASSUME r.at = "fence" PROVE BothRead(r)'
    <3>1. BothRead(r) /\ AskedTruly(r) /\ r.snap.at <= now
      BY <2>1, <2>4, <2>6 DEF HonestReader, Timely
    <3>2. \A s : Sound(s)' <=> Sound(s)
      BY DEF Sound, Whole
    <3>3. \A s : Finds(s)' <=> Finds(s)
      BY DEF Finds, Whole
    <3>4. InTrail(r.snap) /\ damaged # Never => InTrail(r.snap)'
      <4>1. SUFFICES ASSUME ~r.snap.failed, InTrail(r.snap), damaged # Never PROVE InTrail(r.snap)'
        BY DEF InTrail
      <4>2. Len(r.snap.rows) \in Nat /\ Len(r.snap.rows) <= Len(trail)
        BY <2>1, <4>1 DEF SnapTyped, InTrail
      <4>3. \A i \in 1..Len(r.snap.rows) : i \in 1..Len(trail)
        BY <1>0, <4>2
      <4> QED BY <1>0, <4>1, <4>2, <4>3 DEF InTrail
    <3>5. CASE damaged' = Never \/ (damaged' # Never /\ damaged' = damaged)
      BY <1>0, <1>1, <1>n, <3>1, <3>2, <3>3, <3>4, <3>5 DEF BothRead, AskedTruly
    <3>6. CASE damaged' # Never /\ damaged = Never /\ damaged' = now
      BY <1>0, <2>1, <3>1, <3>6 DEF BothRead, AskedTruly
    <3> QED BY <3>5, <3>6
  <2>7. ASSUME r.at = "queued" PROVE SharedLate(r)'
    BY <2>1, <2>7 DEF HonestReader, SharedLate, AskedTruly
  <2> QED BY <2>1, <2>2, <2>3, <2>4, <2>5, <2>6, <2>7 DEF HonestReader
<1>3. HonestView'
  <2>1. HonestView
    BY DEF VInv
  <2>2. Sound(view.snap)' <=> Sound(view.snap)
    BY DEF Sound, Whole
  <2>3. Finds(view.snap)' <=> Finds(view.snap)
    BY DEF Finds, Whole
  <2> QED BY <1>0, <1>1, <1>n, <2>1, <2>2, <2>3 DEF HonestView
<1>4. answer'.at # "answered"
  BY DEF Silent, Quiet
<1>5. scene' \in Scenes /\ SnapTyped(view.snap)'
  BY DEF VInv, SnapTyped
<1>6. \A c \in Readers : (SnapTyped(reader[c].snap) /\ HonestReader(reader[c]))'
  BY <1>2 DEF SnapTyped
<1> QED BY <1>3, <1>4, <1>5, <1>6 DEF VInv

LEMMA WriterHonest ==
  ASSUME IInv, IInv', KInv, VInv, Writer \/ Tick, Silent
  PROVE  VInv'
<1> USE DEF files, readers, cache, lockLog
<1>1. UNCHANGED <<scene, reader, view, builds>>
  BY DEF Writer, Stamp, Write, Checkpoint, Damage, Tick
<1>2. /\ trail \in Seq(Rows) /\ Len(trail) \in Nat /\ hwm \in Nat /\ now \in Nat
      /\ trail' \in Seq(Rows) /\ Len(trail') \in Nat /\ DamageKnown
  BY DEF IInv, TrailTyped, KInv, QuestionsShaped, VInv
<1>n. Never = -1
  BY DEF Never
<1>3. CASE Stamp
  <2>1. UNCHANGED <<trail, hwm, damaged, now>> /\ hwm <= Len(trail)
    BY <1>3 DEF Stamp
  <2>2. DamageKnown'
    BY <1>2, <2>1 DEF DamageKnown, Whole
  <2> QED BY <1>1, <1>2, <2>1, <2>2, FilesMove DEF Spoiled
<1>4. CASE Write
  <2>1. UNCHANGED <<hwm, damaged, now>> /\ writer.at = "stamped"
    BY <1>4 DEF Write
  <2>2. PICK x \in Sessions :
          trail' = Append(trail, [session |-> x, at |-> writer.time, good |-> TRUE])
    BY <1>4 DEF Write
  <2> DEFINE row == [session |-> x, at |-> writer.time, good |-> TRUE]
  <2>3. /\ Len(trail') = Len(trail) + 1
        /\ \A i \in 1..Len(trail) : i \in 1..Len(trail') /\ trail'[i] = trail[i]
        /\ trail'[Len(trail) + 1].good
    BY <1>2, <2>2
  <2>4. hwm <= Len(trail) /\ hwm <= Len(trail')
    BY <1>2, <2>1, <2>3 DEF DamageKnown
  <2>5. Whole(hwm, trail') <=> Whole(hwm, trail)
    <3>1. \A i \in 1..Len(trail') : i \in 1..Len(trail) \/ i = Len(trail) + 1
      BY <1>2, <2>3
    <3> QED BY <2>3, <2>4, <3>1 DEF Whole
  <2>6. DamageKnown'
    BY <1>2, <2>1, <2>4, <2>5 DEF DamageKnown, Whole
  <2>7. Spoiled => Spoiled'
    BY <2>3 DEF Spoiled
  <2> QED BY <1>1, <1>2, <2>1, <2>3, <2>6, <2>7, FilesMove
<1>5. CASE Checkpoint
  <2>1. UNCHANGED <<trail, damaged, now>> /\ writer.at = "appended" /\ hwm' \in {hwm, Len(trail)}
        /\ writer'.at = "idle"
    BY <1>5 DEF Checkpoint
  <2>2. hwm <= Len(trail) /\ hwm' <= Len(trail)
    BY <1>2, <2>1 DEF DamageKnown
  <2>3. DamageKnown'
    BY <1>2, <2>1, <2>2 DEF DamageKnown, Whole
  <2>4. damaged # Never => Spoiled
    BY <1>2, <2>2 DEF DamageKnown, Whole, Spoiled
  <2> QED BY <1>1, <1>2, <2>1, <2>3, <2>4, FilesMove DEF Spoiled
<1>6. CASE Damage
  <2>1. UNCHANGED <<hwm, writer, now>> /\ damaged = Never /\ damaged' = now /\ writer.at = "idle"
    BY <1>6 DEF Damage
  <2>2. ~Whole(hwm, trail')
    <3>1. ASSUME NEW k \in DOMAIN trail, trail' = [trail EXCEPT ![k].good = FALSE]
          PROVE  ~Whole(hwm, trail')
      <4>1. k \in 1..Len(trail') /\ trail[k] \in Rows
        BY <1>2, <3>1
      <4>2. trail'[k] = [trail[k] EXCEPT !.good = FALSE]
        BY <1>2, <3>1
      <4>3. ~trail'[k].good
        BY <4>1, <4>2 DEF Rows
      <4> QED BY <4>1, <4>3 DEF Whole
    <3>2. ASSUME hwm > 0, hwm = Len(trail), trail' = SubSeq(trail, 1, hwm - 1)
          PROVE  ~Whole(hwm, trail')
      <4>1. Len(trail') = hwm - 1
        BY <1>2, <3>2, SubSeqProperties
      <4> QED BY <1>2, <4>1 DEF Whole
    <3> QED BY <1>6, <3>1, <3>2 DEF Damage
  <2>3. DamageKnown'
    BY <1>2, <1>n, <2>1, <2>2 DEF DamageKnown, Whole
  <2>4. damaged' # Never
    BY <1>2, <1>n, <2>1
  <2> QED BY <1>1, <2>1, <2>3, <2>4, FilesMove
<1>7. CASE Tick
  <2>1. UNCHANGED <<trail, hwm, writer, damaged>> /\ now' = now + 1
        /\ \A c \in Readers : Reading(c) => now - reader[c].snap.at < BuildTime
    BY <1>7 DEF Tick
  <2>2. DamageKnown'
    BY <1>2, <2>1 DEF DamageKnown, Whole
  <2> QED BY <1>1, <1>2, <2>1, <2>2, FilesMove DEF Spoiled
<1> QED BY <1>3, <1>4, <1>5, <1>6, <1>7 DEF Writer

LEMMA LogHonest ==
  ASSUME IInv, IInv', KInv, VInv, LockLog \/ tailLock, Silent
  PROVE  VInv'
<1>1. UNCHANGED <<scene, reader, view, builds, trail, hwm, writer, damaged, now>>
  BY DEF LockLog, tailLock, Fence, Replace, Look, PollFailed, Poll, Advance, files, readers, cache
<1>2. DamageKnown'
  BY <1>1 DEF VInv, DamageKnown, Whole
<1>3. Len(trail) <= Len(trail)
  BY DEF IInv, TrailTyped
<1> QED BY <1>1, <1>2, <1>3, FilesMove DEF Spoiled

-----------------------------------------------------------------------------
(***************************************************************************)
(* A step of one reader that leaves the files alone.                       *)
(***************************************************************************)
LEMMA ReaderHonest ==
  ASSUME IInv, VInv, NEW c \in Readers, NEW r, SnapTyped(r.snap), HonestReader(r),
         reader' = [reader EXCEPT ![c] = r],
         UNCHANGED <<scene, trail, hwm, writer, damaged, view, builds, now>>,
         answer'.at = "answered" => HonestAnswer(answer')
  PROVE  VInv'
<1>1. reader'[c] = r /\ \A d \in Readers \ {c} : reader'[d] = reader[d]
  BY DEF IInv, ReadersShaped
<1>2. \A q : HonestReader(q)' <=> HonestReader(q)
  BY DEF HonestReader, AskedTruly, Timely, HalfRead, BothRead, SharedLate, Sound, Finds, InTrail,
         Whole, Spoiled
<1>3. \A d \in Readers : (SnapTyped(reader[d].snap) /\ HonestReader(reader[d]))'
  <2> SUFFICES ASSUME NEW d \in Readers PROVE (SnapTyped(reader[d].snap) /\ HonestReader(reader[d]))'
    OBVIOUS
  <2>1. PICK q : q = reader'[d]
    OBVIOUS
  <2>2. SnapTyped(q.snap) /\ HonestReader(q)
    BY <1>1, <2>1 DEF VInv
  <2>3. HonestReader(q)'
    BY <1>2, <2>2
  <2> QED BY <2>1, <2>2, <2>3
       DEF HonestReader, AskedTruly, Timely, HalfRead, BothRead, SharedLate, Sound, Finds, InTrail,
           Whole, Spoiled, SnapTyped
<1>4. DamageKnown' /\ HonestView' /\ SnapTyped(view.snap)'
  BY DEF VInv, DamageKnown, HonestView, Sound, Finds, Whole, SnapTyped
<1>5. (answer.at = "answered" => HonestAnswer(answer))'
  BY DEF HonestAnswer, Sound, Finds, InTrail, Whole, SnapTyped, Late
<1> QED BY <1>3, <1>4, <1>5 DEF VInv

LEMMA AnswersHonestly ==
  ASSUME IInv, VInv, NEW c \in Readers, NEW r, QuestionShaped(r), HonestAnswer(r), Answers(c, r),
         UNCHANGED <<scene, trail, hwm, writer, damaged, view, builds, now>>
  PROVE  VInv'
<1>1. reader' = [reader EXCEPT ![c] = Quiet] /\ answer' = [r EXCEPT !.at = "answered"]
  BY DEF Answers
<1>2. SnapTyped(Quiet.snap) /\ HonestReader(Quiet)
  <2>1. Quiet.snap = Snapshot /\ Quiet.at = "idle"
    BY DEF Quiet
  <2>2. <<>> \in Seq(Rows)
    OBVIOUS
  <2> QED BY <2>1, <2>2 DEF SnapTyped, Snapshot, HonestReader
<1>3. answer'.kind = r.kind /\ answer'.snap = r.snap /\ answer'.since = r.since
  BY <1>1 DEF QuestionShaped
<1>4. HonestAnswer(answer')
  BY <1>3 DEF HonestAnswer, Late
<1> QED BY <1>1, <1>2, <1>4, ReaderHonest

LEMMA GoesOnHonestly ==
  ASSUME IInv, VInv, NEW c \in Readers, NEW r, SnapTyped(r.snap), HonestReader(r), Becomes(c, r),
         UNCHANGED <<scene, trail, hwm, writer, damaged, view, builds, now>>
  PROVE  VInv'
<1>1. reader' = [reader EXCEPT ![c] = r] /\ answer'.at # "answered"
  BY DEF Becomes, Silent, Quiet
<1> QED BY <1>1, ReaderHonest

-----------------------------------------------------------------------------
\* A view young enough for a poll was built long enough after the damage.
LEMMA FreshFinds ==
  ASSUME KInv, VInv, NEW k, NEW sig, Fresh(k, sig), damaged # Never,
         damaged + Forced + 2 * BuildTime <= now
  PROVE  Finds(view.snap)
<1>1. /\ now \in Nat /\ view.snap.at \in Int /\ damaged \in Nat /\ BuildTime \in Nat
      /\ Forced \in Nat /\ Reverify \in Nat /\ Reverify < Forced
  BY WallAges DEF KInv, QuestionsShaped, SnapShaped, VInv, DamageKnown
<1>2. now - view.snap.at < Forced
  BY <1>1 DEF Fresh
<1>3. view.snap.at > damaged + BuildTime
  BY <1>1, <1>2
<1> QED BY <1>3 DEF VInv, HonestView

LEMMA AskHonest ==
  ASSUME IInv, KInv, VInv, NEW c \in Readers, Ask(c)
  PROVE  VInv'
<1> USE DEF files, cache, lockLog
<1>1. UNCHANGED <<scene, trail, hwm, writer, damaged, view, builds, now>>
  BY DEF Ask
<1>2. PICK k \in scene.kinds :
        LET q == [Quiet EXCEPT !.kind = k, !.since = Present] IN
        IF ~ThroughCache(k) THEN Becomes(c, [q EXCEPT !.at = "start"])
        ELSE IF Fresh(k, headSig) THEN Answers(c, [q EXCEPT !.snap = view.snap])
        ELSE Becomes(c, [q EXCEPT !.at = "queued", !.sig = headSig, !.seen = builds])
  BY DEF Ask
<1> DEFINE q == [Quiet EXCEPT !.kind = k, !.since = Present]
           start == [q EXCEPT !.at = "start"]
           wait == [q EXCEPT !.at = "queued", !.sig = headSig, !.seen = builds]
           found == [q EXCEPT !.snap = view.snap]
<1>3. QuestionShaped(q) /\ q.kind = k /\ q.since = Present /\ SnapTyped(q.snap)
  <2>1. <<>> \in Seq(Rows)
    OBVIOUS
  <2>2. QuestionShaped(q) /\ q.kind = k /\ q.since = Present /\ q.snap = Snapshot
    BY DEF QuestionShaped, SnapShaped, Quiet, Snapshot
  <2>3. Snapshot.mark = 0 /\ Snapshot.rows = <<>>
    BY DEF Snapshot
  <2> HIDE DEF q
  <2>4. SnapTyped(q.snap)
    BY <2>1, <2>2, <2>3 DEF SnapTyped
  <2> QED BY <2>2, <2>4
<1>4. /\ start.at = "start" /\ start.since = Present /\ start.snap = q.snap
      /\ wait.at = "queued" /\ wait.since = Present /\ wait.seen = builds /\ wait.snap = q.snap
      /\ wait.kind = k
      /\ QuestionShaped(found) /\ found.kind = k /\ found.since = Present /\ found.snap = view.snap
  BY <1>3 DEF QuestionShaped, KInv, QuestionsShaped
<1>5. /\ Present.damaged <=> damaged # Never
      /\ Present.shown <=> damaged # Never /\ damaged + Forced + 2 * BuildTime <= now
  BY DEF Present
<1> HIDE DEF q, start, wait, found
<1>6. CASE Becomes(c, start)
  <2>1. HonestReader(start)
    BY <1>4, <1>5 DEF HonestReader, AskedTruly
  <2> QED BY <1>1, <1>3, <1>4, <1>6, <2>1, GoesOnHonestly
<1>7. CASE ThroughCache(k) /\ Becomes(c, wait)
  <2>1. HonestReader(wait)
    BY <1>4, <1>5, <1>7 DEF HonestReader, AskedTruly, SharedLate, ThroughCache
  <2> QED BY <1>1, <1>3, <1>4, <1>7, <2>1, GoesOnHonestly
<1>8. CASE Fresh(k, headSig) /\ Answers(c, found)
  <2>1. k = "poll" /\ (Present.shown => Finds(view.snap))
    BY <1>5, <1>8, FreshFinds DEF Fresh
  <2>2. HonestAnswer(found)
    BY <1>4, <2>1 DEF HonestAnswer, Late, VInv, HonestView
  <2> QED BY <1>1, <1>4, <1>8, <2>2, AnswersHonestly
<1> QED BY <1>2, <1>6, <1>7, <1>8 DEF q, start, wait, found

\* Who turns to the files finds the sidecar there is.
LEMMA ReadsHonestly ==
  ASSUME KInv, VInv, IInv, NEW r, AskedTruly(r), r.at = "read", r.snap.mark = hwm, r.snap.at = now
  PROVE  HonestReader(r)
<1>1. now \in Nat /\ BuildTime \in Nat /\ hwm \in Nat
  BY WallAges DEF KInv, QuestionsShaped, IInv, TrailTyped
<1>2. damaged = Never => hwm <= Len(trail)
  BY DEF VInv, DamageKnown, Whole
<1> QED BY <1>1, <1>2 DEF HonestReader, Timely, HalfRead

LEMMA TurnHonest ==
  ASSUME IInv, KInv, VInv, NEW c \in Readers, Turn(c)
  PROVE  VInv'
<1> USE DEF files, cache, lockLog
<1> DEFINE r == reader[c]
           found == [r EXCEPT !.snap = view.snap]
           reads == [r EXCEPT !.at = "read", !.snap = ReadFirst(Snapshot)]
<1>1. r.at = "queued" /\ UNCHANGED <<scene, trail, hwm, writer, damaged, view, builds, now>>
  BY DEF Turn
<1>2. QuestionShaped(r) /\ HonestReader(r) /\ AskedTruly(r) /\ SharedLate(r)
  BY <1>1 DEF KInv, QuestionsShaped, VInv, HonestReader
<1>3. /\ QuestionShaped(found) /\ found.kind = r.kind /\ found.since = r.since /\ found.snap = view.snap
      /\ reads.since = r.since /\ reads.at = "read" /\ reads.snap = ReadFirst(Snapshot)
  BY <1>2 DEF QuestionShaped, KInv, QuestionsShaped
<1> HIDE DEF found, reads
<1>4. CASE ((r.kind # "export" /\ builds # r.seen) \/ Fresh(r.kind, r.sig)) /\ Answers(c, found)
  <2>1. ASSUME r.since.shown PROVE Finds(view.snap)
    <3>1. damaged # Never /\ damaged + Forced + 2 * BuildTime <= now
      BY <1>2, <2>1 DEF AskedTruly
    <3>2. CASE builds # r.seen
      BY <1>2, <2>1, <3>1, <3>2 DEF SharedLate, VInv, HonestView
    <3>3. CASE Fresh(r.kind, r.sig)
      BY <3>1, <3>3, FreshFinds
    <3> QED BY <1>4, <3>2, <3>3
  <2>2. r.kind \in {"poll", "connect"}
    <3>1. r.kind # "export"
      BY <1>4 DEF Fresh
    <3> QED BY <1>2, <3>1 DEF SharedLate
  <2>3. HonestAnswer(found)
    BY <1>3, <2>1, <2>2 DEF HonestAnswer, Late, VInv, HonestView
  <2> QED BY <1>1, <1>3, <1>4, <2>3, AnswersHonestly
<1>5. CASE Becomes(c, reads)
  <2>1. /\ ReadFirst(Snapshot).mark = hwm /\ ReadFirst(Snapshot).at = now
        /\ ReadFirst(Snapshot).rows = <<>>
    BY DEF ReadFirst, ReadOrder, Read, Snapshot
  <2>2. SnapTyped(reads.snap)
    <3>1. <<>> \in Seq(Rows) /\ hwm \in Nat
      BY DEF IInv, TrailTyped
    <3> QED BY <1>3, <2>1, <3>1 DEF SnapTyped
  <2>3. AskedTruly(reads)
    BY <1>2, <1>3 DEF AskedTruly
  <2> QED BY <1>1, <1>3, <1>5, <2>1, <2>2, <2>3, ReadsHonestly, GoesOnHonestly
<1> QED BY <1>4, <1>5 DEF Turn, found, reads

LEMMA StartHonest ==
  ASSUME IInv, KInv, VInv, NEW c \in Readers, Start(c)
  PROVE  VInv'
<1> USE DEF files, cache, lockLog
<1> DEFINE r == reader[c]
<1>1. r.at = "start" /\ UNCHANGED <<scene, trail, hwm, writer, damaged, view, builds, now>>
  BY DEF Start
<1>2. PICK s \in (IF r.kind = "session" THEN LockRead(Snapshot) ELSE {Snapshot}) :
        Becomes(c, [r EXCEPT !.at = "read", !.snap = ReadFirst(s)])
  BY DEF Start
<1> DEFINE reads == [r EXCEPT !.at = "read", !.snap = ReadFirst(s)]
<1>3. DOMAIN s = {"rows", "mark", "failed", "fence", "lockErr", "at"} /\ s.rows = <<>>
  BY <1>2 DEF LockRead, Snapshot
<1>4. ReadFirst(s).mark = hwm /\ ReadFirst(s).at = now /\ ReadFirst(s).rows = <<>>
  BY <1>3 DEF ReadFirst, ReadOrder, Read
<1>5. QuestionShaped(r) /\ AskedTruly(r)
  BY <1>1 DEF KInv, QuestionsShaped, VInv, HonestReader
<1>6. reads.since = r.since /\ reads.at = "read" /\ reads.snap = ReadFirst(s)
  BY <1>5 DEF QuestionShaped
<1> HIDE DEF reads
<1>7. SnapTyped(reads.snap)
  <2>1. <<>> \in Seq(Rows) /\ hwm \in Nat
    BY DEF IInv, TrailTyped
  <2> QED BY <1>4, <1>6, <2>1 DEF SnapTyped
<1>8. AskedTruly(reads)
  BY <1>5, <1>6 DEF AskedTruly
<1> QED BY <1>1, <1>2, <1>4, <1>6, <1>7, <1>8, ReadsHonestly, GoesOnHonestly DEF reads

\* What both files say together, when the second is read.
LEMMA TogetherTrue ==
  ASSUME IInv, VInv, NEW r, HonestReader(r), r.at = "read"
  PROVE  /\ damaged = Never => Whole(r.snap.mark, trail)
         /\ damaged # Never /\ (r.since.damaged \/ r.snap.at > damaged) => ~Whole(r.snap.mark, trail)
<1>1. DamageKnown /\ HalfRead(r)
  BY DEF VInv, HonestReader
<1>2. ASSUME damaged = Never PROVE Whole(r.snap.mark, trail)
  BY <1>1, <1>2 DEF DamageKnown, HalfRead, Whole
<1>3. ASSUME damaged # Never, r.since.damaged \/ r.snap.at > damaged PROVE ~Whole(r.snap.mark, trail)
  <2>1. Spoiled \/ r.snap.mark = hwm
    BY <1>1, <1>3 DEF HalfRead
  <2> QED BY <1>1, <1>3, <2>1 DEF DamageKnown, Spoiled, Whole
<1> QED BY <1>2, <1>3

LEMMA ReadSecondHonest ==
  ASSUME IInv, KInv, VInv, NEW c \in Readers, ReadSecond(c)
  PROVE  VInv'
<1> USE DEF files, cache, lockLog
<1> DEFINE r == reader[c]
           s == Read(r.snap, ReadOrder[2])
           fenced == [r EXCEPT !.at = "fence", !.snap = s]
           ended == [r EXCEPT !.snap = s]
<1>1. r.at = "read" /\ UNCHANGED <<scene, trail, hwm, writer, damaged, view, builds, now>>
  BY DEF ReadSecond
<1>2. /\ QuestionShaped(r) /\ HonestReader(r) /\ AskedTruly(r) /\ Timely(r) /\ SnapTyped(r.snap)
  BY <1>1 DEF KInv, QuestionsShaped, VInv, HonestReader
<1>3. now \in Nat /\ BuildTime \in Nat /\ trail \in Seq(Rows) /\ Len(trail) \in Nat
      /\ (damaged = Never \/ damaged \in Nat)
  BY WallAges DEF KInv, QuestionsShaped, IInv, TrailTyped, VInv, DamageKnown
<1>4. SnapShaped(s) /\ s.rows = trail /\ s.mark = r.snap.mark /\ s.failed = r.snap.failed /\ s.at = now
  BY <1>2, <1>3 DEF QuestionShaped, SnapShaped, ReadOrder, Read
<1>5. SnapTyped(s) /\ InTrail(s)
  BY <1>2, <1>3, <1>4 DEF SnapTyped, InTrail
<1> HIDE DEF s
<1>6. /\ fenced.at = "fence" /\ fenced.since = r.since /\ fenced.snap = s /\ fenced.kind = r.kind
      /\ QuestionShaped(ended) /\ ended.kind = r.kind /\ ended.since = r.since /\ ended.snap = s
  BY <1>2, <1>4 DEF QuestionShaped
<1> HIDE DEF fenced, ended
<1>7. /\ damaged = Never => Sound(s)
      /\ damaged # Never /\ (r.since.damaged \/ now > damaged + BuildTime) => Finds(s)
  <2>1. now > damaged + BuildTime /\ damaged # Never => r.snap.at > damaged
    BY <1>2, <1>3 DEF Timely
  <2> QED BY <1>1, <1>2, <1>4, <2>1, TogetherTrue DEF Sound, Finds
<1>8. CASE r.kind \in {"poll", "connect", "export"} /\ Becomes(c, fenced)
  <2>1. Timely(fenced)
    BY <1>3, <1>4, <1>6 DEF Timely
  <2>2. BothRead(fenced) /\ AskedTruly(fenced)
    BY <1>2, <1>4, <1>5, <1>6, <1>7 DEF BothRead, AskedTruly
  <2>3. HonestReader(fenced)
    BY <1>6, <2>1, <2>2 DEF HonestReader
  <2> QED BY <1>1, <1>5, <1>6, <1>8, <2>3, GoesOnHonestly
<1>9. CASE r.kind \notin {"poll", "connect", "export"} /\ Answers(c, ended)
  <2>1. HonestAnswer(ended)
    BY <1>2, <1>5, <1>6, <1>7, <1>9 DEF HonestAnswer, Late, AskedTruly
  <2> QED BY <1>1, <1>6, <1>9, <2>1, AnswersHonestly
<1> QED BY <1>8, <1>9 DEF ReadSecond, s, fenced, ended

LEMMA ReadFailsHonest ==
  ASSUME IInv, KInv, VInv, NEW c \in Readers, ReadFails(c)
  PROVE  VInv'
<1> USE DEF files, cache, lockLog
<1> DEFINE r == reader[c]
           s == [r.snap EXCEPT !.failed = TRUE, !.at = now]
           t == [s EXCEPT !.rows = trail]
           fenced == [r EXCEPT !.at = "fence", !.snap = t]
           ended == [r EXCEPT !.snap = s]
<1>1. r.at = "read" /\ UNCHANGED <<scene, trail, hwm, writer, damaged, view, builds, now>>
  BY DEF ReadFails
<1>2. /\ QuestionShaped(r) /\ AskedTruly(r) /\ SnapTyped(r.snap)
      /\ now \in Nat /\ BuildTime \in Nat /\ trail \in Seq(Rows)
  BY <1>1, WallAges DEF KInv, QuestionsShaped, VInv, HonestReader, IInv, TrailTyped
<1>3. SnapShaped(s) /\ s.failed = TRUE /\ s.at = now /\ s.mark = r.snap.mark
  BY <1>2 DEF QuestionShaped, SnapShaped
<1> HIDE DEF s
<1>4. t.failed = TRUE /\ t.at = now /\ t.mark = r.snap.mark /\ t.rows = trail
  BY <1>3 DEF SnapShaped
<1> HIDE DEF t
<1>5. /\ fenced.at = "fence" /\ fenced.since = r.since /\ fenced.snap = t
      /\ QuestionShaped(ended) /\ ended.kind = r.kind /\ ended.since = r.since /\ ended.snap = s
  BY <1>2, <1>3 DEF QuestionShaped
<1> HIDE DEF fenced, ended
<1>6. CASE Becomes(c, fenced)
  <2>1. SnapTyped(fenced.snap)
    BY <1>2, <1>4, <1>5 DEF SnapTyped
  <2>2. HonestReader(fenced)
    BY <1>2, <1>4, <1>5 DEF HonestReader, AskedTruly, Timely, BothRead, Sound, Finds, InTrail
  <2> QED BY <1>1, <1>6, <2>1, <2>2, GoesOnHonestly
<1>7. CASE Answers(c, ended)
  <2>1. HonestAnswer(ended)
    BY <1>3, <1>5 DEF HonestAnswer, Sound, Finds, InTrail
  <2> QED BY <1>1, <1>5, <1>7, <2>1, AnswersHonestly
<1> QED BY <1>6, <1>7 DEF ReadFails, s, t, fenced, ended

LEMMA PublishHonest ==
  ASSUME IInv, KInv, VInv, NEW c \in Readers, Publish(c)
  PROVE  VInv'
<1> USE DEF files, cache, lockLog
<1> DEFINE r == reader[c]
<1>1. r.at = "fence" /\ UNCHANGED <<scene, trail, hwm, writer, damaged, now>>
  BY DEF Publish
<1>2. PICK s \in LockRead(r.snap) :
        /\ Answers(c, [r EXCEPT !.snap = s])
        /\ IF ThroughCache(r.kind)
             THEN view' = [sig |-> HeadOf(c), snap |-> s] /\ builds' = builds + 1 /\ lmu' = NoReader
             ELSE UNCHANGED cache
  BY DEF Publish
<1> DEFINE ended == [r EXCEPT !.snap = s]
<1>3. /\ QuestionShaped(r) /\ AskedTruly(r) /\ Timely(r) /\ BothRead(r) /\ SnapTyped(r.snap)
      /\ now \in Nat /\ BuildTime \in Nat /\ Forced \in Nat /\ (damaged = Never \/ damaged \in Nat)
  BY <1>1, WallAges DEF KInv, QuestionsShaped, VInv, HonestReader, DamageKnown
<1>4. /\ SnapShaped(s) /\ s.rows = r.snap.rows /\ s.mark = r.snap.mark
      /\ s.failed = r.snap.failed /\ s.at = r.snap.at
  BY <1>2, <1>3 DEF QuestionShaped, SnapShaped, LockRead
<1>5. QuestionShaped(ended) /\ ended.kind = r.kind /\ ended.since = r.since /\ ended.snap = s
  BY <1>3, <1>4 DEF QuestionShaped
<1> HIDE DEF ended
<1>6. /\ SnapTyped(s) /\ (damaged = Never => Sound(s))
      /\ damaged # Never /\ (r.since.damaged \/ s.at > damaged + BuildTime) => Finds(s)
      /\ r.since.damaged => InTrail(s)
  BY <1>3, <1>4 DEF SnapTyped, Sound, Finds, InTrail, BothRead
<1>7. HonestAnswer(ended)
  BY <1>3, <1>5, <1>6 DEF HonestAnswer, Late, AskedTruly
<1>8. CASE ~ThroughCache(r.kind)
  BY <1>1, <1>2, <1>5, <1>7, <1>8, AnswersHonestly DEF ended
<1>9. CASE ThroughCache(r.kind)
  <2>1. /\ view'.snap = s /\ builds' = builds + 1
        /\ reader' = [reader EXCEPT ![c] = Quiet] /\ answer' = [ended EXCEPT !.at = "answered"]
    BY <1>2, <1>9 DEF Answers, ended
  <2>2. reader'[c] = Quiet /\ \A d \in Readers \ {c} : reader'[d] = reader[d]
    BY <2>1 DEF IInv, ReadersShaped
  <2>3. HonestView' /\ SnapTyped(view.snap)'
    BY <1>1, <1>3, <1>4, <1>6, <2>1 DEF HonestView, SnapTyped, Sound, Finds, Whole, Timely
  <2>4. ASSUME NEW d \in Readers PROVE (SnapTyped(reader[d].snap) /\ HonestReader(reader[d]))'
    <3>0. PICK q : q = reader'[d]
      OBVIOUS
    <3>1. SnapTyped(q.snap) /\ HonestReader(q) /\ (d = c => q = Quiet)
      <4>1. CASE d = c
        <5>1. q.at = "idle" /\ q.snap = Snapshot
          BY <2>2, <3>0, <4>1 DEF Quiet
        <5>2. <<>> \in Seq(Rows)
          OBVIOUS
        <5>3. Snapshot.mark = 0 /\ Snapshot.rows = <<>>
          BY DEF Snapshot
        <5>4. SnapTyped(q.snap) /\ HonestReader(q)
          BY <5>1, <5>2, <5>3 DEF SnapTyped, HonestReader
        <5> QED BY <2>2, <3>0, <4>1, <5>4
      <4>2. CASE d # c
        BY <2>2, <3>0, <4>2 DEF VInv
      <4> QED BY <4>1, <4>2
    <3>2. ASSUME q.at = "queued", q.since.shown PROVE s.at > damaged + BuildTime
      <4>1. damaged # Never /\ damaged + Forced + 2 * BuildTime <= now
        BY <3>1, <3>2 DEF HonestReader, AskedTruly
      <4>2. now <= s.at + BuildTime /\ s.at \in Int
        BY <1>3, <1>4 DEF Timely
      <4>3. Forced > 0
        BY WallAges
      <4> QED BY <1>3, <4>1, <4>2, <4>3
    <3>3. HonestReader(q)'
      <4>1. q.at = "queued" => SharedLate(q)'
        BY <1>1, <2>1, <3>1, <3>2 DEF HonestReader, SharedLate
      <4> QED BY <1>1, <3>1, <4>1
           DEF HonestReader, AskedTruly, Timely, HalfRead, BothRead, Sound, Finds, InTrail, Whole, Spoiled
    <3> QED BY <3>0, <3>1, <3>3
         DEF HonestReader, AskedTruly, Timely, HalfRead, BothRead, SharedLate, Sound, Finds, InTrail,
             Whole, Spoiled, SnapTyped
  <2>5. DamageKnown' /\ scene' \in Scenes
    BY <1>1 DEF VInv, DamageKnown, Whole
  <2>6. HonestAnswer(answer')
    <3>1. answer'.kind = ended.kind /\ answer'.since = ended.since /\ answer'.snap = ended.snap
      BY <1>5, <2>1 DEF QuestionShaped
    <3> QED BY <1>7, <3>1 DEF HonestAnswer, Late
  <2>7. (answer.at = "answered" => HonestAnswer(answer))'
    BY <1>1, <2>6 DEF HonestAnswer, Sound, Finds, InTrail, Whole, SnapTyped, Late
  <2> QED BY <2>3, <2>4, <2>5, <2>7 DEF VInv
<1> QED BY <1>8, <1>9

LEMMA StepVInv == IInv /\ IInv' /\ KInv /\ VInv /\ [NextReadSide]_all => VInv'
<1> SUFFICES ASSUME IInv, IInv', KInv, VInv, [NextReadSide]_all PROVE VInv'
  OBVIOUS
<1>1. CASE UNCHANGED vars
  BY <1>1 DEF vars, files, lockLog, cache, readers, VInv, DamageKnown, Whole, SnapTyped, HonestReader,
              AskedTruly, Timely, HalfRead, BothRead, SharedLate, Sound, Finds, InTrail, Spoiled,
              HonestView, HonestAnswer, Late
<1>2. CASE (Writer \/ Tick) /\ Silent
  BY <1>2, WriterHonest
<1>3. CASE (LockLog \/ tailLock) /\ Silent
  BY <1>3, LogHonest
<1>4. CASE \E c \in Readers : Request(c)
  <2>1. PICK c \in Readers : Request(c)
    BY <1>4
  <2> QED BY <2>1, AskHonest, TurnHonest, StartHonest, ReadSecondHonest, ReadFailsHonest,
             PublishHonest DEF Request
<1> QED BY <1>1, <1>2, <1>3, <1>4 DEF NextReadSide, all

(***************************************************************************)
(* Nobody who reads beside the writers raises a false alarm, and damage    *)
(* shows: to whoever asks for the files afterwards, and to whoever is      *)
(* given a shared view Forced and two builds later.                        *)
(***************************************************************************)
THEOREM VerdictsStayTrue == SpecReadSide => []VerdictsAreTrue
<1>1. VInv => VerdictsAreTrue
  BY AnswersTrue DEF VInv
<1> QED BY <1>1, InvHolds, InitKInv, StepKInv, InitVInv, StepVInv, PTL DEF SpecReadSide
-----------------------------------------------------------------------------
(***************************************************************************)
(* The assessment of a stream, one row after the other: AssessRuns folds   *)
(* over the rows, steps[k] is its state after k of them, and Summary says  *)
(* of steps[k], without the fold, what those k rows hold.  From there the  *)
(* verdicts become statements about the stream at once (VerdictFacts), and *)
(* the design's words are met by exactly the streams that fit at every     *)
(* place, close, and leave no action open (CompleteFits, FitsComplete).    *)
(***************************************************************************)
LEMMA LastOf ==
  ASSUME NEW n \in Nat, NEW s \in SUBSET (1..n), s # {}
  PROVE  /\ C!Max(s) \in s /\ s \ {C!Max(s)} \in SUBSET (1..(n - 1)) /\ n # 0
         /\ \A y \in s : y <= C!Max(s)
<1> DEFINE W == {b \in Nat : \A y \in s : y <= b}
<1>1. PICK b \in W : \A y \in W : b <= y
  <2>1. n \in W
    OBVIOUS
  <2> HIDE DEF W
  <2>2. W \subseteq Nat
    BY DEF W
  <2> QED BY <2>1, <2>2, SmallestOf
<1>2. b \in Nat /\ \A y \in s : y <= b
  BY <1>1
<1>3. b \in s
  <2>1. ASSUME b \notin s PROVE FALSE
    <3>1. PICK x \in s : TRUE
      OBVIOUS
    <3>2. x \in Nat /\ x <= b /\ x # b
      BY <1>2, <2>1
    <3>3. b - 1 \in Nat
      BY <1>2, <3>2
    <3>4. \A y \in s : y <= b - 1
      BY <1>2, <2>1
    <3>5. b - 1 \in W
      BY <3>3, <3>4
    <3> QED BY <1>1, <1>2, <3>5
  <2> QED BY <2>1
<1>4. C!Max(s) \in s /\ \A y \in s : C!Max(s) >= y
  <2>1. \A y \in s : b >= y
    BY <1>2
  <2> QED BY <1>3, <2>1 DEF C!Max
<1>5. PICK x \in s : x = C!Max(s) /\ \A y \in s : y <= x
  <2>1. \A y \in s : y \in Nat
    OBVIOUS
  <2> QED BY <1>4, <2>1
<1>6. s \ {x} \in SUBSET (1..(n - 1))
  <2>1. ASSUME NEW y \in s, y # x PROVE y \in 1..(n - 1)
    <3>1. y \in 1..n /\ x \in 1..n /\ y <= x
      BY <1>5
    <3> QED BY <2>1, <3>1
  <2> QED BY <2>1
<1> QED BY <1>3, <1>5, <1>6

\* f[s] is what the rows at the places s assess to, for places up to m.
Reads(rows, at, m, f) ==
  f = [s \in SUBSET (1..m) |->
         IF s = {} THEN C!NoRun
         ELSE C!Assess(f[s \ {C!Max(s)}], rows[C!Max(s)], at)]

LEMMA ReadsExist ==
  ASSUME NEW rows, NEW at, NEW n \in Nat
  PROVE  \E f : Reads(rows, at, n, f)
<1> DEFINE W == {m \in Nat : ~\E f : Reads(rows, at, m, f)}
           D(m) == SUBSET (1..m)
           Step(s, r) == IF s = {} THEN C!NoRun ELSE C!Assess(r, rows[C!Max(s)], at)
           less(s) == s \ {C!Max(s)}
<1> SUFFICES ASSUME W # {} PROVE FALSE
  OBVIOUS
<1>1. PICK m \in W : \A y \in W : m <= y
  <2> HIDE DEF W
  <2>1. W \subseteq Nat
    BY DEF W
  <2> QED BY <2>1, SmallestOf
<1>2. ASSUME NEW f, NEW g, \A s \in D(m) : s # {} => g[less(s)] = f[less(s)],
             g = [s \in D(m) |-> Step(s, f[less(s)])]
      PROVE  FALSE
  <2>1. \A s \in D(m) : Step(s, f[less(s)]) = Step(s, g[less(s)])
    BY <1>2
  <2>2. g = [s \in D(m) |-> Step(s, g[less(s)])]
    <3> HIDE DEF D, Step, less
    <3> QED BY <1>2, <2>1
  <2>3. Reads(rows, at, m, g)
    BY <2>2 DEF Reads
  <2> QED BY <1>1, <2>3
<1>3. CASE m = 0
  <2> DEFINE g == [s \in D(m) |-> Step(s, at[less(s)])]
  <2>1. ASSUME NEW s \in D(m), s # {} PROVE FALSE
    <3>1. 1..0 = {}
      OBVIOUS
    <3> QED BY <1>3, <2>1, <3>1
  <2> HIDE DEF D, Step, less
  <2> QED BY <1>2, <2>1
<1>4. CASE m # 0
  <2>1. m - 1 \in Nat /\ m - 1 \notin W
    BY <1>1, <1>4
  <2>2. PICK f : Reads(rows, at, m - 1, f)
    BY <2>1
  <2> DEFINE g == [s \in D(m) |-> Step(s, f[less(s)])]
  <2>3. \A s \in D(m - 1) : f[s] = Step(s, f[less(s)])
    BY <2>2 DEF Reads
  <2>4. D(m - 1) \subseteq D(m)
    <3>1. 1..(m - 1) \subseteq 1..m
      BY <2>1
    <3> QED BY <3>1
  <2>5. \A s \in D(m) : s # {} => less(s) \in D(m - 1)
    BY <1>1, LastOf
  <2> HIDE DEF D, Step, less
  <2>6. \A s \in D(m - 1) : g[s] = f[s]
    BY <2>3, <2>4
  <2>7. \A s \in D(m) : s # {} => g[less(s)] = f[less(s)]
    BY <2>5, <2>6
  <2> QED BY <1>2, <2>7
<1> QED BY <1>3, <1>4

\* steps[k] is the state of the run after k rows.
Runs(rows, at, steps) ==
  /\ steps = [k \in 0..Len(rows) |-> steps[k]]
  /\ steps[0] = C!NoRun
  /\ \A k \in 1..Len(rows) : steps[k] = C!Assess(steps[k - 1], rows[k], at)

\* The verdict on a run whose rows are read.
Judged(rows, r, checkpointed, at) ==
  IF ~checkpointed \/ \A i \in DOMAIN rows : rows[i].sig = 0 THEN "UNASSESSABLE"
  ELSE IF ~r.open \/ r.broken THEN "BROKEN"
  ELSE IF r.future THEN "UNASSESSABLE"
  ELSE IF r.closed THEN IF C!Incomplete(r) THEN "INCOMPLETE" ELSE "LIMITED"
  ELSE IF at - r.latest >= 3 THEN "INCOMPLETE" ELSE "IN_PROGRESS"

LEMMA VerdictJudges ==
  ASSUME NEW T, NEW rows \in Seq(T), NEW at
  PROVE  \E steps :
           /\ Runs(rows, at, steps)
           /\ \A cp : C!Verdict(rows, cp, at) = Judged(rows, steps[Len(rows)], cp, at)
<1>1. PICK n \in Nat : n = Len(rows) /\ DOMAIN rows = 1..n
  BY LenProperties
<1> DEFINE F(f) == [s \in SUBSET (1..n) |->
                      IF s = {} THEN C!NoRun
                      ELSE C!Assess(f[s \ {C!Max(s)}], rows[C!Max(s)], at)]
<1>2. \E f : f = F(f)
  <2>1. PICK f : Reads(rows, at, n, f)
    BY ReadsExist
  <2> QED BY <2>1 DEF Reads
<1> DEFINE c == CHOOSE f : f = F(f)
<1>3. c = F(c)
  BY <1>2
<1>4. \A cp : C!Verdict(rows, cp, at) = Judged(rows, c[1..n], cp, at)
  BY <1>1 DEF C!Verdict, C!FoldLeft, C!MapThenFoldSet, Judged
<1> HIDE DEF c
<1> DEFINE steps == [k \in 0..n |-> c[1..k]]
<1>5. c[{}] = C!NoRun
  BY <1>3
<1>6. ASSUME NEW k \in 1..n PROVE c[1..k] = C!Assess(c[1..(k - 1)], rows[k], at)
  <2>1. 1..k \in SUBSET (1..n) /\ 1..k # {} /\ k \in Nat
    <3>1. k \in 1..k /\ k \in Nat /\ k <= n
      OBVIOUS
    <3>2. \A y \in 1..k : y \in 1..n
      BY <3>1
    <3> QED BY <3>1, <3>2
  <2>2. PICK s \in SUBSET (1..n) : s = 1..k
    BY <2>1
  <2>3. C!Max(s) \in s /\ \A y \in s : y <= C!Max(s)
    BY <2>1, <2>2, LastOf
  <2>4. C!Max(s) = k
    <3>1. PICK x \in 1..k : x = C!Max(s) /\ \A y \in 1..k : y <= x
      BY <2>2, <2>3
    <3>2. k \in 1..k
      OBVIOUS
    <3>3. k <= x /\ x <= k
      BY <3>1, <3>2
    <3> QED BY <3>1, <3>3
  <2>5. s \ {k} = 1..(k - 1)
    BY <2>2
  <2>6. c[s] = C!Assess(c[s \ {C!Max(s)}], rows[C!Max(s)], at)
    BY <1>3, <2>1, <2>2
  <2> QED BY <2>2, <2>4, <2>5, <2>6
<1>7. Runs(rows, at, steps)
  <2>1. 1..0 = {}
    OBVIOUS
  <2>2. steps[0] = C!NoRun
    BY <1>5, <2>1
  <2>3. \A k \in 1..n : k \in 0..n /\ k - 1 \in 0..n
    OBVIOUS
  <2>4. \A k \in 1..n : steps[k] = c[1..k] /\ steps[k - 1] = c[1..(k - 1)]
    BY <2>3
  <2>5. \A k \in 1..n : steps[k] = C!Assess(steps[k - 1], rows[k], at)
    BY <1>6, <2>4, Zenon
  <2>6. steps = [k \in 0..n |-> steps[k]]
    OBVIOUS
  <2> HIDE DEF steps
  <2> QED BY <1>1, <2>2, <2>5, <2>6 DEF Runs
<1>8. steps[n] = c[1..n]
  OBVIOUS
<1> HIDE DEF steps
<1> QED BY <1>1, <1>4, <1>7, <1>8

-----------------------------------------------------------------------------
\* The states of a run that is being assessed.
RunStates(acts) ==
  [count : Nat, head : Int, open : BOOLEAN, closed : BOOLEAN, broken : BOOLEAN,
   future : BOOLEAN, latest : Int, actions : {acts}]

ActionStates ==
  [dispatch : BOOLEAN, terminal : BOOLEAN, unknown : BOOLEAN, decisions : Nat, late : BOOLEAN]

RunShaped(r) ==
  r \in RunStates(r.actions) /\ \A a \in DOMAIN r.actions : r.actions[a] \in ActionStates

RowShaped(row) == row.sig \in Int /\ row.at \in Int

\* What a row makes of the state of its action, and what is wrong with it.
ActionFollows(s, what, n) ==
  /\ n \in ActionStates
  /\ n.dispatch <=> s.dispatch \/ what = "dispatch"
  /\ n.decisions = 0 <=> s.decisions = 0 /\ ~C!IsDecision(what)
  /\ n.terminal <=> s.terminal \/ (~C!IsDecision(what) /\ what # C!Late)
  /\ n.late <=> s.late \/ what = C!Late
  /\ n.unknown <=> IF C!IsDecision(what) \/ what = C!Late THEN s.unknown
                   ELSE what = "outcome_unknown"

ActionWrong(s, what) ==
  IF C!IsDecision(what) THEN s.terminal \/ (what = "dispatch" /\ s.dispatch)
  ELSE IF what = C!Late THEN ~s.unknown \/ s.late
  ELSE s.decisions = 0 \/ s.terminal \/ (what = "not_forwarded") = s.dispatch

\* What is wrong with a row that is in its place.
RowWrong(r, row) ==
  IF row.what = "close" THEN ~r.open \/ row.count # r.count \/ row.head # r.head
  ELSE IF row.what \in C!RunEvents THEN (row.what = "open") = r.open \/ r.closed
  ELSE IF row.action # NoAction THEN ActionWrong(C!ActionState(r, row.action), row.what)
  ELSE row.what \notin C!Methods

ActionRow(row) == row.what \notin C!RunEvents /\ row.action # NoAction

\* The read row leaves the run in state n, before it is counted.
RowRead(r, row, at, wrong, n) ==
  /\ RunShaped(n) /\ n.count = r.count
  /\ n.open <=> r.open \/ row.what = "open"
  /\ n.closed <=> r.closed \/ row.what = "close"
  /\ n.future <=> r.future \/ (row.what \in {"open", "heartbeat"} /\ row.at > at + 1)
  /\ n.broken <=> r.broken \/ wrong \/ RowWrong(r, row)
  /\ IF ActionRow(row)
       THEN /\ DOMAIN n.actions = DOMAIN r.actions \cup {row.action}
            /\ ActionFollows(C!ActionState(r, row.action), row.what, n.actions[row.action])
            /\ \A a \in DOMAIN r.actions : a # row.action => n.actions[a] = r.actions[a]
       ELSE n.actions = r.actions

LEMMA RunEventReads ==
  ASSUME NEW r, RunShaped(r), NEW row, RowShaped(row), NEW at, NEW bad \in BOOLEAN,
         NEW p, p = [r EXCEPT !.broken = @ \/ bad], row.what \in C!RunEvents,
         NEW n, n = C!RunEvent(p, row, at)
  PROVE  RowRead(r, row, at, bad, n)
<1> DEFINE acts == r.actions
<1>1. r \in RunStates(acts) /\ \A a \in DOMAIN acts : acts[a] \in ActionStates
  BY DEF RunShaped
<1> HIDE DEF acts
<1>2. /\ p \in RunStates(acts) /\ p.count = r.count /\ p.head = r.head /\ p.open = r.open
      /\ p.closed = r.closed /\ (p.broken <=> r.broken \/ bad) /\ p.future = r.future
  BY <1>1 DEF RunStates
<1>3. row.at \in Int
  BY DEF RowShaped
<1>4. CASE row.what = "close"
  <2>1. n = [p EXCEPT !.closed = TRUE, !.broken = @ \/ ~p.open \/ row.count # p.count
                                                    \/ row.head # p.head]
    BY <1>4 DEF C!RunEvent
  <2>2. /\ n \in RunStates(acts) /\ n.count = p.count /\ n.open = p.open /\ n.closed = TRUE
        /\ n.future = p.future
        /\ n.broken <=> p.broken \/ ~p.open \/ row.count # p.count \/ row.head # p.head
    BY <1>2, <2>1 DEF RunStates
  <2>3. n.actions = acts /\ RunShaped(n)
    BY <1>1, <2>2 DEF RunShaped, RunStates
  <2> QED BY <1>1, <1>2, <1>4, <2>2, <2>3 DEF RowRead, RowWrong, ActionRow, C!RunEvents, acts
<1>5. CASE row.what # "close"
  <2>1. n = [p EXCEPT !.open = @ \/ row.what = "open",
                      !.broken = @ \/ (row.what = "open") = p.open \/ p.closed,
                      !.future = @ \/ row.at > at + 1, !.latest = row.at]
    BY <1>5 DEF C!RunEvent
  <2>2. /\ n \in RunStates(acts) /\ n.count = p.count /\ n.closed = p.closed
        /\ (n.open <=> p.open \/ row.what = "open")
        /\ (n.future <=> p.future \/ row.at > at + 1)
        /\ (n.broken <=> p.broken \/ (row.what = "open") = p.open \/ p.closed)
    BY <1>2, <1>3, <2>1 DEF RunStates
  <2>3. n.actions = acts /\ RunShaped(n)
    BY <1>1, <2>2 DEF RunShaped, RunStates
  <2>4. row.what \in {"open", "heartbeat"}
    BY <1>5 DEF C!RunEvents
  <2> QED BY <1>1, <1>2, <1>5, <2>2, <2>3, <2>4 DEF RowRead, RowWrong, ActionRow, acts
<1> QED BY <1>4, <1>5

LEMMA ActionRowReads ==
  ASSUME NEW r, RunShaped(r), NEW row, NEW at, NEW bad \in BOOLEAN,
         NEW p, p = [r EXCEPT !.broken = @ \/ bad], ActionRow(row),
         NEW n, n = C!ActionRow(p, row)
  PROVE  RowRead(r, row, at, bad, n)
<1> DEFINE acts == r.actions
<1>1. r \in RunStates(acts) /\ \A a \in DOMAIN acts : acts[a] \in ActionStates
  BY DEF RunShaped
<1> HIDE DEF acts
<1>2. /\ p \in RunStates(acts) /\ p.count = r.count /\ p.open = r.open /\ p.closed = r.closed
      /\ (p.broken <=> r.broken \/ bad) /\ p.future = r.future /\ p.actions = acts
  BY <1>1 DEF RunStates
<1> DEFINE s == C!ActionState(p, row.action)
<1>3. s \in ActionStates /\ s = C!ActionState(r, row.action)
  <2>1. C!NoActionState \in ActionStates
    BY DEF C!NoActionState, ActionStates
  <2> QED BY <1>1, <1>2, <2>1 DEF C!ActionState, acts
<1> DEFINE wrong ==
             CASE C!IsDecision(row.what) -> s.terminal \/ (row.what = "dispatch" /\ s.dispatch)
               [] row.what = C!Late -> ~s.unknown \/ s.late
               [] OTHER -> \/ s.decisions = 0 \/ s.terminal
                           \/ (row.what = "not_forwarded") = s.dispatch
           after ==
             CASE C!IsDecision(row.what) ->
                    [s EXCEPT !.decisions = @ + 1, !.dispatch = @ \/ row.what = "dispatch"]
               [] row.what = C!Late -> [s EXCEPT !.late = TRUE]
               [] OTHER -> [s EXCEPT !.terminal = TRUE,
                                     !.unknown = row.what = "outcome_unknown"]
           left == [x \in DOMAIN p.actions \cup {row.action} |->
                      IF x = row.action THEN after ELSE p.actions[x]]
<1>4. n = [p EXCEPT !.broken = @ \/ wrong, !.actions = left]
  BY DEF C!ActionRow
<1> HIDE DEF s
<1>5. /\ ~(C!IsDecision(row.what) /\ row.what = C!Late)
      /\ (row.what = "dispatch" => C!IsDecision(row.what))
  BY DEF C!IsDecision, C!Observations, C!Late, C!RunEvents, C!Terminals
<1>6. wrong <=> ActionWrong(s, row.what)
  BY <1>5 DEF ActionWrong
<1>7. ActionFollows(s, row.what, after)
  <2>1. CASE C!IsDecision(row.what)
    <3>1. PICK d \in Nat : d = s.decisions + 1 /\ d # 0
      BY <1>3 DEF ActionStates
    <3>2. after = [s EXCEPT !.decisions = d, !.dispatch = @ \/ row.what = "dispatch"]
      BY <1>5, <2>1, <3>1
    <3> HIDE DEF after
    <3>3. /\ after \in ActionStates /\ after.decisions = d
          /\ (after.dispatch <=> s.dispatch \/ row.what = "dispatch")
          /\ after.terminal = s.terminal /\ after.late = s.late /\ after.unknown = s.unknown
      BY <1>3, <3>2 DEF ActionStates
    <3> QED BY <1>5, <2>1, <3>1, <3>3 DEF ActionFollows
  <2>2. CASE row.what = C!Late
    <3>1. after = [s EXCEPT !.late = TRUE]
      BY <1>5, <2>2
    <3> HIDE DEF after
    <3>2. /\ after \in ActionStates /\ after.decisions = s.decisions /\ after.dispatch = s.dispatch
          /\ after.terminal = s.terminal /\ after.late = TRUE /\ after.unknown = s.unknown
      BY <1>3, <3>1 DEF ActionStates
    <3> QED BY <1>5, <2>2, <3>2 DEF ActionFollows
  <2>3. CASE ~C!IsDecision(row.what) /\ row.what # C!Late
    <3>1. after = [s EXCEPT !.terminal = TRUE, !.unknown = row.what = "outcome_unknown"]
      BY <2>3
    <3> HIDE DEF after
    <3>2. /\ after \in ActionStates /\ after.decisions = s.decisions /\ after.dispatch = s.dispatch
          /\ after.terminal = TRUE /\ after.late = s.late
          /\ (after.unknown <=> row.what = "outcome_unknown")
      BY <1>3, <3>1 DEF ActionStates
    <3> QED BY <1>5, <2>3, <3>2 DEF ActionFollows
  <2> QED BY <2>1, <2>2, <2>3
<1>8. /\ DOMAIN left = DOMAIN acts \cup {row.action} /\ left[row.action] = after
      /\ \A a \in DOMAIN acts : a # row.action => left[a] = acts[a]
  <2> HIDE DEF after
  <2> QED BY <1>2
<1> HIDE DEF wrong, after, left
<1>9. /\ n \in RunStates(left) /\ n.count = p.count /\ n.open = p.open /\ n.closed = p.closed
       /\ n.future = p.future /\ n.actions = left /\ (n.broken <=> p.broken \/ wrong)
  BY <1>2, <1>4 DEF RunStates
<1>10. RunShaped(n)
  <2>1. after \in ActionStates
    BY <1>7 DEF ActionFollows
  <2>2. \A a \in DOMAIN left : left[a] \in ActionStates
    BY <1>1, <1>8, <2>1
  <2> QED BY <1>9, <2>2 DEF RunShaped
<1>11. RowWrong(r, row) <=> ActionWrong(s, row.what)
  BY <1>3 DEF RowWrong, ActionRow, C!RunEvents
<1>12. row.what \notin {"open", "heartbeat", "close"}
  BY DEF ActionRow, C!RunEvents
<1>13. ActionFollows(C!ActionState(r, row.action), row.what, n.actions[row.action])
  BY <1>3, <1>7, <1>8, <1>9
<1> QED BY <1>1, <1>2, <1>6, <1>8, <1>9, <1>10, <1>11, <1>12, <1>13 DEF RowRead, RunStates, acts

\* The row leaves the run in state next.
RowAssessed(r, row, at, next) ==
  /\ RunShaped(next)
  /\ next.count = r.count + 1 /\ next.head = row.sig
  /\ next.open <=> r.open \/ row.what = "open"
  /\ next.closed <=> r.closed \/ row.what = "close"
  /\ next.future <=> r.future \/ (row.what \in {"open", "heartbeat"} /\ row.at > at + 1)
  /\ next.broken <=> r.broken \/ C!Misplaced(r, row) \/ RowWrong(r, row)
  /\ IF ActionRow(row)
       THEN /\ DOMAIN next.actions = DOMAIN r.actions \cup {row.action}
            /\ ActionFollows(C!ActionState(r, row.action), row.what, next.actions[row.action])
            /\ \A a \in DOMAIN r.actions : a # row.action => next.actions[a] = r.actions[a]
       ELSE next.actions = r.actions

LEMMA AssessFacts ==
  ASSUME NEW r, RunShaped(r), NEW row, RowShaped(row), NEW at, NEW next,
         next = C!Assess(r, row, at)
  PROVE  RowAssessed(r, row, at, next)
<1>1. PICK bad \in BOOLEAN : bad <=> C!Misplaced(r, row)
  OBVIOUS
<1>2. PICK p : p = [r EXCEPT !.broken = @ \/ C!Misplaced(r, row)]
  OBVIOUS
<1>3. p = [r EXCEPT !.broken = @ \/ bad]
  BY <1>1, <1>2 DEF RunShaped, RunStates
<1>4. PICK read : /\ read = IF row.what \in C!RunEvents THEN C!RunEvent(p, row, at)
                            ELSE IF row.action # NoAction THEN C!ActionRow(p, row)
                            ELSE [p EXCEPT !.broken = @ \/ row.what \notin C!Methods]
                  /\ next = [read EXCEPT !.count = @ + 1, !.head = row.sig]
  BY <1>2 DEF C!Assess
<1>5. RowRead(r, row, at, bad, read)
  <2>1. CASE row.what \in C!RunEvents
    <3>1. read = C!RunEvent(p, row, at)
      BY <1>4, <2>1
    <3> QED BY <1>3, <2>1, <3>1, RunEventReads
  <2>2. CASE ActionRow(row)
    <3>1. read = C!ActionRow(p, row)
      BY <1>4, <2>2 DEF ActionRow
    <3> QED BY <1>3, <2>2, <3>1, ActionRowReads
  <2>3. CASE row.what \notin C!RunEvents /\ row.action = NoAction
    <3> DEFINE acts == r.actions
    <3>1. r \in RunStates(acts) /\ \A a \in DOMAIN acts : acts[a] \in ActionStates
      BY DEF RunShaped
    <3> HIDE DEF acts
    <3>2. /\ p \in RunStates(acts) /\ p.count = r.count /\ p.open = r.open /\ p.closed = r.closed
          /\ (p.broken <=> r.broken \/ bad) /\ p.future = r.future
      BY <1>3, <3>1 DEF RunStates
    <3>3. read = [p EXCEPT !.broken = @ \/ row.what \notin C!Methods]
      BY <1>4, <2>3
    <3>4. /\ read \in RunStates(acts) /\ read.count = p.count /\ read.open = p.open
          /\ read.closed = p.closed /\ read.future = p.future
          /\ (read.broken <=> p.broken \/ row.what \notin C!Methods)
      BY <3>2, <3>3 DEF RunStates
    <3>5. RunShaped(read) /\ read.actions = acts
      BY <3>1, <3>4 DEF RunShaped, RunStates
    <3>6. row.what \notin {"open", "heartbeat", "close"}
      BY <2>3 DEF C!RunEvents
    <3> QED BY <2>3, <3>1, <3>2, <3>4, <3>5, <3>6 DEF RowRead, RowWrong, ActionRow, acts
  <2> QED BY <2>1, <2>2, <2>3 DEF ActionRow
<1>6. /\ next \in RunStates(read.actions) /\ next.count = r.count + 1 /\ next.head = row.sig
      /\ next.open = read.open /\ next.closed = read.closed /\ next.future = read.future
      /\ next.broken = read.broken /\ next.actions = read.actions
  <2> DEFINE acts == read.actions
  <2>1. read \in RunStates(acts) /\ row.sig \in Int /\ read.count = r.count
    BY <1>5 DEF RowRead, RunShaped, RowShaped
  <2> HIDE DEF acts
  <2>2. PICK k \in Nat : k = read.count + 1
    BY <2>1 DEF RunStates
  <2>3. next = [read EXCEPT !.count = k, !.head = row.sig]
    BY <1>4, <2>2
  <2>4. /\ next \in RunStates(acts) /\ next.count = k /\ next.head = row.sig
        /\ next.open = read.open /\ next.closed = read.closed /\ next.future = read.future
        /\ next.broken = read.broken /\ next.actions = acts
    BY <2>1, <2>3 DEF RunStates
  <2> QED BY <2>1, <2>2, <2>4 DEF acts
<1>7. RunShaped(next)
  BY <1>5, <1>6 DEF RowRead, RunShaped
<1> QED BY <1>1, <1>5, <1>6, <1>7 DEF RowRead, RowAssessed

-----------------------------------------------------------------------------
(***************************************************************************)
(* What the first k rows of a stream say, and when the next one fits.      *)
(***************************************************************************)
RunHad(rows, k, what) == \E j \in 1..k : rows[j].what = what
HadFuture(rows, k, at) ==
  \E j \in 1..k : rows[j].what \in {"open", "heartbeat"} /\ rows[j].at > at + 1
Acted(rows, k, a) == \E j \in 1..k : rows[j].action = a /\ ActionRow(rows[j])
Had(rows, k, a, what) == \E j \in 1..k : rows[j].action = a /\ rows[j].what = what
HadDecision(rows, k, a) == \E j \in 1..k : rows[j].action = a /\ C!IsDecision(rows[j].what)
HadTerminal(rows, k, a) == \E j \in 1..k : rows[j].action = a /\ rows[j].what \in C!Terminals

FitsAction(rows, i) ==
  LET a == rows[i].action
      what == rows[i].what IN
  /\ C!IsDecision(what) =>
       ~HadTerminal(rows, i - 1, a) /\ (what = "dispatch" => ~Had(rows, i - 1, a, "dispatch"))
  /\ what = C!Late =>
       Had(rows, i - 1, a, "outcome_unknown") /\ ~Had(rows, i - 1, a, C!Late)
  /\ what \in C!Terminals =>
       /\ HadDecision(rows, i - 1, a) /\ ~HadTerminal(rows, i - 1, a)
       /\ what = "not_forwarded" <=> ~Had(rows, i - 1, a, "dispatch")

Placed(rows, i) ==
  /\ rows[i].sig # 0 /\ rows[i].valid /\ rows[i].seq = i
  /\ ~RunHad(rows, i - 1, "close") /\ (i = 1 => rows[i].what = "open")

Fits(rows, i) ==
  /\ rows[i].what = "close" =>
       /\ RunHad(rows, i - 1, "open") /\ rows[i].count = i - 1
       /\ i > 1 => rows[i].head = rows[i - 1].sig
  /\ rows[i].what \in {"open", "heartbeat"} =>
       (rows[i].what = "open" <=> ~RunHad(rows, i - 1, "open"))
  /\ ActionRow(rows[i]) => FitsAction(rows, i)
  /\ rows[i].what \notin C!RunEvents /\ rows[i].action = NoAction => rows[i].what \in C!Methods

SoundAt(rows, i) == Placed(rows, i) /\ Fits(rows, i)

\* r is what the first k rows assess to.
ActionSummary(rows, k, a, s, broken) ==
  /\ s \in ActionStates
  /\ s.dispatch <=> Had(rows, k, a, "dispatch")
  /\ s.decisions = 0 <=> ~HadDecision(rows, k, a)
  /\ s.terminal <=> HadTerminal(rows, k, a)
  /\ s.late <=> Had(rows, k, a, C!Late)
  /\ ~broken => (s.unknown <=> Had(rows, k, a, "outcome_unknown"))

Summary(rows, at, k, r) ==
  /\ RunShaped(r) /\ r.count = k /\ (k > 0 => r.head = rows[k].sig)
  /\ r.open <=> RunHad(rows, k, "open")
  /\ r.closed <=> RunHad(rows, k, "close")
  /\ r.future <=> HadFuture(rows, k, at)
  /\ NoAction \notin DOMAIN r.actions
  /\ \A a : a # NoAction =>
       /\ a \in DOMAIN r.actions <=> Acted(rows, k, a)
       /\ ActionSummary(rows, k, a, C!ActionState(r, a), r.broken)
  /\ ~r.broken <=> \A i \in 1..k : SoundAt(rows, i)

LEMMA OneMore ==
  ASSUME NEW rows, NEW at, NEW k \in Nat \ {0}, NEW a, NEW what
  PROVE  /\ RunHad(rows, k, what) <=> RunHad(rows, k - 1, what) \/ rows[k].what = what
         /\ HadFuture(rows, k, at) <=> HadFuture(rows, k - 1, at)
              \/ (rows[k].what \in {"open", "heartbeat"} /\ rows[k].at > at + 1)
         /\ Acted(rows, k, a) <=> Acted(rows, k - 1, a)
              \/ (rows[k].action = a /\ ActionRow(rows[k]))
         /\ Had(rows, k, a, what) <=> Had(rows, k - 1, a, what)
              \/ (rows[k].action = a /\ rows[k].what = what)
         /\ HadDecision(rows, k, a) <=> HadDecision(rows, k - 1, a)
              \/ (rows[k].action = a /\ C!IsDecision(rows[k].what))
         /\ HadTerminal(rows, k, a) <=> HadTerminal(rows, k - 1, a)
              \/ (rows[k].action = a /\ rows[k].what \in C!Terminals)
<1>1. \A j : j \in 1..k <=> j \in 1..(k - 1) \/ j = k
  OBVIOUS
<1> QED BY <1>1, Zenon DEF RunHad, HadFuture, Acted, Had, HadDecision, HadTerminal

LEMMA Kinds ==
  ASSUME NEW what
  PROVE  /\ what \in C!RunEvents <=> what \in {"open", "heartbeat"} \/ what = "close"
         /\ what \in {"open", "heartbeat"} => what # "close"
         /\ what \in C!RunEvents => ~C!IsDecision(what) /\ what # C!Late /\ what \notin C!Terminals
         /\ C!IsDecision(what) => what # C!Late /\ what \notin C!Terminals
         /\ what \in C!Terminals => what # C!Late
         /\ what \notin C!RunEvents /\ what # C!Late /\ what \notin C!Terminals => C!IsDecision(what)
         /\ what = "dispatch" => C!IsDecision(what)
         /\ what \in {"outcome_unknown", "not_forwarded"} => what \in C!Terminals
BY DEF C!RunEvents, C!IsDecision, C!Observations, C!Late, C!Terminals

\* One more row of the action, and one more row that is not.
LEMMA ActionSummaryStep ==
  ASSUME NEW rows, NEW k \in Nat \ {0}, NEW a, NEW s, NEW n, NEW b \in BOOLEAN,
         ActionSummary(rows, k - 1, a, s, b),
         rows[k].action = a, rows[k].what \notin C!RunEvents,
         ActionFollows(s, rows[k].what, n)
  PROVE  ActionSummary(rows, k, a, n, b \/ ActionWrong(s, rows[k].what))
<1> DEFINE what == rows[k].what
<1>1. /\ C!IsDecision(what) => what # C!Late /\ what \notin C!Terminals
      /\ what \in C!Terminals => what # C!Late
      /\ what # C!Late /\ what \notin C!Terminals => C!IsDecision(what)
      /\ what = "dispatch" => C!IsDecision(what)
      /\ what = "outcome_unknown" => what \in C!Terminals
  BY Kinds
<1>2. /\ n.dispatch <=> Had(rows, k, a, "dispatch")
      /\ n.decisions = 0 <=> ~HadDecision(rows, k, a)
      /\ n.terminal <=> HadTerminal(rows, k, a)
      /\ n.late <=> Had(rows, k, a, C!Late)
  <2>1. /\ Had(rows, k, a, "dispatch") <=> Had(rows, k - 1, a, "dispatch") \/ what = "dispatch"
        /\ Had(rows, k, a, C!Late) <=> Had(rows, k - 1, a, C!Late) \/ what = C!Late
        /\ HadDecision(rows, k, a) <=> HadDecision(rows, k - 1, a) \/ C!IsDecision(what)
        /\ HadTerminal(rows, k, a) <=> HadTerminal(rows, k - 1, a) \/ what \in C!Terminals
    BY OneMore
  <2> HIDE DEF what
  <2>2. ActionFollows(s, what, n)
    BY DEF what
  <2> QED BY <1>1, <2>1, <2>2 DEF ActionSummary, ActionFollows
<1>3. ASSUME ~b, ~ActionWrong(s, what)
      PROVE  n.unknown <=> Had(rows, k, a, "outcome_unknown")
  <2>1. Had(rows, k, a, "outcome_unknown")
          <=> Had(rows, k - 1, a, "outcome_unknown") \/ what = "outcome_unknown"
    BY OneMore
  <2>2. s.unknown <=> Had(rows, k - 1, a, "outcome_unknown")
    BY <1>3 DEF ActionSummary
  <2>3. ActionFollows(s, what, n)
    OBVIOUS
  <2>4. CASE C!IsDecision(what) \/ what = C!Late
    <3>1. n.unknown <=> s.unknown
      BY <2>3, <2>4 DEF ActionFollows
    <3> QED BY <1>1, <2>1, <2>2, <2>4, <3>1
  <2>5. CASE ~(C!IsDecision(what) \/ what = C!Late)
    <3>1. n.unknown <=> what = "outcome_unknown"
      BY <2>3, <2>5 DEF ActionFollows
    <3>2. ~HadTerminal(rows, k - 1, a)
      BY <1>3, <2>5 DEF ActionWrong, ActionSummary
    <3>3. Had(rows, k - 1, a, "outcome_unknown") => HadTerminal(rows, k - 1, a)
      <4>1. "outcome_unknown" \in C!Terminals
        BY DEF C!Terminals
      <4> QED BY <4>1 DEF Had, HadTerminal
    <3> QED BY <2>1, <3>1, <3>2, <3>3
  <2> QED BY <2>4, <2>5
<1>4. n \in ActionStates
  BY DEF ActionFollows
<1> QED BY <1>2, <1>3, <1>4 DEF ActionSummary

LEMMA ActionSummaryRest ==
  ASSUME NEW rows, NEW k \in Nat \ {0}, NEW a, NEW s, NEW b, NEW c, b => c,
         ActionSummary(rows, k - 1, a, s, b), rows[k].action # a
  PROVE  ActionSummary(rows, k, a, s, c)
BY OneMore DEF ActionSummary

\* What is wrong with a row is what does not fit.
LEMMA WrongFits ==
  ASSUME NEW rows, NEW at, NEW k \in Nat \ {0}, NEW r, Summary(rows, at, k - 1, r), ~r.broken,
         ~C!Misplaced(r, rows[k])
  PROVE  ~RowWrong(r, rows[k]) <=> Fits(rows, k)
<1>1. PICK row : row = rows[k]
  OBVIOUS
<1>2. /\ r.open <=> RunHad(rows, k - 1, "open")
      /\ r.open \in BOOLEAN /\ r.count = k - 1
      /\ k > 1 => r.head = rows[k - 1].sig
      /\ ~r.closed
      /\ r.count = 0 => row.what = "open"
  BY <1>1 DEF Summary, RunShaped, RunStates, C!Misplaced
<1>3. /\ row.what \in C!RunEvents <=> row.what \in {"open", "heartbeat"} \/ row.what = "close"
      /\ row.what \in {"open", "heartbeat"} => row.what # "close"
      /\ row.what = "close" => k > 1
  BY <1>2, Kinds
<1>4. CASE row.what = "close"
  <2>1. Fits(rows, k) <=> RunHad(rows, k - 1, "open") /\ row.count = k - 1
                          /\ (k > 1 => row.head = rows[k - 1].sig)
    BY <1>1, <1>3, <1>4 DEF Fits, ActionRow
  <2>2. RowWrong(r, row) <=> ~r.open \/ row.count # r.count \/ row.head # r.head
    BY <1>4 DEF RowWrong
  <2> QED BY <1>1, <1>2, <1>3, <1>4, <2>1, <2>2
<1>5. CASE row.what \in {"open", "heartbeat"}
  <2>1. Fits(rows, k) <=> (row.what = "open" <=> ~RunHad(rows, k - 1, "open"))
    BY <1>1, <1>3, <1>5 DEF Fits, ActionRow
  <2>2. RowWrong(r, row) <=> (row.what = "open") = r.open \/ r.closed
    BY <1>3, <1>5 DEF RowWrong
  <2> QED BY <1>1, <1>2, <2>1, <2>2
<1>6. CASE row.what \notin C!RunEvents /\ row.action = NoAction
  BY <1>1, <1>3, <1>6 DEF Fits, ActionRow, RowWrong
<1>7. CASE ActionRow(row)
  <2>1. PICK a : a = row.action /\ a # NoAction
    BY <1>7 DEF ActionRow
  <2>2. PICK s : s = C!ActionState(r, a)
    OBVIOUS
  <2>3. ActionSummary(rows, k - 1, a, s, r.broken)
    BY <2>1, <2>2 DEF Summary
  <2>4. Fits(rows, k) <=> FitsAction(rows, k)
    BY <1>1, <1>3, <1>7 DEF Fits, ActionRow
  <2>5. RowWrong(r, row) <=> ActionWrong(s, row.what)
    BY <1>3, <1>7, <2>1, <2>2 DEF RowWrong, ActionRow
  <2>6. /\ s.dispatch \in BOOLEAN
        /\ s.dispatch <=> Had(rows, k - 1, a, "dispatch")
        /\ s.decisions = 0 <=> ~HadDecision(rows, k - 1, a)
        /\ s.terminal <=> HadTerminal(rows, k - 1, a)
        /\ s.late <=> Had(rows, k - 1, a, C!Late)
        /\ s.unknown <=> Had(rows, k - 1, a, "outcome_unknown")
    BY <2>3 DEF ActionSummary, ActionStates
  <2>7. ~ActionWrong(s, row.what) <=> FitsAction(rows, k)
    <3>1. CASE C!IsDecision(row.what)
      <4>1. row.what # C!Late /\ row.what \notin C!Terminals
        BY <3>1, Kinds
      <4> QED BY <1>1, <2>1, <2>6, <3>1, <4>1 DEF ActionWrong, FitsAction
    <3>2. CASE row.what = C!Late
      <4>1. ~C!IsDecision(row.what) /\ row.what \notin C!Terminals
        BY <3>2, Kinds
      <4> QED BY <1>1, <2>1, <2>6, <3>2, <4>1 DEF ActionWrong, FitsAction
    <3>3. CASE ~C!IsDecision(row.what) /\ row.what # C!Late
      <4>1. row.what \in C!Terminals
        BY <1>7, <3>3, Kinds DEF ActionRow
      <4>2. ActionWrong(s, row.what)
              <=> s.decisions = 0 \/ s.terminal \/ (row.what = "not_forwarded") = s.dispatch
        BY <3>3 DEF ActionWrong
      <4>3. FitsAction(rows, k)
              <=> /\ HadDecision(rows, k - 1, a) /\ ~HadTerminal(rows, k - 1, a)
                  /\ row.what = "not_forwarded" <=> ~Had(rows, k - 1, a, "dispatch")
        BY <1>1, <2>1, <3>3, <4>1 DEF FitsAction
      <4>4. (row.what = "not_forwarded") = s.dispatch <=> (row.what = "not_forwarded" <=> s.dispatch)
        BY <2>6
      <4> QED BY <2>6, <4>2, <4>3, <4>4
    <3> QED BY <3>1, <3>2, <3>3
  <2> QED BY <1>1, <2>4, <2>5, <2>7
<1> QED BY <1>3, <1>4, <1>5, <1>6, <1>7 DEF ActionRow

LEMMA SummaryStep ==
  ASSUME NEW rows, NEW at, NEW k \in Nat \ {0}, NEW r, Summary(rows, at, k - 1, r),
         RowShaped(rows[k]), NEW next, next = C!Assess(r, rows[k], at)
  PROVE  Summary(rows, at, k, next)
<1>1. PICK row : row = rows[k]
  OBVIOUS
<1>2. RunShaped(r) /\ RowShaped(row) /\ next = C!Assess(r, row, at)
  BY <1>1 DEF Summary
<1>3. RowAssessed(r, row, at, next)
  BY <1>2, AssessFacts
<1>4. next.count = k /\ next.head = rows[k].sig
  BY <1>1, <1>3 DEF Summary, RowAssessed
<1>5. /\ next.open <=> RunHad(rows, k, "open")
      /\ next.closed <=> RunHad(rows, k, "close")
      /\ next.future <=> HadFuture(rows, k, at)
  <2>1. /\ r.open <=> RunHad(rows, k - 1, "open")
        /\ r.closed <=> RunHad(rows, k - 1, "close")
        /\ r.future <=> HadFuture(rows, k - 1, at)
    BY DEF Summary
  <2>2. /\ next.open <=> r.open \/ row.what = "open"
        /\ next.closed <=> r.closed \/ row.what = "close"
        /\ next.future <=> r.future \/ (row.what \in {"open", "heartbeat"} /\ row.at > at + 1)
    BY <1>3 DEF RowAssessed
  <2>3. /\ RunHad(rows, k, "open") <=> RunHad(rows, k - 1, "open") \/ row.what = "open"
        /\ RunHad(rows, k, "close") <=> RunHad(rows, k - 1, "close") \/ row.what = "close"
    BY <1>1, OneMore
  <2>4. HadFuture(rows, k, at) <=> HadFuture(rows, k - 1, at)
          \/ (row.what \in {"open", "heartbeat"} /\ row.at > at + 1)
    BY <1>1, OneMore
  <2> QED BY <2>1, <2>2, <2>3, <2>4
<1>6. NoAction \notin DOMAIN next.actions
  BY <1>3 DEF Summary, ActionRow, RowAssessed
<1>7. ASSUME NEW a, a # NoAction
      PROVE  /\ a \in DOMAIN next.actions <=> Acted(rows, k, a)
             /\ ActionSummary(rows, k, a, C!ActionState(next, a), next.broken)
  <2>1. PICK s : s = C!ActionState(r, a)
    OBVIOUS
  <2>2. ActionSummary(rows, k - 1, a, s, r.broken) /\ (a \in DOMAIN r.actions <=> Acted(rows, k - 1, a))
    BY <1>7, <2>1 DEF Summary
  <2>3. Acted(rows, k, a) <=> Acted(rows, k - 1, a) \/ (row.action = a /\ ActionRow(row))
    BY <1>1, OneMore
  <2>4. CASE row.action = a /\ ActionRow(row)
    <3>1. PICK n : n = next.actions[a]
      OBVIOUS
    <3>2. ActionFollows(s, row.what, n) /\ a \in DOMAIN next.actions
      BY <1>3, <2>1, <2>4, <3>1 DEF RowAssessed
    <3>3. C!ActionState(next, a) = n
      BY <3>1, <3>2 DEF C!ActionState
    <3>4. r.broken \in BOOLEAN /\ row.what \notin C!RunEvents /\ row.what # "close"
      BY <1>2, <2>4 DEF RunShaped, RunStates, ActionRow, C!RunEvents
    <3>5. ActionSummary(rows, k, a, n, r.broken \/ ActionWrong(s, row.what))
      BY <1>1, <2>2, <2>4, <3>2, <3>4, ActionSummaryStep
    <3>6. RowWrong(r, row) <=> ActionWrong(s, row.what)
      BY <1>7, <2>1, <2>4, <3>4 DEF RowWrong
    <3>7. ~next.broken => ~(r.broken \/ ActionWrong(s, row.what))
      BY <1>3, <3>6 DEF RowAssessed
    <3>8. ActionSummary(rows, k, a, n, next.broken)
      BY <3>5, <3>7 DEF ActionSummary
    <3> QED BY <2>3, <2>4, <3>2, <3>3, <3>8
  <2>5. CASE row.action # a \/ ~ActionRow(row)
    <3>1. a \in DOMAIN next.actions <=> a \in DOMAIN r.actions
      BY <1>3, <2>5 DEF RowAssessed
    <3>2. C!ActionState(next, a) = s
      BY <1>3, <2>1, <2>5, <3>1 DEF C!ActionState, RowAssessed
    <3>3. ActionSummary(rows, k, a, s, next.broken)
      <4>1. CASE row.action # a
        BY <1>1, <1>3, <2>2, <4>1, ActionSummaryRest DEF RowAssessed
      <4>2. CASE row.action = a
        <5>1. row.what \in C!RunEvents
          BY <1>7, <2>5, <4>2 DEF ActionRow
        <5>2. /\ ~C!IsDecision(row.what) /\ row.what # C!Late /\ row.what \notin C!Terminals
              /\ row.what \notin {"dispatch", "outcome_unknown"}
          BY <5>1, Kinds
        <5> QED BY <1>1, <1>3, <2>2, <5>2, OneMore DEF ActionSummary, RowAssessed
      <4> QED BY <4>1, <4>2
    <3> QED BY <2>2, <2>3, <2>5, <3>1, <3>2, <3>3
  <2> QED BY <2>4, <2>5
<1>8. ~next.broken <=> \A i \in 1..k : SoundAt(rows, i)
  <2>1. ~r.broken <=> \A i \in 1..(k - 1) : SoundAt(rows, i)
    BY DEF Summary
  <2>2. \A i : i \in 1..k <=> i \in 1..(k - 1) \/ i = k
    OBVIOUS
  <2>3. ASSUME ~r.broken PROVE ~(C!Misplaced(r, row) \/ RowWrong(r, row)) <=> SoundAt(rows, k)
    <3>1. ~C!Misplaced(r, row) <=> Placed(rows, k)
      <4>1. r.count = k - 1 /\ (r.closed <=> RunHad(rows, k - 1, "close")) /\ k - 1 + 1 = k
        BY DEF Summary
      <4>2. k - 1 = 0 <=> k = 1
        OBVIOUS
      <4> QED BY <1>1, <4>1, <4>2 DEF C!Misplaced, Placed
    <3>2. ~C!Misplaced(r, row) => (~RowWrong(r, row) <=> Fits(rows, k))
      BY <1>1, <2>3, WrongFits
    <3> QED BY <3>1, <3>2 DEF SoundAt
  <2> QED BY <1>3, <2>1, <2>2, <2>3 DEF RowAssessed
<1> QED BY <1>3, <1>4, <1>5, <1>6, <1>7, <1>8 DEF Summary, RowAssessed

-----------------------------------------------------------------------------
LEMMA FewPlaces ==
  ASSUME NEW n \in Nat, NEW s \in SUBSET (1..n)
  PROVE  /\ C!Cardinality(s) = 0 <=> s = {}
         /\ C!Cardinality(s) = 1 <=> \E x : s = {x}
         /\ C!Cardinality(s) <= 1 <=> \A x, y \in s : x = y
<1>1. C!Cardinality(s) = Cardinality(s)
  BY DEF C!Cardinality, Cardinality, C!IsFiniteSet, IsFiniteSet
<1>2. IsFiniteSet(s)
  <2>1. IsFiniteSet(1..n)
    BY FS_Interval
  <2> QED BY <2>1, FS_Subset
<1>3. Cardinality(s) \in Nat
  BY <1>2, FS_CardinalityType
<1>4. Cardinality(s) = 0 <=> s = {}
  BY <1>2, FS_EmptySet
<1>5. Cardinality(s) = 1 <=> \E x : s = {x}
  BY <1>2, FS_Singleton
<1>6. (s = {} \/ \E x : s = {x}) <=> \A x, y \in s : x = y
  <2>1. ASSUME \A x, y \in s : x = y, s # {} PROVE \E x : s = {x}
    <3>1. PICK x \in s : TRUE
      BY <2>1
    <3>2. s = {x}
      BY <2>1, <3>1
    <3> QED BY <3>2
  <2> QED BY <2>1
<1>7. Cardinality(s) <= 1 <=> Cardinality(s) = 0 \/ Cardinality(s) = 1
  BY <1>3
<1> QED BY <1>1, <1>4, <1>5, <1>6, <1>7

\* Rows as a run's writers form them.
RowsShaped(rows) ==
  \A i \in 1..Len(rows) :
    RowShaped(rows[i]) /\ (rows[i].what \in C!RunEvents => rows[i].action = NoAction)

LEMMA StreamSummary ==
  ASSUME NEW rows, Len(rows) \in Nat, RowsShaped(rows), NEW at, NEW steps, Runs(rows, at, steps)
  PROVE  Summary(rows, at, Len(rows), steps[Len(rows)])
<1>1. PICK n \in Nat : n = Len(rows)
  OBVIOUS
<1>2. /\ steps[0] = C!NoRun
      /\ \A k \in 1..n : steps[k] = C!Assess(steps[k - 1], rows[k], at)
  BY <1>1 DEF Runs
<1>3. Summary(rows, at, 0, steps[0])
  <2>1. 1..0 = {} /\ DOMAIN << >> = {}
    OBVIOUS
  <2>2. PICK r : r = C!NoRun
    OBVIOUS
  <2>3. r.actions = << >> /\ r \in RunStates(r.actions)
    BY <2>2 DEF C!NoRun, RunStates
  <2>4. RunShaped(r) /\ NoAction \notin DOMAIN r.actions
    BY <2>1, <2>3 DEF RunShaped
  <2>5. r.count = 0 /\ ~r.open /\ ~r.closed /\ ~r.future /\ ~r.broken
    BY <2>2 DEF C!NoRun
  <2>6. \A a : a \notin DOMAIN r.actions /\ C!ActionState(r, a) = C!NoActionState
    BY <2>1, <2>3 DEF C!ActionState
  <2>7. ASSUME NEW a PROVE ActionSummary(rows, 0, a, C!NoActionState, FALSE)
    BY <2>1 DEF ActionSummary, ActionStates, C!NoActionState, Had, HadDecision, HadTerminal
  <2>8. \A a : ~Acted(rows, 0, a)
    BY <2>1 DEF Acted
  <2>9. ~RunHad(rows, 0, "open") /\ ~RunHad(rows, 0, "close") /\ ~HadFuture(rows, 0, at)
    BY <2>1 DEF RunHad, HadFuture
  <2>10. \A a : ActionSummary(rows, 0, a, C!ActionState(r, a), r.broken)
    BY <2>5, <2>6, <2>7 DEF ActionSummary
  <2>11. Summary(rows, at, 0, r)
    BY <2>1, <2>4, <2>5, <2>6, <2>8, <2>9, <2>10 DEF Summary
  <2> QED BY <1>2, <2>2, <2>11
<1>4. ASSUME NEW k \in 1..n, Summary(rows, at, k - 1, steps[k - 1])
      PROVE  Summary(rows, at, k, steps[k])
  <2>1. k \in Nat \ {0}
    OBVIOUS
  <2>2. RowShaped(rows[k])
    BY <1>1 DEF RowsShaped
  <2>3. PICK r, next : r = steps[k - 1] /\ next = steps[k]
    OBVIOUS
  <2>4. Summary(rows, at, k - 1, r) /\ next = C!Assess(r, rows[k], at)
    BY <1>2, <1>4, <2>3
  <2>5. Summary(rows, at, k, next)
    BY <2>1, <2>2, <2>4, SummaryStep
  <2> QED BY <2>3, <2>5
<1> DEFINE W == {k \in 0..n : ~Summary(rows, at, k, steps[k])}
<1> SUFFICES ASSUME W # {} PROVE FALSE
  BY <1>1
<1>5. PICK k \in W : \A y \in W : k <= y
  <2> HIDE DEF W
  <2>1. W \subseteq Nat
    BY DEF W
  <2> QED BY <2>1, SmallestOf
<1>6. k \in 0..n /\ ~Summary(rows, at, k, steps[k])
  BY <1>5
<1>7. k # 0
  BY <1>3, <1>6
<1>8. k \in 1..n /\ k - 1 \in 0..n /\ ~(k <= k - 1)
  BY <1>6, <1>7
<1>9. Summary(rows, at, k - 1, steps[k - 1])
  BY <1>5, <1>8
<1> QED BY <1>4, <1>6, <1>8, <1>9

\* The two verdicts, over the whole stream at once.
WellFormed(rows) == \A i \in 1..Len(rows) : SoundAt(rows, i)
Settled(rows) ==
  \A a : a # NoAction /\ Acted(rows, Len(rows), a) => HadTerminal(rows, Len(rows), a)

LEMMA VerdictFacts ==
  ASSUME NEW T, NEW rows \in Seq(T), RowsShaped(rows), NEW at
  PROVE  /\ \A cp : C!Verdict(rows, cp, at) = "LIMITED" <=>
              /\ cp /\ WellFormed(rows) /\ Settled(rows)
              /\ RunHad(rows, Len(rows), "open") /\ RunHad(rows, Len(rows), "close")
              /\ ~HadFuture(rows, Len(rows), at)
         /\ C!Verdict(rows, TRUE, at) = "BROKEN" <=>
              (\E i \in 1..Len(rows) : rows[i].sig # 0) /\ ~WellFormed(rows)
<1>1. PICK n \in Nat : n = Len(rows) /\ DOMAIN rows = 1..n
  BY LenProperties
<1>2. PICK steps : /\ Runs(rows, at, steps)
                   /\ \A cp : C!Verdict(rows, cp, at) = Judged(rows, steps[Len(rows)], cp, at)
  BY VerdictJudges
<1>3. PICK r : r = steps[Len(rows)]
  OBVIOUS
<1>4. Summary(rows, at, n, r)
  BY <1>1, <1>2, <1>3, StreamSummary
<1>5. /\ r.open <=> RunHad(rows, n, "open")
      /\ r.closed <=> RunHad(rows, n, "close")
      /\ r.future <=> HadFuture(rows, n, at)
      /\ ~r.broken <=> WellFormed(rows)
  BY <1>1, <1>4 DEF Summary, WellFormed
<1>6. C!Incomplete(r) <=> ~Settled(rows)
  <2>1. ASSUME NEW a
        PROVE  a \in DOMAIN r.actions /\ ~r.actions[a].terminal <=>
                 a # NoAction /\ Acted(rows, n, a) /\ ~HadTerminal(rows, n, a)
    <3>1. CASE a = NoAction
      BY <1>4, <3>1 DEF Summary
    <3>2. CASE a # NoAction
      <4>1. /\ a \in DOMAIN r.actions <=> Acted(rows, n, a)
            /\ C!ActionState(r, a).terminal <=> HadTerminal(rows, n, a)
        BY <1>4, <3>2 DEF Summary, ActionSummary
      <4>2. a \in DOMAIN r.actions => C!ActionState(r, a) = r.actions[a]
        BY DEF C!ActionState
      <4> QED BY <3>2, <4>1, <4>2
    <3> QED BY <3>1, <3>2
  <2> QED BY <1>1, <2>1 DEF C!Incomplete, Settled
<1>7. (\A i \in DOMAIN rows : rows[i].sig = 0) <=> ~\E i \in 1..n : rows[i].sig # 0
  BY <1>1
<1>8. WellFormed(rows) /\ n # 0 => RunHad(rows, n, "open") /\ rows[1].sig # 0
  <2>1. ASSUME WellFormed(rows), n # 0 PROVE rows[1].what = "open" /\ rows[1].sig # 0 /\ 1 \in 1..n
    <3>1. 1 \in 1..n
      BY <2>1
    <3>2. SoundAt(rows, 1)
      BY <1>1, <2>1, <3>1 DEF WellFormed
    <3> QED BY <3>1, <3>2 DEF SoundAt, Placed
  <2> QED BY <2>1 DEF RunHad
<1>9. ASSUME NEW cp
      PROVE  C!Verdict(rows, cp, at) = "LIMITED" <=>
               /\ cp /\ WellFormed(rows) /\ Settled(rows)
               /\ RunHad(rows, n, "open") /\ RunHad(rows, n, "close") /\ ~HadFuture(rows, n, at)
  <2>1. C!Verdict(rows, cp, at) = Judged(rows, r, cp, at)
    BY <1>2, <1>3
  <2>2. RunHad(rows, n, "open") => n # 0
    <3>1. 1..0 = {}
      OBVIOUS
    <3> QED BY <3>1 DEF RunHad
  <2>3. WellFormed(rows) /\ RunHad(rows, n, "open") => \E i \in 1..n : rows[i].sig # 0
    <3>1. n # 0 => 1 \in 1..n
      OBVIOUS
    <3> QED BY <1>8, <2>2, <3>1
  <2>4. Judged(rows, r, cp, at) = "LIMITED" <=>
          /\ cp /\ (\E i \in 1..n : rows[i].sig # 0) /\ r.open /\ ~r.broken /\ ~r.future
          /\ r.closed /\ ~C!Incomplete(r)
    BY <1>7 DEF Judged
  <2> QED BY <1>5, <1>6, <2>1, <2>3, <2>4
<1>10. C!Verdict(rows, TRUE, at) = "BROKEN" <=>
         (\E i \in 1..n : rows[i].sig # 0) /\ ~WellFormed(rows)
  <2>1. C!Verdict(rows, TRUE, at) = Judged(rows, r, TRUE, at)
    BY <1>2, <1>3
  <2>2. Judged(rows, r, TRUE, at) = "BROKEN" <=>
          (\E i \in 1..n : rows[i].sig # 0) /\ (~r.open \/ r.broken)
    BY <1>7 DEF Judged
  <2>3. (\E i \in 1..n : rows[i].sig # 0) => n # 0
    OBVIOUS
  <2> QED BY <1>5, <1>8, <2>1, <2>2, <2>3
<1> QED BY <1>1, <1>9, <1>10

-----------------------------------------------------------------------------
\* A complete stream fits at every place, and a stream that fits, closes and
\* leaves no action open is complete.
Ended(rows) ==
  /\ WellFormed(rows) /\ Settled(rows)
  /\ RunHad(rows, Len(rows), "open") /\ RunHad(rows, Len(rows), "close")

LEMMA CompleteFits ==
  ASSUME NEW T, NEW rows \in Seq(T), RowsShaped(rows), C!CompleteStream(rows)
  PROVE  Ended(rows)
<1>1. PICK n \in Nat : n = Len(rows) /\ DOMAIN rows = 1..n
  BY LenProperties
<1>2. /\ \A i \in 1..n : rows[i].seq = i /\ rows[i].sig # 0 /\ rows[i].valid
      /\ n > 1 /\ rows[n].count = n - 1 /\ rows[n].head = rows[n - 1].sig
  BY <1>1 DEF C!CompleteStream, C!Numbered, C!Enclosed
<1>3. /\ \A i \in 1..n : rows[i].what = "open" <=> i = 1
      /\ \A i \in 1..n : rows[i].what = "close" <=> i = n
  <2>1. C!At(rows, "open") = {1} /\ C!At(rows, "close") = {n}
    BY <1>1 DEF C!CompleteStream, C!Enclosed
  <2> QED BY <1>1, <2>1 DEF C!At
<1>4. ASSUME NEW i \in 1..n, ActionRow(rows[i]), NEW a, a = rows[i].action
      PROVE  C!ActionComplete(rows, a)
  <2>1. a \in C!ActionsIn(rows)
    BY <1>1, <1>4 DEF C!ActionsIn, ActionRow
  <2> QED BY <2>1 DEF C!CompleteStream
<1>5. ASSUME NEW i \in 1..n, ActionRow(rows[i])
      PROVE  FitsAction(rows, i) /\ HadTerminal(rows, n, rows[i].action)
  <2>1. PICK a, what : a = rows[i].action /\ what = rows[i].what
    OBVIOUS
  <2>2. a # NoAction /\ what \notin C!RunEvents
    BY <1>5, <2>1 DEF ActionRow
  <2> DEFINE mine == C!Of(rows, a)
  <2>3. \A j : j \in mine <=> j \in 1..n /\ rows[j].action = a /\ rows[j].what \notin C!RunEvents
    BY <1>1 DEF C!Of
  <2>4. mine \in SUBSET (1..n) /\ i \in mine
    BY <1>5, <2>1, <2>2, <2>3
  <2>5. PICK t \in mine :
          /\ {j \in mine : rows[j].what \in C!Terminals} = {t}
          /\ {j \in mine : C!IsDecision(rows[j].what)} # {}
          /\ \A j \in {j \in mine : C!IsDecision(rows[j].what)} : j < t
          /\ C!Cardinality(mine \cap C!At(rows, "dispatch"))
               = IF rows[t].what = "not_forwarded" THEN 0 ELSE 1
          /\ C!Cardinality(mine \cap C!At(rows, C!Late)) <= 1
          /\ \A j \in mine \cap C!At(rows, C!Late) : j > t /\ rows[t].what = "outcome_unknown"
    <3>1. C!ActionComplete(rows, a)
      BY <1>4, <1>5, <2>1
    <3> QED BY <3>1 DEF C!ActionComplete
  <2> HIDE DEF mine
  <2>6. /\ \A j \in mine : rows[j].what \in C!Terminals <=> j = t
        /\ \E j \in mine : C!IsDecision(rows[j].what)
        /\ \A j \in mine : C!IsDecision(rows[j].what) => j < t
        /\ \A j \in mine : rows[j].what = C!Late => j > t /\ rows[t].what = "outcome_unknown"
    <3>1. \A j \in mine : rows[j].what = C!Late => j \in C!At(rows, C!Late)
      BY <1>1, <2>4 DEF C!At
    <3> QED BY <2>5, <3>1
  <2>7. \A j, m \in mine : rows[j].what = C!Late /\ rows[m].what = C!Late => j = m
    <3> DEFINE s == mine \cap C!At(rows, C!Late)
    <3>1. \A j \in mine : rows[j].what = C!Late => j \in s
      BY <1>1, <2>4 DEF C!At
    <3>2. s \in SUBSET (1..n) /\ C!Cardinality(s) <= 1
      BY <2>4, <2>5
    <3> HIDE DEF s
    <3>3. \A x, y \in s : x = y
      BY <3>2, FewPlaces
    <3> QED BY <3>1, <3>3
  <2>8. IF rows[t].what = "not_forwarded" THEN ~\E j \in mine : rows[j].what = "dispatch"
        ELSE \E x \in mine : \A j \in mine : rows[j].what = "dispatch" <=> j = x
    <3> DEFINE s == mine \cap C!At(rows, "dispatch")
    <3>1. \A j : j \in s <=> j \in mine /\ rows[j].what = "dispatch"
      BY <1>1, <2>4 DEF C!At
    <3>2. s \in SUBSET (1..n) /\ C!Cardinality(s) = IF rows[t].what = "not_forwarded" THEN 0 ELSE 1
      BY <2>4, <2>5
    <3> HIDE DEF s
    <3>3. IF rows[t].what = "not_forwarded" THEN s = {} ELSE \E x : s = {x}
      BY <3>2, FewPlaces
    <3> QED BY <3>1, <3>3
  <2>9. HadTerminal(rows, n, a)
    BY <2>3, <2>5, <2>6 DEF HadTerminal
  <2>10. \A j \in 1..(i - 1) : j \in 1..n /\ j < i /\ i \in Nat
    BY <1>1
  <2>11. \A j \in mine : j \in Nat /\ (j < i => j \in 1..(i - 1))
    BY <1>1, <2>4
  <2>12. \A j \in 1..n : rows[j].action = a /\
           (rows[j].what \in C!Terminals \/ rows[j].what = "dispatch" \/ rows[j].what = C!Late
            \/ C!IsDecision(rows[j].what)) => j \in mine
    BY <2>3, Kinds
  <2>13. i \in Nat /\ t \in Nat
    BY <2>4
  <2>14. CASE C!IsDecision(what)
    <3>1. what # C!Late /\ what \notin C!Terminals /\ i < t
      BY <2>1, <2>4, <2>6, <2>14, Kinds
    <3>2. ~HadTerminal(rows, i - 1, a)
      <4>1. ASSUME NEW j \in 1..(i - 1), rows[j].action = a, rows[j].what \in C!Terminals
            PROVE  FALSE
        <5>1. j = t
          BY <2>6, <2>10, <2>12, <4>1
        <5> QED BY <2>10, <2>13, <3>1, <5>1
      <4> QED BY <4>1 DEF HadTerminal
    <3>3. what = "dispatch" => ~Had(rows, i - 1, a, "dispatch")
      <4>1. ASSUME what = "dispatch", NEW j \in 1..(i - 1), rows[j].action = a,
                   rows[j].what = "dispatch"
            PROVE  FALSE
        <5>1. j \in mine /\ i \in mine /\ j # i
          BY <2>4, <2>10, <2>12, <4>1
        <5> QED BY <2>1, <2>8, <4>1, <5>1
      <4> QED BY <4>1 DEF Had
    <3> QED BY <2>1, <2>9, <2>14, <3>1, <3>2, <3>3 DEF FitsAction
  <2>15. CASE what = C!Late
    <3>1. ~C!IsDecision(what) /\ what \notin C!Terminals
      BY <2>15, Kinds
    <3>2. t < i /\ rows[t].what = "outcome_unknown"
      BY <2>1, <2>4, <2>6, <2>15, <2>13
    <3>3. Had(rows, i - 1, a, "outcome_unknown")
      BY <2>3, <2>11, <3>2 DEF Had
    <3>4. ~Had(rows, i - 1, a, C!Late)
      <4>1. ASSUME NEW j \in 1..(i - 1), rows[j].action = a, rows[j].what = C!Late
            PROVE  FALSE
        <5>1. j \in mine /\ j # i
          BY <2>10, <2>12, <4>1
        <5> QED BY <2>1, <2>4, <2>7, <2>15, <4>1, <5>1
      <4> QED BY <4>1 DEF Had
    <3> QED BY <2>1, <2>9, <2>15, <3>1, <3>3, <3>4 DEF FitsAction
  <2>16. CASE what \in C!Terminals
    <3>1. ~C!IsDecision(what) /\ what # C!Late /\ i = t
      BY <2>1, <2>4, <2>6, <2>16, Kinds
    <3>2. HadDecision(rows, i - 1, a)
      BY <2>3, <2>6, <2>11, <3>1 DEF HadDecision
    <3>3. ~HadTerminal(rows, i - 1, a)
      <4>1. ASSUME NEW j \in 1..(i - 1), rows[j].action = a, rows[j].what \in C!Terminals
            PROVE  FALSE
        <5>1. j = t
          BY <2>6, <2>10, <2>12, <4>1
        <5> QED BY <2>10, <2>13, <3>1, <5>1
      <4> QED BY <4>1 DEF HadTerminal
    <3>4. what = "not_forwarded" <=> ~Had(rows, i - 1, a, "dispatch")
      <4>1. CASE what = "not_forwarded"
        BY <2>1, <2>8, <2>10, <2>12, <3>1, <4>1 DEF Had
      <4>2. CASE what # "not_forwarded"
        <5>1. PICK x \in mine : rows[x].what = "dispatch"
          BY <2>1, <2>8, <3>1, <4>2
        <5>2. x < i
          BY <2>6, <3>1, <5>1, Kinds
        <5> QED BY <2>3, <2>11, <4>2, <5>1, <5>2 DEF Had
      <4> QED BY <4>1, <4>2
    <3> QED BY <2>1, <2>9, <2>16, <3>1, <3>2, <3>3, <3>4 DEF FitsAction
  <2> QED BY <2>2, <2>14, <2>15, <2>16, Kinds
<1>6. RunHad(rows, n, "open") /\ RunHad(rows, n, "close")
  <2>1. 1 \in 1..n /\ n \in 1..n
    BY <1>2
  <2> QED BY <1>3, <2>1 DEF RunHad
<1>7. ASSUME NEW i \in 1..n PROVE SoundAt(rows, i)
  <2>1. \A j \in 1..(i - 1) : j \in 1..n /\ j # n /\ j # i
    OBVIOUS
  <2>2. ~RunHad(rows, i - 1, "close")
    BY <1>3, <2>1 DEF RunHad
  <2>3. RunHad(rows, i - 1, "open") <=> i > 1
    <3>1. i > 1 => 1 \in 1..(i - 1)
      OBVIOUS
    <3>2. i = 1 => 1..(i - 1) = {}
      OBVIOUS
    <3>3. 1 \in 1..n
      BY <1>2
    <3> QED BY <1>3, <3>1, <3>2, <3>3 DEF RunHad
  <2>4. Placed(rows, i)
    BY <1>2, <1>3, <2>2 DEF Placed
  <2>5. rows[i].what = "close" => i = n /\ i > 1
    BY <1>2, <1>3
  <2>6. rows[i].what \notin C!RunEvents /\ rows[i].action = NoAction => rows[i].what \in C!Methods
    BY <1>1 DEF C!CompleteStream, C!Accounted, C!Of
  <2>7. rows[i].what = "open" <=> ~RunHad(rows, i - 1, "open")
    BY <1>3, <2>3
  <2>8. Fits(rows, i)
    BY <1>2, <1>5, <2>3, <2>5, <2>6, <2>7 DEF Fits
  <2> QED BY <2>4, <2>8 DEF SoundAt
<1>8. Settled(rows)
  <2>1. ASSUME NEW a, Acted(rows, n, a) PROVE HadTerminal(rows, n, a)
    <3>1. PICK i \in 1..n : rows[i].action = a /\ ActionRow(rows[i])
      BY <2>1 DEF Acted
    <3> QED BY <1>5, <3>1
  <2> QED BY <1>1, <2>1 DEF Settled
<1> QED BY <1>1, <1>6, <1>7, <1>8 DEF Ended, WellFormed

LEMMA FitsComplete ==
  ASSUME NEW T, NEW rows \in Seq(T), RowsShaped(rows), Ended(rows)
  PROVE  C!CompleteStream(rows)
<1>1. PICK n \in Nat : n = Len(rows) /\ DOMAIN rows = 1..n
  BY LenProperties
<1>2. /\ \A i \in 1..n : Placed(rows, i) /\ Fits(rows, i)
      /\ \A a : a # NoAction /\ Acted(rows, n, a) => HadTerminal(rows, n, a)
      /\ RunHad(rows, n, "close")
      /\ \A i \in 1..n : rows[i].what \in C!RunEvents => rows[i].action = NoAction
  BY <1>1 DEF Ended, WellFormed, Settled, SoundAt, RowsShaped
<1>3. PICK e \in 1..n : rows[e].what = "close"
  BY <1>2 DEF RunHad
<1>4. 1 \in 1..n /\ rows[1].what = "open" /\ n \in 1..n
  <2>1. 1 \in 1..n /\ n \in 1..n
    BY <1>3
  <2> QED BY <1>2, <2>1 DEF Placed
<1>5. ASSUME NEW i \in 1..n, NEW j \in 1..n, i < j PROVE i \in 1..(j - 1)
  BY <1>5
<1>6. \A i \in 1..n : rows[i].what = "close" <=> i = n
  <2>1. ASSUME NEW i \in 1..n, rows[i].what = "close", i # n PROVE FALSE
    <3>1. i \in 1..(n - 1)
      BY <1>4, <2>1
    <3>2. RunHad(rows, n - 1, "close")
      BY <2>1, <3>1 DEF RunHad
    <3> QED BY <1>2, <1>4, <3>2 DEF Placed
  <2> QED BY <1>3, <2>1
<1>7. n > 1
  BY <1>4, <1>6
<1>8. \A i \in 1..n : rows[i].what = "open" <=> i = 1
  <2>1. ASSUME NEW i \in 1..n, rows[i].what = "open", i # 1 PROVE FALSE
    <3>1. 1 \in 1..(i - 1)
      BY <2>1
    <3>2. RunHad(rows, i - 1, "open")
      BY <1>4, <3>1 DEF RunHad
    <3> QED BY <1>2, <2>1, <3>2 DEF Fits
  <2> QED BY <1>4, <2>1
<1>9. C!Numbered(rows)
  BY <1>1, <1>2 DEF C!Numbered, Placed
<1>10. C!Enclosed(rows)
  <2>1. C!At(rows, "open") = {1} /\ C!At(rows, "close") = {n}
    BY <1>1, <1>4, <1>6, <1>8 DEF C!At
  <2>2. rows[n].count = n - 1 /\ rows[n].head = rows[n - 1].sig
    BY <1>2, <1>4, <1>6, <1>7 DEF Fits
  <2> QED BY <1>1, <1>7, <2>1, <2>2 DEF C!Enclosed
<1>11. C!Accounted(rows)
  BY <1>1, <1>2 DEF C!Accounted, C!Of, Fits
<1>12. ASSUME NEW a \in C!ActionsIn(rows) PROVE C!ActionComplete(rows, a)
  <2> DEFINE mine == C!Of(rows, a)
  <2>1. \A j : j \in mine <=> j \in 1..n /\ rows[j].action = a /\ rows[j].what \notin C!RunEvents
    BY <1>1 DEF C!Of
  <2>2. a # NoAction
    BY DEF C!ActionsIn
  <2>3. Acted(rows, n, a)
    <3>1. PICK i \in 1..n : rows[i].action = a
      BY <1>1 DEF C!ActionsIn
    <3> QED BY <1>2, <2>2, <3>1 DEF Acted, ActionRow
  <2> HIDE DEF mine
  <2>4. mine \in SUBSET (1..n)
    BY <2>1
  <2>5. ASSUME NEW i \in mine PROVE i \in 1..n /\ rows[i].action = a /\ FitsAction(rows, i)
    BY <1>2, <2>1, <2>2 DEF Fits, ActionRow
  <2>6. PICK t \in mine : rows[t].what \in C!Terminals
    <3>1. PICK t \in 1..n : rows[t].action = a /\ rows[t].what \in C!Terminals
      BY <1>2, <2>2, <2>3 DEF HadTerminal
    <3> QED BY <2>1, <3>1, Kinds
  <2>7. ASSUME NEW i \in mine, NEW j \in mine, i < j
        PROVE  /\ rows[i].what \in C!Terminals =>
                    ~C!IsDecision(rows[j].what) /\ rows[j].what \notin C!Terminals
               /\ rows[i].what = "dispatch" => rows[j].what # "dispatch"
               /\ rows[i].what = C!Late => rows[j].what # C!Late
    <3>1. i \in 1..(j - 1) /\ rows[i].action = a
      BY <1>5, <2>5, <2>7
    <3>2. rows[j].action = a /\ FitsAction(rows, j)
      BY <2>5
    <3>3. rows[i].what \in C!Terminals =>
            ~C!IsDecision(rows[j].what) /\ rows[j].what \notin C!Terminals
      <4>1. rows[i].what \in C!Terminals => HadTerminal(rows, j - 1, a)
        BY <3>1 DEF HadTerminal
      <4> QED BY <3>2, <4>1 DEF FitsAction
    <3>4. rows[i].what = "dispatch" => rows[j].what # "dispatch"
      <4>1. rows[i].what = "dispatch" => Had(rows, j - 1, a, "dispatch")
        BY <3>1 DEF Had
      <4>2. rows[j].what = "dispatch" => C!IsDecision(rows[j].what)
        BY Kinds
      <4> QED BY <3>2, <4>1, <4>2 DEF FitsAction
    <3>5. rows[i].what = C!Late => rows[j].what # C!Late
      <4>1. rows[i].what = C!Late => Had(rows, j - 1, a, C!Late)
        BY <3>1 DEF Had
      <4> QED BY <3>2, <4>1 DEF FitsAction
    <3> QED BY <3>3, <3>4, <3>5
  <2>8. \A i, j \in mine : i < j \/ j < i \/ i = j
    BY <2>4
  <2>9. \A i \in mine : rows[i].what \in C!Terminals <=> i = t
    BY <2>6, <2>7, <2>8
  <2>10. \A i \in mine : C!IsDecision(rows[i].what) => i < t
    <3>1. \A i \in mine : C!IsDecision(rows[i].what) => i # t
      BY <2>6, Kinds
    <3> QED BY <2>6, <2>7, <2>8, <3>1
  <2>11. ASSUME NEW i \in mine, NEW j \in 1..(i - 1), rows[j].action = a,
                rows[j].what \notin C!RunEvents
         PROVE  j \in mine /\ j < i
    <3>1. i \in 1..n
      BY <2>4
    <3>2. j \in 1..n /\ j < i
      BY <3>1
    <3> QED BY <2>1, <2>11, <3>2
  <2>12. /\ \E d \in mine : C!IsDecision(rows[d].what)
         /\ rows[t].what = "not_forwarded" => ~\E d \in mine : rows[d].what = "dispatch"
         /\ rows[t].what # "not_forwarded" => \E d \in mine : rows[d].what = "dispatch"
    <3>1. /\ HadDecision(rows, t - 1, a)
          /\ rows[t].what = "not_forwarded" <=> ~Had(rows, t - 1, a, "dispatch")
      BY <2>5, <2>6 DEF FitsAction
    <3>2. \E d \in mine : C!IsDecision(rows[d].what)
      <4>1. PICK d \in 1..(t - 1) : rows[d].action = a /\ C!IsDecision(rows[d].what)
        BY <3>1 DEF HadDecision
      <4>2. rows[d].what \notin C!RunEvents
        BY <4>1, Kinds
      <4>3. d \in mine
        BY <2>11, <4>1, <4>2
      <4> QED BY <4>1, <4>3
    <3>3. (\E d \in mine : rows[d].what = "dispatch") <=> Had(rows, t - 1, a, "dispatch")
      <4>1. ASSUME NEW d \in mine, rows[d].what = "dispatch" PROVE Had(rows, t - 1, a, "dispatch")
        <5>1. d < t
          BY <2>10, <4>1, Kinds
        <5>2. d \in 1..(t - 1) /\ rows[d].action = a
          BY <1>5, <2>5, <5>1
        <5> QED BY <4>1, <5>2 DEF Had
      <4>2. ASSUME Had(rows, t - 1, a, "dispatch") PROVE \E d \in mine : rows[d].what = "dispatch"
        <5>1. PICK d \in 1..(t - 1) : rows[d].action = a /\ rows[d].what = "dispatch"
          BY <4>2 DEF Had
        <5>2. rows[d].what \notin C!RunEvents
          BY <5>1 DEF C!RunEvents
        <5>3. d \in mine
          BY <2>11, <5>1, <5>2
        <5> QED BY <5>1, <5>3
      <4> QED BY <4>1, <4>2
    <3> QED BY <3>1, <3>2, <3>3
  <2>13. \A i \in mine : rows[i].what = C!Late => i > t /\ rows[t].what = "outcome_unknown"
    <3>1. ASSUME NEW i \in mine, rows[i].what = C!Late
          PROVE  i > t /\ rows[t].what = "outcome_unknown"
      <4>1. PICK j \in 1..(i - 1) : rows[j].action = a /\ rows[j].what = "outcome_unknown"
        BY <2>5, <3>1 DEF FitsAction, Had
      <4>2. rows[j].what \notin C!RunEvents /\ rows[j].what \in C!Terminals
        BY <4>1, Kinds
      <4>3. j \in mine /\ j < i
        BY <2>11, <4>1, <4>2
      <4>4. j = t
        BY <2>9, <4>2, <4>3
      <4>5. i \in Nat /\ t \in Nat
        BY <2>4
      <4> QED BY <4>1, <4>3, <4>4, <4>5
    <3> QED BY <3>1
  <2>14. C!Cardinality(mine \cap C!At(rows, "dispatch"))
           = IF rows[t].what = "not_forwarded" THEN 0 ELSE 1
    <3> DEFINE s == mine \cap C!At(rows, "dispatch")
    <3>1. \A j : j \in s <=> j \in mine /\ rows[j].what = "dispatch"
      BY <1>1, <2>4 DEF C!At
    <3>2. s \in SUBSET (1..n)
      BY <2>4
    <3> HIDE DEF s
    <3>3. rows[t].what = "not_forwarded" => s = {}
      BY <2>12, <3>1
    <3>4. rows[t].what # "not_forwarded" => \E x : s = {x}
      <4>1. ASSUME rows[t].what # "not_forwarded" PROVE \E x : s = {x}
        <5>1. PICK x \in s : TRUE
          BY <2>12, <3>1, <4>1
        <5>2. \A y \in s : y = x
          BY <2>7, <2>8, <3>1
        <5>3. s = {x}
          BY <5>1, <5>2
        <5> QED BY <5>3
      <4> QED BY <4>1
    <3>5. C!Cardinality(s) = IF rows[t].what = "not_forwarded" THEN 0 ELSE 1
      BY <3>2, <3>3, <3>4, FewPlaces
    <3> QED BY <3>5 DEF s
  <2>15. C!Cardinality(mine \cap C!At(rows, C!Late)) <= 1
    <3> DEFINE s == mine \cap C!At(rows, C!Late)
    <3>1. \A j : j \in s <=> j \in mine /\ rows[j].what = C!Late
      BY <1>1, <2>4 DEF C!At
    <3>2. s \in SUBSET (1..n)
      BY <2>4
    <3> HIDE DEF s
    <3>3. \A x, y \in s : x = y
      BY <2>7, <2>8, <3>1
    <3>4. C!Cardinality(s) <= 1
      BY <3>2, <3>3, FewPlaces
    <3> QED BY <3>4 DEF s
  <2>16. {i \in mine : rows[i].what \in C!Terminals} = {t}
    BY <2>6, <2>9
  <2>17. {i \in mine : C!IsDecision(rows[i].what)} # {}
    BY <2>12
  <2>18. \A i \in {i \in mine : C!IsDecision(rows[i].what)} : i < t
    BY <2>10
  <2>19. \A i \in mine \cap C!At(rows, C!Late) : i > t /\ rows[t].what = "outcome_unknown"
    BY <2>13 DEF C!At
  <2> QED BY <2>6, <2>14, <2>15, <2>16, <2>17, <2>18, <2>19 DEF C!ActionComplete, mine
<1> QED BY <1>9, <1>10, <1>11, <1>12 DEF C!CompleteStream

-----------------------------------------------------------------------------
(***************************************************************************)
(* The streams the model grows are of such rows.                           *)
(***************************************************************************)
StreamRows ==
  {row \in [what : C!RunEvents \cup C!Decided \cup {"hide"}, action : Actions \cup {NoAction},
            seq : Int, sig : Int, count : Int, head : Int, at : Int, valid : BOOLEAN] :
     row.what \in C!RunEvents => row.action = NoAction}

StreamInv == stream \in Seq(StreamRows)

LEMMA StreamShaped ==
  ASSUME NEW rows \in Seq(StreamRows)
  PROVE  RowsShaped(rows)
<1>1. \A i \in 1..Len(rows) : rows[i] \in StreamRows
  OBVIOUS
<1> QED BY <1>1 DEF StreamRows, RowsShaped, RowShaped

LEMMA StreamGrows ==
  ASSUME StreamInv, C!Next
  PROVE  \E row \in StreamRows : stream' = Append(stream, row)
<1>1. PICK n \in Nat : n = Len(stream)
  BY DEF StreamInv
<1>2. ASSUME NEW what \in C!RunEvents \cup C!Decided \cup {"hide"},
             NEW action \in Actions \cup {NoAction}, NEW at \in Int,
             what \in C!RunEvents => action = NoAction
      PROVE  C!Sound(what, action, at) \in StreamRows
  <2>1. PICK head \in Int : head = IF n = 0 THEN 0 ELSE stream[n].sig
    <3>1. n # 0 => stream[n] \in StreamRows
      BY <1>1 DEF StreamInv
    <3>2. n # 0 => stream[n].sig \in Int
      BY <3>1 DEF StreamRows
    <3> QED BY <3>2
  <2>2. C!Sound(what, action, at)
          = [what |-> what, action |-> action, seq |-> n + 1, sig |-> n + 1, count |-> n,
             head |-> head, at |-> at, valid |-> TRUE]
    BY <1>1, <2>1 DEF C!Sound
  <2> QED BY <1>1, <1>2, <2>2 DEF StreamRows
<1>3. ASSUME NEW row \in C!NextRows PROVE row \in StreamRows
  <2>1. CASE row \in {C!Sound(what, NoAction, 0) : what \in {"close", "deny", "hide"}}
    BY <1>2, <2>1 DEF C!RunEvents, C!Decided
  <2>2. CASE row \in {C!Sound(what, NoAction, at) : what \in {"open", "heartbeat"}, at \in Times}
    BY <1>2, <2>2, StreamTimes DEF C!RunEvents
  <2>3. CASE row \in {C!Sound(what, a, 0) : what \in C!Decided, a \in Actions}
    <3>1. \A what \in C!Decided : what \notin C!RunEvents
      BY DEF C!RunEvents, C!Decided, C!Terminals, C!Late
    <3> QED BY <1>2, <2>3, <3>1
  <2> QED BY <2>1, <2>2, <2>3 DEF C!NextRows
<1>4. ASSUME NEW row \in StreamRows, NEW d \in C!Damaged(row) PROVE d \in StreamRows
  <2>1. \/ d = [row EXCEPT !.seq = @ + 1] \/ d = [row EXCEPT !.sig = 0]
        \/ d = [row EXCEPT !.valid = FALSE]
        \/ d = [row EXCEPT !.count = @ + 1] \/ d = [row EXCEPT !.head = @ + 1]
    BY DEF C!Damaged
  <2>2. PICK k \in Int, c \in Int, h \in Int : k = row.seq + 1 /\ c = row.count + 1 /\ h = row.head + 1
    BY DEF StreamRows
  <2>3. \/ d = [row EXCEPT !.seq = k] \/ d = [row EXCEPT !.sig = 0]
        \/ d = [row EXCEPT !.valid = FALSE]
        \/ d = [row EXCEPT !.count = c] \/ d = [row EXCEPT !.head = h]
    BY <2>1, <2>2
  <2>4. ASSUME d = [row EXCEPT !.seq = k] PROVE d \in StreamRows
    BY <2>4 DEF StreamRows
  <2>5. ASSUME d = [row EXCEPT !.sig = 0] PROVE d \in StreamRows
    BY <2>5 DEF StreamRows
  <2>6. ASSUME d = [row EXCEPT !.valid = FALSE] PROVE d \in StreamRows
    BY <2>6 DEF StreamRows
  <2>7. ASSUME d = [row EXCEPT !.count = c] PROVE d \in StreamRows
    BY <2>7 DEF StreamRows
  <2>8. ASSUME d = [row EXCEPT !.head = h] PROVE d \in StreamRows
    BY <2>8 DEF StreamRows
  <2> QED BY <2>3, <2>4, <2>5, <2>6, <2>7, <2>8
<1>5. PICK row \in C!NextRows :
        \/ stream' = Append(stream, row)
        \/ \E d \in C!Damaged(row) : stream' = Append(stream, d)
  BY DEF C!Next
<1>6. row \in StreamRows
  BY <1>3
<1> QED BY <1>4, <1>5, <1>6

LEMMA StreamInvariant == SpecReadSide => []StreamInv
<1>1. InitReadSide => StreamInv
  BY DEF InitReadSide, C!Init, StreamInv
<1>2. StreamInv /\ [NextReadSide]_all => StreamInv'
  <2> SUFFICES ASSUME StreamInv, [NextReadSide]_all PROVE StreamInv'
    OBVIOUS
  <2>1. CASE C!Next
    BY <2>1, StreamGrows DEF StreamInv
  <2>2. CASE UNCHANGED stream
    BY <2>2 DEF StreamInv
  <2> QED BY <2>1, <2>2 DEF NextReadSide, all, run
<1> QED BY <1>1, <1>2, PTL DEF SpecReadSide

(***************************************************************************)
(* The one-pass assessment of AssessRuns says LIMITED of exactly the       *)
(* streams the design calls complete, of any length, on a checkpointed     *)
(* trail none of whose heartbeats is in the future.                        *)
(***************************************************************************)
THEOREM LimitedIsComplete == SpecReadSide => []LimitedMeansComplete
<1>1. StreamInv => LimitedMeansComplete
  <2> SUFFICES ASSUME StreamInv, NEW cp \in BOOLEAN
               PROVE  C!Verdict(stream, cp, Now) = "LIMITED" <=>
                        /\ cp /\ C!CompleteStream(stream)
                        /\ \A i \in DOMAIN stream :
                             stream[i].what \in {"open", "heartbeat"} => stream[i].at <= Now + 1
    BY DEF LimitedMeansComplete, C!LimitedMeansComplete
  <2>1. PICK rows \in Seq(StreamRows) : rows = stream
    BY DEF StreamInv
  <2>2. RowsShaped(rows)
    BY StreamShaped
  <2>3. C!Verdict(rows, cp, Now) = "LIMITED" <=>
          cp /\ Ended(rows) /\ ~HadFuture(rows, Len(rows), Now)
    BY <2>2, VerdictFacts DEF Ended
  <2>4. Ended(rows) <=> C!CompleteStream(rows)
    BY <2>2, CompleteFits, FitsComplete
  <2>5. ~HadFuture(rows, Len(rows), Now) <=>
          \A i \in DOMAIN rows :
            rows[i].what \in {"open", "heartbeat"} => rows[i].at <= Now + 1
    <3>1. PICK n \in Nat : n = Len(rows) /\ DOMAIN rows = 1..n
      BY LenProperties
    <3>2. \A i \in 1..n : rows[i].at > Now + 1 <=> ~(rows[i].at <= Now + 1)
      BY <2>2, <3>1, StreamTimes DEF RowsShaped, RowShaped
    <3> QED BY <3>1, <3>2 DEF HadFuture
  <2> QED BY <2>1, <2>3, <2>4, <2>5
<1> QED BY <1>1, StreamInvariant, PTL

\* What is wrong at a place stays wrong whatever follows.
LEMMA BrokenStays ==
  ASSUME NEW rows \in Seq(StreamRows), NEW row \in StreamRows, C!Broken(rows)
  PROVE  C!Broken(Append(rows, row))
<1>1. PICK n \in Nat : n = Len(rows)
  OBVIOUS
<1>2. PICK more \in Seq(StreamRows) :
        /\ more = Append(rows, row) /\ Len(more) = n + 1
        /\ \A i \in 1..n : more[i] = rows[i]
  <2>1. /\ Append(rows, row) \in Seq(StreamRows) /\ Len(Append(rows, row)) = Len(rows) + 1
        /\ \A i \in 1..Len(rows) : Append(rows, row)[i] = rows[i]
    BY AppendProperties
  <2> QED BY <1>1, <2>1
<1>3. RowsShaped(rows) /\ RowsShaped(more)
  BY StreamShaped
<1>4. (\E i \in 1..n : rows[i].sig # 0) /\ ~WellFormed(rows)
  BY <1>1, <1>3, VerdictFacts DEF C!Broken
<1>5. ASSUME NEW i \in 1..n, SoundAt(more, i) PROVE SoundAt(rows, i)
  <2>1. more[i] = rows[i] /\ \A j \in 1..(i - 1) : more[j] = rows[j]
    BY <1>2
  <2>2. i > 1 => more[i - 1] = rows[i - 1]
    BY <2>1
  <2>3. ASSUME NEW a, NEW what
        PROVE  /\ RunHad(more, i - 1, what) <=> RunHad(rows, i - 1, what)
               /\ Had(more, i - 1, a, what) <=> Had(rows, i - 1, a, what)
               /\ HadDecision(more, i - 1, a) <=> HadDecision(rows, i - 1, a)
               /\ HadTerminal(more, i - 1, a) <=> HadTerminal(rows, i - 1, a)
    BY <2>1 DEF RunHad, Had, HadDecision, HadTerminal
  <2>4. Placed(more, i) => Placed(rows, i)
    BY <2>1, <2>3 DEF Placed
  <2>5. FitsAction(more, i) => FitsAction(rows, i)
    BY <2>1, <2>3 DEF FitsAction
  <2>6. Fits(more, i) => Fits(rows, i)
    BY <2>1, <2>2, <2>3, <2>5 DEF Fits
  <2> QED BY <1>5, <2>4, <2>6 DEF SoundAt
<1>6. \A i \in 1..n : i \in 1..(n + 1)
  OBVIOUS
<1>7. (\E i \in 1..(n + 1) : more[i].sig # 0) /\ ~WellFormed(more)
  BY <1>1, <1>2, <1>4, <1>5, <1>6 DEF WellFormed
<1>8. C!Verdict(more, TRUE, Now) = "BROKEN"
  BY <1>2, <1>3, <1>7, VerdictFacts
<1> QED BY <1>2, <1>8 DEF C!Broken

(***************************************************************************)
(* No row appended to a broken stream, whoever writes it, mends the record *)
(* of the run: BROKEN is the verdict of AssessRuns from then on.           *)
(***************************************************************************)
THEOREM BreachesLast == SpecReadSide => BrokenForGood
<1>1. StreamInv /\ [NextReadSide]_all => [C!Broken(stream) => C!Broken(stream')]_(C!vars)
  <2> SUFFICES ASSUME StreamInv, [NextReadSide]_all, ~UNCHANGED C!vars, C!Broken(stream)
               PROVE  C!Broken(stream')
    OBVIOUS
  <2>1. C!Next
    BY DEF NextReadSide, all, run, C!vars
  <2>2. PICK row \in StreamRows : stream' = Append(stream, row)
    BY <2>1, StreamGrows
  <2>3. PICK rows \in Seq(StreamRows) : rows = stream
    BY DEF StreamInv
  <2>4. C!Broken(Append(rows, row))
    BY <2>3, BrokenStays
  <2> QED BY <2>2, <2>3, <2>4
<1> QED BY <1>1, StreamInvariant, PTL DEF SpecReadSide, BrokenForGood, C!BrokenForGood

=============================================================================
