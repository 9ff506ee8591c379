-------------------------------- MODULE Wall --------------------------------
(***************************************************************************)
(* Those who read a signed trail while it is written: the live wall        *)
(* (cmd/nockguard-wall), with its cached view, session badges and exports, *)
(* and nockguard verify.  A reader takes the sidecar and the trail one     *)
(* after the other, and only a proof and verify --completeness hold the    *)
(* writers' flock meanwhile.  The fence rows come from the log of NockLock,*)
(* a database, whose chain nocklock itself verifies.                       *)
(*                                                                         *)
(* The writer is the part of AuditTrail a reader can see: a row is stamped,*)
(* appended and checkpointed under the flock, and a process may die before *)
(* the checkpoint.  Once, a row may be damaged or the last one cut off.    *)
(***************************************************************************)
EXTENDS Integers, Sequences, FiniteSetsExt

CONSTANTS
  Sessions, NoSession, \* NockLock sessions; that of a fence row without one
  Readers, NoReader,   \* requests to the wall, runs of verify
  Scenes,      \* of [setup, chain, kinds]: the wall's keys, "both", "hmac" (no
               \* Ed25519 key) or "none"; what nocklock says of its chain; and what
               \* is asked, "poll", "connect", "export", "proof", "verify",
               \* "complete" (verify --completeness), "session" (verify --session)
  Reverify, Forced,   \* sessionReverify, forcedReverify
  MaxBadges,
  MaxRows, MaxFence, MaxCalls, MaxTime,   \* bounds
  BuildTime           \* the time a reader may take over the files

ASSUME WallAges ==
  Reverify \in Nat \ {0} /\ Forced \in Nat /\ Reverify < Forced /\ BuildTime \in Nat
ASSUME WallNames == NoSession \notin Sessions /\ NoReader \notin Readers

VARIABLES
  scene,       \* one of Scenes
  trail,       \* rows [session, at, good]
  hwm,         \* the checkpoint's count; 0: no sidecar
  writer,      \* "idle", "stamped", "appended", and the row's time
  damaged,     \* when the trail was damaged
  touched,     \* whether that shows in its size or modification time
  fence,       \* the NockLock log: rows [session, readable]
  replaced,    \* the log was replaced by a new one
  poller,      \* of tailLock: last, sig, and the head it looked at before a poll;
               \* for reference: looked, how long each log was when first polled,
               \* and emitted, the rows shown, of which log
  view, builds, lmu,   \* the cached view, how many were built, who builds
  reader,      \* of each reader: what it asks and where it is
  asked,       \* the number of questions asked
  answer,      \* the answer just given: the question, and what was read for it
  proofs,      \* the proofs handed out: until when, and of how many rows
  now

files == <<trail, hwm, writer, damaged, touched>>
lockLog == <<fence, replaced>>
cache == <<view, builds, lmu>>
readers == <<reader, asked, proofs>>
vars == <<scene, files, lockLog, poller, cache, readers, answer, now>>

Never == -1
Snapshot == [rows |-> <<>>, mark |-> 0, failed |-> FALSE, fence |-> <<>>, lockErr |-> FALSE, at |-> 0]
NoView == [sig |-> <<>>, snap |-> Snapshot]
\* since says what was so when the question was asked.
Quiet ==
  [at |-> "idle", kind |-> "poll", sig |-> <<>>, seen |-> 0, snap |-> Snapshot, since |-> <<>>]

-----------------------------------------------------------------------------
(***************************************************************************)
(* Verdicts on a snapshot (internal/sessionverify).                        *)
(***************************************************************************)
BadRows(s) == {i \in DOMAIN s.rows : ~s.rows[i].good}

\* checkGuardWhole: "" if the walk and the checkpoint find nothing wrong.
CheckGuard(s) ==
  IF s.failed THEN "UNVERIFIABLE"
  ELSE IF \/ BadRows(s) # {}
          \/ s.mark = 0 /\ s.rows # <<>>
          \/ s.mark > Len(s.rows) THEN "TAMPERED"
  ELSE ""

Of(rows, session) == Cardinality({i \in DOMAIN rows : rows[i].session = session})

GuardVerdict(n, tailVerified) ==
  IF n = 0 THEN "NO_ROWS" ELSE IF ~tailVerified THEN "UNANCHORED" ELSE "PROTECTED"

TailVerified(s) == s.mark = Len(s.rows) /\ s.rows # <<>>

TrailVerdict(s) ==
  IF CheckGuard(s) # "" THEN CheckGuard(s) ELSE GuardVerdict(Len(s.rows), TailVerified(s))

GuardChain(s, session) ==
  IF CheckGuard(s) # "" THEN CheckGuard(s)
  ELSE GuardVerdict(Of(s.rows, session), TailVerified(s))

\* VerifyLock, and nocklock's verdict on a session.
LockChain(s, session) ==
  IF s.lockErr THEN "UNVERIFIABLE"
  ELSE IF scene.chain # "PROTECTED" THEN scene.chain
  ELSE IF Of(s.fence, session) = 0 THEN "NO_ROWS" ELSE "PROTECTED"

failRank ==
  [TAMPERED |-> 5, UNVERIFIABLE |-> 4, UNSIGNED |-> 3, NO_ROWS |-> 2, UNANCHORED |-> 1,
   PROTECTED |-> 0]

ASSUME WallChains == \A s \in Scenes : s.chain \in DOMAIN failRank

Combine(verdicts) == CHOOSE v \in verdicts : \A w \in verdicts : failRank[v] >= failRank[w]

SessionVerdict(s, session) == Combine({LockChain(s, session), GuardChain(s, session)})

\* recentSessions: which sessions of a window have the newest rows is left open.
Recent(s) ==
  LET seen == {x \in Sessions : Of(s.rows, x) + Of(s.fence, x) > 0}
  IN  kSubset(Min({MaxBadges, Cardinality(seen)}), seen)

Unreadable(s, session) ==
  \E i \in DOMAIN s.fence : ~s.fence[i].readable /\ s.fence[i].session \in {session, NoSession}

\* buildLockView: a session's badge.
Badge(s, session) ==
  LET v == SessionVerdict(s, session) IN
  IF scene.setup # "both" \/ s.lockErr THEN "UNVERIFIABLE"
  ELSE IF Unreadable(s, session) /\ v # "TAMPERED" THEN "UNVERIFIABLE" ELSE v

\* exportVerification: the mark of a row of the trail in an export.
RowMark(s, i) ==
  IF scene.setup = "none" \/ CheckGuard(s) = "UNVERIFIABLE" THEN "unsigned"
  ELSE IF CheckGuard(s) = "" THEN "verified"
  ELSE IF BadRows(s) # {} /\ i < Min(BadRows(s)) THEN "verified" ELSE "failed"

-----------------------------------------------------------------------------
(***************************************************************************)
(* The writer.                                                             *)
(***************************************************************************)
SharesFlock(c) == reader[c].kind \in {"proof", "complete"} /\ reader[c].at = "read"

\* A row is dated under the flock.  A trail without a sidecar, or one shorter
\* than its sidecar says, takes no more rows.
Stamp ==
  /\ writer.at = "idle" /\ Len(trail) < MaxRows
  /\ ~\E c \in Readers : SharesFlock(c)
  /\ hwm <= Len(trail) /\ (hwm = 0 => trail = <<>>)
  /\ writer' = [at |-> "stamped", time |-> now]
  /\ UNCHANGED <<scene, trail, hwm, damaged, touched, lockLog, poller, cache, readers, now>>

Write ==
  /\ writer.at = "stamped"
  /\ \E x \in Sessions :
       trail' = Append(trail, [session |-> x, at |-> writer.time, good |-> TRUE])
  /\ writer' = [at |-> "appended", time |-> 0]
  /\ UNCHANGED <<scene, hwm, damaged, touched, lockLog, poller, cache, readers, now>>

\* The sidecar is replaced and the flock released; or the process dies first.
Checkpoint ==
  /\ writer.at = "appended"
  /\ hwm' \in {hwm, Len(trail)}
  /\ writer' = [at |-> "idle", time |-> 0]
  /\ UNCHANGED <<scene, trail, damaged, touched, lockLog, poller, cache, readers, now>>

Damage ==
  /\ damaged = Never /\ writer.at = "idle"
  /\ \/ \E i \in DOMAIN trail : trail' = [trail EXCEPT ![i].good = FALSE] /\ touched' \in BOOLEAN
     \/ hwm > 0 /\ hwm = Len(trail) /\ trail' = SubSeq(trail, 1, hwm - 1) /\ touched' = TRUE
  /\ damaged' = now
  /\ UNCHANGED <<scene, hwm, writer, lockLog, poller, cache, readers, now>>

-----------------------------------------------------------------------------
(***************************************************************************)
(* The NockLock log, and tailLock, which shows its new rows.               *)
(***************************************************************************)
Fence ==
  /\ Len(fence) < MaxFence
  /\ \E x \in Sessions \cup {NoSession}, readable \in BOOLEAN :
       /\ x = NoSession => ~readable
       /\ fence' = Append(fence, [session |-> x, readable |-> readable])
  /\ UNCHANGED <<scene, files, replaced, poller, cache, readers, now>>

Replace ==
  /\ ~replaced /\ fence # <<>>
  /\ fence' = <<>> /\ replaced' = TRUE
  /\ UNCHANGED <<scene, files, poller, cache, readers, now>>

\* fileSig and walSig of the log.
LockSig == <<Len(fence), replaced>>

Look ==
  /\ poller.head = <<>> /\ LockSig # poller.sig
  /\ poller' = [poller EXCEPT !.head = LockSig]
  /\ UNCHANGED <<scene, files, lockLog, cache, readers, now>>

\* Fault: a poll that failed is not tried again.
PollFailedForGood ==
  /\ poller.head # <<>>
  /\ poller' = [poller EXCEPT !.sig = poller.head, !.head = <<>>]
  /\ UNCHANGED <<scene, files, lockLog, cache, readers, now>>

PollFailed ==
  /\ poller.head # <<>>
  /\ poller' = [poller EXCEPT !.head = <<>>]
  /\ UNCHANGED <<scene, files, lockLog, cache, readers, now>>

\* The rows past the cursor up to the one numbered max: none on the first look,
\* and none when the log has shrunk.
RowsUpTo(max) ==
  IF poller.last = Never THEN <<>>
  ELSE [i \in 1..(max - poller.last) |-> [log |-> replaced, id |-> poller.last + i]]

\* The rows up to max are shown, and the cursor is at the last there is.
Advance(max) ==
  /\ poller.head # <<>>
  /\ poller' = [last |-> Len(fence), sig |-> poller.head, head |-> <<>>,
                looked |-> [poller.looked EXCEPT ![replaced] = IF @ = Never THEN Len(fence) ELSE @],
                emitted |-> poller.emitted \o RowsUpTo(max)]
  /\ UNCHANGED <<scene, files, lockLog, cache, readers, now>>

\* Fault: the rows are fetched before the cursor is read, not in one transaction.
PollTorn == Advance(poller.head[1])

\* pollLock, in one transaction.
Poll == Advance(Len(fence))

-----------------------------------------------------------------------------
(***************************************************************************)
(* Readers.  "poll", "connect" and, without a key, "export" go through     *)
(* getView; with a key an export reads for itself, one at a time.          *)
(***************************************************************************)
ThroughCache(k) == k \in {"poll", "connect"} \/ (k = "export" /\ scene.setup = "none")
Exports(k) == k \in {"export", "proof"} /\ scene.setup # "none"

headSig == <<Len(trail), hwm, touched>> \o LockSig

Silent == answer' = Quiet
Becomes(c, r) == reader' = [reader EXCEPT ![c] = r] /\ Silent
Answers(c, r) == reader' = [reader EXCEPT ![c] = Quiet] /\ answer' = [r EXCEPT !.at = "answered"]

\* How it was when a question was asked.
Present ==
  [rows |-> Len(trail), fence |-> Len(fence), building |-> lmu # NoReader,
   young |-> view # NoView /\ now - view.snap.at < Reverify,
   damaged |-> damaged # Never, shown |-> damaged # Never /\ damaged + Forced + 2 * BuildTime <= now]

\* A view young enough for a poll that found the heads sig.
Fresh(k, sig) ==
  /\ view # NoView /\ k = "poll"
  /\ \/ now - view.snap.at < Reverify
     \/ now - view.snap.at < Forced /\ view.sig = sig

\* Fault: the trail is read before the sidecar.
TrailFirst == <<"trail", "hwm">>

\* ReadGuard and the others take the sidecar first, so that its count is never
\* ahead of the rows they see.
ReadOrder == <<"hwm", "trail">>

Read(s, file) ==
  IF file = "hwm" THEN [s EXCEPT !.mark = hwm, !.at = now]
                  ELSE [s EXCEPT !.rows = trail, !.at = now]
ReadFirst(s) == Read(s, ReadOrder[1])

\* The fence rows, or none: snapshotLock takes one private copy.
LockRead(s) == {[s EXCEPT !.fence = fence], [s EXCEPT !.lockErr = TRUE]}

\* A question, and getView up to its wait for the build lock.
Ask(c) ==
  /\ reader[c].at = "idle" /\ asked < MaxCalls
  /\ asked' = asked + 1
  /\ \E k \in scene.kinds :
       LET q == [Quiet EXCEPT !.kind = k, !.since = Present] IN
       /\ k = "proof" => scene.setup = "both"
       /\ IF ~ThroughCache(k) THEN Becomes(c, [q EXCEPT !.at = "start"])
          ELSE IF Fresh(k, headSig) THEN Answers(c, [q EXCEPT !.snap = view.snap])
          ELSE Becomes(c, [q EXCEPT !.at = "queued", !.sig = headSig, !.seen = builds])
  /\ UNCHANGED <<scene, files, lockLog, poller, cache, proofs, now>>

\* getView with the build lock: a build made meanwhile is shared, but not by an
\* export.
Turn(c) ==
  LET r == reader[c] IN
  /\ r.at = "queued" /\ lmu = NoReader
  /\ IF (r.kind # "export" /\ builds # r.seen) \/ Fresh(r.kind, r.sig)
       THEN Answers(c, [r EXCEPT !.snap = view.snap]) /\ UNCHANGED lmu
       ELSE /\ Becomes(c, [r EXCEPT !.at = "read", !.snap = ReadFirst(Snapshot)])
            /\ lmu' = c
  /\ UNCHANGED <<scene, files, lockLog, poller, view, builds, asked, proofs, now>>

\* A proof and a completeness check wait for the flock; verify --session looks
\* at the fence rows first.
Start(c) ==
  LET r == reader[c] IN
  /\ r.at = "start"
  /\ r.kind \in {"proof", "complete"} => writer.at = "idle"
  /\ Exports(r.kind) =>
       \A d \in Readers : Exports(reader[d].kind) => reader[d].at \in {"idle", "start"}
  /\ \E s \in IF r.kind = "session" THEN LockRead(Snapshot) ELSE {Snapshot} :
       Becomes(c, [r EXCEPT !.at = "read", !.snap = ReadFirst(s)])
  /\ UNCHANGED <<scene, files, lockLog, poller, cache, asked, proofs, now>>

\* Fault: the second of the capture is proved as well.
CaptureUntilNow(capturedAt) == capturedAt

\* The bound of a proof: the second of its capture is left out.
CaptureUntil(capturedAt) == capturedAt - 1

\* MakeExportProof signs nothing unless the checkpoint covers the whole trail.
Proof(s, capturedAt) ==
  LET until == CaptureUntil(capturedAt) IN
  IF TrailVerdict(s) = "PROTECTED"
    THEN proofs' = proofs \cup
           {[until |-> until, rows |-> {i \in DOMAIN s.rows : s.rows[i].at <= until}]}
    ELSE UNCHANGED proofs

\* A view, and an export, goes on to the fence rows.
ReadSecond(c) ==
  LET r == reader[c]
      s == Read(r.snap, ReadOrder[2])
  IN  /\ r.at = "read"
      /\ IF r.kind \in {"poll", "connect", "export"}
           THEN Becomes(c, [r EXCEPT !.at = "fence", !.snap = s])
           ELSE Answers(c, [r EXCEPT !.snap = s])
      /\ IF r.kind = "proof" THEN Proof(s, r.snap.at) ELSE UNCHANGED proofs
      /\ UNCHANGED <<scene, files, lockLog, poller, cache, asked, now>>

\* A file cannot be read: the wall shows what rows it can, and verifies none.
ReadFails(c) ==
  LET r == reader[c]
      s == [r.snap EXCEPT !.failed = TRUE, !.at = now]
  IN  /\ r.at = "read"
      /\ IF ThroughCache(r.kind)
           THEN Becomes(c, [r EXCEPT !.at = "fence", !.snap = [s EXCEPT !.rows = trail]])
           ELSE Answers(c, [r EXCEPT !.snap = s])
      /\ UNCHANGED <<scene, files, lockLog, poller, cache, asked, proofs, now>>

\* Fault: the heads are taken once the view is built.
HeadWhenBuilt(c) == headSig

\* The heads of a view are those before anything was read for it.
HeadOf(c) == reader[c].sig

\* The view is complete, and published unless it is an export's own.
Publish(c) ==
  /\ reader[c].at = "fence"
  /\ \E s \in LockRead(reader[c].snap) :
       /\ Answers(c, [reader[c] EXCEPT !.snap = s])
       /\ IF ThroughCache(reader[c].kind)
            THEN view' = [sig |-> HeadOf(c), snap |-> s] /\ builds' = builds + 1 /\ lmu' = NoReader
            ELSE UNCHANGED cache
  /\ UNCHANGED <<scene, files, lockLog, poller, asked, proofs, now>>

-----------------------------------------------------------------------------
Reading(c) == reader[c].at \in {"read", "fence"}

\* Nobody reads one file, or turns to the next, for longer than BuildTime.
Tick ==
  /\ now < MaxTime
  /\ \A c \in Readers : Reading(c) => now - reader[c].snap.at < BuildTime
  /\ now' = now + 1
  /\ UNCHANGED <<scene, files, lockLog, poller, cache, readers>>

\* Either record may have a row from before.
Init ==
  /\ scene \in Scenes
  /\ trail \in {<<>>} \cup {<<[session |-> x, at |-> 0, good |-> TRUE]>> : x \in Sessions}
  /\ hwm = Len(trail) /\ writer = [at |-> "idle", time |-> 0]
  /\ damaged = Never /\ touched = FALSE
  /\ fence \in {<<>>} \cup {<<[session |-> x, readable |-> TRUE]>> : x \in Sessions}
  /\ replaced = FALSE
  /\ poller = [last |-> Never, sig |-> <<>>, head |-> <<>>,
               looked |-> [log \in BOOLEAN |-> Never], emitted |-> <<>>]
  /\ view = NoView /\ builds = 0 /\ lmu = NoReader
  /\ reader = [c \in Readers |-> Quiet] /\ asked = 0 /\ proofs = {} /\ answer = Quiet
  /\ now = 0

Request(c) ==
  \/ Ask(c) \/ Turn(c) \/ Start(c) \/ ReadSecond(c)
  \/ ReadFails(c) \/ Publish(c)

Writer == Stamp \/ Write \/ Checkpoint \/ Damage
LockLog == Fence \/ Replace
tailLock == Look \/ PollFailed \/ Poll

-----------------------------------------------------------------------------
\* The verdicts in an answer: on the trail, and on sessions.
OnTrail ==
  LET s == answer.snap IN
  CASE answer.kind = "verify" /\ s.failed -> {"TAMPERED"}
    [] answer.kind \in {"proof", "session"} -> {}
    [] ThroughCache(answer.kind) /\ scene.setup = "none" -> {"UNCONFIGURED"}
    [] OTHER -> {TrailVerdict(s)}

OnSessions ==
  LET s == answer.snap IN
  CASE answer.kind = "session" -> {SessionVerdict(s, x) : x \in Sessions}
    [] answer.kind \in {"poll", "connect", "export"} ->
         {Badge(s, x) : x \in UNION Recent(s)}
    [] OTHER -> {}

(***************************************************************************)
(* Nobody who reads beside the writers raises a false alarm: TAMPERED is   *)
(* said of a trail that was damaged, of a session whose chain nocklock     *)
(* finds tampered, of a trail whose first row has no sidecar yet, or by    *)
(* verify of a file it could not read.  And damage shows: an answer asked  *)
(* for afterwards (one from the cached view: Forced later) protects        *)
(* nothing, and an export marks no row from the break on as verified.      *)
(***************************************************************************)
VerdictsAreTrue ==
  LET r == answer
      late == IF r.kind \in {"poll", "connect"} THEN r.since.shown ELSE r.since.damaged
  IN  r.at = "answered" =>
        /\ "TAMPERED" \in OnTrail \cup OnSessions =>
             \/ damaged # Never \/ r.snap.mark = 0
             \/ scene.chain = "TAMPERED" /\ "TAMPERED" \notin OnTrail
             \/ r.kind = "verify" /\ r.snap.failed
        /\ late => "PROTECTED" \notin OnTrail \cup OnSessions
        /\ late /\ r.kind = "export" => \A i \in DOMAIN r.snap.rows :
             RowMark(r.snap, i) = "verified" => \A j \in 1..i : trail[j].good

\* The rows are shown in order and none twice, and none of a log that is gone;
\* and when the poller finds the log unchanged it has shown each that came
\* after its first look at this log.
StreamKeepsUp ==
  LET e == poller.emitted IN
  /\ \A i, j \in 1..Len(e) : i < j =>
       \/ e[i].log = e[j].log /\ e[i].id < e[j].id
       \/ ~e[i].log /\ e[j].log
  /\ poller.head = <<>> /\ poller.sig = LockSig =>
       \A id \in (poller.looked[replaced] + 1)..Len(fence) :
         \E i \in 1..Len(e) : e[i].log = replaced /\ e[i].id = id

(***************************************************************************)
(* An answer has every row that was there when it was asked for.  Only a   *)
(* poll may be given a view younger than Reverify, and only a poll or a    *)
(* connect one whose build was under way.  And the stream of fence rows    *)
(* has each row at most once, in order, and misses none that came after    *)
(* the poller's first look at the log or at the one that replaced it,      *)
(* whatever was appended between the look at the files and the             *)
(* transaction, and whatever poll failed.  What a log held at that look is *)
(* history, of which the stream may show a part.                           *)
(***************************************************************************)
ViewsKeepUp ==
  LET r == answer IN
  /\ StreamKeepsUp
  /\ r.at = "answered" /\ r.kind # "proof" /\ damaged = Never /\ ~replaced =>
       \/ r.snap.failed \/ r.snap.lockErr
       \/ /\ Len(r.snap.rows) >= r.since.rows
          /\ r.kind \in {"poll", "connect", "session"} => Len(r.snap.fence) >= r.since.fence
       \/ r.kind = "poll" /\ r.since.young
       \/ r.kind \in {"poll", "connect"} /\ r.since.building

(***************************************************************************)
(* A proof of the rows up to a moment has all of them: no row appended     *)
(* after it was made is dated into its window, though rows are stamped     *)
(* before they are written.                                                *)
(***************************************************************************)
ProofComplete == \A p \in proofs : \A i \in DOMAIN trail :
  trail[i].at <= p.until => i \in p.rows

=============================================================================
