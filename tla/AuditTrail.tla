----------------------------- MODULE AuditTrail -----------------------------
(***************************************************************************)
(* The signed audit trail of internal/audit/audit.go, as several proxy     *)
(* processes share it: each process opens the trail (New), appends rows    *)
(* under an flock (Record, RecordRequired), closes it, or dies at any      *)
(* point.  The trail file, its high-water-mark sidecar ("<trail>.hwm") and *)
(* the failure marker ("<trail>.audit-failing") are the shared state; what *)
(* of them a power loss may destroy is tracked beside them.                *)
(*                                                                         *)
(* A signature is abstracted to the identity of the row that carries it:   *)
(* "prev" is the signature the row was chained to, 0 for the empty one.    *)
(* The byte content of a row is left out, except whether the file ends in  *)
(* a whole line.                                                           *)
(***************************************************************************)
EXTENDS Naturals, Sequences

CONSTANTS
  Procs,         \* the processes (one Auditor each) that share the trail
  Modes,         \* {TRUE}: RecordRequired only; {TRUE, FALSE}: Record too
  Faults,        \* the I/O faults that may happen, a subset of FaultKinds
  CanCrash,      \* a process may die between any two steps
  CanLosePower,  \* the machine may lose power
  Established,   \* the trail already holds one signed row and its sidecar
  Founder,       \* the run of the row an established trail starts with
  NoProc,        \* the flock is free
  MaxRows        \* a record starts only while fewer rows were appended

FaultKinds == {"read", "write", "torn", "unterminated", "sync", "hwm"}

ASSUME ModesAssumption == Modes \subseteq BOOLEAN /\ Modes # {}
ASSUME FaultsAssumption == Faults \subseteq FaultKinds
ASSUME FlagsAssumption ==
  CanCrash \in BOOLEAN /\ CanLosePower \in BOOLEAN /\ Established \in BOOLEAN
ASSUME ProcsAssumption == Founder \in Procs /\ NoProc \notin Procs
ASSUME BoundAssumption == MaxRows \in Nat \ {0}

(***************************************************************************)
(* v1 rows carry no run sequence; "act" and "close" are the v2 rows of the *)
(* action-pairing writer.  A process keeps its run id when it reopens.     *)
(***************************************************************************)
Kinds == {"v1", "act", "close"}
Row == [id : Nat, prev : Nat, run : Procs, seq : Nat, kind : Kinds]
Mark == [count : Nat, last : Nat]       \* count 0: there is no sidecar
NoMark == [count |-> 0, last |-> 0]

VARIABLES
  exists,      \* the trail file is present at its path
  trail,       \* its whole lines, oldest first
  tail,        \* how the file ends: "line", "unterminated" or "garbage"
  hwm,         \* the sidecar
  marker,      \* the ".audit-failing" directory is present
  lock,        \* holder of the flock
  synced,      \* number of leading rows a power loss cannot remove
  hwmDisk,     \* the sidecars a power loss may leave behind
  pc,          \* where each process is in New or record
  seen,        \* the sidecar an opening process has read
  req,         \* the record in progress is a RecordRequired
  kind,        \* the kind of its row
  head,        \* the chain head it read under the flock
  count,       \* the entry count it read under the flock
  runSeq,      \* a.runSeqs of the process's run
  runClosed,   \* a.runClosed of the process's run
  latched,     \* a.requiredErr # nil
  nextId,      \* the identity of the next row
  acked        \* rows whose RecordRequired has returned nil

disk == <<exists, trail, tail, hwm, marker>>
durable == <<synced, hwmDisk>>
local == <<seen, req, kind, head, count, runSeq, runClosed, latched>>
vars == <<disk, durable, local, lock, pc, nextId, acked>>

OpenStates == {"closed", "opening", "verified", "refused"}
LockedStates == {"locked", "checked", "appended", "synced", "marked"}
States == OpenStates \cup {"idle", "waiting"} \cup LockedStates

TypeOK ==
  /\ exists \in BOOLEAN
  /\ trail \in Seq(Row)
  /\ tail \in {"line", "unterminated", "garbage"}
  /\ hwm \in Mark
  /\ marker \in BOOLEAN
  /\ lock \in Procs \cup {NoProc}
  /\ synced \in Nat
  /\ hwmDisk \subseteq Mark
  /\ pc \in [Procs -> States]
  /\ seen \in [Procs -> Mark]
  /\ req \in [Procs -> BOOLEAN]
  /\ kind \in [Procs -> Kinds]
  /\ head \in [Procs -> Nat]
  /\ count \in [Procs -> Nat]
  /\ runSeq \in [Procs -> Nat]
  /\ runClosed \in [Procs -> BOOLEAN]
  /\ latched \in [Procs -> BOOLEAN]
  /\ nextId \in Nat \ {0}
  /\ acked \subseteq Nat

-----------------------------------------------------------------------------
\* lastSig: the signature of the last entry, "" on an empty trail.
LastSig(t) == IF t = <<>> THEN 0 ELSE t[Len(t)].id

\* The chain walk of verifyHMACStream / verifyEd25519Stream.
Linked(t) ==
  \A i \in 1..Len(t) : t[i].prev = IF i = 1 THEN 0 ELSE t[i-1].id

\* Fault: a sidecar one entry behind the trail is not accepted.
MarkAcceptsExact(h, t) ==
  IF h.count = 0 THEN t = <<>> ELSE h.count = Len(t) /\ t[h.count].id = h.last

\* checkHighWaterMark against a walked chain t.
MarkAccepts(h, t) ==
  IF h.count = 0 THEN t = <<>>
  ELSE h.count <= Len(t) /\ t[h.count].id = h.last

\* VerifyWithCheckpoint of a file with lines t, ending in end, and sidecar h.
Verifies(t, end, h) == end # "garbage" /\ Linked(t) /\ MarkAccepts(h, t)

\* seedRunSequences: m is the highest run_seq of p's rows in the trail.
IsSeed(p, m) ==
  LET mine == {i \in 1..Len(trail) : trail[i].run = p /\ trail[i].kind # "v1"}
  IN  /\ \A i \in mine : trail[i].seq <= m
      /\ m = 0 \/ \E i \in mine : trail[i].seq = m

RunHasClosed(p) ==
  \E i \in 1..Len(trail) : trail[i].run = p /\ trail[i].kind = "close"

FounderRow == [id |-> 1, prev |-> 0, run |-> Founder, seq |-> 0, kind |-> "v1"]
FounderMark == [count |-> 1, last |-> 1]

Init ==
  /\ exists = Established
  /\ trail = IF Established THEN <<FounderRow>> ELSE <<>>
  /\ hwm = IF Established THEN FounderMark ELSE NoMark
  /\ tail = "line"
  /\ marker = FALSE
  /\ lock = NoProc
  /\ synced = IF Established THEN 1 ELSE 0
  /\ hwmDisk = {IF Established THEN FounderMark ELSE NoMark}
  /\ pc = [p \in Procs |-> "closed"]
  /\ seen = [p \in Procs |-> NoMark]
  /\ req = [p \in Procs |-> FALSE]
  /\ kind = [p \in Procs |-> "v1"]
  /\ head = [p \in Procs |-> 0]
  /\ count = [p \in Procs |-> 0]
  /\ runSeq = [p \in Procs |-> 0]
  /\ runClosed = [p \in Procs |-> FALSE]
  /\ latched = [p \in Procs |-> FALSE]
  /\ nextId = IF Established THEN 2 ELSE 1
  /\ acked = {}

-----------------------------------------------------------------------------
(***************************************************************************)
(* New.  The existing trail is verified without the flock: the sidecar is  *)
(* read first, the lines are walked afterwards, and the descriptor is      *)
(* opened and the marker removed last.  A trail that is not there needs no *)
(* verification, unless the marker says a required write failed on it.     *)
(***************************************************************************)
Goto(p, s) == pc' = [pc EXCEPT ![p] = s]

OpenStat(p) ==
  /\ pc[p] = "closed"
  /\ IF exists
       THEN Goto(p, "opening") /\ seen' = [seen EXCEPT ![p] = hwm]
       ELSE Goto(p, IF marker THEN "refused" ELSE "verified") /\ UNCHANGED seen
  /\ UNCHANGED <<disk, durable, lock, req, kind, head, count, runSeq, runClosed,
                 latched, nextId, acked>>

OpenWalk(p) ==
  /\ pc[p] = "opening"
  /\ Goto(p, IF Verifies(trail, tail, seen[p]) THEN "verified" ELSE "refused")
  /\ UNCHANGED <<disk, durable, local, lock, nextId, acked>>

OpenFinish(p) ==
  /\ pc[p] = "verified"
  /\ Goto(p, "idle")
  /\ exists' = TRUE
  /\ marker' = FALSE
  /\ \E m \in 0..Len(trail) :
        IsSeed(p, m) /\ runSeq' = [runSeq EXCEPT ![p] = m]
  /\ runClosed' = [runClosed EXCEPT ![p] = RunHasClosed(p)]
  /\ UNCHANGED <<trail, tail, hwm, durable, lock, seen, req, kind, head, count,
                 latched, nextId, acked>>

\* The Auditor of p is gone, and with it everything it held in memory.
Forget(P) ==
  /\ pc' = [p \in Procs |-> IF p \in P THEN "closed" ELSE pc[p]]
  /\ seen' = [p \in Procs |-> IF p \in P THEN NoMark ELSE seen[p]]
  /\ req' = [p \in Procs |-> IF p \in P THEN FALSE ELSE req[p]]
  /\ kind' = [p \in Procs |-> IF p \in P THEN "v1" ELSE kind[p]]
  /\ head' = [p \in Procs |-> IF p \in P THEN 0 ELSE head[p]]
  /\ count' = [p \in Procs |-> IF p \in P THEN 0 ELSE count[p]]
  /\ runSeq' = [p \in Procs |-> IF p \in P THEN 0 ELSE runSeq[p]]
  /\ runClosed' = [p \in Procs |-> IF p \in P THEN FALSE ELSE runClosed[p]]
  /\ latched' = [p \in Procs |-> IF p \in P THEN FALSE ELSE latched[p]]
  /\ lock' = IF lock \in P THEN NoProc ELSE lock

\* A caller told to close and reopen, or refused by New, may try again.
Close(p) ==
  /\ pc[p] \in {"idle", "refused"}
  /\ Forget({p})
  /\ UNCHANGED <<disk, durable, nextId, acked>>

-----------------------------------------------------------------------------
(***************************************************************************)
(* record.  A latched writer refuses required rows before anything else,   *)
(* and raises the marker again as it does.                                 *)
(***************************************************************************)
StartRecord(p) ==
  /\ pc[p] = "idle"
  /\ nextId <= MaxRows
  /\ \E r \in Modes, k \in Kinds :
        /\ ~(r /\ latched[p])
        /\ k = "v1" \/ r
        /\ req' = [req EXCEPT ![p] = r]
        /\ kind' = [kind EXCEPT ![p] = k]
  /\ Goto(p, "waiting")
  /\ UNCHANGED <<disk, durable, lock, seen, head, count, runSeq, runClosed,
                 latched, nextId, acked>>

RefuseLatched(p) ==
  /\ pc[p] = "idle"
  /\ TRUE \in Modes
  /\ latched[p]
  /\ marker' = TRUE
  /\ UNCHANGED <<exists, trail, tail, hwm, durable, local, lock, pc, nextId, acked>>

\* Fault: a shared flock.
LockShared(p) ==
  /\ pc[p] = "waiting"
  /\ lock' = p
  /\ Goto(p, "locked")
  /\ UNCHANGED <<disk, durable, local, nextId, acked>>

Lock(p) ==
  /\ pc[p] = "waiting"
  /\ lock = NoProc
  /\ lock' = p
  /\ Goto(p, "locked")
  /\ UNCHANGED <<disk, durable, local, nextId, acked>>

\* Fault: the flock is not released.
ReturnLocked(p) == Goto(p, "idle") /\ UNCHANGED lock

Return(p) ==
  /\ Goto(p, "idle")
  /\ lock' = NoProc

\* Fault: a failed required write is only reported.
LatchNothing(p) == UNCHANGED <<latched, marker>>

\* The deferred handler of a failed RecordRequired; Record only reports.
Latch(p) ==
  /\ latched' = IF req[p] THEN [latched EXCEPT ![p] = TRUE] ELSE latched
  /\ marker' = IF req[p] THEN TRUE ELSE marker

\* A v2 row of a closed run is rejected input: nothing is latched.
RejectClosedRun(p) ==
  /\ pc[p] = "locked"
  /\ kind[p] # "v1" /\ runClosed[p]
  /\ Return(p)
  /\ UNCHANGED <<disk, durable, local, nextId, acked>>

\* Fault: the sidecar's count is taken though it names another row.
CountOfSidecar(last) == hwm.count

\* checkpointCount: the sidecar's count when it names the head, and the
\* count of a full verification otherwise.
CountUnderLock(last) == IF hwm.count > 0 /\ hwm.last = last THEN hwm.count
                        ELSE Len(trail)

HeadReadable(last) ==
  /\ tail # "garbage"
  /\ (hwm.count > 0 /\ hwm.last = last) \/ Verifies(trail, tail, hwm)

ReadHead(p) ==
  LET last == LastSig(trail) IN
  /\ pc[p] = "locked"
  /\ kind[p] = "v1" \/ ~runClosed[p]
  /\ HeadReadable(last)
  /\ head' = [head EXCEPT ![p] = last]
  /\ count' = [count EXCEPT ![p] = CountUnderLock(last)]
  /\ Goto(p, "checked")
  /\ UNCHANGED <<disk, durable, lock, seen, req, kind, runSeq, runClosed, latched,
                 nextId, acked>>

ReadHeadFails(p) ==
  /\ pc[p] = "locked"
  /\ kind[p] = "v1" \/ ~runClosed[p]
  /\ "read" \in Faults \/ ~HeadReadable(LastSig(trail))
  /\ Return(p)
  /\ Latch(p)
  /\ UNCHANGED <<exists, trail, tail, hwm, durable, seen, req, kind, head, count,
                 runSeq, runClosed, nextId, acked>>

\* The lines of the file after row is appended and the write ends as told.
\* What follows an unterminated line joins it, and the two make no row.
Written(row, end) ==
  IF tail = "unterminated"
    THEN /\ trail' = SubSeq(trail, 1, Len(trail) - 1)
         /\ tail' = "garbage"
         /\ synced' = IF synced = Len(trail) THEN synced - 1 ELSE synced
    ELSE /\ trail' = IF end = "garbage" THEN trail ELSE Append(trail, row)
         /\ tail' = end
         /\ UNCHANGED synced

\* Fault: the run sequence counts down.
NewRowBackwards(p) ==
  [id |-> nextId, prev |-> head[p], run |-> p, kind |-> kind[p],
   seq |-> IF kind[p] = "v1" THEN 0 ELSE runSeq[p] - 1]

NewRow(p) == [id |-> nextId, prev |-> head[p], run |-> p, kind |-> kind[p],
              seq |-> IF kind[p] = "v1" THEN 0 ELSE runSeq[p] + 1]

AppendRow(p) ==
  /\ pc[p] = "checked"
  /\ Written(NewRow(p), "line")
  /\ head' = [head EXCEPT ![p] = nextId]
  /\ nextId' = nextId + 1
  /\ Goto(p, "appended")
  /\ UNCHANGED <<exists, hwm, marker, hwmDisk, lock, seen, req, kind, count, runSeq,
                 runClosed, latched, acked>>

\* writeAll returns an error after writing nothing, some, or all but the
\* newline of the row.
AppendFails(p) ==
  /\ pc[p] = "checked"
  /\ \/ /\ "write" \in Faults
        /\ UNCHANGED <<trail, tail, synced>>
     \/ /\ "torn" \in Faults
        /\ Written(NewRow(p), "garbage")
     \/ /\ "unterminated" \in Faults
        /\ Written(NewRow(p), "unterminated")
  /\ nextId' = nextId + 1
  /\ Return(p)
  /\ Latch(p)
  /\ UNCHANGED <<exists, hwm, hwmDisk, seen, req, kind, head, count, runSeq,
                 runClosed, acked>>

\* Fault: the directory is synced, the trail is not.
SyncDirectoryOnly(p) ==
  /\ pc[p] = "appended"
  /\ req[p]
  /\ hwmDisk' = {hwm}
  /\ Goto(p, "synced")
  /\ UNCHANGED <<disk, synced, local, lock, nextId, acked>>

\* f.Sync and the sync of the directory that holds trail and sidecar.
SyncTrail(p) ==
  /\ pc[p] = "appended"
  /\ req[p]
  /\ synced' = Len(trail)
  /\ hwmDisk' = {hwm}
  /\ Goto(p, "synced")
  /\ UNCHANGED <<disk, local, lock, nextId, acked>>

SyncTrailFails(p) ==
  /\ pc[p] = "appended"
  /\ req[p]
  /\ "sync" \in Faults
  /\ synced' \in {synced, Len(trail)}
  /\ Return(p)
  /\ Latch(p)
  /\ UNCHANGED <<exists, trail, tail, hwm, hwmDisk, seen, req, kind, head, count,
                 runSeq, runClosed, nextId, acked>>

\* updateHighWaterMark up to and including the rename of the new sidecar.
ReadyToMark(p) == pc[p] = IF req[p] THEN "synced" ELSE "appended"

WriteMark(p) ==
  LET new == [count |-> count[p] + 1, last |-> head[p]] IN
  /\ ReadyToMark(p)
  /\ hwm' = new
  /\ hwmDisk' = hwmDisk \cup {new}
  /\ Goto(p, "marked")
  /\ UNCHANGED <<exists, trail, tail, marker, synced, local, lock, nextId, acked>>

WriteMarkFails(p) ==
  /\ ReadyToMark(p)
  /\ "hwm" \in Faults
  /\ Return(p)
  /\ Latch(p)
  /\ UNCHANGED <<exists, trail, tail, hwm, durable, seen, req, kind, head, count,
                 runSeq, runClosed, nextId, acked>>

\* The directory sync after the rename of a required row's sidecar fails.
SyncMarkFails(p) ==
  /\ pc[p] = "marked"
  /\ req[p]
  /\ "sync" \in Faults
  /\ Return(p)
  /\ Latch(p)
  /\ UNCHANGED <<exists, trail, tail, hwm, durable, seen, req, kind, head, count,
                 runSeq, runClosed, nextId, acked>>

\* The sync of the directory, the writer's run counters, and the return.
FinishRecord(p) ==
  /\ pc[p] = "marked"
  /\ hwmDisk' = IF req[p] THEN {hwm} ELSE hwmDisk
  /\ acked' = IF req[p] THEN acked \cup {head[p]} ELSE acked
  /\ runSeq' = [runSeq EXCEPT ![p] = IF kind[p] = "v1" THEN runSeq[p]
                                     ELSE runSeq[p] + 1]
  /\ runClosed' = IF kind[p] = "close" THEN [runClosed EXCEPT ![p] = TRUE]
                  ELSE runClosed
  /\ Return(p)
  /\ UNCHANGED <<disk, synced, seen, req, kind, head, count, latched, nextId>>

-----------------------------------------------------------------------------
\* A process dies; the kernel releases its flock and keeps its writes.
Crash(p) ==
  /\ CanCrash
  /\ pc[p] \notin {"closed", "refused"}
  /\ Forget({p})
  /\ UNCHANGED <<disk, durable, nextId, acked>>

\* How the file may end when only its first k rows survive.
EndsAfterLoss(k) ==
  IF k = Len(trail)
    THEN {tail} \cup (IF tail = "garbage" THEN {"line"} ELSE {})
    ELSE {"line"} \cup (IF "torn" \in Faults THEN {"garbage"} ELSE {})
                  \cup (IF "unterminated" \in Faults /\ k > synced
                          THEN {"unterminated"} ELSE {})

PowerLoss ==
  /\ CanLosePower
  /\ Forget(Procs)
  /\ \E k \in synced..Len(trail) :
       /\ trail' = SubSeq(trail, 1, k)
       /\ tail' \in EndsAfterLoss(k)
       /\ synced' = k
  /\ exists' \in {exists} \cup
       (IF trail' = <<>> /\ tail' = "line" THEN {FALSE} ELSE {})
  /\ hwm' \in hwmDisk
  /\ hwmDisk' = {hwm'}
  /\ marker' \in {FALSE, marker}
  /\ UNCHANGED <<nextId, acked>>

Step(p) ==
  \/ OpenStat(p) \/ OpenWalk(p) \/ OpenFinish(p)
  \/ Lock(p) \/ RejectClosedRun(p)
  \/ ReadHead(p) \/ ReadHeadFails(p)
  \/ AppendRow(p) \/ AppendFails(p)
  \/ SyncTrail(p) \/ SyncTrailFails(p)
  \/ WriteMark(p) \/ WriteMarkFails(p)
  \/ SyncMarkFails(p) \/ FinishRecord(p)

Environment(p) == Close(p) \/ StartRecord(p) \/ RefuseLatched(p) \/ Crash(p)

Next == (\E p \in Procs : Step(p) \/ Environment(p)) \/ PowerLoss

Spec == Init /\ [][Next]_vars

(***************************************************************************)
(* A started call runs to its end unless its process dies, and a waiter    *)
(* that finds the flock free again and again gets it.                      *)
(***************************************************************************)
Fairness == \A p \in Procs : WF_vars(Step(p)) /\ SF_vars(Lock(p))

FairSpec == Spec /\ Fairness

-----------------------------------------------------------------------------
(***************************************************************************)
(* The flock is held by exactly the process between its acquisition and    *)
(* its return, so no two processes are in the read-tail, sign, append      *)
(* section at once, whatever process died holding it.                      *)
(***************************************************************************)
OneWriter ==
  \A p \in Procs : pc[p] \in LockedStates <=> lock = p

(***************************************************************************)
(* The rows form one chain whichever processes wrote them: no append links *)
(* onto a stale head, which a verifier would report as tampering.          *)
(***************************************************************************)
ChainIntact == Linked(trail)

(***************************************************************************)
(* The same of every sidecar a power loss may leave, against the rows it   *)
(* cannot take: a trail of required rows is never found shorter than its   *)
(* sidecar says after the machine restarts.                                *)
(***************************************************************************)
SidecarNotAheadOfStorage ==
  \A h \in hwmDisk :
    h.count > 0 => h.count <= synced /\ trail[h.count].id = h.last

(***************************************************************************)
(* What RecordRequired promises when it returns nil: the row is on storage *)
(* and so is a sidecar that counts it, whatever happens afterwards, so     *)
(* that neither power loss nor a later truncation removes it unnoticed.    *)
(***************************************************************************)
AckedSurvives ==
  \A a \in acked : \E i \in 1..Len(trail) :
    /\ trail[i].id = a
    /\ i <= synced
    /\ \A h \in hwmDisk : h.count >= i

(***************************************************************************)
(* The v2 rows of a run are numbered 1, 2, 3, ... in the order they lie in *)
(* the file, and none follows the close row, through failed writes, deaths *)
(* and reopenings with the same run id.                                    *)
(***************************************************************************)
RunRowsInSequence ==
  \A i \in 1..Len(trail) :
    trail[i].kind # "v1" =>
      LET before == {j \in 1..(i-1) : trail[j].run = trail[i].run
                                       /\ trail[j].kind # "v1"}
      IN  /\ trail[i].seq >= 1
          /\ {trail[j].seq : j \in before} = 1..(trail[i].seq - 1)
          /\ \A j \in before : trail[j].seq < trail[i].seq /\ trail[j].kind # "close"

(***************************************************************************)
(* A whole file is one New would open: no fault, death or interleaving     *)
(* turns it into one that every later start refuses.  And New refused one  *)
(* only because its last line really was damaged: what another process was *)
(* appending while it read never made a sound trail look tampered with.    *)
(***************************************************************************)
TrailVerifies ==
  /\ tail # "garbage" => Verifies(trail, tail, hwm)
  /\ \A p \in Procs : pc[p] = "refused" => tail = "garbage"

(***************************************************************************)
(* The comment on updateHighWaterMark says a crash between the append and  *)
(* the sidecar leaves the sidecar one entry behind, "which Verify accepts":*)
(* so a whole trail nobody is appending to verifies.                       *)
(***************************************************************************)
QuietTrailVerifies ==
  lock = NoProc /\ tail = "line" => Verifies(trail, tail, hwm)

(***************************************************************************)
(* A call that waits for the flock returns, or its process dies.           *)
(***************************************************************************)
RecordReturns ==
  \A p \in Procs : pc[p] = "waiting" ~> pc[p] \in {"idle", "closed"}

=============================================================================
