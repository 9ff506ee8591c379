-------------------------- MODULE AuditTrailProofs --------------------------
(***************************************************************************)
(* Theorems about the signed audit trail, for any set of processes, any    *)
(* bound and any of the faults unless a theorem names what it excludes.    *)
(***************************************************************************)
EXTENDS AuditTrail, TLAPS

(***************************************************************************)
(* Cutting a trail to its first k rows gives rows, and only its own.       *)
(***************************************************************************)
LEMMA PrefixRows ==
  ASSUME NEW t \in Seq(Row), NEW k \in 0..Len(t)
  PROVE  /\ SubSeq(t, 1, k) \in Seq(Row)
         /\ Len(SubSeq(t, 1, k)) = k
         /\ \A i \in 1..k : SubSeq(t, 1, k)[i] = t[i]
OBVIOUS

(***************************************************************************)
(* The values the initial state and New start from have their types.       *)
(***************************************************************************)
LEMMA StartValues ==
  /\ NoMark \in Mark /\ FounderMark \in Mark /\ FounderRow \in Row
  /\ "v1" \in Kinds
BY ProcsAssumption DEF NoMark, FounderMark, FounderRow, Mark, Row, Kinds

(***************************************************************************)
(* The head read under the flock is a signature or the empty one, and the  *)
(* entry count a natural number.                                           *)
(***************************************************************************)
LEMMA HeadTypes ==
  ASSUME TypeOK
  PROVE  /\ LastSig(trail) \in Nat
         /\ CountUnderLock(LastSig(trail)) \in Nat
<1>1. trail # <<>> => Len(trail) \in 1..Len(trail) /\ trail[Len(trail)] \in Row
  BY DEF TypeOK
<1>2. LastSig(trail) \in Nat
  BY <1>1 DEF LastSig, Row
<1>3. CountUnderLock(LastSig(trail)) \in Nat
  BY DEF CountUnderLock, TypeOK, Mark
<1> QED
  BY <1>2, <1>3

\* An unterminated last line is a row of the trail, so there is one.
Unfinished == tail = "unterminated" => trail # <<>>

(***************************************************************************)
(* The row a writer signs is a row, and a write leaves rows and a count of *)
(* synchronized ones, however it ends.                                     *)
(***************************************************************************)
LEMMA NewRowType ==
  ASSUME TypeOK, NEW p \in Procs
  PROVE  NewRow(p) \in Row
BY DEF TypeOK, NewRow, Row

LEMMA WrittenTypes ==
  ASSUME TypeOK, NEW r \in Row, NEW end \in {"line", "unterminated", "garbage"},
         Unfinished, Written(r, end)
  PROVE  /\ trail' \in Seq(Row)
         /\ tail' \in {"line", "unterminated", "garbage"}
         /\ synced' \in Nat
<1>1. CASE tail = "unterminated"
  <2>1. Len(trail) \in Nat /\ Len(trail) > 0
    BY <1>1 DEF Unfinished, TypeOK
  <2>2. SubSeq(trail, 1, Len(trail) - 1) \in Seq(Row)
    BY <2>1, PrefixRows DEF TypeOK
  <2>3. trail' = SubSeq(trail, 1, Len(trail) - 1) /\ tail' = "garbage"
        /\ synced' = IF synced = Len(trail) THEN synced - 1 ELSE synced
    BY <1>1 DEF Written
  <2> QED
    BY <2>1, <2>2, <2>3 DEF TypeOK
<1>2. CASE tail # "unterminated"
  <2>1. Append(trail, r) \in Seq(Row) /\ trail \in Seq(Row) /\ synced \in Nat
    BY DEF TypeOK
  <2>2. trail' = (IF end = "garbage" THEN trail ELSE Append(trail, r))
        /\ tail' = end /\ synced' = synced
    BY <1>2 DEF Written
  <2> QED
    BY <2>1, <2>2
<1> QED
  BY <1>1, <1>2

(***************************************************************************)
(* Every variable keeps its type: counters stay natural numbers, the lock  *)
(* is held by a process or nobody, and no step leaves a process between    *)
(* two states of New or record.  An unterminated line must exist for the   *)
(* count of synchronized rows to stay a number when the line is spoilt.    *)
(***************************************************************************)
TypeInv == TypeOK /\ Unfinished

LEMMA TypeInvInit == Init => TypeInv
<1> SUFFICES ASSUME Init PROVE TypeInv
  OBVIOUS
<1>1. exists \in BOOLEAN /\ trail \in Seq(Row) /\ hwm \in Mark /\ hwmDisk \subseteq Mark
      /\ synced \in Nat /\ nextId \in Nat \ {0}
  BY StartValues, FlagsAssumption DEF Init
<1>2. /\ pc \in [Procs -> States] /\ seen \in [Procs -> Mark]
      /\ req \in [Procs -> BOOLEAN] /\ kind \in [Procs -> Kinds]
  BY StartValues DEF Init, States, OpenStates
<1>3. /\ head \in [Procs -> Nat] /\ count \in [Procs -> Nat]
      /\ runSeq \in [Procs -> Nat] /\ runClosed \in [Procs -> BOOLEAN]
      /\ latched \in [Procs -> BOOLEAN]
  BY DEF Init
<1> QED
  BY <1>1, <1>2, <1>3 DEF Init, TypeInv, TypeOK, Unfinished

LEMMA TypeInvStep == TypeInv /\ [Next]_vars => TypeInv'
<1> SUFFICES ASSUME TypeInv, [Next]_vars PROVE TypeInv'
  OBVIOUS
<1> USE DEF TypeInv, TypeOK, Unfinished, disk, durable, local, Goto
<1>0. NoMark \in Mark /\ "v1" \in Kinds
  BY StartValues
<1>1. ASSUME NEW p \in Procs, OpenStat(p) PROVE TypeInv'
  BY <1>0, <1>1 DEF OpenStat, States, OpenStates
<1>2. ASSUME NEW p \in Procs, OpenWalk(p) PROVE TypeInv'
  BY <1>0, <1>2 DEF OpenWalk, States, OpenStates
<1>3. ASSUME NEW p \in Procs, OpenFinish(p) PROVE TypeInv'
  <2>1. RunHasClosed(p) \in BOOLEAN
    BY DEF RunHasClosed
  <2>2. runSeq' \in [Procs -> Nat]
    BY <1>3 DEF OpenFinish
  <2>3. runClosed' \in [Procs -> BOOLEAN]
    BY <1>3, <2>1 DEF OpenFinish
  <2> QED
    BY <1>3, <2>2, <2>3 DEF OpenFinish, States
<1>4. ASSUME NEW p \in Procs, Lock(p) PROVE TypeInv'
  BY <1>0, <1>4 DEF Lock, States, LockedStates
<1>5. ASSUME NEW p \in Procs, RejectClosedRun(p) PROVE TypeInv'
  BY <1>0, <1>5 DEF RejectClosedRun, States, Return
<1>6. ASSUME NEW p \in Procs, ReadHead(p) PROVE TypeInv'
  <2>1. head' \in [Procs -> Nat] /\ count' \in [Procs -> Nat]
    BY <1>6, HeadTypes DEF ReadHead
  <2> QED
    BY <1>6, <2>1 DEF ReadHead, States, LockedStates
<1>7. ASSUME NEW p \in Procs, ReadHeadFails(p) PROVE TypeInv'
  BY <1>0, <1>7 DEF ReadHeadFails, States, Return, Latch
<1>8. ASSUME NEW p \in Procs, AppendRow(p) PROVE TypeInv'
  <2>1. trail' \in Seq(Row) /\ tail' \in {"line", "unterminated", "garbage"} /\ synced' \in Nat
    BY <1>8, NewRowType, WrittenTypes DEF AppendRow
  <2>2. Unfinished'
    BY <1>8 DEF AppendRow, Written
  <2> QED
    BY <1>8, <2>1, <2>2 DEF AppendRow, States, LockedStates
<1>9. ASSUME NEW p \in Procs, AppendFails(p) PROVE TypeInv'
  <2>1. trail' \in Seq(Row) /\ tail' \in {"line", "unterminated", "garbage"} /\ synced' \in Nat
    BY <1>9, NewRowType, WrittenTypes DEF AppendFails
  <2>2. Unfinished'
    BY <1>9 DEF AppendFails, Written
  <2>3. latched' \in [Procs -> BOOLEAN] /\ marker' \in BOOLEAN
    BY <1>9 DEF AppendFails, Latch
  <2>4. /\ pc' \in [Procs -> States] /\ lock' \in Procs \cup {NoProc}
        /\ nextId' \in Nat \ {0}
    BY <1>9 DEF AppendFails, Return, States
  <2> QED
    BY <1>9, <2>1, <2>2, <2>3, <2>4 DEF AppendFails
<1>10. ASSUME NEW p \in Procs, SyncTrail(p) PROVE TypeInv'
  BY <1>0, <1>10 DEF SyncTrail, States, LockedStates
<1>11. ASSUME NEW p \in Procs, SyncTrailFails(p) PROVE TypeInv'
  BY <1>0, <1>11 DEF SyncTrailFails, States, Return, Latch
<1>12. ASSUME NEW p \in Procs, WriteMark(p) PROVE TypeInv'
  <2>1. [count |-> count[p] + 1, last |-> head[p]] \in Mark
    BY DEF Mark
  <2> QED
    BY <1>12, <2>1 DEF WriteMark, States, LockedStates
<1>13. ASSUME NEW p \in Procs, WriteMarkFails(p) PROVE TypeInv'
  BY <1>0, <1>13 DEF WriteMarkFails, States, Return, Latch
<1>14. ASSUME NEW p \in Procs, SyncMarkFails(p) PROVE TypeInv'
  BY <1>0, <1>14 DEF SyncMarkFails, States, Return, Latch
<1>15. ASSUME NEW p \in Procs, FinishRecord(p) PROVE TypeInv'
  <2>1. runSeq' \in [Procs -> Nat] /\ runClosed' \in [Procs -> BOOLEAN]
    BY <1>15 DEF FinishRecord
  <2>2. acked' \subseteq Nat /\ hwmDisk' \subseteq Mark
    BY <1>15 DEF FinishRecord
  <2> QED
    BY <1>15, <2>1, <2>2 DEF FinishRecord, Return, States
<1>16. ASSUME NEW p \in Procs, Close(p) PROVE TypeInv'
  BY <1>0, <1>16 DEF Close, States, OpenStates, Forget
<1>17. ASSUME NEW p \in Procs, StartRecord(p) PROVE TypeInv'
  <2>1. req' \in [Procs -> BOOLEAN] /\ kind' \in [Procs -> Kinds]
    BY <1>17, ModesAssumption DEF StartRecord
  <2> QED
    BY <1>17, <2>1 DEF StartRecord, States
<1>18. ASSUME NEW p \in Procs, RefuseLatched(p) PROVE TypeInv'
  BY <1>0, <1>18 DEF RefuseLatched, States
<1>19. ASSUME NEW p \in Procs, Crash(p) PROVE TypeInv'
  BY <1>0, <1>19 DEF Crash, States, OpenStates, Forget
<1>20. ASSUME PowerLoss PROVE TypeInv'
  <2>1. PICK k \in synced..Len(trail) :
          trail' = SubSeq(trail, 1, k) /\ tail' \in EndsAfterLoss(k) /\ synced' = k
    BY <1>20 DEF PowerLoss
  <2>2. trail' \in Seq(Row) /\ Len(trail') = k /\ synced' \in Nat
    BY <2>1, PrefixRows
  <2>3. tail' \in {"line", "unterminated", "garbage"}
    BY <2>1 DEF EndsAfterLoss
  <2>7. tail' = "unterminated" => k > 0
    <3>1. CASE k = Len(trail)
      BY <2>1, <3>1 DEF EndsAfterLoss
    <3>2. CASE k # Len(trail)
      BY <2>1, <3>2 DEF EndsAfterLoss
    <3> QED
      BY <3>1, <3>2
  <2>8. Unfinished'
    BY <2>2, <2>7
  <2>4. /\ pc' \in [Procs -> States] /\ seen' \in [Procs -> Mark]
        /\ req' \in [Procs -> BOOLEAN] /\ kind' \in [Procs -> Kinds]
        /\ head' \in [Procs -> Nat] /\ count' \in [Procs -> Nat]
    BY <1>0, <1>20 DEF PowerLoss, Forget, States, OpenStates
  <2>5. /\ runSeq' \in [Procs -> Nat] /\ runClosed' \in [Procs -> BOOLEAN]
        /\ latched' \in [Procs -> BOOLEAN] /\ lock' \in Procs \cup {NoProc}
    BY <1>20 DEF PowerLoss, Forget
  <2>6. exists' \in BOOLEAN /\ marker' \in BOOLEAN /\ hwm' \in Mark /\ hwmDisk' \subseteq Mark
    BY <1>20 DEF PowerLoss
  <2> QED
    BY <1>20, <2>2, <2>3, <2>4, <2>5, <2>6, <2>8 DEF PowerLoss
<1>21. CASE UNCHANGED vars
  BY <1>21 DEF vars
<1> QED
  BY <1>1, <1>2, <1>3, <1>4, <1>5, <1>6, <1>7, <1>8, <1>9, <1>10, <1>11, <1>12, <1>13, <1>14, <1>15, <1>16, <1>17, <1>18, <1>19, <1>20, <1>21 DEF Next, Step, Environment

THEOREM TypeCorrect == Spec => []TypeOK
<1>1. Spec => []TypeInv
  BY TypeInvInit, TypeInvStep, PTL DEF Spec
<1>2. TypeInv => TypeOK
  BY DEF TypeInv
<1> QED
  BY <1>1, <1>2, PTL

-----------------------------------------------------------------------------
(***************************************************************************)
(* The chain is inductive together with the flock discipline and with what *)
(* the flock is for: between reading the tail and appending, the head a    *)
(* writer signs onto is still the last signature of the file.              *)
(***************************************************************************)
HeadCurrent == \A p \in Procs : pc[p] = "checked" => head[p] = LastSig(trail)

ChainInv == OneWriter /\ ChainIntact /\ HeadCurrent

(***************************************************************************)
(* A prefix of a chain is a chain, and so is a chain with a row signed     *)
(* onto its last signature.                                                *)
(***************************************************************************)
LEMMA PrefixLinked ==
  ASSUME NEW t \in Seq(Row), Linked(t), NEW k \in 0..Len(t)
  PROVE  Linked(SubSeq(t, 1, k))
<1> DEFINE u == SubSeq(t, 1, k)
<1>1. Len(u) = k /\ \A i \in 1..k : u[i] = t[i]
  BY PrefixRows
<1>2. ASSUME NEW i \in 1..k PROVE u[i].prev = IF i = 1 THEN 0 ELSE u[i-1].id
  <2>1. i \in 1..Len(t) /\ u[i] = t[i]
    BY <1>1
  <2>2. i # 1 => i - 1 \in 1..k
    OBVIOUS
  <2> QED
    BY <1>1, <2>1, <2>2 DEF Linked
<1> HIDE DEF u
<1>3. Linked(u)
  BY <1>1, <1>2 DEF Linked
<1> QED
  BY <1>3 DEF u

LEMMA AppendLinked ==
  ASSUME NEW t \in Seq(Row), Linked(t), NEW r \in Row, r.prev = LastSig(t)
  PROVE  Linked(Append(t, r))
<1> DEFINE u == Append(t, r)
<1>1. Len(u) = Len(t) + 1 /\ u[Len(t) + 1] = r /\ \A i \in 1..Len(t) : u[i] = t[i]
  OBVIOUS
<1>2. ASSUME NEW i \in 1..Len(u) PROVE u[i].prev = IF i = 1 THEN 0 ELSE u[i-1].id
  <2>1. CASE i = Len(t) + 1
    <3>1. CASE t = <<>>
      BY <1>1, <2>1, <3>1 DEF LastSig
    <3>2. CASE t # <<>>
      <4>1. Len(t) \in 1..Len(t) /\ i # 1 /\ u[i-1] = t[Len(t)]
        BY <1>1, <2>1, <3>2
      <4> QED
        BY <1>1, <2>1, <3>2, <4>1 DEF LastSig
    <3> QED
      BY <3>1, <3>2
  <2>2. CASE i \in 1..Len(t)
    <3>1. i # 1 => i - 1 \in 1..Len(t)
      BY <2>2
    <3> QED
      BY <1>1, <2>2, <3>1 DEF Linked
  <2> QED
    BY <1>1, <2>1, <2>2
<1> HIDE DEF u
<1>3. Linked(u)
  BY <1>2 DEF Linked
<1> QED
  BY <1>3 DEF u

(***************************************************************************)
(* However a write ends, what a writer with a current head leaves is a     *)
(* chain of rows.                                                          *)
(***************************************************************************)
LEMMA WrittenLinked ==
  ASSUME TypeInv, ChainIntact, NEW r \in Row, r.prev = LastSig(trail),
         NEW end \in {"line", "unterminated", "garbage"}, Written(r, end)
  PROVE  ChainIntact'
<1>1. CASE tail = "unterminated"
  <2>1. Len(trail) - 1 \in 0..Len(trail)
    BY <1>1 DEF TypeInv, TypeOK, Unfinished
  <2> QED
    BY <1>1, <2>1, PrefixLinked DEF Written, ChainIntact, TypeInv, TypeOK
<1>2. CASE tail # "unterminated"
  <2>1. Linked(Append(trail, r))
    BY AppendLinked DEF ChainIntact, TypeInv, TypeOK
  <2>2. trail' = (IF end = "garbage" THEN trail ELSE Append(trail, r))
    BY <1>2 DEF Written
  <2> QED
    BY <2>1, <2>2 DEF ChainIntact
<1> QED
  BY <1>1, <1>2

LEMMA ChainInvInit == Init => ChainInv
<1> SUFFICES ASSUME Init PROVE ChainInv
  OBVIOUS
<1>1. OneWriter /\ HeadCurrent
  BY ProcsAssumption DEF Init, OneWriter, HeadCurrent, LockedStates
<1>2. ASSUME Established PROVE ChainIntact
  <2>1. trail = <<FounderRow>> /\ FounderRow.prev = 0
    BY <1>2 DEF Init, FounderRow
  <2>2. Len(trail) = 1 /\ trail[1] = FounderRow
    BY <2>1
  <2>3. \A i \in 1..Len(trail) : i = 1 /\ trail[i].prev = 0
    BY <2>1, <2>2
  <2> QED
    BY <2>3 DEF ChainIntact, Linked
<1>3. ASSUME ~Established PROVE ChainIntact
  <2>1. trail = <<>>
    BY <1>3 DEF Init
  <2>2. \A i \in 1..Len(trail) : FALSE
    BY <2>1
  <2> QED
    BY <2>2 DEF ChainIntact, Linked
<1> QED
  BY <1>1, <1>2, <1>3 DEF ChainInv

(***************************************************************************)
(* The flock passes from NoProc to one process and back; a death returns   *)
(* it with the process.                                                    *)
(***************************************************************************)
LEMMA OneWriterStep == TypeInv /\ OneWriter /\ [Next]_vars => OneWriter'
<1> SUFFICES ASSUME TypeInv, OneWriter, [Next]_vars PROVE OneWriter'
  OBVIOUS
<1> USE ProcsAssumption
    DEF TypeInv, TypeOK, OneWriter, LockedStates, local, disk, durable, Goto
<1>1. ASSUME NEW p \in Procs, OpenStat(p) PROVE OneWriter'
  BY <1>1 DEF OpenStat
<1>2. ASSUME NEW p \in Procs, OpenWalk(p) PROVE OneWriter'
  BY <1>2 DEF OpenWalk
<1>3. ASSUME NEW p \in Procs, OpenFinish(p) PROVE OneWriter'
  BY <1>3 DEF OpenFinish
<1>4. ASSUME NEW p \in Procs, Lock(p) PROVE OneWriter'
  BY <1>4 DEF Lock
<1>5. ASSUME NEW p \in Procs, RejectClosedRun(p) PROVE OneWriter'
  BY <1>5 DEF RejectClosedRun, Return
<1>6. ASSUME NEW p \in Procs, ReadHead(p) PROVE OneWriter'
  BY <1>6 DEF ReadHead
<1>7. ASSUME NEW p \in Procs, ReadHeadFails(p) PROVE OneWriter'
  BY <1>7 DEF ReadHeadFails, Return
<1>8. ASSUME NEW p \in Procs, AppendRow(p) PROVE OneWriter'
  BY <1>8 DEF AppendRow
<1>9. ASSUME NEW p \in Procs, AppendFails(p) PROVE OneWriter'
  BY <1>9 DEF AppendFails, Return
<1>10. ASSUME NEW p \in Procs, SyncTrail(p) PROVE OneWriter'
  BY <1>10 DEF SyncTrail
<1>11. ASSUME NEW p \in Procs, SyncTrailFails(p) PROVE OneWriter'
  BY <1>11 DEF SyncTrailFails, Return
<1>12. ASSUME NEW p \in Procs, WriteMark(p) PROVE OneWriter'
  BY <1>12 DEF WriteMark, ReadyToMark
<1>13. ASSUME NEW p \in Procs, WriteMarkFails(p) PROVE OneWriter'
  BY <1>13 DEF WriteMarkFails, Return, ReadyToMark
<1>14. ASSUME NEW p \in Procs, SyncMarkFails(p) PROVE OneWriter'
  BY <1>14 DEF SyncMarkFails, Return
<1>15. ASSUME NEW p \in Procs, FinishRecord(p) PROVE OneWriter'
  BY <1>15 DEF FinishRecord, Return
<1>16. ASSUME NEW p \in Procs, Close(p) PROVE OneWriter'
  BY <1>16 DEF Close, Forget
<1>17. ASSUME NEW p \in Procs, StartRecord(p) PROVE OneWriter'
  BY <1>17 DEF StartRecord
<1>18. ASSUME NEW p \in Procs, RefuseLatched(p) PROVE OneWriter'
  BY <1>18 DEF RefuseLatched
<1>19. ASSUME NEW p \in Procs, Crash(p) PROVE OneWriter'
  BY <1>19 DEF Crash, Forget
<1>20. ASSUME PowerLoss PROVE OneWriter'
  BY <1>20 DEF PowerLoss, Forget
<1>21. CASE UNCHANGED vars
  BY <1>21 DEF vars
<1> QED
  BY <1>1, <1>2, <1>3, <1>4, <1>5, <1>6, <1>7, <1>8, <1>9, <1>10, <1>11, <1>12, <1>13, <1>14, <1>15, <1>16, <1>17, <1>18, <1>19, <1>20, <1>21 DEF Next, Step, Environment

(***************************************************************************)
(* Only the lock holder appends, so nobody else is between reading the     *)
(* tail and appending when it does.                                        *)
(***************************************************************************)
LEMMA ChainStep ==
  TypeInv /\ ChainInv /\ [Next]_vars => ChainIntact' /\ HeadCurrent'
<1> SUFFICES ASSUME TypeInv, ChainInv, [Next]_vars PROVE ChainIntact' /\ HeadCurrent'
  OBVIOUS
<1> USE DEF TypeInv, TypeOK, ChainInv, HeadCurrent, local, disk, durable, Goto
<1>0. ASSUME UNCHANGED <<trail, head>>,
             \A q \in Procs : pc'[q] = "checked" => pc[q] = "checked"
      PROVE  ChainIntact' /\ HeadCurrent'
  BY <1>0 DEF ChainIntact, LastSig
<1>1. ASSUME NEW p \in Procs, OpenStat(p) PROVE ChainIntact' /\ HeadCurrent'
  BY <1>0, <1>1 DEF OpenStat
<1>2. ASSUME NEW p \in Procs, OpenWalk(p) PROVE ChainIntact' /\ HeadCurrent'
  BY <1>0, <1>2 DEF OpenWalk
<1>3. ASSUME NEW p \in Procs, OpenFinish(p) PROVE ChainIntact' /\ HeadCurrent'
  BY <1>0, <1>3 DEF OpenFinish
<1>4. ASSUME NEW p \in Procs, Lock(p) PROVE ChainIntact' /\ HeadCurrent'
  BY <1>0, <1>4 DEF Lock
<1>5. ASSUME NEW p \in Procs, RejectClosedRun(p) PROVE ChainIntact' /\ HeadCurrent'
  BY <1>0, <1>5 DEF RejectClosedRun, Return
<1>6. ASSUME NEW p \in Procs, ReadHead(p) PROVE ChainIntact' /\ HeadCurrent'
  BY <1>6 DEF ReadHead, ChainIntact, LastSig
<1>7. ASSUME NEW p \in Procs, ReadHeadFails(p) PROVE ChainIntact' /\ HeadCurrent'
  BY <1>0, <1>7 DEF ReadHeadFails, Return
<1>8. ASSUME NEW p \in Procs, AppendRow(p) PROVE ChainIntact' /\ HeadCurrent'
  <2>1. NewRow(p) \in Row /\ NewRow(p).prev = LastSig(trail)
    BY <1>8, NewRowType DEF AppendRow, NewRow
  <2>2. ChainIntact'
    BY <1>8, <2>1, WrittenLinked DEF AppendRow
  <2>3. \A q \in Procs : pc'[q] # "checked"
    BY <1>8 DEF AppendRow, OneWriter, LockedStates
  <2> QED
    BY <2>2, <2>3
<1>9. ASSUME NEW p \in Procs, AppendFails(p) PROVE ChainIntact' /\ HeadCurrent'
  <2>1. NewRow(p) \in Row /\ NewRow(p).prev = LastSig(trail)
    BY <1>9, NewRowType DEF AppendFails, NewRow
  <2>2. ChainIntact'
    BY <1>9, <2>1, WrittenLinked DEF AppendFails, ChainIntact
  <2>3. \A q \in Procs : pc'[q] # "checked"
    BY <1>9 DEF AppendFails, OneWriter, LockedStates, Return
  <2> QED
    BY <2>2, <2>3
<1>10. ASSUME NEW p \in Procs, SyncTrail(p) PROVE ChainIntact' /\ HeadCurrent'
  BY <1>0, <1>10 DEF SyncTrail
<1>11. ASSUME NEW p \in Procs, SyncTrailFails(p) PROVE ChainIntact' /\ HeadCurrent'
  BY <1>0, <1>11 DEF SyncTrailFails, Return
<1>12. ASSUME NEW p \in Procs, WriteMark(p) PROVE ChainIntact' /\ HeadCurrent'
  BY <1>0, <1>12 DEF WriteMark
<1>13. ASSUME NEW p \in Procs, WriteMarkFails(p) PROVE ChainIntact' /\ HeadCurrent'
  BY <1>0, <1>13 DEF WriteMarkFails, Return
<1>14. ASSUME NEW p \in Procs, SyncMarkFails(p) PROVE ChainIntact' /\ HeadCurrent'
  BY <1>0, <1>14 DEF SyncMarkFails, Return
<1>15. ASSUME NEW p \in Procs, FinishRecord(p) PROVE ChainIntact' /\ HeadCurrent'
  BY <1>0, <1>15 DEF FinishRecord, Return
<1>16. ASSUME NEW p \in Procs, Close(p) PROVE ChainIntact' /\ HeadCurrent'
  BY <1>16 DEF Close, Forget, ChainIntact, LastSig
<1>17. ASSUME NEW p \in Procs, StartRecord(p) PROVE ChainIntact' /\ HeadCurrent'
  BY <1>0, <1>17 DEF StartRecord
<1>18. ASSUME NEW p \in Procs, RefuseLatched(p) PROVE ChainIntact' /\ HeadCurrent'
  BY <1>0, <1>18 DEF RefuseLatched
<1>19. ASSUME NEW p \in Procs, Crash(p) PROVE ChainIntact' /\ HeadCurrent'
  BY <1>19 DEF Crash, Forget, ChainIntact, LastSig
<1>20. ASSUME PowerLoss PROVE ChainIntact' /\ HeadCurrent'
  <2>1. PICK k \in synced..Len(trail) : trail' = SubSeq(trail, 1, k)
    BY <1>20 DEF PowerLoss
  <2>2. ChainIntact'
    BY <2>1, PrefixLinked DEF ChainIntact
  <2>3. HeadCurrent'
    BY <1>20 DEF PowerLoss, Forget
  <2> QED
    BY <2>2, <2>3
<1>21. CASE UNCHANGED vars
  BY <1>0, <1>21 DEF vars
<1> QED
  BY <1>1, <1>2, <1>3, <1>4, <1>5, <1>6, <1>7, <1>8, <1>9, <1>10, <1>11, <1>12, <1>13, <1>14, <1>15, <1>16, <1>17, <1>18, <1>19, <1>20, <1>21 DEF Next, Step, Environment

(***************************************************************************)
(* At most one process is inside the flocked section, and the trail is one *)
(* chain, for any number of processes, whatever write fails, whoever dies  *)
(* and whatever a power loss takes.                                        *)
(***************************************************************************)
LEMMA ChainInvAlways == Spec => [](TypeInv /\ ChainInv)
<1>1. TypeInv /\ ChainInv /\ [Next]_vars => (TypeInv /\ ChainInv)'
  BY TypeInvStep, OneWriterStep, ChainStep DEF ChainInv
<1> QED
  BY <1>1, TypeInvInit, ChainInvInit, PTL DEF Spec

THEOREM WritersExclude == Spec => []OneWriter
<1>1. ChainInv => OneWriter
  BY DEF ChainInv
<1> QED
  BY <1>1, ChainInvAlways, PTL

THEOREM TrailIsOneChain == Spec => []ChainIntact
<1>1. ChainInv => ChainIntact
  BY DEF ChainInv
<1> QED
  BY <1>1, ChainInvAlways, PTL

-----------------------------------------------------------------------------
(***************************************************************************)
(* What a trail of required rows keeps on storage.  Identities increase    *)
(* along the trail, so the sidecar names the head exactly when it counts   *)
(* every row; and a writer that has read the tail knows how many there are *)
(* until it returns.  Excluded: best-effort rows, whose sidecar may reach  *)
(* storage before the row, and a row written without its newline.          *)
(***************************************************************************)
RequiredOnly == Modes = {TRUE} /\ "unterminated" \notin Faults

IdsIncrease ==
  /\ \A i \in 1..Len(trail) : trail[i].id \in 1..(nextId - 1)
  /\ \A i, j \in 1..Len(trail) : i < j => trail[i].id < trail[j].id

StorageBounds == tail # "unterminated" /\ synced <= Len(trail) /\ hwm \in hwmDisk

WriterKnows ==
  \A p \in Procs :
    /\ pc[p] \in LockedStates \cup {"waiting"} => req[p]
    /\ pc[p] = "checked" => count[p] = Len(trail)
    /\ pc[p] \in {"appended", "synced", "marked"} =>
          count[p] + 1 = Len(trail) /\ trail[Len(trail)].id = head[p]
    /\ pc[p] \in {"synced", "marked"} => synced = Len(trail)
    /\ pc[p] = "marked" => hwm = [count |-> count[p] + 1, last |-> head[p]]

DiskInv ==
  /\ StorageBounds
  /\ IdsIncrease
  /\ SidecarNotAheadOfStorage
  /\ WriterKnows
  /\ AckedSurvives

LEMMA DiskInvInit == RequiredOnly /\ Init => DiskInv
<1> SUFFICES ASSUME Init PROVE DiskInv
  OBVIOUS
<1>1. WriterKnows /\ AckedSurvives
  BY DEF Init, WriterKnows, AckedSurvives, LockedStates
<1>2. ASSUME Established
      PROVE  StorageBounds /\ IdsIncrease /\ SidecarNotAheadOfStorage
  <2>1. /\ trail = <<FounderRow>> /\ synced = 1 /\ hwm = FounderMark
        /\ hwmDisk = {FounderMark} /\ nextId = 2 /\ tail = "line"
    BY <1>2 DEF Init
  <2>2. Len(trail) = 1 /\ trail[1].id = 1
    BY <2>1 DEF FounderRow
  <2>3. FounderMark.count = 1 /\ FounderMark.last = 1
    BY DEF FounderMark
  <2> HIDE DEF FounderMark
  <2> QED
    BY <2>1, <2>2, <2>3 DEF StorageBounds, IdsIncrease, SidecarNotAheadOfStorage
<1>3. ASSUME ~Established
      PROVE  StorageBounds /\ IdsIncrease /\ SidecarNotAheadOfStorage
  <2>1. /\ trail = <<>> /\ synced = 0 /\ hwm = NoMark
        /\ hwmDisk = {NoMark} /\ nextId = 1 /\ tail = "line"
    BY <1>3 DEF Init
  <2>2. Len(trail) = 0
    BY <2>1
  <2> QED
    BY <2>1, <2>2 DEF StorageBounds, IdsIncrease, SidecarNotAheadOfStorage, NoMark
<1> QED
  BY <1>1, <1>2, <1>3 DEF DiskInv

(***************************************************************************)
(* A step that leaves the files alone, and leaves every process inside     *)
(* record as it was, disturbs nothing.                                     *)
(***************************************************************************)
LEMMA DiskInvQuiet ==
  ASSUME DiskInv,
         UNCHANGED <<trail, tail, synced, hwm, hwmDisk, nextId, acked>>,
         \A q \in Procs :
           \/ UNCHANGED <<pc[q], req[q], count[q], head[q]>>
           \/ pc'[q] \notin LockedStates \cup {"waiting"}
  PROVE  DiskInv'
<1>1. /\ StorageBounds' /\ IdsIncrease' /\ SidecarNotAheadOfStorage' /\ AckedSurvives'
  BY DEF DiskInv, StorageBounds, IdsIncrease, SidecarNotAheadOfStorage, AckedSurvives
<1>2. WriterKnows'
  <2> SUFFICES ASSUME NEW q \in Procs
               PROVE  /\ pc'[q] \in LockedStates \cup {"waiting"} => req'[q]
                      /\ pc'[q] = "checked" => count'[q] = Len(trail')
                      /\ pc'[q] \in {"appended", "synced", "marked"} =>
                            count'[q] + 1 = Len(trail')
                            /\ trail'[Len(trail')].id = head'[q]
                      /\ pc'[q] \in {"synced", "marked"} => synced' = Len(trail')
                      /\ pc'[q] = "marked" =>
                            hwm' = [count |-> count'[q] + 1, last |-> head'[q]]
    BY DEF WriterKnows
  <2>1. CASE UNCHANGED <<pc[q], req[q], count[q], head[q]>>
    BY <2>1 DEF DiskInv, WriterKnows
  <2>2. CASE pc'[q] \notin LockedStates \cup {"waiting"}
    BY <2>2 DEF LockedStates
  <2> QED
    BY <2>1, <2>2
<1> QED
  BY <1>1, <1>2 DEF DiskInv

(***************************************************************************)
(* Under the flock the head is the last signature, so the sidecar either   *)
(* names it and counts every row, or is recounted by a full verification.  *)
(***************************************************************************)
LEMMA HeadCounts ==
  ASSUME TypeInv, DiskInv
  PROVE  CountUnderLock(LastSig(trail)) = Len(trail)
<1>1. CASE hwm.count > 0 /\ hwm.last = LastSig(trail)
  <2>1. /\ hwm.count \in 1..Len(trail)
        /\ trail[hwm.count].id = hwm.last
    <3>1. hwm \in hwmDisk /\ hwm.count \in Nat /\ Len(trail) \in Nat /\ synced \in Nat
          /\ synced <= Len(trail)
      BY DEF TypeInv, TypeOK, Mark, DiskInv, StorageBounds
    <3>2. hwm.count <= synced /\ trail[hwm.count].id = hwm.last
      BY <1>1, <3>1 DEF DiskInv, SidecarNotAheadOfStorage
    <3> QED
      BY <1>1, <3>1, <3>2
  <2>2. Len(trail) \in 1..Len(trail) /\ trail[Len(trail)].id = trail[hwm.count].id
    BY <1>1, <2>1 DEF LastSig, TypeInv, TypeOK
  <2>3. ~(hwm.count < Len(trail))
    <3>1. trail[Len(trail)].id \in Nat
      <4>1. trail[Len(trail)] \in Row
        BY <2>2 DEF TypeInv, TypeOK
      <4> QED
        BY <4>1 DEF Row
    <3>2. hwm.count < Len(trail) => trail[hwm.count].id < trail[Len(trail)].id
      BY <2>1, <2>2 DEF DiskInv, IdsIncrease
    <3> QED
      BY <2>2, <3>1, <3>2
  <2> QED
    BY <1>1, <2>1, <2>3 DEF CountUnderLock
<1>2. CASE ~(hwm.count > 0 /\ hwm.last = LastSig(trail))
  BY <1>2 DEF CountUnderLock
<1> QED
  BY <1>1, <1>2

(***************************************************************************)
(* Rows already in the file keep their place and identity when one more is *)
(* appended with a fresh identity.                                         *)
(***************************************************************************)
LEMMA AppendKeeps ==
  ASSUME TypeInv, NEW r \in Row
  PROVE  /\ Len(Append(trail, r)) = Len(trail) + 1
         /\ Append(trail, r)[Len(trail) + 1] = r
         /\ \A i \in 1..Len(trail) : Append(trail, r)[i] = trail[i]
BY DEF TypeInv, TypeOK

LEMMA DiskInvAppend ==
  ASSUME TypeInv, ChainInv, DiskInv, RequiredOnly, NEW p \in Procs, AppendRow(p)
  PROVE  DiskInv'
<1> DEFINE r == NewRow(p)
<1>1. r \in Row /\ r.id = nextId
  BY NewRowType DEF NewRow, TypeInv
<1>2. /\ trail' = Append(trail, r) /\ tail' = "line" /\ UNCHANGED <<synced, hwm, hwmDisk, acked>>
      /\ head'[p] = nextId /\ nextId' = nextId + 1 /\ UNCHANGED <<req, count>>
      /\ pc[p] = "checked" /\ pc' = [pc EXCEPT ![p] = "appended"]
  BY DEF AppendRow, Written, Goto, DiskInv, StorageBounds, TypeInv, TypeOK
<1> HIDE DEF r
<1>3. /\ Len(trail') = Len(trail) + 1 /\ trail'[Len(trail) + 1].id = nextId
      /\ \A i \in 1..Len(trail) : trail'[i] = trail[i]
  BY <1>1, <1>2, AppendKeeps
<1>4. Len(trail) \in Nat /\ synced \in Nat /\ nextId \in Nat \ {0} /\ synced <= Len(trail)
      /\ \A h \in hwmDisk : h.count \in Nat
  BY DEF TypeInv, TypeOK, Mark, DiskInv, StorageBounds
<1>5. StorageBounds'
  BY <1>2, <1>3, <1>4 DEF DiskInv, StorageBounds
<1>6. IdsIncrease'
  BY <1>2, <1>3, <1>4 DEF DiskInv, IdsIncrease
<1>7. SidecarNotAheadOfStorage'
  BY <1>2, <1>3, <1>4 DEF DiskInv, SidecarNotAheadOfStorage
<1>8. AckedSurvives'
  BY <1>2, <1>3, <1>4 DEF DiskInv, AckedSurvives
<1>9. WriterKnows'
  <2>1. count[p] = Len(trail) /\ req[p]
    BY <1>2 DEF DiskInv, WriterKnows, LockedStates
  <2>2. pc'[p] = "appended"
    BY <1>2 DEF TypeInv, TypeOK
  <2>3. \A q \in Procs \ {p} : pc'[q] = pc[q] /\ pc[q] \notin LockedStates
    BY <1>2 DEF ChainInv, OneWriter, LockedStates, TypeInv, TypeOK
  <2>4. \A q \in Procs \ {p} : pc'[q] = "waiting" => req'[q]
    BY <1>2, <2>3 DEF DiskInv, WriterKnows
  <2>5. count'[p] + 1 = Len(trail') /\ trail'[Len(trail')].id = head'[p] /\ req'[p]
    BY <1>2, <1>3, <2>1
  <2> QED
    BY <2>2, <2>3, <2>4, <2>5 DEF WriterKnows, LockedStates
<1> QED
  BY <1>5, <1>6, <1>7, <1>8, <1>9 DEF DiskInv

(***************************************************************************)
(* A power loss takes no row a sidecar on storage counts.                  *)
(***************************************************************************)
LEMMA DiskInvPowerLoss ==
  ASSUME TypeInv, DiskInv, RequiredOnly, PowerLoss
  PROVE  DiskInv'
<1>1. PICK k \in synced..Len(trail) :
        trail' = SubSeq(trail, 1, k) /\ tail' \in EndsAfterLoss(k) /\ synced' = k
  BY DEF PowerLoss
<1>2. /\ k \in Nat /\ synced \in Nat /\ synced <= k /\ k <= Len(trail) /\ Len(trail) \in Nat
      /\ \A h \in hwmDisk : h.count \in Nat
  BY DEF TypeInv, TypeOK, Mark
<1>3. Len(trail') = k /\ \A i \in 1..k : trail'[i] = trail[i]
  BY <1>1, <1>2, PrefixRows DEF TypeInv, TypeOK
<1>4. UNCHANGED <<nextId, acked>> /\ hwm' \in hwmDisk /\ hwmDisk' = {hwm'}
  BY DEF PowerLoss
<1>5. StorageBounds'
  <2>1. tail # "unterminated" /\ tail' \in EndsAfterLoss(k)
    BY <1>1 DEF DiskInv, StorageBounds
  <2>2. tail' # "unterminated"
    BY <2>1 DEF EndsAfterLoss, RequiredOnly
  <2> QED
    BY <1>1, <1>2, <1>3, <1>4, <2>2 DEF StorageBounds
<1>6. IdsIncrease'
  <2>1. \A i \in 1..k : i \in 1..Len(trail)
    BY <1>2
  <2>2. IdsIncrease
    BY DEF DiskInv
  <2>3. \A i \in 1..k : trail'[i].id \in 1..(nextId' - 1)
    BY <1>3, <1>4, <2>1, <2>2 DEF IdsIncrease
  <2>4. \A i, j \in 1..k : i < j => trail'[i].id < trail'[j].id
    BY <1>3, <2>1, <2>2 DEF IdsIncrease
  <2> QED
    BY <1>3, <2>3, <2>4 DEF IdsIncrease
<1>7. SidecarNotAheadOfStorage'
  BY <1>1, <1>2, <1>3, <1>4 DEF DiskInv, SidecarNotAheadOfStorage
<1>8. AckedSurvives'
  <2>1. ASSUME NEW a \in acked
        PROVE  \E i \in 1..k : trail'[i].id = a /\ i <= k /\ \A h \in hwmDisk : h.count >= i
    <3>1. PICK i \in 1..Len(trail) :
            trail[i].id = a /\ i <= synced /\ \A h \in hwmDisk : h.count >= i
      BY DEF DiskInv, AckedSurvives
    <3>2. i \in 1..k
      BY <1>2, <3>1
    <3> QED
      BY <1>3, <3>1, <3>2
  <2> QED
    BY <1>1, <1>3, <1>4, <2>1 DEF AckedSurvives
<1>9. WriterKnows'
  <2>1. \A q \in Procs : pc'[q] = "closed"
    BY DEF PowerLoss, Forget
  <2> QED
    BY <2>1 DEF WriterKnows, LockedStates
<1> QED
  BY <1>5, <1>6, <1>7, <1>8, <1>9 DEF DiskInv

(***************************************************************************)
(* Every step keeps what the trail has on storage.  SyncTrail puts every   *)
(* row there before WriteMark counts them, and FinishRecord acknowledges a *)
(* row only after the one sidecar left on storage counts it.               *)
(***************************************************************************)
LEMMA DiskInvStep ==
  RequiredOnly /\ TypeInv /\ ChainInv /\ DiskInv /\ [Next]_vars => DiskInv'
<1> SUFFICES ASSUME RequiredOnly, TypeInv, ChainInv, DiskInv, [Next]_vars
             PROVE  DiskInv'
  OBVIOUS
<1> USE DEF disk, durable, local, Goto
<1>t. /\ pc \in [Procs -> States] /\ req \in [Procs -> BOOLEAN]
      /\ count \in [Procs -> Nat] /\ head \in [Procs -> Nat]
      /\ trail \in Seq(Row) /\ Len(trail) \in Nat /\ synced \in Nat
      /\ \A h \in hwmDisk : h.count \in Nat
      /\ synced <= Len(trail) /\ hwm \in hwmDisk
  BY DEF TypeInv, TypeOK, Mark, DiskInv, StorageBounds
<1>w. /\ pc \in [Procs -> States]
      /\ \A p, q \in Procs : pc[p] \in LockedStates /\ q # p => pc[q] \notin LockedStates
  BY <1>t, ProcsAssumption DEF ChainInv, OneWriter
<1>1. ASSUME NEW p \in Procs, OpenStat(p) PROVE DiskInv'
  BY <1>t, <1>1, DiskInvQuiet DEF OpenStat, LockedStates
<1>2. ASSUME NEW p \in Procs, OpenWalk(p) PROVE DiskInv'
  BY <1>t, <1>2, DiskInvQuiet DEF OpenWalk, LockedStates
<1>3. ASSUME NEW p \in Procs, OpenFinish(p) PROVE DiskInv'
  BY <1>t, <1>3, DiskInvQuiet DEF OpenFinish, LockedStates
<1>4. ASSUME NEW p \in Procs, Lock(p) PROVE DiskInv'
  <2>1. StorageBounds' /\ IdsIncrease' /\ AckedSurvives' /\ SidecarNotAheadOfStorage'
    BY <1>4 DEF Lock, DiskInv, StorageBounds, IdsIncrease, AckedSurvives, SidecarNotAheadOfStorage
  <2>2. WriterKnows'
    BY <1>t, <1>4 DEF Lock, DiskInv, WriterKnows, LockedStates
  <2> QED
    BY <2>1, <2>2 DEF DiskInv
<1>5. ASSUME NEW p \in Procs, RejectClosedRun(p) PROVE DiskInv'
  BY <1>t, <1>5, DiskInvQuiet DEF RejectClosedRun, Return, LockedStates
<1>6. ASSUME NEW p \in Procs, ReadHead(p) PROVE DiskInv'
  <2>1. StorageBounds' /\ IdsIncrease' /\ AckedSurvives' /\ SidecarNotAheadOfStorage'
    BY <1>6 DEF ReadHead, DiskInv, StorageBounds, IdsIncrease, AckedSurvives, SidecarNotAheadOfStorage
  <2>2. count'[p] = Len(trail') /\ pc'[p] = "checked" /\ req'[p]
    BY <1>t, <1>6, HeadCounts DEF ReadHead, DiskInv, WriterKnows, LockedStates
  <2>3. \A q \in Procs \ {p} : UNCHANGED <<pc[q], req[q], count[q], head[q]>>
    BY <1>t, <1>6 DEF ReadHead
  <2>4. WriterKnows'
    BY <1>6, <2>2, <2>3 DEF ReadHead, DiskInv, WriterKnows
  <2> QED
    BY <2>1, <2>4 DEF DiskInv
<1>7. ASSUME NEW p \in Procs, ReadHeadFails(p) PROVE DiskInv'
  BY <1>t, <1>7, DiskInvQuiet DEF ReadHeadFails, Return, LockedStates
<1>8. ASSUME NEW p \in Procs, AppendRow(p) PROVE DiskInv'
  BY <1>8, DiskInvAppend
<1>9. ASSUME NEW p \in Procs, AppendFails(p) PROVE DiskInv'
  <2>1. UNCHANGED <<trail, synced, hwm, hwmDisk, acked>> /\ nextId' = nextId + 1
        /\ tail' # "unterminated"
    BY <1>9 DEF AppendFails, Written, RequiredOnly, DiskInv, StorageBounds
  <2>2. StorageBounds' /\ SidecarNotAheadOfStorage' /\ AckedSurvives'
    BY <2>1 DEF DiskInv, StorageBounds, SidecarNotAheadOfStorage, AckedSurvives
  <2>3. IdsIncrease'
    BY <1>t, <2>1 DEF DiskInv, IdsIncrease, TypeInv, TypeOK
  <2>4. pc'[p] = "idle" /\ \A q \in Procs \ {p} : UNCHANGED <<pc[q], req[q], count[q], head[q]>>
    BY <1>t, <1>9 DEF AppendFails, Return
  <2>5. WriterKnows'
    BY <2>1, <2>4 DEF DiskInv, WriterKnows, LockedStates
  <2> QED
    BY <2>2, <2>3, <2>5 DEF DiskInv
<1>10. ASSUME NEW p \in Procs, SyncTrail(p) PROVE DiskInv'
  <2>1. /\ UNCHANGED <<trail, tail, hwm, acked, nextId, req, count, head>>
        /\ synced' = Len(trail) /\ hwmDisk' = {hwm}
        /\ pc[p] = "appended" /\ pc' = [pc EXCEPT ![p] = "synced"]
    BY <1>10 DEF SyncTrail
  <2>2. StorageBounds' /\ IdsIncrease'
    BY <1>t, <2>1 DEF DiskInv, StorageBounds, IdsIncrease
  <2>3. SidecarNotAheadOfStorage'
    BY <1>t, <2>1 DEF DiskInv, SidecarNotAheadOfStorage
  <2>4. AckedSurvives'
    BY <1>t, <2>1 DEF DiskInv, AckedSurvives
  <2>5. \A q \in Procs \ {p} : pc'[q] = pc[q] /\ pc[q] \notin LockedStates
    BY <1>t, <1>w, <2>1 DEF LockedStates
  <2>6. WriterKnows'
    BY <1>t, <2>1, <2>5 DEF DiskInv, WriterKnows, LockedStates
  <2> QED
    BY <2>2, <2>3, <2>4, <2>6 DEF DiskInv
<1>11. ASSUME NEW p \in Procs, SyncTrailFails(p) PROVE DiskInv'
  <2>1. /\ UNCHANGED <<trail, tail, hwm, hwmDisk, acked, nextId, req, count, head>>
        /\ synced' \in {synced, Len(trail)}
        /\ pc[p] = "appended" /\ pc' = [pc EXCEPT ![p] = "idle"]
    BY <1>11 DEF SyncTrailFails, Return
  <2>2. StorageBounds' /\ IdsIncrease'
    BY <1>t, <2>1 DEF DiskInv, StorageBounds, IdsIncrease
  <2>3. SidecarNotAheadOfStorage'
    BY <1>t, <2>1 DEF DiskInv, SidecarNotAheadOfStorage
  <2>4. AckedSurvives'
    BY <1>t, <2>1 DEF DiskInv, AckedSurvives
  <2>5. \A q \in Procs \ {p} : pc'[q] = pc[q] /\ pc[q] \notin LockedStates
    BY <1>t, <1>w, <2>1 DEF LockedStates
  <2>6. WriterKnows'
    BY <1>t, <2>1, <2>5 DEF DiskInv, WriterKnows, LockedStates
  <2> QED
    BY <2>2, <2>3, <2>4, <2>6 DEF DiskInv
<1>12. ASSUME NEW p \in Procs, WriteMark(p) PROVE DiskInv'
  <2> DEFINE new == [count |-> count[p] + 1, last |-> head[p]]
  <2>1. /\ UNCHANGED <<trail, tail, synced, acked, nextId, req, count, head>>
        /\ hwm' = new /\ hwmDisk' = hwmDisk \cup {new}
        /\ pc' = [pc EXCEPT ![p] = "marked"]
    BY <1>12 DEF WriteMark
  <2>2. pc[p] = "synced" /\ req[p]
    BY <1>12 DEF WriteMark, ReadyToMark, DiskInv, WriterKnows, LockedStates
  <2>3. count[p] + 1 = Len(trail) /\ trail[Len(trail)].id = head[p] /\ synced = Len(trail)
    BY <2>2 DEF DiskInv, WriterKnows
  <2>4. new.count = Len(trail) /\ new.last = head[p]
    BY <2>3
  <2> HIDE DEF new
  <2>5. StorageBounds' /\ IdsIncrease'
    BY <1>t, <2>1 DEF DiskInv, StorageBounds, IdsIncrease
  <2>6. SidecarNotAheadOfStorage'
    BY <1>t, <2>1, <2>3, <2>4 DEF DiskInv, SidecarNotAheadOfStorage
  <2>7. AckedSurvives'
    BY <1>t, <2>1, <2>3, <2>4 DEF DiskInv, AckedSurvives
  <2>8. \A q \in Procs \ {p} : pc'[q] = pc[q] /\ pc[q] \notin LockedStates
    BY <1>t, <1>w, <2>1, <2>2 DEF LockedStates
  <2>9. hwm' = [count |-> count'[p] + 1, last |-> head'[p]] /\ pc'[p] = "marked"
    BY <1>t, <2>1 DEF new
  <2>10. WriterKnows'
    BY <2>1, <2>2, <2>3, <2>8, <2>9 DEF DiskInv, WriterKnows, LockedStates
  <2> QED
    BY <2>5, <2>6, <2>7, <2>10 DEF DiskInv
<1>13. ASSUME NEW p \in Procs, WriteMarkFails(p) PROVE DiskInv'
  BY <1>t, <1>13, DiskInvQuiet DEF WriteMarkFails, Return, LockedStates
<1>14. ASSUME NEW p \in Procs, SyncMarkFails(p) PROVE DiskInv'
  BY <1>t, <1>14, DiskInvQuiet DEF SyncMarkFails, Return, LockedStates
<1>15. ASSUME NEW p \in Procs, FinishRecord(p) PROVE DiskInv'
  <2>1. /\ UNCHANGED <<trail, tail, synced, hwm, nextId, req, count, head>>
        /\ pc[p] = "marked" /\ pc' = [pc EXCEPT ![p] = "idle"]
    BY <1>15 DEF FinishRecord, Return
  <2>2. req[p]
    BY <2>1 DEF DiskInv, WriterKnows, LockedStates
  <2>3. hwmDisk' = {hwm} /\ acked' = acked \cup {head[p]}
    BY <1>15, <2>2 DEF FinishRecord
  <2>4. /\ count[p] + 1 = Len(trail) /\ trail[Len(trail)].id = head[p]
        /\ synced = Len(trail) /\ hwm.count = Len(trail)
    BY <2>1 DEF DiskInv, WriterKnows
  <2>5. StorageBounds' /\ IdsIncrease'
    BY <1>t, <2>1, <2>3 DEF DiskInv, StorageBounds, IdsIncrease
  <2>6. SidecarNotAheadOfStorage'
    BY <1>t, <2>1, <2>3 DEF DiskInv, SidecarNotAheadOfStorage
  <2>7. AckedSurvives'
    <3>1. Len(trail) \in 1..Len(trail)
      BY <1>t, <2>4
    <3>2. \A a \in acked : \E j \in 1..Len(trail) :
            trail[j].id = a /\ j <= synced /\ hwm.count >= j
      BY <1>t DEF DiskInv, AckedSurvives
    <3>3. \A a \in acked' : \E j \in 1..Len(trail) :
            trail[j].id = a /\ j <= synced /\ hwm.count >= j
      BY <1>t, <2>3, <2>4, <3>1, <3>2
    <3> QED
      BY <2>1, <2>3, <3>3 DEF AckedSurvives
  <2>8. WriterKnows'
    <3>1. pc'[p] = "idle" /\ \A q \in Procs \ {p} : pc'[q] = pc[q]
      BY <1>t, <2>1
    <3> QED
      BY <2>1, <3>1 DEF DiskInv, WriterKnows, LockedStates
  <2> QED
    BY <2>5, <2>6, <2>7, <2>8 DEF DiskInv
<1>16. ASSUME NEW p \in Procs, Close(p) PROVE DiskInv'
  BY <1>t, <1>16, DiskInvQuiet DEF Close, Forget, LockedStates
<1>17. ASSUME NEW p \in Procs, StartRecord(p) PROVE DiskInv'
  <2>1. StorageBounds' /\ IdsIncrease' /\ AckedSurvives' /\ SidecarNotAheadOfStorage'
    BY <1>17 DEF StartRecord, DiskInv, StorageBounds, IdsIncrease, AckedSurvives, SidecarNotAheadOfStorage
  <2>2. req'[p] /\ pc'[p] = "waiting"
    BY <1>t, <1>17 DEF StartRecord, RequiredOnly
  <2>3. \A q \in Procs \ {p} : UNCHANGED <<pc[q], req[q]>>
    BY <1>t, <1>17 DEF StartRecord
  <2>4. WriterKnows'
    BY <1>17, <2>2, <2>3 DEF StartRecord, DiskInv, WriterKnows, LockedStates
  <2> QED
    BY <2>1, <2>4 DEF DiskInv
<1>18. ASSUME NEW p \in Procs, RefuseLatched(p) PROVE DiskInv'
  BY <1>t, <1>18, DiskInvQuiet DEF RefuseLatched, LockedStates
<1>19. ASSUME NEW p \in Procs, Crash(p) PROVE DiskInv'
  BY <1>t, <1>19, DiskInvQuiet DEF Crash, Forget, LockedStates
<1>20. ASSUME PowerLoss PROVE DiskInv'
  BY <1>20, DiskInvPowerLoss
<1>21. CASE UNCHANGED vars
  BY <1>21, DiskInvQuiet DEF vars
<1> QED
  BY <1>1, <1>2, <1>3, <1>4, <1>5, <1>6, <1>7, <1>8, <1>9, <1>10, <1>11, <1>12, <1>13, <1>14, <1>15, <1>16, <1>17, <1>18, <1>19, <1>20, <1>21 DEF Next, Step, Environment

(***************************************************************************)
(* With required rows only, and every written row whole, what a power loss *)
(* may leave is always a trail at least as long as its sidecar says, and   *)
(* every row RecordRequired acknowledged is there and counted.             *)
(***************************************************************************)
LEMMA DiskInvAlways == RequiredOnly => (Spec => []DiskInv)
<1> SUFFICES ASSUME RequiredOnly PROVE Spec => []DiskInv
  OBVIOUS
<1>1. Init => DiskInv
  BY DiskInvInit
<1>2. TypeInv /\ ChainInv /\ DiskInv /\ [Next]_vars => DiskInv'
  BY DiskInvStep
<1> QED
  BY <1>1, <1>2, ChainInvAlways, PTL DEF Spec

THEOREM AckedRowsSurvive == RequiredOnly => (Spec => []AckedSurvives)
<1> SUFFICES ASSUME RequiredOnly PROVE Spec => []AckedSurvives
  OBVIOUS
<1>1. DiskInv => AckedSurvives
  BY DEF DiskInv
<1>2. Spec => []DiskInv
  BY DiskInvAlways
<1> QED
  BY <1>1, <1>2, PTL

THEOREM SidecarBehindStorage == RequiredOnly => (Spec => []SidecarNotAheadOfStorage)
<1> SUFFICES ASSUME RequiredOnly PROVE Spec => []SidecarNotAheadOfStorage
  OBVIOUS
<1>1. DiskInv => SidecarNotAheadOfStorage
  BY DEF DiskInv
<1>2. Spec => []DiskInv
  BY DiskInvAlways
<1> QED
  BY <1>1, <1>2, PTL

-----------------------------------------------------------------------------
(***************************************************************************)
(* What New finds of a trail of required rows that is already there: some  *)
(* sidecar, no more rows counted in it than it will walk, and none of the  *)
(* damage a writer stops at.                                               *)
(***************************************************************************)
WholeInv ==
  /\ exists
  /\ \A h \in hwmDisk : h.count > 0
  /\ \A p \in Procs :
       /\ pc[p] = "opening" =>
            seen[p].count \in 1..Len(trail) /\ trail[seen[p].count].id = seen[p].last
       /\ pc[p] = "checked" => tail # "garbage"
       /\ pc[p] = "refused" => tail = "garbage"

LEMMA WholeInvInit == Established /\ Init => WholeInv
<1> SUFFICES ASSUME Established, Init PROVE WholeInv
  OBVIOUS
<1>1. exists /\ hwmDisk = {FounderMark} /\ FounderMark.count = 1
  BY DEF Init, FounderMark
<1>2. \A p \in Procs : pc[p] = "closed"
  BY DEF Init
<1> QED
  BY <1>1, <1>2 DEF WholeInv

\* Any sidecar on storage counts rows of the trail that are there.
LEMMA SidecarInTrail ==
  ASSUME TypeInv, DiskInv, WholeInv, NEW h \in hwmDisk
  PROVE  h.count \in 1..Len(trail) /\ h.count \in 1..synced /\ trail[h.count].id = h.last
BY DEF TypeInv, TypeOK, Mark, DiskInv, StorageBounds, SidecarNotAheadOfStorage, WholeInv

LEMMA AcceptedWhole ==
  ASSUME TypeInv, ChainInv, NEW h, h.count \in 1..Len(trail), trail[h.count].id = h.last
  PROVE  tail # "garbage" => Verifies(trail, tail, h)
<1>1. h.count # 0 /\ h.count <= Len(trail)
  BY DEF TypeInv, TypeOK
<1> QED
  BY <1>1 DEF Verifies, MarkAccepts, ChainInv, ChainIntact

(***************************************************************************)
(* A step that leaves the rows and the end of the file, and sends nobody   *)
(* to where it would have to be looked at again.                           *)
(***************************************************************************)
LEMMA WholeInvQuiet ==
  ASSUME WholeInv, UNCHANGED <<trail, tail>>, exists', \A h \in hwmDisk' : h.count > 0,
         \A q \in Procs :
           UNCHANGED <<pc[q], seen[q]>> \/ pc'[q] \notin {"opening", "checked", "refused"}
  PROVE  WholeInv'
<1> SUFFICES ASSUME NEW q \in Procs
             PROVE  /\ pc'[q] = "opening" =>
                         /\ seen'[q].count \in 1..Len(trail)
                         /\ trail[seen'[q].count].id = seen'[q].last
                    /\ pc'[q] = "checked" => tail # "garbage"
                    /\ pc'[q] = "refused" => tail = "garbage"
  BY DEF WholeInv
<1> QED
  BY DEF WholeInv

(***************************************************************************)
(* Every step leaves a whole trail one that New opens: the sidecar an      *)
(* opening process has read counts rows that stay where they are, and only *)
(* the writer that holds the flock may damage the last line.               *)
(***************************************************************************)
LEMMA WholeInvStep ==
  RequiredOnly /\ TypeInv /\ ChainInv /\ DiskInv /\ WholeInv /\ [Next]_vars => WholeInv'
<1> SUFFICES ASSUME RequiredOnly, TypeInv, ChainInv, DiskInv, WholeInv, [Next]_vars
             PROVE  WholeInv'
  OBVIOUS
<1> USE DEF disk, durable, local, Goto
<1>t. /\ pc \in [Procs -> States] /\ seen \in [Procs -> Mark] /\ count \in [Procs -> Nat]
      /\ trail \in Seq(Row) /\ Len(trail) \in Nat /\ tail # "unterminated"
      /\ hwm \in hwmDisk /\ exists /\ \A h \in hwmDisk : h.count > 0
  BY DEF TypeInv, TypeOK, DiskInv, StorageBounds, WholeInv
<1>w. \A p, q \in Procs : pc[p] \in LockedStates /\ q # p => pc[q] \notin LockedStates
  BY <1>t, ProcsAssumption DEF ChainInv, OneWriter
<1>1. ASSUME NEW p \in Procs, OpenStat(p) PROVE WholeInv'
  <2>1. UNCHANGED <<exists, trail, tail, hwmDisk>> /\ pc' = [pc EXCEPT ![p] = "opening"]
        /\ seen' = [seen EXCEPT ![p] = hwm]
    BY <1>t, <1>1 DEF OpenStat
  <2>2. hwm.count \in 1..Len(trail) /\ trail[hwm.count].id = hwm.last
    BY <1>t, SidecarInTrail
  <2> QED
    BY <1>t, <2>1, <2>2 DEF WholeInv
<1>2. ASSUME NEW p \in Procs, OpenWalk(p) PROVE WholeInv'
  <2>1. tail # "garbage" => Verifies(trail, tail, seen[p])
    BY <1>2, AcceptedWhole DEF OpenWalk, WholeInv
  <2>2. pc' = [pc EXCEPT ![p] = pc'[p]]
        /\ (pc'[p] = "verified" \/ (pc'[p] = "refused" /\ tail = "garbage"))
        /\ UNCHANGED <<exists, trail, tail, hwmDisk, seen>>
    BY <1>t, <1>2, <2>1 DEF OpenWalk
  <2> QED
    BY <1>t, <2>2 DEF WholeInv
<1>3. ASSUME NEW p \in Procs, OpenFinish(p) PROVE WholeInv'
  BY <1>t, <1>3, WholeInvQuiet DEF OpenFinish
<1>4. ASSUME NEW p \in Procs, Lock(p) PROVE WholeInv'
  BY <1>t, <1>4, WholeInvQuiet DEF Lock
<1>5. ASSUME NEW p \in Procs, RejectClosedRun(p) PROVE WholeInv'
  BY <1>t, <1>5, WholeInvQuiet DEF RejectClosedRun, Return
<1>6. ASSUME NEW p \in Procs, ReadHead(p) PROVE WholeInv'
  <2>1. UNCHANGED <<exists, trail, tail, hwmDisk, seen>> /\ tail # "garbage"
        /\ pc' = [pc EXCEPT ![p] = "checked"]
    BY <1>6 DEF ReadHead, HeadReadable
  <2> QED
    BY <1>t, <2>1 DEF WholeInv
<1>7. ASSUME NEW p \in Procs, ReadHeadFails(p) PROVE WholeInv'
  BY <1>t, <1>7, WholeInvQuiet DEF ReadHeadFails, Return
<1>8. ASSUME NEW p \in Procs, AppendRow(p) PROVE WholeInv'
  <2> DEFINE r == NewRow(p)
  <2>1. r \in Row /\ pc[p] = "checked" /\ tail # "garbage"
    BY <1>8, NewRowType DEF AppendRow, TypeInv, WholeInv
  <2>2. /\ trail' = Append(trail, r) /\ tail' = "line" /\ UNCHANGED <<exists, hwmDisk, seen>>
        /\ pc' = [pc EXCEPT ![p] = "appended"]
    BY <1>t, <1>8 DEF AppendRow, Written
  <2> HIDE DEF r
  <2>3. Len(trail') = Len(trail) + 1 /\ \A i \in 1..Len(trail) : trail'[i] = trail[i]
    BY <2>1, <2>2, AppendKeeps
  <2>4. \A q \in Procs : pc'[q] # "refused"
    BY <1>t, <2>1, <2>2 DEF WholeInv
  <2>5. \A q \in Procs : pc'[q] = "opening" => pc[q] = "opening"
    BY <1>t, <2>2
  <2> QED
    BY <1>t, <2>2, <2>3, <2>4, <2>5 DEF WholeInv
<1>9. ASSUME NEW p \in Procs, AppendFails(p) PROVE WholeInv'
  <2>1. /\ UNCHANGED <<exists, trail, hwmDisk, seen>> /\ tail' \in {tail, "garbage"}
        /\ pc[p] = "checked" /\ pc' = [pc EXCEPT ![p] = "idle"]
    BY <1>t, <1>9 DEF AppendFails, Written, Return, RequiredOnly
  <2>2. \A q \in Procs : pc'[q] # "checked"
    BY <1>t, <1>w, <2>1 DEF LockedStates
  <2>3. tail # "garbage" /\ \A q \in Procs : pc[q] # "refused"
    BY <2>1 DEF WholeInv
  <2> QED
    BY <1>t, <2>1, <2>2, <2>3 DEF WholeInv
<1>10. ASSUME NEW p \in Procs, SyncTrail(p) PROVE WholeInv'
  BY <1>t, <1>10, WholeInvQuiet DEF SyncTrail
<1>11. ASSUME NEW p \in Procs, SyncTrailFails(p) PROVE WholeInv'
  BY <1>t, <1>11, WholeInvQuiet DEF SyncTrailFails, Return
<1>12. ASSUME NEW p \in Procs, WriteMark(p) PROVE WholeInv'
  <2> DEFINE new == [count |-> count[p] + 1, last |-> head[p]]
  <2>1. new.count > 0
    BY <1>t
  <2>2. UNCHANGED <<exists, trail, tail, seen>> /\ hwmDisk' = hwmDisk \cup {new}
        /\ pc' = [pc EXCEPT ![p] = "marked"]
    BY <1>12 DEF WriteMark
  <2> HIDE DEF new
  <2> QED
    BY <1>t, <2>1, <2>2, WholeInvQuiet
<1>13. ASSUME NEW p \in Procs, WriteMarkFails(p) PROVE WholeInv'
  BY <1>t, <1>13, WholeInvQuiet DEF WriteMarkFails, Return
<1>14. ASSUME NEW p \in Procs, SyncMarkFails(p) PROVE WholeInv'
  BY <1>t, <1>14, WholeInvQuiet DEF SyncMarkFails, Return
<1>15. ASSUME NEW p \in Procs, FinishRecord(p) PROVE WholeInv'
  BY <1>t, <1>15, WholeInvQuiet DEF FinishRecord, Return
<1>16. ASSUME NEW p \in Procs, Close(p) PROVE WholeInv'
  BY <1>t, <1>16, WholeInvQuiet DEF Close, Forget
<1>17. ASSUME NEW p \in Procs, StartRecord(p) PROVE WholeInv'
  BY <1>t, <1>17, WholeInvQuiet DEF StartRecord
<1>18. ASSUME NEW p \in Procs, RefuseLatched(p) PROVE WholeInv'
  BY <1>t, <1>18, WholeInvQuiet DEF RefuseLatched
<1>19. ASSUME NEW p \in Procs, Crash(p) PROVE WholeInv'
  BY <1>t, <1>19, WholeInvQuiet DEF Crash, Forget
<1>20. ASSUME PowerLoss PROVE WholeInv'
  <2>1. PICK k \in synced..Len(trail) : trail' = SubSeq(trail, 1, k)
    BY <1>20 DEF PowerLoss
  <2>2. hwm.count \in 1..synced /\ synced \in Nat
    BY <1>t, SidecarInTrail DEF TypeInv, TypeOK
  <2>3. Len(trail') = k /\ k > 0
    BY <1>t, <2>1, <2>2, PrefixRows
  <2>4. trail' # <<>>
    BY <2>3
  <2>6. exists' /\ \A h \in hwmDisk' : h \in hwmDisk
    <3>1. exists' \in {exists}
      BY <1>20, <2>4 DEF PowerLoss
    <3>2. hwm' \in hwmDisk /\ hwmDisk' = {hwm'}
      BY <1>20 DEF PowerLoss
    <3> QED
      BY <1>t, <3>1, <3>2
  <2>5. \A q \in Procs : pc'[q] = "closed"
    BY <1>20 DEF PowerLoss, Forget
  <2> QED
    BY <1>t, <2>5, <2>6 DEF WholeInv
<1>21. CASE UNCHANGED vars
  BY <1>t, <1>21, WholeInvQuiet DEF vars
<1> QED
  BY <1>1, <1>2, <1>3, <1>4, <1>5, <1>6, <1>7, <1>8, <1>9, <1>10, <1>11, <1>12, <1>13, <1>14, <1>15, <1>16, <1>17, <1>18, <1>19, <1>20, <1>21 DEF Next, Step, Environment

(***************************************************************************)
(* A trail that once had a sidecar, and takes required rows only, is never *)
(* one that New refuses unless its last line is damaged: a sidecar that is *)
(* behind the trail is accepted, a process that reads the sidecar before   *)
(* the lines others append meanwhile is not misled, and no failed write,   *)
(* death or power loss leaves a broken chain or a sidecar ahead of it.     *)
(***************************************************************************)
THEOREM WholeTrailsVerify == RequiredOnly /\ Established => (Spec => []TrailVerifies)
<1> SUFFICES ASSUME RequiredOnly, Established PROVE Spec => []TrailVerifies
  OBVIOUS
<1> DEFINE I == TypeInv /\ ChainInv /\ DiskInv /\ WholeInv
<1>1. Init => I
  BY TypeInvInit, ChainInvInit, DiskInvInit, WholeInvInit
<1>2. I /\ [Next]_vars => I'
  BY TypeInvStep, OneWriterStep, ChainStep, DiskInvStep, WholeInvStep DEF ChainInv
<1>3. I => TrailVerifies
  <2> SUFFICES ASSUME I PROVE TrailVerifies
    OBVIOUS
  <2>1. hwm.count \in 1..Len(trail) /\ trail[hwm.count].id = hwm.last
    BY SidecarInTrail DEF DiskInv, StorageBounds
  <2> QED
    BY <2>1, AcceptedWhole DEF TrailVerifies, WholeInv
<1> QED
  BY <1>1, <1>2, <1>3, PTL DEF Spec

-----------------------------------------------------------------------------
(***************************************************************************)
(* The run sequence, told of any sequence of rows: t holds v2 rows of run  *)
(* p, m is the highest of their numbers, and one of them closed the run.   *)
(***************************************************************************)
OfRun(t, p, i) == t[i].run = p /\ t[i].kind # "v1"

SeedIn(t, p, m) ==
  /\ \A i \in 1..Len(t) : OfRun(t, p, i) => t[i].seq <= m
  /\ m = 0 \/ \E i \in 1..Len(t) : OfRun(t, p, i) /\ t[i].seq = m

ClosedIn(t, p) == \E i \in 1..Len(t) : t[i].run = p /\ t[i].kind = "close"

(***************************************************************************)
(* Row i has the number after those of the rows of its run before it, and  *)
(* none of them closed the run.                                            *)
(***************************************************************************)
InPlace(t, i) ==
  t[i].kind # "v1" =>
    /\ t[i].seq >= 1
    /\ \A j \in 1..(i-1) :
         OfRun(t, t[i].run, j) => t[j].seq \in 1..(t[i].seq - 1) /\ t[j].kind # "close"
    /\ \A n \in 1..(t[i].seq - 1) :
         \E j \in 1..(i-1) : OfRun(t, t[i].run, j) /\ t[j].seq = n

InSequence(t) == \A i \in 1..Len(t) : InPlace(t, i)

LEMMA SeedMeans ==
  ASSUME NEW p, NEW m
  PROVE  (IsSeed(p, m) <=> SeedIn(trail, p, m)) /\ (RunHasClosed(p) <=> ClosedIn(trail, p))
BY DEF IsSeed, SeedIn, RunHasClosed, ClosedIn, OfRun

LEMMA RowNumbers ==
  ASSUME NEW t \in Seq(Row)
  PROVE  \A i \in 1..Len(t) : t[i] \in Row /\ t[i].seq \in Nat
<1> SUFFICES ASSUME NEW i \in 1..Len(t) PROVE t[i] \in Row /\ t[i].seq \in Nat
  OBVIOUS
<1>1. t[i] \in Row
  OBVIOUS
<1> QED
  BY <1>1 DEF Row

LEMMA SequenceMeans ==
  ASSUME TypeInv
  PROVE  RunRowsInSequence <=> InSequence(trail)
<1>t. \A i \in 1..Len(trail) : trail[i] \in Row /\ trail[i].seq \in Nat
  BY RowNumbers DEF TypeInv, TypeOK
<1> SUFFICES ASSUME NEW i \in 1..Len(trail), trail[i].kind # "v1"
             PROVE  LET before == {j \in 1..(i-1) : trail[j].run = trail[i].run
                                                      /\ trail[j].kind # "v1"}
                    IN  (/\ trail[i].seq >= 1
                         /\ {trail[j].seq : j \in before} = 1..(trail[i].seq - 1)
                         /\ \A j \in before : trail[j].seq < trail[i].seq
                                               /\ trail[j].kind # "close")
                        <=> InPlace(trail, i)
  BY DEF RunRowsInSequence, InSequence, InPlace
<1> DEFINE before == {j \in 1..(i-1) : trail[j].run = trail[i].run
                                         /\ trail[j].kind # "v1"}
<1>1. \A j \in 1..(i-1) : j \in 1..Len(trail) /\ trail[j].seq \in Nat
  BY <1>t
<1>2. ({trail[j].seq : j \in before} = 1..(trail[i].seq - 1)) <=>
        /\ \A j \in before : trail[j].seq \in 1..(trail[i].seq - 1)
        /\ \A n \in 1..(trail[i].seq - 1) : \E j \in before : trail[j].seq = n
  OBVIOUS
<1>3. \A j \in 1..(i-1) : j \in before <=> OfRun(trail, trail[i].run, j)
  BY DEF OfRun
<1>4. before \subseteq 1..(i-1)
  OBVIOUS
<1> HIDE DEF before
<1>5. (/\ trail[i].seq >= 1
       /\ {trail[j].seq : j \in before} = 1..(trail[i].seq - 1)
       /\ \A j \in before : trail[j].seq < trail[i].seq /\ trail[j].kind # "close")
      <=> InPlace(trail, i)
  <2> DEFINE s == trail[i].seq
  <2>1. s \in Nat /\ trail[i].kind # "v1"
    BY <1>t
  <2>2. InPlace(trail, i) <=>
          /\ s >= 1
          /\ \A j \in before : trail[j].seq \in 1..(s - 1) /\ trail[j].kind # "close"
          /\ \A n \in 1..(s - 1) : \E j \in before : trail[j].seq = n
    BY <1>3, <1>4 DEF InPlace
  <2>3. \A j \in before : trail[j].seq \in 1..(s - 1) => trail[j].seq < s
    BY <1>1, <1>4, <2>1
  <2> HIDE DEF s
  <2>4. (/\ s >= 1
         /\ {trail[j].seq : j \in before} = 1..(s - 1)
         /\ \A j \in before : trail[j].seq < s /\ trail[j].kind # "close")
        <=> InPlace(trail, i)
    BY <1>2, <2>2, <2>3 DEF s
  <2> QED
    BY <2>4 DEF s
<1> QED
  BY <1>5 DEF before

\* Whether a row is in place is a matter of the rows up to it.
LEMMA SamePlace ==
  ASSUME NEW t, NEW u, NEW i, InPlace(t, i), u[i] = t[i],
         \A j \in 1..(i-1) : u[j] = t[j]
  PROVE  InPlace(u, i)
<1>1. ASSUME NEW p, NEW j \in 1..(i-1) PROVE OfRun(u, p, j) <=> OfRun(t, p, j)
  BY DEF OfRun
<1> SUFFICES ASSUME u[i].kind # "v1" PROVE InPlace(u, i)
  BY DEF InPlace
<1>2. /\ t[i].seq >= 1
      /\ \A j \in 1..(i-1) : OfRun(t, t[i].run, j) =>
                               t[j].seq \in 1..(t[i].seq - 1) /\ t[j].kind # "close"
      /\ \A n \in 1..(t[i].seq - 1) :
           \E j \in 1..(i-1) : OfRun(t, t[i].run, j) /\ t[j].seq = n
  BY DEF InPlace
<1> QED
  BY <1>1, <1>2 DEF InPlace

(***************************************************************************)
(* A prefix of rows in sequence is in sequence.                            *)
(***************************************************************************)
LEMMA PrefixInSequence ==
  ASSUME NEW t \in Seq(Row), InSequence(t), NEW k \in 0..Len(t)
  PROVE  InSequence(SubSeq(t, 1, k))
<1> DEFINE u == SubSeq(t, 1, k)
<1>1. Len(u) = k /\ \A i \in 1..k : u[i] = t[i]
  BY PrefixRows
<1> HIDE DEF u
<1>2. ASSUME NEW i \in 1..k PROVE InPlace(u, i)
  <2>1. InPlace(t, i) /\ u[i] = t[i] /\ \A j \in 1..(i-1) : u[j] = t[j]
    BY <1>1 DEF InSequence
  <2> QED
    BY <2>1, SamePlace
<1> QED
  BY <1>1, <1>2 DEF InSequence, u

(***************************************************************************)
(* The row a writer with the right counters appends is in sequence, and    *)
(* moves the counters of its own run only.                                 *)
(***************************************************************************)
LEMMA AppendInSequence ==
  ASSUME NEW t \in Seq(Row), InSequence(t), NEW r \in Row, NEW m \in Nat,
         SeedIn(t, r.run, m),
         r.kind # "v1" => r.seq = m + 1 /\ ~ClosedIn(t, r.run)
  PROVE  InSequence(Append(t, r))
<1> DEFINE u == Append(t, r)
           n == Len(t) + 1
<1>t. n \in Nat /\ \A i \in 1..Len(t) : t[i].seq \in Nat
  BY RowNumbers
<1>1. Len(u) = n /\ u[n] = r /\ \A i \in 1..Len(t) : u[i] = t[i]
  OBVIOUS
<1> HIDE DEF u
<1>2. ASSUME NEW i \in 1..Len(t) PROVE InPlace(u, i)
  <2>1. InPlace(t, i) /\ u[i] = t[i] /\ \A j \in 1..(i-1) : u[j] = t[j]
    BY <1>1 DEF InSequence
  <2> QED
    BY <2>1, SamePlace
<1>3. InPlace(u, n)
  <2> SUFFICES ASSUME r.kind # "v1" PROVE InPlace(u, n)
    BY <1>1 DEF InPlace
  <2>1. r.seq = m + 1 /\ r.seq - 1 = m
    OBVIOUS
  <2>2. ASSUME NEW j \in 1..Len(t), OfRun(t, r.run, j)
        PROVE  t[j].seq \in 1..m /\ t[j].kind # "close"
    <3>1. t[j].seq >= 1
      BY <2>2 DEF InSequence, InPlace, OfRun
    <3>2. t[j].seq <= m
      BY <2>2 DEF SeedIn
    <3>3. t[j].kind # "close"
      BY <2>2 DEF ClosedIn, OfRun
    <3> QED
      BY <1>t, <3>1, <3>2, <3>3
  <2>3. ASSUME NEW k \in 1..m
        PROVE  \E j \in 1..Len(t) : OfRun(t, r.run, j) /\ t[j].seq = k
    <3>1. PICK i \in 1..Len(t) : OfRun(t, r.run, i) /\ t[i].seq = m
      BY <2>3 DEF SeedIn
    <3>2. CASE k = m
      BY <3>1, <3>2
    <3>3. CASE k # m
      <4>1. k \in 1..(t[i].seq - 1)
        BY <3>1, <3>3
      <4>2. InPlace(t, i) /\ t[i].kind # "v1" /\ t[i].run = r.run
        BY <3>1 DEF InSequence, OfRun
      <4> QED
        BY <4>1, <4>2 DEF InPlace
    <3> QED
      BY <3>2, <3>3
  <2>4. \A j \in 1..Len(t) : OfRun(u, r.run, j) <=> OfRun(t, r.run, j)
    BY <1>1 DEF OfRun
  <2>5. n - 1 = Len(t) /\ r.seq >= 1
    BY <1>t, <2>1
  <2> QED
    BY <1>1, <2>1, <2>2, <2>3, <2>4, <2>5 DEF InPlace
<1>4. \A i \in 1..n : i \in 1..Len(t) \/ i = n
  BY <1>t
<1> QED
  BY <1>1, <1>2, <1>3, <1>4 DEF InSequence, u

LEMMA AppendSeed ==
  ASSUME NEW t \in Seq(Row), NEW r \in Row, NEW p, NEW m \in Nat, SeedIn(t, p, m)
  PROVE  /\ (r.run # p \/ r.kind = "v1") => SeedIn(Append(t, r), p, m)
         /\ (r.run = p /\ r.kind # "v1" /\ r.seq = m + 1) => SeedIn(Append(t, r), p, m + 1)
<1> DEFINE u == Append(t, r)
           n == Len(t) + 1
<1>t. n \in Nat /\ \A i \in 1..Len(t) : t[i].seq \in Nat
  BY RowNumbers
<1>1. Len(u) = n /\ u[n] = r /\ \A i \in 1..Len(t) : u[i] = t[i]
  OBVIOUS
<1>2. \A i \in 1..n : i \in 1..Len(t) \/ i = n
  BY <1>t
<1>3. \A i \in 1..Len(t) : i \in 1..n
  BY <1>t
<1>4. n \in 1..n
  BY <1>t
<1> HIDE DEF u, n
<1>5. ASSUME r.run # p \/ r.kind = "v1" PROVE SeedIn(u, p, m)
  BY <1>1, <1>2, <1>3, <1>5 DEF SeedIn, OfRun
<1>6. ASSUME r.run = p, r.kind # "v1", r.seq = m + 1 PROVE SeedIn(u, p, m + 1)
  <2>1. \A i \in 1..Len(t) : OfRun(u, p, i) => u[i].seq <= m + 1
    BY <1>t, <1>1 DEF SeedIn, OfRun
  <2>2. OfRun(u, p, n) /\ u[n].seq = m + 1
    BY <1>1, <1>6 DEF OfRun
  <2>3. \A i \in 1..n : OfRun(u, p, i) => u[i].seq <= m + 1
    BY <1>2, <2>1, <2>2
  <2> QED
    BY <1>1, <1>4, <2>2, <2>3 DEF SeedIn
<1> QED
  BY <1>5, <1>6 DEF u

LEMMA AppendClosed ==
  ASSUME NEW t \in Seq(Row), NEW r \in Row, NEW p
  PROVE  ClosedIn(Append(t, r), p) <=> ClosedIn(t, p) \/ (r.run = p /\ r.kind = "close")
<1> DEFINE u == Append(t, r)
           n == Len(t) + 1
<1>1. Len(u) = n /\ u[n] = r /\ \A i \in 1..Len(t) : u[i] = t[i]
  OBVIOUS
<1>2. \A i \in 1..n : i \in 1..Len(t) \/ i = n
  OBVIOUS
<1>3. n \in 1..n /\ \A i \in 1..Len(t) : i \in 1..n
  OBVIOUS
<1> HIDE DEF u, n
<1>4. ClosedIn(u, p) <=> ClosedIn(t, p) \/ (r.run = p /\ r.kind = "close")
  BY <1>1, <1>2, <1>3 DEF ClosedIn
<1> QED
  BY <1>4 DEF u
(***************************************************************************)
(* The counters of a run are those of its rows in the file, except after a *)
(* failure, which latches the writer until it opens the trail again.  The  *)
(* parts of the writer of p that matter are its place, its latch, the kind *)
(* of its row, and the run's last number and end.                          *)
(***************************************************************************)
Counters(t, p, place, latch, k, n, ended) ==
  /\ place \in LockedStates \cup {"waiting"} => ~latch
  /\ place \in {"idle", "waiting", "locked", "checked"} /\ ~latch =>
       SeedIn(t, p, n) /\ (ended <=> ClosedIn(t, p))
  /\ place = "checked" => k = "v1" \/ ~ended
  /\ place \in {"appended", "synced", "marked"} =>
       /\ SeedIn(t, p, IF k = "v1" THEN n ELSE n + 1)
       /\ ClosedIn(t, p) <=> ended \/ k = "close"

CountersOf(p) == Counters(trail, p, pc[p], latched[p], kind[p], runSeq[p], runClosed[p])

SequenceInv == InSequence(trail) /\ \A p \in Procs : CountersOf(p)

LEMMA SequenceInvInit == Init => SequenceInv
<1> SUFFICES ASSUME Init PROVE SequenceInv
  OBVIOUS
<1>1. \A p \in Procs : pc[p] = "closed"
  BY DEF Init
<1>2. \A p \in Procs : CountersOf(p)
  BY <1>1 DEF CountersOf, Counters, LockedStates
<1>3. \A i \in 1..Len(trail) : trail[i].kind = "v1"
  BY DEF Init, FounderRow
<1> QED
  BY <1>2, <1>3 DEF SequenceInv, InSequence, InPlace

(***************************************************************************)
(* What a process that is nowhere in a record, or latched, has counted     *)
(* does not matter.                                                        *)
(***************************************************************************)
LEMMA NothingCounted ==
  ASSUME NEW t, NEW p, NEW place, NEW latch, NEW k, NEW n, NEW ended,
         place \in OpenStates \/ (place = "idle" /\ latch)
  PROVE  Counters(t, p, place, latch, k, n, ended)
BY DEF Counters, OpenStates, LockedStates

LEMMA SequenceInvQuiet ==
  ASSUME SequenceInv, UNCHANGED trail,
         \A q \in Procs :
           \/ UNCHANGED <<pc[q], latched[q], kind[q], runSeq[q], runClosed[q]>>
           \/ Counters(trail, q, pc'[q], latched'[q], kind'[q], runSeq'[q], runClosed'[q])
  PROVE  SequenceInv'
BY DEF SequenceInv, CountersOf

(***************************************************************************)
(* No step of any process takes a row out of its run's sequence.           *)
(***************************************************************************)
LEMMA SequenceInvStep ==
  RequiredOnly /\ TypeInv /\ ChainInv /\ DiskInv /\ SequenceInv /\ [Next]_vars
    => SequenceInv'
<1> SUFFICES ASSUME RequiredOnly, TypeInv, ChainInv, DiskInv, SequenceInv, [Next]_vars
             PROVE  SequenceInv'
  OBVIOUS
<1> USE DEF disk, durable, local, Goto
<1>t. /\ pc \in [Procs -> States] /\ kind \in [Procs -> Kinds]
      /\ runSeq \in [Procs -> Nat] /\ runClosed \in [Procs -> BOOLEAN]
      /\ latched \in [Procs -> BOOLEAN] /\ req \in [Procs -> BOOLEAN]
      /\ trail \in Seq(Row) /\ tail # "unterminated"
  BY DEF TypeInv, TypeOK, DiskInv, StorageBounds
<1>c. ASSUME NEW p \in Procs
      PROVE  Counters(trail, p, pc[p], latched[p], kind[p], runSeq[p], runClosed[p])
  BY DEF SequenceInv, CountersOf
<1>r. \A p \in Procs : pc[p] \in LockedStates \cup {"waiting"} => req[p]
  BY DEF DiskInv, WriterKnows
<1>f. ASSUME NEW p \in Procs, pc[p] \in LockedStates, Latch(p), Return(p),
             UNCHANGED <<trail, kind, runSeq, runClosed>>
      PROVE  SequenceInv'
  <2>1. pc' = [pc EXCEPT ![p] = "idle"] /\ latched' = [latched EXCEPT ![p] = TRUE]
    BY <1>r, <1>f DEF Latch, Return
  <2>2. Counters(trail, p, pc'[p], latched'[p], kind'[p], runSeq'[p], runClosed'[p])
    BY <1>t, <2>1, NothingCounted
  <2> QED
    BY <1>t, <1>f, <2>1, <2>2, SequenceInvQuiet
<1>g. ASSUME NEW P \in SUBSET Procs, Forget(P), UNCHANGED trail PROVE SequenceInv'
  <2>1. \A q \in P : pc'[q] \in OpenStates
    BY <1>g DEF Forget, OpenStates
  <2>2. \A q \in P : Counters(trail, q, pc'[q], latched'[q], kind'[q], runSeq'[q], runClosed'[q])
    BY <2>1, NothingCounted
  <2>3. \A q \in Procs \ P : UNCHANGED <<pc[q], latched[q], kind[q], runSeq[q], runClosed[q]>>
    BY <1>g DEF Forget
  <2> QED
    BY <1>g, <2>2, <2>3, SequenceInvQuiet
<1>1. ASSUME NEW p \in Procs, OpenStat(p) PROVE SequenceInv'
  <2>1. pc' = [pc EXCEPT ![p] = pc'[p]] /\ pc'[p] \in OpenStates
        /\ UNCHANGED <<trail, latched, kind, runSeq, runClosed>>
    BY <1>t, <1>1 DEF OpenStat, OpenStates
  <2>2. Counters(trail, p, pc'[p], latched'[p], kind'[p], runSeq'[p], runClosed'[p])
    BY <2>1, NothingCounted
  <2> QED
    BY <1>t, <2>1, <2>2, SequenceInvQuiet
<1>2. ASSUME NEW p \in Procs, OpenWalk(p) PROVE SequenceInv'
  <2>1. pc' = [pc EXCEPT ![p] = pc'[p]] /\ pc'[p] \in OpenStates
        /\ UNCHANGED <<trail, latched, kind, runSeq, runClosed>>
    BY <1>t, <1>2 DEF OpenWalk, OpenStates
  <2>2. Counters(trail, p, pc'[p], latched'[p], kind'[p], runSeq'[p], runClosed'[p])
    BY <2>1, NothingCounted
  <2> QED
    BY <1>t, <2>1, <2>2, SequenceInvQuiet
<1>3. ASSUME NEW p \in Procs, OpenFinish(p) PROVE SequenceInv'
  <2>1. PICK m \in 0..Len(trail) : IsSeed(p, m) /\ runSeq' = [runSeq EXCEPT ![p] = m]
    BY <1>3 DEF OpenFinish
  <2>2. pc' = [pc EXCEPT ![p] = "idle"] /\ UNCHANGED <<trail, latched, kind>>
        /\ runClosed' = [runClosed EXCEPT ![p] = RunHasClosed(p)]
    BY <1>3 DEF OpenFinish
  <2>3. SeedIn(trail, p, m) /\ (RunHasClosed(p) <=> ClosedIn(trail, p))
    BY <2>1, SeedMeans
  <2>4. pc'[p] = "idle" /\ runSeq'[p] = m /\ (runClosed'[p] <=> ClosedIn(trail, p))
    BY <1>t, <2>1, <2>2, <2>3
  <2>5. Counters(trail, p, pc'[p], latched'[p], kind'[p], runSeq'[p], runClosed'[p])
    BY <2>3, <2>4 DEF Counters, LockedStates
  <2> QED
    BY <1>t, <2>1, <2>2, <2>5, SequenceInvQuiet
<1>4. ASSUME NEW p \in Procs, Lock(p) PROVE SequenceInv'
  <2>1. pc[p] = "waiting" /\ pc' = [pc EXCEPT ![p] = "locked"]
        /\ UNCHANGED <<trail, latched, kind, runSeq, runClosed>>
    BY <1>4 DEF Lock
  <2>2. Counters(trail, p, "locked", latched[p], kind[p], runSeq[p], runClosed[p])
    BY <1>c, <2>1 DEF Counters, LockedStates
  <2> QED
    BY <1>t, <2>1, <2>2, SequenceInvQuiet
<1>5. ASSUME NEW p \in Procs, RejectClosedRun(p) PROVE SequenceInv'
  <2>1. pc[p] = "locked" /\ pc' = [pc EXCEPT ![p] = "idle"]
        /\ UNCHANGED <<trail, latched, kind, runSeq, runClosed>>
    BY <1>5 DEF RejectClosedRun, Return
  <2>2. Counters(trail, p, "idle", latched[p], kind[p], runSeq[p], runClosed[p])
    BY <1>c, <2>1 DEF Counters, LockedStates
  <2> QED
    BY <1>t, <2>1, <2>2, SequenceInvQuiet
<1>6. ASSUME NEW p \in Procs, ReadHead(p) PROVE SequenceInv'
  <2>1. pc[p] = "locked" /\ pc' = [pc EXCEPT ![p] = "checked"]
        /\ (kind[p] = "v1" \/ ~runClosed[p])
        /\ UNCHANGED <<trail, latched, kind, runSeq, runClosed>>
    BY <1>6 DEF ReadHead
  <2>2. Counters(trail, p, "checked", latched[p], kind[p], runSeq[p], runClosed[p])
    BY <1>c, <2>1 DEF Counters, LockedStates
  <2> QED
    BY <1>t, <2>1, <2>2, SequenceInvQuiet
<1>7. ASSUME NEW p \in Procs, ReadHeadFails(p) PROVE SequenceInv'
  BY <1>7, <1>f DEF ReadHeadFails, LockedStates
<1>8. ASSUME NEW p \in Procs, AppendRow(p) PROVE SequenceInv'
  <2> DEFINE r == NewRow(p)
  <2>1. r \in Row /\ r.run = p /\ r.kind = kind[p]
        /\ (kind[p] # "v1" => r.seq = runSeq[p] + 1)
    BY NewRowType DEF TypeInv, NewRow
  <2>2. pc[p] = "checked" /\ pc' = [pc EXCEPT ![p] = "appended"]
        /\ trail' = Append(trail, r) /\ UNCHANGED <<latched, kind, runSeq, runClosed>>
    BY <1>t, <1>8 DEF AppendRow, Written
  <2> HIDE DEF r
  <2>3. /\ ~latched[p] /\ SeedIn(trail, p, runSeq[p])
        /\ (runClosed[p] <=> ClosedIn(trail, p)) /\ (kind[p] = "v1" \/ ~runClosed[p])
    BY <1>c, <2>2 DEF Counters, LockedStates
  <2>4. InSequence(trail')
    BY <1>t, <2>1, <2>2, <2>3, AppendInSequence DEF SequenceInv
  <2>5. SeedIn(trail', p, IF kind[p] = "v1" THEN runSeq[p] ELSE runSeq[p] + 1)
    BY <1>t, <2>1, <2>2, <2>3, AppendSeed
  <2>6. ClosedIn(trail', p) <=> runClosed[p] \/ kind[p] = "close"
    BY <1>t, <2>1, <2>2, <2>3, AppendClosed
  <2>7. Counters(trail', p, "appended", latched[p], kind[p], runSeq[p], runClosed[p])
    BY <2>3, <2>5, <2>6 DEF Counters
  <2>8. ASSUME NEW q \in Procs, q # p
        PROVE  Counters(trail', q, pc[q], latched[q], kind[q], runSeq[q], runClosed[q])
    <3>1. \A n \in Nat : SeedIn(trail, q, n) => SeedIn(trail', q, n)
      BY <1>t, <2>1, <2>2, <2>8, AppendSeed
    <3>2. ClosedIn(trail', q) <=> ClosedIn(trail, q)
      BY <1>t, <2>1, <2>2, <2>8, AppendClosed
    <3>3. runSeq[q] \in Nat /\ runSeq[q] + 1 \in Nat
      BY <1>t
    <3>4. Counters(trail, q, pc[q], latched[q], kind[q], runSeq[q], runClosed[q])
      BY <1>c
    <3> QED
      BY <3>1, <3>2, <3>3, <3>4 DEF Counters
  <2> QED
    BY <1>t, <2>2, <2>4, <2>7, <2>8 DEF SequenceInv, CountersOf
<1>9. ASSUME NEW p \in Procs, AppendFails(p) PROVE SequenceInv'
  <2>1. UNCHANGED trail
    BY <1>t, <1>9 DEF AppendFails, Written, RequiredOnly
  <2> QED
    BY <1>9, <2>1, <1>f DEF AppendFails, LockedStates
<1>10. ASSUME NEW p \in Procs, SyncTrail(p) PROVE SequenceInv'
  <2>1. pc[p] = "appended" /\ pc' = [pc EXCEPT ![p] = "synced"]
        /\ UNCHANGED <<trail, latched, kind, runSeq, runClosed>>
    BY <1>10 DEF SyncTrail
  <2>2. Counters(trail, p, "synced", latched[p], kind[p], runSeq[p], runClosed[p])
    BY <1>c, <2>1 DEF Counters, LockedStates
  <2> QED
    BY <1>t, <2>1, <2>2, SequenceInvQuiet
<1>11. ASSUME NEW p \in Procs, SyncTrailFails(p) PROVE SequenceInv'
  BY <1>11, <1>f DEF SyncTrailFails, LockedStates
<1>12. ASSUME NEW p \in Procs, WriteMark(p) PROVE SequenceInv'
  <2>1. pc[p] \in {"appended", "synced"} /\ pc' = [pc EXCEPT ![p] = "marked"]
        /\ UNCHANGED <<trail, latched, kind, runSeq, runClosed>>
    BY <1>12 DEF WriteMark, ReadyToMark
  <2>2. Counters(trail, p, "marked", latched[p], kind[p], runSeq[p], runClosed[p])
    BY <1>c, <2>1 DEF Counters, LockedStates
  <2> QED
    BY <1>t, <2>1, <2>2, SequenceInvQuiet
<1>13. ASSUME NEW p \in Procs, WriteMarkFails(p) PROVE SequenceInv'
  BY <1>13, <1>f DEF WriteMarkFails, ReadyToMark, LockedStates
<1>14. ASSUME NEW p \in Procs, SyncMarkFails(p) PROVE SequenceInv'
  BY <1>14, <1>f DEF SyncMarkFails, LockedStates
<1>15. ASSUME NEW p \in Procs, FinishRecord(p) PROVE SequenceInv'
  <2> DEFINE n == IF kind[p] = "v1" THEN runSeq[p] ELSE runSeq[p] + 1
  <2>1. pc[p] = "marked" /\ pc' = [pc EXCEPT ![p] = "idle"]
        /\ UNCHANGED <<trail, latched, kind>>
    BY <1>15 DEF FinishRecord, Return
  <2>2. runSeq' = [runSeq EXCEPT ![p] = n]
        /\ runClosed' = IF kind[p] = "close" THEN [runClosed EXCEPT ![p] = TRUE] ELSE runClosed
    BY <1>15 DEF FinishRecord
  <2>3. SeedIn(trail, p, n) /\ (ClosedIn(trail, p) <=> runClosed[p] \/ kind[p] = "close")
    BY <1>c, <2>1 DEF Counters
  <2> HIDE DEF n
  <2>4. runClosed'[p] <=> ClosedIn(trail, p)
    BY <1>t, <2>2, <2>3
  <2>5. Counters(trail, p, "idle", latched[p], kind[p], n, runClosed'[p])
    BY <2>3, <2>4 DEF Counters, LockedStates
  <2>6. pc'[p] = "idle" /\ runSeq'[p] = n
    BY <1>t, <2>1, <2>2
  <2>7. \A q \in Procs \ {p} : UNCHANGED <<pc[q], latched[q], kind[q], runSeq[q], runClosed[q]>>
    BY <1>t, <2>1, <2>2
  <2> QED
    BY <2>1, <2>5, <2>6, <2>7, SequenceInvQuiet
<1>16. ASSUME NEW p \in Procs, Close(p) PROVE SequenceInv'
  BY <1>16, <1>g DEF Close
<1>17. ASSUME NEW p \in Procs, StartRecord(p) PROVE SequenceInv'
  <2>1. PICK r \in Modes, k \in Kinds : ~(r /\ latched[p]) /\ kind' = [kind EXCEPT ![p] = k]
    BY <1>17 DEF StartRecord
  <2>2. pc[p] = "idle" /\ pc' = [pc EXCEPT ![p] = "waiting"] /\ ~latched[p]
        /\ UNCHANGED <<trail, latched, runSeq, runClosed>>
    BY <1>17, <2>1 DEF StartRecord, RequiredOnly
  <2>3. Counters(trail, p, "waiting", latched[p], k, runSeq[p], runClosed[p])
    BY <1>c, <2>2 DEF Counters, LockedStates
  <2> QED
    BY <1>t, <2>1, <2>2, <2>3, SequenceInvQuiet
<1>18. ASSUME NEW p \in Procs, RefuseLatched(p) PROVE SequenceInv'
  BY <1>18, SequenceInvQuiet DEF RefuseLatched
<1>19. ASSUME NEW p \in Procs, Crash(p) PROVE SequenceInv'
  BY <1>19, <1>g DEF Crash
<1>20. ASSUME PowerLoss PROVE SequenceInv'
  <2>1. PICK k \in synced..Len(trail) : trail' = SubSeq(trail, 1, k)
    BY <1>20 DEF PowerLoss
  <2>2. k \in 0..Len(trail)
    BY <2>1 DEF TypeInv, TypeOK
  <2>3. InSequence(trail')
    BY <1>t, <2>1, <2>2, PrefixInSequence DEF SequenceInv
  <2>4. \A q \in Procs : pc'[q] \in OpenStates
    BY <1>20 DEF PowerLoss, Forget, OpenStates
  <2> QED
    BY <2>3, <2>4, NothingCounted DEF SequenceInv, CountersOf
<1>21. CASE UNCHANGED vars
  BY <1>21, SequenceInvQuiet DEF vars
<1> QED
  BY <1>1, <1>2, <1>3, <1>4, <1>5, <1>6, <1>7, <1>8, <1>9, <1>10, <1>11, <1>12, <1>13, <1>14, <1>15, <1>16, <1>17, <1>18, <1>19, <1>20, <1>21 DEF Next, Step, Environment

(***************************************************************************)
(* The v2 rows of a run are numbered 1, 2, 3, ... in the order they lie in *)
(* the file, and nothing follows its close row: a failed required write    *)
(* latches the writer before its counters and the file can part, and New   *)
(* takes them from the rows that are there.                                *)
(***************************************************************************)
THEOREM RunsStayInSequence == RequiredOnly => (Spec => []RunRowsInSequence)
<1> SUFFICES ASSUME RequiredOnly PROVE Spec => []RunRowsInSequence
  OBVIOUS
<1> DEFINE I == TypeInv /\ ChainInv /\ DiskInv /\ SequenceInv
<1>1. Init => I
  BY TypeInvInit, ChainInvInit, DiskInvInit, SequenceInvInit
<1>2. I /\ [Next]_vars => I'
  BY TypeInvStep, OneWriterStep, ChainStep, DiskInvStep, SequenceInvStep DEF ChainInv
<1>3. I => RunRowsInSequence
  BY SequenceMeans DEF SequenceInv
<1> QED
  BY <1>1, <1>2, <1>3, PTL DEF Spec

=============================================================================
