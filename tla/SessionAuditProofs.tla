------------------------- MODULE SessionAuditProofs -------------------------
(***************************************************************************)
(* For any requests, kinds of session and bounds: a result passed on is in *)
(* the trail, no decision is lost when a run drains in time, a session in  *)
(* which nothing is under way retains nothing, and the compacted queue     *)
(* writes what a log with whole histories would.                           *)
(*                                                                         *)
(* The argument: resolved ranges cover exactly what was resolved, so that  *)
(* the frontier passes no request that may still queue rows; a paired      *)
(* request, and no other, owns its action until its rows are written; and  *)
(* the card states that are kept suffice to stamp every request that may   *)
(* still have rows.                                                        *)
(***************************************************************************)
EXTENDS SessionAudit, SequenceTheorems, FiniteSetTheorems, WellFoundedInduction, TLAPS

Whats == {"granted", "allow", "deny", "dispatch", "response", "not_forwarded"}

Records(C) == [seq : Nat, what : Whats, card : C, action : BOOLEAN]

Tools == {"claim", "release", "other"}

Places == {"idle", "reserved", "named", "granted", "allowed", "unsent", "refused", "denied",
           "unobserved", "sent", "committing", "answered", "observed", "resolved", "done"}

RequestsTyped ==
  /\ pc \in [Reqs -> Places]
  /\ seqOf \in [Reqs -> Nat]
  /\ call \in [Reqs -> [tool : Tools, card : Nat]]
  /\ reply \in [Reqs -> {"none", "result", "unverified"}]

\* No two requests share a sequence.
SequencesOwned ==
  /\ \A r \in Reqs : pc[r] # "idle" => seqOf[r] < auditSeq
  /\ \A r, q \in Reqs : r # q /\ pc[r] # "idle" /\ pc[q] # "idle" => seqOf[r] # seqOf[q]

Sinks == {"open", "failed"}

Ranges == [start : Nat, end : Nat]

Separate(ranges) ==
  \A r, q \in ranges : r # q => r.end + 1 < q.start \/ q.end + 1 < r.start

\* Ranges of which none is empty, touches another, begins before m or reaches n.
Between(ranges, m, n) ==
  /\ ranges \subseteq Ranges /\ Separate(ranges)
  /\ \A r \in ranges : m <= r.start /\ r.start <= r.end /\ r.end < n

\* Rows queued under the sequences from m to n - 1.
TodoTyped(todo, m, n) ==
  /\ todo = [x \in DOMAIN todo |-> todo[x]]
  /\ DOMAIN todo \subseteq m..(n - 1)
  /\ \A x \in DOMAIN todo :
       /\ todo[x] \in Seq(Records(Nat))
       /\ \A i \in DOMAIN todo[x] : todo[x][i].seq = x

\* The queue: what is below the frontier is gone, and every sequence from the
\* frontier on is pending or resolved.
QueueTyped ==
  /\ auditSeq \in Nat /\ auditNext \in 0..auditSeq /\ sink \in Sinks
  /\ TodoTyped(auditTodo, auditNext, auditSeq)
  /\ auditPending \subseteq auditNext..(auditSeq - 1)

FrontierStops ==
  /\ Between(auditResolved, auditNext + 1, auditSeq)
  /\ \A x \in auditNext..(auditSeq - 1) : x \in auditPending \/ Resolved(auditResolved, x)

TrailTyped == \E S : written \in Seq(S)

\* The trail has a row of the sequence that says what.
Recorded(x, what) ==
  \E j \in DOMAIN written : written[j].seq = x /\ written[j].what = what

\* A row that says what is queued under x.
Has(todo, x, what) ==
  x \in DOMAIN todo /\ \E k \in DOMAIN todo[x] : todo[x][k].what = what

\* A row of the request is in the trail or on its way.
Kept(r, what) ==
  sink = "open" => Recorded(seqOf[r], what) \/ Has(auditTodo, seqOf[r], what)

\* A paired request owns its action until its rows are written.
Paired(r) ==
  \/ ~Settled(seqOf[r]) /\ seqOf[r] \in actionIDs
  \/ Settled(seqOf[r]) /\ seqOf[r] \notin DOMAIN auditTodo

Ordered(r) ==
  \E i \in RowsIn(r, "allow"), j \in RowsIn(r, "dispatch"), k \in RowsIn(r, "response") :
    j < k /\ i < k

ResponseHeld(r) ==
  /\ seqOf[r] \in actionIDs /\ ~Settled(seqOf[r]) /\ seqOf[r] \in DOMAIN auditTodo
  /\ \E k \in DOMAIN auditTodo[seqOf[r]] :
       /\ auditTodo[seqOf[r]][k].what = "response"
       /\ sink = "open" =>
            \/ Recorded(seqOf[r], "allow")
            \/ \E i \in 1..(k - 1) : auditTodo[seqOf[r]][i].what = "allow"

RequestRows(r) ==
  /\ pc[r] = "idle" => reply[r] = "none"
  /\ pc[r] \in {"reserved", "named"} => ~Settled(seqOf[r]) /\ seqOf[r] \notin DOMAIN auditTodo
  /\ pc[r] = "granted" => ~Settled(seqOf[r])
  /\ pc[r] \in {"named", "granted"} /\ Pairing => seqOf[r] \in actionIDs
  /\ pc[r] \in {"denied", "unobserved"} => Settled(seqOf[r])
  /\ pc[r] \in {"granted", "allowed", "sent", "committing", "answered", "observed", "resolved"} =>
       Kept(r, "allow")
  /\ Pairing /\ pc[r] \in {"allowed", "sent", "committing", "answered"} => Paired(r)
  /\ Pairing /\ pc[r] \in {"sent", "committing", "answered", "observed"} /\ sink = "open" =>
       Recorded(seqOf[r], "dispatch")
  /\ Pairing /\ pc[r] = "observed" =>
       ResponseHeld(r) \/ (sink = "open" => Ordered(r))
  /\ Pairing /\ pc[r] = "resolved" /\ sink = "open" => Ordered(r)
  /\ Pairing /\ reply[r] = "result" => Ordered(r)

\* Only a stdio run stops.  One that has drained in time has no line in hand
\* and none to come, and nothing is queued.
RunOver ==
  /\ main # "running" => Transport = "stdio"
  /\ main = "drained" =>
       /\ DOMAIN auditTodo = {} /\ auditNext = auditSeq /\ ~accepting
       /\ \A r \in Reqs : pc[r] \notin Input

QueueInv == QueueTyped /\ FrontierStops /\ TrailTyped

\* A session in which no call without a name is held for approval first.
Session ==
  /\ mode \in Modes /\ ~mode.nameless
  /\ RequestsTyped /\ SequencesOwned /\ QueueInv

SessionInv ==
  /\ mode \in Modes
  /\ ~mode.nameless => Session /\ RunOver /\ \A r \in Reqs : RequestRows(r)

-----------------------------------------------------------------------------
LEMMA SmallestOf ==
  ASSUME NEW W, W \subseteq Nat, W # {}
  PROVE  \E x \in W : \A y \in W : x <= y
<1>1. IsWellFoundedOn(OpToRel(<, Nat), Nat)
  BY NatLessThanWellFounded
<1>2. PICK x \in W : \A y \in W : <<y, x>> \notin OpToRel(<, Nat)
  BY <1>1, WFMin
<1>3. \A y \in W : ~(y < x)
  BY <1>2 DEF OpToRel
<1> QED BY <1>3

(***************************************************************************)
(* Marking a sequence resolves it and no other, and keeps the ranges       *)
(* apart.                                                                  *)
(***************************************************************************)
LEMMA MarkAdds ==
  ASSUME NEW m \in Nat, NEW n \in Nat, NEW rs, Between(rs, m, n), NEW s \in m..(n - 1)
  PROVE  /\ Between(Mark(rs, s), m, n)
         /\ \A x \in Int : Resolved(Mark(rs, s), x) <=> x = s \/ Resolved(rs, x)
<1> DEFINE touching == {r \in rs : s <= r.end + 1 /\ r.start <= s + 1}
           starts == {s} \cup {r.start : r \in touching}
           ends == {s} \cup {r.end : r \in touching}
<1>0. /\ s \in Nat /\ m <= s /\ s < n
      /\ \A r \in rs : r.start \in Nat /\ r.end \in Nat /\ m <= r.start /\ r.start <= r.end /\ r.end < n
      /\ \A r, q \in rs : r # q => r.end + 1 < q.start \/ q.end + 1 < r.start
      /\ \A r \in rs : r = [start |-> r.start, end |-> r.end]
  BY DEF Between, Ranges, Separate
<1>1. PICK lo \in starts : lo = Min(starts) /\ \A y \in starts : lo <= y
  <2>1. starts \subseteq Nat /\ starts # {}
    BY <1>0
  <2> HIDE DEF starts
  <2>2. \E x \in starts : \A y \in starts : x <= y
    BY <2>1, SmallestOf
  <2> QED BY <2>2 DEF Min
<1>2. PICK hi \in ends : hi = Max(ends) /\ \A y \in ends : hi >= y
  <2>1. \E x \in ends : \A y \in ends : x >= y
    <3>1. CASE \A r \in touching : r.end <= s
      BY <1>0, <3>1
    <3>2. CASE \E r \in touching : r.end > s
      <4>1. PICK r \in touching : r.end > s
        BY <3>2
      <4>2. \A q \in touching : q = r \/ q.end < r.end
        BY <1>0, <4>1
      <4>3. r.end \in ends /\ \A y \in ends : r.end >= y
        BY <1>0, <4>1, <4>2
      <4> QED BY <4>3
    <3> QED BY <1>0, <3>1, <3>2
  <2> HIDE DEF ends
  <2> QED BY <2>1 DEF Max
<1> DEFINE new == [start |-> lo, end |-> hi]
<1>3. Mark(rs, s) = (rs \ touching) \cup {new}
  BY <1>1, <1>2 DEF Mark
<1>4. /\ lo \in Nat /\ hi \in Nat /\ m <= lo /\ lo <= s /\ s <= hi /\ hi < n
      /\ new.start = lo /\ new.end = hi
  BY <1>0, <1>1, <1>2
<1>5. \A r \in touching : lo <= r.start /\ r.end <= hi
  BY <1>1, <1>2
<1>6. lo = s \/ \E r \in touching : lo = r.start /\ s <= r.end + 1
  BY <1>1
<1>7. hi = s \/ \E r \in touching : hi = r.end /\ r.start <= s + 1
  BY <1>2
<1>8. ASSUME NEW x \in Int PROVE Resolved(Mark(rs, s), x) <=> x = s \/ Resolved(rs, x)
  <2>1. ASSUME lo <= x, x <= hi PROVE x = s \/ \E r \in touching : r.start <= x /\ x <= r.end
    BY <1>0, <1>4, <1>6, <1>7, <2>1
  <2>2. ASSUME NEW r \in touching, r.start <= x, x <= r.end PROVE lo <= x /\ x <= hi
    BY <1>0, <1>4, <1>5, <2>2
  <2>3. Resolved(Mark(rs, s), x) <=>
          (lo <= x /\ x <= hi) \/ \E r \in rs \ touching : r.start <= x /\ x <= r.end
    BY <1>3, <1>4 DEF Resolved
  <2>4. Resolved(rs, x) <=> \/ \E r \in rs \ touching : r.start <= x /\ x <= r.end
                            \/ \E r \in touching : r.start <= x /\ x <= r.end
    BY DEF Resolved
  <2>5. x = s => lo <= x /\ x <= hi
    BY <1>4
  <2> QED BY <2>1, <2>2, <2>3, <2>4, <2>5
<1>9. Separate(Mark(rs, s))
  <2>1. ASSUME NEW r \in rs \ touching PROVE r.end + 1 < lo \/ hi + 1 < r.start
    <3>1. r.end + 1 < s \/ s + 1 < r.start
      BY <1>0
    <3>2. \A t \in touching : r # t /\ t.start \in Nat /\ t.end \in Nat
      BY <1>0
    <3>3. ASSUME r.end + 1 < s PROVE r.end + 1 < lo
      BY <1>0, <1>6, <3>2, <3>3
    <3>4. ASSUME s + 1 < r.start PROVE hi + 1 < r.start
      BY <1>0, <1>7, <3>2, <3>4
    <3> QED BY <3>1, <3>3, <3>4
  <2> QED BY <1>0, <1>3, <1>4, <2>1 DEF Separate
<1>10. Between(Mark(rs, s), m, n)
  <2>1. new \in Ranges
    BY <1>4 DEF Ranges
  <2>2. Mark(rs, s) \subseteq Ranges
    BY <1>3, <2>1 DEF Between
  <2>3. \A r \in Mark(rs, s) : m <= r.start /\ r.start <= r.end /\ r.end < n
    BY <1>0, <1>3, <1>4
  <2> QED BY <1>9, <2>2, <2>3 DEF Between
<1> QED BY <1>8, <1>10


(***************************************************************************)
(* Flattening loses no element.                                            *)
(***************************************************************************)
LEMMA JoinHas ==
  ASSUME NEW T, NEW s \in Seq(T), NEW t \in Seq(T)
  PROVE  /\ s \o t \in Seq(T)
         /\ Len(s \o t) = Len(s) + Len(t) /\ Len(s) \in Nat /\ Len(t) \in Nat
         /\ \A i \in 1..Len(s) : i \in 1..Len(s \o t) /\ (s \o t)[i] = s[i]
         /\ \A i \in 1..Len(t) : Len(s) + i \in 1..Len(s \o t) /\ (s \o t)[Len(s) + i] = t[i]
<1>1. s \o t \in Seq(T) /\ Len(s \o t) = Len(s) + Len(t)
  BY ConcatProperties
<1>2. Len(s) \in Nat /\ Len(t) \in Nat
  BY LenProperties
<1>3. \A i \in 1..Len(s) + Len(t) :
        (s \o t)[i] = IF i <= Len(s) THEN s[i] ELSE t[i - Len(s)]
  BY ConcatProperties
<1>4. ASSUME NEW i \in 1..Len(t)
      PROVE  Len(s) + i \in 1..Len(s \o t) /\ (s \o t)[Len(s) + i] = t[i]
  <2>1. PICK j \in 1..(Len(s) + Len(t)) : j = Len(s) + i /\ ~(j <= Len(s)) /\ j - Len(s) = i
    BY <1>2
  <2>2. (s \o t)[j] = t[j - Len(s)]
    BY <1>3, <2>1
  <2> QED BY <1>1, <2>1, <2>2
<1>5. ASSUME NEW i \in 1..Len(s)
      PROVE  i \in 1..Len(s \o t) /\ (s \o t)[i] = s[i]
  <2>1. i \in 1..(Len(s) + Len(t)) /\ i <= Len(s)
    BY <1>2
  <2> QED BY <1>1, <1>3, <2>1
<1> QED BY <1>1, <1>2, <1>4, <1>5

\* f[i] is the first i sequences joined, for i up to m.
Joins(s, m, f) ==
  f = [i \in 1..m |-> IF i = 1 THEN s[i] ELSE f[i - 1] \o s[i]]

LEMMA JoinsExist ==
  ASSUME NEW s, NEW n \in Nat
  PROVE  \E f : Joins(s, n, f)
<1> DEFINE W == {m \in Nat : ~\E f : Joins(s, m, f)}
<1> SUFFICES ASSUME W # {} PROVE FALSE
  OBVIOUS
<1>1. PICK m \in W : \A y \in W : m <= y
  <2> HIDE DEF W
  <2>1. W \subseteq Nat
    BY DEF W
  <2> QED BY <2>1, SmallestOf
<1>2. m # 0
  <2>1. Joins(s, 0, [i \in 1..0 |-> s[i]])
    BY DEF Joins
  <2> QED BY <1>1, <2>1
<1>3. m - 1 \in Nat /\ m - 1 \notin W
  BY <1>1, <1>2
<1>4. PICK f : Joins(s, m - 1, f)
  BY <1>3
<1> DEFINE g == [i \in 1..m |-> IF i = 1 THEN s[i] ELSE f[i - 1] \o s[i]]
<1>5. ASSUME NEW i \in 1..m, i # 1 PROVE g[i - 1] = f[i - 1]
  <2>1. i - 1 \in 1..(m - 1) /\ i - 1 \in 1..m
    BY <1>1, <1>5
  <2>2. f[i - 1] = IF i - 1 = 1 THEN s[i - 1] ELSE f[(i - 1) - 1] \o s[i - 1]
    BY <1>4, <2>1 DEF Joins
  <2> QED BY <2>1, <2>2
<1>6. Joins(s, m, g)
  <2>1. \A i \in 1..m : g[i] = IF i = 1 THEN s[i] ELSE g[i - 1] \o s[i]
    BY <1>5
  <2>2. g = [i \in 1..m |-> g[i]]
    OBVIOUS
  <2> HIDE DEF g
  <2> QED BY <2>1, <2>2 DEF Joins
<1> QED BY <1>1, <1>6

\* The elements of q stand together in t.
Holds(t, q) ==
  \E o \in Nat : \A k \in 1..Len(q) : o + k \in 1..Len(t) /\ t[o + k] = q[k]

LEMMA JoinHolds ==
  ASSUME NEW T, NEW a \in Seq(T), NEW b \in Seq(T)
  PROVE  /\ a \o b \in Seq(T)
         /\ Holds(a \o b, b)
         /\ \A q : Holds(a, q) => Holds(a \o b, q)
<1>1. PICK all : all = a \o b
  OBVIOUS
<1>2. PICK n \in Nat : n = Len(a)
  OBVIOUS
<1>3. /\ all \in Seq(T)
      /\ \A i \in 1..n : i \in 1..Len(all) /\ all[i] = a[i]
      /\ \A i \in 1..Len(b) : n + i \in 1..Len(all) /\ all[n + i] = b[i]
  <2>1. /\ a \o b \in Seq(T)
        /\ \A i \in 1..Len(a) : i \in 1..Len(a \o b) /\ (a \o b)[i] = a[i]
        /\ \A i \in 1..Len(b) : Len(a) + i \in 1..Len(a \o b) /\ (a \o b)[Len(a) + i] = b[i]
    BY JoinHas, SMTT(60)
  <2> QED BY <1>1, <1>2, <2>1
<1>4. Holds(all, b)
  BY <1>2, <1>3 DEF Holds
<1>5. ASSUME NEW q, Holds(a, q) PROVE Holds(all, q)
  <2>1. PICK o \in Nat : \A k \in 1..Len(q) : o + k \in 1..Len(a) /\ a[o + k] = q[k]
    BY <1>5 DEF Holds
  <2>2. ASSUME NEW k \in 1..Len(q) PROVE o + k \in 1..Len(all) /\ all[o + k] = q[k]
    <3>1. PICK i \in 1..n : i = o + k /\ a[i] = q[k]
      BY <1>2, <2>1
    <3>2. i \in 1..Len(all) /\ all[i] = a[i]
      BY <1>3
    <3> QED BY <3>1, <3>2
  <2> QED BY <2>2 DEF Holds
<1> QED BY <1>1, <1>3, <1>4, <1>5

\* t has each of the first m sequences.
Gathers(T, s, m, t) ==
  /\ t \in Seq(T)
  /\ \A i \in 1..m : Holds(t, s[i])

LEMMA JoinsHave ==
  ASSUME NEW T, NEW n \in Nat, NEW s \in [1..n -> Seq(T)], NEW f, Joins(s, n, f),
         NEW m \in 1..n
  PROVE  Gathers(T, s, m, f[m])
<1> DEFINE P(x) == f[x] \in Seq(T) /\ \A i \in 1..x : Holds(f[x], s[i])
<1> SUFFICES P(m)
  BY DEF Gathers
<1> HIDE DEF P
<1> DEFINE W == {x \in 1..n : ~P(x)}
<1>0. W = {} => P(m)
  OBVIOUS
<1> SUFFICES ASSUME W # {} PROVE FALSE
  BY <1>0
<1>1. PICK w \in W : \A y \in W : w <= y
  <2> HIDE DEF W
  <2>1. W \subseteq Nat
    BY DEF W
  <2> QED BY <2>1, SmallestOf
<1>2. w \in 1..n /\ f[w] = IF w = 1 THEN s[w] ELSE f[w - 1] \o s[w]
  BY <1>1 DEF Joins
<1>3. CASE w = 1
  <2>1. PICK a \in Seq(T) : a = s[1] /\ f[w] = a
    BY <1>2, <1>3
  <2>2. Holds(a, a)
    <3>1. \A k \in 1..Len(a) : 0 + k \in 1..Len(a) /\ a[0 + k] = a[k]
      OBVIOUS
    <3> QED BY <3>1 DEF Holds
  <2>3. \A i \in 1..1 : i = 1
    OBVIOUS
  <2>4. P(w)
    BY <1>3, <2>1, <2>2, <2>3 DEF P
  <2> QED BY <1>1, <2>4
<1>4. CASE w # 1
  <2>1. w - 1 \in 1..n /\ w - 1 \notin W
    BY <1>1, <1>2, <1>4
  <2>2. P(w - 1)
    BY <2>1
  <2>3. PICK a \in Seq(T), b \in Seq(T) : a = f[w - 1] /\ b = s[w] /\ f[w] = a \o b
    BY <1>2, <1>4, <2>2 DEF P
  <2>4. f[w] \in Seq(T) /\ Holds(f[w], b) /\ \A q : Holds(a, q) => Holds(f[w], q)
    <3>1. /\ a \o b \in Seq(T) /\ Holds(a \o b, b)
          /\ \A q : Holds(a, q) => Holds(a \o b, q)
      BY JoinHolds
    <3> QED BY <2>3, <3>1
  <2>5. ASSUME NEW i \in 1..w PROVE Holds(f[w], s[i])
    <3>1. CASE i = w
      BY <2>3, <2>4, <3>1
    <3>2. CASE i # w
      <4>1. i \in 1..(w - 1)
        BY <1>2, <3>2
      <4>2. Holds(a, s[i])
        BY <2>2, <2>3, <4>1 DEF P
      <4> QED BY <2>4, <4>2
    <3> QED BY <3>1, <3>2
  <2>6. P(w)
    BY <2>4, <2>5 DEF P
  <2> QED BY <1>1, <2>6
<1> QED BY <1>3, <1>4

LEMMA FlattenHas ==
  ASSUME NEW T, NEW n \in Nat, NEW s \in [1..n -> Seq(T)]
  PROVE  Gathers(T, s, n, FlattenSeq(s))
<1>1. Len(s) = n /\ s \in Seq(Seq(T))
  <2>1. s \in Seq(Seq(T)) /\ Len(s) \in Nat /\ DOMAIN s = 1..Len(s)
    OBVIOUS
  <2> QED BY <2>1
<1>2. CASE n = 0
  <2>1. FlattenSeq(s) = s
    BY <1>1, <1>2 DEF FlattenSeq
  <2>2. s = <<>>
    BY <1>1, <1>2
  <2>3. 1..n = {} /\ <<>> \in Seq(T)
    BY <1>2
  <2> QED BY <2>1, <2>2, <2>3 DEF Gathers
<1>3. CASE n # 0
  <2> DEFINE c == CHOOSE f : Joins(s, n, f)
  <2>1. Joins(s, n, c)
    BY JoinsExist
  <2>2. FlattenSeq(s) = c[n]
    BY <1>1, <1>3 DEF FlattenSeq, Joins
  <2> HIDE DEF c
  <2>3. n \in 1..n
    BY <1>3
  <2>4. PICK f : f = c
    OBVIOUS
  <2>5. Joins(s, n, f)
    BY <2>1, <2>4
  <2>6. Gathers(T, s, n, f[n])
    BY <2>3, <2>5, JoinsHave
  <2> QED BY <2>2, <2>4, <2>6
<1> QED BY <1>2, <1>3

(***************************************************************************)
(* A drain marks every unresolved sequence, one after the other.           *)
(***************************************************************************)
\* f[s] is base with the sequences of s marked, for the s with at most m.
Marks(base, S, m, f) ==
  f = [s \in {x \in SUBSET S : Cardinality(x) <= m} |->
         IF s = {} THEN base
         ELSE Mark(f[s \ {CHOOSE x \in s : TRUE}], CHOOSE x \in s : TRUE)]

LEMMA OneLess ==
  ASSUME NEW S, IsFiniteSet(S), NEW s \in SUBSET S, s # {}
  PROVE  LET x == CHOOSE x \in s : TRUE
         IN  /\ x \in s /\ s \ {x} \in SUBSET S
             /\ Cardinality(s \ {x}) = Cardinality(s) - 1
             /\ Cardinality(s) \in Nat /\ Cardinality(s) # 0
<1> DEFINE x == CHOOSE x \in s : TRUE
<1>1. x \in s
  OBVIOUS
<1> HIDE DEF x
<1>2. IsFiniteSet(s)
  BY FS_Subset
<1>3. Cardinality(s) \in Nat /\ Cardinality(s \ {x}) = Cardinality(s) - 1
  BY <1>1, <1>2, FS_RemoveElement, FS_CardinalityType
<1>4. Cardinality(s) # 0
  BY <1>1, <1>2, FS_EmptySet
<1> QED BY <1>1, <1>3, <1>4 DEF x

LEMMA MarksExist ==
  ASSUME NEW S, IsFiniteSet(S), NEW base, NEW n \in Nat
  PROVE  \E f : Marks(base, S, n, f)
<1> DEFINE W == {m \in Nat : ~\E f : Marks(base, S, m, f)}
           Ch(s) == CHOOSE x \in s : TRUE
           D(m) == {x \in SUBSET S : Cardinality(x) <= m}
<1> SUFFICES ASSUME W # {} PROVE FALSE
  OBVIOUS
<1>1. PICK m \in W : \A y \in W : m <= y
  <2> HIDE DEF W
  <2>1. W \subseteq Nat
    BY DEF W
  <2> QED BY <2>1, SmallestOf
<1>0. \A s \in SUBSET S : s # {} =>
        /\ s \ {Ch(s)} \in SUBSET S /\ Cardinality(s \ {Ch(s)}) = Cardinality(s) - 1
        /\ Cardinality(s) \in Nat /\ Cardinality(s) # 0
  BY OneLess
<1> HIDE DEF Ch
<1>2. ASSUME NEW f, NEW g, \A s \in D(m) : s # {} => g[s \ {Ch(s)}] = f[s \ {Ch(s)}],
             g = [s \in D(m) |-> IF s = {} THEN base ELSE Mark(f[s \ {Ch(s)}], Ch(s))]
      PROVE  FALSE
  <2>1. \A s \in D(m) : g[s] = IF s = {} THEN base ELSE Mark(g[s \ {Ch(s)}], Ch(s))
    BY <1>2
  <2>2. g = [s \in D(m) |-> IF s = {} THEN base ELSE Mark(g[s \ {Ch(s)}], Ch(s))]
    BY <1>2, <2>1
  <2>3. Marks(base, S, m, g)
    BY <2>2 DEF Marks, Ch
  <2> QED BY <1>1, <2>3
<1>3. CASE m = 0
  <2> DEFINE g == [s \in D(m) |-> IF s = {} THEN base ELSE Mark(base[s \ {Ch(s)}], Ch(s))]
  <2>1. ASSUME NEW s \in D(m), s # {} PROVE FALSE
    <3>1. Cardinality(s) \in Nat /\ Cardinality(s) # 0 /\ Cardinality(s) <= 0
      BY <1>0, <1>3, <2>1
    <3> QED BY <3>1
  <2> QED BY <1>2, <2>1
<1>4. CASE m # 0
  <2>1. m - 1 \in Nat /\ m - 1 \notin W
    BY <1>1, <1>4
  <2>2. PICK f : Marks(base, S, m - 1, f)
    BY <2>1
  <2> DEFINE g == [s \in D(m) |-> IF s = {} THEN base ELSE Mark(f[s \ {Ch(s)}], Ch(s))]
  <2>3. \A s \in D(m - 1) : f[s] = IF s = {} THEN base ELSE Mark(f[s \ {Ch(s)}], Ch(s))
    BY <2>2 DEF Marks, Ch
  <2>4. \A s \in D(m - 1) : s \in D(m) /\ g[s] = f[s]
    <3>1. ASSUME NEW s \in D(m - 1) PROVE s \in D(m)
      <4>1. Cardinality(s) \in Nat
        <5>1. CASE s = {}
          BY <5>1, FS_EmptySet
        <5> QED BY <1>0, <5>1
      <4> QED BY <1>1, <4>1
    <3> QED BY <2>3, <3>1
  <2>5. \A s \in D(m) : s # {} => s \ {Ch(s)} \in D(m - 1)
    BY <1>0, <1>1
  <2>6. \A s \in D(m) : s # {} => g[s \ {Ch(s)}] = f[s \ {Ch(s)}]
    BY <2>4, <2>5
  <2> HIDE DEF D
  <2> QED BY <1>2, <2>6
<1> QED BY <1>3, <1>4

MarkedAll(base, S) == FoldSet(LAMBDA s, ranges : Mark(ranges, s), base, S)

LEMMA MarkAll ==
  ASSUME NEW m \in Nat, NEW n \in Nat, NEW base, Between(base, m, n),
         NEW S, S \subseteq m..(n - 1)
  PROVE  /\ Between(MarkedAll(base, S), m, n)
         /\ \A x \in Int : Resolved(MarkedAll(base, S), x) <=> x \in S \/ Resolved(base, x)
<1> DEFINE all == MarkedAll(base, S)
           Ch(s) == CHOOSE x \in s : TRUE
           F(f) == [s \in SUBSET S |-> IF s = {} THEN base ELSE Mark(f[s \ {Ch(s)}], Ch(s))]
<1>1. IsFiniteSet(S) /\ Cardinality(S) \in Nat
  <2>1. IsFiniteSet(m..(n - 1))
    BY FS_Interval
  <2> QED BY <2>1, FS_Subset, FS_CardinalityType
<1>2. \A x \in SUBSET S : IsFiniteSet(x) /\ Cardinality(x) \in Nat /\ Cardinality(x) <= Cardinality(S)
  BY <1>1, FS_Subset, FS_CardinalityType
<1>3. {x \in SUBSET S : Cardinality(x) <= Cardinality(S)} = SUBSET S
  BY <1>2
<1>4. \E f : f = F(f)
  <2>1. PICK f : Marks(base, S, Cardinality(S), f)
    BY <1>1, MarksExist
  <2> QED BY <1>3, <2>1 DEF Marks
<1> DEFINE c == CHOOSE f : f = F(f)
<1>5. c = F(c)
  BY <1>4
<1>6. all = c[S]
  BY DEF MarkedAll, FoldSet, MapThenFoldSet
<1> HIDE DEF c
<1> DEFINE P(s) == /\ Between(c[s], m, n)
                   /\ \A x \in Int : Resolved(c[s], x) <=> x \in s \/ Resolved(base, x)
           W == {k \in Nat : \E s \in SUBSET S : Cardinality(s) = k /\ ~P(s)}
<1>7. W = {}
  <2> SUFFICES ASSUME W # {} PROVE FALSE
    OBVIOUS
  <2>1. PICK k \in W : \A y \in W : k <= y
    <3> HIDE DEF W
    <3>1. W \subseteq Nat
      BY DEF W
    <3> QED BY <3>1, SmallestOf
  <2>2. PICK s \in SUBSET S : Cardinality(s) = k /\ ~P(s)
    BY <2>1
  <2>3. s # {}
    <3>1. c[{}] = base
      BY <1>5
    <3> QED BY <2>2, <3>1
  <2>4. /\ Ch(s) \in s /\ s \ {Ch(s)} \in SUBSET S
        /\ Cardinality(s \ {Ch(s)}) = k - 1 /\ k # 0 /\ k \in Nat
    BY <1>1, <2>2, <2>3, OneLess
  <2>5. c[s] = Mark(c[s \ {Ch(s)}], Ch(s))
    BY <1>5, <2>2, <2>3
  <2>10. PICK y : y = Ch(s)
    OBVIOUS
  <2> HIDE DEF Ch
  <2>6. P(s \ {y})
    <3>1. k - 1 \in Nat /\ k - 1 \notin W
      BY <2>1, <2>4
    <3> HIDE DEF P
    <3> QED BY <2>4, <2>10, <3>1
  <2>7. y \in m..(n - 1) /\ y \in Int
    <3>1. y \in S
      BY <2>2, <2>4, <2>10
    <3> QED BY <3>1
  <2>8. /\ Between(c[s], m, n)
        /\ \A x \in Int : Resolved(c[s], x) <=> x = y \/ Resolved(c[s \ {y}], x)
    <3>1. PICK old : old = c[s \ {y}]
      OBVIOUS
    <3>2. Between(old, m, n) /\ c[s] = Mark(old, y)
      BY <2>5, <2>6, <2>10, <3>1
    <3>3. /\ Between(Mark(old, y), m, n)
          /\ \A x \in Int : Resolved(Mark(old, y), x) <=> x = y \/ Resolved(old, x)
      BY <2>7, <3>2, MarkAdds
    <3> QED BY <3>1, <3>2, <3>3
  <2>9. P(s)
    BY <2>4, <2>6, <2>8, <2>10
  <2> HIDE DEF P
  <2> QED BY <2>2, <2>9
<1>8. P(S)
  BY <1>1, <1>7
<1> QED BY <1>6, <1>8

-----------------------------------------------------------------------------
(***************************************************************************)
(* The frontier passes exactly the first resolved sequences.               *)
(***************************************************************************)
FrontierAt(rs, m, n, up, rest) ==
  /\ up \in m..n
  /\ Between(rest, up + 1, n)
  /\ \A x \in Int : x >= up => (Resolved(rest, x) <=> Resolved(rs, x))
  /\ \A x \in m..(up - 1) : Resolved(rs, x)

LEMMA FrontierPasses ==
  ASSUME NEW m \in Nat, NEW n \in Nat, m <= n, NEW rs, Between(rs, m, n), NEW up, NEW rest,
         up = Frontier(rs, m), rest = IF m..(up - 1) = {} THEN rs ELSE Consume(rs, m)
  PROVE  FrontierAt(rs, m, n, up, rest)
<1> DEFINE at == {r \in rs : r.start <= m /\ m <= r.end}
<1>0. /\ \A r \in rs : r.start \in Nat /\ r.end \in Nat /\ m <= r.start /\ r.start <= r.end /\ r.end < n
      /\ \A r, q \in rs : r # q => r.end + 1 < q.start \/ q.end + 1 < r.start
      /\ rs \subseteq Ranges
  BY DEF Between, Ranges, Separate
<1>1. CASE at = {}
  <2>1. up = m
    BY <1>1 DEF Frontier
  <2>2. rest = rs
    BY <2>1
  <2>3. \A r \in rs : m + 1 <= r.start
    BY <1>0, <1>1
  <2>4. Between(rs, m + 1, n)
    BY <1>0, <2>3 DEF Between, Separate
  <2> QED BY <2>1, <2>2, <2>4 DEF FrontierAt
<1>2. CASE at # {}
  <2>1. PICK r : r = CHOOSE q \in at : TRUE
    OBVIOUS
  <2>2. r \in at
    BY <1>2, <2>1
  <2>3. up = r.end + 1
    BY <1>2, <2>1 DEF Frontier
  <2>4. r \in rs /\ r.start = m /\ up \in Nat /\ m < up /\ up <= n
    BY <1>0, <2>2, <2>3
  <2>5. rest = Consume(rs, m)
    <3>1. m \in m..(up - 1)
      BY <2>4
    <3> QED BY <3>1
  <2>6. \A q \in rs : q # r => up + 1 <= q.start
    BY <1>0, <2>3, <2>4
  <2>7. rest = rs \ {r}
    <3>1. \A q \in rs : ~(q.start < m)
      BY <1>0
    <3>2. \A q \in rs : q # r => q.start # m
      BY <1>0, <2>4, <2>6
    <3> QED BY <2>4, <2>5, <3>1, <3>2 DEF Consume
  <2>8. Between(rest, up + 1, n)
    BY <1>0, <2>6, <2>7 DEF Between, Separate
  <2>9. \A x \in Int : x >= up => (Resolved(rest, x) <=> Resolved(rs, x))
    BY <1>0, <2>3, <2>4, <2>7 DEF Resolved
  <2>10. \A x \in m..(up - 1) : Resolved(rs, x)
    <3>1. ASSUME NEW x \in m..(up - 1) PROVE r.start <= x /\ x <= r.end
      BY <1>0, <2>3, <2>4
    <3> QED BY <2>4, <3>1 DEF Resolved
  <2> QED BY <2>4, <2>8, <2>9, <2>10 DEF FrontierAt
<1> QED BY <1>1, <1>2

(***************************************************************************)
(* The trail only grows, and a writer that stays open takes every row.     *)
(***************************************************************************)
Grown ==
  /\ TrailTyped'
  /\ \A i \in DOMAIN written : i \in DOMAIN written' /\ written'[i] = written[i]

\* The rows follow what is in the trail.
Added(rows) ==
  /\ DOMAIN written = 1..Len(written) /\ Len(written) \in Nat
  /\ \A i \in 1..Len(rows) :
       Len(written) + i \in DOMAIN written' /\ written'[Len(written) + i] = rows[i]

\* The rows of q are among those that follow what is in the trail, together.
Lands(q) ==
  /\ DOMAIN written = 1..Len(written) /\ Len(written) \in Nat
  /\ \E o \in Nat :
       /\ o >= Len(written)
       /\ \A k \in 1..Len(q) :
            /\ o + k \in DOMAIN written'
            /\ written'[o + k].seq = q[k].seq /\ written'[o + k].what = q[k].what

LEMMA Extends ==
  ASSUME TrailTyped, NEW T, NEW rows \in Seq(T), written' = written \o rows
  PROVE  Grown /\ Added(rows)
<1>1. PICK R : written \in Seq(R)
  BY DEF TrailTyped
<1>2. PICK S : S = R \cup T
  OBVIOUS
<1>3. written \in Seq(S) /\ rows \in Seq(S)
  BY <1>1, <1>2
<1>4. /\ written' \in Seq(S)
      /\ \A i \in 1..Len(written) : i \in 1..Len(written') /\ written'[i] = written[i]
      /\ \A i \in 1..Len(rows) : Len(written) + i \in 1..Len(written')
                                   /\ written'[Len(written) + i] = rows[i]
  <2>1. PICK w : w = written
    OBVIOUS
  <2>2. PICK v : v = w \o rows
    OBVIOUS
  <2>3. /\ w \o rows \in Seq(S)
        /\ \A i \in 1..Len(w) : i \in 1..Len(w \o rows) /\ (w \o rows)[i] = w[i]
        /\ \A i \in 1..Len(rows) : Len(w) + i \in 1..Len(w \o rows)
                                     /\ (w \o rows)[Len(w) + i] = rows[i]
    BY <1>3, <2>1, JoinHas, SMTT(60)
  <2>4. /\ v \in Seq(S)
        /\ \A i \in 1..Len(w) : i \in 1..Len(v) /\ v[i] = w[i]
        /\ \A i \in 1..Len(rows) : Len(w) + i \in 1..Len(v) /\ v[Len(w) + i] = rows[i]
    BY <2>2, <2>3
  <2>5. written' = v
    BY <2>1, <2>2
  <2> QED BY <2>1, <2>4, <2>5
<1>5. /\ DOMAIN written = 1..Len(written) /\ Len(written) \in Nat
      /\ DOMAIN written' = 1..Len(written')
  BY <1>3, <1>4, LenProperties
<1>6. TrailTyped'
  BY <1>4 DEF TrailTyped
<1> QED BY <1>4, <1>5, <1>6 DEF Grown, Added

LEMMA Same ==
  ASSUME TrailTyped, UNCHANGED written PROVE Grown
BY DEF Grown, TrailTyped

LEMMA WriteGrows ==
  ASSUME TrailTyped, sink \in Sinks, NEW T, NEW rows \in Seq(T), Write(rows)
  PROVE  /\ Grown /\ sink' \in Sinks
         /\ sink' = "open" => sink = "open" /\ Added(rows)
<1>1. PICK k \in 0..Len(rows) :
        /\ sink # "open" => k = 0
        /\ written' = written \o SubSeq(rows, 1, k)
        /\ sink' = IF sink = "open" /\ k < Len(rows) THEN "failed" ELSE sink
  BY DEF Write
<1>2. Len(rows) \in Nat /\ rows = [i \in 1..Len(rows) |-> rows[i]] /\ k \in Nat /\ k <= Len(rows)
  OBVIOUS
<1>3. SubSeq(rows, 1, k) = [i \in 1..k |-> rows[i]] /\ \A i \in 1..k : rows[i] \in T
  BY <1>2
<1>4. SubSeq(rows, 1, k) \in Seq(T)
  BY <1>2, <1>3
<1>5. PICK part \in Seq(T) : part = SubSeq(rows, 1, k)
  BY <1>4
<1>6. Grown /\ Added(part)
  BY <1>1, <1>5, Extends
<1>7. sink' \in Sinks /\ (sink' = "open" => sink = "open" /\ k = Len(rows))
  BY <1>1, <1>2 DEF Sinks
<1>8. k = Len(rows) => part = rows
  BY <1>2, <1>3, <1>5
<1> QED BY <1>6, <1>7, <1>8

LEMMA WriteDirectGrows ==
  ASSUME TrailTyped, sink \in Sinks, NEW row, WriteDirect(row)
  PROVE  /\ Grown /\ sink' \in Sinks
         /\ sink' = "open" => sink = "open" /\ Added(<<row>>)
<1>1. PICK rows \in Seq({row}) : rows = <<row>>
  <2>1. <<row>> \in Seq({row})
    OBVIOUS
  <2> QED BY <2>1, Zenon
<1>2. CASE sink = "open" /\ written' = Append(written, row) /\ UNCHANGED sink
  <2>1. written' = written \o rows
    <3>1. PICK R : written \in Seq(R)
      BY DEF TrailTyped
    <3> QED BY <1>1, <1>2, <3>1
  <2> QED BY <1>1, <1>2, <2>1, Extends
<1>3. CASE UNCHANGED written /\ sink' = IF sink = "open" THEN "failed" ELSE sink
  BY <1>3, Same DEF Sinks
<1> QED BY <1>2, <1>3 DEF WriteDirect

-----------------------------------------------------------------------------
\* The same rows, but for their cards.
Stamps(t, rows) ==
  /\ Len(t) = Len(rows) /\ Len(t) \in Nat
  /\ \A i \in 1..Len(t) : t[i].seq = rows[i].seq /\ t[i].what = rows[i].what

LEMMA StampedRows ==
  ASSUME NEW rows \in Seq(Records(Nat)), NEW card
  PROVE  LET t == Stamped(rows, card)
         IN  /\ Stamps(t, rows)
             /\ \A T : (\A i \in 1..Len(t) : t[i] \in T) => t \in Seq(T)
<1>1. PICK t : t = Stamped(rows, card)
  OBVIOUS
<1>2. DOMAIN rows = 1..Len(rows) /\ Len(rows) \in Nat /\ \A i \in 1..Len(rows) : rows[i] \in Records(Nat)
  OBVIOUS
<1>3. t = [i \in 1..Len(rows) |->
             IF rows[i].card = 0 THEN [rows[i] EXCEPT !.card = card] ELSE rows[i]]
  BY <1>1, <1>2 DEF Stamped
<1>4. ASSUME NEW i \in 1..Len(rows) PROVE t[i].seq = rows[i].seq /\ t[i].what = rows[i].what
  <2>1. PICK w \in Records(Nat) : w = rows[i]
    BY <1>2
  <2>2. /\ [w EXCEPT !.card = card].seq = w.seq
        /\ [w EXCEPT !.card = card].what = w.what
    BY DEF Records
  <2> QED BY <1>3, <2>1, <2>2
<1>5. Len(t) = Len(rows)
  BY <1>2, <1>3
<1>6. Stamps(t, rows)
  BY <1>2, <1>4, <1>5 DEF Stamps
<1>7. ASSUME NEW T, \A i \in 1..Len(t) : t[i] \in T PROVE t \in Seq(T)
  BY <1>2, <1>3, <1>5, <1>7
<1> QED BY <1>1, <1>6, <1>7

\* The rows of q stand together in t, but for their cards.
Placed(t, q) ==
  \E o \in Nat : \A k \in 1..Len(q) :
    o + k \in 1..Len(t) /\ t[o + k].seq = q[k].seq /\ t[o + k].what = q[k].what

\* The rows queued under a sequence that is passed are among those taken.
Takes(rows, todo, m, up) ==
  \E T : /\ rows \in Seq(T)
         /\ \A x \in m..(up - 1) : x \in DOMAIN todo => Placed(rows, todo[x])

LEMMA TakenRows ==
  ASSUME NEW m \in Nat, NEW up \in Nat, m <= up, NEW n, NEW todo, TodoTyped(todo, m, n), NEW cards,
         NEW taken,
         taken = FlattenSeq([i \in 1..Cardinality(m..(up - 1)) |-> RowsOf(todo, cards, m + i - 1)])
  PROVE  Takes(taken, todo, m, up)
<1>1. Cardinality(m..(up - 1)) = up - m
  <2>1. up - 1 \in Int /\ (up - 1) - m + 1 = up - m /\ ~(m > up)
    OBVIOUS
  <2>2. Cardinality(m..(up - 1)) = IF m > up - 1 THEN 0 ELSE (up - 1) - m + 1
    BY <2>1, FS_Interval
  <2> QED BY <2>1, <2>2
<1>2. PICK c \in Nat : c = up - m
  OBVIOUS
<1> DEFINE t(x) == RowsOf(todo, cards, x)
           T == {t(x)[k] : x \in m..(up - 1), k \in Nat}
           s == [i \in 1..c |-> t(m + i - 1)]
<1>3. ASSUME NEW x \in m..(up - 1)
      PROVE  /\ t(x) \in Seq(T)
             /\ x \in DOMAIN todo => Stamps(t(x), todo[x])
  <2>1. CASE x \in DOMAIN todo
    <3>1. t(x) = Stamped(todo[x], CardAt(cards, x)) /\ todo[x] \in Seq(Records(Nat))
      BY <2>1 DEF RowsOf, TodoTyped
    <3>2. /\ Stamps(t(x), todo[x])
          /\ \A U : (\A i \in 1..Len(t(x)) : t(x)[i] \in U) => t(x) \in Seq(U)
      BY <3>1, StampedRows
    <3>3. \A i \in 1..Len(t(x)) : t(x)[i] \in T
      <4>1. Len(t(x)) \in Nat
        BY <3>2 DEF Stamps
      <4> HIDE DEF t
      <4> QED BY <4>1
    <3> HIDE DEF T, t
    <3> QED BY <2>1, <3>2, <3>3
  <2>2. CASE x \notin DOMAIN todo
    <3>1. t(x) = <<>>
      BY <2>2 DEF RowsOf
    <3> HIDE DEF t, T
    <3> QED BY <2>2, <3>1
  <2> QED BY <2>1, <2>2
<1> HIDE DEF t
<1>4. s \in [1..c -> Seq(T)]
  <2>1. \A i \in 1..c : m + i - 1 \in m..(up - 1)
    BY <1>2
  <2> HIDE DEF T
  <2> QED BY <1>3, <2>1
<1> HIDE DEF T
<1>5. PICK U : U = T
  OBVIOUS
<1>6. PICK q \in [1..c -> Seq(U)] : q = s
  <2> HIDE DEF s
  <2> QED BY <1>4, <1>5
<1>7. PICK rows : rows = FlattenSeq(q)
  OBVIOUS
<1>8. Gathers(U, q, c, rows)
  BY <1>7, FlattenHas
<1>9. ASSUME NEW x \in m..(up - 1), x \in DOMAIN todo PROVE Placed(rows, todo[x])
  <2>1. PICK i \in 1..c : x = m + i - 1
    <3>1. x - m + 1 \in 1..c /\ x = m + (x - m + 1) - 1
      BY <1>2
    <3> QED BY <3>1
  <2>2. PICK p : p = t(x) /\ q[i] = p
    BY <1>6, <2>1
  <2>3. Stamps(p, todo[x])
    BY <1>3, <1>9, <2>2
  <2>4. PICK o \in Nat : \A k \in 1..Len(p) : o + k \in 1..Len(rows) /\ rows[o + k] = p[k]
    BY <1>8, <2>2 DEF Gathers, Holds
  <2>5. ASSUME NEW k \in 1..Len(todo[x])
        PROVE  /\ o + k \in 1..Len(rows) /\ rows[o + k].seq = todo[x][k].seq
               /\ rows[o + k].what = todo[x][k].what
    BY <2>3, <2>4 DEF Stamps
  <2> QED BY <2>5 DEF Placed
<1>10. rows = FlattenSeq([i \in 1..Cardinality(m..(up - 1)) |-> RowsOf(todo, cards, m + i - 1)])
  BY <1>1, <1>2, <1>6, <1>7 DEF t
<1>11. rows \in Seq(U)
  BY <1>8 DEF Gathers
<1>12. Takes(rows, todo, m, up)
  BY <1>9, <1>11 DEF Takes
<1> QED BY <1>10, <1>12

\* The queue after a flush.
Advanced(marked, todo, pending, ids) ==
  /\ UNCHANGED auditSeq /\ auditNext' \in auditNext..auditSeq
  /\ Between(auditResolved', auditNext' + 1, auditSeq)
  /\ \A x \in Int : x >= auditNext' => (Resolved(auditResolved', x) <=> Resolved(marked, x))
  /\ \A x \in auditNext..(auditNext' - 1) : Resolved(marked, x)
  /\ TodoTyped(auditTodo', auditNext', auditSeq)
  /\ \A x \in DOMAIN todo : x \in DOMAIN auditTodo' <=> x >= auditNext'
  /\ \A x \in DOMAIN auditTodo' : x \in DOMAIN todo /\ auditTodo'[x] = todo[x]
  /\ auditPending' = pending \ (auditNext..(auditNext' - 1))
  /\ actionIDs' = ids \ (auditNext..(auditNext' - 1))

LEMMA FlushFacts ==
  ASSUME auditSeq \in Nat, auditNext \in 0..auditSeq, sink \in Sinks, TrailTyped,
         NEW marked, Between(marked, auditNext, auditSeq),
         NEW todo, TodoTyped(todo, auditNext, auditSeq),
         NEW pending, NEW ids, NEW cards, NEW T, NEW first \in Seq(T),
         Flush(marked, todo, pending, ids, cards, first)
  PROVE  /\ Advanced(marked, todo, pending, ids)
         /\ Grown /\ sink' \in Sinks
         /\ sink' = "open" =>
              /\ sink = "open" /\ Added(first)
              /\ \A x \in DOMAIN todo : x \notin DOMAIN auditTodo' => Lands(todo[x])
              /\ \A x, w : Has(todo, x, w) /\ x \notin DOMAIN auditTodo' => Recorded(x, w)'
<1>1. PICK m \in Nat, n \in Nat : m = auditNext /\ n = auditSeq /\ m <= n
  OBVIOUS
<1>2. PICK up, rest : up = auditNext' /\ rest = auditResolved'
  OBVIOUS
<1>3. up = Frontier(marked, m) /\ rest = IF m..(up - 1) = {} THEN marked ELSE Consume(marked, m)
  BY <1>1, <1>2 DEF Flush
<1>4. Between(marked, m, n)
  BY <1>1
<1>5. /\ up \in m..n
      /\ Between(rest, up + 1, n)
      /\ \A x \in Int : x >= up => (Resolved(rest, x) <=> Resolved(marked, x))
      /\ \A x \in m..(up - 1) : Resolved(marked, x)
  <2>1. FrontierAt(marked, m, n, up, rest)
    BY <1>1, <1>3, <1>4, FrontierPasses
  <2> QED BY <2>1 DEF FrontierAt
<1>6. /\ auditTodo' = Without(todo, m..(up - 1))
      /\ auditPending' = pending \ (m..(up - 1))
      /\ actionIDs' = ids \ (m..(up - 1))
      /\ UNCHANGED auditSeq
  BY <1>1, <1>2 DEF Flush
<1>7. /\ TodoTyped(auditTodo', up, n)
      /\ \A x \in DOMAIN todo : x \in DOMAIN auditTodo' <=> x >= up
      /\ \A x \in DOMAIN auditTodo' : x \in DOMAIN todo /\ auditTodo'[x] = todo[x]
  <2>1. /\ DOMAIN todo \subseteq m..(n - 1)
        /\ \A x \in DOMAIN todo :
             /\ todo[x] \in Seq(Records(Nat))
             /\ \A i \in DOMAIN todo[x] : todo[x][i].seq = x
    BY <1>1 DEF TodoTyped
  <2>2. PICK left : left = Without(todo, m..(up - 1))
    OBVIOUS
  <2>3. left = [x \in DOMAIN todo \ (m..(up - 1)) |-> todo[x]]
    BY <2>2 DEF Without
  <2>4. \A x \in DOMAIN todo : x \in DOMAIN left <=> x >= up
    BY <1>1, <1>5, <2>1, <2>3
  <2>5. DOMAIN left \subseteq up..(n - 1)
    BY <1>1, <1>5, <2>1, <2>3, <2>4
  <2>6. \A x \in DOMAIN left : x \in DOMAIN todo /\ left[x] = todo[x]
    BY <2>3
  <2>7. left = [x \in DOMAIN left |-> left[x]]
    BY <2>3
  <2>8. TodoTyped(left, up, n)
    BY <2>1, <2>5, <2>6, <2>7 DEF TodoTyped
  <2> QED BY <1>6, <2>2, <2>4, <2>6, <2>8
<1>8. Advanced(marked, todo, pending, ids)
  BY <1>1, <1>2, <1>5, <1>6, <1>7 DEF Advanced
<1>9. PICK rows : rows = FlattenSeq([i \in 1..Cardinality(m..(up - 1)) |->
                                       RowsOf(todo, cards, m + i - 1)])
  OBVIOUS
<1>10. Write(first \o rows)
  BY <1>1, <1>2, <1>9 DEF Flush
<1>11. PICK U : /\ rows \in Seq(U)
                /\ \A x \in m..(up - 1) : x \in DOMAIN todo => Placed(rows, todo[x])
  <2>1. TodoTyped(todo, m, n) /\ up \in Nat /\ m <= up
    BY <1>1, <1>5
  <2>2. Takes(rows, todo, m, up)
    BY <1>9, <2>1, TakenRows
  <2> QED BY <2>2 DEF Takes
<1>12. PICK V : V = T \cup U
  OBVIOUS
<1>13. first \in Seq(V) /\ rows \in Seq(V)
  BY <1>11, <1>12
<1>14. PICK all : all = first \o rows
  OBVIOUS
<1>15. /\ all \in Seq(V) /\ Len(first) \in Nat
       /\ \A i \in 1..Len(first) : i \in 1..Len(all) /\ all[i] = first[i]
       /\ \A i \in 1..Len(rows) : Len(first) + i \in 1..Len(all) /\ all[Len(first) + i] = rows[i]
  <2>1. /\ first \o rows \in Seq(V) /\ Len(first) \in Nat
        /\ \A i \in 1..Len(first) : i \in 1..Len(first \o rows) /\ (first \o rows)[i] = first[i]
        /\ \A i \in 1..Len(rows) : Len(first) + i \in 1..Len(first \o rows)
                                     /\ (first \o rows)[Len(first) + i] = rows[i]
    BY <1>13, JoinHas, SMTT(60)
  <2> QED BY <1>14, <2>1
<1>16. /\ Grown /\ sink' \in Sinks
       /\ sink' = "open" => sink = "open" /\ Added(all)
  BY <1>10, <1>14, <1>15, WriteGrows
<1>17. ASSUME sink' = "open" PROVE Added(first)
  BY <1>15, <1>16, <1>17 DEF Added
<1>18. ASSUME sink' = "open", NEW x \in DOMAIN todo, x \notin DOMAIN auditTodo'
       PROVE  Lands(todo[x])
  <2>1. x \in m..(up - 1)
    <3>1. DOMAIN todo \subseteq m..(n - 1)
      BY <1>1 DEF TodoTyped
    <3> QED BY <1>1, <1>5, <1>7, <1>18, <3>1
  <2>2. PICK q : q = todo[x] /\ Placed(rows, q)
    BY <1>11, <2>1
  <2>3. PICK o \in Nat : \A k \in 1..Len(q) :
          o + k \in 1..Len(rows) /\ rows[o + k].seq = q[k].seq /\ rows[o + k].what = q[k].what
    BY <2>2 DEF Placed
  <2>4. PICK z \in Nat, f \in Nat : z = Len(written) /\ f = Len(first)
    BY <1>15, <1>16, <1>18 DEF Added
  <2>5. PICK b \in Nat : b = z + f + o /\ b >= z
    BY <2>4
  <2>6. ASSUME NEW k \in 1..Len(q)
        PROVE  /\ b + k \in DOMAIN written'
               /\ written'[b + k].seq = q[k].seq /\ written'[b + k].what = q[k].what
    <3>1. PICK j \in 1..Len(rows) : j = o + k /\ rows[j].seq = q[k].seq /\ rows[j].what = q[k].what
      BY <2>3
    <3>2. PICK i \in 1..Len(all) : i = f + j /\ all[i] = rows[j]
      BY <1>15, <2>4
    <3>3. z + i \in DOMAIN written' /\ written'[z + i] = all[i]
      <4>1. Added(all)
        BY <1>16, <1>18
      <4>2. \A y \in 1..Len(all) :
              Len(written) + y \in DOMAIN written' /\ written'[Len(written) + y] = all[y]
        BY <4>1 DEF Added
      <4> QED BY <2>4, <3>2, <4>2
    <3>4. z + i = b + k
      <4>1. PICK kk \in Int, jj \in Int, ii \in Int : kk = k /\ jj = j /\ ii = i
        OBVIOUS
      <4>2. ii = f + jj /\ jj = o + kk
        BY <3>1, <3>2, <4>1
      <4>3. z + ii = b + kk
        BY <2>5, <4>2
      <4> QED BY <4>1, <4>3
    <3> QED BY <3>1, <3>2, <3>3, <3>4
  <2>7. DOMAIN written = 1..Len(written) /\ Len(written) \in Nat
    BY <1>16, <1>18 DEF Added
  <2> QED BY <2>2, <2>4, <2>5, <2>6, <2>7 DEF Lands
<1>19. ASSUME sink' = "open", NEW x, NEW w, Has(todo, x, w), x \notin DOMAIN auditTodo'
       PROVE  Recorded(x, w)'
  <2>1. PICK k \in DOMAIN todo[x] : todo[x][k].what = w
    BY <1>19 DEF Has
  <2>2. /\ x \in DOMAIN todo /\ todo[x] \in Seq(Records(Nat))
        /\ \A i \in DOMAIN todo[x] : todo[x][i].seq = x
    BY <1>19 DEF Has, TodoTyped
  <2>3. k \in 1..Len(todo[x])
    BY <2>1, <2>2
  <2>4. Lands(todo[x])
    BY <1>18, <1>19, <2>2
  <2>5. PICK i : i \in DOMAIN written' /\ written'[i].seq = todo[x][k].seq /\ written'[i].what = todo[x][k].what
    <3>1. PICK q : q = todo[x] /\ Lands(q) /\ k \in 1..Len(q)
      BY <2>3, <2>4
    <3>2. PICK o \in Nat : \A y \in 1..Len(q) :
            /\ o + y \in DOMAIN written'
            /\ written'[o + y].seq = q[y].seq /\ written'[o + y].what = q[y].what
      BY <3>1 DEF Lands
    <3> QED BY <3>1, <3>2
  <2> QED BY <2>1, <2>2, <2>5 DEF Recorded
<1> QED BY <1>8, <1>16, <1>17, <1>18, <1>19

-----------------------------------------------------------------------------
\* What a step that resolves another sequence does to x.
Moves(x) ==
  /\ Settled(x)' <=> Settled(x)
  /\ \A w : sink' = "open" /\ Has(auditTodo, x, w) => Has(auditTodo', x, w) \/ Recorded(x, w)'
  /\ x \in DOMAIN auditTodo' => x \in DOMAIN auditTodo
  /\ ~Settled(x) =>
       /\ x \in actionIDs' <=> x \in actionIDs
       /\ x \in DOMAIN auditTodo' <=> x \in DOMAIN auditTodo
       /\ x \in DOMAIN auditTodo => auditTodo'[x] = auditTodo[x]

\* What resolving x does to it: the rows of an action are written, in order.
Settles(x) ==
  /\ Settled(x)'
  /\ \A w : sink' = "open" /\ Has(auditTodo, x, w) => Has(auditTodo', x, w) \/ Recorded(x, w)'
  /\ x \in DOMAIN auditTodo' => x \in DOMAIN auditTodo
  /\ ~Settled(x) /\ x \in actionIDs => x \notin DOMAIN auditTodo'
  /\ ~Settled(x) /\ x \in actionIDs /\ x \in DOMAIN auditTodo /\ sink' = "open" =>
       \E rows : Stamps(rows, auditTodo[x]) /\ Added(rows)

Frame == QueueInv' /\ Grown /\ UNCHANGED auditSeq /\ (sink' = "open" => sink = "open")

LEMMA ResolveFacts ==
  ASSUME QueueInv, NEW s \in 0..(auditSeq - 1), ResolveAudit(s)
  PROVE  /\ Frame /\ Settles(s)
         /\ \A x \in 0..(auditSeq - 1) : x # s => Moves(x)
<1>0. /\ auditSeq \in Nat /\ auditNext \in 0..auditSeq /\ sink \in Sinks /\ TrailTyped
      /\ TodoTyped(auditTodo, auditNext, auditSeq)
      /\ auditPending \subseteq auditNext..(auditSeq - 1)
      /\ Between(auditResolved, auditNext + 1, auditSeq)
      /\ \A x \in auditNext..(auditSeq - 1) : x \in auditPending \/ Resolved(auditResolved, x)
  BY DEF QueueInv, QueueTyped, FrontierStops
<1>1. CASE s < auditNext
  <2>1. UNCHANGED queueVars
    BY <1>1 DEF ResolveAudit
  <2> USE <2>1 DEF queueVars, queue, output
  <2>2. Frame
    BY <1>0, Same DEF Frame, QueueInv, QueueTyped, FrontierStops, TrailTyped
  <2>3. Settled(s)
    BY <1>1 DEF Settled
  <2>4. Settles(s)
    BY <2>3 DEF Settles, Settled
  <2>5. \A x : Moves(x)
    BY DEF Moves, Settled
  <2> QED BY <2>2, <2>4, <2>5
<1>2. CASE ~(s < auditNext)
  <2> DEFINE early == s \in actionIDs
  <2>1. PICK todo, pending, ids, marked, cards, first :
          /\ todo = IF early THEN Without(auditTodo, {s}) ELSE auditTodo
          /\ pending = auditPending \ {s}
          /\ ids = actionIDs \ {s}
          /\ marked = Mark(auditResolved, s)
          /\ cards = Prune(cardAfterSeq, pending \cup DOMAIN todo)
          /\ first = IF early THEN RowsOf(auditTodo, cardAfterSeq, s) ELSE <<>>
    OBVIOUS
  <2>2. Flush(marked, todo, pending, ids, cards, first)
    BY <1>2, <2>1 DEF ResolveAudit, ResolveQueued
  <2>3. PICK rs, m, n : rs = auditResolved /\ m = auditNext /\ n = auditSeq
    OBVIOUS
  <2>4. /\ m \in Nat /\ n \in Nat /\ m <= n /\ s \in m..(n - 1) /\ s \in Int
        /\ Between(rs, m, n)
    <3>1. m \in Nat /\ n \in Nat /\ m <= n /\ s \in m..(n - 1) /\ s \in Int
      BY <1>0, <1>2, <2>3
    <3>2. Between(rs, m + 1, n)
      BY <1>0, <2>3
    <3>3. \A r \in rs : m <= r.start
      BY <3>1, <3>2 DEF Between, Ranges
    <3> QED BY <3>1, <3>2, <3>3 DEF Between
  <2>5. /\ Between(marked, m, n)
        /\ \A x \in Int : Resolved(marked, x) <=> x = s \/ Resolved(rs, x)
    BY <2>1, <2>3, <2>4, MarkAdds
  <2>6. /\ TodoTyped(todo, auditNext, auditSeq)
        /\ \A x : x # s => /\ x \in DOMAIN todo <=> x \in DOMAIN auditTodo
                           /\ x \in DOMAIN todo => todo[x] = auditTodo[x]
        /\ ~early => todo = auditTodo
        /\ early => s \notin DOMAIN todo
        /\ DOMAIN todo \subseteq DOMAIN auditTodo
    <3>1. CASE early
      <4>1. todo = [x \in DOMAIN auditTodo \ {s} |-> auditTodo[x]]
        BY <2>1, <3>1 DEF Without
      <4>2. TodoTyped(todo, auditNext, auditSeq)
        BY <1>0, <4>1 DEF TodoTyped
      <4> QED BY <3>1, <4>1, <4>2
    <3>2. CASE ~early
      BY <1>0, <2>1, <3>2
    <3> QED BY <3>1, <3>2
  <2>7. PICK T : /\ first \in Seq(T)
                 /\ early /\ s \in DOMAIN auditTodo => Stamps(first, auditTodo[s])
    <3>1. CASE early /\ s \in DOMAIN auditTodo
      <4>1. PICK t : t = auditTodo[s]
        OBVIOUS
      <4>2. t \in Seq(Records(Nat))
        BY <1>0, <3>1, <4>1 DEF TodoTyped
      <4>3. PICK c : first = Stamped(t, c)
        BY <2>1, <3>1, <4>1 DEF RowsOf
      <4>4. /\ Stamps(first, t)
            /\ \A U : (\A i \in 1..Len(first) : first[i] \in U) => first \in Seq(U)
        BY <4>2, <4>3, StampedRows
      <4>5. PICK U : U = {first[i] : i \in 1..Len(first)}
        OBVIOUS
      <4>6. first \in Seq(U)
        BY <4>4, <4>5
      <4> QED BY <4>1, <4>4, <4>6
    <3>2. CASE ~(early /\ s \in DOMAIN auditTodo)
      <4>1. first = <<>>
        BY <2>1, <3>2 DEF RowsOf
      <4> QED BY <3>2, <4>1
    <3> QED BY <3>1, <3>2
  <2>8. /\ Advanced(marked, todo, pending, ids)
        /\ Grown /\ sink' \in Sinks
        /\ sink' = "open" =>
             /\ sink = "open" /\ Added(first)
             /\ \A x, w : Has(todo, x, w) /\ x \notin DOMAIN auditTodo' => Recorded(x, w)'
    BY <1>0, <2>2, <2>3, <2>5, <2>6, <2>7, FlushFacts
  <2>9. \A x \in Int : Settled(x)' <=> Settled(x) \/ x = s
    <3>1. ASSUME NEW x \in Int PROVE Settled(x)' <=> Settled(x) \/ x = s
      <4>1. auditNext \in Nat /\ auditNext' \in Nat /\ auditNext <= auditNext'
        BY <1>0, <2>8 DEF Advanced
      <4>2. x >= auditNext' => (Resolved(auditResolved', x) <=> Resolved(marked, x))
        BY <2>8 DEF Advanced
      <4>3. auditNext <= x /\ x < auditNext' => Resolved(marked, x)
        <5>1. PICK p \in Nat, q \in Nat : p = auditNext /\ q = auditNext'
          BY <4>1
        <5>2. p <= x /\ x < q => x \in p..(q - 1)
          OBVIOUS
        <5>3. \A y \in p..(q - 1) : Resolved(marked, y)
          BY <2>8, <5>1 DEF Advanced
        <5> QED BY <5>1, <5>2, <5>3
      <4>4. Resolved(marked, x) <=> x = s \/ Resolved(auditResolved, x)
        BY <2>3, <2>5
      <4>5. Settled(x)' <=> x < auditNext' \/ Resolved(auditResolved', x)
        BY DEF Settled
      <4>6. Settled(x) <=> x < auditNext \/ Resolved(auditResolved, x)
        BY DEF Settled
      <4>7. ~(s < auditNext)
        BY <1>2
      <4> QED BY <4>1, <4>2, <4>3, <4>4, <4>5, <4>6, <4>7
    <3> QED BY <3>1
  <2>10. Frame
    <3>1. QueueTyped'
      <4>1. auditSeq' \in Nat /\ auditNext' \in 0..auditSeq' /\ sink' \in Sinks
        BY <1>0, <2>8 DEF Advanced
      <4>2. TodoTyped(auditTodo', auditNext', auditSeq')
        BY <2>8 DEF Advanced
      <4>3. auditPending' \subseteq auditNext'..(auditSeq' - 1)
        <5>1. auditPending' \subseteq auditNext..(auditSeq - 1)
          BY <1>0, <2>1, <2>8 DEF Advanced
        <5>2. \A x \in auditPending' : x \notin auditNext..(auditNext' - 1)
          BY <2>8 DEF Advanced
        <5>3. auditSeq' = auditSeq /\ auditNext' \in Nat
          BY <1>0, <2>8 DEF Advanced
        <5>4. PICK p \in Nat, q \in Nat, n1 \in Nat, P \in {auditPending'} :
                p = auditNext /\ q = auditNext' /\ n1 = auditSeq /\ P = auditPending'
          BY <1>0, <5>3
        <5>5. P \subseteq p..(n1 - 1) /\ \A x \in P : x \notin p..(q - 1)
          BY <5>1, <5>2, <5>4
        <5>6. P \subseteq q..(n1 - 1)
          BY <5>5
        <5> QED BY <5>3, <5>4, <5>6
      <4> QED BY <4>1, <4>2, <4>3 DEF QueueTyped, TodoTyped
    <3>2. \A x \in auditNext'..(auditSeq' - 1) : x \in auditPending' \/ Resolved(auditResolved', x)
      <4>1. ASSUME NEW x \in auditNext'..(auditSeq' - 1), ~Resolved(auditResolved', x)
            PROVE  x \in auditPending'
        <5>1. x \in Int /\ x >= auditNext' /\ x \in auditNext..(auditSeq - 1)
          BY <1>0, <2>8 DEF Advanced
        <5>2. x # s /\ ~Resolved(auditResolved, x)
          BY <2>3, <2>5, <2>8, <4>1, <5>1 DEF Advanced
        <5>3. x \in pending
          BY <1>0, <2>1, <5>1, <5>2
        <5>4. x \notin auditNext..(auditNext' - 1)
          <6>1. PICK p \in Nat, q \in Nat : p = auditNext /\ q = auditNext'
            BY <1>0, <2>8 DEF Advanced
          <6>2. x >= q /\ x \in Int => x \notin p..(q - 1)
            OBVIOUS
          <6> QED BY <5>1, <6>1, <6>2
        <5> QED BY <2>8, <5>3, <5>4 DEF Advanced
      <4> QED BY <4>1
    <3>3. FrontierStops'
      BY <2>8, <3>2 DEF FrontierStops, Advanced
    <3>4. TrailTyped'
      BY <2>8 DEF Grown
    <3> QED BY <2>8, <3>1, <3>3, <3>4 DEF Frame, QueueInv, Advanced
  <2>11. ASSUME NEW x, NEW w, sink' = "open", Has(auditTodo, x, w), x \in DOMAIN todo
         PROVE  Has(auditTodo', x, w) \/ Recorded(x, w)'
    <3>1. Has(todo, x, w)
      BY <2>6, <2>11 DEF Has
    <3>2. x \in DOMAIN auditTodo' => auditTodo'[x] = todo[x]
      BY <2>8 DEF Advanced
    <3> QED BY <2>8, <2>11, <3>1, <3>2 DEF Has
  <2>12. Settles(s)
    <3>1. Settled(s)'
      BY <2>4, <2>9
    <3>2. s \in DOMAIN auditTodo' => s \in DOMAIN todo
      BY <2>8 DEF Advanced
    <3>3. ASSUME early, s \in DOMAIN auditTodo, sink' = "open"
          PROVE  \E rows : Stamps(rows, auditTodo[s]) /\ Added(rows)
      BY <2>7, <2>8, <3>3
    <3>4. ASSUME NEW w, sink' = "open", Has(auditTodo, s, w), early
          PROVE  Recorded(s, w)'
      <4>1. PICK k \in DOMAIN auditTodo[s] : auditTodo[s][k].what = w
        BY <3>4 DEF Has
      <4>2. /\ auditTodo[s] \in Seq(Records(Nat)) /\ s \in DOMAIN auditTodo
            /\ auditTodo[s][k].seq = s
        BY <1>0, <3>4, <4>1 DEF Has, TodoTyped
      <4>3. PICK rows : Stamps(rows, auditTodo[s]) /\ Added(rows)
        BY <3>3, <3>4, <4>2
      <4>4. k \in 1..Len(rows) /\ rows[k].seq = s /\ rows[k].what = w
        BY <4>1, <4>2, <4>3 DEF Stamps
      <4>5. PICK i : i = Len(written) + k
        OBVIOUS
      <4>6. i \in DOMAIN written' /\ written'[i] = rows[k]
        BY <4>3, <4>4, <4>5 DEF Added
      <4> QED BY <4>4, <4>6 DEF Recorded
    <3>5. \A w : sink' = "open" /\ Has(auditTodo, s, w) => Has(auditTodo', s, w) \/ Recorded(s, w)'
      <4>1. ~early /\ (\E w : Has(auditTodo, s, w)) => s \in DOMAIN todo
        BY <2>6 DEF Has
      <4> QED BY <2>11, <3>4, <4>1
    <3> QED BY <2>6, <3>1, <3>2, <3>3, <3>5 DEF Settles
  <2>13. ASSUME NEW x \in 0..(auditSeq - 1), x # s PROVE Moves(x)
    <3>1. Settled(x)' <=> Settled(x)
      BY <1>0, <2>9, <2>13
    <3>2. \A w : sink' = "open" /\ Has(auditTodo, x, w) => Has(auditTodo', x, w) \/ Recorded(x, w)'
      <4>1. (\E w : Has(auditTodo, x, w)) => x \in DOMAIN todo
        BY <2>6, <2>13 DEF Has
      <4> QED BY <2>11, <4>1
    <3>3. x \in DOMAIN auditTodo' => x \in DOMAIN auditTodo /\ auditTodo'[x] = auditTodo[x]
      BY <2>6, <2>8, <2>13 DEF Advanced
    <3>4. ~Settled(x) => x >= auditNext'
      BY <1>0, <2>8, <3>1 DEF Settled, Advanced
    <3>5. ~Settled(x) => x \notin auditNext..(auditNext' - 1)
      BY <1>0, <2>8, <3>4 DEF Advanced
    <3>6. ~Settled(x) => (x \in actionIDs' <=> x \in actionIDs)
      BY <2>1, <2>8, <2>13, <3>5 DEF Advanced
    <3>7. ~Settled(x) => (x \in DOMAIN auditTodo' <=> x \in DOMAIN auditTodo)
      BY <2>6, <2>8, <2>13, <3>3, <3>4 DEF Advanced
    <3> QED BY <3>1, <3>2, <3>3, <3>6, <3>7 DEF Moves
  <2> QED BY <2>10, <2>12, <2>13
<1> QED BY <1>1, <1>2

LEMMA DrainFacts ==
  ASSUME QueueInv, DrainAudits
  PROVE  /\ Frame /\ DOMAIN auditTodo' = {} /\ auditNext' = auditSeq
         /\ \A x, w : sink' = "open" /\ Has(auditTodo, x, w) => Recorded(x, w)'
         /\ \A x \in DOMAIN auditTodo : sink' = "open" => Lands(auditTodo[x])
<1>0. /\ auditSeq \in Nat /\ auditNext \in 0..auditSeq /\ sink \in Sinks /\ TrailTyped
      /\ TodoTyped(auditTodo, auditNext, auditSeq)
      /\ auditPending \subseteq auditNext..(auditSeq - 1)
      /\ Between(auditResolved, auditNext + 1, auditSeq)
      /\ \A x \in auditNext..(auditSeq - 1) : x \in auditPending \/ Resolved(auditResolved, x)
  BY DEF QueueInv, QueueTyped, FrontierStops
<1>1. PICK rs, m, n, todo, pending, ids, cards :
        /\ rs = auditResolved /\ m = auditNext /\ n = auditSeq /\ todo = auditTodo
        /\ pending = auditPending /\ ids = actionIDs /\ cards = cardAfterSeq
  OBVIOUS
<1>2. PICK new : new = {s \in DOMAIN todo \cup pending : ~Resolved(rs, s)}
  OBVIOUS
<1>3. PICK marked : marked = MarkedAll(rs, new)
  OBVIOUS
<1>4. Flush(marked, todo, pending, ids, cards, <<>>)
  BY <1>1, <1>2, <1>3 DEF DrainAudits, MarkedAll
<1>5. m \in Nat /\ n \in Nat /\ m <= n /\ new \subseteq m..(n - 1)
  BY <1>0, <1>1, <1>2 DEF TodoTyped
<1>6. Between(rs, m, n)
  <2>1. Between(rs, m + 1, n)
    BY <1>0, <1>1
  <2>2. \A r \in rs : m <= r.start
    BY <1>5, <2>1 DEF Between, Ranges
  <2> QED BY <2>1, <2>2 DEF Between
<1>7. /\ Between(marked, m, n)
      /\ \A x \in Int : Resolved(marked, x) <=> x \in new \/ Resolved(rs, x)
  <2>1. /\ Between(MarkedAll(rs, new), m, n)
        /\ \A x \in Int : Resolved(MarkedAll(rs, new), x) <=> x \in new \/ Resolved(rs, x)
    BY <1>5, <1>6, MarkAll, Zenon
  <2> QED BY <1>3, <2>1
<1>8. PICK first \in Seq({}) : first = <<>>
  <2>1. <<>> \in Seq({})
    OBVIOUS
  <2> QED BY <2>1, Zenon
<1>9. /\ Advanced(marked, todo, pending, ids)
      /\ Grown /\ sink' \in Sinks
      /\ sink' = "open" =>
           /\ sink = "open"
           /\ \A x \in DOMAIN todo : x \notin DOMAIN auditTodo' => Lands(todo[x])
           /\ \A x, w : Has(todo, x, w) /\ x \notin DOMAIN auditTodo' => Recorded(x, w)'
  <2>1. TodoTyped(todo, auditNext, auditSeq) /\ Between(marked, auditNext, auditSeq)
    BY <1>0, <1>1, <1>7
  <2> QED BY <1>0, <1>4, <1>8, <2>1, FlushFacts
<1>10. \A x \in m..(n - 1) : Resolved(marked, x)
  <2>1. \A x \in m..(n - 1) : x \in pending \/ Resolved(rs, x)
    BY <1>0, <1>1
  <2> QED BY <1>2, <1>5, <1>7, <2>1
<1>11. auditNext' = n
  <2>1. PICK up \in m..n, rest \in {auditResolved'} : up = auditNext'
    BY <1>1, <1>9 DEF Advanced
  <2>2. /\ Between(rest, up + 1, n)
        /\ \A x \in Int : x >= up => (Resolved(rest, x) <=> Resolved(marked, x))
    BY <1>1, <1>9, <2>1 DEF Advanced
  <2>3. ASSUME up # n PROVE FALSE
    <3>1. up \in m..(n - 1) /\ up \in Int /\ up >= up
      BY <1>5, <2>1, <2>3
    <3>2. Resolved(rest, up)
      BY <1>10, <2>2, <3>1
    <3>3. PICK r \in rest : r.start <= up /\ up <= r.end
      BY <3>2 DEF Resolved
    <3>4. r.start \in Nat /\ up + 1 <= r.start
      BY <2>2, <3>3 DEF Between, Ranges
    <3> QED BY <1>5, <2>1, <3>3, <3>4
  <2> QED BY <2>1, <2>3
<1>12. DOMAIN auditTodo' = {}
  <2>1. DOMAIN auditTodo' \subseteq auditNext'..(auditSeq - 1)
    BY <1>9 DEF Advanced, TodoTyped
  <2>2. DOMAIN auditTodo' \subseteq n..(n - 1) /\ n..(n - 1) = {}
    BY <1>1, <1>5, <1>11, <2>1
  <2> QED BY <2>2
<1>13. QueueTyped'
  <2>1. auditSeq' \in Nat /\ auditNext' \in 0..auditSeq' /\ sink' \in Sinks
    BY <1>0, <1>9 DEF Advanced
  <2>2. TodoTyped(auditTodo', auditNext', auditSeq')
    BY <1>9 DEF Advanced
  <2>3. auditPending' = {}
    <3>1. auditPending' = pending \ (m..(n - 1))
      BY <1>1, <1>9, <1>11 DEF Advanced
    <3>2. pending \subseteq m..(n - 1)
      BY <1>0, <1>1
    <3> QED BY <3>1, <3>2
  <2> QED BY <2>1, <2>2, <2>3 DEF QueueTyped, TodoTyped
<1>14. FrontierStops'
  <2>1. auditNext'..(auditSeq' - 1) = {}
    BY <1>1, <1>5, <1>9, <1>11 DEF Advanced
  <2> QED BY <1>9, <2>1 DEF FrontierStops, Advanced
<1>15. Frame
  BY <1>9, <1>13, <1>14 DEF Frame, QueueInv, Grown, Advanced
<1> QED BY <1>1, <1>9, <1>11, <1>12, <1>15

-----------------------------------------------------------------------------
(***************************************************************************)
(* What holds of a request that waits goes on to hold.                     *)
(***************************************************************************)
LEMMA Still ==
  ASSUME QueueInv, UNCHANGED <<queue, written, sink>>
  PROVE  Frame /\ \A x : Moves(x)
<1> USE DEF queue
<1>1. Frame
  BY Same DEF Frame, QueueInv, QueueTyped, FrontierStops, TrailTyped
<1>2. \A x : Moves(x)
  BY DEF Moves, Settled
<1> QED BY <1>1, <1>2

LEMMA StaysRecorded ==
  ASSUME Grown, NEW x, NEW w, Recorded(x, w) PROVE Recorded(x, w)'
BY DEF Grown, Recorded

LEMMA StaysOrdered ==
  ASSUME Grown, NEW r \in Reqs, seqOf'[r] = seqOf[r], Ordered(r) PROVE Ordered(r)'
BY DEF Grown, Ordered, RowsIn

LEMMA RequestKept ==
  ASSUME NEW r \in Reqs, RequestRows(r), Grown, sink' = "open" => sink = "open",
         UNCHANGED mode,
         pc'[r] = pc[r], reply'[r] = reply[r], seqOf'[r] = seqOf[r],
         pc[r] # "idle" => Moves(seqOf[r])
  PROVE  RequestRows(r)'
<1>1. CASE pc[r] = "idle"
  <2>1. reply[r] = "none"
    BY <1>1 DEF RequestRows
  <2> QED BY <1>1, <2>1 DEF RequestRows
<1>2. CASE pc[r] # "idle"
  <2>1. PICK x : x = seqOf[r] /\ seqOf'[r] = x
    OBVIOUS
  <2>2. Moves(x)
    BY <1>2, <2>1
  <2>3. /\ Settled(x)' <=> Settled(x)
        /\ \A w : sink' = "open" /\ Has(auditTodo, x, w) => Has(auditTodo', x, w) \/ Recorded(x, w)'
        /\ x \in DOMAIN auditTodo' => x \in DOMAIN auditTodo
        /\ ~Settled(x) =>
             /\ x \in actionIDs' <=> x \in actionIDs
             /\ x \in DOMAIN auditTodo' <=> x \in DOMAIN auditTodo
             /\ x \in DOMAIN auditTodo => auditTodo'[x] = auditTodo[x]
    BY <2>2 DEF Moves
  <2>4. Kept(r, "allow") => Kept(r, "allow")'
    BY <2>1, <2>3, StaysRecorded DEF Kept
  <2>5. Paired(r) => Paired(r)'
    BY <2>1, <2>3 DEF Paired
  <2>6. ResponseHeld(r) => ResponseHeld(r)'
    <3>1. ASSUME ResponseHeld(r) PROVE ResponseHeld(r)'
      <4>1. PICK k \in DOMAIN auditTodo[x] :
              /\ auditTodo[x][k].what = "response"
              /\ sink = "open" =>
                   \/ Recorded(x, "allow")
                   \/ \E i \in 1..(k - 1) : auditTodo[x][i].what = "allow"
        BY <2>1, <3>1 DEF ResponseHeld
      <4>2. x \in actionIDs /\ ~Settled(x) /\ x \in DOMAIN auditTodo
        BY <2>1, <3>1 DEF ResponseHeld
      <4>3. x \in actionIDs' /\ ~Settled(x)' /\ x \in DOMAIN auditTodo' /\ auditTodo'[x] = auditTodo[x]
        BY <2>3, <4>2
      <4>4. sink' = "open" =>
              \/ Recorded(x, "allow")'
              \/ \E i \in 1..(k - 1) : auditTodo'[x][i].what = "allow"
        BY <4>1, <4>3, StaysRecorded
      <4> QED BY <2>1, <4>1, <4>3, <4>4 DEF ResponseHeld
    <3> QED BY <3>1
  <2>7. (Ordered(r) => Ordered(r)') /\ (Recorded(x, "dispatch") => Recorded(x, "dispatch")')
    BY StaysOrdered, StaysRecorded
  <2>8. Pairing' = Pairing
    BY DEF Pairing
  <2> QED BY <1>2, <2>1, <2>3, <2>4, <2>5, <2>6, <2>7, <2>8 DEF RequestRows
<1> QED BY <1>1, <1>2

-----------------------------------------------------------------------------
\* A step of r leaves the others as they are, and r with its rows.
StepOf(r) ==
  /\ QueueInv' /\ Grown /\ (sink' = "open" => sink = "open")
  /\ RequestsTyped' /\ SequencesOwned'
  /\ UNCHANGED <<mode, run>>
  /\ \A q \in Reqs : q # r =>
       /\ pc'[q] = pc[q] /\ reply'[q] = reply[q] /\ seqOf'[q] = seqOf[q]
       /\ pc[q] # "idle" => Moves(seqOf[q])
  /\ RequestRows(r)'

LEMMA OwnSequence ==
  ASSUME Session, NEW r \in Reqs, pc[r] # "idle"
  PROVE  /\ seqOf[r] \in 0..(auditSeq - 1)
         /\ \A q \in Reqs : q # r /\ pc[q] # "idle" =>
              seqOf[q] \in 0..(auditSeq - 1) /\ seqOf[q] # seqOf[r]
<1>1. auditSeq \in Nat
  BY DEF Session, QueueInv, QueueTyped
<1>2. \A q \in Reqs : seqOf[q] \in Nat
  BY DEF Session, RequestsTyped
<1>3. \A q \in Reqs : pc[q] # "idle" => seqOf[q] < auditSeq
  BY DEF Session, SequencesOwned
<1>4. \A q \in Reqs : q # r /\ pc[q] # "idle" => seqOf[q] # seqOf[r]
  BY DEF Session, SequencesOwned
<1> QED BY <1>1, <1>2, <1>3, <1>4

LEMMA GoesTo ==
  ASSUME Session, NEW r \in Reqs, pc[r] # "idle", NEW s \in Places \ {"idle"}, Goto(r, s),
         UNCHANGED <<seqOf, call, auditSeq>>,
         \/ UNCHANGED reply
         \/ \E a \in {"none", "result", "unverified"} : reply' = [reply EXCEPT ![r] = a]
  PROVE  /\ RequestsTyped' /\ SequencesOwned' /\ pc'[r] = s /\ seqOf'[r] = seqOf[r]
         /\ \A q \in Reqs : q # r =>
              pc'[q] = pc[q] /\ reply'[q] = reply[q] /\ seqOf'[q] = seqOf[q]
<1>1. /\ pc \in [Reqs -> Places] /\ seqOf \in [Reqs -> Nat]
      /\ call \in [Reqs -> [tool : Tools, card : Nat]]
      /\ reply \in [Reqs -> {"none", "result", "unverified"}]
  BY DEF Session, RequestsTyped
<1>2. pc' \in [Reqs -> Places] /\ pc'[r] = s /\ \A q \in Reqs : q # r => pc'[q] = pc[q]
  BY <1>1 DEF Goto
<1>3. /\ reply' \in [Reqs -> {"none", "result", "unverified"}]
      /\ \A q \in Reqs : q # r => reply'[q] = reply[q]
  BY <1>1
<1>4. RequestsTyped'
  BY <1>1, <1>2, <1>3 DEF RequestsTyped
<1>5. \A q \in Reqs : pc'[q] # "idle" <=> pc[q] # "idle"
  BY <1>2
<1>6. SequencesOwned'
  BY <1>5 DEF Session, SequencesOwned
<1> QED BY <1>2, <1>3, <1>4, <1>6

LEMMA StepArrive ==
  ASSUME Session, NEW r \in Reqs, RequestRows(r), Arrive(r) PROVE StepOf(r)
<1>0. /\ auditSeq \in Nat /\ auditNext \in 0..auditSeq /\ sink \in Sinks /\ TrailTyped
      /\ TodoTyped(auditTodo, auditNext, auditSeq)
      /\ auditPending \subseteq auditNext..(auditSeq - 1)
      /\ Between(auditResolved, auditNext + 1, auditSeq)
      /\ \A x \in auditNext..(auditSeq - 1) : x \in auditPending \/ Resolved(auditResolved, x)
  BY DEF Session, QueueInv, QueueTyped, FrontierStops
<1>1. /\ pc[r] = "idle" /\ auditSeq' = auditSeq + 1
      /\ auditPending' = auditPending \cup {auditSeq}
      /\ seqOf' = [seqOf EXCEPT ![r] = auditSeq]
      /\ UNCHANGED <<auditNext, auditTodo, auditResolved, actionIDs, written, sink, reply, run, mode>>
  BY DEF Arrive, Reserve, output
<1>2. /\ pc \in [Reqs -> Places] /\ seqOf \in [Reqs -> Nat]
      /\ call \in [Reqs -> [tool : Tools, card : Nat]]
  BY DEF Session, RequestsTyped
<1>3. /\ pc' \in [Reqs -> Places] /\ pc'[r] = "reserved"
      /\ \A q \in Reqs : q # r => pc'[q] = pc[q]
  BY <1>2 DEF Arrive, Goto, Places
<1>4. seqOf' \in [Reqs -> Nat] /\ seqOf'[r] = auditSeq /\ \A q \in Reqs : q # r => seqOf'[q] = seqOf[q]
  BY <1>0, <1>1, <1>2
<1>5. call' \in [Reqs -> [tool : Tools, card : Nat]]
  <2>1. mode.cards \subseteq Nat
    BY SessionAssumption DEF Session
  <2>2. Calls \subseteq [tool : Tools, card : Nat]
    <3>1. ASSUME NEW c \in [tool : {"claim", "release"}, card : mode.cards]
          PROVE  c \in [tool : Tools, card : Nat]
      <4>1. c = [tool |-> c.tool, card |-> c.card] /\ c.tool \in Tools /\ c.card \in Nat
        BY <2>1, <3>1 DEF Tools
      <4> QED BY <4>1
    <3>2. NoCall \in [tool : Tools, card : Nat]
      BY DEF NoCall, Tools
    <3> QED BY <3>1, <3>2 DEF Calls
  <2>3. PICK c \in Calls : call' = [call EXCEPT ![r] = c]
    BY DEF Arrive
  <2>4. c \in [tool : Tools, card : Nat]
    BY <2>2
  <2> QED BY <1>2, <2>3, <2>4
<1>6. RequestsTyped'
  BY <1>1, <1>3, <1>4, <1>5 DEF RequestsTyped, Session
<1>7. \A q \in Reqs : q # r /\ pc[q] # "idle" => seqOf[q] \in 0..(auditSeq - 1)
  <2>1. \A q \in Reqs : pc[q] # "idle" => seqOf[q] < auditSeq
    BY DEF Session, SequencesOwned
  <2> QED BY <1>0, <1>2, <2>1
<1>8. SequencesOwned'
  <2>1. \A q \in Reqs : pc'[q] # "idle" => seqOf'[q] < auditSeq'
    <3>1. ASSUME NEW q \in Reqs, pc'[q] # "idle" PROVE seqOf'[q] < auditSeq'
      <4>1. CASE q = r
        BY <1>0, <1>1, <1>4, <4>1
      <4>2. CASE q # r
        BY <1>0, <1>1, <1>3, <1>4, <1>7, <3>1, <4>2
      <4> QED BY <4>1, <4>2
    <3> QED BY <3>1
  <2>2. ASSUME NEW p \in Reqs, NEW q \in Reqs, p # q, pc'[p] # "idle", pc'[q] # "idle"
        PROVE  seqOf'[p] # seqOf'[q]
    <3>1. CASE p # r /\ q # r
      BY <1>3, <1>4, <2>2, <3>1 DEF Session, SequencesOwned
    <3>2. CASE p = r
      BY <1>0, <1>3, <1>4, <1>7, <2>2, <3>2
    <3>3. CASE q = r
      BY <1>0, <1>3, <1>4, <1>7, <2>2, <3>3
    <3> QED BY <3>1, <3>2, <3>3
  <2> QED BY <2>1, <2>2 DEF SequencesOwned
<1>9. QueueInv'
  <2>1. PICK m \in Nat, n \in Nat : m = auditNext /\ n = auditSeq /\ m <= n
    BY <1>0
  <2>2. m..(n - 1) \subseteq m..n /\ n + 1 - 1 = n /\ n \in m..n
    BY <2>1
  <2>3. TodoTyped(auditTodo, m, n + 1)
    BY <1>0, <2>1, <2>2 DEF TodoTyped
  <2>4. QueueTyped'
    BY <1>0, <1>1, <2>1, <2>2, <2>3 DEF QueueTyped, TodoTyped
  <2>5. Between(auditResolved, m + 1, n + 1)
    <3>1. \A q \in auditResolved : q.end \in Nat /\ q.end < n => q.end < n + 1
      BY <2>1
    <3> QED BY <1>0, <2>1, <3>1 DEF Between, Ranges
  <2>6. \A x \in m..n : x \in auditPending' \/ Resolved(auditResolved, x)
    <3>1. \A x \in m..n : x = n \/ x \in m..(n - 1)
      BY <2>1
    <3> QED BY <1>0, <1>1, <2>1, <3>1
  <2>7. FrontierStops'
    BY <1>1, <2>1, <2>2, <2>5, <2>6 DEF FrontierStops
  <2> QED BY <1>0, <1>1, <2>4, <2>7 DEF QueueInv, TrailTyped
<1>10. Grown /\ (sink' = "open" => sink = "open") /\ UNCHANGED <<mode, run>>
  BY <1>0, <1>1, Same
<1>11. \A x : Moves(x)
  BY <1>1 DEF Moves, Settled
<1>12. RequestRows(r)'
  <2>1. reply'[r] = "none"
    BY <1>1 DEF RequestRows
  <2>2. ~Settled(auditSeq) /\ auditSeq \notin DOMAIN auditTodo
    <3>1. PICK n \in Nat : n = auditSeq /\ ~(n < auditNext)
      BY <1>0
    <3>2. \A q \in auditResolved : ~(n <= q.end)
      BY <1>0, <3>1 DEF Between, Ranges
    <3>3. n \notin DOMAIN auditTodo
      BY <1>0, <3>1 DEF TodoTyped
    <3> QED BY <3>1, <3>2, <3>3 DEF Settled, Resolved
  <2>3. ~Settled(seqOf[r])' /\ seqOf'[r] \notin DOMAIN auditTodo'
    BY <1>1, <1>4, <2>2 DEF Settled
  <2> QED BY <1>3, <2>1, <2>3 DEF RequestRows
<1> QED BY <1>1, <1>3, <1>4, <1>6, <1>8, <1>9, <1>10, <1>11, <1>12 DEF StepOf

\* Rows queued under the sequence of a request that waits.
LEMMA AppendFacts ==
  ASSUME QueueInv, NEW s \in 0..(auditSeq - 1), ~Settled(s),
         NEW rows \in Seq(Records(Nat)), \A i \in 1..Len(rows) : rows[i].seq = s,
         AppendAudit(s, rows),
         UNCHANGED <<auditSeq, auditNext, auditResolved, auditPending, actionIDs, written, sink>>
  PROVE  /\ Frame /\ ~Settled(s)'
         /\ \A x : x # s => Moves(x)
         /\ s \in DOMAIN auditTodo'
         /\ auditTodo'[s] = IF s \in DOMAIN auditTodo THEN auditTodo[s] \o rows ELSE rows
<1>0. /\ auditSeq \in Nat /\ auditNext \in 0..auditSeq
      /\ TodoTyped(auditTodo, auditNext, auditSeq)
  BY DEF QueueInv, QueueTyped
<1>1. PICK m \in Nat, n \in Nat : m = auditNext /\ n = auditSeq /\ s \in m..(n - 1)
  BY <1>0 DEF Settled
<1>2. /\ auditTodo' = [x \in DOMAIN auditTodo \cup {s} |-> auditTodo'[x]]
      /\ DOMAIN auditTodo' = DOMAIN auditTodo \cup {s}
      /\ \A x \in DOMAIN auditTodo : x # s => auditTodo'[x] = auditTodo[x]
      /\ auditTodo'[s] = IF s \in DOMAIN auditTodo THEN auditTodo[s] \o rows ELSE rows
  BY DEF AppendAudit, Queued
<1>3. auditTodo'[s] \in Seq(Records(Nat)) /\ \A i \in DOMAIN auditTodo'[s] : auditTodo'[s][i].seq = s
  <2>1. CASE s \notin DOMAIN auditTodo
    BY <1>2, <2>1
  <2>2. CASE s \in DOMAIN auditTodo
    <3>1. PICK old \in Seq(Records(Nat)) : old = auditTodo[s]
      BY <1>0, <2>2 DEF TodoTyped
    <3>2. \A i \in DOMAIN old : old[i].seq = s
      BY <1>0, <2>2, <3>1 DEF TodoTyped
    <3>3. PICK all : all = old \o rows
      OBVIOUS
    <3>4. /\ all \in Seq(Records(Nat)) /\ Len(all) = Len(old) + Len(rows)
          /\ Len(old) \in Nat /\ Len(rows) \in Nat
          /\ \A i \in 1..Len(old) + Len(rows) : all[i] = IF i <= Len(old) THEN old[i] ELSE rows[i - Len(old)]
      BY <3>3, ConcatProperties
    <3>5. \A i \in DOMAIN all : all[i].seq = s
      <4>1. ASSUME NEW i \in 1..(Len(old) + Len(rows)) PROVE all[i].seq = s
        <5>1. CASE i <= Len(old)
          BY <3>2, <3>4, <5>1
        <5>2. CASE ~(i <= Len(old))
          <6>1. i - Len(old) \in 1..Len(rows)
            BY <3>4, <5>2
          <6>2. PICK j \in 1..Len(rows) : j = i - Len(old)
            BY <6>1
          <6> QED BY <3>4, <5>2, <6>2
        <5> QED BY <5>1, <5>2
      <4>2. DOMAIN all = 1..(Len(old) + Len(rows))
        BY <3>4
      <4> QED BY <4>1, <4>2
    <3>6. auditTodo'[s] = all
      BY <1>2, <2>2, <3>1, <3>3
    <3> QED BY <3>4, <3>5, <3>6
  <2> QED BY <2>1, <2>2
<1>4. TodoTyped(auditTodo', auditNext, auditSeq)
  <2>1. /\ DOMAIN auditTodo \subseteq m..(n - 1)
        /\ \A x \in DOMAIN auditTodo :
             /\ auditTodo[x] \in Seq(Records(Nat))
             /\ \A i \in DOMAIN auditTodo[x] : auditTodo[x][i].seq = x
    BY <1>0, <1>1 DEF TodoTyped
  <2>2. DOMAIN auditTodo' \subseteq m..(n - 1)
    BY <1>1, <1>2, <2>1
  <2>3. ASSUME NEW x \in DOMAIN auditTodo'
        PROVE  /\ auditTodo'[x] \in Seq(Records(Nat))
               /\ \A i \in DOMAIN auditTodo'[x] : auditTodo'[x][i].seq = x
    <3>1. CASE x = s
      BY <1>3, <3>1
    <3>2. CASE x # s
      <4>1. x \in DOMAIN auditTodo /\ auditTodo'[x] = auditTodo[x]
        BY <1>2, <3>2
      <4> QED BY <2>1, <4>1
    <3> QED BY <3>1, <3>2
  <2> QED BY <1>1, <1>2, <2>2, <2>3 DEF TodoTyped
<1>5. Frame
  <2>1. QueueTyped'
    BY <1>4 DEF QueueInv, QueueTyped, TodoTyped
  <2>2. FrontierStops' /\ Grown
    BY Same DEF QueueInv, FrontierStops
  <2> QED BY <2>1, <2>2 DEF Frame, QueueInv, Grown
<1>6. \A x : x # s => Moves(x)
  <2>1. ASSUME NEW x, x # s PROVE Moves(x)
    <3>1. /\ x \in DOMAIN auditTodo' <=> x \in DOMAIN auditTodo
          /\ x \in DOMAIN auditTodo => auditTodo'[x] = auditTodo[x]
      BY <1>2, <2>1
    <3>2. Settled(x)' <=> Settled(x)
      BY DEF Settled
    <3> QED BY <3>1, <3>2 DEF Moves, Has
  <2> QED BY <2>1
<1>7. ~Settled(s)'
  BY DEF Settled
<1> QED BY <1>2, <1>5, <1>6, <1>7

\* Two ways to take a step of r: by its own sequence, or none.
LEMMA StepsMove ==
  ASSUME Session, NEW r \in Reqs, pc[r] # "idle", NEW s \in Places \ {"idle"}, Goto(r, s),
         UNCHANGED <<seqOf, call, auditSeq, mode, run>>,
         \/ UNCHANGED reply
         \/ \E a \in {"none", "result", "unverified"} : reply' = [reply EXCEPT ![r] = a],
         Frame,
         \A x \in 0..(auditSeq - 1) : x # seqOf[r] => Moves(x),
         RequestRows(r)'
  PROVE  StepOf(r)
<1>1. /\ RequestsTyped' /\ SequencesOwned'
      /\ \A q \in Reqs : q # r =>
           pc'[q] = pc[q] /\ reply'[q] = reply[q] /\ seqOf'[q] = seqOf[q]
  BY GoesTo
<1>2. \A q \in Reqs : q # r /\ pc[q] # "idle" => Moves(seqOf[q])
  <2>1. ASSUME NEW q \in Reqs, q # r, pc[q] # "idle" PROVE Moves(seqOf[q])
    <3>1. PICK x : x = seqOf[q]
      OBVIOUS
    <3>2. x \in 0..(auditSeq - 1) /\ x # seqOf[r]
      BY <2>1, <3>1, OwnSequence
    <3>3. Moves(x)
      BY <3>2
    <3> QED BY <3>1, <3>3
  <2> QED BY <2>1
<1> QED BY <1>1, <1>2 DEF StepOf, Frame

LEMMA StepName ==
  ASSUME Session, NEW r \in Reqs, RequestRows(r), Name(r) PROVE StepOf(r)
<1>1. /\ pc[r] = "reserved" /\ Goto(r, "named")
      /\ IF Pairing THEN actionIDs' = actionIDs \cup {seqOf[r]} ELSE UNCHANGED actionIDs
      /\ UNCHANGED <<auditSeq, auditNext, auditTodo, auditResolved, auditPending, written, sink,
                     seqOf, call, reply, run, mode>>
  BY DEF Name, QueueActionID, output
<1>2. Frame
  BY <1>1, Same DEF Session, Frame, QueueInv, QueueTyped, FrontierStops, TrailTyped
<1>3. \A x \in 0..(auditSeq - 1) : x # seqOf[r] => Moves(x)
  BY <1>1 DEF Moves, Settled
<1>4. pc'[r] = "named"
  BY <1>1 DEF Session, RequestsTyped, Goto
<1>5. RequestRows(r)'
  <2>1. ~Settled(seqOf[r]) /\ seqOf[r] \notin DOMAIN auditTodo
    BY <1>1 DEF RequestRows
  <2>2. ~Settled(seqOf[r])' /\ seqOf'[r] \notin DOMAIN auditTodo'
    BY <1>1, <2>1 DEF Settled
  <2>3. Pairing' => seqOf'[r] \in actionIDs'
    BY <1>1 DEF Pairing
  <2>4. Pairing' /\ reply'[r] = "result" => Ordered(r)'
    <3>1. Pairing /\ reply[r] = "result" => Ordered(r)
      BY DEF RequestRows
    <3> QED BY <1>1, <1>2, <3>1, StaysOrdered DEF Frame, Pairing
  <2> QED BY <1>4, <2>2, <2>3, <2>4 DEF RequestRows
<1>6. "named" \in Places \ {"idle"}
  BY DEF Places
<1> QED BY <1>1, <1>2, <1>3, <1>5, <1>6, StepsMove

\* A row of r is a record of its sequence.
LEMMA RowTyped ==
  ASSUME Session, NEW r \in Reqs, NEW what \in Whats
  PROVE  Row(r, what) \in Records(Nat) /\ Row(r, what).seq = seqOf[r] /\ Row(r, what).what = what
<1>1. Pairing \in BOOLEAN
  BY SessionAssumption DEF Session, Pairing
<1>2. seqOf[r] \in Nat /\ call[r].card \in Nat
  BY DEF Session, RequestsTyped
<1> QED BY <1>1, <1>2 DEF Row, Records

\* What was passed on stays in order.
LEMMA ResultStays ==
  ASSUME NEW r \in Reqs, RequestRows(r), Grown, UNCHANGED <<mode, seqOf>>, reply'[r] = reply[r]
  PROVE  Pairing' /\ reply'[r] = "result" => Ordered(r)'
<1>1. Pairing /\ reply[r] = "result" => Ordered(r)
  BY DEF RequestRows
<1>2. seqOf'[r] = seqOf[r] /\ Pairing' = Pairing
  BY DEF Pairing
<1> QED BY <1>1, <1>2, StaysOrdered

LEMMA StepDecide ==
  ASSUME Session, NEW r \in Reqs, RequestRows(r), Decide(r) PROVE StepOf(r)
<1>1. /\ UNCHANGED <<auditSeq, auditNext, auditResolved, auditPending, actionIDs, written, sink,
                     seqOf, call, reply, run, mode>>
      /\ ~mode.nameless
  BY DEF Decide, output, Session
<1>2. pc[r] = "named" \/ pc[r] = "turned down"
  BY DEF Decide
<1>3. pc[r] \in Places
  BY DEF Session, RequestsTyped
<1>4. pc[r] = "named"
  BY <1>2, <1>3 DEF Places
<1>5. PICK s : s = seqOf[r]
  OBVIOUS
<1>6. /\ s \in 0..(auditSeq - 1) /\ ~Settled(s) /\ s \notin DOMAIN auditTodo
      /\ Pairing => s \in actionIDs
  BY <1>4, <1>5, OwnSequence DEF RequestRows
<1>7. PICK d \in Records(Nat), g \in Records(Nat), a \in Records(Nat) :
        /\ d = Row(r, "deny") /\ g = Row(r, "granted") /\ a = Row(r, "allow")
        /\ d.seq = s /\ g.seq = s /\ a.seq = s /\ a.what = "allow"
  <2>1. {"deny", "granted", "allow"} \subseteq Whats
    BY DEF Whats
  <2> QED BY <1>5, <2>1, RowTyped
<1>8. \/ AppendAudit(s, <<d>>) /\ Goto(r, "refused")
      \/ AppendAudit(s, <<g, a>>) /\ Goto(r, "granted")
      \/ AppendAudit(s, <<a>>) /\ Goto(r, "allowed")
  BY <1>1, <1>4, <1>5, <1>7 DEF Decide
<1>9. ASSUME NEW rows \in Seq(Records(Nat)), NEW to \in {"refused", "granted", "allowed"},
             AppendAudit(s, rows), Goto(r, to), \A i \in 1..Len(rows) : rows[i].seq = s,
             to # "refused" => \E i \in 1..Len(rows) : rows[i].what = "allow"
      PROVE  StepOf(r)
  <2>1. QueueInv
    BY DEF Session
  <2>2. /\ Frame /\ ~Settled(s)'
        /\ \A x : x # s => Moves(x)
        /\ s \in DOMAIN auditTodo' /\ auditTodo'[s] = rows
    BY <1>1, <1>6, <1>9, <2>1, AppendFacts
  <2>3. pc'[r] = to
    BY <1>9 DEF Session, RequestsTyped, Goto
  <2>4. seqOf'[r] = s /\ Pairing' = Pairing
    BY <1>1, <1>5 DEF Pairing
  <2>5. to # "refused" => Kept(r, "allow")'
    <3>1. to # "refused" => Has(auditTodo', s, "allow")
      BY <1>9, <2>2 DEF Has
    <3> QED BY <2>4, <3>1 DEF Kept
  <2>6. Pairing' => s \in actionIDs'
    BY <1>1, <1>6, <2>4
  <2>7. Paired(r)' \/ ~Pairing'
    BY <2>2, <2>4, <2>6 DEF Paired
  <2>8. Pairing' /\ reply'[r] = "result" => Ordered(r)'
    BY <1>1, <2>2, ResultStays DEF Frame
  <2>9. RequestRows(r)'
    BY <2>2, <2>3, <2>4, <2>5, <2>6, <2>7, <2>8 DEF RequestRows
  <2>10. to \in Places \ {"idle"}
    BY DEF Places
  <2>11. \A x \in 0..(auditSeq - 1) : x # seqOf[r] => Moves(x)
    BY <1>5, <2>2
  <2> QED BY <1>1, <1>4, <1>9, <2>2, <2>9, <2>10, <2>11, StepsMove
<1>10. CASE AppendAudit(s, <<d>>) /\ Goto(r, "refused")
  <2>1. PICK rows \in Seq(Records(Nat)) : rows = <<d>>
    <3>1. <<d>> \in Seq(Records(Nat))
      OBVIOUS
    <3> QED BY <3>1, Zenon
  <2>2. \A i \in 1..Len(rows) : rows[i].seq = s
    BY <1>7, <2>1
  <2> QED BY <1>9, <1>10, <2>1, <2>2
<1>11. CASE AppendAudit(s, <<a>>) /\ Goto(r, "allowed")
  <2>1. PICK rows \in Seq(Records(Nat)) : rows = <<a>>
    <3>1. <<a>> \in Seq(Records(Nat))
      OBVIOUS
    <3> QED BY <3>1, Zenon
  <2>2. \A i \in 1..Len(rows) : rows[i].seq = s
    BY <1>7, <2>1
  <2>3. 1 \in 1..Len(rows) /\ rows[1].what = "allow"
    BY <1>7, <2>1
  <2> QED BY <1>9, <1>11, <2>1, <2>2, <2>3
<1>12. CASE AppendAudit(s, <<g, a>>) /\ Goto(r, "granted")
  <2>1. PICK rows \in Seq(Records(Nat)) : rows = <<g, a>>
    <3>1. <<g, a>> \in Seq(Records(Nat))
      OBVIOUS
    <3> QED BY <3>1, Zenon
  <2>2. \A i \in 1..Len(rows) : rows[i].seq = s
    BY <1>7, <2>1
  <2>3. 2 \in 1..Len(rows) /\ rows[2].what = "allow"
    BY <1>7, <2>1
  <2> QED BY <1>9, <1>12, <2>1, <2>2, <2>3
<1> QED BY <1>8, <1>10, <1>11, <1>12

LEMMA StepDispatch ==
  ASSUME Session, NEW r \in Reqs, RequestRows(r), Dispatch(r) PROVE StepOf(r)
<1>1. /\ pc[r] = "allowed"
      /\ UNCHANGED <<queue, seqOf, call, reply, run, mode>>
      /\ Goto(r, IF Required /\ sink' = "failed" THEN "unsent" ELSE "sent")
  BY DEF Dispatch
<1>2. sink \in Sinks /\ TrailTyped
  BY DEF Session, QueueInv, QueueTyped
<1>3. Pairing => Required
  BY SessionAssumption DEF Session, Pairing, Required
<1>4. /\ Grown /\ sink' \in Sinks /\ (sink' = "open" => sink = "open")
      /\ Required /\ sink' = "open" => Recorded(seqOf[r], "dispatch")'
  <2>1. CASE Required
    <3>1. PICK row : row = DirectRow(r, "dispatch")
      OBVIOUS
    <3>2. WriteDirect(row)
      BY <2>1, <3>1 DEF Dispatch
    <3>3. row.seq = seqOf[r] /\ row.what = "dispatch"
      BY <3>1 DEF DirectRow, Row
    <3>4. /\ Grown /\ sink' \in Sinks
          /\ sink' = "open" => sink = "open" /\ Added(<<row>>)
      BY <1>2, <3>2, WriteDirectGrows
    <3>5. PICK x : x = seqOf[r]
      OBVIOUS
    <3>6. sink' = "open" => Recorded(x, "dispatch")'
      <4>1. ASSUME Added(<<row>>) PROVE Recorded(x, "dispatch")'
        <5>1. 1 \in 1..Len(<<row>>) /\ <<row>>[1] = row
          OBVIOUS
        <5>2. PICK i : i = Len(written) + 1
          OBVIOUS
        <5>3. i \in DOMAIN written' /\ written'[i] = row
          BY <4>1, <5>1, <5>2 DEF Added
        <5> QED BY <3>3, <3>5, <5>3 DEF Recorded
      <4> QED BY <3>4, <4>1
    <3>7. seqOf'[r] = x
      BY <1>1, <3>5
    <3> QED BY <3>4, <3>6, <3>7 DEF Recorded
  <2>2. CASE ~Required
    <3>1. UNCHANGED <<written, sink>>
      BY <2>2 DEF Dispatch, output
    <3> QED BY <1>2, <2>2, <3>1, Same
  <2> QED BY <2>1, <2>2
<1>5. Frame
  BY <1>1, <1>4 DEF Session, Frame, QueueInv, QueueTyped, FrontierStops, Grown, queue
<1>6. PICK s : s = seqOf[r] /\ seqOf'[r] = s
  BY <1>1
<1>7. PICK to \in {"unsent", "sent"} :
        Goto(r, to) /\ to = IF Required /\ sink' = "failed" THEN "unsent" ELSE "sent"
  BY <1>1
<1>8. pc'[r] = to
  BY <1>7 DEF Session, RequestsTyped, Goto
<1>9. UNCHANGED <<auditTodo, actionIDs, auditNext, auditResolved>> /\ (Settled(s)' <=> Settled(s))
  BY <1>1 DEF queue, Settled
<1>10. \A x : Moves(x)
  BY <1>9 DEF Moves, Settled
<1>11. Kept(r, "allow")'
  <2>1. Kept(r, "allow")
    BY <1>1 DEF RequestRows
  <2> QED BY <1>4, <1>6, <1>9, <2>1, StaysRecorded DEF Kept
<1>12. Pairing' => Pairing /\ Paired(r)'
  <2>1. Pairing => Paired(r)
    BY <1>1 DEF RequestRows
  <2> QED BY <1>1, <1>6, <1>9, <2>1 DEF Pairing, Paired
<1>13. Pairing' /\ to = "sent" /\ sink' = "open" => Recorded(s, "dispatch")'
  BY <1>1, <1>3, <1>4, <1>6 DEF Pairing, Recorded
<1>14. Pairing' /\ reply'[r] = "result" => Ordered(r)'
  BY <1>1, <1>4, ResultStays
<1>15. RequestRows(r)'
  BY <1>6, <1>8, <1>11, <1>12, <1>13, <1>14 DEF RequestRows
<1>16. to \in Places \ {"idle"}
  BY DEF Places
<1> QED BY <1>1, <1>5, <1>7, <1>10, <1>15, <1>16, StepsMove DEF queue

LEMMA StepAnswer ==
  ASSUME Session, NEW r \in Reqs, RequestRows(r),
         Answer(r) \/ CommitCurrent(r) \/ CommitHistory(r)
  PROVE  StepOf(r)
<1>1. /\ pc[r] \in {"sent", "committing"}
      /\ UNCHANGED <<auditSeq, auditNext, auditTodo, auditResolved, auditPending, actionIDs,
                     written, sink, seqOf, call, reply, run, mode>>
      /\ Goto(r, "answered") \/ Goto(r, "committing")
  BY DEF Answer, Answerable, CommitCurrent, CommitHistory, output, queueVars, queue
<1>2. PICK to \in {"answered", "committing"} : Goto(r, to)
  BY <1>1
<1>3. pc'[r] = to
  BY <1>2 DEF Session, RequestsTyped, Goto
<1>4. Frame
  BY <1>1, Same DEF Session, Frame, QueueInv, QueueTyped, FrontierStops, TrailTyped
<1>5. \A x : Moves(x)
  BY <1>1 DEF Moves, Settled
<1>6. PICK s : s = seqOf[r] /\ seqOf'[r] = s
  BY <1>1
<1>7. Kept(r, "allow")'
  <2>1. Kept(r, "allow")
    BY <1>1 DEF RequestRows
  <2> QED BY <1>1, <2>1 DEF Kept, Recorded
<1>8. Pairing' => Paired(r)'
  <2>1. Pairing => Paired(r)
    BY <1>1 DEF RequestRows
  <2> QED BY <1>1, <2>1 DEF Pairing, Paired, Settled
<1>9. Pairing' /\ sink' = "open" => Recorded(s, "dispatch")'
  <2>1. Pairing /\ sink = "open" => Recorded(s, "dispatch")
    BY <1>1, <1>6 DEF RequestRows
  <2> QED BY <1>1, <2>1 DEF Pairing, Recorded
<1>10. Pairing' /\ reply'[r] = "result" => Ordered(r)'
  BY <1>1, <1>4, ResultStays DEF Frame
<1>11. RequestRows(r)'
  BY <1>3, <1>6, <1>7, <1>8, <1>9, <1>10 DEF RequestRows
<1>12. to \in Places \ {"idle"}
  BY DEF Places
<1> QED BY <1>1, <1>2, <1>4, <1>5, <1>11, <1>12, StepsMove

LEMMA StepReply ==
  ASSUME Session, NEW r \in Reqs, RequestRows(r), Reply(r) PROVE StepOf(r)
<1>1. /\ pc[r] = "resolved" /\ Goto(r, "done")
      /\ UNCHANGED <<queue, written, sink, seqOf, call, run, mode>>
  BY DEF Reply
<1>2. PICK a \in {"result", "unverified"} :
        /\ reply' = [reply EXCEPT ![r] = a]
        /\ Required /\ sink = "failed" => a = "unverified"
  BY DEF Reply
<1>3. Frame /\ \A x : Moves(x)
  BY <1>1, Still DEF Session
<1>4. pc'[r] = "done" /\ reply'[r] = a
  BY <1>1, <1>2 DEF Session, RequestsTyped, Goto
<1>5. Pairing' /\ reply'[r] = "result" => Ordered(r)'
  <2>1. Pairing => Required
    BY SessionAssumption DEF Session, Pairing, Required
  <2>2. sink \in {"open", "failed"}
    BY DEF Session, QueueInv, QueueTyped, Sinks
  <2>3. Pairing /\ sink = "open" => Ordered(r)
    BY <1>1 DEF RequestRows
  <2>4. seqOf'[r] = seqOf[r] /\ Pairing' = Pairing
    BY <1>1 DEF Pairing
  <2> QED BY <1>2, <1>3, <1>4, <2>1, <2>2, <2>3, <2>4, StaysOrdered DEF Frame
<1>6. RequestRows(r)'
  BY <1>4, <1>5 DEF RequestRows
<1>7. "done" \in Places \ {"idle"} /\ a \in {"none", "result", "unverified"}
  BY DEF Places
<1>8. UNCHANGED auditSeq
  BY <1>1 DEF queue
<1> QED BY <1>1, <1>2, <1>3, <1>6, <1>7, <1>8, StepsMove

LEMMA StampedLand ==
  ASSUME NEW q, NEW rows, Stamps(rows, q), Added(rows), TrailTyped PROVE Lands(q)
<1>1. PICK m \in Nat : m = Len(written) /\ DOMAIN written = 1..m
  BY DEF Added
<1>2. \A k \in 1..Len(q) :
        /\ m + k \in DOMAIN written'
        /\ written'[m + k].seq = q[k].seq /\ written'[m + k].what = q[k].what
  <2>1. Len(rows) = Len(q) /\ \A i \in 1..Len(q) : rows[i].seq = q[i].seq /\ rows[i].what = q[i].what
    BY DEF Stamps
  <2>2. \A i \in 1..Len(rows) : Len(written) + i \in DOMAIN written' /\ written'[Len(written) + i] = rows[i]
    BY DEF Added
  <2>3. \A i \in 1..Len(rows) : m + i \in DOMAIN written' /\ written'[m + i] = rows[i]
    BY <1>1, <2>2
  <2> QED BY <2>1, <2>3
<1>3. DOMAIN written = 1..Len(written) /\ Len(written) \in Nat /\ m >= Len(written)
  BY <1>1
<1> QED BY <1>2, <1>3, Zenon DEF Lands

\* The held rows of an action, once written, are in order.
LEMMA HeldBecomesOrdered ==
  ASSUME QueueInv, NEW r \in Reqs, ResponseHeld(r), sink = "open", Recorded(seqOf[r], "dispatch"),
         seqOf'[r] = seqOf[r], Grown, Lands(auditTodo[seqOf[r]])
  PROVE  Ordered(r)'
<1>1. PICK s : s = seqOf[r] /\ seqOf'[r] = s
  OBVIOUS
<1>2. PICK k \in DOMAIN auditTodo[s] :
        /\ auditTodo[s][k].what = "response"
        /\ \/ Recorded(s, "allow")
           \/ \E i \in 1..(k - 1) : auditTodo[s][i].what = "allow"
  BY <1>1 DEF ResponseHeld
<1>3. /\ auditTodo[s] \in Seq(Records(Nat))
      /\ \A i \in DOMAIN auditTodo[s] : auditTodo[s][i].seq = s
  BY <1>1 DEF ResponseHeld, QueueInv, QueueTyped, TodoTyped
<1>4. PICK n \in Nat : n = Len(auditTodo[s]) /\ DOMAIN auditTodo[s] = 1..n
  BY <1>3
<1>5. PICK m \in Nat : m = Len(written) /\ DOMAIN written = 1..m
  BY DEF Lands
<1>6. PICK o \in Nat :
        /\ o >= m
        /\ \A i \in 1..n : /\ o + i \in DOMAIN written'
                          /\ written'[o + i].seq = auditTodo[s][i].seq
                          /\ written'[o + i].what = auditTodo[s][i].what
  <2>1. PICK q : q = auditTodo[s] /\ Lands(q)
    BY <1>1
  <2>2. PICK o \in Nat :
          /\ o >= Len(written)
          /\ \A i \in 1..Len(q) : /\ o + i \in DOMAIN written'
                                 /\ written'[o + i].seq = q[i].seq
                                 /\ written'[o + i].what = q[i].what
    BY <2>1 DEF Lands
  <2> QED BY <1>4, <1>5, <2>1, <2>2
<1>7. \A i \in 1..n : /\ o + i \in DOMAIN written'
                      /\ written'[o + i].seq = s /\ written'[o + i].what = auditTodo[s][i].what
  BY <1>3, <1>4, <1>6
<1>8. PICK j \in 1..m : written[j].seq = s /\ written[j].what = "dispatch"
  BY <1>1, <1>5 DEF Recorded
<1>9. j \in DOMAIN written' /\ written'[j].seq = s /\ written'[j].what = "dispatch"
  BY <1>5, <1>8 DEF Grown
<1>10. k \in 1..n /\ k \in Nat
  BY <1>2, <1>4
<1>11. PICK i \in Nat : /\ i \in DOMAIN written' /\ i < o + k
                        /\ written'[i].seq = s /\ written'[i].what = "allow"
  <2>1. CASE Recorded(s, "allow")
    <3>1. PICK i \in 1..m : written[i].seq = s /\ written[i].what = "allow"
      BY <1>5, <2>1 DEF Recorded
    <3>2. i \in DOMAIN written' /\ written'[i] = written[i]
      BY <1>5, <3>1 DEF Grown
    <3>3. i \in Nat /\ i < o + k
      BY <1>5, <1>6, <1>10
    <3> QED BY <3>1, <3>2, <3>3
  <2>2. CASE \E i \in 1..(k - 1) : auditTodo[s][i].what = "allow"
    <3>1. PICK i \in 1..(k - 1) : auditTodo[s][i].what = "allow"
      BY <2>2
    <3>2. i \in 1..n /\ o + i \in Nat /\ o + i < o + k
      BY <1>5, <1>6, <1>10
    <3> QED BY <1>7, <3>1, <3>2
  <2> QED BY <1>2, <2>1, <2>2
<1>12. j < o + k
  BY <1>5, <1>6, <1>10
<1>13. PICK z : z = o + k
  OBVIOUS
<1>14. z \in DOMAIN written' /\ written'[z].seq = s /\ written'[z].what = "response"
  BY <1>2, <1>7, <1>10, <1>13
<1>15. i \in RowsIn(r, "allow")' /\ j \in RowsIn(r, "dispatch")' /\ z \in RowsIn(r, "response")'
  BY <1>1, <1>9, <1>11, <1>14 DEF RowsIn
<1>16. j < z /\ i < z
  BY <1>11, <1>12, <1>13
<1> QED BY <1>15, <1>16 DEF Ordered

LEMMA StepResolve ==
  ASSUME Session, NEW r \in Reqs, RequestRows(r), Resolve(r) PROVE StepOf(r)
<1>1. PICK s : s = seqOf[r]
  OBVIOUS
<1>2. /\ ResolveAudit(s) /\ Goto(r, AfterResolve(pc[r]))
      /\ UNCHANGED <<seqOf, call, reply, run, mode>>
  BY <1>1 DEF Resolve
<1>3. pc[r] \in {"refused", "denied", "granted", "unsent", "observed"}
  BY DEF Resolve, Session, RequestsTyped, Places
<1>4. PICK to \in {"denied", "unobserved", "done", "allowed", "resolved"} :
        /\ Goto(r, to)
        /\ to = "allowed" => pc[r] = "granted"
        /\ to = "resolved" => pc[r] = "observed"
  BY <1>2, <1>3 DEF AfterResolve
<1>5. pc'[r] = to
  BY <1>4 DEF Session, RequestsTyped, Goto
<1>6. s \in 0..(auditSeq - 1) /\ seqOf'[r] = s /\ Pairing' = Pairing
  BY <1>1, <1>2, <1>3, OwnSequence DEF Pairing
<1>7. /\ Frame /\ Settles(s)
      /\ \A x \in 0..(auditSeq - 1) : x # s => Moves(x)
  BY <1>2, <1>6, ResolveFacts DEF Session
<1>8. Grown /\ (sink' = "open" => sink = "open")
  BY <1>7 DEF Frame
<1>9. /\ Settled(s)'
      /\ to \in {"allowed", "resolved"} => Kept(r, "allow")'
      /\ to = "allowed" => (Pairing' => Paired(r)')
  <2>1. Settled(s)'
    BY <1>7 DEF Settles
  <2>2. ASSUME to \in {"allowed", "resolved"} PROVE Kept(r, "allow")'
    <3>1. Kept(r, "allow")
      BY <1>4, <2>2 DEF RequestRows
    <3>2. sink' = "open" => Has(auditTodo', s, "allow") \/ Recorded(s, "allow")'
      BY <1>1, <1>7, <1>8, <3>1, StaysRecorded DEF Kept, Settles
    <3> QED BY <1>6, <3>2 DEF Kept
  <2>3. ASSUME to = "allowed", Pairing PROVE Paired(r)'
    <3>1. ~Settled(s) /\ s \in actionIDs
      BY <1>1, <1>4, <2>3 DEF RequestRows
    <3>2. s \notin DOMAIN auditTodo'
      BY <1>7, <3>1 DEF Settles
    <3> QED BY <1>6, <2>1, <3>2 DEF Paired
  <2> QED BY <1>6, <2>1, <2>2, <2>3
<1>10. to = "resolved" /\ Pairing' /\ sink' = "open" => Ordered(r)'
  <2>1. ASSUME to = "resolved", Pairing, sink' = "open" PROVE Ordered(r)'
    <3>1. sink = "open" /\ pc[r] = "observed"
      BY <1>4, <1>8, <2>1
    <3>2. ResponseHeld(r) \/ Ordered(r)
      BY <2>1, <3>1 DEF RequestRows
    <3>3. CASE Ordered(r)
      BY <1>1, <1>6, <1>8, <3>3, StaysOrdered
    <3>4. CASE ResponseHeld(r)
      <4>1. s \in actionIDs /\ ~Settled(s) /\ s \in DOMAIN auditTodo
        BY <1>1, <3>4 DEF ResponseHeld
      <4>2. PICK rows : Stamps(rows, auditTodo[s]) /\ Added(rows)
        BY <1>7, <2>1, <4>1 DEF Settles
      <4>3. Recorded(seqOf[r], "dispatch")
        BY <2>1, <3>1 DEF RequestRows
      <4>4. QueueInv
        BY DEF Session
      <4>5. PICK q : q = auditTodo[s] /\ Lands(q)
        <5>1. PICK q : q = auditTodo[s]
          OBVIOUS
        <5>2. Lands(q)
          BY <4>2, <4>4, <5>1, StampedLand DEF QueueInv
        <5> QED BY <5>1, <5>2
      <4> QED BY <1>1, <1>6, <1>8, <3>1, <3>4, <4>3, <4>4, <4>5, HeldBecomesOrdered
    <3> QED BY <3>2, <3>3, <3>4
  <2> QED BY <1>6, <2>1
<1>11. Pairing' /\ reply'[r] = "result" => Ordered(r)'
  BY <1>2, <1>8, ResultStays
<1>12. RequestRows(r)'
  BY <1>5, <1>6, <1>9, <1>10, <1>11 DEF RequestRows
<1>13. to \in Places \ {"idle"}
  BY DEF Places
<1>14. UNCHANGED auditSeq
  BY <1>7 DEF Frame
<1> QED BY <1>1, <1>2, <1>3, <1>4, <1>7, <1>12, <1>13, <1>14, StepsMove

LEMMA StepObserve ==
  ASSUME Session, NEW r \in Reqs, RequestRows(r), Observe(r) PROVE StepOf(r)
<1>1. PICK s : s = seqOf[r]
  OBVIOUS
<1>2. PICK to \in {"done", "observed"}, row \in Records(Nat) :
        /\ Goto(r, to)
        /\ to = "observed" => pc[r] = "answered" /\ row.what = "response"
        /\ row.seq = s
        /\ IF ~Pairing THEN UNCHANGED <<auditTodo, output>>
           ELSE IF Settled(s) THEN Write(<<row>>) /\ UNCHANGED auditTodo
           ELSE AppendAudit(s, <<row>>) /\ UNCHANGED output
  <2>1. PICK what \in Whats : what = IF pc[r] = "unobserved" THEN "not_forwarded" ELSE "response"
    BY DEF Whats
  <2>2. PICK row \in Records(Nat) : row = Row(r, what) /\ row.seq = s /\ row.what = what
    BY <1>1, RowTyped
  <2>3. Goto(r, IF pc[r] = "unobserved" THEN "done" ELSE "observed")
        /\ pc[r] \in {"answered", "unobserved"}
    BY DEF Observe
  <2>4. IF ~Pairing THEN UNCHANGED <<auditTodo, output>>
        ELSE IF Settled(s) THEN Write(<<row>>) /\ UNCHANGED auditTodo
        ELSE AppendAudit(s, <<row>>) /\ UNCHANGED output
    BY <1>1, <2>1, <2>2 DEF Observe
  <2> QED BY <2>1, <2>2, <2>3, <2>4
<1>3. /\ UNCHANGED <<auditSeq, auditNext, auditResolved, auditPending, actionIDs,
                     seqOf, call, reply, run, mode>>
      /\ pc[r] \in {"answered", "unobserved"}
  BY DEF Observe
<1>4. pc'[r] = to
  BY <1>2 DEF Session, RequestsTyped, Goto
<1>5. s \in 0..(auditSeq - 1) /\ seqOf'[r] = s /\ Pairing' = Pairing
  BY <1>1, <1>3, OwnSequence DEF Pairing
<1>6. PICK rows \in Seq(Records(Nat)) : rows = <<row>>
  <2>1. <<row>> \in Seq(Records(Nat))
    OBVIOUS
  <2> QED BY <2>1, Zenon
<1>7. QueueInv /\ TrailTyped /\ sink \in Sinks
  BY DEF Session, QueueInv, QueueTyped
<1>8. to = "observed" /\ Pairing => /\ Kept(r, "allow") /\ Paired(r)
                                    /\ sink = "open" => Recorded(s, "dispatch")
  BY <1>1, <1>2 DEF RequestRows
<1>9. Frame /\ \A x \in 0..(auditSeq - 1) : x # s => Moves(x)
  <2>1. CASE ~Pairing
    <3>1. UNCHANGED <<auditTodo, written, sink>>
      BY <1>2, <2>1 DEF output
    <3>2. Frame
      BY <1>3, <1>7, <3>1, Same DEF Frame, QueueInv, QueueTyped, FrontierStops, TrailTyped
    <3> QED BY <1>3, <3>1, <3>2 DEF Moves, Settled
  <2>2. CASE Pairing /\ Settled(s)
    <3>1. Write(rows) /\ UNCHANGED auditTodo
      BY <1>2, <1>6, <2>2
    <3>2. Grown /\ sink' \in Sinks /\ (sink' = "open" => sink = "open")
      BY <1>7, <3>1, WriteGrows
    <3>3. Frame
      BY <1>3, <1>7, <3>1, <3>2 DEF Frame, QueueInv, QueueTyped, FrontierStops, Grown
    <3> QED BY <1>3, <3>1, <3>3 DEF Moves, Settled
  <2>3. CASE Pairing /\ ~Settled(s)
    <3>1. AppendAudit(s, rows) /\ UNCHANGED <<written, sink>>
      BY <1>2, <1>6, <2>3 DEF output
    <3>2. \A i \in 1..Len(rows) : rows[i].seq = s
      BY <1>2, <1>6
    <3> QED BY <1>3, <1>5, <1>7, <2>3, <3>1, <3>2, AppendFacts
  <2> QED BY <2>1, <2>2, <2>3
<1>10. Grown /\ (sink' = "open" => sink = "open")
  BY <1>9 DEF Frame
<1>11. Pairing /\ to = "observed" /\ sink' = "open" => Recorded(s, "dispatch")'
  BY <1>8, <1>10, StaysRecorded
<1>12. Pairing /\ to = "observed" => ResponseHeld(r)' \/ (sink' = "open" => Ordered(r)')
  <2>1. CASE Pairing /\ to = "observed" /\ Settled(s)
    <3>1. Write(rows)
      BY <1>2, <1>6, <2>1
    <3>2. ASSUME sink' = "open" PROVE Ordered(r)'
      <4>1. sink = "open" /\ Added(rows)
        BY <1>7, <3>1, <3>2, WriteGrows
      <4>2. Recorded(s, "allow") /\ Recorded(s, "dispatch")
        <5>1. s \notin DOMAIN auditTodo
          BY <1>1, <1>8, <2>1 DEF Paired
        <5> QED BY <1>1, <1>8, <2>1, <4>1, <5>1 DEF Kept, Has
      <4>3. PICK m \in Nat : m = Len(written) /\ DOMAIN written = 1..m
        BY <4>1 DEF Added
      <4>4. PICK i \in 1..m, j \in 1..m :
              /\ written[i].seq = s /\ written[i].what = "allow"
              /\ written[j].seq = s /\ written[j].what = "dispatch"
        BY <4>2, <4>3 DEF Recorded
      <4>5. PICK z : z = m + 1
        OBVIOUS
      <4>6. z \in DOMAIN written' /\ written'[z] = row
        <5>1. 1 \in 1..Len(rows) /\ rows[1] = row
          BY <1>6
        <5> QED BY <4>1, <4>3, <4>5, <5>1 DEF Added
      <4>7. /\ i \in DOMAIN written' /\ written'[i] = written[i]
            /\ j \in DOMAIN written' /\ written'[j] = written[j]
        BY <1>10, <4>3, <4>4 DEF Grown
      <4>8. i \in RowsIn(r, "allow")' /\ j \in RowsIn(r, "dispatch")' /\ z \in RowsIn(r, "response")'
        BY <1>2, <1>5, <2>1, <4>4, <4>6, <4>7 DEF RowsIn
      <4>9. j < z /\ i < z
        BY <4>3, <4>4, <4>5
      <4> QED BY <4>8, <4>9 DEF Ordered
    <3> QED BY <3>2
  <2>2. CASE Pairing /\ to = "observed" /\ ~Settled(s)
    <3>1. AppendAudit(s, rows) /\ UNCHANGED <<written, sink>>
      BY <1>2, <1>6, <2>2 DEF output
    <3>2. \A i \in 1..Len(rows) : rows[i].seq = s
      BY <1>2, <1>6
    <3>3. /\ ~Settled(s)' /\ s \in DOMAIN auditTodo'
          /\ auditTodo'[s] = IF s \in DOMAIN auditTodo THEN auditTodo[s] \o rows ELSE rows
      BY <1>3, <1>5, <1>7, <2>2, <3>1, <3>2, AppendFacts
    <3>4. s \in actionIDs'
      BY <1>1, <1>3, <1>8, <2>2 DEF Paired
    <3>5. sink = "open" => Recorded(s, "allow") \/ Has(auditTodo, s, "allow")
      BY <1>1, <1>8, <2>2 DEF Kept
    <3>6. Recorded(s, "allow") => Recorded(s, "allow")'
      BY <1>10, StaysRecorded
    <3>7. Len(rows) = 1 /\ rows[1] = row
      BY <1>6
    <3>8. CASE s \notin DOMAIN auditTodo
      <4>1. 1 \in DOMAIN auditTodo'[s] /\ auditTodo'[s][1].what = "response"
        BY <1>2, <2>2, <3>3, <3>7, <3>8
      <4>2. sink' = "open" => Recorded(s, "allow")'
        BY <3>1, <3>5, <3>6, <3>8 DEF Has
      <4> QED BY <1>5, <3>3, <3>4, <4>1, <4>2 DEF ResponseHeld
    <3>9. CASE s \in DOMAIN auditTodo
      <4>1. PICK old \in Seq(Records(Nat)) : old = auditTodo[s]
        BY <1>7, <3>9 DEF QueueInv, QueueTyped, TodoTyped
      <4>2. PICK all : all = old \o rows /\ all = auditTodo'[s]
        BY <3>3, <3>9, <4>1
      <4>3. PICK n \in Nat : n = Len(old)
        OBVIOUS
      <4>4. /\ all \in Seq(Records(Nat)) /\ Len(all) = n + 1
            /\ \A i \in 1..(n + 1) : all[i] = IF i <= n THEN old[i] ELSE rows[i - n]
        <5>1. /\ all \in Seq(Records(Nat)) /\ Len(all) = Len(old) + Len(rows)
              /\ \A i \in 1..Len(old) + Len(rows) :
                   all[i] = IF i <= Len(old) THEN old[i] ELSE rows[i - Len(old)]
          <6>1. /\ old \o rows \in Seq(Records(Nat)) /\ Len(old \o rows) = Len(old) + Len(rows)
                /\ \A i \in 1..Len(old) + Len(rows) :
                     (old \o rows)[i] = IF i <= Len(old) THEN old[i] ELSE rows[i - Len(old)]
            BY ConcatProperties, SMTT(60)
          <6> QED BY <4>2, <6>1, Zenon
        <5> QED BY <3>7, <4>3, <5>1
      <4>5. PICK k \in Nat : k = n + 1
        OBVIOUS
      <4>6. k \in DOMAIN all /\ all[k].what = "response"
        <5>1. all[k] = rows[k - n] /\ k - n = 1
          BY <4>4, <4>5
        <5> QED BY <1>2, <2>2, <3>7, <4>4, <4>5, <5>1
      <4>7. Has(auditTodo, s, "allow") => \E i \in 1..(k - 1) : all[i].what = "allow"
        <5>1. ASSUME NEW i \in DOMAIN old, old[i].what = "allow"
              PROVE  i \in 1..(k - 1) /\ all[i].what = "allow"
          <6>1. i \in 1..n
            BY <4>3
          <6>2. i \in 1..(n + 1) /\ i <= n /\ i \in 1..(k - 1)
            BY <4>5, <6>1
          <6> QED BY <4>4, <5>1, <6>2
        <5> QED BY <4>1, <5>1 DEF Has
      <4>8. sink' = "open" => Recorded(s, "allow")' \/ \E i \in 1..(k - 1) : all[i].what = "allow"
        BY <3>1, <3>5, <3>6, <4>7
      <4>9. \E x \in DOMAIN auditTodo'[s] :
              /\ auditTodo'[s][x].what = "response"
              /\ sink' = "open" =>
                   \/ Recorded(s, "allow")'
                   \/ \E i \in 1..(x - 1) : auditTodo'[s][i].what = "allow"
        BY <4>2, <4>6, <4>8
      <4> QED BY <1>5, <3>3, <3>4, <4>9 DEF ResponseHeld
    <3> QED BY <3>8, <3>9
  <2> QED BY <2>1, <2>2
<1>13. Pairing' /\ reply'[r] = "result" => Ordered(r)'
  BY <1>3, <1>10, ResultStays
<1>14. to = "observed" => Kept(r, "allow")'
  <2>1. ASSUME to = "observed", sink' = "open" PROVE Recorded(s, "allow")' \/ Has(auditTodo', s, "allow")
    <3>1. Recorded(s, "allow") \/ Has(auditTodo, s, "allow")
      BY <1>1, <1>2, <1>10, <2>1 DEF RequestRows, Kept
    <3>2. CASE Recorded(s, "allow")
      BY <1>10, <3>2, StaysRecorded
    <3>3. CASE ~Pairing \/ Settled(s)
      <4>1. UNCHANGED auditTodo
        BY <1>2, <3>3
      <4> QED BY <1>10, <3>1, <4>1, StaysRecorded DEF Has
    <3>4. CASE Has(auditTodo, s, "allow") /\ Pairing /\ ~Settled(s)
      <4>1. PICK k \in DOMAIN auditTodo[s] : auditTodo[s][k].what = "allow"
        BY <3>4 DEF Has
      <4>2. PICK old \in Seq(Records(Nat)) : old = auditTodo[s]
        BY <1>7, <3>4 DEF Has, QueueInv, QueueTyped, TodoTyped
      <4>3. s \in DOMAIN auditTodo' /\ auditTodo'[s] = old \o rows
        BY <1>2, <1>6, <3>4, <4>2 DEF AppendAudit, Queued, Has
      <4>4. PICK all : all = old \o rows
        OBVIOUS
      <4>5. \A i \in 1..Len(old) : i \in 1..Len(all) /\ all[i] = old[i]
        BY <4>4, JoinHas, SMTT(60)
      <4>6. all \in Seq(Records(Nat))
        BY <4>4
      <4>7. k \in 1..Len(old) /\ DOMAIN all = 1..Len(all)
        BY <4>1, <4>2, <4>6
      <4>8. k \in DOMAIN all /\ all[k].what = "allow"
        BY <4>1, <4>2, <4>5, <4>7
      <4> QED BY <4>3, <4>4, <4>8 DEF Has
    <3> QED BY <3>1, <3>2, <3>3, <3>4
  <2> QED BY <1>5, <2>1 DEF Kept
<1>15. RequestRows(r)'
  BY <1>4, <1>5, <1>11, <1>12, <1>13, <1>14 DEF RequestRows
<1>16. to \in Places \ {"idle"}
  BY DEF Places
<1> QED BY <1>1, <1>2, <1>3, <1>9, <1>15, <1>16, StepsMove

-----------------------------------------------------------------------------
\* A drain finds requests that wait for an answer, or that have one.
LEMMA StepDrain ==
  ASSUME Session, \A r \in Reqs : RequestRows(r),
         \A r \in Reqs : pc[r] \in {"idle", "sent", "done"} \cup Answering,
         DrainAudits, UNCHANGED <<pc, seqOf, call, reply, mode>>
  PROVE  Session' /\ \A r \in Reqs : RequestRows(r)'
<1>1. /\ Frame /\ DOMAIN auditTodo' = {} /\ auditNext' = auditSeq
      /\ \A x, w : sink' = "open" /\ Has(auditTodo, x, w) => Recorded(x, w)'
      /\ \A x \in DOMAIN auditTodo : sink' = "open" => Lands(auditTodo[x])
  BY DrainFacts DEF Session
<1>2. QueueInv' /\ Grown /\ UNCHANGED auditSeq /\ (sink' = "open" => sink = "open")
  BY <1>1 DEF Frame
<1>3. Session'
  BY <1>2 DEF Session, RequestsTyped, SequencesOwned
<1>4. ASSUME NEW r \in Reqs PROVE RequestRows(r)'
  <2>1. PICK s : s = seqOf[r] /\ seqOf'[r] = s
    OBVIOUS
  <2>2. /\ pc'[r] \in {"idle", "sent", "committing", "answered", "observed", "resolved", "done"}
        /\ pc'[r] = pc[r] /\ reply'[r] = reply[r] /\ RequestRows(r) /\ Pairing' = Pairing
    BY DEF Answering, Pairing
  <2>3. pc'[r] \in {"sent", "committing", "answered", "observed", "resolved"} => Kept(r, "allow")'
    <3>1. pc[r] \in {"sent", "committing", "answered", "observed", "resolved"} => Kept(r, "allow")
      BY DEF RequestRows
    <3> QED BY <1>1, <1>2, <2>1, <2>2, <3>1, StaysRecorded DEF Kept
  <2>4. Pairing' /\ pc'[r] \in {"sent", "committing", "answered"} => Paired(r)'
    <3>1. ASSUME pc[r] # "idle" PROVE Settled(s)' /\ s \notin DOMAIN auditTodo'
      <4>1. s < auditSeq
        BY <2>1, <3>1 DEF Session, SequencesOwned
      <4> QED BY <1>1, <4>1 DEF Settled
    <3> QED BY <2>1, <2>2, <3>1 DEF Paired
  <2>5. /\ Pairing' /\ pc'[r] \in {"sent", "committing", "answered", "observed"} /\ sink' = "open" =>
             Recorded(s, "dispatch")'
    <3>1. /\ Pairing /\ pc[r] \in {"sent", "committing", "answered", "observed"} /\ sink = "open" =>
                Recorded(s, "dispatch")
      BY <2>1, <2>2 DEF RequestRows
    <3> QED BY <1>2, <2>2, <3>1, StaysRecorded
  <2>6. Pairing' /\ pc'[r] \in {"observed", "resolved"} /\ sink' = "open" => Ordered(r)'
    <3>1. ASSUME Pairing, pc[r] \in {"observed", "resolved"}, sink' = "open" PROVE Ordered(r)'
      <4>1. sink = "open"
        BY <1>2, <3>1
      <4>2. Ordered(r) \/ (pc[r] = "observed" /\ ResponseHeld(r))
        BY <2>2, <3>1, <4>1 DEF RequestRows
      <4>3. CASE Ordered(r)
        BY <1>2, <2>1, <4>3, StaysOrdered
      <4>4. CASE pc[r] = "observed" /\ ResponseHeld(r)
        <5>1. s \in DOMAIN auditTodo
          BY <2>1, <4>4 DEF ResponseHeld
        <5>2. Lands(auditTodo[s])
          BY <1>1, <3>1, <5>1
        <5>3. Recorded(seqOf[r], "dispatch")
          BY <2>2, <3>1, <4>1, <4>4 DEF RequestRows
        <5>4. QueueInv
          BY DEF Session
        <5>5. PICK q : q = auditTodo[s] /\ Lands(q)
          BY <5>2
        <5> QED BY <1>2, <2>1, <4>1, <4>4, <5>3, <5>4, <5>5, HeldBecomesOrdered
      <4> QED BY <4>2, <4>3, <4>4
    <3> QED BY <2>2, <3>1
  <2>7. Pairing' /\ reply'[r] = "result" => Ordered(r)'
    BY <1>2, <2>2, ResultStays
  <2>8. pc'[r] = "idle" => reply'[r] = "none"
    BY <2>2 DEF RequestRows
  <2> QED BY <2>1, <2>2, <2>3, <2>4, <2>5, <2>6, <2>7, <2>8 DEF RequestRows
<1> QED BY <1>3, <1>4

\* What is left to a session whose run has drained.
LEMMA NothingQueuedAgain ==
  ASSUME Session, RunOver, \A q \in Reqs : RequestRows(q), main = "drained", NEW r \in Reqs,
         Arrive(r) \/ Progress(r) \/ Answer(r) \/ CommitCurrent(r)
  PROVE  /\ UNCHANGED <<auditTodo, auditNext, auditSeq, run>>
         /\ \A q \in Reqs : pc'[q] \notin Input
<1>1. DOMAIN auditTodo = {} /\ auditNext = auditSeq /\ ~accepting /\ \A q \in Reqs : pc[q] \notin Input
  BY DEF RunOver
<1>2. pc[r] \in Places /\ pc \in [Reqs -> Places]
  BY DEF Session, RequestsTyped
<1>3. ~Arrive(r) /\ ~Name(r) /\ ~Decide(r) /\ ~Dispatch(r)
  BY <1>1 DEF Arrive, Name, Decide, Dispatch, Input
<1>4. pc[r] # "idle" => seqOf[r] < auditNext
  BY <1>1 DEF Session, SequencesOwned
<1>5. ASSUME Goto(r, "committing") \/ Goto(r, "answered") \/ Goto(r, "observed")
               \/ Goto(r, "resolved") \/ Goto(r, "done")
      PROVE  \A q \in Reqs : pc'[q] \notin Input
  BY <1>1, <1>2, <1>5 DEF Goto, Input
<1>6. CASE Answer(r) \/ CommitCurrent(r) \/ CommitHistory(r) \/ Reply(r)
  BY <1>5, <1>6 DEF Answer, CommitCurrent, CommitHistory, Reply, queueVars, queue
<1>7. CASE Resolve(r)
  <2>1. pc[r] = "observed"
    BY <1>1, <1>7 DEF Resolve, Input
  <2>2. UNCHANGED queueVars
    BY <1>4, <1>7, <2>1 DEF Resolve, ResolveAudit
  <2>3. Goto(r, "resolved") /\ UNCHANGED run
    BY <1>7, <2>1 DEF Resolve, AfterResolve
  <2> QED BY <1>5, <2>2, <2>3 DEF queueVars, queue
<1>8. CASE Observe(r)
  <2>1. pc[r] = "answered"
    BY <1>1, <1>8 DEF Observe, Input
  <2>2. Settled(seqOf[r])
    BY <1>4, <2>1 DEF Settled
  <2>3. UNCHANGED <<auditTodo, auditNext, auditSeq, run>>
    BY <1>8, <2>2 DEF Observe
  <2>4. Goto(r, "observed")
    BY <1>8, <2>1 DEF Observe
  <2> QED BY <1>5, <2>3, <2>4
<1> QED BY <1>3, <1>6, <1>7, <1>8 DEF Progress

LEMMA ModeStays ==
  ASSUME [Next]_vars PROVE UNCHANGED mode
BY DEF Next, vars, session, Arrive, Progress, Name, Decide, Resolve, Dispatch, CommitHistory,
   Observe, Reply, Answer, CommitCurrent, CloseInput, DrainAtEOF, Stop, DrainAtExit, GiveUp

\* What Run does beside its drain leaves the queue and the requests alone.
RunSteps == CloseInput \/ Stop \/ GiveUp

LEMMA RunRests ==
  ASSUME RunSteps \/ UNCHANGED vars
  PROVE  UNCHANGED <<queueVars, queue, written, sink, mode, pc, seqOf, call, reply, history, auditSeq>>
BY DEF RunSteps, CloseInput, Stop, GiveUp, vars, session, queueVars, output, queue

LEMMA StepKeeps ==
  ASSUME Session, RunOver, \A r \in Reqs : RequestRows(r), Next
  PROVE  Session' /\ RunOver' /\ \A r \in Reqs : RequestRows(r)'
<1>1. ASSUME NEW r \in Reqs, StepOf(r), Arrive(r) \/ Progress(r) \/ Answer(r) \/ CommitCurrent(r)
      PROVE  Session' /\ RunOver' /\ \A q \in Reqs : RequestRows(q)'
  <2>1. /\ QueueInv' /\ Grown /\ (sink' = "open" => sink = "open")
        /\ RequestsTyped' /\ SequencesOwned' /\ UNCHANGED <<mode, run>>
    BY <1>1 DEF StepOf
  <2>2. Session'
    BY <2>1 DEF Session
  <2>3. RunOver'
    <3>1. UNCHANGED <<mode, main, accepting>>
      BY <2>1 DEF run
    <3>2. main = "drained" =>
            /\ UNCHANGED <<auditTodo, auditNext, auditSeq>>
            /\ \A q \in Reqs : pc'[q] \notin Input
      BY <1>1, NothingQueuedAgain
    <3> QED BY <3>1, <3>2 DEF RunOver, Transport
  <2>4. ASSUME NEW q \in Reqs PROVE RequestRows(q)'
    <3>1. CASE q = r
      BY <1>1, <3>1 DEF StepOf
    <3>2. CASE q # r
      <4>1. /\ pc'[q] = pc[q] /\ reply'[q] = reply[q] /\ seqOf'[q] = seqOf[q]
            /\ pc[q] # "idle" => Moves(seqOf[q])
        BY <1>1, <3>2 DEF StepOf
      <4> QED BY <2>1, <4>1, RequestKept
    <3> QED BY <3>1, <3>2
  <2> QED BY <2>2, <2>3, <2>4
<1>2. \A r \in Reqs : pc[r] \in Places
  BY DEF Session, RequestsTyped
<1>3. ASSUME NEW r \in Reqs, Arrive(r) \/ Progress(r) \/ Answer(r) \/ CommitCurrent(r)
      PROVE  Session' /\ RunOver' /\ \A q \in Reqs : RequestRows(q)'
  <2>1. StepOf(r)
    BY <1>3, StepArrive, StepName, StepDecide, StepResolve, StepDispatch, StepAnswer,
       StepObserve, StepReply DEF Progress
  <2> QED BY <1>1, <1>3, <2>1
<1>4. ASSUME DrainAtEOF \/ DrainAtExit
      PROVE  Session' /\ RunOver' /\ \A q \in Reqs : RequestRows(q)'
  <2>1. DrainAudits /\ Alone(Input) /\ UNCHANGED <<mode, pc, seqOf, call, reply, accepting>>
    BY <1>4 DEF DrainAtEOF, DrainAtExit
  <2>2. Transport = "stdio" /\ (main' # "running" => Transport = "stdio")
    BY <1>4 DEF DrainAtEOF, DrainAtExit, RunOver
  <2>3. \A r \in Reqs : pc[r] \notin Input
    BY <2>1, <2>2 DEF Alone
  <2>4. \A r \in Reqs : pc[r] \in {"idle", "sent", "done"} \cup Answering
    BY <1>2, <2>3 DEF Places, Answering, Input
  <2>5. Session' /\ \A r \in Reqs : RequestRows(r)'
    BY <2>1, <2>4, StepDrain
  <2>6. DOMAIN auditTodo' = {} /\ auditNext' = auditSeq /\ UNCHANGED auditSeq
    BY <2>1, DrainFacts DEF Session, Frame
  <2>7. main' = "drained" => ~accepting
    BY <1>4 DEF DrainAtEOF, DrainAtExit, RunOver
  <2>8. RunOver'
    BY <2>1, <2>2, <2>3, <2>6, <2>7 DEF RunOver, Transport
  <2> QED BY <2>5, <2>8
<1>5. ASSUME RunSteps
      PROVE  Session' /\ RunOver' /\ \A q \in Reqs : RequestRows(q)'
  <2>1. UNCHANGED <<queueVars, queue, written, sink, mode, pc, seqOf, call, reply, auditSeq>>
    BY <1>5, RunRests
  <2>2. Frame /\ \A x : Moves(x)
    BY <2>1, Still DEF Session
  <2>3. Session'
    BY <2>1, <2>2 DEF Session, RequestsTyped, SequencesOwned, Frame
  <2>4. \A r \in Reqs : RequestRows(r)'
    BY <2>1, <2>2, RequestKept DEF Frame
  <2>5. UNCHANGED <<auditTodo, auditNext>>
    BY <2>1 DEF queue
  <2>6. main' # "running" => Transport = "stdio"
    BY <1>5 DEF RunSteps, CloseInput, Stop, GiveUp, RunOver
  <2>7. main' = "drained" => main = "drained" /\ (~accepting => ~accepting')
    BY <1>5 DEF RunSteps, CloseInput, Stop, GiveUp
  <2>8. RunOver'
    BY <2>1, <2>5, <2>6, <2>7 DEF RunOver, Transport
  <2> QED BY <2>3, <2>4, <2>8
<1> QED BY <1>3, <1>4, <1>5 DEF Next, RunSteps

LEMMA SessionInit ==
  ASSUME Init PROVE SessionInv
<1> USE DEF Init, QueueInit
<1>1. RequestsTyped /\ SequencesOwned
  BY DEF RequestsTyped, SequencesOwned, Places, NoCall, Tools
<1>2. DOMAIN auditTodo = {} /\ auditTodo = [x \in DOMAIN auditTodo |-> auditTodo[x]]
  OBVIOUS
<1>3. TodoTyped(auditTodo, auditNext, auditSeq)
  BY <1>2 DEF TodoTyped
<1>4. QueueTyped
  BY <1>3 DEF QueueTyped, Sinks
<1>5. FrontierStops
  BY DEF FrontierStops, Between, Separate
<1>6. TrailTyped
  <2>1. <<>> \in Seq({})
    OBVIOUS
  <2> QED BY <2>1 DEF TrailTyped
<1>7. \A r \in Reqs : RequestRows(r)
  BY DEF RequestRows
<1> QED BY <1>1, <1>4, <1>5, <1>6, <1>7 DEF SessionInv, Session, QueueInv, RunOver

LEMMA SessionNext ==
  ASSUME SessionInv, [Next]_vars PROVE SessionInv'
<1>1. mode' = mode
  BY ModeStays
<1>2. CASE mode.nameless
  BY <1>1, <1>2 DEF SessionInv
<1>3. CASE ~mode.nameless
  <2>1. Session /\ RunOver /\ \A r \in Reqs : RequestRows(r)
    BY <1>3 DEF SessionInv
  <2>2. CASE Next
    BY <1>1, <1>3, <2>1, <2>2, StepKeeps DEF SessionInv, Session
  <2>3. CASE UNCHANGED vars
    <3>1. UNCHANGED <<queue, written, sink, mode, pc, seqOf, call, reply, auditSeq>>
      BY <2>3, RunRests
    <3>2. Frame /\ \A x : Moves(x)
      BY <2>1, <3>1, Still DEF Session
    <3>3. Session'
      BY <2>1, <3>1, <3>2 DEF Session, RequestsTyped, SequencesOwned, Frame
    <3>4. RunOver'
      BY <2>1, <2>3, <3>1 DEF RunOver, Transport, vars, session, run, queue
    <3>5. \A r \in Reqs : RequestRows(r)'
      BY <2>1, <3>1, <3>2, RequestKept DEF Frame
    <3> QED BY <1>1, <3>3, <3>4, <3>5 DEF SessionInv, Session
  <2> QED BY <2>2, <2>3
<1> QED BY <1>2, <1>3

LEMMA SessionHolds == Spec => []SessionInv
<1>1. Init => SessionInv
  BY SessionInit
<1>2. SessionInv /\ [Next]_vars => SessionInv'
  BY SessionNext
<1> QED BY <1>1, <1>2, PTL DEF Spec

(***************************************************************************)
(* A tool's result reaches the client only when the decision to allow the  *)
(* call and its dispatch, in either order, are in the trail, and its       *)
(* response there after both: for any requests and kinds of session,       *)
(* however the writer fails and whatever is drained.                       *)
(***************************************************************************)
THEOREM ResultsFollowRows == Spec => []ResultsAreAudited
<1>1. SessionInv => ResultsAreAudited
  <2>1. ASSUME SessionInv, Pairing, NEW r \in Reqs, reply[r] = "result" PROVE Ordered(r)
    <3>1. ~mode.nameless
      BY <2>1, SessionAssumption DEF SessionInv, Pairing
    <3> QED BY <2>1, <3>1 DEF SessionInv, RequestRows
  <2> QED BY <2>1 DEF ResultsAreAudited, Ordered
<1> QED BY <1>1, SessionHolds, PTL

(***************************************************************************)
(* No decision is lost with the session: when the drain of a Run with no   *)
(* line to come ends in time, the queue is empty and the verdict of every  *)
(* call that went out is in the trail, wherever its answer is, unless the  *)
(* writer failed.  The calls without a name that are held for approval     *)
(* before they are refused are the exception, which is a finding.          *)
(***************************************************************************)
THEOREM DecisionsOutliveSession ==
  ASSUME \A m \in Modes : ~m.nameless
  PROVE  Spec => []DecisionsReachTrail
<1>1. SessionInv => DecisionsReachTrail
  <2>1. ASSUME SessionInv, main = "drained", sink = "open"
        PROVE  /\ auditTodo = << >>
               /\ \A r \in Reqs : pc[r] \in {"sent"} \cup Answering => RowsIn(r, "allow") # {}
    <3>1. Session /\ RunOver /\ \A r \in Reqs : RequestRows(r)
      BY <2>1 DEF SessionInv
    <3>2. DOMAIN auditTodo = {} /\ auditTodo = [x \in DOMAIN auditTodo |-> auditTodo[x]]
      BY <2>1, <3>1 DEF RunOver, Session, QueueInv, QueueTyped, TodoTyped
    <3>3. auditTodo = << >>
      BY <3>2
    <3>4. ASSUME NEW r \in Reqs, pc[r] \in {"sent"} \cup Answering PROVE RowsIn(r, "allow") # {}
      <4>1. Kept(r, "allow")
        BY <3>1, <3>4 DEF RequestRows, Answering
      <4>2. Recorded(seqOf[r], "allow")
        BY <2>1, <3>2, <4>1 DEF Kept, Has
      <4> QED BY <4>2 DEF Recorded, RowsIn
    <3> QED BY <3>3, <3>4
  <2> QED BY <2>1 DEF DecisionsReachTrail
<1> QED BY <1>1, SessionHolds, PTL

-----------------------------------------------------------------------------
\* Between its arrival and the resolution of its sequence.
Underway == {"reserved", "named", "refused", "granted", "allowed", "unsent", "sent",
             "committing", "answered", "observed"}

PendingOwned == \A x \in auditPending : \E r \in Reqs : seqOf[r] = x /\ pc[r] \in Underway

\* A pending sequence is that of a request under way, and no action or card
\* history outlasts what is behind the frontier.
Owed ==
  /\ PendingOwned
  /\ actionIDs \subseteq auditNext..(auditSeq - 1)
  /\ IsFiniteSet(DOMAIN cardAfterSeq)

FewCards == Cardinality(DOMAIN cardAfterSeq) <= Cardinality(Unsettled) + 1

(***************************************************************************)
(* Pruning leaves at most one state for every unsettled sequence, and the  *)
(* latest.                                                                 *)
(***************************************************************************)
LEMMA PrunedFew ==
  ASSUME NEW cards, IsFiniteSet(DOMAIN cards), NEW U, IsFiniteSet(U)
  PROVE  /\ IsFiniteSet(DOMAIN Prune(cards, U))
         /\ Cardinality(DOMAIN Prune(cards, U)) <= Cardinality(U) + 1
<1> DEFINE before(s) == {k \in DOMAIN cards : k <= s}
           top == Max(DOMAIN cards)
           W == {u \in U : before(u) # {}}
           image == {Max(before(s)) : s \in W}
           kept == {top} \cup image
<1>1. Cardinality(U) \in Nat /\ Cardinality(DOMAIN cards) \in Nat
  BY FS_CardinalityType
<1>2. IsFiniteSet(W) /\ Cardinality(W) <= Cardinality(U) /\ Cardinality(W) \in Nat
  <2>1. W \subseteq U
    OBVIOUS
  <2> HIDE DEF W
  <2> QED BY <2>1, FS_Subset, FS_CardinalityType
<1>3. IsFiniteSet(image) /\ Cardinality(image) <= Cardinality(W) /\ Cardinality(image) \in Nat
  <2>1. PICK f : f = [s \in W |-> Max(before(s))]
    OBVIOUS
  <2>2. f \in Surjection(W, image)
    <3>1. f \in [W -> image]
      BY <2>1
    <3>2. \A y \in image : \E s \in W : f[s] = y
      BY <2>1
    <3> HIDE DEF W, image
    <3> QED BY <3>1, <3>2 DEF Surjection
  <2> HIDE DEF W, image
  <2> QED BY <1>2, <2>2, FS_Surjection, FS_CardinalityType
<1>4. IsFiniteSet(kept) /\ Cardinality(kept) <= Cardinality(image) + 1 /\ Cardinality(kept) \in Nat
  <2> HIDE DEF image, top
  <2>1. kept = image \cup {top}
    OBVIOUS
  <2>2. IsFiniteSet(image \cup {top})
    BY <1>3, FS_AddElement
  <2>3. Cardinality(image \cup {top}) = IF top \in image THEN Cardinality(image)
                                        ELSE Cardinality(image) + 1
    BY <1>3, FS_AddElement
  <2> HIDE DEF kept
  <2>4. PICK c \in Nat : c = Cardinality(image)
    BY <1>3
  <2>5. Cardinality(kept) \in {c, c + 1}
    BY <2>1, <2>3, <2>4
  <2> QED BY <2>1, <2>2, <2>4, <2>5
<1>5. Prune(cards, U) = IF Cardinality(DOMAIN cards) <= 1 THEN cards ELSE [k \in kept |-> cards[k]]
  BY DEF Prune
<1>6. DOMAIN [k \in kept |-> cards[k]] = kept
  OBVIOUS
<1> HIDE DEF kept
<1> QED BY <1>1, <1>2, <1>3, <1>4, <1>5, <1>6

(***************************************************************************)
(* A flush that moves the frontier has pruned.                             *)
(***************************************************************************)
LEMMA FlushPrunes ==
  ASSUME NEW marked, NEW todo, NEW pending, NEW ids, NEW cards, NEW first,
         Flush(marked, todo, pending, ids, cards, first),
         IsFiniteSet(DOMAIN cards), IsFiniteSet(pending), IsFiniteSet(DOMAIN todo),
         auditNext \in Nat, auditNext' \in Nat, auditNext <= auditNext'
  PROVE  /\ IsFiniteSet(DOMAIN cardAfterSeq')
         /\ auditNext' # auditNext => FewCards'
<1>1. PICK m \in Nat, up \in Nat : m = auditNext /\ up = auditNext' /\ m <= up
  OBVIOUS
<1>2. PICK left : left = Without(todo, m..(up - 1))
  OBVIOUS
<1>3. PICK U : U = (pending \ (m..(up - 1))) \cup DOMAIN left
  OBVIOUS
<1>4. cardAfterSeq' = IF m..(up - 1) = {} THEN cards ELSE Prune(cards, U)
  BY <1>1, <1>2, <1>3 DEF Flush
<1>5. Unsettled' = U
  BY <1>1, <1>2, <1>3 DEF Flush, Unsettled
<1>6. IsFiniteSet(U)
  <2>1. DOMAIN left \subseteq DOMAIN todo
    BY <1>2 DEF Without
  <2>2. IsFiniteSet(DOMAIN left)
    BY <2>1, FS_Subset
  <2>3. IsFiniteSet(pending \ (m..(up - 1)))
    BY FS_Subset
  <2> QED BY <1>3, <2>2, <2>3, FS_Union
<1>7. /\ IsFiniteSet(DOMAIN Prune(cards, U))
      /\ Cardinality(DOMAIN Prune(cards, U)) <= Cardinality(U) + 1
  BY <1>6, PrunedFew
<1>8. up # m => m..(up - 1) # {}
  BY <1>1
<1>9. FewCards' <=> Cardinality(DOMAIN cardAfterSeq') <= Cardinality(Unsettled') + 1
  BY DEF FewCards
<1> QED BY <1>1, <1>4, <1>5, <1>7, <1>8, <1>9

\* What resolving or draining leaves behind.
Pruned ==
  /\ auditPending' \subseteq auditPending
  /\ actionIDs' \subseteq auditNext'..(auditSeq' - 1)
  /\ IsFiniteSet(DOMAIN cardAfterSeq')
  /\ auditNext' # auditNext => FewCards'

LEMMA FlushLeaves ==
  ASSUME QueueInv, actionIDs \subseteq auditNext..(auditSeq - 1),
         NEW marked, Between(marked, auditNext, auditSeq),
         NEW todo, DOMAIN todo \subseteq DOMAIN auditTodo,
         NEW pending, pending \subseteq auditPending,
         NEW ids, ids \subseteq actionIDs,
         NEW cards, IsFiniteSet(DOMAIN cards), NEW first,
         Flush(marked, todo, pending, ids, cards, first)
  PROVE  Pruned /\ auditPending' \subseteq pending
<1>1. PICK m \in Nat, n \in Nat : m = auditNext /\ n = auditSeq /\ m <= n
  BY DEF QueueInv, QueueTyped
<1>2. PICK up, rest : up = auditNext' /\ rest = auditResolved'
  OBVIOUS
<1>3. up = Frontier(marked, m) /\ rest = IF m..(up - 1) = {} THEN marked ELSE Consume(marked, m)
  BY <1>1, <1>2 DEF Flush
<1>4. up \in m..n
  <2>1. Between(marked, m, n)
    BY <1>1
  <2>2. FrontierAt(marked, m, n, up, rest)
    BY <1>1, <1>3, <2>1, FrontierPasses
  <2> QED BY <2>2 DEF FrontierAt
<1>5. /\ auditPending' = pending \ (m..(up - 1))
      /\ actionIDs' = ids \ (m..(up - 1))
      /\ auditSeq' = n
  BY <1>1, <1>2 DEF Flush
<1>6. actionIDs' \subseteq up..(n - 1)
  <2>1. ids \subseteq m..(n - 1)
    BY <1>1
  <2>2. PICK S : S = ids \ (m..(up - 1))
    OBVIOUS
  <2>3. S \subseteq up..(n - 1)
    BY <1>4, <2>1, <2>2
  <2> QED BY <1>5, <2>2, <2>3
<1>7. IsFiniteSet(pending) /\ IsFiniteSet(DOMAIN todo)
  <2>1. IsFiniteSet(m..(n - 1))
    BY FS_Interval
  <2>2. pending \subseteq m..(n - 1) /\ DOMAIN todo \subseteq m..(n - 1)
    BY <1>1 DEF QueueInv, QueueTyped, TodoTyped
  <2> QED BY <2>1, <2>2, FS_Subset
<1>8. IsFiniteSet(DOMAIN cardAfterSeq') /\ (auditNext' # auditNext => FewCards')
  <2>1. auditNext \in Nat /\ auditNext' \in Nat /\ auditNext <= auditNext'
    BY <1>1, <1>2, <1>4
  <2> QED BY <1>7, <2>1, FlushPrunes
<1> QED BY <1>2, <1>5, <1>6, <1>8 DEF Pruned

LEMMA ResolvePrunes ==
  ASSUME QueueInv, actionIDs \subseteq auditNext..(auditSeq - 1), IsFiniteSet(DOMAIN cardAfterSeq),
         NEW s \in 0..(auditSeq - 1), ResolveAudit(s)
  PROVE  Pruned /\ s \notin auditPending'
<1>1. CASE s < auditNext
  <2>1. UNCHANGED queueVars
    BY <1>1 DEF ResolveAudit
  <2>2. UNCHANGED <<auditPending, actionIDs, auditNext, auditSeq, cardAfterSeq>>
    BY <2>1 DEF queueVars, queue
  <2>3. s \notin auditPending
    BY <1>1 DEF QueueInv, QueueTyped
  <2> QED BY <2>2, <2>3 DEF Pruned
<1>2. CASE ~(s < auditNext)
  <2>1. PICK todo, pending, ids, marked, cards, first :
          /\ todo = IF s \in actionIDs THEN Without(auditTodo, {s}) ELSE auditTodo
          /\ pending = auditPending \ {s}
          /\ ids = actionIDs \ {s}
          /\ marked = Mark(auditResolved, s)
          /\ cards = Prune(cardAfterSeq, pending \cup DOMAIN todo)
          /\ first = IF s \in actionIDs THEN RowsOf(auditTodo, cardAfterSeq, s) ELSE <<>>
    OBVIOUS
  <2>2. Flush(marked, todo, pending, ids, cards, first)
    BY <1>2, <2>1 DEF ResolveAudit, ResolveQueued
  <2>3. PICK m \in Nat, n \in Nat, rs \in {auditResolved} : m = auditNext /\ n = auditSeq /\ m <= n
    BY DEF QueueInv, QueueTyped
  <2>4. Between(marked, m, n)
    <3>1. Between(rs, m + 1, n)
      BY <2>3 DEF QueueInv, FrontierStops
    <3>2. \A r \in rs : m <= r.start
      BY <2>3, <3>1 DEF Between, Ranges
    <3>3. Between(rs, m, n)
      BY <3>1, <3>2 DEF Between
    <3>4. s \in m..(n - 1)
      BY <1>2, <2>3
    <3> QED BY <2>1, <2>3, <3>3, <3>4, MarkAdds
  <2>5. DOMAIN todo \subseteq DOMAIN auditTodo
    BY <2>1 DEF Without
  <2>6. IsFiniteSet(DOMAIN cards)
    <3>1. IsFiniteSet(m..(n - 1))
      BY FS_Interval
    <3>2. pending \cup DOMAIN todo \subseteq m..(n - 1)
      BY <2>1, <2>3, <2>5 DEF QueueInv, QueueTyped, TodoTyped
    <3>3. PICK U : U = pending \cup DOMAIN todo
      OBVIOUS
    <3>4. IsFiniteSet(U)
      BY <3>1, <3>2, <3>3, FS_Subset
    <3> QED BY <2>1, <3>3, <3>4, PrunedFew
  <2>7. Pruned /\ auditPending' \subseteq pending
    BY <2>1, <2>2, <2>3, <2>4, <2>5, <2>6, FlushLeaves
  <2> QED BY <2>1, <2>7
<1> QED BY <1>1, <1>2

LEMMA DrainPrunes ==
  ASSUME QueueInv, actionIDs \subseteq auditNext..(auditSeq - 1), IsFiniteSet(DOMAIN cardAfterSeq),
         DrainAudits
  PROVE  Pruned
<1>1. PICK rs, new : /\ rs = auditResolved
                     /\ new = {s \in DOMAIN auditTodo \cup auditPending : ~Resolved(rs, s)}
  OBVIOUS
<1>2. PICK m \in Nat, n \in Nat : m = auditNext /\ n = auditSeq /\ m <= n
  BY DEF QueueInv, QueueTyped
<1>3. PICK marked : marked = MarkedAll(rs, new)
  OBVIOUS
<1>4. Flush(marked, auditTodo, auditPending, actionIDs, cardAfterSeq, <<>>)
  BY <1>1, <1>3 DEF DrainAudits, MarkedAll
<1>5. Between(marked, m, n)
  <2>1. Between(rs, m + 1, n)
    BY <1>1, <1>2 DEF QueueInv, FrontierStops
  <2>2. \A r \in rs : m <= r.start
    BY <1>1, <1>2, <2>1 DEF Between, Ranges
  <2>3. Between(rs, m, n)
    BY <2>1, <2>2 DEF Between
  <2>4. new \subseteq m..(n - 1)
    BY <1>1, <1>2 DEF QueueInv, QueueTyped, TodoTyped
  <2>5. Between(MarkedAll(rs, new), m, n)
    BY <2>3, <2>4, MarkAll, Zenon
  <2> QED BY <1>3, <2>5
<1> QED BY <1>1, <1>2, <1>4, <1>5, FlushLeaves

(***************************************************************************)
(* A request that moves on gives up its sequence only when it is resolved. *)
(***************************************************************************)
LEMMA MovesOn ==
  ASSUME PendingOwned, NEW r \in Reqs, NEW to, Goto(r, to), pc \in [Reqs -> Places],
         UNCHANGED seqOf, auditPending' \subseteq auditPending,
         pc[r] \in Underway => to \in Underway \/ seqOf[r] \notin auditPending'
  PROVE  PendingOwned'
<1>1. pc'[r] = to /\ \A q \in Reqs : q # r => pc'[q] = pc[q]
  BY DEF Goto
<1>2. ASSUME NEW x \in auditPending' PROVE \E q \in Reqs : seqOf'[q] = x /\ pc'[q] \in Underway
  <2>1. PICK q \in Reqs : seqOf[q] = x /\ pc[q] \in Underway
    BY <1>2 DEF PendingOwned
  <2>2. seqOf'[q] = x
    BY <2>1
  <2>3. CASE q = r
    BY <1>1, <1>2, <2>1, <2>2, <2>3
  <2>4. CASE q # r
    BY <1>1, <2>1, <2>2, <2>4
  <2> QED BY <2>3, <2>4
<1> QED BY <1>2 DEF PendingOwned

LEMMA OwedArrive ==
  ASSUME Session, Owed, NEW r \in Reqs, Arrive(r)
  PROVE  Owed' /\ UNCHANGED auditNext
<1>1. /\ pc[r] = "idle" /\ auditSeq' = auditSeq + 1 /\ auditPending' = auditPending \cup {auditSeq}
      /\ seqOf' = [seqOf EXCEPT ![r] = auditSeq] /\ Goto(r, "reserved")
      /\ UNCHANGED <<auditNext, cardAfterSeq, actionIDs>>
  BY DEF Arrive, Reserve
<1>2. /\ pc'[r] = "reserved" /\ seqOf'[r] = auditSeq
      /\ \A q \in Reqs : q # r => pc'[q] = pc[q] /\ seqOf'[q] = seqOf[q]
  BY <1>1 DEF Goto, Session, RequestsTyped
<1>3. ASSUME NEW x \in auditPending' PROVE \E q \in Reqs : seqOf'[q] = x /\ pc'[q] \in Underway
  <2>1. CASE x = auditSeq
    BY <1>2, <2>1 DEF Underway
  <2>2. CASE x # auditSeq
    <3>1. PICK q \in Reqs : seqOf[q] = x /\ pc[q] \in Underway
      BY <1>1, <1>3, <2>2 DEF Owed, PendingOwned
    <3>2. q # r
      BY <1>1, <3>1 DEF Underway
    <3> QED BY <1>2, <3>1, <3>2
  <2> QED BY <2>1, <2>2
<1>4. actionIDs' \subseteq auditNext'..(auditSeq' - 1)
  <2>1. PICK m \in Nat, n \in Nat : m = auditNext /\ n = auditSeq
    BY DEF Session, QueueInv, QueueTyped
  <2>2. m..(n - 1) \subseteq m..((n + 1) - 1)
    OBVIOUS
  <2> QED BY <1>1, <2>1, <2>2 DEF Owed
<1> QED BY <1>1, <1>3, <1>4 DEF Owed, PendingOwned

LEMMA OwedName ==
  ASSUME Session, Owed, NEW r \in Reqs, RequestRows(r), Name(r)
  PROVE  Owed' /\ UNCHANGED auditNext
<1>1. /\ pc[r] = "reserved" /\ Goto(r, "named")
      /\ actionIDs' = actionIDs \/ actionIDs' = actionIDs \cup {seqOf[r]}
      /\ UNCHANGED <<auditSeq, auditNext, auditPending, cardAfterSeq, seqOf>>
  BY DEF Name, QueueActionID
<1>2. seqOf[r] \in auditNext..(auditSeq - 1)
  <2>1. ~Settled(seqOf[r])
    BY <1>1 DEF RequestRows
  <2>2. seqOf[r] \in Nat /\ seqOf[r] < auditSeq /\ auditNext \in Nat /\ auditSeq \in Nat
    BY <1>1 DEF Session, RequestsTyped, SequencesOwned, QueueInv, QueueTyped
  <2> QED BY <2>1, <2>2 DEF Settled
<1>3. PendingOwned'
  BY <1>1, MovesOn DEF Owed, Session, RequestsTyped, Underway
<1> QED BY <1>1, <1>2, <1>3 DEF Owed

\* The steps that leave the queue's bookkeeping alone.
LEMMA OwedWalk ==
  ASSUME Session, Owed, NEW r \in Reqs, NEW to, Goto(r, to),
         UNCHANGED <<auditSeq, auditNext, auditPending, actionIDs, seqOf>>,
         pc[r] \in Underway => to \in Underway, IsFiniteSet(DOMAIN cardAfterSeq')
  PROVE  Owed'
<1>1. PendingOwned'
  BY MovesOn DEF Owed, Session, RequestsTyped
<1> QED BY <1>1 DEF Owed

LEMMA OwedResolve ==
  ASSUME Session, Owed, NEW r \in Reqs, Resolve(r)
  PROVE  Owed' /\ (auditNext' # auditNext => FewCards')
<1>1. /\ ResolveAudit(seqOf[r]) /\ Goto(r, AfterResolve(pc[r])) /\ pc[r] # "idle"
      /\ UNCHANGED seqOf
  BY DEF Resolve
<1>2. PICK s \in 0..(auditSeq - 1) : s = seqOf[r]
  <2>1. seqOf[r] \in Nat /\ seqOf[r] < auditSeq /\ auditSeq \in Nat
    BY <1>1 DEF Session, RequestsTyped, SequencesOwned, QueueInv, QueueTyped
  <2> QED BY <2>1
<1>3. Pruned /\ s \notin auditPending'
  BY <1>1, <1>2, ResolvePrunes DEF Session, Owed
<1>4. PendingOwned'
  BY <1>1, <1>2, <1>3, MovesOn DEF Owed, Session, RequestsTyped, Pruned
<1> QED BY <1>3, <1>4 DEF Owed, Pruned

LEMMA OwedDrain ==
  ASSUME Session, Owed, DrainAudits, UNCHANGED <<pc, seqOf>>
  PROVE  Owed' /\ (auditNext' # auditNext => FewCards')
<1>1. Pruned
  BY DrainPrunes DEF Session, Owed
<1>2. PendingOwned'
  BY <1>1 DEF Owed, PendingOwned, Pruned
<1> QED BY <1>1, <1>2 DEF Owed, Pruned

LEMMA OwedProgress ==
  ASSUME Session, Owed, NEW r \in Reqs, RequestRows(r), Progress(r) \/ Answer(r) \/ CommitCurrent(r)
  PROVE  Owed' /\ (auditNext' # auditNext => FewCards')
<1>0. ~mode.nameless /\ IsFiniteSet(DOMAIN cardAfterSeq)
  BY DEF Session, Owed
<1>1. CASE Name(r)
  BY <1>1, OwedName
<1>2. CASE Resolve(r)
  BY <1>2, OwedResolve
<1>3. CASE Decide(r)
  <2>1. PICK to \in {"refused", "granted", "allowed"} : Goto(r, to)
    BY <1>0, <1>3 DEF Decide
  <2>2. UNCHANGED <<auditSeq, auditNext, auditPending, actionIDs, seqOf, cardAfterSeq>>
    BY <1>3 DEF Decide
  <2>3. to \in Underway
    BY <2>1 DEF Underway
  <2> QED BY <1>0, <2>1, <2>2, <2>3, OwedWalk
<1>4. CASE Dispatch(r)
  <2>1. PICK to \in {"unsent", "sent"} : Goto(r, to)
    BY <1>4 DEF Dispatch
  <2>2. UNCHANGED <<auditSeq, auditNext, auditPending, actionIDs, seqOf, cardAfterSeq>>
    BY <1>4 DEF Dispatch, queue
  <2>3. to \in Underway
    BY <2>1 DEF Underway
  <2> QED BY <1>0, <2>1, <2>2, <2>3, OwedWalk
<1>5. CASE CommitHistory(r)
  <2>1. /\ Goto(r, "answered")
        /\ UNCHANGED <<auditSeq, auditNext, auditPending, actionIDs, seqOf>>
        /\ DOMAIN cardAfterSeq' = DOMAIN cardAfterSeq \cup {seqOf[r]}
    BY <1>5 DEF CommitHistory
  <2>2. IsFiniteSet(DOMAIN cardAfterSeq')
    BY <1>0, <2>1, FS_AddElement
  <2>3. "answered" \in Underway
    BY DEF Underway
  <2> QED BY <2>1, <2>2, <2>3, OwedWalk
<1>6. CASE Observe(r)
  <2>1. PICK to : /\ to = IF pc[r] = "unobserved" THEN "done" ELSE "observed"
                  /\ Goto(r, to)
    BY <1>6 DEF Observe
  <2>2. UNCHANGED <<auditSeq, auditNext, auditPending, actionIDs, seqOf, cardAfterSeq>>
    BY <1>6 DEF Observe
  <2>3. pc[r] \in Underway => to \in Underway
    BY <2>1 DEF Underway
  <2> QED BY <1>0, <2>1, <2>2, <2>3, OwedWalk
<1>7. CASE Reply(r)
  <2>1. /\ pc[r] = "resolved" /\ Goto(r, "done")
        /\ UNCHANGED <<auditSeq, auditNext, auditPending, actionIDs, seqOf, cardAfterSeq>>
    BY <1>7 DEF Reply, queue
  <2>2. pc[r] \notin Underway
    BY <2>1 DEF Underway
  <2> QED BY <1>0, <2>1, <2>2, OwedWalk
<1>8. CASE Answer(r) \/ CommitCurrent(r)
  <2>1. PICK to \in {"answered", "committing"} : Goto(r, to)
    BY <1>8 DEF Answer, CommitCurrent
  <2>2. UNCHANGED <<auditSeq, auditNext, auditPending, actionIDs, seqOf, cardAfterSeq>>
    BY <1>8 DEF Answer, CommitCurrent, queueVars, queue
  <2>3. to \in Underway
    BY <2>1 DEF Underway
  <2> QED BY <1>0, <2>1, <2>2, <2>3, OwedWalk
<1> QED BY <1>1, <1>2, <1>3, <1>4, <1>5, <1>6, <1>7, <1>8 DEF Progress

LEMMA OwedStays ==
  ASSUME Owed, RunSteps \/ UNCHANGED vars PROVE Owed' /\ UNCHANGED auditNext
<1>1. UNCHANGED <<auditPending, actionIDs, auditNext, auditSeq, cardAfterSeq, pc, seqOf>>
  BY RunRests DEF queue
<1> QED BY <1>1 DEF Owed, PendingOwned

LEMMA OwedNext ==
  ASSUME Session, RunOver, Owed, \A r \in Reqs : RequestRows(r), Next
  PROVE  Owed' /\ (auditNext' # auditNext => FewCards')
<1>1. CASE \E r \in Reqs : Arrive(r) \/ Progress(r) \/ Answer(r) \/ CommitCurrent(r)
  BY <1>1, OwedArrive, OwedProgress
<1>2. CASE DrainAtEOF \/ DrainAtExit
  BY <1>2, OwedDrain DEF DrainAtEOF, DrainAtExit
<1>3. CASE RunSteps
  BY <1>3, OwedStays
<1> QED BY <1>1, <1>2, <1>3 DEF Next, RunSteps

LEMMA OwedInit ==
  ASSUME Init PROVE Owed
<1>1. /\ auditPending = {} /\ actionIDs = {} /\ DOMAIN cardAfterSeq = {}
  BY DEF Init, QueueInit
<1>2. IsFiniteSet({})
  BY FS_EmptySet
<1> QED BY <1>1, <1>2 DEF Owed, PendingOwned

LEMMA QuietKeepsNothing ==
  ASSUME Session, Owed, Quiet
  PROVE  Unsettled = {} /\ auditResolved = {} /\ actionIDs = {} /\ auditNext = auditSeq
<1>1. PICK m \in Nat, n \in Nat : m = auditNext /\ n = auditSeq /\ m <= n
  BY DEF Session, QueueInv, QueueTyped
<1>2. auditPending = {}
  <2>1. \A r \in Reqs : pc[r] \notin Underway
    BY DEF Quiet, Underway
  <2> QED BY <2>1 DEF Owed, PendingOwned
<1>3. PICK rs : rs = auditResolved
  OBVIOUS
<1>4. /\ Between(rs, m + 1, n)
      /\ \A x \in m..(n - 1) : Resolved(rs, x)
  BY <1>1, <1>2, <1>3 DEF Session, QueueInv, FrontierStops
<1>5. \A r \in rs : r.start \in Nat /\ r.end \in Nat /\ m + 1 <= r.start /\ r.start <= r.end /\ r.end < n
  BY <1>4 DEF Between, Ranges
<1>6. m = n
  <2>1. ASSUME m # n PROVE FALSE
    <3>1. m \in m..(n - 1)
      BY <1>1, <2>1
    <3>2. PICK r \in rs : r.start <= m /\ m <= r.end
      BY <1>4, <3>1 DEF Resolved
    <3> QED BY <1>1, <1>5, <3>2
  <2> QED BY <2>1
<1>7. rs = {}
  BY <1>1, <1>5, <1>6
<1>8. DOMAIN auditTodo = {} /\ actionIDs = {}
  <2>1. DOMAIN auditTodo \subseteq m..(n - 1) /\ actionIDs \subseteq m..(n - 1)
    BY <1>1 DEF Session, QueueInv, QueueTyped, TodoTyped, Owed
  <2>2. m..(n - 1) = {}
    BY <1>1, <1>6
  <2> QED BY <2>1, <2>2
<1> QED BY <1>1, <1>2, <1>3, <1>6, <1>7, <1>8 DEF Unsettled

(***************************************************************************)
(* When no request is under way nothing is retained for any, and whenever  *)
(* the frontier moves the card history is down to one state for every      *)
(* unsettled sequence and the latest: for any requests, kinds of session   *)
(* and bounds, without the calls that are held for approval first.         *)
(***************************************************************************)
THEOREM QuietRetainsNothing ==
  ASSUME \A m \in Modes : ~m.nameless
  PROVE  Spec => NothingRetained
<1>1. Init => SessionInv /\ Owed
  BY SessionInit, OwedInit
<1>2. ASSUME SessionInv PROVE Session /\ RunOver /\ \A r \in Reqs : RequestRows(r)
  BY <1>2 DEF SessionInv
<1>3. ASSUME SessionInv, Owed, [Next]_vars
      PROVE  SessionInv' /\ Owed' /\ (auditNext' # auditNext => FewCards')
  <2>1. SessionInv'
    BY <1>3, SessionNext
  <2>2. CASE Next
    BY <1>2, <1>3, <2>1, <2>2, OwedNext
  <2>3. CASE UNCHANGED vars
    BY <1>3, <2>1, <2>3, OwedStays
  <2> QED BY <1>3, <2>2, <2>3
<1>4. SessionInv /\ Owed => (Quiet => /\ Unsettled = {} /\ auditResolved = {} /\ actionIDs = {}
                                     /\ auditNext = auditSeq)
  BY <1>2, QuietKeepsNothing
<1>5. SessionInv /\ Owed /\ [Next]_vars =>
        [auditNext' # auditNext =>
           Cardinality(DOMAIN cardAfterSeq') <= Cardinality(Unsettled') + 1]_queueVars
  <2>1. FewCards' <=> Cardinality(DOMAIN cardAfterSeq') <= Cardinality(Unsettled') + 1
    BY DEF FewCards
  <2> QED BY <1>3, <2>1
<1>6. SessionInv /\ Owed /\ [Next]_vars => (SessionInv /\ Owed)'
  BY <1>3
<1> QED BY <1>1, <1>4, <1>5, <1>6, PTL DEF Spec, NothingRetained
-----------------------------------------------------------------------------
(***************************************************************************)
(* Empty sequences before and after the others flatten to nothing.         *)
(***************************************************************************)
LEMMA JoinEmpty ==
  ASSUME NEW T, NEW s \in Seq(T)
  PROVE  s \o <<>> = s /\ <<>> \o s = s
BY ConcatEmptySeq

\* What is flattened of s, of which only the places after m up to up are not
\* empty, at place x: what is flattened of t, which are those places, so far.
SoFar(f, g, m, up, x) ==
  f[x] = IF x <= m \/ up = m THEN <<>> ELSE IF x <= up THEN g[x - m] ELSE g[up - m]

LEMMA JoinsMiddle ==
  ASSUME NEW T, NEW n \in Nat, NEW m \in 0..n, NEW up \in m..n,
         NEW s \in [1..n -> Seq(T)], NEW t \in [1..(up - m) -> Seq(T)],
         \A i \in 1..n : i <= m \/ up < i => s[i] = <<>>,
         \A i \in 1..(up - m) : s[m + i] = t[i],
         NEW f, Joins(s, n, f), NEW g, Joins(t, up - m, g)
  PROVE  \A x \in 1..n : SoFar(f, g, m, up, x)
<1> DEFINE W == {x \in 1..n : ~SoFar(f, g, m, up, x)}
<1> SUFFICES ASSUME W # {} PROVE FALSE
  OBVIOUS
<1>1. PICK w \in W : \A y \in W : w <= y
  <2> HIDE DEF W
  <2>1. W \subseteq Nat
    BY DEF W
  <2> QED BY <2>1, SmallestOf
<1>2. w \in 1..n /\ f[w] = IF w = 1 THEN s[w] ELSE f[w - 1] \o s[w]
  BY <1>1 DEF Joins
<1>3. \A i \in 1..(up - m) : g[i] \in Seq(T) /\ g[i] = IF i = 1 THEN t[i] ELSE g[i - 1] \o t[i]
  <2>1. up - m \in Nat
    OBVIOUS
  <2>2. \A i \in 1..(up - m) : Gathers(T, t, i, g[i])
    BY <2>1, JoinsHave
  <2> QED BY <2>2 DEF Gathers, Joins
<1>4. w # 1 => w - 1 \in 1..n /\ SoFar(f, g, m, up, w - 1)
  BY <1>1, <1>2
<1>5. <<>> \in Seq(T)
  OBVIOUS
<1>6. CASE w <= m
  <2>1. s[w] = <<>>
    BY <1>2, <1>6
  <2>2. CASE w = 1
    BY <1>1, <1>2, <1>6, <2>1, <2>2 DEF SoFar
  <2>3. CASE w # 1
    <3>1. f[w - 1] = <<>>
      BY <1>2, <1>4, <1>6, <2>3 DEF SoFar
    <3>2. f[w] = <<>>
      BY <1>2, <1>5, <2>1, <2>3, <3>1, JoinEmpty
    <3> QED BY <1>1, <1>6, <3>2 DEF SoFar
  <2> QED BY <2>2, <2>3
<1>7. CASE m < w /\ w <= up
  <2>1. PICK i \in 1..(up - m) : i = w - m /\ s[w] = t[i]
    <3>1. w - m \in 1..(up - m) /\ m + (w - m) = w
      BY <1>2, <1>7
    <3> QED BY <3>1
  <2>2. CASE i = 1
    <3>1. w = m + 1 /\ g[i] = t[i] /\ t[i] \in Seq(T)
      BY <1>3, <2>1, <2>2
    <3>2. CASE w = 1
      BY <1>1, <1>2, <1>7, <2>1, <3>1, <3>2 DEF SoFar
    <3>3. CASE w # 1
      <4>1. f[w - 1] = <<>>
        BY <1>4, <3>1, <3>3 DEF SoFar
      <4>2. f[w] = t[i]
        BY <1>2, <2>1, <3>1, <3>3, <4>1, JoinEmpty
      <4> QED BY <1>1, <1>7, <2>1, <3>1, <4>2 DEF SoFar
    <3> QED BY <3>2, <3>3
  <2>3. CASE i # 1
    <3>1. w # 1 /\ f[w - 1] = g[(w - 1) - m]
      BY <1>2, <1>4, <1>7, <2>1, <2>3 DEF SoFar
    <3>2. (w - 1) - m = i - 1
      BY <1>2, <2>1
    <3>3. f[w] = g[i]
      <4>1. f[w] = f[w - 1] \o s[w] /\ s[w] = t[i]
        BY <1>2, <2>1, <3>1
      <4>2. g[i] = g[i - 1] \o t[i]
        BY <1>3, <2>3
      <4>3. f[w - 1] = g[i - 1]
        BY <3>1, <3>2
      <4> QED BY <4>1, <4>2, <4>3, Zenon
    <3> QED BY <1>1, <1>7, <2>1, <3>3 DEF SoFar
  <2> QED BY <2>2, <2>3
<1>8. CASE up < w
  <2>1. s[w] = <<>>
    BY <1>2, <1>8
  <2>2. CASE w = 1
    <3>1. up = m
      BY <1>8, <2>2
    <3> QED BY <1>1, <1>2, <2>1, <2>2, <3>1 DEF SoFar
  <2>3. CASE w # 1
    <3>1. PICK p : p = f[w - 1] /\ p \in Seq(T)
                   /\ p = IF up = m THEN <<>> ELSE g[up - m]
      <4>1. CASE up = m
        BY <1>4, <1>5, <2>3, <4>1 DEF SoFar
      <4>2. CASE up # m
        <5>1. /\ up - m \in 1..(up - m)
              /\ ~(w - 1 <= m)
              /\ w - 1 <= up => w - 1 = up
          <6>1. w \in Int /\ up \in Int /\ m \in Int /\ up < w /\ m < up
            BY <1>2, <1>8, <4>2
          <6> QED BY <6>1
        <5>2. f[w - 1] = g[up - m]
          BY <1>4, <2>3, <4>2, <5>1 DEF SoFar
        <5> QED BY <1>3, <4>2, <5>1, <5>2
      <4> QED BY <4>1, <4>2
    <3>2. f[w] = p
      BY <1>2, <2>1, <2>3, <3>1, JoinEmpty
    <3>3. ~(w <= m) /\ ~(w <= up)
      BY <1>2, <1>8
    <3> QED BY <1>1, <3>1, <3>2, <3>3 DEF SoFar
  <2> QED BY <2>2, <2>3
<1> QED BY <1>2, <1>6, <1>7, <1>8

LEMMA FlattenJoins ==
  ASSUME NEW T, NEW n \in Nat, NEW s \in [1..n -> Seq(T)]
  PROVE  IF n = 0 THEN FlattenSeq(s) = <<>> ELSE \E f : Joins(s, n, f) /\ FlattenSeq(s) = f[n]
<1>1. Len(s) = n
  <2>1. s \in Seq(Seq(T)) /\ Len(s) \in Nat /\ DOMAIN s = 1..Len(s)
    OBVIOUS
  <2> QED BY <2>1
<1>2. CASE n = 0
  <2>1. FlattenSeq(s) = s
    BY <1>1, <1>2 DEF FlattenSeq
  <2>2. s = <<>>
    BY <1>1, <1>2
  <2> QED BY <1>2, <2>1, <2>2
<1>3. CASE n # 0
  <2> DEFINE c == CHOOSE f : Joins(s, n, f)
  <2>1. Joins(s, n, c)
    BY JoinsExist
  <2>2. FlattenSeq(s) = c[n]
    BY <1>1, <1>3 DEF FlattenSeq, Joins
  <2> HIDE DEF c
  <2> QED BY <1>3, <2>1, <2>2
<1> QED BY <1>2, <1>3

\* t is the places after m up to up of s, and the others are empty.
Middle(T, n, m, up, s, t) ==
  /\ n \in Nat /\ m \in 0..n /\ up \in m..n
  /\ s \in [1..n -> Seq(T)] /\ t \in [1..(up - m) -> Seq(T)]
  /\ \A i \in 1..n : i <= m \/ up < i => s[i] = <<>>
  /\ \A i \in 1..(up - m) : s[m + i] = t[i]

LEMMA FlattenMiddle ==
  ASSUME NEW T, NEW n, NEW m, NEW up, NEW s, NEW t, Middle(T, n, m, up, s, t)
  PROVE  FlattenSeq(s) = FlattenSeq(t) /\ FlattenSeq(s) \in Seq(T)
<1>0. /\ n \in Nat /\ m \in 0..n /\ up \in m..n
      /\ s \in [1..n -> Seq(T)] /\ t \in [1..(up - m) -> Seq(T)]
      /\ \A i \in 1..n : i <= m \/ up < i => s[i] = <<>>
      /\ \A i \in 1..(up - m) : s[m + i] = t[i]
  BY DEF Middle
<1>1. up - m \in Nat
  BY <1>0
<1>2. FlattenSeq(s) \in Seq(T)
  BY <1>0, FlattenHas DEF Gathers
<1>3. CASE n = 0
  <2>1. up - m = 0
    BY <1>0, <1>3
  <2> QED BY <1>0, <1>1, <1>2, <1>3, <2>1, FlattenJoins
<1>4. CASE n # 0
  <2>1. PICK f : Joins(s, n, f) /\ FlattenSeq(s) = f[n]
    BY <1>0, <1>4, FlattenJoins
  <2>2. PICK g : Joins(t, up - m, g)
    BY <1>1, JoinsExist
  <2>3. n \in 1..n
    BY <1>0, <1>4
  <2>4. SoFar(f, g, m, up, n)
    BY <1>0, <2>1, <2>2, <2>3, JoinsMiddle
  <2>5. CASE up = m
    <3>1. up - m = 0
      BY <1>0, <2>5
    <3>2. FlattenSeq(t) = <<>>
      BY <1>0, <1>1, <3>1, FlattenJoins
    <3> QED BY <1>0, <1>2, <2>1, <2>4, <2>5, <3>2 DEF SoFar
  <2>6. CASE up # m
    <3>1. up - m # 0 /\ ~(n <= m)
      BY <1>0, <2>6
    <3>2. PICK h : Joins(t, up - m, h) /\ FlattenSeq(t) = h[up - m]
      BY <1>0, <1>1, <3>1, FlattenJoins
    <3>3. SoFar(f, h, m, up, n)
      BY <1>0, <2>1, <3>2, <2>3, JoinsMiddle
    <3>4. f[n] = h[up - m]
      BY <1>0, <2>6, <3>1, <3>3 DEF SoFar
    <3> QED BY <1>2, <2>1, <3>2, <3>4
  <2> QED BY <2>5, <2>6
<1> QED BY <1>3, <1>4

-----------------------------------------------------------------------------
LEMMA LargestOf ==
  ASSUME NEW n \in Nat, NEW S, S \subseteq 0..(n - 1), S # {}
  PROVE  Max(S) \in S /\ \A y \in S : y <= Max(S)
<1> DEFINE W == {n - y : y \in S}
<1>1. W \subseteq Nat /\ W # {}
  <2>1. ASSUME NEW y \in S PROVE n - y \in Nat
    <3>1. y \in 0..(n - 1)
      OBVIOUS
    <3> QED BY <3>1
  <2> QED BY <2>1
<1>2. PICK w \in W : \A y \in W : w <= y
  <2> HIDE DEF W
  <2> QED BY <1>1, SmallestOf
<1>3. PICK x \in S : w = n - x
  BY <1>2
<1>4. \A y \in S : x >= y
  <2>1. ASSUME NEW y \in S PROVE x >= y
    <3>1. n - x <= n - y
      BY <1>2, <1>3
    <3>2. x \in Int /\ y \in Int
      OBVIOUS
    <3> QED BY <3>1, <3>2
  <2> QED BY <2>1
<1>5. Max(S) \in S /\ \A y \in S : Max(S) >= y
  BY <1>4 DEF Max
<1>6. \A x1, y1 \in S : x1 >= y1 => y1 <= x1
  OBVIOUS
<1> QED BY <1>5, <1>6

\* The card as of x in a history.
CardIn(whole, x) ==
  LET earlier == {k \in DOMAIN whole : k <= x}
  IN  IF earlier = {} THEN 0 ELSE whole[CHOOSE k \in earlier : \A j \in earlier : j <= k]

\* The latest card state of the whole history up to x is among the cards.
Covers(cards, whole, x) ==
  \A k \in DOMAIN whole : k <= x => \E j \in DOMAIN cards : k <= j /\ j <= x

\* The cards are part of the history of n requests, and enough for those in U
\* and for every later one.
Remembers(cards, whole, n, U) ==
  /\ DOMAIN whole \subseteq 0..(n - 1) /\ \A k \in DOMAIN whole : whole[k] \in Nat
  /\ DOMAIN cards \subseteq DOMAIN whole
  /\ \A k \in DOMAIN cards : cards[k] = whole[k]
  /\ \A x \in U : Covers(cards, whole, x)
  /\ \A k \in DOMAIN whole : \E j \in DOMAIN cards : k <= j

LEMMA CardsAgree ==
  ASSUME NEW n \in Nat, NEW cards, NEW whole, NEW U, Remembers(cards, whole, n, U),
         NEW x \in Nat, Covers(cards, whole, x)
  PROVE  CardAt(cards, x) = CardIn(whole, x) /\ CardAt(cards, x) \in Nat
<1>1. PICK A, B : A = {k \in DOMAIN cards : k <= x} /\ B = {k \in DOMAIN whole : k <= x}
  OBVIOUS
<1>2. A \subseteq B /\ B \subseteq 0..(n - 1)
  BY <1>1 DEF Remembers
<1>3. B # {} => A # {}
  BY <1>1 DEF Covers
<1>4. CASE B = {}
  <2>1. A = {}
    BY <1>2, <1>4
  <2> QED BY <1>1, <1>4, <2>1 DEF CardAt, CardIn
<1>5. CASE B # {}
  <2>1. A # {} /\ A \subseteq 0..(n - 1)
    BY <1>2, <1>3, <1>5
  <2>2. PICK a : a = Max(A) /\ a \in A /\ \A y \in A : y <= a
    BY <2>1, LargestOf
  <2>3. PICK b : b = CHOOSE k \in B : \A j \in B : j <= k
    OBVIOUS
  <2>4. a \in B /\ \A y \in B : y <= a
    <3>1. ASSUME NEW y \in B PROVE y <= a
      <4>1. PICK j \in A : y <= j
        BY <1>1 DEF Covers
      <4>2. j <= a /\ j \in Int /\ y \in Int /\ a \in Int
        BY <1>2, <2>1, <2>2
      <4> QED BY <4>1, <4>2
    <3> QED BY <1>2, <2>2, <3>1
  <2>5. b \in B /\ \A y \in B : y <= b
    BY <2>3, <2>4
  <2>6. a = b
    <3>1. a <= b /\ b <= a /\ a \in Int /\ b \in Int
      BY <1>2, <2>4, <2>5
    <3> QED BY <3>1
  <2>7. a \in DOMAIN cards /\ cards[a] = whole[a] /\ whole[a] \in Nat
    BY <1>1, <2>2 DEF Remembers
  <2>8. CardAt(cards, x) = cards[a]
    BY <1>1, <2>1, <2>2 DEF CardAt
  <2>9. CardIn(whole, x) = whole[b]
    BY <1>1, <1>5, <2>3 DEF CardIn
  <2> QED BY <2>6, <2>7, <2>8, <2>9
<1> QED BY <1>4, <1>5

LEMMA PruneRemembers ==
  ASSUME NEW n \in Nat, NEW cards, NEW whole, NEW U, Remembers(cards, whole, n, U),
         U \subseteq Nat, NEW V, V \subseteq U
  PROVE  Remembers(Prune(cards, V), whole, n, V)
<1> DEFINE before(s) == {k \in DOMAIN cards : k <= s}
           D == DOMAIN cards
           kept == {Max(D)} \cup {Max(before(s)) : s \in {u \in V : before(u) # {}}}
           less == [k \in kept |-> cards[k]]
<1>1. /\ DOMAIN whole \subseteq 0..(n - 1) /\ \A k \in DOMAIN whole : whole[k] \in Nat
      /\ D \subseteq DOMAIN whole
      /\ \A k \in D : cards[k] = whole[k]
      /\ \A x \in V : Covers(cards, whole, x)
      /\ \A k \in DOMAIN whole : \E j \in D : k <= j
  BY DEF Remembers
<1>2. Prune(cards, V) = IF Cardinality(D) <= 1 THEN cards ELSE less
  BY DEF Prune
<1>3. CASE Cardinality(D) <= 1
  BY <1>1, <1>2, <1>3 DEF Remembers
<1>4. CASE ~(Cardinality(D) <= 1)
  <2>1. D # {}
    <3>1. D = {} => Cardinality(D) = 0
      BY FS_EmptySet
    <3> HIDE DEF D
    <3> QED BY <1>4, <3>1
  <2>2. D \subseteq 0..(n - 1)
    BY <1>1
  <2>3. Max(D) \in D /\ \A y \in D : y <= Max(D)
    <3> HIDE DEF D
    <3> QED BY <2>1, <2>2, LargestOf
  <2>4. ASSUME NEW s, before(s) # {}
        PROVE  Max(before(s)) \in before(s) /\ \A y \in before(s) : y <= Max(before(s))
    <3>1. PICK B : B = before(s)
      OBVIOUS
    <3>2. B # {} /\ B \subseteq 0..(n - 1)
      BY <2>2, <2>4, <3>1
    <3>3. Max(B) \in B /\ \A y \in B : y <= Max(B)
      BY <3>2, LargestOf
    <3> QED BY <3>1, <3>3
  <2>5. kept \subseteq D
    <3>1. \A s : before(s) \subseteq D
      OBVIOUS
    <3> HIDE DEF before, D
    <3> QED BY <2>3, <2>4, <3>1
  <2>6. ASSUME NEW x \in V, NEW k \in DOMAIN whole, k <= x
        PROVE  \E j \in kept : k <= j /\ j <= x
    <3>1. PICK j \in D : k <= j /\ j <= x
      BY <1>1, <2>6 DEF Covers
    <3>2. j \in before(x)
      BY <3>1
    <3>3. PICK a : a = Max(before(x)) /\ a \in before(x) /\ j <= a
      BY <2>4, <3>2
    <3>4. a \in kept
      BY <3>2, <3>3
    <3>5. a <= x /\ a \in Int /\ j \in Int /\ k \in Int
      BY <1>1, <2>2, <3>3
    <3>6. k <= a
      BY <3>1, <3>3, <3>5
    <3> QED BY <3>4, <3>5, <3>6
  <2>7. ASSUME NEW k \in DOMAIN whole PROVE \E j \in kept : k <= j
    <3>1. PICK j \in D : k <= j
      BY <1>1
    <3>2. PICK a : a = Max(D) /\ a \in D /\ j <= a
      BY <2>3, <3>1
    <3>3. a \in kept /\ a \in Int /\ j \in Int /\ k \in Int
      BY <1>1, <2>2, <3>2
    <3>4. k <= a
      BY <3>1, <3>2, <3>3
    <3> QED BY <3>3, <3>4
  <2>8. DOMAIN less = kept /\ \A k \in kept : less[k] = cards[k]
    OBVIOUS
  <2> HIDE DEF less, kept
  <2>9. \A x \in V : Covers(less, whole, x)
    BY <2>6, <2>8 DEF Covers
  <2>10. Remembers(less, whole, n, V)
    BY <1>1, <2>5, <2>7, <2>8, <2>9 DEF Remembers
  <2> QED BY <1>2, <1>4, <2>10
<1> QED BY <1>3, <1>4

\* g is f with card at s.
With(f, s, card, g) == g = [k \in DOMAIN f \cup {s} |-> IF k = s THEN card ELSE f[k]]

LEMMA CommitRemembers ==
  ASSUME NEW n \in Nat, NEW cards, NEW whole, NEW U, Remembers(cards, whole, n, U),
         U \subseteq Nat, NEW s \in 0..(n - 1), NEW card \in Nat,
         NEW cards1, With(cards, s, card, cards1), NEW whole1, With(whole, s, card, whole1)
  PROVE  Remembers(cards1, whole1, n, U)
<1> USE DEF With
<1>1. /\ DOMAIN whole \subseteq 0..(n - 1) /\ \A k \in DOMAIN whole : whole[k] \in Nat
      /\ DOMAIN cards \subseteq DOMAIN whole
      /\ \A k \in DOMAIN cards : cards[k] = whole[k]
      /\ \A x \in U : Covers(cards, whole, x)
      /\ \A k \in DOMAIN whole : \E j \in DOMAIN cards : k <= j
  BY DEF Remembers
<1>2. DOMAIN whole1 = DOMAIN whole \cup {s} /\ DOMAIN cards1 = DOMAIN cards \cup {s}
  OBVIOUS
<1>3. s <= s
  OBVIOUS
<1>4. \A x \in U : Covers(cards1, whole1, x)
  BY <1>1, <1>2, <1>3 DEF Covers
<1>5. \A k \in DOMAIN whole1 : \E j \in DOMAIN cards1 : k <= j
  BY <1>1, <1>2, <1>3
<1>6. \A k \in DOMAIN whole1 : whole1[k] \in Nat
  BY <1>1
<1>7. \A k \in DOMAIN cards1 : cards1[k] = whole1[k]
  BY <1>1
<1> QED BY <1>1, <1>2, <1>4, <1>5, <1>6, <1>7 DEF Remembers

-----------------------------------------------------------------------------
LEMMA PrefixHolds ==
  ASSUME NEW S, NEW a \in Seq(S), NEW b \in Seq(S), Len(a) <= Len(b),
         \A i \in 1..Len(a) : a[i] = b[i]
  PROVE  IsPrefix(a, b)
<1>1. PICK n \in Nat : n = Len(a) /\ DOMAIN a = 1..n
  BY LenProperties
<1>2. PICK m \in Nat : m = Len(b) /\ DOMAIN b = 1..m
  BY LenProperties
<1>3. SubSeq(a, 1, n) = [i \in 1..n |-> a[i]]
  BY <1>1
<1>4. SubSeq(b, 1, n) = [i \in 1..n |-> b[i]]
  BY <1>1, <1>2
<1>5. SubSeq(a, 1, n) = SubSeq(b, 1, n)
  BY <1>1, <1>3, <1>4
<1> QED BY <1>1, <1>5 DEF IsPrefix

LEMMA PrefixJoined ==
  ASSUME NEW S, NEW a \in Seq(S), NEW b \in Seq(S)
  PROVE  IsPrefix(a, a \o b)
<1>1. PICK c : c = a \o b
  OBVIOUS
<1>2. /\ a \o b \in Seq(S) /\ Len(a \o b) = Len(a) + Len(b) /\ Len(a) \in Nat /\ Len(b) \in Nat
      /\ \A i \in 1..Len(a) : i \in 1..Len(a \o b) /\ (a \o b)[i] = a[i]
  BY JoinHas
<1>3. c \in Seq(S) /\ Len(a) <= Len(c) /\ \A i \in 1..Len(a) : a[i] = c[i]
  BY <1>1, <1>2
<1>4. IsPrefix(a, c)
  BY <1>3, PrefixHolds
<1> QED BY <1>1, <1>4

\* The trail has all of the rows, or as many as the writer took before it failed.
TookOrFailed(rows) ==
  \/ sink = "open" /\ written' = written \o rows /\ sink' = "open"
  \/ /\ sink' # "open"
     /\ IsPrefix(written, written') /\ IsPrefix(written', written \o rows)
     /\ sink # "open" => written' = written

LEMMA WritesOut ==
  ASSUME TrailTyped, NEW T, NEW rows \in Seq(T), Write(rows)
  PROVE  TookOrFailed(rows)
<1>1. PICK k \in 0..Len(rows) :
        /\ sink # "open" => k = 0
        /\ written' = written \o SubSeq(rows, 1, k)
        /\ sink' = IF sink = "open" /\ k < Len(rows) THEN "failed" ELSE sink
  BY DEF Write
<1>2. Len(rows) \in Nat /\ rows = [i \in 1..Len(rows) |-> rows[i]] /\ k \in Nat /\ k <= Len(rows)
  OBVIOUS
<1>3. SubSeq(rows, 1, k) = [i \in 1..k |-> rows[i]] /\ \A i \in 1..k : rows[i] \in T
  BY <1>2
<1>4. PICK R : written \in Seq(R)
  BY DEF TrailTyped
<1>5. PICK S : S = R \cup T
  OBVIOUS
<1>6. PICK a \in Seq(S), all \in Seq(S) : a = written /\ all = rows
  <2>1. written \in Seq(S) /\ rows \in Seq(S)
    BY <1>4, <1>5
  <2> QED BY <2>1
<1>7. PICK part \in Seq(S) : part = SubSeq(rows, 1, k)
  <2>1. SubSeq(rows, 1, k) \in Seq(S)
    BY <1>2, <1>3, <1>5
  <2> QED BY <2>1
<1>8. Len(part) = k /\ \A i \in 1..k : part[i] = all[i]
  BY <1>2, <1>3, <1>6, <1>7
<1>9. PICK b, c : b = a \o part /\ c = a \o all
  OBVIOUS
<1>10. PICK la \in Nat, n \in Nat : la = Len(a) /\ n = Len(all) /\ k <= n
  BY <1>2, <1>6
<1>11. /\ b \in Seq(S) /\ Len(b) = la + k
       /\ \A i \in 1..(la + k) : b[i] = IF i <= la THEN a[i] ELSE part[i - la]
  <2>1. /\ a \o part \in Seq(S) /\ Len(a \o part) = Len(a) + Len(part)
        /\ \A i \in 1..Len(a) + Len(part) :
             (a \o part)[i] = IF i <= Len(a) THEN a[i] ELSE part[i - Len(a)]
    BY ConcatProperties, SMTT(60)
  <2> QED BY <1>8, <1>9, <1>10, <2>1
<1>12. /\ c \in Seq(S) /\ Len(c) = la + n
       /\ \A i \in 1..(la + n) : c[i] = IF i <= la THEN a[i] ELSE all[i - la]
  <2>1. /\ a \o all \in Seq(S) /\ Len(a \o all) = Len(a) + Len(all)
        /\ \A i \in 1..Len(a) + Len(all) :
             (a \o all)[i] = IF i <= Len(a) THEN a[i] ELSE all[i - Len(a)]
    BY ConcatProperties, SMTT(60)
  <2> QED BY <1>9, <1>10, <2>1
<1>13. IsPrefix(b, c)
  <2>1. ASSUME NEW i \in 1..Len(b) PROVE b[i] = c[i]
    <3>1. i \in 1..(la + k) /\ i \in 1..(la + n)
      BY <1>10, <1>11, <1>2
    <3>2. ~(i <= la) => i - la \in 1..k
      BY <3>1
    <3>3. ~(i <= la) => part[i - la] = all[i - la]
      BY <1>8, <3>2
    <3> QED BY <1>11, <1>12, <3>1, <3>3
  <2>2. Len(b) <= Len(c)
    BY <1>2, <1>10, <1>11, <1>12
  <2> QED BY <1>11, <1>12, <2>1, <2>2, PrefixHolds
<1>14. IsPrefix(a, b)
  BY <1>9, PrefixJoined
<1>15. k = n => part = all
  BY <1>2, <1>3, <1>6, <1>7, <1>10
<1>16. k = 0 => b = a
  <2>1. k = 0 => part = <<>>
    BY <1>3, <1>7
  <2> QED BY <1>9, <2>1, JoinEmpty
<1>17. written' = b
  BY <1>1, <1>6, <1>7, <1>9
<1>18. CASE sink = "open" /\ k = n
  BY <1>1, <1>6, <1>9, <1>10, <1>15, <1>17, <1>18 DEF TookOrFailed
<1>19. CASE ~(sink = "open" /\ k = n)
  <2>1. sink' # "open"
    BY <1>1, <1>2, <1>6, <1>10, <1>19
  <2>2. sink # "open" => written' = written
    BY <1>1, <1>6, <1>16, <1>17
  <2> QED BY <1>6, <1>9, <1>13, <1>14, <1>17, <2>1, <2>2 DEF TookOrFailed
<1> QED BY <1>18, <1>19

LEMMA StampedTyped ==
  ASSUME NEW rows \in Seq(Records(Nat)), NEW card \in Nat
  PROVE  Stamped(rows, card) \in Seq(Records(Nat))
<1>1. DOMAIN rows = 1..Len(rows) /\ Len(rows) \in Nat /\ \A i \in 1..Len(rows) : rows[i] \in Records(Nat)
  OBVIOUS
<1>2. ASSUME NEW w \in Records(Nat) PROVE [w EXCEPT !.card = card] \in Records(Nat)
  BY DEF Records
<1>3. Stamped(rows, card) = [i \in 1..Len(rows) |->
        IF rows[i].card = 0 THEN [rows[i] EXCEPT !.card = card] ELSE rows[i]]
  BY <1>1 DEF Stamped
<1>4. \A i \in 1..Len(rows) :
        (IF rows[i].card = 0 THEN [rows[i] EXCEPT !.card = card] ELSE rows[i]) \in Records(Nat)
  BY <1>1, <1>2
<1> QED BY <1>1, <1>3, <1>4

\* The rows of S in the order of their requests, with the cards of the history.
RowsInOrder(n, todo, whole, S) ==
  FlattenSeq([i \in 1..n |-> IF i - 1 \in S THEN Stamped(todo[i - 1], CardIn(whole, i - 1))
                             ELSE <<>>])

LEMMA NoRowsInOrder ==
  ASSUME NEW n \in Nat, NEW todo, NEW whole
  PROVE  RowsInOrder(n, todo, whole, {}) = <<>>
<1>1. <<>> \in Seq({})
  OBVIOUS
<1>2. PICK s \in [1..n -> Seq({})] :
        s = [i \in 1..n |-> IF i - 1 \in {} THEN Stamped(todo[i - 1], CardIn(whole, i - 1)) ELSE <<>>]
  BY <1>1
<1>3. PICK m \in 0..n : m = 0
  OBVIOUS
<1>4. PICK up \in m..n : up = 0
  BY <1>3
<1>5. PICK t \in [1..(up - m) -> Seq({})] : t = [i \in 1..(up - m) |-> <<>>]
  BY <1>1
<1>6. /\ \A i \in 1..n : i <= m \/ up < i => s[i] = <<>>
      /\ \A i \in 1..(up - m) : s[m + i] = t[i]
  BY <1>2, <1>4, <1>3
<1>7. FlattenSeq(s) = FlattenSeq(t)
  <2>1. Middle({}, n, m, up, s, t)
    BY <1>6 DEF Middle
  <2> QED BY <2>1, FlattenMiddle
<1>8. FlattenSeq(t) = <<>>
  <2>1. up - m = 0 /\ up - m \in Nat
    BY <1>4, <1>3
  <2> QED BY <2>1, FlattenJoins
<1> QED BY <1>2, <1>7, <1>8 DEF RowsInOrder

LEMMA OneInOrder ==
  ASSUME NEW n \in Nat, NEW todo, NEW whole, NEW s \in 0..(n - 1),
         NEW rows, rows = Stamped(todo[s], CardIn(whole, s)), NEW T, rows \in Seq(T)
  PROVE  RowsInOrder(n, todo, whole, {s}) = rows
<1>1. PICK q : q = [i \in 1..n |-> IF i - 1 \in {s} THEN Stamped(todo[i - 1], CardIn(whole, i - 1)) ELSE <<>>]
  OBVIOUS
<1>2. PICK up \in s..n : up = s + 1 /\ up - s = 1
  OBVIOUS
<1>3. PICK t : t = [i \in 1..1 |-> rows]
  OBVIOUS
<1>4. /\ q \in [1..n -> Seq(T)]
      /\ \A i \in 1..n : i <= s \/ up < i => q[i] = <<>>
      /\ q[s + 1] = rows
  <2>1. ASSUME NEW i \in 1..n
        PROVE  /\ i # s + 1 => q[i] = <<>>
               /\ i = s + 1 => q[i] = rows
    <3>1. i - 1 = s <=> i = s + 1
      OBVIOUS
    <3>2. i - 1 \in {s} <=> i = s + 1
      BY <3>1
    <3>3. i = s + 1 => i - 1 = s
      BY <3>1
    <3> QED BY <1>1, <3>2, <3>3
  <2>2. s + 1 \in 1..n
    OBVIOUS
  <2>3. <<>> \in Seq(T)
    OBVIOUS
  <2>4. DOMAIN q = 1..n /\ q = [i \in 1..n |-> q[i]]
    BY <1>1
  <2>5. \A i \in 1..n : q[i] \in Seq(T)
    BY <2>1, <2>3
  <2> QED BY <1>2, <2>1, <2>2, <2>4, <2>5
<1>5. t \in [1..(up - s) -> Seq(T)] /\ \A i \in 1..(up - s) : q[s + i] = t[i]
  BY <1>2, <1>3, <1>4
<1>6. s \in 0..n
  OBVIOUS
<1>7. FlattenSeq(q) = FlattenSeq(t)
  <2>1. Middle(T, n, s, up, q, t)
    BY <1>4, <1>5, <1>6 DEF Middle
  <2> QED BY <2>1, FlattenMiddle
<1>8. FlattenSeq(t) = rows
  <2>1. t \in [1..1 -> Seq(T)] /\ 1 \in Nat /\ 1 # 0
    BY <1>3
  <2>2. PICK f : Joins(t, 1, f) /\ FlattenSeq(t) = f[1]
    BY <2>1, FlattenJoins
  <2> QED BY <1>3, <2>2 DEF Joins
<1> QED BY <1>1, <1>7, <1>8 DEF RowsInOrder

\* S is what of todo lies before up, and rows are its rows as they are taken,
\* with enough cards kept of the whole history.
PassedRows(n, m, up, all, todo, cards, whole, S, rows) ==
  /\ n \in Nat /\ m \in 0..n /\ up \in m..n
  /\ TodoTyped(todo, m, n) /\ \A x \in DOMAIN todo : todo[x] = all[x]
  /\ Remembers(cards, whole, n, DOMAIN todo)
  /\ S = {x \in DOMAIN todo : x < up}
  /\ rows = FlattenSeq([i \in 1..Cardinality(m..(up - 1)) |-> RowsOf(todo, cards, m + i - 1)])

(***************************************************************************)
(* The rows of the sequences passed are those of the whole log, in order.  *)
(***************************************************************************)
LEMMA PassedInOrder ==
  ASSUME NEW n, NEW m, NEW up, NEW all, NEW todo, NEW cards, NEW whole, NEW S, NEW rows,
         PassedRows(n, m, up, all, todo, cards, whole, S, rows)
  PROVE  rows = RowsInOrder(n, all, whole, S) /\ rows \in Seq(Records(Nat))
<1> USE DEF PassedRows
<1>1. Cardinality(m..(up - 1)) = up - m
  <2>1. up - 1 \in Int /\ m \in Int /\ (up - 1) - m + 1 = up - m /\ ~(m > up)
    OBVIOUS
  <2>2. Cardinality(m..(up - 1)) = IF m > up - 1 THEN 0 ELSE (up - 1) - m + 1
    BY <2>1, FS_Interval
  <2> QED BY <2>1, <2>2
<1>2. PICK s, t : /\ s = [i \in 1..n |-> IF i - 1 \in S THEN Stamped(all[i - 1], CardIn(whole, i - 1))
                                         ELSE <<>>]
                  /\ t = [i \in 1..(up - m) |-> RowsOf(todo, cards, m + i - 1)]
  OBVIOUS
<1>3. ASSUME NEW x \in Nat, x \in DOMAIN todo
      PROVE  /\ RowsOf(todo, cards, x) = Stamped(all[x], CardIn(whole, x))
             /\ RowsOf(todo, cards, x) \in Seq(Records(Nat))
  <2>1. Covers(cards, whole, x)
    BY <1>3 DEF Remembers
  <2>2. CardAt(cards, x) = CardIn(whole, x) /\ CardAt(cards, x) \in Nat
    BY <2>1, CardsAgree
  <2>3. PICK q \in Seq(Records(Nat)) : q = todo[x] /\ q = all[x]
    BY <1>3 DEF TodoTyped
  <2>4. Stamped(q, CardAt(cards, x)) \in Seq(Records(Nat))
    BY <2>2, StampedTyped
  <2>5. RowsOf(todo, cards, x) = Stamped(q, CardAt(cards, x))
    BY <1>3, <2>3 DEF RowsOf
  <2> QED BY <2>2, <2>3, <2>4, <2>5
<1>4. ASSUME NEW x \in Nat, x \notin DOMAIN todo
      PROVE  RowsOf(todo, cards, x) = <<>>
  BY <1>4 DEF RowsOf
<1>5. <<>> \in Seq(Records(Nat))
  OBVIOUS
<1>6. ASSUME NEW i \in 1..n
      PROVE  /\ s[i] \in Seq(Records(Nat))
             /\ i <= m \/ up < i => s[i] = <<>>
             /\ m < i /\ i <= up => s[i] = RowsOf(todo, cards, i - 1)
  <2>1. PICK x \in Nat : x = i - 1 /\ x \in 0..(n - 1)
    <3>1. i - 1 \in Nat /\ i - 1 \in 0..(n - 1)
      OBVIOUS
    <3> QED BY <3>1
  <2>2. s[i] = IF x \in S THEN Stamped(all[x], CardIn(whole, x)) ELSE <<>>
    BY <1>2, <2>1
  <2>3. CASE x \in S
    <3>1. x \in DOMAIN todo /\ x < up /\ m <= x
      BY <2>3 DEF TodoTyped
    <3>2. m < i /\ i <= up
      BY <2>1, <3>1
    <3>3. s[i] = RowsOf(todo, cards, x) /\ s[i] \in Seq(Records(Nat))
      BY <1>3, <2>2, <2>3, <3>1
    <3> QED BY <2>1, <3>2, <3>3
  <2>4. CASE x \notin S
    <3>1. s[i] = <<>>
      BY <2>2, <2>4
    <3>2. m < i /\ i <= up => x \notin DOMAIN todo
      BY <2>1, <2>4
    <3>3. m < i /\ i <= up => RowsOf(todo, cards, x) = <<>>
      BY <1>4, <3>2
    <3> QED BY <1>5, <2>1, <3>1, <3>3
  <2> QED BY <2>3, <2>4
<1>7. \A i \in 1..(up - m) : m + i \in 1..n /\ t[i] = s[m + i]
  <2>1. ASSUME NEW i \in 1..(up - m) PROVE m + i \in 1..n /\ t[i] = s[m + i]
    <3>1. PICK j \in 1..n : j = m + i /\ m < j /\ j <= up /\ m + i - 1 = j - 1
      <4>1. m + i \in 1..n /\ m < m + i /\ m + i <= up
        OBVIOUS
      <4> QED BY <4>1
    <3>2. t[i] = RowsOf(todo, cards, j - 1)
      BY <1>2, <3>1
    <3>3. s[j] = RowsOf(todo, cards, j - 1)
      BY <1>6, <3>1
    <3> QED BY <3>1, <3>2, <3>3
  <2> QED BY <2>1
<1>8. s \in [1..n -> Seq(Records(Nat))] /\ t \in [1..(up - m) -> Seq(Records(Nat))]
  <2>1. s = [i \in 1..n |-> s[i]] /\ t = [i \in 1..(up - m) |-> t[i]]
    BY <1>2
  <2> QED BY <1>6, <1>7, <2>1
<1>9. Middle(Records(Nat), n, m, up, s, t)
  BY <1>6, <1>7, <1>8 DEF Middle
<1>10. FlattenSeq(s) = FlattenSeq(t) /\ FlattenSeq(s) \in Seq(Records(Nat))
  BY <1>9, FlattenMiddle
<1>11. RowsInOrder(n, all, whole, S) = FlattenSeq(s)
  BY <1>2 DEF RowsInOrder
<1>12. FlattenSeq(t) = rows
  BY <1>1, <1>2
<1> QED BY <1>10, <1>11, <1>12

\* What of n requests is settled.
SettledOf(m, n, rs) == {x \in 0..(n - 1) : x < m \/ Resolved(rs, x)}

LEMMA SettledMeans ==
  ASSUME NEW m \in Nat, NEW n \in Nat, m <= n, NEW rs, Between(rs, m + 1, n)
  PROVE  (0..(m - 1)) \cup {x \in 0..n : Resolved(rs, x)} = SettledOf(m, n, rs)
<1>1. ~Resolved(rs, n)
  BY DEF Between, Ranges, Resolved
<1>2. ASSUME NEW x \in 0..n
      PROVE  x \in 0..(m - 1) \/ Resolved(rs, x) <=> x \in SettledOf(m, n, rs)
  <2>1. CASE x = n
    BY <1>1, <2>1 DEF SettledOf
  <2>2. CASE x # n
    BY <2>2 DEF SettledOf
  <2> QED BY <2>1, <2>2
<1>3. 0..(m - 1) \subseteq 0..n /\ SettledOf(m, n, rs) \subseteq 0..n
  BY DEF SettledOf
<1> QED BY <1>2, <1>3

\* A flush that passes up to the first of n requests that is not settled.
LEMMA SettledPrefix ==
  ASSUME NEW m \in Nat, NEW n \in Nat, NEW up \in m..n, NEW rest, Between(rest, up + 1, n),
         NEW x \in 0..(n - 1)
  PROVE  (\A u \in 0..x : u \in SettledOf(up, n, rest)) <=> x < up
<1>1. CASE x < up
  <2>1. \A u \in 0..x : u \in 0..(n - 1) /\ u < up
    BY <1>1
  <2> QED BY <1>1, <2>1 DEF SettledOf
<1>2. CASE ~(x < up)
  <2>1. up \in 0..x /\ up \in Nat
    BY <1>2
  <2>2. ~Resolved(rest, up)
    BY <2>1 DEF Between, Ranges, Resolved
  <2>3. up \notin SettledOf(up, n, rest)
    BY <2>1, <2>2 DEF SettledOf
  <2> QED BY <1>2, <2>1, <2>3
<1> QED BY <1>1, <1>2

\* With new settled the frontier moves from m to up, and rest is what is left of
\* the ranges.
Passes(m, n, up, rs, rest, marked, new) ==
  /\ new \subseteq 0..(n - 1)
  /\ \A x \in Int : x >= up => (Resolved(rest, x) <=> Resolved(marked, x))
  /\ \A x \in m..(up - 1) : Resolved(marked, x)
  /\ \A x \in m..(n - 1) : Resolved(marked, x) <=> x \in new \/ Resolved(rs, x)

LEMMA SettledGrows ==
  ASSUME NEW m \in Nat, NEW n \in Nat, NEW up \in m..n, NEW rs, NEW rest, NEW marked, NEW new,
         Passes(m, n, up, rs, rest, marked, new)
  PROVE  SettledOf(up, n, rest) = SettledOf(m, n, rs) \cup new
<1>0. /\ new \subseteq 0..(n - 1)
      /\ \A x \in Int : x >= up => (Resolved(rest, x) <=> Resolved(marked, x))
      /\ \A x \in m..(up - 1) : Resolved(marked, x)
      /\ \A x \in m..(n - 1) : Resolved(marked, x) <=> x \in new \/ Resolved(rs, x)
  BY DEF Passes
<1>1. ASSUME NEW x \in 0..(n - 1)
      PROVE  x \in SettledOf(up, n, rest) <=> x \in SettledOf(m, n, rs) \cup new
  <2>1. CASE x < m
    BY <1>0, <2>1 DEF SettledOf
  <2>2. CASE m <= x /\ x < up
    <3>1. x \in m..(up - 1) /\ x \in m..(n - 1)
      BY <2>2
    <3>2. x \in new \/ Resolved(rs, x)
      BY <1>0, <3>1
    <3> QED BY <1>0, <2>2, <3>2 DEF SettledOf
  <2>3. CASE up <= x
    <3>1. x \in Int /\ x >= up /\ x \in m..(n - 1) /\ ~(x < m) /\ ~(x < up)
      BY <2>3
    <3>2. Resolved(rest, x) <=> x \in new \/ Resolved(rs, x)
      BY <1>0, <3>1
    <3> QED BY <3>1, <3>2 DEF SettledOf
  <2> QED BY <2>1, <2>2, <2>3
<1>2. SettledOf(up, n, rest) \subseteq 0..(n - 1) /\ SettledOf(m, n, rs) \subseteq 0..(n - 1)
  BY DEF SettledOf
<1> QED BY <1>0, <1>1, <1>2

-----------------------------------------------------------------------------
LogSettled == (0..(auditNext - 1)) \cup {s \in 0..auditSeq : Resolved(auditResolved, s)}

\* The cards kept are enough for every request that may still have rows.
CardsKept == Remembers(cardAfterSeq, history, auditSeq, Unsettled)

\* The operators on sequences that the log has of its own.
LEMMA LogFlattens == \A s : Log!FlattenSeq(s) = FlattenSeq(s)
BY DEF Log!FlattenSeq, FlattenSeq

LEMMA LogPrefixes == \A s, t : Log!IsPrefix(s, t) <=> IsPrefix(s, t)
BY DEF Log!IsPrefix, IsPrefix

LEMMA WithCardMeans ==
  ASSUME NEW s PROVE Log!WithCard(s) = Stamped(auditTodo[s], CardIn(history, s))
<1>1. Log!CardAsOf(s) = CardIn(history, s)
  BY DEF Log!CardAsOf, CardIn
<1> QED BY <1>1 DEF Log!WithCard, Stamped

LEMMA InOrderMeans ==
  ASSUME NEW S PROVE Log!InOrder(S) = RowsInOrder(auditSeq, auditTodo, history, S)
<1>1. PICK n : n = auditSeq
  OBVIOUS
<1>2. PICK a, b : /\ a = [i \in 1..n |-> IF i - 1 \in S THEN Log!WithCard(i - 1) ELSE <<>>]
                  /\ b = [i \in 1..n |-> IF i - 1 \in S
                                          THEN Stamped(auditTodo[i - 1], CardIn(history, i - 1)) ELSE <<>>]
  OBVIOUS
<1>3. \A i \in 1..n : a[i] = b[i]
  BY <1>2, WithCardMeans
<1>4. a = b
  BY <1>2, <1>3
<1>5. Log!InOrder(S) = FlattenSeq(a)
  BY <1>1, <1>2, LogFlattens, Zenon DEF Log!InOrder
<1>6. RowsInOrder(auditSeq, auditTodo, history, S) = FlattenSeq(b)
  BY <1>1, <1>2, Zenon DEF RowsInOrder
<1> QED BY <1>4, <1>5, <1>6

(***************************************************************************)
(* A flush writes what the whole log writes when the requests in new       *)
(* settle: first the rows of early, which are gone from the queue.         *)
(***************************************************************************)
LEMMA FlushSettles ==
  ASSUME QueueInv, UNCHANGED history,
         NEW new, new # {}, new \subseteq 0..(auditSeq - 1),
         NEW early, early \subseteq DOMAIN auditTodo, early \subseteq new,
         NEW marked, Between(marked, auditNext, auditSeq),
         \A x \in auditNext..(auditSeq - 1) :
           Resolved(marked, x) <=> x \in new \/ Resolved(auditResolved, x),
         NEW todo, todo = [x \in DOMAIN auditTodo \ early |-> auditTodo[x]],
         NEW pending, NEW ids,
         NEW cards, Remembers(cards, history, auditSeq, pending \cup DOMAIN todo),
         pending \subseteq Nat,
         NEW first \in Seq(Records(Nat)), first = RowsInOrder(auditSeq, auditTodo, history, early),
         Flush(marked, todo, pending, ids, cards, first),
         \A x \in early : Log!Paired(x),
         \A x \in DOMAIN auditTodo' : Log!Paired(x) => x \notin LogSettled \cup new
  PROVE  Log!Settle /\ CardsKept'
<1>1. PICK m \in Nat, n \in Nat : m = auditNext /\ n = auditSeq /\ m <= n
  BY DEF QueueInv, QueueTyped
<1>2. PICK rs, rest, up : rs = auditResolved /\ rest = auditResolved' /\ up = auditNext'
  OBVIOUS
<1>3. up = Frontier(marked, m) /\ rest = IF m..(up - 1) = {} THEN marked ELSE Consume(marked, m)
  BY <1>1, <1>2 DEF Flush
<1>4. Between(marked, m, n) /\ Between(rs, m + 1, n)
  BY <1>1, <1>2 DEF QueueInv, FrontierStops
<1>5. /\ up \in m..n
      /\ Between(rest, up + 1, n)
      /\ \A x \in Int : x >= up => (Resolved(rest, x) <=> Resolved(marked, x))
      /\ \A x \in m..(up - 1) : Resolved(marked, x)
  <2>1. FrontierAt(marked, m, n, up, rest)
    BY <1>1, <1>3, <1>4, FrontierPasses
  <2> QED BY <2>1 DEF FrontierAt
<1>6. LogSettled = SettledOf(m, n, rs)
  BY <1>1, <1>2, <1>4, SettledMeans DEF LogSettled
<1>7. auditSeq' = n
  BY <1>1 DEF Flush
<1>8. LogSettled' = SettledOf(up, n, rest)
  <2>1. (0..(up - 1)) \cup {x \in 0..n : Resolved(rest, x)} = SettledOf(up, n, rest)
    BY <1>5, SettledMeans
  <2> QED BY <1>2, <1>7, <2>1 DEF LogSettled
<1>9. LogSettled' = LogSettled \cup new
  <2>1. \A x \in m..(n - 1) : Resolved(marked, x) <=> x \in new \/ Resolved(rs, x)
    BY <1>1, <1>2
  <2>2. new \subseteq 0..(n - 1)
    BY <1>1
  <2>3. Passes(m, n, up, rs, rest, marked, new)
    BY <1>5, <2>1, <2>2 DEF Passes
  <2>4. SettledOf(up, n, rest) = SettledOf(m, n, rs) \cup new
    BY <1>1, <1>5, <2>3, SettledGrows
  <2> QED BY <1>6, <1>8, <2>4
<1>10. Log!Prefix(LogSettled \cup new) = {x \in 0..(n - 1) : x < up}
  <2>1. Log!Prefix(LogSettled \cup new) = {x \in 0..(n - 1) : \A u \in 0..x : u \in SettledOf(up, n, rest)}
    BY <1>1, <1>8, <1>9 DEF Log!Prefix
  <2>2. \A x \in 0..(n - 1) : (\A u \in 0..x : u \in SettledOf(up, n, rest)) <=> x < up
    BY <1>1, <1>5, SettledPrefix
  <2> QED BY <2>1, <2>2
<1>11. TodoTyped(todo, m, n) /\ DOMAIN todo \subseteq m..(n - 1) /\ DOMAIN auditTodo \subseteq m..(n - 1)
       /\ DOMAIN todo = DOMAIN auditTodo \ early
  BY <1>1 DEF QueueInv, QueueTyped, TodoTyped
<1>12. PICK S : S = {x \in DOMAIN todo : x < up}
  OBVIOUS
<1>13. S = (Log!Prefix(LogSettled \cup new) \cap DOMAIN auditTodo) \ early
  <2>1. ASSUME NEW x \in DOMAIN auditTodo, x \notin early PROVE x \in 0..(n - 1) /\ x \in DOMAIN todo
    BY <1>1, <1>11, <2>1
  <2> QED BY <1>10, <1>11, <1>12, <2>1
<1>14. PICK rows : rows = FlattenSeq([i \in 1..Cardinality(m..(up - 1)) |-> RowsOf(todo, cards, m + i - 1)])
  OBVIOUS
<1>15. rows = RowsInOrder(n, auditTodo, history, S) /\ rows \in Seq(Records(Nat))
  <2>1. Remembers(cards, history, n, DOMAIN todo)
    BY <1>1 DEF Remembers
  <2>2. \A x \in DOMAIN todo : todo[x] = auditTodo[x]
    OBVIOUS
  <2>3. PICK a, w : a = auditTodo /\ w = history
    OBVIOUS
  <2>4. \A x \in DOMAIN todo : todo[x] = a[x]
    BY <2>2, <2>3
  <2>5. Remembers(cards, w, n, DOMAIN todo)
    BY <2>1, <2>3
  <2>6. m \in 0..n
    BY <1>1
  <2>7. PassedRows(n, m, up, a, todo, cards, w, S, rows)
    BY <1>5, <1>11, <1>12, <1>14, <2>4, <2>5, <2>6 DEF PassedRows
  <2>8. rows = RowsInOrder(n, a, w, S) /\ rows \in Seq(Records(Nat))
    BY <2>7, PassedInOrder
  <2> QED BY <2>3, <2>8
<1>16. Write(first \o rows)
  BY <1>1, <1>2, <1>14 DEF Flush
<1>17. PICK all \in Seq(Records(Nat)) : all = first \o rows
  <2>1. first \o rows \in Seq(Records(Nat))
    BY <1>15, JoinHas
  <2> QED BY <2>1
<1>18. TookOrFailed(all)
  <2>1. TrailTyped
    BY DEF QueueInv
  <2> QED BY <1>16, <1>17, <2>1, WritesOut
<1>19. all = Log!InOrder(early) \o Log!InOrder(S)
  <2>1. Log!InOrder(early) = first /\ Log!InOrder(S) = rows
    BY <1>1, <1>15, InOrderMeans
  <2> QED BY <1>17, <2>1
<1>20. auditTodo' = [x \in DOMAIN auditTodo \ (early \cup S) |-> auditTodo[x]]
  <2>1. auditTodo' = [x \in DOMAIN todo \ (m..(up - 1)) |-> todo[x]]
    BY <1>1, <1>2 DEF Flush, Without
  <2>2. ASSUME NEW x \in DOMAIN todo PROVE x \in m..(up - 1) <=> x \in S
    <3>1. x \in m..(n - 1)
      BY <1>11
    <3> QED BY <1>5, <1>12, <3>1
  <2>3. DOMAIN todo \ (m..(up - 1)) = DOMAIN auditTodo \ (early \cup S)
    BY <1>11, <2>2
  <2>4. \A x \in DOMAIN todo \ (m..(up - 1)) : todo[x] = auditTodo[x]
    OBVIOUS
  <2> QED BY <2>1, <2>3, <2>4
<1>21. Log!WriteOut(early, S)
  <2>1. \/ sink = "open" /\ written' = written \o all /\ sink' = "open"
        \/ /\ sink' # "open"
           /\ IsPrefix(written, written') /\ IsPrefix(written', written \o all)
           /\ sink # "open" => written' = written
    BY <1>18 DEF TookOrFailed
  <2> QED BY <1>19, <1>20, <2>1, LogPrefixes DEF Log!WriteOut
<1>22. Log!Settle
  <2>1. new \in SUBSET (0..(auditSeq - 1)) /\ early \in SUBSET DOMAIN auditTodo
    OBVIOUS
  <2>2. UNCHANGED <<auditSeq, history>>
    BY <1>1, <1>7
  <2> QED BY <1>9, <1>13, <1>21, <2>1, <2>2 DEF Log!Settle, LogSettled
<1>23. CardsKept'
  <2>1. PICK c, w, U, V : /\ c = cards /\ w = history /\ U = pending \cup DOMAIN todo
                          /\ V = (pending \ (m..(up - 1))) \cup (DOMAIN todo \ (m..(up - 1)))
    OBVIOUS
  <2>2. V \subseteq U /\ U \subseteq Nat
    <3>1. \A x \in DOMAIN todo : x \in Nat
      BY <1>1, <1>11
    <3> QED BY <2>1, <3>1
  <2>3. Remembers(c, w, n, U)
    BY <1>1, <2>1
  <2>4. Remembers(Prune(c, V), w, n, V)
    BY <2>2, <2>3, PruneRemembers
  <2>5. Remembers(c, w, n, V)
    BY <2>2, <2>3 DEF Remembers
  <2>6. PICK left : left = Without(todo, m..(up - 1)) /\ DOMAIN left = DOMAIN todo \ (m..(up - 1))
    <3>1. PICK t : t = todo
      OBVIOUS
    <3>2. DOMAIN Without(t, m..(up - 1)) = DOMAIN t \ (m..(up - 1))
      BY DEF Without
    <3> QED BY <3>1, <3>2
  <2>7. cardAfterSeq' = IF m..(up - 1) = {} THEN c ELSE Prune(c, V)
    BY <1>1, <1>2, <2>1, <2>6 DEF Flush
  <2>8. Unsettled' = V
    BY <1>1, <1>2, <2>1, <2>6 DEF Flush, Unsettled
  <2>9. Remembers(cardAfterSeq', w, n, V)
    BY <2>4, <2>5, <2>7
  <2>10. history' = w
    BY <2>1
  <2> QED BY <1>7, <2>8, <2>9, <2>10 DEF CardsKept
<1> QED BY <1>22, <1>23

-----------------------------------------------------------------------------
LogStep == Log!Next \/ UNCHANGED Log!vars

LEMMA LogRests ==
  ASSUME UNCHANGED <<auditSeq, auditNext, auditTodo, auditResolved, history, written, sink>>
  PROVE  UNCHANGED Log!vars
BY DEF Log!vars

LEMMA CardsStay ==
  ASSUME CardsKept, UNCHANGED <<auditSeq, auditTodo, auditPending, cardAfterSeq, history>>
  PROVE  CardsKept'
BY DEF CardsKept, Unsettled

LEMMA SettledNow ==
  ASSUME QueueInv
  PROVE  LogSettled = SettledOf(auditNext, auditSeq, auditResolved)
<1>1. PICK m \in Nat, n \in Nat : m = auditNext /\ n = auditSeq /\ m <= n
  BY DEF QueueInv, QueueTyped
<1>2. PICK rs : rs = auditResolved
  OBVIOUS
<1>3. Between(rs, m + 1, n)
  BY <1>1, <1>2 DEF QueueInv, FrontierStops
<1> QED BY <1>1, <1>2, <1>3, SettledMeans DEF LogSettled

LEMMA ArriveLogs ==
  ASSUME QueueInv, CardsKept, Reserve,
         UNCHANGED <<auditNext, auditTodo, auditResolved, cardAfterSeq, history, written, sink>>
  PROVE  LogStep /\ CardsKept'
<1>1. PICK m \in Nat, n \in Nat : m = auditNext /\ n = auditSeq /\ m <= n
  BY DEF QueueInv, QueueTyped
<1>2. PICK rs, cards, whole, U : rs = auditResolved /\ cards = cardAfterSeq /\ whole = history /\ U = Unsettled
  OBVIOUS
<1>3. auditSeq' = n + 1 /\ auditPending' = auditPending \cup {n}
  BY <1>1 DEF Reserve
<1>4. Between(rs, m + 1, n)
  BY <1>1, <1>2 DEF QueueInv, FrontierStops
<1>5. LogSettled' = LogSettled
  <2>1. Between(rs, m + 1, n + 1)
    BY <1>4 DEF Between, Ranges
  <2>2. (0..(m - 1)) \cup {x \in 0..(n + 1) : Resolved(rs, x)} = SettledOf(m, n + 1, rs)
    BY <1>1, <2>1, SettledMeans
  <2>3. LogSettled' = SettledOf(m, n + 1, rs)
    BY <1>1, <1>2, <1>3, <2>2 DEF LogSettled
  <2>4. ~Resolved(rs, n)
    BY <1>4 DEF Between, Ranges, Resolved
  <2>5. SettledOf(m, n + 1, rs) = SettledOf(m, n, rs)
    <3>1. ASSUME NEW x \in 0..n, x < m \/ Resolved(rs, x) PROVE x \in 0..(n - 1)
      BY <1>1, <2>4, <3>1
    <3>2. (n + 1) - 1 = n /\ 0..(n - 1) \subseteq 0..n
      OBVIOUS
    <3> QED BY <3>1, <3>2 DEF SettledOf
  <2>6. LogSettled = SettledOf(m, n, rs)
    BY <1>1, <1>2, SettledNow
  <2> QED BY <2>3, <2>5, <2>6
<1>6. Log!Arrive
  BY <1>1, <1>3, <1>5 DEF Log!Arrive, LogSettled
<1>7. Remembers(cards, whole, n, U)
  BY <1>1, <1>2 DEF CardsKept
<1>8. Remembers(cards, whole, n + 1, U \cup {n})
  <2>1. DOMAIN whole \subseteq 0..(n - 1) /\ DOMAIN cards \subseteq DOMAIN whole
    BY <1>7 DEF Remembers
  <2>2. \A j \in DOMAIN cards : j <= n
    BY <2>1
  <2>3. Covers(cards, whole, n)
    BY <1>7, <2>2 DEF Remembers, Covers
  <2>4. 0..(n - 1) \subseteq 0..((n + 1) - 1)
    OBVIOUS
  <2> QED BY <1>7, <2>1, <2>3, <2>4 DEF Remembers
<1>9. Unsettled' = U \cup {n}
  BY <1>2, <1>3 DEF Unsettled
<1> QED BY <1>2, <1>3, <1>6, <1>8, <1>9 DEF LogStep, Log!Next, CardsKept

LEMMA QueueLogs ==
  ASSUME QueueInv, CardsKept, NEW s \in 0..(auditSeq - 1), ~Settled(s),
         NEW rows \in Seq(Records(Nat)), AppendAudit(s, rows),
         UNCHANGED <<auditSeq, auditNext, auditResolved, auditPending, cardAfterSeq, history, written, sink>>
  PROVE  LogStep /\ CardsKept'
<1>1. /\ DOMAIN auditTodo' = DOMAIN auditTodo \cup {s}
      /\ \A x \in DOMAIN auditTodo' : x # s => auditTodo'[x] = auditTodo[x]
      /\ auditTodo'[s] = IF s \in DOMAIN auditTodo THEN auditTodo[s] \o rows ELSE rows
  BY DEF AppendAudit, Queued
<1>2. s \notin LogSettled
  BY SettledNow DEF SettledOf, Settled
<1>3. s \in DOMAIN auditTodo => Log!IsPrefix(auditTodo[s], auditTodo'[s])
  <2>1. ASSUME s \in DOMAIN auditTodo PROVE IsPrefix(auditTodo[s], auditTodo'[s])
    <3>1. PICK old \in Seq(Records(Nat)) : old = auditTodo[s]
      BY <2>1 DEF QueueInv, QueueTyped, TodoTyped
    <3>2. IsPrefix(old, old \o rows)
      BY PrefixJoined
    <3> QED BY <1>1, <2>1, <3>1, <3>2
  <2> QED BY <2>1, LogPrefixes
<1>4. LogSettled' = LogSettled
  BY DEF LogSettled
<1>5. Log!Queue
  BY <1>1, <1>2, <1>3, <1>4 DEF Log!Queue, LogSettled
<1>6. s \in auditPending
  <2>1. PICK m \in Nat, n \in Nat : m = auditNext /\ n = auditSeq /\ m <= n
    BY DEF QueueInv, QueueTyped
  <2>2. s \in m..(n - 1) /\ ~Resolved(auditResolved, s)
    BY <2>1 DEF Settled
  <2> QED BY <2>1, <2>2 DEF QueueInv, FrontierStops
<1>7. Unsettled' = Unsettled
  BY <1>1, <1>6 DEF Unsettled
<1> QED BY <1>5, <1>7 DEF LogStep, Log!Next, CardsKept

\* The row is taken, or the writer refuses it.
OneTaken(row) ==
  \/ sink = "open" /\ written' = written \o <<row>> /\ sink' = "open"
  \/ written' = written /\ sink' # "open"

LEMMA OneWritten ==
  ASSUME TrailTyped, NEW row, Write(<<row>>) \/ WriteDirect(row)
  PROVE  OneTaken(row)
<1>1. PICK S : written \in Seq(S)
  BY DEF TrailTyped
<1>2. PICK rows \in Seq({row}) : rows = <<row>>
  <2>1. <<row>> \in Seq({row})
    OBVIOUS
  <2> QED BY <2>1, Zenon
<1>3. CASE Write(<<row>>)
  <2>1. PICK k \in 0..Len(rows) :
          /\ sink # "open" => k = 0
          /\ written' = written \o SubSeq(rows, 1, k)
          /\ sink' = IF sink = "open" /\ k < Len(rows) THEN "failed" ELSE sink
    BY <1>2, <1>3 DEF Write
  <2>2. Len(rows) = 1 /\ rows[1] = row /\ k \in {0, 1}
    BY <1>2
  <2>3. CASE k = 1
    <3>1. SubSeq(rows, 1, 1) = rows
      <4>1. rows = [i \in 1..1 |-> rows[i]]
        BY <2>2
      <4>2. SubSeq(rows, 1, 1) = [i \in 1..1 |-> rows[i]]
        BY <2>2
      <4> QED BY <4>1, <4>2
    <3> QED BY <1>2, <2>1, <2>2, <2>3, <3>1 DEF OneTaken
  <2>4. CASE k = 0
    <3>1. SubSeq(rows, 1, 0) = <<>>
      BY <1>2
    <3>2. written' = written
      BY <1>1, <2>1, <2>4, <3>1, JoinEmpty
    <3>3. k < Len(rows)
      BY <2>2, <2>4
    <3>4. sink' # "open"
      BY <2>1, <3>3
    <3> QED BY <3>2, <3>4 DEF OneTaken
  <2> QED BY <2>2, <2>3, <2>4
<1>4. CASE WriteDirect(row)
  <2>1. CASE sink = "open" /\ written' = Append(written, row) /\ UNCHANGED sink
    <3>1. written' = written \o <<row>>
      BY <1>1, <2>1
    <3> QED BY <2>1, <3>1 DEF OneTaken
  <2>2. CASE UNCHANGED written /\ sink' = IF sink = "open" THEN "failed" ELSE sink
    BY <2>2 DEF OneTaken
  <2> QED BY <1>4, <2>1, <2>2 DEF WriteDirect
<1> QED BY <1>3, <1>4

LEMMA DirectLogs ==
  ASSUME TrailTyped, NEW row, OneTaken(row),
         UNCHANGED <<auditSeq, auditNext, auditTodo, auditResolved, history>>
  PROVE  LogStep
<1>1. PICK R : written \in Seq(R)
  BY DEF TrailTyped
<1>2. PICK S : S = R \cup {row}
  OBVIOUS
<1>3. PICK a \in Seq(S) : a = written
  BY <1>1, <1>2
<1>4. PICK b \in Seq(S) : b = <<row>> /\ Len(b) = 1
  <2>1. <<row>> \in Seq(S) /\ Len(<<row>>) = 1
    BY <1>2
  <2> QED BY <2>1, Zenon
<1>5. Len(a) \in Nat
  OBVIOUS
<1>6. \/ written' = a \o b /\ sink = "open" /\ sink' = "open"
      \/ written' = a /\ sink' # "open"
  BY <1>3, <1>4 DEF OneTaken
<1>7. PICK c : c = a \o b /\ IsPrefix(a, c) /\ Len(c) = Len(a) + 1
  <2>1. IsPrefix(a, a \o b)
    BY PrefixJoined
  <2>2. Len(a \o b) = Len(a) + Len(b)
    BY JoinHas
  <2> QED BY <1>4, <2>1, <2>2
<1>8. IsPrefix(a, a)
  BY <1>5, PrefixHolds
<1>9. Len(written') <= Len(written) + 1 /\ IsPrefix(written, written')
  <2>1. CASE written' = c
    BY <1>3, <1>5, <1>7, <2>1
  <2>2. CASE written' = a
    BY <1>3, <1>5, <1>8, <2>2
  <2> QED BY <1>6, <1>7, <2>1, <2>2
<1>10. Log!Direct
  BY <1>3, <1>6, <1>9, LogPrefixes DEF Log!Direct
<1> QED BY <1>10 DEF LogStep, Log!Next

\* Rows are marked as those of an action in a paired session alone, in which
\* what waits is owned and not settled.
ActionsHeld ==
  /\ \A x \in actionIDs : Pairing
  /\ \A x \in DOMAIN auditTodo :
       /\ 1 \in DOMAIN auditTodo[x]
       /\ \A i \in DOMAIN auditTodo[x] : auditTodo[x][i].action <=> Pairing
       /\ Pairing => x \in actionIDs /\ ~Settled(x)

LEMMA HeldPaired ==
  ASSUME ActionsHeld, NEW x \in DOMAIN auditTodo
  PROVE  /\ Log!Paired(x) <=> Pairing
         /\ Log!Paired(x) => x \in actionIDs /\ ~Settled(x)
BY DEF ActionsHeld, Log!Paired

LEMMA ResolveLogs ==
  ASSUME QueueInv, CardsKept, ActionsHeld, UNCHANGED history,
         NEW s \in 0..(auditSeq - 1), ResolveAudit(s)
  PROVE  LogStep /\ CardsKept'
<1>1. CASE s < auditNext
  <2>1. UNCHANGED queueVars
    BY <1>1 DEF ResolveAudit
  <2>2. UNCHANGED <<auditSeq, auditNext, auditTodo, auditResolved, auditPending, cardAfterSeq, history, written, sink>>
    BY <2>1 DEF queueVars, queue, output
  <2> QED BY <2>2, LogRests, CardsStay DEF LogStep
<1>2. CASE ~(s < auditNext)
  <2>1. PICK todo, pending, ids, marked, cards, first :
          /\ todo = IF s \in actionIDs THEN Without(auditTodo, {s}) ELSE auditTodo
          /\ pending = auditPending \ {s}
          /\ ids = actionIDs \ {s}
          /\ marked = Mark(auditResolved, s)
          /\ cards = Prune(cardAfterSeq, pending \cup DOMAIN todo)
          /\ first = IF s \in actionIDs THEN RowsOf(auditTodo, cardAfterSeq, s) ELSE <<>>
    OBVIOUS
  <2>2. Flush(marked, todo, pending, ids, cards, first)
    BY <1>2, <2>1 DEF ResolveAudit, ResolveQueued
  <2>3. PICK m \in Nat, n \in Nat, rs \in {auditResolved} : m = auditNext /\ n = auditSeq /\ m <= n
    BY DEF QueueInv, QueueTyped
  <2>4. s \in m..(n - 1) /\ s \in Nat
    BY <1>2, <2>3
  <2>5. Between(marked, m, n) /\ \A x \in Int : Resolved(marked, x) <=> x = s \/ Resolved(rs, x)
    <3>1. Between(rs, m + 1, n)
      BY <2>3 DEF QueueInv, FrontierStops
    <3>2. \A r \in rs : m <= r.start
      BY <2>3, <3>1 DEF Between, Ranges
    <3>3. Between(rs, m, n)
      BY <3>1, <3>2 DEF Between
    <3> QED BY <2>1, <2>3, <2>4, <3>3, MarkAdds
  <2>6. PICK early : early = IF s \in actionIDs /\ s \in DOMAIN auditTodo THEN {s} ELSE {}
    OBVIOUS
  <2>7. auditTodo = [x \in DOMAIN auditTodo |-> auditTodo[x]]
    BY DEF QueueInv, QueueTyped, TodoTyped
  <2>8. todo = [x \in DOMAIN auditTodo \ early |-> auditTodo[x]]
    <3>1. CASE s \in actionIDs
      <4>1. DOMAIN auditTodo \ {s} = DOMAIN auditTodo \ early
        BY <2>6, <3>1
      <4> QED BY <2>1, <3>1, <4>1 DEF Without
    <3>2. CASE s \notin actionIDs
      <4>1. DOMAIN auditTodo \ early = DOMAIN auditTodo
        BY <2>6, <3>2
      <4> QED BY <2>1, <2>7, <3>2, <4>1
    <3> QED BY <3>1, <3>2
  <2>9. PICK U, V, w, c0 : U = Unsettled /\ V = pending \cup DOMAIN todo /\ w = history /\ c0 = cardAfterSeq
    OBVIOUS
  <2>10. Remembers(c0, w, n, U) /\ U \subseteq Nat /\ V \subseteq U
    <3>1. DOMAIN todo \subseteq DOMAIN auditTodo
      BY <2>8
    <3>2. auditPending \subseteq m..(n - 1) /\ DOMAIN auditTodo \subseteq m..(n - 1)
      BY <2>3 DEF QueueInv, QueueTyped, TodoTyped
    <3>3. m..(n - 1) \subseteq Nat
      BY <2>3
    <3> QED BY <2>1, <2>3, <2>9, <3>1, <3>2, <3>3 DEF CardsKept, Unsettled
  <2>11. Remembers(cards, history, auditSeq, pending \cup DOMAIN todo)
    <3>1. Remembers(Prune(c0, V), w, n, V)
      BY <2>10, PruneRemembers
    <3> QED BY <2>1, <2>3, <2>9, <3>1
  <2>12. first \in Seq(Records(Nat)) /\ first = RowsInOrder(auditSeq, auditTodo, history, early)
    <3>1. CASE s \in actionIDs /\ s \in DOMAIN auditTodo
      <4>1. PICK q \in Seq(Records(Nat)) : q = auditTodo[s]
        BY <3>1 DEF QueueInv, QueueTyped, TodoTyped
      <4>2. s \in U
        BY <2>9, <3>1 DEF Unsettled
      <4>3. CardAt(c0, s) = CardIn(w, s) /\ CardAt(c0, s) \in Nat
        <5>1. Covers(c0, w, s)
          BY <2>10, <4>2 DEF Remembers
        <5> QED BY <2>4, <2>10, <5>1, CardsAgree
      <4>4. first = Stamped(q, CardAt(c0, s))
        BY <2>1, <2>9, <3>1, <4>1 DEF RowsOf
      <4>5. first \in Seq(Records(Nat))
        BY <4>3, <4>4, StampedTyped
      <4>6. PICK a : a = auditTodo
        OBVIOUS
      <4>7. first = Stamped(a[s], CardIn(w, s))
        BY <4>1, <4>3, <4>4, <4>6
      <4>8. s \in 0..(n - 1)
        BY <2>3
      <4>9. RowsInOrder(n, a, w, {s}) = first
        BY <4>5, <4>7, <4>8, OneInOrder
      <4>10. early = {s}
        BY <2>6, <3>1
      <4> QED BY <2>3, <2>9, <4>5, <4>6, <4>9, <4>10
    <3>2. CASE ~(s \in actionIDs /\ s \in DOMAIN auditTodo)
      <4>1. first = <<>> /\ early = {}
        BY <2>1, <2>6, <3>2 DEF RowsOf
      <4>2. RowsInOrder(auditSeq, auditTodo, history, {}) = <<>>
        BY <2>3, NoRowsInOrder
      <4>3. <<>> \in Seq(Records(Nat))
        OBVIOUS
      <4> QED BY <4>1, <4>2, <4>3
    <3> QED BY <3>1, <3>2
  <2>13. PICK new : new = {s}
    OBVIOUS
  <2>14. /\ new # {} /\ new \subseteq 0..(auditSeq - 1)
         /\ early \subseteq DOMAIN auditTodo /\ early \subseteq new
    BY <2>6, <2>13
  <2>15. \A x \in auditNext..(auditSeq - 1) : Resolved(marked, x) <=> x \in new \/ Resolved(auditResolved, x)
    BY <2>3, <2>5, <2>13
  <2>16. Between(marked, auditNext, auditSeq) /\ pending \subseteq Nat
    BY <2>1, <2>3, <2>5, <2>9, <2>10
  <2>17. \A x \in early : Log!Paired(x)
    <3>1. \A x \in early : x \in DOMAIN auditTodo /\ Pairing
      BY <2>6 DEF ActionsHeld
    <3> QED BY <3>1, HeldPaired
  <2>18. \A x \in DOMAIN auditTodo' : Log!Paired(x) => x \notin LogSettled \cup new
    <3>1. ASSUME NEW x \in DOMAIN auditTodo', Log!Paired(x) PROVE x \notin LogSettled \cup new
      <4>1. x \in DOMAIN todo
        BY <2>2, <3>1 DEF Flush, Without
      <4>2. x \in DOMAIN auditTodo /\ x \notin early
        BY <2>8, <4>1
      <4>3. x \in actionIDs /\ ~Settled(x)
        BY <3>1, <4>2, HeldPaired
      <4>4. x # s
        BY <2>6, <4>2, <4>3
      <4>5. x \notin LogSettled
        BY <4>3, SettledNow DEF SettledOf, Settled
      <4> QED BY <2>13, <4>4, <4>5
    <3> QED BY <3>1
  <2>19. Log!Settle /\ CardsKept'
    BY <2>2, <2>8, <2>11, <2>12, <2>14, <2>15, <2>16, <2>17, <2>18, FlushSettles
  <2> QED BY <2>19 DEF LogStep, Log!Next
<1> QED BY <1>1, <1>2

LEMMA DrainLogs ==
  ASSUME QueueInv, CardsKept, UNCHANGED history, DrainAudits
  PROVE  LogStep /\ CardsKept'
<1>1. PICK rs, new : /\ rs = auditResolved
                     /\ new = {s \in DOMAIN auditTodo \cup auditPending : ~Resolved(rs, s)}
  OBVIOUS
<1>2. PICK m \in Nat, n \in Nat : m = auditNext /\ n = auditSeq /\ m <= n
  BY DEF QueueInv, QueueTyped
<1>3. PICK marked : marked = MarkedAll(rs, new)
  OBVIOUS
<1>4. Flush(marked, auditTodo, auditPending, actionIDs, cardAfterSeq, <<>>)
  BY <1>1, <1>3 DEF DrainAudits, MarkedAll
<1>5. new \subseteq m..(n - 1) /\ auditPending \subseteq m..(n - 1) /\ DOMAIN auditTodo \subseteq m..(n - 1)
  BY <1>1, <1>2 DEF QueueInv, QueueTyped, TodoTyped
<1>6. Between(rs, m + 1, n)
  BY <1>1, <1>2 DEF QueueInv, FrontierStops
<1>7. Between(marked, m, n) /\ \A x \in Int : Resolved(marked, x) <=> x \in new \/ Resolved(rs, x)
  <2>1. \A r \in rs : m <= r.start
    BY <1>2, <1>6 DEF Between, Ranges
  <2>2. Between(rs, m, n)
    BY <1>6, <2>1 DEF Between
  <2>3. /\ Between(MarkedAll(rs, new), m, n)
        /\ \A x \in Int : Resolved(MarkedAll(rs, new), x) <=> x \in new \/ Resolved(rs, x)
    BY <1>5, <2>2, MarkAll, Zenon
  <2> QED BY <1>3, <2>3
<1>8. auditTodo = [x \in DOMAIN auditTodo |-> auditTodo[x]]
  BY DEF QueueInv, QueueTyped, TodoTyped
<1>9. PICK first \in Seq(Records(Nat)) : first = <<>> /\ first = RowsInOrder(auditSeq, auditTodo, history, {})
  <2>1. RowsInOrder(auditSeq, auditTodo, history, {}) = <<>>
    BY <1>2, NoRowsInOrder
  <2>2. <<>> \in Seq(Records(Nat))
    OBVIOUS
  <2> QED BY <2>1, <2>2, Zenon
<1>10. CASE new = {}
  <2>1. \A x \in m..(n - 1) : Resolved(rs, x)
    BY <1>1, <1>2, <1>10 DEF QueueInv, FrontierStops
  <2>2. m = n
    <3>1. m # n => m \in m..(n - 1)
      BY <1>2
    <3>2. ~Resolved(rs, m)
      BY <1>2, <1>6 DEF Between, Ranges, Resolved
    <3> QED BY <2>1, <3>1, <3>2
  <2>3. DOMAIN auditTodo = {} /\ auditPending = {} /\ rs = {}
    <3>1. m..(n - 1) = {}
      BY <1>2, <2>2
    <3>2. \A r \in rs : FALSE
      BY <1>2, <1>6, <2>2 DEF Between, Ranges
    <3> QED BY <1>5, <3>1, <3>2
  <2>4. PICK up : up = auditNext'
    OBVIOUS
  <2>5. up = Frontier(marked, m)
    BY <1>2, <1>4, <2>4 DEF Flush
  <2>6. \A r \in marked : FALSE
    BY <1>2, <1>7, <2>2 DEF Between, Ranges
  <2>7. up = m
    BY <2>5, <2>6 DEF Frontier
  <2>8. m..(up - 1) = {}
    BY <1>2, <2>7
  <2>9. auditResolved' = auditResolved
    BY <1>1, <1>2, <1>4, <2>3, <2>4, <2>6, <2>8 DEF Flush
  <2>10. /\ auditTodo' = auditTodo /\ auditPending' = auditPending /\ cardAfterSeq' = cardAfterSeq
         /\ auditSeq' = auditSeq
    <3>1. auditTodo' = [x \in DOMAIN auditTodo \ (m..(up - 1)) |-> auditTodo[x]]
      BY <1>2, <1>4, <2>4 DEF Flush, Without
    <3>2. DOMAIN auditTodo \ (m..(up - 1)) = DOMAIN auditTodo
      BY <2>8
    <3>3. auditTodo' = auditTodo
      BY <1>8, <3>1, <3>2
    <3>4. auditPending' = auditPending \ (m..(up - 1)) /\ auditSeq' = auditSeq
      BY <1>2, <1>4, <2>4 DEF Flush
    <3>5. cardAfterSeq' = cardAfterSeq
      BY <1>2, <1>4, <2>4, <2>8 DEF Flush
    <3> QED BY <2>8, <3>3, <3>4, <3>5
  <2>11. UNCHANGED <<written, sink>>
    <3>1. PICK rows : rows = FlattenSeq([i \in 1..Cardinality(m..(up - 1)) |->
                                           RowsOf(auditTodo, cardAfterSeq, m + i - 1)])
      OBVIOUS
    <3>2. Write(<<>> \o rows)
      BY <1>2, <1>4, <2>4, <3>1 DEF Flush
    <3>3. rows = <<>>
      <4>1. Cardinality(m..(up - 1)) = 0
        BY <2>8, FS_EmptySet
      <4>2. PICK t : t = [i \in 1..Cardinality(m..(up - 1)) |->
                            RowsOf(auditTodo, cardAfterSeq, m + i - 1)]
        OBVIOUS
      <4>3. DOMAIN t = 1..0 /\ t = [i \in 1..0 |-> t[i]]
        BY <4>1, <4>2
      <4>4. t \in [1..0 -> Seq({})]
        BY <4>3
      <4>5. FlattenSeq(t) = <<>>
        <5>1. 0 \in Nat /\ 0 = 0
          OBVIOUS
        <5> QED BY <4>4, <5>1, FlattenJoins
      <4> QED BY <3>1, <4>2, <4>5
    <3>4. PICK none \in Seq({}) : none = <<>> /\ none = <<>> \o rows /\ Len(none) = 0
      <4>1. <<>> \in Seq({}) /\ <<>> \o <<>> = <<>> /\ Len(<<>>) = 0
        BY EmptySeq
      <4> QED BY <3>3, <4>1, Zenon
    <3>5. PICK k \in 0..Len(none) :
            /\ written' = written \o SubSeq(none, 1, k)
            /\ sink' = IF sink = "open" /\ k < Len(none) THEN "failed" ELSE sink
      BY <3>2, <3>4 DEF Write
    <3>6. k = 0 /\ ~(k < Len(none))
      BY <3>4, <3>5
    <3>7. SubSeq(none, 1, 0) = <<>>
      BY <3>4
    <3>8. PICK S : written \in Seq(S)
      BY DEF QueueInv, TrailTyped
    <3> QED BY <3>5, <3>6, <3>7, <3>8, JoinEmpty
  <2>12. LogStep
    BY <1>2, <2>4, <2>7, <2>9, <2>10, <2>11, LogRests DEF LogStep
  <2> QED BY <2>10, <2>12, CardsStay
<1>11. CASE new # {}
  <2>1. new \subseteq 0..(auditSeq - 1)
    BY <1>2, <1>5
  <2>2. \A x \in auditNext..(auditSeq - 1) : Resolved(marked, x) <=> x \in new \/ Resolved(auditResolved, x)
    BY <1>1, <1>2, <1>7
  <2>3. auditTodo = [x \in DOMAIN auditTodo \ {} |-> auditTodo[x]]
    <3>1. DOMAIN auditTodo \ {} = DOMAIN auditTodo
      OBVIOUS
    <3> QED BY <1>8, <3>1
  <2>4. Remembers(cardAfterSeq, history, auditSeq, auditPending \cup DOMAIN auditTodo)
    BY DEF CardsKept, Unsettled
  <2>5. Between(marked, auditNext, auditSeq) /\ auditPending \subseteq Nat
    BY <1>2, <1>5, <1>7
  <2>6. Flush(marked, auditTodo, auditPending, actionIDs, cardAfterSeq, first)
    BY <1>4, <1>9
  <2>7. PICK early : early = {}
    OBVIOUS
  <2>8. /\ early \subseteq DOMAIN auditTodo /\ early \subseteq new
        /\ auditTodo = [x \in DOMAIN auditTodo \ early |-> auditTodo[x]]
        /\ first = RowsInOrder(auditSeq, auditTodo, history, early)
    BY <1>9, <2>3, <2>7
  <2>9. PICK todo, pending, ids, cards :
          todo = auditTodo /\ pending = auditPending /\ ids = actionIDs /\ cards = cardAfterSeq
    OBVIOUS
  <2>10. /\ Flush(marked, todo, pending, ids, cards, first)
         /\ todo = [x \in DOMAIN auditTodo \ early |-> auditTodo[x]]
         /\ Remembers(cards, history, auditSeq, pending \cup DOMAIN todo)
         /\ pending \subseteq Nat
    BY <2>4, <2>5, <2>6, <2>8, <2>9
  <2>11. Log!Settle /\ CardsKept'
    <3>1. new # {} /\ new \subseteq 0..(auditSeq - 1)
      BY <1>11, <2>1
    <3>2. early \subseteq DOMAIN auditTodo /\ early \subseteq new
      BY <2>8
    <3>3. first = RowsInOrder(auditSeq, auditTodo, history, early)
      BY <2>8
    <3>4. first \in Seq(Records(Nat))
      BY <1>9
    <3>5. DOMAIN auditTodo' = {}
      BY DrainFacts
    <3>6. /\ \A x \in early : Log!Paired(x)
          /\ \A x \in DOMAIN auditTodo' : Log!Paired(x) => x \notin LogSettled \cup new
      BY <2>7, <3>5
    <3> QED BY <2>2, <2>5, <2>10, <3>1, <3>2, <3>3, <3>4, <3>6, FlushSettles
  <2> QED BY <2>11 DEF LogStep, Log!Next
<1> QED BY <1>10, <1>11

\* A request whose card commit is in the history, if it made one.
Committed == {"answered", "observed", "resolved", "done"}

\* Every card state of the history is the commit of a request.
HistoryOwned == \A k \in DOMAIN history : \E r \in Reqs : seqOf[r] = k /\ pc[r] \in Committed

LEMMA HistoryStays ==
  ASSUME HistoryOwned, pc \in [Reqs -> Places], NEW r \in Reqs, NEW to, Goto(r, to),
         UNCHANGED <<seqOf, history>>, pc[r] \in Committed => to \in Committed
  PROVE  HistoryOwned'
<1>1. pc'[r] = to /\ \A q \in Reqs : q # r => pc'[q] = pc[q]
  BY DEF Goto
<1>2. ASSUME NEW k \in DOMAIN history' PROVE \E q \in Reqs : seqOf'[q] = k /\ pc'[q] \in Committed
  <2>1. PICK q \in Reqs : seqOf[q] = k /\ pc[q] \in Committed
    BY DEF HistoryOwned
  <2>2. pc'[q] \in Committed
    BY <1>1, <2>1
  <2> QED BY <2>1, <2>2
<1> QED BY <1>2 DEF HistoryOwned

LEMMA ArriveSteps ==
  ASSUME Session, CardsKept, HistoryOwned, NEW r \in Reqs, Arrive(r)
  PROVE  LogStep /\ CardsKept' /\ HistoryOwned'
<1>1. /\ Reserve /\ pc[r] = "idle" /\ Goto(r, "reserved") /\ seqOf' = [seqOf EXCEPT ![r] = auditSeq]
      /\ UNCHANGED <<auditNext, auditTodo, auditResolved, cardAfterSeq, history, written, sink>>
  BY DEF Arrive, output
<1>2. LogStep /\ CardsKept'
  BY <1>1, ArriveLogs DEF Session
<1>3. \A q \in Reqs : q # r => pc'[q] = pc[q] /\ seqOf'[q] = seqOf[q]
  BY <1>1 DEF Goto, Session, RequestsTyped
<1>4. ASSUME NEW k \in DOMAIN history' PROVE \E q \in Reqs : seqOf'[q] = k /\ pc'[q] \in Committed
  <2>1. PICK q \in Reqs : seqOf[q] = k /\ pc[q] \in Committed
    BY <1>1, <1>4 DEF HistoryOwned
  <2>2. q # r
    BY <1>1, <2>1 DEF Committed
  <2> QED BY <1>3, <2>1, <2>2
<1> QED BY <1>2, <1>4 DEF HistoryOwned

\* The steps of a request that touch neither the queue nor the trail.
LEMMA WalkSteps ==
  ASSUME Session, CardsKept, HistoryOwned, NEW r \in Reqs, NEW to, Goto(r, to),
         UNCHANGED <<auditSeq, auditNext, auditTodo, auditResolved, auditPending, cardAfterSeq,
                     written, sink, seqOf, history>>,
         pc[r] \in Committed => to \in Committed
  PROVE  LogStep /\ CardsKept' /\ HistoryOwned'
<1>1. HistoryOwned'
  BY HistoryStays DEF Session, RequestsTyped
<1> QED BY <1>1, LogRests, CardsStay DEF LogStep

LEMMA DecideSteps ==
  ASSUME Session, CardsKept, HistoryOwned, NEW r \in Reqs, RequestRows(r), Decide(r)
  PROVE  LogStep /\ CardsKept' /\ HistoryOwned'
<1>1. /\ UNCHANGED <<auditSeq, auditNext, auditResolved, auditPending, cardAfterSeq, written, sink,
                     seqOf, history>>
      /\ ~mode.nameless /\ pc \in [Reqs -> Places]
  BY DEF Decide, output, Session, RequestsTyped
<1>2. pc[r] = "named"
  <2>1. pc[r] = "named" \/ pc[r] = "turned down"
    BY DEF Decide
  <2> QED BY <1>1, <2>1 DEF Places
<1>3. PICK s \in 0..(auditSeq - 1) : s = seqOf[r] /\ ~Settled(s)
  <2>1. seqOf[r] \in 0..(auditSeq - 1)
    BY <1>2, OwnSequence
  <2> QED BY <1>2, <2>1 DEF RequestRows
<1>4. PICK d \in Records(Nat), g \in Records(Nat), a \in Records(Nat) :
        d = Row(r, "deny") /\ g = Row(r, "granted") /\ a = Row(r, "allow")
  <2>1. {"deny", "granted", "allow"} \subseteq Whats
    BY DEF Whats
  <2> QED BY <2>1, RowTyped
<1>5. PICK rows \in Seq(Records(Nat)), to \in {"refused", "granted", "allowed"} :
        AppendAudit(s, rows) /\ Goto(r, to)
  <2>1. \/ AppendAudit(s, <<d>>) /\ Goto(r, "refused")
        \/ AppendAudit(s, <<g, a>>) /\ Goto(r, "granted")
        \/ AppendAudit(s, <<a>>) /\ Goto(r, "allowed")
    BY <1>1, <1>2, <1>3, <1>4 DEF Decide
  <2>2. <<d>> \in Seq(Records(Nat)) /\ <<g, a>> \in Seq(Records(Nat)) /\ <<a>> \in Seq(Records(Nat))
    OBVIOUS
  <2> QED BY <2>1, <2>2, Zenon
<1>6. LogStep /\ CardsKept'
  BY <1>1, <1>3, <1>5, QueueLogs DEF Session
<1>7. HistoryOwned'
  BY <1>1, <1>2, <1>5, HistoryStays DEF Committed
<1> QED BY <1>6, <1>7

LEMMA ResolveSteps ==
  ASSUME Session, CardsKept, HistoryOwned, ActionsHeld, NEW r \in Reqs, Resolve(r)
  PROVE  LogStep /\ CardsKept' /\ HistoryOwned'
<1>1. /\ ResolveAudit(seqOf[r]) /\ UNCHANGED <<seqOf, history>> /\ pc \in [Reqs -> Places]
      /\ pc[r] \in {"refused", "denied", "granted", "unsent", "observed"}
  BY DEF Resolve, Session, RequestsTyped, Places
<1>2. PICK s \in 0..(auditSeq - 1) : s = seqOf[r]
  <2>1. seqOf[r] \in 0..(auditSeq - 1)
    BY <1>1, OwnSequence
  <2> QED BY <2>1
<1>3. LogStep /\ CardsKept'
  BY <1>1, <1>2, ResolveLogs DEF Session
<1>4. PICK to : Goto(r, to) /\ to = AfterResolve(pc[r])
  BY DEF Resolve
<1>5. pc[r] \in Committed => to \in Committed
  BY <1>1, <1>4 DEF Committed, AfterResolve
<1> QED BY <1>1, <1>3, <1>4, <1>5, HistoryStays

LEMMA DispatchSteps ==
  ASSUME Session, CardsKept, HistoryOwned, NEW r \in Reqs, Dispatch(r)
  PROVE  LogStep /\ CardsKept' /\ HistoryOwned'
<1>1. /\ pc[r] = "allowed" /\ pc \in [Reqs -> Places] /\ TrailTyped
      /\ UNCHANGED <<auditSeq, auditNext, auditTodo, auditResolved, auditPending, cardAfterSeq,
                     seqOf, history>>
  BY DEF Dispatch, queue, Session, RequestsTyped, QueueInv
<1>2. PICK to : Goto(r, to) /\ to \in {"unsent", "sent"}
  BY DEF Dispatch
<1>3. HistoryOwned'
  BY <1>1, <1>2, HistoryStays DEF Committed
<1>4. LogStep
  <2>1. CASE Required
    <3>1. PICK row : row = DirectRow(r, "dispatch") /\ WriteDirect(row)
      BY <2>1 DEF Dispatch
    <3> QED BY <1>1, <3>1, OneWritten, DirectLogs
  <2>2. CASE ~Required
    <3>1. UNCHANGED <<written, sink>>
      BY <2>2 DEF Dispatch, output
    <3> QED BY <1>1, <3>1, LogRests DEF LogStep
  <2> QED BY <2>1, <2>2
<1> QED BY <1>1, <1>3, <1>4, CardsStay

LEMMA ObserveSteps ==
  ASSUME Session, CardsKept, HistoryOwned, NEW r \in Reqs, Observe(r)
  PROVE  LogStep /\ CardsKept' /\ HistoryOwned'
<1>1. /\ pc[r] \in {"answered", "unobserved"} /\ pc \in [Reqs -> Places] /\ TrailTyped
      /\ UNCHANGED <<auditSeq, auditNext, auditResolved, auditPending, cardAfterSeq, seqOf, history>>
  BY DEF Observe, Session, RequestsTyped, QueueInv
<1>2. PICK to : Goto(r, to) /\ to \in {"done", "observed"}
  BY DEF Observe
<1>3. HistoryOwned'
  BY <1>1, <1>2, HistoryStays DEF Committed
<1>4. PICK s \in 0..(auditSeq - 1) : s = seqOf[r]
  <2>1. seqOf[r] \in 0..(auditSeq - 1)
    BY <1>1, OwnSequence
  <2> QED BY <2>1
<1>5. PICK row \in Records(Nat) :
        IF ~Pairing THEN UNCHANGED <<auditTodo, output>>
        ELSE IF Settled(s) THEN Write(<<row>>) /\ UNCHANGED auditTodo
        ELSE AppendAudit(s, <<row>>) /\ UNCHANGED output
  <2>1. PICK what \in Whats : what = IF pc[r] = "unobserved" THEN "not_forwarded" ELSE "response"
    BY DEF Whats
  <2>2. PICK row \in Records(Nat) : row = Row(r, what)
    BY RowTyped
  <2> QED BY <1>4, <2>1, <2>2 DEF Observe
<1>6. LogStep /\ CardsKept'
  <2>1. CASE ~Pairing
    <3>1. UNCHANGED <<auditTodo, written, sink>>
      BY <1>5, <2>1 DEF output
    <3> QED BY <1>1, <3>1, LogRests, CardsStay DEF LogStep
  <2>2. CASE Pairing /\ Settled(s)
    <3>1. Write(<<row>>) /\ UNCHANGED auditTodo
      BY <1>5, <2>2
    <3>2. LogStep
      BY <1>1, <3>1, OneWritten, DirectLogs
    <3> QED BY <1>1, <3>1, <3>2, CardsStay
  <2>3. CASE Pairing /\ ~Settled(s)
    <3>1. AppendAudit(s, <<row>>) /\ UNCHANGED <<written, sink>>
      BY <1>5, <2>3 DEF output
    <3>2. PICK rows \in Seq(Records(Nat)) : rows = <<row>>
      <4>1. <<row>> \in Seq(Records(Nat))
        OBVIOUS
      <4> QED BY <4>1, Zenon
    <3>3. AppendAudit(s, rows)
      BY <3>1, <3>2
    <3> QED BY <1>1, <2>3, <3>1, <3>3, QueueLogs DEF Session
  <2> QED BY <2>1, <2>2, <2>3
<1> QED BY <1>3, <1>6

LEMMA CommitSteps ==
  ASSUME Session, CardsKept, HistoryOwned, NEW r \in Reqs, CommitHistory(r)
  PROVE  LogStep /\ CardsKept' /\ HistoryOwned'
<1>0. PICK n \in Nat : n = auditSeq
  BY DEF Session, QueueInv, QueueTyped
<1>1. PICK s \in 0..(n - 1), card \in Nat :
        s = seqOf[r] /\ card = IF call[r].tool = "claim" THEN call[r].card ELSE 0
  <2>1. pc[r] = "committing"
    BY DEF CommitHistory
  <2>2. seqOf[r] \in 0..(n - 1)
    BY <1>0, <2>1, OwnSequence
  <2>3. call[r].card \in Nat
    BY DEF Session, RequestsTyped
  <2> QED BY <2>2, <2>3
<1>2. /\ pc[r] = "committing" /\ Goto(r, "answered") /\ pc \in [Reqs -> Places]
      /\ cardAfterSeq' = [k \in DOMAIN cardAfterSeq \cup {s} |-> IF k = s THEN card ELSE cardAfterSeq[k]]
      /\ history' = [k \in DOMAIN history \cup {s} |-> IF k = s THEN card ELSE history[k]]
      /\ UNCHANGED <<auditSeq, auditNext, auditTodo, auditResolved, auditPending, written, sink, seqOf>>
  BY <1>1 DEF CommitHistory, output, Session, RequestsTyped
<1>3. s \notin DOMAIN history
  <2>1. ASSUME s \in DOMAIN history PROVE FALSE
    <3>1. PICK q \in Reqs : seqOf[q] = s /\ pc[q] \in Committed
      BY <2>1 DEF HistoryOwned
    <3>2. q # r /\ pc[q] # "idle"
      BY <1>2, <3>1 DEF Committed
    <3> QED BY <1>1, <1>2, <3>1, <3>2 DEF Session, SequencesOwned
  <2> QED BY <2>1
<1>4. LogStep
  <2>1. DOMAIN history' = DOMAIN history \cup {s} /\ \A x \in DOMAIN history : history'[x] = history[x]
    BY <1>2, <1>3
  <2> QED BY <1>0, <1>2, <2>1 DEF LogStep, Log!Next, Log!Commit
<1>5. CardsKept'
  <2>1. PICK cards, whole, U, cards1, whole1 :
          /\ cards = cardAfterSeq /\ whole = history /\ U = Unsettled
          /\ cards1 = cardAfterSeq' /\ whole1 = history'
    OBVIOUS
  <2>2. U \subseteq Nat
    <3>1. PICK m \in Nat : m = auditNext
      BY DEF Session, QueueInv, QueueTyped
    <3>2. auditPending \subseteq m..(n - 1) /\ DOMAIN auditTodo \subseteq m..(n - 1)
      BY <1>0, <3>1 DEF Session, QueueInv, QueueTyped, TodoTyped
    <3>3. m..(n - 1) \subseteq Nat
      OBVIOUS
    <3> QED BY <2>1, <3>2, <3>3 DEF Unsettled
  <2>3. Remembers(cards, whole, n, U)
    BY <1>0, <2>1 DEF CardsKept
  <2>4. With(cards, s, card, cards1) /\ With(whole, s, card, whole1)
    BY <1>2, <2>1 DEF With
  <2>5. Remembers(cards1, whole1, n, U)
    BY <2>2, <2>3, <2>4, CommitRemembers
  <2>6. auditSeq' = n /\ Unsettled' = U
    BY <1>0, <1>2, <2>1 DEF Unsettled
  <2> QED BY <2>1, <2>5, <2>6 DEF CardsKept
<1>6. HistoryOwned'
  <2>1. pc'[r] = "answered" /\ \A q \in Reqs : q # r => pc'[q] = pc[q]
    BY <1>2 DEF Goto
  <2>2. ASSUME NEW k \in DOMAIN history' PROVE \E q \in Reqs : seqOf'[q] = k /\ pc'[q] \in Committed
    <3>1. CASE k = s
      BY <1>1, <1>2, <2>1, <3>1 DEF Committed
    <3>2. CASE k # s
      <4>1. PICK q \in Reqs : seqOf[q] = k /\ pc[q] \in Committed
        BY <1>2, <2>2, <3>2 DEF HistoryOwned
      <4>2. q # r
        BY <1>2, <4>1 DEF Committed
      <4> QED BY <1>2, <2>1, <4>1, <4>2
    <3> QED BY <3>1, <3>2
  <2> QED BY <2>2 DEF HistoryOwned
<1> QED BY <1>4, <1>5, <1>6

LEMMA NextLogs ==
  ASSUME Session, CardsKept, HistoryOwned, ActionsHeld, \A r \in Reqs : RequestRows(r), Next
  PROVE  LogStep /\ CardsKept' /\ HistoryOwned'
<1>1. ASSUME NEW r \in Reqs, Arrive(r) \/ Progress(r) \/ Answer(r) \/ CommitCurrent(r)
      PROVE  LogStep /\ CardsKept' /\ HistoryOwned'
  <2>1. RequestRows(r)
    OBVIOUS
  <2>2. CASE Name(r)
    <3>1. /\ Goto(r, "named") /\ pc[r] = "reserved"
          /\ UNCHANGED <<auditSeq, auditNext, auditTodo, auditResolved, auditPending, cardAfterSeq,
                         written, sink, seqOf, history>>
      BY <2>2 DEF Name, output
    <3> QED BY <3>1, WalkSteps DEF Committed
  <2>3. CASE Answer(r) \/ CommitCurrent(r)
    <3>1. PICK to : Goto(r, to) /\ to \in {"answered", "committing"}
      BY <2>3 DEF Answer, CommitCurrent
    <3>2. /\ pc[r] = "sent"
          /\ UNCHANGED <<auditSeq, auditNext, auditTodo, auditResolved, auditPending, cardAfterSeq,
                         written, sink, seqOf, history>>
      BY <2>3 DEF Answer, CommitCurrent, Answerable, queueVars, queue, output
    <3> QED BY <3>1, <3>2, WalkSteps DEF Committed
  <2>4. CASE Reply(r)
    <3>1. /\ Goto(r, "done")
          /\ UNCHANGED <<auditSeq, auditNext, auditTodo, auditResolved, auditPending, cardAfterSeq,
                         written, sink, seqOf, history>>
      BY <2>4 DEF Reply, queue
    <3> QED BY <3>1, WalkSteps DEF Committed
  <2> QED BY <1>1, <2>1, <2>2, <2>3, <2>4, ArriveSteps, DecideSteps, ResolveSteps, DispatchSteps,
             ObserveSteps, CommitSteps DEF Progress
<1>2. CASE DrainAtEOF \/ DrainAtExit
  <2>1. DrainAudits /\ UNCHANGED <<pc, seqOf, history>>
    BY <1>2 DEF DrainAtEOF, DrainAtExit
  <2>2. LogStep /\ CardsKept'
    BY <2>1, DrainLogs DEF Session
  <2>3. HistoryOwned'
    BY <2>1 DEF HistoryOwned
  <2> QED BY <2>2, <2>3
<1>3. CASE RunSteps
  <2>1. UNCHANGED <<auditSeq, auditNext, auditTodo, auditResolved, auditPending, cardAfterSeq,
                    history, written, sink, pc, seqOf>>
    BY <1>3, RunRests DEF queue
  <2> QED BY <2>1, LogRests, CardsStay DEF LogStep, HistoryOwned
<1> QED BY <1>1, <1>2, <1>3 DEF Next, RunSteps

\* Resolving and draining only take from the queue.
LEMMA QueueShrinks ==
  ASSUME NEW s, ResolveAudit(s) \/ DrainAudits
  PROVE  /\ actionIDs' \subseteq actionIDs
         /\ \A x \in DOMAIN auditTodo' : x \in DOMAIN auditTodo /\ auditTodo'[x] = auditTodo[x]
<1>1. CASE UNCHANGED queueVars
  BY <1>1 DEF queueVars, queue
<1>2. ASSUME NEW marked, NEW todo, NEW pending, NEW ids, NEW cards, NEW first,
             Flush(marked, todo, pending, ids, cards, first), ids \subseteq actionIDs,
             todo = auditTodo \/ todo = Without(auditTodo, {s})
      PROVE  /\ actionIDs' \subseteq actionIDs
             /\ \A x \in DOMAIN auditTodo' : x \in DOMAIN auditTodo /\ auditTodo'[x] = auditTodo[x]
  <2>1. PICK P : auditTodo' = Without(todo, P) /\ actionIDs' = ids \ P
    BY <1>2 DEF Flush
  <2> QED BY <1>2, <2>1 DEF Without
<1>3. CASE DrainAudits
  <2>1. PICK marked : Flush(marked, auditTodo, auditPending, actionIDs, cardAfterSeq, <<>>)
    BY <1>3 DEF DrainAudits
  <2> QED BY <1>2, <2>1
<1>4. CASE ResolveAudit(s) /\ ~UNCHANGED queueVars
  <2>1. PICK marked, todo, pending, ids, cards, first :
          /\ Flush(marked, todo, pending, ids, cards, first) /\ ids \subseteq actionIDs
          /\ todo = auditTodo \/ todo = Without(auditTodo, {s})
    BY <1>4 DEF ResolveAudit, ResolveQueued
  <2> QED BY <1>2, <2>1
<1> QED BY <1>1, <1>3, <1>4

LEMMA ActionsStay ==
  ASSUME ActionsHeld, UNCHANGED <<auditTodo, actionIDs, auditNext, auditResolved, mode>>
  PROVE  ActionsHeld'
BY DEF ActionsHeld, Settled, Pairing

LEMMA ActionsQueue ==
  ASSUME Session, ActionsHeld, NEW s, NEW rows \in Seq(Records(Nat)), Len(rows) > 0,
         \A i \in 1..Len(rows) : rows[i].action <=> Pairing,
         Pairing => s \in actionIDs /\ ~Settled(s),
         AppendAudit(s, rows), UNCHANGED <<actionIDs, auditNext, auditResolved, mode>>
  PROVE  ActionsHeld'
<1>1. /\ DOMAIN auditTodo' = DOMAIN auditTodo \cup {s}
      /\ \A x \in DOMAIN auditTodo' : x # s => auditTodo'[x] = auditTodo[x]
      /\ auditTodo'[s] = IF s \in DOMAIN auditTodo THEN auditTodo[s] \o rows ELSE rows
  BY DEF AppendAudit, Queued
<1>2. (Settled(s)' <=> Settled(s)) /\ (Pairing' <=> Pairing) /\ \A x : Settled(x)' <=> Settled(x)
  BY DEF Settled, Pairing
<1>3. PICK all : all = auditTodo'[s]
  OBVIOUS
<1>4. 1 \in DOMAIN all /\ \A i \in DOMAIN all : all[i].action <=> Pairing
  <2>1. CASE s \notin DOMAIN auditTodo
    BY <1>1, <1>3, <2>1
  <2>2. CASE s \in DOMAIN auditTodo
    <3>1. PICK old \in Seq(Records(Nat)) : old = auditTodo[s]
      BY <2>2 DEF Session, QueueInv, QueueTyped, TodoTyped
    <3>2. \A i \in 1..Len(old) : old[i].action <=> Pairing
      BY <2>2, <3>1 DEF ActionsHeld
    <3>3. PICK m \in Nat, n \in Nat : m = Len(old) /\ n = Len(rows) /\ n > 0
      OBVIOUS
    <3>4. /\ all = old \o rows /\ all \in Seq(Records(Nat)) /\ Len(all) = m + n
          /\ \A i \in 1..(m + n) : all[i] = IF i <= m THEN old[i] ELSE rows[i - m]
      BY <1>1, <1>3, <2>2, <3>1, <3>3, ConcatProperties
    <3>5. DOMAIN all = 1..(m + n) /\ 1 \in 1..(m + n)
      BY <3>3, <3>4
    <3>6. ASSUME NEW i \in 1..(m + n) PROVE all[i].action <=> Pairing
      <4>1. CASE i <= m
        BY <3>2, <3>3, <3>4, <4>1
      <4>2. CASE ~(i <= m)
        <5>1. PICK j \in 1..n : j = i - m
          BY <4>2
        <5> QED BY <3>3, <3>4, <4>2, <5>1
      <4> QED BY <4>1, <4>2
    <3> QED BY <3>5, <3>6
  <2> QED BY <2>1, <2>2
<1> QED BY <1>1, <1>2, <1>3, <1>4 DEF ActionsHeld

LEMMA ActionsMark ==
  ASSUME NEW r, NEW what PROVE Row(r, what).action = Pairing
BY DEF Row

LEMMA ActionsResolve ==
  ASSUME Session, ActionsHeld, NEW r \in Reqs, Resolve(r) PROVE ActionsHeld'
<1>1. ResolveAudit(seqOf[r]) /\ pc[r] # "idle" /\ UNCHANGED mode
  BY DEF Resolve
<1>2. PICK s \in 0..(auditSeq - 1) : s = seqOf[r]
  <2>1. seqOf[r] \in 0..(auditSeq - 1)
    BY <1>1, OwnSequence
  <2> QED BY <2>1
<1>3. Settles(s) /\ \A x \in 0..(auditSeq - 1) : x # s => Moves(x)
  BY <1>1, <1>2, ResolveFacts DEF Session
<1>4. /\ actionIDs' \subseteq actionIDs
      /\ \A x \in DOMAIN auditTodo' : x \in DOMAIN auditTodo /\ auditTodo'[x] = auditTodo[x]
  BY <1>1, QueueShrinks
<1>5. Pairing' <=> Pairing
  BY <1>1 DEF Pairing
<1>6. ASSUME NEW x \in DOMAIN auditTodo', Pairing PROVE x \in actionIDs' /\ ~Settled(x)'
  <2>1. x \in DOMAIN auditTodo /\ x \in actionIDs /\ ~Settled(x)
    BY <1>4, <1>6 DEF ActionsHeld
  <2>2. x # s
    BY <1>3, <1>6, <2>1 DEF Settles
  <2>3. x \in 0..(auditSeq - 1)
    <3>1. PICK m \in Nat, n \in Nat : m = auditNext /\ n = auditSeq
      BY DEF Session, QueueInv, QueueTyped
    <3>2. x \in m..(n - 1)
      BY <2>1, <3>1 DEF Session, QueueInv, QueueTyped, TodoTyped
    <3> QED BY <3>1, <3>2
  <2>4. Moves(x)
    BY <1>3, <2>2, <2>3
  <2> QED BY <2>1, <2>4 DEF Moves
<1> QED BY <1>4, <1>5, <1>6 DEF ActionsHeld

LEMMA ActionsNext ==
  ASSUME Session, ActionsHeld, \A r \in Reqs : RequestRows(r), Next PROVE ActionsHeld'
<1>0. ~mode.nameless /\ \A r \in Reqs : pc[r] \in Places
  BY DEF Session, RequestsTyped
<1>1. ASSUME NEW r \in Reqs, Name(r) PROVE ActionsHeld'
  <2>1. UNCHANGED <<auditTodo, auditNext, auditResolved, mode>>
    BY <1>1 DEF Name
  <2>2. IF Pairing THEN actionIDs' = actionIDs \cup {seqOf[r]} ELSE UNCHANGED actionIDs
    BY <1>1 DEF Name, QueueActionID
  <2> QED BY <2>1, <2>2 DEF ActionsHeld, Settled, Pairing
<1>2. ASSUME NEW r \in Reqs, Decide(r) PROVE ActionsHeld'
  <2>1. pc[r] = "named"
    <3>1. pc[r] = "named" \/ pc[r] = "turned down"
      BY <1>2 DEF Decide
    <3> QED BY <1>0, <3>1 DEF Places
  <2>2. PICK s : s = seqOf[r]
    OBVIOUS
  <2>3. ~Settled(s) /\ (Pairing => s \in actionIDs)
    BY <2>1, <2>2 DEF RequestRows
  <2>4. PICK d \in Records(Nat), g \in Records(Nat), a \in Records(Nat) :
          d = Row(r, "deny") /\ g = Row(r, "granted") /\ a = Row(r, "allow")
    <3>1. {"deny", "granted", "allow"} \subseteq Whats
      BY DEF Whats
    <3> QED BY <3>1, RowTyped
  <2>5. (d.action <=> Pairing) /\ (g.action <=> Pairing) /\ (a.action <=> Pairing)
    BY <2>4, ActionsMark, Zenon
  <2>6. \/ AppendAudit(s, <<d>>)
        \/ AppendAudit(s, <<g, a>>)
        \/ AppendAudit(s, <<a>>)
    BY <1>0, <1>2, <2>1, <2>2, <2>4 DEF Decide
  <2>7. PICK rows \in Seq(Records(Nat)) :
          /\ AppendAudit(s, rows) /\ Len(rows) > 0
          /\ \A i \in 1..Len(rows) : rows[i] \in {d, g, a}
    <3>1. /\ <<d>> \in Seq(Records(Nat)) /\ Len(<<d>>) > 0
          /\ \A i \in 1..Len(<<d>>) : <<d>>[i] \in {d, g, a}
      OBVIOUS
    <3>2. /\ <<g, a>> \in Seq(Records(Nat)) /\ Len(<<g, a>>) > 0
          /\ \A i \in 1..Len(<<g, a>>) : <<g, a>>[i] \in {d, g, a}
      OBVIOUS
    <3>3. /\ <<a>> \in Seq(Records(Nat)) /\ Len(<<a>>) > 0
          /\ \A i \in 1..Len(<<a>>) : <<a>>[i] \in {d, g, a}
      OBVIOUS
    <3> QED BY <2>6, <3>1, <3>2, <3>3, Zenon
  <2>8. UNCHANGED <<actionIDs, auditNext, auditResolved, mode>>
    BY <1>2 DEF Decide
  <2>9. \A i \in 1..Len(rows) : rows[i].action <=> Pairing
    BY <2>5, <2>7
  <2> QED BY <2>3, <2>7, <2>8, <2>9, ActionsQueue
<1>3. ASSUME NEW r \in Reqs, Observe(r) PROVE ActionsHeld'
  <2>1. UNCHANGED <<actionIDs, auditNext, auditResolved, mode>> /\ pc[r] \in {"answered", "unobserved"}
    BY <1>3 DEF Observe
  <2>2. PICK s : s = seqOf[r]
    OBVIOUS
  <2>3. CASE ~Pairing \/ Settled(s)
    <3>1. UNCHANGED auditTodo
      BY <1>3, <2>2, <2>3 DEF Observe
    <3> QED BY <2>1, <3>1, ActionsStay
  <2>4. CASE Pairing /\ ~Settled(s)
    <3>1. s \in actionIDs
      BY <2>1, <2>2, <2>4 DEF RequestRows, Paired
    <3>2. PICK row \in Records(Nat) : (row.action <=> Pairing) /\ AppendAudit(s, <<row>>)
      <4>1. PICK what \in Whats : what = IF pc[r] = "unobserved" THEN "not_forwarded" ELSE "response"
        BY DEF Whats
      <4>2. PICK row \in Records(Nat) : row = Row(r, what)
        BY RowTyped
      <4>3. AppendAudit(s, <<row>>)
        BY <1>3, <2>2, <2>4, <4>1, <4>2 DEF Observe
      <4>4. row.action <=> Pairing
        BY <4>2, ActionsMark, Zenon
      <4> QED BY <4>3, <4>4
    <3>3. PICK rows \in Seq(Records(Nat)) : rows = <<row>> /\ Len(rows) = 1 /\ rows[1] = row
      <4>1. <<row>> \in Seq(Records(Nat)) /\ Len(<<row>>) = 1 /\ <<row>>[1] = row
        OBVIOUS
      <4> QED BY <4>1, Zenon
    <3>4. AppendAudit(s, rows) /\ Len(rows) > 0 /\ \A i \in 1..Len(rows) : rows[i].action <=> Pairing
      BY <3>2, <3>3
    <3> QED BY <2>1, <2>4, <3>1, <3>4, ActionsQueue
  <2> QED BY <2>3, <2>4
<1>4. ASSUME NEW r \in Reqs, Arrive(r) \/ Dispatch(r) \/ Answer(r) \/ CommitCurrent(r)
                               \/ CommitHistory(r) \/ Reply(r)
      PROVE  ActionsHeld'
  <2>1. UNCHANGED <<auditTodo, actionIDs, auditNext, auditResolved, mode>>
    BY <1>4 DEF Arrive, Dispatch, Answer, CommitCurrent, CommitHistory, Reply, queueVars, queue
  <2> QED BY <2>1, ActionsStay
<1>5. ASSUME DrainAtEOF \/ DrainAtExit PROVE ActionsHeld'
  <2>1. DrainAudits /\ UNCHANGED mode
    BY <1>5 DEF DrainAtEOF, DrainAtExit
  <2>2. DOMAIN auditTodo' = {} /\ actionIDs' \subseteq actionIDs
    BY <2>1, DrainFacts, QueueShrinks DEF Session
  <2> QED BY <2>1, <2>2 DEF ActionsHeld, Pairing
<1>6. ASSUME RunSteps PROVE ActionsHeld'
  <2>1. UNCHANGED <<auditTodo, actionIDs, auditNext, auditResolved, mode>>
    BY <1>6, RunRests DEF queue
  <2> QED BY <2>1, ActionsStay
<1> QED BY <1>1, <1>2, <1>3, <1>4, <1>5, <1>6, ActionsResolve DEF Next, Progress, RunSteps

LEMMA InitLogs ==
  ASSUME Init PROVE Log!Init /\ CardsKept /\ HistoryOwned /\ ActionsHeld
<1>1. /\ auditSeq = 0 /\ auditNext = 0 /\ auditTodo = << >> /\ auditResolved = {}
      /\ cardAfterSeq = << >> /\ history = << >> /\ written = <<>> /\ sink = "open"
  BY DEF Init, QueueInit
<1>2. (0..(auditNext - 1)) \cup {s \in 0..auditSeq : Resolved(auditResolved, s)} = {}
  <2>1. 0..(0 - 1) = {}
    OBVIOUS
  <2>2. \A s : ~Resolved({}, s)
    BY DEF Resolved
  <2> QED BY <1>1, <2>1, <2>2
<1>3. Log!Init
  BY <1>1, <1>2 DEF Log!Init
<1>4. DOMAIN history = {} /\ DOMAIN cardAfterSeq = {} /\ DOMAIN auditTodo = {} /\ actionIDs = {}
  BY <1>1 DEF Init, QueueInit
<1>5. CardsKept
  BY <1>4 DEF CardsKept, Remembers, Covers
<1> QED BY <1>3, <1>4, <1>5 DEF HistoryOwned, ActionsHeld

(***************************************************************************)
(* The compacted queue with its pruned card history writes exactly the     *)
(* rows, in the order and with the cards, that a log keeping every settled *)
(* request and every card commit would, in which the rows of a paired      *)
(* action wait for nobody and those of every other request for all before  *)
(* it: for any requests, kinds of session and bounds, without the calls    *)
(* that are held for approval first, which queue rows for a sequence that  *)
(* is settled already.                                                     *)
(***************************************************************************)
THEOREM SessionImplementsLog ==
  ASSUME \A m \in Modes : ~m.nameless
  PROVE  Spec => ImplementsLog
<1>1. Init => Log!Init /\ SessionInv /\ CardsKept /\ HistoryOwned /\ ActionsHeld
  BY InitLogs, SessionInit
<1>2. ASSUME SessionInv, CardsKept, HistoryOwned, ActionsHeld, [Next]_vars
      PROVE  [Log!Next]_(Log!vars) /\ SessionInv' /\ CardsKept' /\ HistoryOwned' /\ ActionsHeld'
  <2>1. SessionInv'
    BY <1>2, SessionNext
  <2>2. CASE Next
    <3>1. Session /\ \A r \in Reqs : RequestRows(r)
      BY <1>2 DEF SessionInv
    <3>2. LogStep /\ CardsKept' /\ HistoryOwned' /\ ActionsHeld'
      BY <1>2, <2>2, <3>1, NextLogs, ActionsNext
    <3> QED BY <2>1, <3>2 DEF LogStep
  <2>3. CASE UNCHANGED vars
    <3>1. UNCHANGED <<auditSeq, auditNext, auditTodo, auditResolved, auditPending, cardAfterSeq,
                      written, sink, pc, seqOf, history, actionIDs, mode>>
      BY <2>3 DEF vars, session, queueVars, queue, output
    <3>2. UNCHANGED Log!vars /\ CardsKept'
      BY <1>2, <3>1, LogRests, CardsStay
    <3>3. HistoryOwned' /\ ActionsHeld'
      BY <1>2, <3>1, ActionsStay DEF HistoryOwned
    <3> QED BY <2>1, <3>2, <3>3
  <2> QED BY <1>2, <2>2, <2>3
<1>3. SessionInv /\ CardsKept /\ HistoryOwned /\ ActionsHeld /\ [Next]_vars =>
        [Log!Next]_(Log!vars) /\ (SessionInv /\ CardsKept /\ HistoryOwned /\ ActionsHeld)'
  BY <1>2
<1> QED BY <1>1, <1>3, PTL DEF Spec, ImplementsLog, Log!Spec

=============================================================================
