---------------------------- MODULE GatewayProofs ----------------------------
(***************************************************************************)
(* Theorems about Gateway, for any requests, gates, limits and TTL.        *)
(***************************************************************************)
EXTENDS Gateway, FiniteSetTheorems, SequenceTheorems, WellFoundedInduction, TLAPS

\* Where a request is behind the auditMu of its gate, and where it owns its
\* session.
Gated == {"rejected", "approved", "cleared", "waiting", "failed", "answered", "lost", "settled",
          "leaving"}
Owning == Gated \cup {"serve", "returned"}
Places == Owning \cup {"idle", "auth", "admitted", "flushing", "done"}

Inside(r) == at[r] \in Gated
Owns(r) == at[r] \in Owning
Reached(r) == at[r] \in {"waiting", "failed", "answered", "lost", "settled", "leaving",
                         "returned", "flushing", "done"}

Whats == {"deny", "allow", "granted", "hide"}
Entries == [req : Reqs, rows : Seq(Reqs \X Whats), resolved : BOOLEAN]

RequestsTyped ==
  /\ required \in BOOLEAN /\ hosted \in BOOLEAN /\ (hosted => required)
  /\ at \in [Reqs -> Places] /\ method \in [Reqs -> Methods] /\ answer = [r \in Reqs |-> answer[r]]
  /\ gateOf \in [Reqs -> Gates \cup {NoGate}]
  /\ \A r \in Reqs : Owns(r) \/ at[r] = "flushing" => gateOf[r] \in Gates
  /\ reached \subseteq {r \in Reqs : Reached(r)}
  /\ carried = [r \in Reqs |-> carried[r]]

GatesTyped ==
  /\ auditMu \in [Gates -> SUBSET Reqs]
  /\ queue \in [Gates -> Seq(Entries)]

TableTyped ==
  /\ exposed \subseteq issued /\ issued \subseteq Gates
  /\ DOMAIN sessions \subseteq issued
  /\ sessions = [g \in DOMAIN sessions |-> sessions[g]]
  /\ \A g \in DOMAIN sessions :
       sessions[g] \in [busy : BOOLEAN, age : Nat, upstreamID : Gates \cup {NoGate}]
  /\ since \in [Gates -> Nat]

Typed == RequestsTyped /\ GatesTyped /\ TableTyped

-----------------------------------------------------------------------------
\* The table and its clients: ids are counted, and a request that has a
\* session id was told it.
IdsCounted == Cardinality(issued) \in Nat /\ issued = 1..Cardinality(issued)

NamesTold ==
  hosted => \A r \in Reqs :
    /\ method[r] # "initialize" /\ at[r] # "idle" => gateOf[r] \in exposed
    /\ method[r] = "initialize" /\ at[r] \in {"auth", "admitted"} => gateOf[r] = NoGate
    /\ method[r] = "initialize" /\ Owns(r) => gateOf[r] \notin exposed

\* A request that owns a session is alone in it, and the session busy.
SessionsOwned ==
  hosted => \A r \in Reqs : Owns(r) =>
    /\ gateOf[r] \in DOMAIN sessions /\ sessions[gateOf[r]].busy
    /\ \A q \in Reqs : Owns(q) /\ gateOf[q] = gateOf[r] => q = r

\* A session a client was told of has the upstream session made for it.
ExposedReady == \A g \in DOMAIN sessions \cap exposed : sessions[g].upstreamID = g

\* Who is behind auditMu, when the gate has one.
MutexHeld ==
  /\ \A r \in Reqs, g \in Gates : r \in auditMu[g] => Inside(r) /\ gateOf[r] = g
  /\ required => \A r \in Reqs : Inside(r) => auditMu[gateOf[r]] = {r}

ReadyInv == IdsCounted /\ NamesTold /\ SessionsOwned /\ ExposedReady /\ MutexHeld /\ ToldSessionsAreReady

-----------------------------------------------------------------------------
\* The first sequence of a queue is unresolved, each request has one at most,
\* and an unresolved one belongs to a request that will resolve it.
QueuesOwned ==
  \A g \in Gates :
    /\ queue[g] # <<>> => ~queue[g][1].resolved
    /\ \A i \in DOMAIN queue[g] :
         LET r == queue[g][i].req IN
         /\ gateOf[r] = g /\ at[r] \in Places \ {"idle", "auth", "admitted", "serve"}
         /\ ~queue[g][i].resolved => Inside(r)
         /\ \A j \in DOMAIN queue[g] : queue[g][j].req = r => i = j

SlotsHeld ==
  /\ authInflight \subseteq {r \in Reqs : at[r] = "auth"}
  /\ inflight \subseteq {r \in Reqs : at[r] \notin {"idle", "auth", "done"}}

\* A session that is busy, or of which no client knows, has an owner.
SessionsKept ==
  \A g \in DOMAIN sessions : sessions[g].busy \/ g \notin exposed =>
    \E r \in Reqs : Owns(r) /\ gateOf[r] = g

\* A listener on its own has no table.
Bare ==
  ~hosted => DOMAIN sessions = {} /\ \A r \in Reqs : at[r] \notin {"auth", "admitted", "flushing"}

LeftInv == QueuesOwned /\ SlotsHeld /\ SessionsKept /\ Bare

-----------------------------------------------------------------------------
\* Where a call to a tool has its allow row, while the writer has not failed.
Pending(r) ==
  \E i \in DOMAIN queue[gateOf[r]] :
    /\ queue[gateOf[r]][i].req = r
    /\ \E j \in DOMAIN queue[gateOf[r]][i].rows : queue[gateOf[r]][i].rows[j] = Row(r, "allow")

\* What a gate that requires audit says of one request.
OnRecord(r) ==
  method[r] = "tools/call" =>
    /\ r \in reached => Recorded(r, "dispatch")
    /\ answer[r] = "result" => Recorded(r, "allow")
    /\ at[r] \in {"approved", "cleared", "waiting", "answered"} =>
         Pending(r) \/ Recorded(r, "allow") \/ sink # "open"
    /\ at[r] = "settled" => Recorded(r, "allow") \/ sink # "open"

RecordInv ==
  /\ \A r \in Reqs : at[r] = "idle" => answer[r] = "none"
  /\ required =>
       /\ \A g \in Gates : \A i \in DOMAIN queue[g] : i = 1 /\ queue[g][1].req \in auditMu[g]
       /\ \A r \in Reqs : OnRecord(r)

-----------------------------------------------------------------------------
\* How long a session has been idle, by the table and by its client.
AgesInv ==
  /\ \A g \in Gates : since[g] <= TTL
  /\ \A g \in exposed :
       IF g \in DOMAIN sessions THEN sessions[g].busy \/ sessions[g].age <= since[g]
                                ELSE since[g] >= TTL
  /\ \A r \in Reqs : at[r] = "flushing" =>
       /\ gateOf[r] \in DOMAIN sessions \cap exposed
       /\ \/ sessions[gateOf[r]].busy
          \/ sessions[gateOf[r]].age = 0
          \/ sessions[gateOf[r]].age = 1 /\ r \in old

IInv == Typed /\ ReadyInv /\ LeftInv /\ RecordInv /\ AgesInv

-----------------------------------------------------------------------------
\* Rows are only added, and all of them unless the writer is no longer open.
LEMMA WriteGrows ==
  ASSUME NEW rows, Len(rows) \in Nat, Write(rows)
  PROVE  /\ trail \subseteq trail'
         /\ sink' = sink \/ sink' = "failed"
         /\ sink' = "open" => \A i \in 1..Len(rows) : rows[i] \in trail'
<1>1. PICK k \in 0..Len(rows) :
        /\ sink # "open" => k = 0
        /\ trail' = trail \cup {rows[i] : i \in 1..k}
        /\ sink' = IF sink = "open" /\ k < Len(rows) THEN "failed" ELSE sink
  BY DEF Write
<1>2. sink' = "open" => k = Len(rows)
  BY <1>1
<1> QED BY <1>1, <1>2

LEMMA SmallestOf ==
  ASSUME NEW T, T \subseteq Nat, T # {}
  PROVE  \E x \in T : \A y \in T : x <= y
<1>1. IsWellFoundedOn(OpToRel(<, Nat), Nat)
  BY NatLessThanWellFounded
<1>2. PICK x \in T : \A y \in T : <<y, x>> \notin OpToRel(<, Nat)
  BY <1>1, WFMin
<1>3. \A y \in T : ~(y < x)
  BY <1>2 DEF OpToRel
<1> QED BY <1>3

LEMMA FlattenOne ==
  ASSUME NEW s, s = <<s[1]>>
  PROVE  FlattenSeq(s) = s[1]
<1> DEFINE F(f) == [i \in 1..1 |-> IF i = 1 THEN s[i] ELSE f[i - 1] \o s[i]]
<1>1. Len(s) = 1
  OBVIOUS
<1>2. F([i \in 1..1 |-> s[1]]) = [i \in 1..1 |-> s[1]]
  OBVIOUS
<1>3. (CHOOSE f : f = F(f)) = F(CHOOSE f : f = F(f))
  BY <1>2
<1>4. FlattenSeq(s) = (CHOOSE f : f = F(f))[1]
  BY <1>1 DEF FlattenSeq
<1> QED BY <1>3, <1>4

\* What resolving the sequence of r leaves of its queue: the rows up to the
\* first unresolved sequence go, and the rest is as it was.
Left(r, k) ==
  /\ queue' = [queue EXCEPT ![gateOf[r]] = SubSeq(Marked(r), k + 1, Len(Marked(r)))]
  /\ k < Len(Marked(r)) => ~Marked(r)[k + 1].resolved
  /\ \A i \in 1..k : Marked(r)[i].resolved

\* A queue with the sequence of r resolved differs in that alone.
MarkOf(q, m, r) ==
  /\ m \in Seq(Entries) /\ Len(m) = Len(q)
  /\ \A i \in 1..Len(q) :
       /\ m[i].req = q[i].req /\ m[i].rows = q[i].rows
       /\ m[i].resolved = q[i].resolved \/ (m[i].resolved /\ q[i].req = r)

LEMMA MarkedShape ==
  ASSUME GatesTyped, NEW r \in Reqs, gateOf[r] \in Gates
  PROVE  /\ MarkOf(queue[gateOf[r]], Marked(r), r)
         /\ Reserved(r) => /\ Entry(r) \in 1..Len(queue[gateOf[r]])
                           /\ queue[gateOf[r]][Entry(r)].req = r
                           /\ Marked(r)[Entry(r)].resolved
<1> DEFINE q == queue[gateOf[r]]
<1>1. q \in Seq(Entries)
  BY DEF GatesTyped
<1>2. CASE Reserved(r)
  <2>1. Entry(r) \in 1..Len(q) /\ q[Entry(r)].req = r
    BY <1>1, <1>2 DEF Reserved, Entry
  <2> DEFINE e == [q[Entry(r)] EXCEPT !.resolved = TRUE]
  <2>2. q[Entry(r)] \in Entries
    BY <1>1, <2>1
  <2>3. e \in Entries /\ e.req = r /\ e.rows = q[Entry(r)].rows /\ e.resolved
    BY <2>1, <2>2 DEF Entries
  <2>4. Marked(r) = [q EXCEPT ![Entry(r)] = e]
    BY <1>2 DEF Marked
  <2> HIDE DEF e
  <2>5. /\ Marked(r) \in Seq(Entries) /\ Len(Marked(r)) = Len(q)
        /\ \A i \in 1..Len(q) : Marked(r)[i] = IF i = Entry(r) THEN e ELSE q[i]
    BY <1>1, <2>1, <2>3, <2>4, ExceptSeq
  <2> HIDE DEF q
  <2>6. MarkOf(q, Marked(r), r)
    BY <2>1, <2>3, <2>5 DEF MarkOf
  <2> QED BY <1>2, <2>1, <2>3, <2>5, <2>6 DEF q
<1>3. CASE ~Reserved(r)
  BY <1>1, <1>3 DEF Marked, MarkOf
<1> QED BY <1>2, <1>3

LEMMA ResolveLeaves ==
  ASSUME GatesTyped, NEW r \in Reqs, gateOf[r] \in Gates, ResolveAudit(r)
  PROVE  /\ \E k \in 0..Len(queue[gateOf[r]]) :
              /\ Left(r, k)
              /\ Write(FlattenSeq([i \in 1..k |-> Marked(r)[i].rows]))
         /\ queue' \in [Gates -> Seq(Entries)]
<1> DEFINE m == Marked(r)
           I == {i \in 1..Len(m) : ~m[i].resolved}
           left == SelectInSeq(m, LAMBDA e : ~e.resolved)
           upto == IF left = 0 THEN Len(m) ELSE left - 1
           rest == SubSeq(m, upto + 1, Len(m))
<1>1. m \in Seq(Entries) /\ Len(m) = Len(queue[gateOf[r]])
  BY MarkedShape DEF MarkOf
<1>2. left = IF I # {} THEN CHOOSE x \in I : \A y \in I : x =< y ELSE 0
  BY DEF SelectInSeq, Min
<1>3. queue' = [queue EXCEPT ![gateOf[r]] = rest]
      /\ Write(FlattenSeq([i \in 1..upto |-> m[i].rows]))
  BY DEF ResolveAudit
<1> HIDE DEF m
<1>4. Len(m) \in Nat
  BY <1>1
<1>5. \/ left = 0 /\ I = {}
      \/ left \in 1..Len(m) /\ left \in I /\ (\A y \in I : left =< y)
  <2>1. I \subseteq 1..Len(m)
    OBVIOUS
  <2> HIDE DEF I, left
  <2>2. I \subseteq Nat
    BY <1>4, <2>1
  <2>3. I # {} => \E x \in I : \A y \in I : x =< y
    BY <2>2, SmallestOf
  <2>4. I = {} \/ (left \in I /\ \A y \in I : left =< y)
    BY <1>2, <2>3
  <2>5. I = {} => left = 0
    BY <1>2
  <2> QED BY <2>1, <2>4, <2>5
<1>6. upto \in 0..Len(m) /\ (upto < Len(m) => ~m[upto + 1].resolved)
      /\ \A i \in 1..upto : m[i].resolved
  <2> HIDE DEF left
  <2> QED BY <1>4, <1>5
<1> HIDE DEF upto
<1>7. rest \in Seq(Entries)
  BY <1>1, <1>4, <1>6, SubSeqProperties
<1>8. queue' \in [Gates -> Seq(Entries)]
  BY <1>3, <1>7 DEF GatesTyped
<1> QED BY <1>1, <1>3, <1>6, <1>8 DEF Left, m

-----------------------------------------------------------------------------
\* Where a request is that the upstream has received.
Later == {"waiting", "failed", "answered", "lost", "settled", "leaving", "returned"}

\* What every step of the listener does to the request it serves.
Moves(r) ==
  /\ UNCHANGED <<required, method, gateOf>>
  /\ at' = [at EXCEPT ![r] = at'[r]] /\ answer' = [answer EXCEPT ![r] = answer'[r]]
  /\ at[r] \in Gated \cup {"serve"} /\ at'[r] \in Gated \cup {"returned"}
  /\ Reached(r) => at'[r] \in Later
  /\ reached' = reached \/ (reached' = reached \cup {r} /\ at[r] = "cleared" /\ at'[r] = "waiting")
  /\ trail \subseteq trail'
  /\ sink' = sink \/ sink' = "failed"

LEMMA Told ==
  ASSUME RequestsTyped, NEW r \in Reqs, NEW l, NEW a
  PROVE  /\ Goto(r, l) => at' = [at EXCEPT ![r] = at'[r]] /\ at'[r] = l
         /\ Tell(r, a) => answer' = [answer EXCEPT ![r] = answer'[r]] /\ answer'[r] = a
         /\ answer' = answer => answer' = [answer EXCEPT ![r] = answer'[r]]
BY DEF RequestsTyped, Goto, Tell

LEMMA Placed ==
  ASSUME RequestsTyped, NEW r \in Reqs, NEW l, Goto(r, l),
         NEW a, Tell(r, a) \/ answer' = answer
  PROVE  /\ at' = [at EXCEPT ![r] = at'[r]] /\ at'[r] = l
         /\ answer' = [answer EXCEPT ![r] = answer'[r]]
BY DEF RequestsTyped, Goto, Tell

LEMMA ResolveGrows ==
  ASSUME GatesTyped, NEW r \in Reqs, gateOf[r] \in Gates, ResolveAudit(r)
  PROVE  /\ queue' \in [Gates -> Seq(Entries)]
         /\ trail \subseteq trail'
         /\ sink' = sink \/ sink' = "failed"
<1>1. queue' \in [Gates -> Seq(Entries)]
  BY ResolveLeaves
<1>2. PICK rows : Write(rows)
  BY DEF ResolveAudit
<1> QED BY <1>1, <1>2 DEF Write

\* A hidden tool adds a row to the sequence of its request.
LEMMA HideTyped ==
  ASSUME GatesTyped, NEW r \in Reqs, gateOf[r] \in Gates,
         queue' = [queue EXCEPT ![gateOf[r]][Entry(r)].rows = Append(@, Row(r, "hide"))]
  PROVE  /\ queue' \in [Gates -> Seq(Entries)]
         /\ \A g \in Gates :
              /\ Len(queue'[g]) = Len(queue[g])
              /\ \A i \in 1..Len(queue[g]) :
                   /\ queue'[g][i].req = queue[g][i].req
                   /\ queue'[g][i].resolved = queue[g][i].resolved
<1> DEFINE h == gateOf[r]
           q == queue[h]
           e == [q[Entry(r)] EXCEPT !.rows = Append(@, Row(r, "hide"))]
           m == [q EXCEPT ![Entry(r)] = e]
<1>1. q \in Seq(Entries)
  BY DEF GatesTyped
<1>2. queue' = [queue EXCEPT ![h] = m]
  OBVIOUS
<1>3. m \in Seq(Entries) /\ Len(m) = Len(q)
      /\ \A i \in 1..Len(q) : m[i].req = q[i].req /\ m[i].resolved = q[i].resolved
  <2>1. CASE Entry(r) \in 1..Len(q)
    <3>1. q[Entry(r)] \in Entries
      BY <1>1, <2>1
    <3>2. Row(r, "hide") \in Reqs \X Whats
      BY DEF Row, Whats
    <3> DEFINE rows == Append(q[Entry(r)].rows, Row(r, "hide"))
    <3>5. q[Entry(r)].rows \in Seq(Reqs \X Whats)
      BY <3>1 DEF Entries
    <3>6. rows \in Seq(Reqs \X Whats) /\ e = [q[Entry(r)] EXCEPT !.rows = rows]
      BY <3>2, <3>5
    <3> HIDE DEF rows, q
    <3>3. e \in Entries /\ e.req = q[Entry(r)].req /\ e.resolved = q[Entry(r)].resolved
      BY <3>1, <3>6 DEF Entries
    <3> HIDE DEF e
    <3>4. m \in Seq(Entries) /\ Len(m) = Len(q)
          /\ \A i \in 1..Len(q) : m[i] = IF i = Entry(r) THEN e ELSE q[i]
      BY <1>1, <2>1, <3>3, ExceptSeq
    <3> HIDE DEF m, q
    <3> QED BY <3>3, <3>4
  <2>2. CASE Entry(r) \notin 1..Len(q)
    <3>1. m = q
      BY <1>1, <2>2
    <3> QED BY <1>1, <3>1
  <2> QED BY <2>1, <2>2
<1> HIDE DEF m
<1> QED BY <1>2, <1>3 DEF GatesTyped

LEMMA HandleMoves ==
  ASSUME Typed, NEW r \in Reqs, Handle(r)
  PROVE  Moves(r) /\ GatesTyped'
<1> USE DEF gateVars, trailVars
<1>0. RequestsTyped /\ GatesTyped
  BY DEF Typed
<1>g. Owns(r) => gateOf[r] \in Gates
  BY <1>0 DEF RequestsTyped
<1>1. CASE Enter(r)
  <2>1. at[r] = "serve" /\ UNCHANGED <<required, method, gateOf, reached, trail, sink>>
    BY <1>1 DEF Enter
  <2>2. gateOf[r] \in Gates
    BY <1>g, <2>1 DEF Owns, Owning
  <2>3. ASSUME NEW a, TurnAway(r, a)
        PROVE  Moves(r) /\ GatesTyped'
    BY <1>0, <2>1, <2>3, Told DEF TurnAway, Moves, GatesTyped, Reached
  <2>4. ASSUME Decide(r), UNCHANGED answer,
               auditMu' = auditMu \/ auditMu' = [auditMu EXCEPT ![gateOf[r]] = {r}]
        PROVE  Moves(r) /\ GatesTyped'
    <3>1. PICK rows \in Seq(Reqs \X Whats) : Reserve(r, rows)
      <4>1. \A w \in Whats : Row(r, w) \in Reqs \X Whats
        BY DEF Row
      <4>2. \A w \in Whats : <<Row(r, w)>> \in Seq(Reqs \X Whats)
        BY <4>1
      <4>3. <<Row(r, "granted"), Row(r, "allow")>> \in Seq(Reqs \X Whats)
        BY <4>1 DEF Whats
      <4>4. <<>> \in Seq(Reqs \X Whats)
        OBVIOUS
      <4> QED BY <2>4, <4>2, <4>3, <4>4 DEF Decide, Whats
    <3>2. [req |-> r, rows |-> rows, resolved |-> FALSE] \in Entries
      BY DEF Entries
    <3>3. GatesTyped'
      <4>1. auditMu' \in [Gates -> SUBSET Reqs]
        BY <1>0, <2>4 DEF GatesTyped
      <4>2. queue[gateOf[r]] \in Seq(Entries)
        BY <1>0, <2>2 DEF GatesTyped
      <4>3. Append(queue[gateOf[r]], [req |-> r, rows |-> rows, resolved |-> FALSE]) \in Seq(Entries)
        BY <3>2, <4>2
      <4>4. queue' \in [Gates -> Seq(Entries)]
        BY <1>0, <3>1, <4>3 DEF Reserve, GatesTyped
      <4> QED BY <4>1, <4>4 DEF GatesTyped
    <3>4. Goto(r, "rejected") \/ Goto(r, "cleared") \/ Goto(r, "approved")
      BY <2>4 DEF Decide
    <3>5. Moves(r)
      BY <1>0, <2>1, <2>4, <3>4, Told DEF Moves, Gated, Reached
    <3> QED BY <3>3, <3>5
  <2>5. \/ TurnAway(r, "gate busy") \/ TurnAway(r, "not forwarded")
        \/ /\ Decide(r) /\ UNCHANGED answer
           /\ auditMu' = auditMu \/ auditMu' = [auditMu EXCEPT ![gateOf[r]] = {r}]
    BY <1>1 DEF Enter
  <2>6. ASSUME NEW a \in {"gate busy", "not forwarded"}, TurnAway(r, a)
        PROVE  Moves(r) /\ GatesTyped'
    BY <2>3, <2>6
  <2> QED BY <2>4, <2>5, <2>6
<1>2. CASE Approved(r) \/ Resolve(r) \/ Leave(r)
  <2>1. /\ ResolveAudit(r) /\ UNCHANGED <<required, method, gateOf, answer, reached>>
        /\ at[r] \in Gated
        /\ \E l \in Gated \cup {"returned"} : Goto(r, l) /\ (Reached(r) => l \in Later)
    BY <1>2 DEF Approved, Resolve, Leave, Gated, Reached, Later
  <2>2. gateOf[r] \in Gates
    BY <1>g, <2>1 DEF Owns, Owning
  <2>3. auditMu' \in [Gates -> SUBSET Reqs]
    BY <1>0, <1>2 DEF Approved, Resolve, Leave, GatesTyped
  <2>4. PICK l \in Gated \cup {"returned"} : Goto(r, l) /\ (Reached(r) => l \in Later)
    BY <2>1
  <2>5. /\ at' = [at EXCEPT ![r] = at'[r]] /\ at'[r] = l
        /\ answer' = [answer EXCEPT ![r] = answer'[r]]
    BY <1>0, <2>1, <2>4, Placed
  <2> QED BY <1>0, <2>1, <2>2, <2>3, <2>4, <2>5, ResolveGrows DEF Moves, GatesTyped
<1>3. CASE Reject(r)
  <2>1. /\ UNCHANGED <<required, method, gateOf, reached, auditMu>>
        /\ at[r] = "rejected" /\ Goto(r, "leaving")
        /\ Tell(r, "not forwarded") \/ Tell(r, "denied")
        /\ ResolveAudit(r) \/ UNCHANGED <<queue, trail, sink>>
    BY <1>3 DEF Reject
  <2>2. gateOf[r] \in Gates
    BY <1>g, <2>1 DEF Owns, Owning, Gated
  <2>3. /\ at' = [at EXCEPT ![r] = at'[r]] /\ at'[r] = "leaving"
        /\ answer' = [answer EXCEPT ![r] = answer'[r]]
    BY <1>0, <2>1, Placed
  <2> QED BY <1>0, <2>1, <2>2, <2>3, ResolveGrows DEF Moves, GatesTyped, Gated, Reached
<1>4. CASE Dispatch(r)
  <2>1. at[r] = "cleared" /\ UNCHANGED <<required, method, gateOf, auditMu, queue>>
    BY <1>4 DEF Dispatch
  <2>2. trail \subseteq trail' /\ (sink' = sink \/ sink' = "failed")
    BY <1>4 DEF Dispatch, Write
  <2>3. CASE Tell(r, "not forwarded") /\ Goto(r, "leaving") /\ reached' = reached
    <3>1. /\ at' = [at EXCEPT ![r] = at'[r]] /\ at'[r] = "leaving"
          /\ answer' = [answer EXCEPT ![r] = answer'[r]]
      BY <1>0, <2>3, Placed
    <3> QED BY <1>0, <2>1, <2>2, <2>3, <3>1 DEF Moves, GatesTyped, Gated, Reached
  <2>4. CASE Forward(r)
    BY <1>0, <2>1, <2>2, <2>4, Told DEF Moves, GatesTyped, Gated, Forward, Reached
  <2> QED BY <1>4, <2>3, <2>4 DEF Dispatch
<1>5. CASE Hear(r)
  <2>1. /\ at[r] = "waiting"
        /\ UNCHANGED <<required, method, gateOf, answer, reached, auditMu, trail, sink>>
    BY <1>5 DEF Hear
  <2>2. \E l \in Gated \cap Later : Goto(r, l)
    BY <1>5 DEF Hear, Unreachable, Unverified, NoDiscovery, Discovery, ToolResult, Relay, Gated,
                Later
  <2>3. queue' = queue
        \/ queue' = [queue EXCEPT ![gateOf[r]][Entry(r)].rows = Append(@, Row(r, "hide"))]
    BY <1>5 DEF Hear, Unreachable, Unverified, NoDiscovery, Discovery, ToolResult, Relay
  <2>4. gateOf[r] \in Gates
    BY <1>g, <2>1 DEF Owns, Owning, Gated
  <2>5. GatesTyped'
    BY <1>0, <2>1, <2>3, <2>4, HideTyped DEF GatesTyped
  <2>6. Moves(r)
    BY <1>0, <2>1, <2>2, Told DEF Moves, Gated
  <2> QED BY <2>5, <2>6
<1>6. CASE Publish(r)
  <2>1. /\ UNCHANGED <<required, method, gateOf, reached, gateVars, trailVars>>
        /\ at[r] \in Gated /\ Goto(r, "leaving")
        /\ Tell(r, "audit failed") \/ Tell(r, "unverified") \/ Tell(r, "result")
    BY <1>6 DEF Publish, Gated
  <2>2. /\ at' = [at EXCEPT ![r] = at'[r]] /\ at'[r] = "leaving"
        /\ answer' = [answer EXCEPT ![r] = answer'[r]]
    BY <1>0, <2>1, Placed
  <2> QED BY <1>0, <2>1, <2>2 DEF Moves, GatesTyped, Gated, Later
<1> QED BY <1>1, <1>2, <1>3, <1>4, <1>5, <1>6 DEF Handle

-----------------------------------------------------------------------------
LEMMA InitTyped == Init => Typed
<1> SUFFICES ASSUME Init PROVE Typed
  OBVIOUS
<1>1. RequestsTyped
  BY DEF Init, RequestsTyped, Places, Methods, Owns, Owning, Gated
<1>2. GatesTyped
  BY DEF Init, GatesTyped
<1>3. TableTyped
  BY DEF Init, TableTyped
<1> QED BY <1>1, <1>2, <1>3 DEF Typed

LEMMA ServeTyped ==
  ASSUME Typed, NEW r \in Reqs, Serve(r)
  PROVE  Typed'
<1>1. Moves(r) /\ GatesTyped'
  BY HandleMoves DEF Serve
<1>2. TableTyped'
  BY DEF Serve, tableVars, Typed, TableTyped
<1>3. Owns(r) /\ gateOf[r] \in Gates
  BY <1>1 DEF Typed, RequestsTyped, Moves, Owns, Owning
<1>4. carried' = carried \/ (hosted /\ carried' = [carried EXCEPT ![r] = sessions[gateOf[r]].upstreamID])
  BY DEF Serve
<1>5. RequestsTyped'
  <2>1. hosted' = hosted
    BY DEF Serve
  <2>2. at' \in [Reqs -> Places]
    BY <1>1 DEF Typed, RequestsTyped, Moves, Places, Owning
  <2>3. reached' \subseteq {q \in Reqs : Reached(q)'}
    BY <1>1 DEF Typed, RequestsTyped, Moves, Reached, Later
  <2>4. \A q \in Reqs : Owns(q)' \/ at'[q] = "flushing" => gateOf'[q] \in Gates
    BY <1>1, <1>3 DEF Typed, RequestsTyped, Moves, Owns, Owning
  <2>5. carried' = [q \in Reqs |-> carried'[q]]
    BY <1>4 DEF Typed, RequestsTyped
  <2> QED BY <1>1, <2>1, <2>2, <2>3, <2>4, <2>5 DEF Typed, RequestsTyped, Moves
<1> QED BY <1>1, <1>2, <1>5 DEF Typed

\* The gateway's own steps leave the listener's queues and trail alone.
LEMMA SweptTyped ==
  ASSUME TableTyped
  PROVE  /\ DOMAIN Swept = {g \in DOMAIN sessions : sessions[g].busy \/ sessions[g].age < TTL}
         /\ Swept = [g \in DOMAIN Swept |-> sessions[g]]
         /\ \A g \in DOMAIN Swept : g \in DOMAIN sessions /\ Swept[g] = sessions[g]
BY DEF Swept

LEMMA AdmitTyped ==
  ASSUME Typed, NEW r \in Reqs, Arrive(r) \/ Authenticate(r) \/ Malformed(r)
  PROVE  Typed'
<1>1. GatesTyped' /\ TableTyped'
  BY DEF Arrive, Authenticate, Malformed, gateVars, tableVars, Typed, GatesTyped, TableTyped
<1>2. RequestsTyped
  BY DEF Typed
<1>3. CASE Arrive(r)
  <2>1. PICK m \in Methods, g \in Gates \cup {NoGate} :
          /\ method' = [method EXCEPT ![r] = m] /\ gateOf' = [gateOf EXCEPT ![r] = g]
          /\ ~hosted => g = 1
    BY <1>3 DEF Arrive
  <2>2. \/ ~hosted /\ Goto(r, "serve") /\ UNCHANGED answer
        \/ Goto(r, "auth") /\ UNCHANGED answer
        \/ Goto(r, "done") /\ Tell(r, "gateway busy")
    BY <1>3 DEF Arrive
  <2>3. at[r] = "idle" /\ UNCHANGED <<required, hosted, reached, carried>> /\ (~hosted => r <= Unhosted)
    BY <1>3 DEF Arrive
  <2>5. at' = [at EXCEPT ![r] = at'[r]] /\ answer' = [answer EXCEPT ![r] = answer'[r]]
        /\ (at'[r] \in {"auth", "done"} \/ (~hosted /\ at'[r] = "serve"))
    BY <1>2, <2>2, Told
  <2>4. r \notin reached
    BY <1>2, <2>3 DEF RequestsTyped, Reached
  <2>6. gateOf' \in [Reqs -> Gates \cup {NoGate}] /\ method' \in [Reqs -> Methods]
        /\ at' \in [Reqs -> Places]
    BY <1>2, <2>1, <2>5 DEF RequestsTyped, Places, Owning
  <2>7. \A q \in Reqs : Owns(q)' \/ at'[q] = "flushing" => gateOf'[q] \in Gates
    BY <1>2, <2>1, <2>5 DEF RequestsTyped, Owns, Owning, Gated, NoGate
  <2>8. reached' \subseteq {q \in Reqs : Reached(q)'}
    BY <1>2, <2>3, <2>4, <2>5 DEF RequestsTyped, Reached
  <2>9. answer' = [q \in Reqs |-> answer'[q]]
    BY <1>2, <2>5 DEF RequestsTyped
  <2>10. RequestsTyped'
    BY <1>2, <2>3, <2>6, <2>7, <2>8, <2>9 DEF RequestsTyped
  <2> QED BY <1>1, <2>10 DEF Typed
<1>4. CASE Authenticate(r) \/ Malformed(r)
  <2>1. /\ UNCHANGED <<required, hosted, method, gateOf, reached, carried>>
        /\ at[r] \in {"auth", "admitted"}
    BY <1>4 DEF Authenticate, Malformed
  <2>2. \/ Goto(r, "admitted") /\ UNCHANGED answer
        \/ Goto(r, "done") /\ \E a \in {"gateway busy", "unauthenticated", "bad request"} : Tell(r, a)
    BY <1>4 DEF Authenticate, Malformed
  <2>3. /\ at' = [at EXCEPT ![r] = at'[r]] /\ at'[r] \in {"admitted", "done"}
        /\ answer' = [answer EXCEPT ![r] = answer'[r]]
    BY <1>2, <2>2, Told
  <2>4. RequestsTyped'
    BY <1>2, <2>1, <2>3 DEF RequestsTyped, Places, Owning, Owns, Gated, Reached
  <2> QED BY <1>1, <2>4 DEF Typed
<1> QED BY <1>3, <1>4

LEMMA AcquireTyped ==
  ASSUME Typed, NEW r \in Reqs, Acquire(r)
  PROVE  Typed'
<1>1. RequestsTyped /\ TableTyped
  BY DEF Typed
<1>2. GatesTyped'
  BY DEF Acquire, gateVars, Typed, GatesTyped
<1>3. at[r] = "admitted" /\ UNCHANGED <<required, method, reached, hosted, exposed, since, carried>>
  BY DEF Acquire
<1>4. ASSUME NEW a, Refuse(r, a, Swept)
      PROVE  Typed'
  <2>1. TableTyped'
    BY <1>1, <1>3, <1>4, SweptTyped DEF Refuse, TableTyped
  <2>2. RequestsTyped'
    BY <1>1, <1>3, <1>4, Told DEF Refuse, RequestsTyped, Places, Owning, Owns, Gated, Reached
  <2> QED BY <1>2, <2>1, <2>2 DEF Typed
<1>5. ASSUME NEW g \in Gates, NEW table, Take(r, g, table), TableTyped'
      PROVE  Typed'
  <2>1. RequestsTyped'
    BY <1>1, <1>3, <1>5, Told DEF Take, RequestsTyped, Places, Owning, Owns, Gated, Reached
  <2> QED BY <1>2, <1>5, <2>1 DEF Typed
<1>6. CASE gateOf[r] = NoGate /\ ~(Cardinality(DOMAIN Swept) >= Limit)
  <2> DEFINE g == Cardinality(issued) + 1
             new == [busy |-> TRUE, age |-> 0, upstreamID |-> NoGate]
  <2>1. g \in Gates /\ issued' = issued \cup {g} /\ Take(r, g, Put(Swept, g, new))
    BY <1>6 DEF Acquire, AcquireNew
  <2> HIDE DEF g
  <2>2. new \in [busy : BOOLEAN, age : Nat, upstreamID : Gates \cup {NoGate}]
    OBVIOUS
  <2>3. DOMAIN sessions' = DOMAIN Swept \cup {g} /\ sessions' = [x \in DOMAIN sessions' |-> sessions'[x]]
        /\ \A x \in DOMAIN sessions' : sessions'[x] = IF x = g THEN new ELSE Swept[x]
    BY <2>1 DEF Take, Put
  <2>4. TableTyped'
    BY <1>1, <1>3, <2>1, <2>2, <2>3, SweptTyped DEF TableTyped
  <2> QED BY <1>5, <2>1, <2>4
<1>7. CASE gateOf[r] # NoGate /\ gateOf[r] \in DOMAIN Swept /\ ~sessions[gateOf[r]].busy
  <2> DEFINE g == gateOf[r]
  <2>1. g \in Gates /\ issued' = issued /\ Take(r, g, [Swept EXCEPT ![g].busy = TRUE])
    BY <1>1, <1>7 DEF Acquire, AcquireExisting, RequestsTyped
  <2>2. DOMAIN sessions' = DOMAIN Swept /\ sessions' = [x \in DOMAIN sessions' |-> sessions'[x]]
        /\ \A x \in DOMAIN sessions' :
             sessions'[x] = IF x = g THEN [sessions[g] EXCEPT !.busy = TRUE] ELSE sessions[x]
    BY <1>1, <2>1, <1>7, SweptTyped DEF Take
  <2>4. [sessions[g] EXCEPT !.busy = TRUE]
          \in [busy : BOOLEAN, age : Nat, upstreamID : Gates \cup {NoGate}]
    <3>1. sessions[g] \in [busy : BOOLEAN, age : Nat, upstreamID : Gates \cup {NoGate}]
      BY <1>1, <1>7, SweptTyped DEF TableTyped
    <3> QED BY <3>1
  <2>3. TableTyped'
    BY <1>1, <1>3, <2>1, <2>2, <2>4, SweptTyped DEF TableTyped
  <2> QED BY <1>5, <2>1, <2>3
<1>8. \/ \E a \in {"session not found", "session busy", "table full"} : Refuse(r, a, Swept)
      \/ gateOf[r] = NoGate /\ ~(Cardinality(DOMAIN Swept) >= Limit)
      \/ gateOf[r] # NoGate /\ gateOf[r] \in DOMAIN Swept /\ ~sessions[gateOf[r]].busy
  BY DEF Acquire, AcquireNew, AcquireExisting
<1> QED BY <1>4, <1>6, <1>7, <1>8

LEMMA ReturnTyped ==
  ASSUME Typed, NEW r \in Reqs, Return(r), hosted => gateOf[r] \in DOMAIN sessions
  PROVE  Typed'
<1>1. RequestsTyped /\ TableTyped
  BY DEF Typed
<1>2. GatesTyped'
  BY DEF Return, gateVars, Typed, GatesTyped
<1>3. /\ at[r] = "returned"
      /\ UNCHANGED <<required, method, gateOf, answer, reached, hosted, carried>>
  BY DEF Return
<1>4. gateOf[r] \in Gates
  BY <1>1, <1>3 DEF RequestsTyped, Owns, Owning
<1>5. Goto(r, "done") \/ Goto(r, "flushing")
  BY DEF Return, Ready, Release, Gone
<1>6. RequestsTyped'
  BY <1>1, <1>3, <1>4, <1>5, Told DEF RequestsTyped, Places, Owning, Owns, Gated, Reached
<1>7. CASE ~hosted
  BY <1>1, <1>2, <1>6, <1>7 DEF Return, Gone, tableVars, TableTyped, Typed
<1>8. CASE hosted /\ Ready(r)
  <2>1. [busy |-> FALSE, age |-> 0, upstreamID |-> gateOf[r]]
          \in [busy : BOOLEAN, age : Nat, upstreamID : Gates \cup {NoGate}]
    BY <1>4
  <2>2. TableTyped'
    BY <1>1, <1>8, <2>1 DEF Ready, TableTyped
  <2> QED BY <1>2, <1>6, <2>2 DEF Typed
<1>9. CASE hosted /\ Release(r)
  <2> DEFINE g == gateOf[r]
             freed == [sessions[g] EXCEPT !.busy = FALSE, !.age = 0]
  <2>1. freed \in [busy : BOOLEAN, age : Nat, upstreamID : Gates \cup {NoGate}]
    <3>1. sessions[g] \in [busy : BOOLEAN, age : Nat, upstreamID : Gates \cup {NoGate}]
      BY <1>1, <1>9 DEF TableTyped
    <3> QED BY <3>1
  <2>2. \/ sessions' = [x \in DOMAIN sessions \ {g} |-> sessions[x]]
        \/ sessions' = [sessions EXCEPT ![g] = freed]
    BY <1>9 DEF Release, Drop
  <2> HIDE DEF freed
  <2>3. since' \in [Gates -> Nat]
    BY <1>1, <1>4, <1>9 DEF Release, TableTyped
  <2>4. exposed' \subseteq issued' /\ issued' \subseteq Gates
    BY <1>1, <1>9 DEF Release, TableTyped
  <2> DEFINE Slot == [busy : BOOLEAN, age : Nat, upstreamID : Gates \cup {NoGate}]
  <2>5. issued' = issued
    BY <1>9 DEF Release
  <2>6. freed \in Slot /\ \A x \in DOMAIN sessions : sessions[x] \in Slot
    BY <1>1, <2>1 DEF TableTyped
  <2>7. CASE sessions' = [x \in DOMAIN sessions \ {g} |-> sessions[x]]
    <3>1. DOMAIN sessions' \subseteq issued' /\ sessions' = [x \in DOMAIN sessions' |-> sessions'[x]]
      BY <1>1, <2>7, <2>5 DEF TableTyped
    <3>2. \A x \in DOMAIN sessions' : x \in DOMAIN sessions /\ sessions'[x] = sessions[x]
      BY <2>7
    <3>3. \A x \in DOMAIN sessions' :
            sessions'[x] \in [busy : BOOLEAN, age : Nat, upstreamID : Gates \cup {NoGate}]
      <4> HIDE DEF Slot
      <4>1. \A x \in DOMAIN sessions' : sessions'[x] \in Slot
        BY <2>6, <3>2
      <4> QED BY <4>1 DEF Slot
    <3>4. TableTyped'
      BY <2>3, <2>4, <3>1, <3>3, Zenon DEF TableTyped
    <3> QED BY <1>2, <1>6, <3>4 DEF Typed
  <2>8. CASE sessions' = [sessions EXCEPT ![g] = freed]
    <3>1. DOMAIN sessions' \subseteq issued' /\ sessions' = [x \in DOMAIN sessions' |-> sessions'[x]]
      BY <1>1, <2>8, <2>5 DEF TableTyped
    <3>2. \A x \in DOMAIN sessions' :
            x \in DOMAIN sessions /\ (sessions'[x] = sessions[x] \/ sessions'[x] = freed)
      BY <2>8
    <3>3. \A x \in DOMAIN sessions' :
            sessions'[x] \in [busy : BOOLEAN, age : Nat, upstreamID : Gates \cup {NoGate}]
      <4> HIDE DEF Slot
      <4>1. \A x \in DOMAIN sessions' : sessions'[x] \in Slot
        BY <2>6, <3>2
      <4> QED BY <4>1 DEF Slot
    <3>4. TableTyped'
      BY <2>3, <2>4, <3>1, <3>3, Zenon DEF TableTyped
    <3> QED BY <1>2, <1>6, <3>4 DEF Typed
  <2> QED BY <2>2, <2>7, <2>8
<1> QED BY <1>7, <1>8, <1>9 DEF Return

LEMMA FlushedTyped ==
  ASSUME Typed, NEW r \in Reqs, Flushed(r)
  PROVE  Typed'
<1>1. RequestsTyped /\ TableTyped
  BY DEF Typed
<1>2. GatesTyped'
  BY DEF Flushed, gateVars, Typed, GatesTyped
<1>3. /\ at[r] = "flushing" /\ Goto(r, "done")
      /\ UNCHANGED <<required, method, gateOf, answer, reached, hosted, carried>>
  BY DEF Flushed, Gone
<1>4. gateOf[r] \in Gates
  BY <1>1, <1>3 DEF RequestsTyped
<1>5. RequestsTyped'
  BY <1>1, <1>3, Told DEF RequestsTyped, Places, Owning, Owns, Gated, Reached
<1> DEFINE g == gateOf[r]
           fresh == [sessions[g] EXCEPT !.age = 0]
<1>6. g \in DOMAIN sessions =>
        fresh \in [busy : BOOLEAN, age : Nat, upstreamID : Gates \cup {NoGate}]
  <2> SUFFICES ASSUME g \in DOMAIN sessions
               PROVE  fresh \in [busy : BOOLEAN, age : Nat, upstreamID : Gates \cup {NoGate}]
    OBVIOUS
  <2>1. sessions[g] \in [busy : BOOLEAN, age : Nat, upstreamID : Gates \cup {NoGate}]
    BY <1>1 DEF TableTyped
  <2> QED BY <2>1
<1>7. sessions' = sessions \/ (g \in DOMAIN sessions /\ sessions' = [sessions EXCEPT ![g] = fresh])
  BY DEF Flushed
<1> HIDE DEF fresh
<1>8. TableTyped'
  <2>1. since' \in [Gates -> Nat] /\ UNCHANGED <<exposed, issued>>
    BY <1>1, <1>4 DEF Flushed, TableTyped
  <2>2. CASE sessions' = sessions
    BY <1>1, <2>1, <2>2 DEF TableTyped
  <2>3. CASE g \in DOMAIN sessions /\ sessions' = [sessions EXCEPT ![g] = fresh]
    BY <1>1, <1>6, <2>1, <2>3 DEF TableTyped
  <2> QED BY <1>7, <2>2, <2>3
<1> QED BY <1>2, <1>5, <1>8 DEF Typed

LEMMA TickTyped ==
  ASSUME Typed, Tick
  PROVE  /\ Typed'
         /\ DOMAIN sessions' = DOMAIN sessions
         /\ \A g \in DOMAIN sessions :
              /\ sessions'[g].busy = sessions[g].busy
              /\ sessions'[g].upstreamID = sessions[g].upstreamID
              /\ sessions'[g].age = Older(sessions[g].age)
<1>1. TableTyped /\ TTL \in Nat
  BY GatewayAssumption DEF Typed
<1>2. \A a \in Nat : Older(a) \in Nat
  BY <1>1 DEF Older
<1>3. sessions' = [g \in DOMAIN sessions |-> [sessions[g] EXCEPT !.age = Older(@)]]
      /\ since' = [g \in Gates |-> Older(since[g])]
      /\ UNCHANGED <<listenerVars, hosted, issued, exposed, carried>>
  BY DEF Tick
<1>4. ASSUME NEW g \in DOMAIN sessions
      PROVE  /\ sessions'[g] \in [busy : BOOLEAN, age : Nat, upstreamID : Gates \cup {NoGate}]
             /\ sessions'[g].busy = sessions[g].busy
             /\ sessions'[g].upstreamID = sessions[g].upstreamID
             /\ sessions'[g].age = Older(sessions[g].age)
  <2>1. sessions[g] \in [busy : BOOLEAN, age : Nat, upstreamID : Gates \cup {NoGate}]
    BY <1>1 DEF TableTyped
  <2>2. sessions'[g] = [sessions[g] EXCEPT !.age = Older(sessions[g].age)]
    BY <1>3
  <2> QED BY <1>2, <2>1, <2>2
<1>5. TableTyped'
  BY <1>1, <1>2, <1>3, <1>4 DEF TableTyped
<1>6. RequestsTyped' /\ GatesTyped'
  BY <1>3 DEF listenerVars, gateVars, trailVars, Typed, RequestsTyped, GatesTyped, Owns, Reached
<1> QED BY <1>3, <1>4, <1>5, <1>6 DEF Typed

LEMMA StillTyped ==
  ASSUME Typed, Close \/ UNCHANGED vars
  PROVE  Typed'
BY DEF Close, vars, gatewayVars, listenerVars, gateVars, trailVars, tableVars, Typed, RequestsTyped,
       GatesTyped, TableTyped, Owns, Reached

-----------------------------------------------------------------------------
\* The mutex of the gate, along the listener's steps.
LEMMA HandleLocks ==
  ASSUME Typed, NEW r \in Reqs, Handle(r)
  PROVE  \/ /\ at[r] = "serve" /\ ~Inside(r)' /\ auditMu' = auditMu
         \/ /\ at[r] = "serve" /\ Inside(r)'
            /\ required => auditMu[gateOf[r]] = {} /\ auditMu' = [auditMu EXCEPT ![gateOf[r]] = {r}]
            /\ ~required => auditMu' = auditMu
         \/ Inside(r) /\ Inside(r)' /\ auditMu' = auditMu
         \/ Inside(r) /\ ~Inside(r)' /\ auditMu' = [auditMu EXCEPT ![gateOf[r]] = @ \ {r}]
<1> USE DEF gateVars
<1>0. RequestsTyped
  BY DEF Typed
<1>1. CASE Enter(r)
  <2>1. CASE TurnAway(r, "gate busy") \/ TurnAway(r, "not forwarded")
    <3>1. at'[r] = "returned"
      BY <1>0, <2>1, Told DEF TurnAway
    <3> QED BY <1>1, <2>1, <3>1 DEF Enter, TurnAway, Inside, Gated
  <2>2. CASE /\ Decide(r)
             /\ auditMu' = (IF required THEN [auditMu EXCEPT ![gateOf[r]] = {r}] ELSE auditMu)
             /\ ~(required /\ auditMu[gateOf[r]] # {})
    <3>1. \E l \in {"rejected", "cleared", "approved"} : Goto(r, l)
      BY <2>2 DEF Decide
    <3>2. at'[r] \in Gated
      BY <1>0, <3>1, Told DEF Gated
    <3> QED BY <1>1, <2>2, <3>2 DEF Enter, Inside
  <2> QED BY <1>1, <2>1, <2>2 DEF Enter
<1>2. CASE Leave(r)
  <2>1. at[r] = "leaving" /\ at'[r] = "returned"
    BY <1>0, <1>2, Told DEF Leave
  <2> QED BY <1>2, <2>1 DEF Leave, Inside, Gated
<1>3. CASE Approved(r) \/ Reject(r) \/ Dispatch(r) \/ Hear(r) \/ Resolve(r) \/ Publish(r)
  <2>1. auditMu' = auditMu /\ at[r] \in Gated /\ \E l \in Gated : Goto(r, l)
    <3>1. CASE Approved(r) \/ Reject(r) \/ Dispatch(r)
      BY <3>1 DEF Approved, Reject, Dispatch, Forward, Gated
    <3>2. CASE Hear(r)
      BY <3>2 DEF Hear, Unreachable, Unverified, NoDiscovery, Discovery, ToolResult, Relay, Gated
    <3>3. CASE Resolve(r) \/ Publish(r)
      BY <3>3 DEF Resolve, Publish, Gated
    <3> QED BY <1>3, <3>1, <3>2, <3>3
  <2>2. at'[r] \in Gated
    BY <1>0, <2>1, Told
  <2> QED BY <2>1, <2>2 DEF Inside
<1> QED BY <1>1, <1>2, <1>3 DEF Handle

\* A request is told that its gate is busy when another is inside it.
LEMMA HandleBusy ==
  ASSUME Typed, NEW r \in Reqs, Handle(r), answer'[r] = "gate busy", answer'[r] # answer[r]
  PROVE  at[r] = "serve" /\ required /\ auditMu[gateOf[r]] # {}
<1>0. RequestsTyped
  BY DEF Typed
<1>1. CASE Enter(r)
  <2>1. CASE required /\ auditMu[gateOf[r]] # {}
    BY <1>1, <2>1 DEF Enter
  <2>2. CASE TurnAway(r, "not forwarded")
    <3>1. answer'[r] = "not forwarded"
      BY <1>0, <2>2, Told DEF TurnAway
    <3> QED BY <3>1
  <2> QED BY <1>1, <2>1, <2>2 DEF Enter
<1>2. ~(Tell(r, "not forwarded") \/ Tell(r, "denied") \/ Tell(r, "audit failed")
        \/ Tell(r, "unverified") \/ Tell(r, "result"))
  <2>1. \A a \in {"not forwarded", "denied", "audit failed", "unverified", "result"} : ~Tell(r, a)
    BY <1>0, Told
  <2> QED BY <2>1
<1>3. CASE Approved(r) \/ Reject(r) \/ Dispatch(r) \/ Hear(r) \/ Resolve(r) \/ Publish(r) \/ Leave(r)
  BY <1>2, <1>3 DEF Approved, Reject, Dispatch, Forward, Hear, Resolve, Publish, Leave
<1> QED BY <1>1, <1>3 DEF Handle

LEMMA ServeReady ==
  ASSUME Typed, ReadyInv, NEW r \in Reqs, Serve(r)
  PROVE  ReadyInv'
<1>1. Moves(r) /\ Handle(r)
  BY HandleMoves DEF Serve
<1>2. UNCHANGED <<hosted, sessions, issued, exposed>>
  BY DEF Serve, tableVars
<1>3. Owns(r)
  BY <1>1 DEF Moves, Owns, Owning
<1>4. IdsCounted' /\ ExposedReady'
  BY <1>2 DEF ReadyInv, IdsCounted, ExposedReady
<1>5. at[r] \notin {"idle", "auth", "admitted"} /\ at'[r] \notin {"idle", "auth", "admitted"}
  BY <1>1 DEF Moves, Gated
<1>6. \A q \in Reqs : q # r => at'[q] = at[q] /\ answer'[q] = answer[q]
  BY <1>1 DEF Moves, Typed, RequestsTyped
<1>7. \A q \in Reqs : Owns(q)' => Owns(q)
  BY <1>3, <1>6 DEF Owns
<1>8. NamesTold'
  BY <1>1, <1>2, <1>3, <1>5, <1>6, <1>7 DEF ReadyInv, NamesTold, Moves
<1>9. SessionsOwned'
  BY <1>1, <1>2, <1>7 DEF ReadyInv, SessionsOwned, Moves
<1>10. MutexHeld'
  <2> DEFINE g == gateOf[r]
  <2>1. g \in Gates /\ auditMu \in [Gates -> SUBSET Reqs] /\ gateOf' = gateOf /\ required' = required
    BY <1>1, <1>3 DEF Typed, RequestsTyped, GatesTyped, Moves
  <2>6. \A q \in Reqs : Inside(q) => gateOf[q] \in Gates
    BY DEF Typed, RequestsTyped, Inside, Owns, Owning
  <2>2. \A q \in Reqs : q # r => Inside(q)' = Inside(q)
    BY <1>6 DEF Inside
  <2>3. ASSUME NEW q \in Reqs, NEW h \in Gates, q \in auditMu'[h]
        PROVE  Inside(q)' /\ gateOf[q] = h
    <3>1. \A p \in Reqs : p \in auditMu[h] => Inside(p) /\ gateOf[p] = h
      BY DEF ReadyInv, MutexHeld
    <3>2. ~(at[r] = "serve" /\ Inside(r))
      BY DEF Inside, Gated
    <3>3. CASE auditMu' = auditMu /\ (at[r] = "serve" \/ Inside(r)')
      BY <2>2, <2>3, <3>1, <3>2, <3>3
    <3>4. CASE Inside(r)' /\ auditMu' = [auditMu EXCEPT ![g] = {r}]
      BY <2>1, <2>2, <2>3, <3>1, <3>4
    <3>5. CASE auditMu' = [auditMu EXCEPT ![g] = @ \ {r}]
      <4>1. q \in auditMu[h]
        BY <2>1, <2>3, <3>5
      <4>2. q # r
        BY <2>1, <2>3, <3>1, <3>5, <4>1
      <4> QED BY <2>2, <3>1, <4>1, <4>2
    <3> QED BY <3>3, <3>4, <3>5, HandleLocks, <1>1
  <2>4. ASSUME required, NEW q \in Reqs, Inside(q)'
        PROVE  auditMu'[gateOf[q]] = {q}
    <3>1. at[r] = "serve" => ~Inside(r)
      BY DEF Inside, Gated
    <3>2. gateOf[q] \in Gates
      BY <2>1, <2>2, <2>4, <2>6
    <3>3. CASE q = r
      BY <2>1, <2>4, <3>1, <3>3, HandleLocks, <1>1 DEF ReadyInv, MutexHeld
    <3>4. CASE q # r
      <4>1. Inside(q) /\ auditMu[gateOf[q]] = {q}
        BY <2>2, <2>4, <3>4 DEF ReadyInv, MutexHeld
      <4> QED BY <2>1, <2>4, <3>2, <3>4, <4>1, HandleLocks, <1>1
    <3> QED BY <3>3, <3>4
  <2> QED BY <2>1, <2>3, <2>4 DEF MutexHeld
<1>11. ToldSessionsAreReady'
  <2> SUFFICES ASSUME hosted, NEW q \in Reqs
               PROVE  /\ answer'[q] # "gate busy"
                      /\ q \in reached' /\ method[q] # "initialize" => carried'[q] = gateOf[q]
    BY <1>1, <1>2 DEF ToldSessionsAreReady, Moves
  <2>1. answer'[q] # "gate busy"
    <3>1. CASE q = r
      <4> SUFFICES ASSUME answer'[r] = "gate busy"
                   PROVE  FALSE
        BY <3>1
      <4>1. answer[r] # "gate busy"
        BY DEF ReadyInv, ToldSessionsAreReady
      <4>2. at[r] = "serve" /\ auditMu[gateOf[r]] # {}
        BY <1>1, <4>1, HandleBusy
      <4>3. gateOf[r] \in Gates /\ auditMu[gateOf[r]] \subseteq Reqs
        BY <1>3 DEF Typed, RequestsTyped, GatesTyped
      <4>4. PICK p \in Reqs : p \in auditMu[gateOf[r]]
        BY <4>2, <4>3
      <4>5. Inside(p) /\ gateOf[p] = gateOf[r]
        BY <4>3, <4>4 DEF ReadyInv, MutexHeld
      <4>6. p = r
        BY <1>3, <4>5 DEF ReadyInv, SessionsOwned, Inside, Owns, Owning
      <4> QED BY <4>2, <4>5, <4>6 DEF Inside, Gated
    <3> QED BY <1>6, <3>1 DEF ReadyInv, ToldSessionsAreReady
  <2>2. ASSUME q \in reached', method[q] # "initialize"
        PROVE  carried'[q] = gateOf[q]
    <3>1. CASE reached' = reached
      BY <2>2, <3>1 DEF ReadyInv, ToldSessionsAreReady, Serve
    <3>2. CASE reached' # reached
      <4>1. reached' = reached \cup {r} /\ r \notin reached
        BY <1>1, <3>2 DEF Moves
      <4>2. carried' = [carried EXCEPT ![r] = sessions[gateOf[r]].upstreamID]
        BY <3>2 DEF Serve
      <4>3. CASE q = r
        <5>1. gateOf[r] \in DOMAIN sessions \cap exposed
          BY <1>3, <1>5, <2>2, <4>3 DEF ReadyInv, NamesTold, SessionsOwned
        <5> QED BY <4>2, <4>3, <5>1 DEF ReadyInv, ExposedReady, Typed, RequestsTyped
      <4> QED BY <2>2, <4>1, <4>2, <4>3 DEF ReadyInv, ToldSessionsAreReady, Typed, RequestsTyped
    <3> QED BY <3>1, <3>2
  <2> QED BY <2>1, <2>2
<1> QED BY <1>4, <1>8, <1>9, <1>10, <1>11 DEF ReadyInv

\* Steps that keep the mutexes, and leave alone whoever is behind one.
LEMMA MutexKept ==
  ASSUME RequestsTyped, MutexHeld, NEW r \in Reqs, ~Inside(r), UNCHANGED <<required, auditMu>>,
         NEW l \in Places \ Gated, Goto(r, l), \A q \in Reqs : q # r => gateOf'[q] = gateOf[q]
  PROVE  MutexHeld'
<1>1. \A q \in Reqs : q # r => at'[q] = at[q] /\ gateOf'[q] = gateOf[q]
  BY DEF RequestsTyped, Goto
<1>2. ~Inside(r)'
  BY Told DEF Inside
<1> QED BY <1>1, <1>2 DEF MutexHeld, Inside

LEMMA AdmitReady ==
  ASSUME Typed, ReadyInv, NEW r \in Reqs, Arrive(r) \/ Authenticate(r) \/ Malformed(r)
  PROVE  ReadyInv'
<1>0. RequestsTyped
  BY DEF Typed
<1>1. UNCHANGED <<hosted, sessions, issued, exposed, carried, reached, auditMu, required>>
  BY DEF Arrive, Authenticate, Malformed, tableVars, gateVars
<1>2. at[r] \in {"idle", "auth", "admitted"}
  BY DEF Arrive, Authenticate, Malformed
<1>3. /\ \A q \in Reqs : q # r => at'[q] = at[q] /\ gateOf'[q] = gateOf[q]
                                 /\ method'[q] = method[q] /\ answer'[q] = answer[q]
      /\ answer'[r] = "gate busy" => answer[r] = "gate busy"
      /\ hosted => at'[r] \in {"auth", "admitted", "done"}
  BY <1>0 DEF Arrive, Authenticate, Malformed, RequestsTyped, Goto, Tell
<1>4. hosted => /\ method'[r] # "initialize" => gateOf'[r] \in exposed
                /\ method'[r] = "initialize" /\ at'[r] \in {"auth", "admitted"} => gateOf'[r] = NoGate
  <2>1. CASE Arrive(r)
    <3>1. PICK m \in Methods, g \in Gates \cup {NoGate} :
            /\ method' = [method EXCEPT ![r] = m] /\ gateOf' = [gateOf EXCEPT ![r] = g]
            /\ hosted => \/ (g \in exposed /\ m # "initialize")
                         \/ (g = NoGate /\ m = "initialize")
      BY <2>1 DEF Arrive
    <3> QED BY <1>0, <3>1 DEF RequestsTyped
  <2>2. CASE Authenticate(r) \/ Malformed(r)
    <3>1. method' = method /\ gateOf' = gateOf /\ at[r] \in {"auth", "admitted"}
      BY <2>2 DEF Authenticate, Malformed
    <3> QED BY <3>1 DEF ReadyInv, NamesTold
  <2> QED BY <2>1, <2>2
<1>5. IdsCounted' /\ ExposedReady'
  BY <1>1 DEF ReadyInv, IdsCounted, ExposedReady
<1>6. \A q \in Reqs : hosted /\ Owns(q)' => q # r /\ Owns(q)
  BY <1>3 DEF Owns, Owning, Gated
<1>7. NamesTold'
  BY <1>1, <1>3, <1>4, <1>6 DEF ReadyInv, NamesTold
<1>8. SessionsOwned'
  BY <1>1, <1>3, <1>6 DEF ReadyInv, SessionsOwned
<1>9. MutexHeld'
  <2>1. \E l \in Places \ Gated : Goto(r, l)
    BY DEF Arrive, Authenticate, Malformed, Places, Owning, Gated
  <2> QED BY <1>0, <1>1, <1>2, <1>3, <2>1, MutexKept DEF ReadyInv, Inside, Gated
<1>10. ToldSessionsAreReady'
  <2>1. r \notin reached
    BY <1>0, <1>2 DEF RequestsTyped, Reached
  <2> QED BY <1>1, <1>3, <2>1 DEF ReadyInv, ToldSessionsAreReady
<1> QED BY <1>5, <1>7, <1>8, <1>9, <1>10 DEF ReadyInv

LEMMA AcquireReady ==
  ASSUME Typed, ReadyInv, NEW r \in Reqs, Acquire(r)
  PROVE  ReadyInv'
<1>0. RequestsTyped /\ TableTyped
  BY DEF Typed
<1>1. /\ at[r] = "admitted"
      /\ UNCHANGED <<hosted, exposed, carried, reached, auditMu, required, method>>
  BY DEF Acquire, gateVars
<1>2. /\ DOMAIN Swept \subseteq DOMAIN sessions
      /\ \A g \in DOMAIN sessions : sessions[g].busy => g \in DOMAIN Swept
      /\ \A g \in DOMAIN Swept : Swept[g] = sessions[g]
  BY <1>0, SweptTyped
<1>3. ~Inside(r) /\ ~Owns(r) /\ r \notin reached
  BY <1>0, <1>1 DEF Inside, Owns, Owning, Gated, RequestsTyped, Reached
<1>4. ASSUME NEW a \in {"session not found", "session busy", "table full"}, Refuse(r, a, Swept)
      PROVE  ReadyInv'
  <2>1. Goto(r, "done") /\ UNCHANGED <<gateOf, issued>> /\ sessions' = Swept /\ Tell(r, a)
    BY <1>4 DEF Refuse
  <2>2. \A q \in Reqs : at'[q] = IF q = r THEN "done" ELSE at[q]
    BY <1>0, <2>1 DEF Goto, RequestsTyped
  <2>3. \A q \in Reqs : answer'[q] = IF q = r THEN a ELSE answer[q]
    BY <1>0, <2>1 DEF Tell, RequestsTyped
  <2>4. \A q \in Reqs : Owns(q)' => q # r /\ Owns(q)
    BY <2>2 DEF Owns, Owning, Gated
  <2>5. IdsCounted' /\ ExposedReady'
    BY <1>1, <1>2, <2>1 DEF ReadyInv, IdsCounted, ExposedReady
  <2>6. NamesTold'
    BY <1>1, <2>1, <2>2, <2>4 DEF ReadyInv, NamesTold
  <2>7. SessionsOwned'
    BY <1>1, <1>2, <2>1, <2>4 DEF ReadyInv, SessionsOwned
  <2>8. MutexHeld'
    BY <1>0, <1>1, <1>3, <2>1, MutexKept DEF ReadyInv, Places, Owning, Gated
  <2>9. ToldSessionsAreReady'
    BY <1>1, <2>1, <2>3 DEF ReadyInv, ToldSessionsAreReady
  <2> QED BY <2>5, <2>6, <2>7, <2>8, <2>9 DEF ReadyInv
<1>5. ASSUME NEW g \in Gates, NEW table, Take(r, g, table),
             IdsCounted', ExposedReady',
             g \in DOMAIN table, table[g].busy, hosted => \A q \in Reqs : Owns(q) => gateOf[q] # g,
             hosted /\ method[r] # "initialize" => g \in exposed,
             hosted /\ method[r] = "initialize" => g \notin exposed,
             \A x \in DOMAIN sessions : sessions[x].busy => x \in DOMAIN table /\ table[x].busy
      PROVE  ReadyInv'
  <2>1. Goto(r, "serve") /\ gateOf' = [gateOf EXCEPT ![r] = g] /\ sessions' = table
        /\ answer' = answer
    BY <1>5 DEF Take
  <2>2. \A q \in Reqs : at'[q] = IF q = r THEN "serve" ELSE at[q]
    BY <1>0, <2>1 DEF Goto, RequestsTyped
  <2>3. \A q \in Reqs : gateOf'[q] = IF q = r THEN g ELSE gateOf[q]
    BY <1>0, <2>1 DEF RequestsTyped
  <2>4. \A q \in Reqs : q # r => (Owns(q)' <=> Owns(q))
    BY <2>2 DEF Owns
  <2>6. NamesTold'
    BY <1>1, <1>5, <2>2, <2>3, <2>4 DEF ReadyInv, NamesTold
  <2>7. SessionsOwned'
    BY <1>1, <1>3, <1>5, <2>1, <2>3, <2>4 DEF ReadyInv, SessionsOwned
  <2>8. MutexHeld'
    BY <1>0, <1>1, <1>3, <2>1, <2>3, MutexKept DEF ReadyInv, Places, Owning, Gated
  <2>9. ToldSessionsAreReady'
    BY <1>1, <1>3, <2>1, <2>3 DEF ReadyInv, ToldSessionsAreReady
  <2> QED BY <1>5, <2>6, <2>7, <2>8, <2>9 DEF ReadyInv
<1>6. CASE gateOf[r] = NoGate /\ ~(Cardinality(DOMAIN Swept) >= Limit)
  <2> DEFINE g == Cardinality(issued) + 1
             new == [busy |-> TRUE, age |-> 0, upstreamID |-> NoGate]
             table == Put(Swept, g, new)
  <2>1. g \in Gates /\ issued' = issued \cup {g} /\ Take(r, g, table)
    BY <1>6 DEF Acquire, AcquireNew
  <2>2. issued = 1..(g - 1) /\ g \in Nat \ {0}
    BY DEF ReadyInv, IdsCounted
  <2> HIDE DEF g
  <2>3. issued' = 1..g /\ Cardinality(issued') = g
    <3>1. issued' = 1..g
      BY <2>1, <2>2
    <3>2. Cardinality(1..g) = g
      BY <2>2, FS_Interval
    <3> QED BY <3>1, <3>2
  <2>4. g \notin issued
    BY <2>2
  <2> HIDE DEF new
  <2>5. DOMAIN table = DOMAIN Swept \cup {g}
        /\ \A x \in DOMAIN table : table[x] = IF x = g THEN new ELSE Swept[x]
    BY DEF Put
  <2> HIDE DEF table
  <2>6. IdsCounted'
    BY <2>1, <2>2, <2>3 DEF IdsCounted
  <2>7. sessions' = table
    BY <2>1 DEF Take
  <2>8. g \notin exposed /\ g \notin DOMAIN sessions
    BY <1>0, <2>4 DEF TableTyped
  <2>9. ExposedReady'
    BY <1>1, <1>2, <2>5, <2>7, <2>8 DEF ReadyInv, ExposedReady
  <2>10. hosted => method[r] = "initialize"
    <3>1. NoGate \notin exposed
      BY <1>0, ListenerAssumption DEF TableTyped, NoGate
    <3> QED BY <1>1, <1>6, <3>1 DEF ReadyInv, NamesTold
  <2>11. hosted => \A q \in Reqs : Owns(q) => gateOf[q] # g
    BY <2>8 DEF ReadyInv, SessionsOwned
  <2>12. g \in DOMAIN table /\ table[g].busy
    BY <2>5 DEF new
  <2>13. \A x \in DOMAIN sessions : sessions[x].busy => x \in DOMAIN table /\ table[x].busy
    BY <1>2, <2>5, <2>8
  <2> QED BY <1>5, <2>1, <2>6, <2>8, <2>9, <2>10, <2>11, <2>12, <2>13
<1>7. CASE gateOf[r] # NoGate /\ gateOf[r] \in DOMAIN Swept /\ ~sessions[gateOf[r]].busy
  <2> DEFINE g == gateOf[r]
             e == [sessions[g] EXCEPT !.busy = TRUE]
             table == [Swept EXCEPT ![g] = e]
  <2>1. g \in Gates /\ issued' = issued /\ Take(r, g, [Swept EXCEPT ![g].busy = TRUE])
    BY <1>0, <1>7 DEF Acquire, AcquireExisting, RequestsTyped
  <2>2. Take(r, g, table)
    BY <1>2, <1>7, <2>1
  <2>3. e.busy /\ e.upstreamID = sessions[g].upstreamID
    <3>1. sessions[g] \in [busy : BOOLEAN, age : Nat, upstreamID : Gates \cup {NoGate}]
      BY <1>0, <1>2, <1>7 DEF TableTyped
    <3> QED BY <3>1
  <2> HIDE DEF e
  <2>4. DOMAIN table = DOMAIN Swept
        /\ \A x \in DOMAIN table : table[x] = IF x = g THEN e ELSE sessions[x]
    BY <1>2, <1>7
  <2> HIDE DEF table, g
  <2>5. sessions' = table
    BY <2>1, <2>2 DEF Take
  <2>6. IdsCounted' /\ ExposedReady'
    BY <1>1, <1>2, <2>1, <2>3, <2>4, <2>5 DEF ReadyInv, IdsCounted, ExposedReady
  <2>7. hosted => method[r] # "initialize" /\ g \in exposed
    BY <1>1, <1>7 DEF ReadyInv, NamesTold, g
  <2>8. hosted => \A q \in Reqs : Owns(q) => gateOf[q] # g
    BY <1>7 DEF ReadyInv, SessionsOwned, g
  <2>9. g \in DOMAIN table /\ table[g].busy
    BY <1>7, <2>3, <2>4 DEF g
  <2>10. \A x \in DOMAIN sessions : sessions[x].busy => x \in DOMAIN table /\ table[x].busy
    BY <1>2, <2>3, <2>4
  <2> QED BY <1>5, <2>1, <2>2, <2>6, <2>7, <2>8, <2>9, <2>10
<1>8. \/ \E a \in {"session not found", "session busy", "table full"} : Refuse(r, a, Swept)
      \/ gateOf[r] = NoGate /\ ~(Cardinality(DOMAIN Swept) >= Limit)
      \/ gateOf[r] # NoGate /\ gateOf[r] \in DOMAIN Swept /\ ~sessions[gateOf[r]].busy
  BY DEF Acquire, AcquireNew, AcquireExisting
<1> QED BY <1>4, <1>6, <1>7, <1>8

LEMMA ReturnReady ==
  ASSUME Typed, ReadyInv, NEW r \in Reqs, Return(r)
  PROVE  ReadyInv'
<1>0. RequestsTyped /\ TableTyped
  BY DEF Typed
<1>1. /\ at[r] = "returned"
      /\ UNCHANGED <<required, method, gateOf, answer, reached, auditMu, hosted, carried>>
  BY DEF Return, gateVars
<1>2. Owns(r) /\ ~Inside(r)
  BY <1>1 DEF Owns, Owning, Inside, Gated
<1>3. issued' = issued /\ \E l \in {"done", "flushing"} : Goto(r, l)
  BY DEF Return, Ready, Release, Gone, tableVars
<1>4. /\ \A q \in Reqs : q # r => at'[q] = at[q]
      /\ at'[r] \in {"done", "flushing"}
  BY <1>0, <1>3 DEF RequestsTyped, Goto
<1>5. \A q \in Reqs : Owns(q)' <=> (Owns(q) /\ q # r)
  BY <1>4 DEF Owns, Owning, Gated
<1>6. hosted => \A q \in Reqs : Owns(q)' => gateOf[q] # gateOf[r] /\ gateOf[q] \in DOMAIN sessions
                                            /\ sessions[gateOf[q]].busy
  BY <1>2, <1>5 DEF ReadyInv, SessionsOwned
<1>7. IdsCounted' /\ ToldSessionsAreReady'
  BY <1>1, <1>3 DEF ReadyInv, IdsCounted, ToldSessionsAreReady
<1>8. MutexHeld'
  BY <1>0, <1>1, <1>2, <1>3, MutexKept DEF ReadyInv, Places, Owning, Gated
<1>9. /\ ~hosted => UNCHANGED <<sessions, exposed>>
      /\ \A g \in DOMAIN sessions : g # gateOf[r] => g \in DOMAIN sessions' /\ sessions'[g] = sessions[g]
      /\ exposed' = exposed \/ (hosted /\ exposed' = exposed \cup {gateOf[r]})
      /\ \A g \in DOMAIN sessions' \cap exposed' :
           g \in DOMAIN sessions /\ sessions'[g].upstreamID = g
  <2>1. CASE ~hosted
    BY <1>1, <2>1 DEF Return, Gone, tableVars, ReadyInv, ExposedReady
  <2>2. CASE hosted
    <3>1. gateOf[r] \in DOMAIN sessions
      BY <1>2, <2>2 DEF ReadyInv, SessionsOwned
    <3>2. CASE Ready(r)
      BY <2>2, <3>1, <3>2 DEF Ready, ReadyInv, ExposedReady
    <3>3. CASE Release(r)
      <4>1. \A g \in DOMAIN sessions \cap exposed : sessions[g].upstreamID = g
        BY DEF ReadyInv, ExposedReady
      <4>2. exposed' = exposed
        BY <3>3 DEF Release
      <4>3. CASE method[r] = "initialize"
        BY <2>2, <3>3, <4>1, <4>2, <4>3 DEF Release, Drop
      <4>4. CASE method[r] # "initialize"
        <5> DEFINE freed == [sessions[gateOf[r]] EXCEPT !.busy = FALSE, !.age = 0]
        <5>1. sessions' = [sessions EXCEPT ![gateOf[r]] = freed]
          BY <3>1, <3>3, <4>4 DEF Release
        <5>2. freed.upstreamID = sessions[gateOf[r]].upstreamID
          OBVIOUS
        <5> QED BY <2>2, <3>1, <4>1, <4>2, <5>1, <5>2
      <4> QED BY <4>3, <4>4
    <3> QED BY <2>2, <3>2, <3>3 DEF Return
  <2> QED BY <2>1, <2>2
<1>10. ExposedReady'
  BY <1>9 DEF ExposedReady
<1>11. NamesTold'
  BY <1>1, <1>4, <1>5, <1>6, <1>9 DEF ReadyInv, NamesTold
<1>12. SessionsOwned'
  BY <1>1, <1>5, <1>6, <1>9 DEF ReadyInv, SessionsOwned
<1> QED BY <1>7, <1>8, <1>10, <1>11, <1>12 DEF ReadyInv

LEMMA FlushedReady ==
  ASSUME Typed, ReadyInv, NEW r \in Reqs, Flushed(r)
  PROVE  ReadyInv'
<1>0. RequestsTyped /\ TableTyped
  BY DEF Typed
<1>1. /\ at[r] = "flushing" /\ Goto(r, "done")
      /\ UNCHANGED <<required, method, gateOf, answer, reached, auditMu, hosted, carried, issued,
                     exposed>>
  BY DEF Flushed, Gone, gateVars
<1>2. \A q \in Reqs : at'[q] = IF q = r THEN "done" ELSE at[q]
  BY <1>0, <1>1 DEF RequestsTyped, Goto
<1>3. \A q \in Reqs : Owns(q)' <=> Owns(q)
  BY <1>1, <1>2 DEF Owns, Owning, Gated
<1>4. DOMAIN sessions' = DOMAIN sessions
      /\ \A g \in DOMAIN sessions : /\ sessions'[g].busy = sessions[g].busy
                                    /\ sessions'[g].upstreamID = sessions[g].upstreamID
  <2>1. CASE sessions' = sessions
    BY <2>1
  <2>2. CASE gateOf[r] \in DOMAIN sessions /\ sessions' = [sessions EXCEPT ![gateOf[r]].age = 0]
    <3> DEFINE fresh == [sessions[gateOf[r]] EXCEPT !.age = 0]
    <3>1. sessions' = [sessions EXCEPT ![gateOf[r]] = fresh]
      BY <2>2
    <3>2. fresh.busy = sessions[gateOf[r]].busy /\ fresh.upstreamID = sessions[gateOf[r]].upstreamID
      OBVIOUS
    <3> QED BY <2>2, <3>1, <3>2
  <2> QED BY <2>1, <2>2 DEF Flushed
<1>5. IdsCounted' /\ ToldSessionsAreReady' /\ ExposedReady'
  BY <1>1, <1>4 DEF ReadyInv, IdsCounted, ToldSessionsAreReady, ExposedReady
<1>6. NamesTold' /\ SessionsOwned'
  BY <1>1, <1>2, <1>3, <1>4 DEF ReadyInv, NamesTold, SessionsOwned
<1>7. MutexHeld'
  BY <1>0, <1>1, MutexKept DEF ReadyInv, Inside, Places, Owning, Gated
<1> QED BY <1>5, <1>6, <1>7 DEF ReadyInv

LEMMA OthersReady ==
  ASSUME Typed, ReadyInv, Tick \/ Close \/ UNCHANGED vars
  PROVE  ReadyInv'
<1>1. /\ UNCHANGED <<required, at, method, gateOf, answer, reached, auditMu, hosted, carried, issued,
                     exposed>>
      /\ DOMAIN sessions' = DOMAIN sessions
      /\ \A g \in DOMAIN sessions : /\ sessions'[g].busy = sessions[g].busy
                                    /\ sessions'[g].upstreamID = sessions[g].upstreamID
  <2>1. CASE Tick
    BY <2>1, TickTyped DEF Tick, listenerVars, gateVars
  <2>2. CASE Close \/ UNCHANGED vars
    BY <2>2 DEF Close, vars, gatewayVars, listenerVars, gateVars, tableVars
  <2> QED BY <2>1, <2>2
<1>2. \A q \in Reqs : (Owns(q)' <=> Owns(q)) /\ (Inside(q)' <=> Inside(q))
  BY <1>1 DEF Owns, Inside
<1>3. IdsCounted' /\ ToldSessionsAreReady' /\ ExposedReady'
  BY <1>1 DEF ReadyInv, IdsCounted, ToldSessionsAreReady, ExposedReady
<1>4. NamesTold' /\ SessionsOwned'
  BY <1>1, <1>2 DEF ReadyInv, NamesTold, SessionsOwned
<1>5. MutexHeld'
  BY <1>1, <1>2 DEF ReadyInv, MutexHeld
<1> QED BY <1>3, <1>4, <1>5 DEF ReadyInv

LEMMA InitReady == Init => ReadyInv
<1> SUFFICES ASSUME Init PROVE ReadyInv
  OBVIOUS
<1>1. IdsCounted
  <2>1. issued = {} /\ Cardinality(issued) = 0
    BY FS_EmptySet DEF Init
  <2> QED BY <2>1 DEF IdsCounted
<1>2. \A r \in Reqs : ~Owns(r) /\ ~Inside(r)
  BY DEF Init, Owns, Inside, Owning, Gated
<1> QED BY <1>1, <1>2 DEF Init, ReadyInv, NamesTold, SessionsOwned, ExposedReady, MutexHeld,
                          ToldSessionsAreReady

\* The two belong together: a result exposes a session that is in the table.
LEMMA ReadyStep ==
  ASSUME Typed, ReadyInv, [Next]_vars
  PROVE  Typed' /\ ReadyInv'
<1>1. ASSUME NEW r \in Reqs, Arrive(r) \/ Authenticate(r) \/ Malformed(r)
      PROVE  Typed' /\ ReadyInv'
  BY <1>1, AdmitTyped, AdmitReady
<1>2. ASSUME NEW r \in Reqs, Acquire(r)
      PROVE  Typed' /\ ReadyInv'
  BY <1>2, AcquireTyped, AcquireReady
<1>3. ASSUME NEW r \in Reqs, Serve(r)
      PROVE  Typed' /\ ReadyInv'
  BY <1>3, ServeTyped, ServeReady
<1>4. ASSUME NEW r \in Reqs, Return(r)
      PROVE  Typed' /\ ReadyInv'
  <2>1. hosted => gateOf[r] \in DOMAIN sessions
    BY <1>4 DEF Return, Owns, Owning, ReadyInv, SessionsOwned
  <2> QED BY <1>4, <2>1, ReturnTyped, ReturnReady
<1>5. ASSUME NEW r \in Reqs, Flushed(r)
      PROVE  Typed' /\ ReadyInv'
  BY <1>5, FlushedTyped, FlushedReady
<1>6. CASE Tick
  BY <1>6, TickTyped, OthersReady
<1>7. CASE Close \/ UNCHANGED vars
  BY <1>7, StillTyped, OthersReady
<1> QED BY <1>1, <1>2, <1>3, <1>4, <1>5, <1>6, <1>7 DEF Next, Step

(***************************************************************************)
(* A client that was told its session may use it: its request is never     *)
(* turned away by the mutex of the gate behind the session, though the     *)
(* initialize it answers released the session before its result was        *)
(* written, and it is forwarded under the upstream session that initialize *)
(* installed (acquire, onReady and the deferred release of gateway.go).    *)
(***************************************************************************)
THEOREM ToldSessionsReady == Spec => []ToldSessionsAreReady
<1>1. Init => Typed /\ ReadyInv
  BY InitTyped, InitReady
<1>2. Typed /\ ReadyInv /\ [Next]_vars => (Typed /\ ReadyInv)'
  BY ReadyStep
<1>3. ReadyInv => ToldSessionsAreReady
  BY DEF ReadyInv
<1> QED BY <1>1, <1>2, <1>3, PTL DEF Spec

-----------------------------------------------------------------------------
\* The queue of the gate, along the listener's steps: untouched, a hidden
\* tool's row more, a sequence more, or resolved.
LEMMA HandleQueues ==
  ASSUME Typed, NEW r \in Reqs, Handle(r)
  PROVE  \/ /\ queue' = queue
            /\ (Inside(r) /\ Inside(r)') \/ (at[r] = "serve" /\ at'[r] = "returned")
         \/ /\ at[r] = "waiting" /\ Inside(r)' /\ method[r] = "tools/list"
            /\ queue' = [queue EXCEPT ![gateOf[r]][Entry(r)].rows = Append(@, Row(r, "hide"))]
         \/ /\ at[r] = "serve" /\ Inside(r)'
            /\ \E rows \in Seq(Reqs \X Whats) :
                 /\ Reserve(r, rows)
                 /\ method[r] = "tools/call" /\ at'[r] # "rejected" =>
                      \E j \in DOMAIN rows : rows[j] = Row(r, "allow")
         \/ Inside(r) /\ ResolveAudit(r)
<1> USE DEF gateVars
<1>0. RequestsTyped
  BY DEF Typed
<1>1. CASE Enter(r)
  <2>1. CASE TurnAway(r, "gate busy") \/ TurnAway(r, "not forwarded")
    <3>1. at'[r] = "returned"
      BY <1>0, <2>1, Told DEF TurnAway
    <3> QED BY <1>1, <2>1, <3>1 DEF Enter, TurnAway
  <2>2. CASE Decide(r)
    <3>1. \A w \in Whats : Row(r, w) \in Reqs \X Whats
      BY DEF Row
    <3>2. \A w \in Whats : <<Row(r, w)>> \in Seq(Reqs \X Whats)
      BY <3>1
    <3>3. CASE Reserve(r, <<Row(r, "deny")>>) /\ Goto(r, "rejected")
      <4>1. at'[r] = "rejected"
        BY <1>0, <3>3, Told
      <4> QED BY <1>1, <3>2, <3>3, <4>1 DEF Enter, Inside, Gated, Whats
    <3>4. CASE method[r] = "tools/call" /\ Reserve(r, <<Row(r, "allow")>>) /\ Goto(r, "cleared")
      <4>1. at'[r] = "cleared"
        BY <1>0, <3>4, Told
      <4> DEFINE rows == <<Row(r, "allow")>>
      <4>2. rows \in Seq(Reqs \X Whats) /\ 1 \in DOMAIN rows /\ rows[1] = Row(r, "allow")
        BY <3>2 DEF Whats
      <4> HIDE DEF rows
      <4> QED BY <1>1, <3>4, <4>1, <4>2 DEF Enter, Inside, Gated, rows
    <3>5. CASE method[r] = "tools/call" /\ Reserve(r, <<Row(r, "granted"), Row(r, "allow")>>)
               /\ Goto(r, "approved")
      <4> DEFINE rows == <<Row(r, "granted"), Row(r, "allow")>>
      <4>1. at'[r] = "approved"
        BY <1>0, <3>5, Told
      <4>2. rows \in Seq(Reqs \X Whats) /\ 2 \in DOMAIN rows /\ rows[2] = Row(r, "allow")
        BY <3>1 DEF Whats
      <4> HIDE DEF rows
      <4> QED BY <1>1, <3>5, <4>1, <4>2 DEF Enter, Inside, Gated, rows
    <3>6. CASE method[r] # "tools/call" /\ Reserve(r, <<>>) /\ Goto(r, "cleared")
      <4>1. at'[r] = "cleared"
        BY <1>0, <3>6, Told
      <4>2. <<>> \in Seq(Reqs \X Whats)
        OBVIOUS
      <4> QED BY <1>1, <3>6, <4>1, <4>2 DEF Enter, Inside, Gated
    <3> QED BY <2>2, <3>3, <3>4, <3>5, <3>6 DEF Decide
  <2> QED BY <1>1, <2>1, <2>2 DEF Enter
<1>2. CASE Approved(r) \/ Resolve(r) \/ Leave(r)
  BY <1>2 DEF Approved, Resolve, Leave, Inside, Gated
<1>3. CASE Reject(r) \/ Dispatch(r) \/ Publish(r)
  <2>1. at[r] \in Gated /\ \E l \in Gated : Goto(r, l)
    BY <1>3 DEF Reject, Dispatch, Forward, Publish, Gated
  <2>2. at'[r] \in Gated
    BY <1>0, <2>1, Told
  <2> QED BY <1>3, <2>1, <2>2 DEF Reject, Dispatch, Publish, Inside
<1>4. CASE Hear(r)
  <2>1. at[r] = "waiting" /\ \E l \in Gated : Goto(r, l)
    BY <1>4 DEF Hear, Unreachable, Unverified, NoDiscovery, Discovery, ToolResult, Relay, Gated
  <2>2. at'[r] \in Gated
    BY <1>0, <2>1, Told
  <2>3. queue' = queue
        \/ /\ method[r] = "tools/list"
           /\ queue' = [queue EXCEPT ![gateOf[r]][Entry(r)].rows = Append(@, Row(r, "hide"))]
    BY <1>4 DEF Hear, Unreachable, Unverified, NoDiscovery, Discovery, ToolResult, Relay
  <2> QED BY <2>1, <2>2, <2>3 DEF Inside, Gated
<1> QED BY <1>1, <1>2, <1>3, <1>4 DEF Handle

\* A sequence of the queue: whose it may be, and that it is its only one.
InOrder(q, g, ats, gates) ==
  \A i \in 1..Len(q) :
    /\ gates[q[i].req] = g /\ ats[q[i].req] \in Places \ {"idle", "auth", "admitted", "serve"}
    /\ ~q[i].resolved => ats[q[i].req] \in Gated
    /\ \A j \in 1..Len(q) : q[j].req = q[i].req => i = j

LEMMA QueuesInOrder ==
  ASSUME GatesTyped
  PROVE  QueuesOwned <=> \A g \in Gates : /\ Len(queue[g]) > 0 => ~queue[g][1].resolved
                                          /\ InOrder(queue[g], g, at, gateOf)
<1>1. \A g \in Gates : queue[g] \in Seq(Entries)
  BY DEF GatesTyped
<1>2. \A g \in Gates : DOMAIN queue[g] = 1..Len(queue[g]) /\ (queue[g] # <<>> <=> Len(queue[g]) > 0)
  BY <1>1
<1> QED BY <1>2 DEF QueuesOwned, InOrder, Inside

LEMMA ServeQueues ==
  ASSUME Typed, QueuesOwned, NEW r \in Reqs, Handle(r)
  PROVE  QueuesOwned'
<1> DEFINE h == gateOf[r]
<1>0. RequestsTyped /\ GatesTyped
  BY DEF Typed
<1>1. Moves(r) /\ GatesTyped'
  BY HandleMoves
<1>2. \A g \in Gates : /\ Len(queue[g]) > 0 => ~queue[g][1].resolved
                       /\ InOrder(queue[g], g, at, gateOf)
  BY <1>0, QueuesInOrder
<1>3. h \in Gates /\ (\A q \in Reqs : q # r => at'[q] = at[q])
      /\ at'[r] \in Gated \cup {"returned"} /\ gateOf' = gateOf
  BY <1>0, <1>1 DEF RequestsTyped, Moves, Owns, Owning
<1>4. \A g \in Gates : queue[g] \in Seq(Entries)
      /\ \A i \in 1..Len(queue[g]) : queue[g][i].req \in Reqs
  <2> TAKE g \in Gates
  <2>1. queue[g] \in Seq(Entries)
    BY <1>0 DEF GatesTyped
  <2>2. \A i \in 1..Len(queue[g]) : queue[g][i] \in Entries
    BY <2>1
  <2> QED BY <2>1, <2>2 DEF Entries
<1>5. SUFFICES \A g \in Gates : /\ Len(queue'[g]) > 0 => ~queue'[g][1].resolved
                                /\ InOrder(queue'[g], g, at', gateOf)
  <2>1. \A g \in Gates : queue'[g] \in Seq(Entries)
    BY <1>1 DEF GatesTyped
  <2>2. \A g \in Gates :
          DOMAIN queue'[g] = 1..Len(queue'[g]) /\ (queue'[g] # <<>> => Len(queue'[g]) > 0)
    BY <2>1
  <2> HIDE DEF h
  <2> QED BY <1>3, <2>2 DEF QueuesOwned, InOrder, Inside
<1>6. ASSUME \A g \in Gates :
               /\ Len(queue'[g]) = Len(queue[g])
               /\ \A i \in 1..Len(queue[g]) : /\ queue'[g][i].req = queue[g][i].req
                                              /\ queue'[g][i].resolved = queue[g][i].resolved,
             Inside(r)' \/ at[r] = "serve"
      PROVE  \A g \in Gates : /\ Len(queue'[g]) > 0 => ~queue'[g][1].resolved
                              /\ InOrder(queue'[g], g, at', gateOf)
  <2> TAKE g \in Gates
  <2>1. Len(queue'[g]) > 0 => ~queue'[g][1].resolved
    BY <1>2, <1>4, <1>6
  <2>2. InOrder(queue'[g], g, at', gateOf)
    <3>1. PICK q, s : q = queue[g] /\ s = queue'[g]
      OBVIOUS
    <3>2. Len(s) = Len(q)
          /\ \A i \in 1..Len(q) : s[i].req = q[i].req /\ s[i].resolved = q[i].resolved
      BY <1>6, <3>1
    <3>3. InOrder(q, g, at, gateOf) /\ \A i \in 1..Len(q) : q[i].req \in Reqs
      BY <1>2, <1>4, <3>1
    <3>4. at'[r] \in Places \ {"idle", "auth", "admitted", "serve"}
      BY <1>3 DEF Places, Owning, Gated
    <3>5. \A i \in 1..Len(q) : ~q[i].resolved => at'[q[i].req] \in Gated
      BY <1>3, <1>6, <3>3 DEF InOrder, Inside, Gated
    <3>6. InOrder(s, g, at', gateOf)
      BY <1>3, <3>2, <3>3, <3>4, <3>5 DEF InOrder
    <3> QED BY <3>1, <3>6
  <2> QED BY <2>1, <2>2
<1>7. CASE queue' = queue /\ (Inside(r)' \/ at[r] = "serve")
  BY <1>6, <1>7
<1>8. CASE Inside(r)' /\ queue' = [queue EXCEPT ![h][Entry(r)].rows = Append(@, Row(r, "hide"))]
  BY <1>0, <1>3, <1>6, <1>8, HideTyped
<1>9. ASSUME at[r] = "serve", Inside(r)', NEW rows \in Seq(Reqs \X Whats), Reserve(r, rows)
      PROVE  \A g \in Gates : /\ Len(queue'[g]) > 0 => ~queue'[g][1].resolved
                              /\ InOrder(queue'[g], g, at', gateOf)
  <2> DEFINE e == [req |-> r, rows |-> rows, resolved |-> FALSE]
  <2> TAKE g \in Gates
  <2>1. queue'[g] = IF g = h THEN Append(queue[h], e) ELSE queue[g]
    BY <1>0, <1>3, <1>9 DEF Reserve, GatesTyped
  <2>2. CASE g # h
    <3>1. PICK s : s = queue[g]
      OBVIOUS
    <3>2. queue'[g] = s /\ InOrder(s, g, at, gateOf) /\ (Len(s) > 0 => ~s[1].resolved)
      BY <1>2, <2>1, <2>2, <3>1
    <3>3. \A i \in 1..Len(s) : s[i].req \in Reqs /\ s[i].req # r
      BY <1>4, <1>9, <3>1, <3>2 DEF InOrder
    <3>4. InOrder(s, g, at', gateOf)
      BY <1>3, <3>2, <3>3 DEF InOrder
    <3> QED BY <3>2, <3>4
  <2>3. CASE g = h
    <3> DEFINE s == queue[h]
    <3>1. s \in Seq(Entries) /\ InOrder(s, h, at, gateOf) /\ (Len(s) > 0 => ~s[1].resolved)
          /\ \A i \in 1..Len(s) : s[i].req \in Reqs
      BY <1>2, <1>3, <1>4
    <3>2. e.req = r /\ ~e.resolved /\ e \in Entries
      BY DEF Entries
    <3> HIDE DEF e, s
    <3>3. Len(Append(s, e)) = Len(s) + 1
          /\ \A i \in 1..Len(s) + 1 : Append(s, e)[i] = IF i = Len(s) + 1 THEN e ELSE s[i]
      BY <3>1, <3>2
    <3>4. \A i \in 1..Len(s) : s[i].req # r
      BY <1>9, <3>1 DEF InOrder
    <3>5. InOrder(Append(s, e), h, at', gateOf)
      BY <1>3, <1>9, <3>1, <3>2, <3>3, <3>4 DEF InOrder, Inside, Places, Owning, Gated
    <3>6. ~Append(s, e)[1].resolved
      BY <3>1, <3>2, <3>3
    <3> QED BY <2>1, <2>3, <3>5, <3>6 DEF s
  <2> QED BY <2>2, <2>3
<1>10. CASE Inside(r) /\ ResolveAudit(r)
  <2> TAKE g \in Gates
  <2> DEFINE s == queue[h]
             m == Marked(r)
  <2>1. PICK k \in 0..Len(s) : Left(r, k)
    BY <1>0, <1>3, <1>10, ResolveLeaves
  <2>2. MarkOf(s, m, r)
        /\ (Reserved(r) => /\ Entry(r) \in 1..Len(s) /\ s[Entry(r)].req = r /\ m[Entry(r)].resolved)
    BY <1>0, <1>3, MarkedShape
  <2>3. queue'[g] = IF g = h THEN SubSeq(m, k + 1, Len(m)) ELSE queue[g]
    BY <1>0, <1>3, <2>1 DEF Left, GatesTyped
  <2>4. k < Len(m) => ~m[k + 1].resolved
    BY <2>1 DEF Left
  <2>5. CASE g # h
    BY <1>2, <1>3, <1>4, <2>3, <2>5 DEF InOrder
  <2>6. CASE g = h
    <3>1. s \in Seq(Entries) /\ InOrder(s, h, at, gateOf)
          /\ \A i \in 1..Len(s) : s[i].req \in Reqs
      BY <1>2, <1>3, <1>4
    <3>2. Reserved(r) <=> \E i \in 1..Len(s) : s[i].req = r
      BY <3>1 DEF Reserved
    <3> HIDE DEF s, m
    <3>3. m \in Seq(Entries) /\ Len(m) = Len(s)
          /\ \A i \in 1..Len(s) : /\ m[i].req = s[i].req
                                  /\ m[i].resolved = s[i].resolved \/ (m[i].resolved /\ s[i].req = r)
                                  /\ s[i].req = r => m[i].resolved
      BY <2>2, <3>1, <3>2 DEF MarkOf, InOrder
    <3> DEFINE t == SubSeq(m, k + 1, Len(m))
    <3>4. t \in Seq(Entries) /\ Len(t) = Len(m) - k /\ \A i \in 1..Len(t) : t[i] = m[i + k]
      BY <3>3, <2>1, SubSeqProperties
    <3> HIDE DEF t
    <3>5. \A i \in 1..Len(t) : i + k \in 1..Len(s)
      BY <3>3, <3>4, <2>1
    <3>6. Len(t) > 0 => ~t[1].resolved
      BY <2>1, <2>4, <3>3, <3>4
    <3>7. InOrder(m, h, at', gateOf)
      BY <1>3, <1>10, <3>1, <3>3 DEF InOrder, Places, Owning, Gated, Inside
    <3>8. InOrder(t, h, at', gateOf)
      <4> SUFFICES ASSUME NEW i \in 1..Len(t)
                   PROVE  /\ gateOf[t[i].req] = h
                          /\ at'[t[i].req] \in Places \ {"idle", "auth", "admitted", "serve"}
                          /\ ~t[i].resolved => at'[t[i].req] \in Gated
                          /\ \A j \in 1..Len(t) : t[j].req = t[i].req => i = j
        BY DEF InOrder
      <4>1. \A j \in 1..Len(t) : t[j] = m[j + k] /\ j + k \in 1..Len(m)
        BY <3>3, <3>4, <3>5
      <4>2. \A x, y \in 1..Len(m) : m[x].req = m[y].req => x = y
        BY <3>7 DEF InOrder
      <4>3. \A j \in 1..Len(t) : t[j].req = t[i].req => i = j
        <5> TAKE j \in 1..Len(t)
        <5>1. t[j].req = t[i].req => j + k = i + k
          BY <4>1, <4>2
        <5> QED BY <2>1, <3>4, <5>1
      <4> QED BY <3>7, <4>1, <4>3 DEF InOrder
    <3> QED BY <2>3, <2>6, <3>6, <3>8 DEF t
  <2> QED BY <2>5, <2>6
<1> QED BY <1>7, <1>8, <1>9, <1>10, HandleQueues

LEMMA ServeLeft ==
  ASSUME Typed, LeftInv, NEW r \in Reqs, Serve(r)
  PROVE  LeftInv'
<1>1. Moves(r) /\ UNCHANGED <<hosted, sessions, exposed, authInflight, inflight, gateOf>>
  BY HandleMoves DEF Serve, tableVars, slotVars, Moves
<1>2. /\ \A q \in Reqs : q # r => at'[q] = at[q]
      /\ at[r] \in Owning /\ at'[r] \in Gated \cup {"returned"}
  BY <1>1 DEF Typed, RequestsTyped, Moves, Owning
<1>3. QueuesOwned'
  BY ServeQueues DEF Serve, LeftInv
<1>4. SlotsHeld'
  BY <1>1, <1>2 DEF LeftInv, SlotsHeld, Active, Owning, Gated
<1>5. SessionsKept'
  BY <1>1, <1>2 DEF LeftInv, SessionsKept, Owns, Owning
<1>6. Bare'
  BY <1>1, <1>2 DEF LeftInv, Bare, Gated
<1> QED BY <1>3, <1>4, <1>5, <1>6 DEF LeftInv

\* A request outside the gates has no sequence that still holds one back.
LEMMA QueuesKept ==
  ASSUME GatesTyped, QueuesOwned, NEW r \in Reqs, queue' = queue,
         \A q \in Reqs : q # r => at'[q] = at[q] /\ gateOf'[q] = gateOf[q],
         at[r] \in {"idle", "auth", "admitted", "serve"}
           \/ (at[r] \in {"returned", "flushing"} /\ at'[r] \in {"flushing", "done"}
               /\ gateOf'[r] = gateOf[r])
  PROVE  QueuesOwned'
<1>1. \A g \in Gates : \A i \in 1..Len(queue[g]) : queue[g][i].req \in Reqs
  <2> TAKE g \in Gates
  <2>1. queue[g] \in Seq(Entries)
    BY DEF GatesTyped
  <2>2. \A i \in 1..Len(queue[g]) : queue[g][i] \in Entries
    BY <2>1
  <2> QED BY <2>2 DEF Entries
<1>2. \A g \in Gates : /\ Len(queue[g]) > 0 => ~queue[g][1].resolved
                       /\ InOrder(queue[g], g, at, gateOf)
  BY QueuesInOrder
<1>3. \A g \in Gates : InOrder(queue[g], g, at', gateOf')
  BY <1>1, <1>2 DEF InOrder, Places, Owning, Gated
<1>4. \A g \in Gates : DOMAIN queue[g] = 1..Len(queue[g]) /\ (queue[g] # <<>> => Len(queue[g]) > 0)
  BY DEF GatesTyped
<1> QED BY <1>2, <1>3, <1>4 DEF QueuesOwned, InOrder, Inside

LEMMA AdmitLeft ==
  ASSUME Typed, LeftInv, NEW r \in Reqs, Arrive(r) \/ Authenticate(r) \/ Malformed(r)
  PROVE  LeftInv'
<1>0. RequestsTyped /\ GatesTyped
  BY DEF Typed
<1>1. UNCHANGED <<hosted, sessions, exposed, queue>>
  BY DEF Arrive, Authenticate, Malformed, tableVars, gateVars
<1>2. at[r] \in {"idle", "auth", "admitted"}
  BY DEF Arrive, Authenticate, Malformed
<1>3. /\ \A q \in Reqs : q # r => at'[q] = at[q] /\ gateOf'[q] = gateOf[q]
      /\ at'[r] \in {"auth", "admitted", "done", "serve"}
  BY <1>0 DEF Arrive, Authenticate, Malformed, RequestsTyped, Goto
<1>4. /\ authInflight' \subseteq authInflight \/ (at'[r] = "auth" /\ authInflight' = authInflight \cup {r})
      /\ r \in authInflight' => at'[r] = "auth"
      /\ inflight' \subseteq inflight \/ (at'[r] = "admitted" /\ inflight' = inflight \cup {r})
      /\ r \in inflight' => at'[r] \notin {"idle", "auth", "done"}
  <2>1. \A l : Goto(r, l) => at'[r] = l
    BY <1>0, Told
  <2>2. (r \in authInflight => at[r] = "auth") /\ (r \in inflight => at[r] = "admitted")
    BY <1>2 DEF LeftInv, SlotsHeld
  <2>3. CASE Arrive(r)
    BY <2>1, <2>2, <2>3 DEF Arrive
  <2>4. CASE Authenticate(r)
    BY <2>1, <2>2, <2>4 DEF Authenticate
  <2>5. CASE Malformed(r)
    BY <2>1, <2>2, <2>5 DEF Malformed
  <2> QED BY <2>3, <2>4, <2>5
<1>5. QueuesOwned'
  BY <1>0, <1>1, <1>2, <1>3, QueuesKept DEF LeftInv
<1>6. SlotsHeld'
  BY <1>3, <1>4 DEF LeftInv, SlotsHeld, Active
<1>7. SessionsKept'
  BY <1>1, <1>2, <1>3 DEF LeftInv, SessionsKept, Owns, Owning, Gated
<1>8. Bare'
  <2> SUFFICES ASSUME ~hosted
               PROVE  /\ DOMAIN sessions = {}
                      /\ \A q \in Reqs : at'[q] \notin {"auth", "admitted", "flushing"}
    BY <1>1 DEF Bare
  <2>1. at[r] \notin {"auth", "admitted"}
    BY DEF LeftInv, Bare
  <2>2. at'[r] = "serve"
    BY <1>0, <2>1 DEF Arrive, Authenticate, Malformed, RequestsTyped, Goto
  <2> QED BY <1>3, <2>2 DEF LeftInv, Bare
<1> QED BY <1>5, <1>6, <1>7, <1>8 DEF LeftInv

LEMMA AcquireLeft ==
  ASSUME Typed, LeftInv, NEW r \in Reqs, Acquire(r)
  PROVE  LeftInv'
<1>0. RequestsTyped /\ GatesTyped /\ TableTyped
  BY DEF Typed
<1>1. /\ at[r] = "admitted"
      /\ UNCHANGED <<hosted, exposed, queue, authInflight>>
  BY DEF Acquire, gateVars
<1>2. hosted
  BY <1>1 DEF LeftInv, Bare
<1>3. \/ at'[r] = "serve" /\ inflight' = inflight
      \/ at'[r] = "done" /\ inflight' = inflight \ {r}
  BY <1>0, Told DEF Acquire, AcquireNew, AcquireExisting, Refuse, Take
<1>4. \A q \in Reqs : q # r => at'[q] = at[q] /\ gateOf'[q] = gateOf[q]
  BY <1>0 DEF RequestsTyped, Acquire, AcquireNew, AcquireExisting, Refuse, Take, Goto
<1>5. QueuesOwned'
  BY <1>0, <1>1, <1>4, QueuesKept DEF LeftInv
<1>6. SlotsHeld'
  BY <1>1, <1>3, <1>4 DEF LeftInv, SlotsHeld, Active
<1>7. Bare'
  BY <1>1, <1>2 DEF Bare
<1>8. \A q \in Reqs : Owns(q) => q # r /\ Owns(q)' /\ gateOf'[q] = gateOf[q]
  BY <1>1, <1>4 DEF Owns, Owning, Gated
<1>9. \A g \in DOMAIN Swept : g \in DOMAIN sessions /\ Swept[g] = sessions[g]
  BY <1>0, SweptTyped
<1>10. \A g \in DOMAIN sessions' :
         \/ g \in DOMAIN sessions /\ sessions'[g] = sessions[g]
         \/ Owns(r)' /\ gateOf'[r] = g
  <2>1. ASSUME NEW a, Refuse(r, a, Swept)
        PROVE  \A g \in DOMAIN sessions' : g \in DOMAIN sessions /\ sessions'[g] = sessions[g]
    BY <1>9, <2>1 DEF Refuse
  <2>2. ASSUME NEW g, NEW table, Take(r, g, table),
               \A x \in DOMAIN table : x # g => x \in DOMAIN Swept /\ table[x] = Swept[x]
        PROVE  \A x \in DOMAIN sessions' : \/ x \in DOMAIN sessions /\ sessions'[x] = sessions[x]
                                           \/ Owns(r)' /\ gateOf'[r] = x
    <3>1. Owns(r)' /\ gateOf'[r] = g /\ sessions' = table
      BY <1>0, <2>2, Told DEF Take, Owns, Owning, RequestsTyped
    <3> QED BY <1>9, <2>2, <3>1
  <2>3. CASE AcquireNew(r)
    <3> DEFINE g == Cardinality(issued) + 1
               new == [busy |-> TRUE, age |-> 0, upstreamID |-> NoGate]
               table == Put(Swept, g, new)
    <3>1. \A x \in DOMAIN table : x # g => x \in DOMAIN Swept /\ table[x] = Swept[x]
      BY DEF Put
    <3>2. Refuse(r, "table full", Swept) \/ Take(r, g, table)
      BY <2>3 DEF AcquireNew
    <3> HIDE DEF g, table
    <3> QED BY <2>1, <2>2, <3>1, <3>2
  <2>4. CASE AcquireExisting(r, gateOf[r])
    <3> DEFINE g == gateOf[r]
               table == [Swept EXCEPT ![g].busy = TRUE]
    <3>1. \A x \in DOMAIN table : x # g => x \in DOMAIN Swept /\ table[x] = Swept[x]
      OBVIOUS
    <3>2. Refuse(r, "session not found", Swept) \/ Refuse(r, "session busy", Swept)
          \/ Take(r, g, table)
      BY <2>4 DEF AcquireExisting
    <3> HIDE DEF g, table
    <3> QED BY <2>1, <2>2, <3>1, <3>2
  <2> QED BY <2>3, <2>4 DEF Acquire
<1>11. SessionsKept'
  BY <1>1, <1>8, <1>10 DEF LeftInv, SessionsKept
<1> QED BY <1>5, <1>6, <1>7, <1>11 DEF LeftInv

LEMMA ReturnLeft ==
  ASSUME Typed, ReadyInv, LeftInv, NEW r \in Reqs, Return(r)
  PROVE  LeftInv'
<1>0. RequestsTyped /\ GatesTyped /\ TableTyped
  BY DEF Typed
<1>1. /\ at[r] = "returned"
      /\ UNCHANGED <<gateOf, hosted, queue, authInflight>>
  BY DEF Return, gateVars
<1>2. \A q \in Reqs : q # r => at'[q] = at[q]
  BY <1>0 DEF RequestsTyped, Return, Ready, Release, Gone, Goto
<1>3. \/ at'[r] = "flushing" /\ hosted /\ inflight' = inflight
      \/ at'[r] = "done" /\ inflight' = inflight \ {r}
  BY <1>0, Told DEF Return, Ready, Release, Gone
<1>4. QueuesOwned'
  BY <1>0, <1>1, <1>2, <1>3, QueuesKept DEF LeftInv
<1>5. SlotsHeld'
  BY <1>1, <1>2, <1>3 DEF LeftInv, SlotsHeld, Active
<1>6. \A q \in Reqs : q # r /\ Owns(q) => Owns(q)'
  BY <1>2 DEF Owns
<1>7. Bare' /\ SessionsKept'
  <2>1. CASE ~hosted
    <3>1. sessions' = sessions /\ DOMAIN sessions = {}
      BY <1>1, <2>1 DEF Return, tableVars, LeftInv, Bare
    <3>2. Bare'
      BY <1>1, <1>2, <1>3, <2>1, <3>1 DEF LeftInv, Bare
    <3> QED BY <3>1, <3>2 DEF SessionsKept
  <2>2. CASE hosted
    <3>1. Bare'
      BY <1>1, <2>2 DEF Bare
    <3>2. gateOf[r] \in DOMAIN sessions
      BY <1>1, <2>2 DEF ReadyInv, SessionsOwned, Owns, Owning
    <3>3. ASSUME NEW g \in DOMAIN sessions', sessions'[g].busy \/ g \notin exposed'
          PROVE  g # gateOf[r] /\ g \in DOMAIN sessions /\ (sessions[g].busy \/ g \notin exposed)
      <4>1. CASE Ready(r)
        BY <3>2, <3>3, <4>1 DEF Ready
      <4>2. CASE Release(r) /\ method[r] = "initialize"
        BY <3>2, <3>3, <4>2 DEF Release, Drop
      <4>3. CASE Release(r) /\ method[r] # "initialize"
        <5> DEFINE freed == [sessions[gateOf[r]] EXCEPT !.busy = FALSE, !.age = 0]
        <5>1. sessions' = [sessions EXCEPT ![gateOf[r]] = freed] /\ exposed' = exposed
          BY <3>2, <4>3 DEF Release
        <5>2. ~freed.busy
          <6>1. sessions[gateOf[r]] \in [busy : BOOLEAN, age : Nat, upstreamID : Gates \cup {NoGate}]
            BY <1>0, <3>2 DEF TableTyped
          <6> QED BY <6>1
        <5> HIDE DEF freed
        <5>3. gateOf[r] \in exposed
          BY <1>1, <2>2, <4>3 DEF ReadyInv, NamesTold
        <5> QED BY <3>2, <3>3, <5>1, <5>2, <5>3
      <4> QED BY <2>2, <4>1, <4>2, <4>3 DEF Return
    <3>4. SessionsKept'
      BY <1>1, <1>6, <3>3 DEF LeftInv, SessionsKept
    <3> QED BY <3>1, <3>4
  <2> QED BY <2>1, <2>2
<1> QED BY <1>4, <1>5, <1>7 DEF LeftInv

LEMMA FlushedLeft ==
  ASSUME Typed, LeftInv, NEW r \in Reqs, Flushed(r)
  PROVE  LeftInv'
<1>0. RequestsTyped /\ GatesTyped
  BY DEF Typed
<1>1. /\ at[r] = "flushing" /\ Goto(r, "done") /\ inflight' = inflight \ {r}
      /\ UNCHANGED <<gateOf, hosted, queue, exposed, authInflight>>
  BY DEF Flushed, Gone, gateVars
<1>2. \A q \in Reqs : at'[q] = IF q = r THEN "done" ELSE at[q]
  BY <1>0, <1>1 DEF RequestsTyped, Goto
<1>3. DOMAIN sessions' = DOMAIN sessions
      /\ \A g \in DOMAIN sessions : sessions'[g].busy = sessions[g].busy
  BY DEF Flushed
<1>4. QueuesOwned'
  BY <1>0, <1>1, <1>2, QueuesKept DEF LeftInv
<1>5. SlotsHeld' /\ Bare'
  BY <1>1, <1>2, <1>3 DEF LeftInv, SlotsHeld, Active, Bare
<1>6. SessionsKept'
  BY <1>1, <1>2, <1>3 DEF LeftInv, SessionsKept, Owns, Owning, Gated
<1> QED BY <1>4, <1>5, <1>6 DEF LeftInv

LEMMA OthersLeft ==
  ASSUME Typed, LeftInv, Tick \/ Close \/ UNCHANGED vars
  PROVE  LeftInv'
<1>1. UNCHANGED <<at, gateOf, queue, hosted, exposed, authInflight, inflight>>
      /\ DOMAIN sessions' = DOMAIN sessions
      /\ \A g \in DOMAIN sessions : sessions'[g].busy = sessions[g].busy
  <2>1. CASE Tick
    BY <2>1, TickTyped DEF Tick, listenerVars, gateVars, slotVars
  <2>2. CASE Close \/ UNCHANGED vars
    BY <2>2 DEF Close, vars, gatewayVars, listenerVars, gateVars, tableVars, slotVars
  <2> QED BY <2>1, <2>2
<1>2. QueuesOwned' /\ SlotsHeld' /\ Bare'
  BY <1>1 DEF LeftInv, QueuesOwned, SlotsHeld, Bare, Inside, Active
<1>3. SessionsKept'
  BY <1>1 DEF LeftInv, SessionsKept, Owns
<1> QED BY <1>2, <1>3 DEF LeftInv

LEMMA InitLeft == Init => LeftInv
BY DEF Init, LeftInv, QueuesOwned, SlotsHeld, SessionsKept, Bare

LEMMA LeftStep ==
  ASSUME Typed, ReadyInv, LeftInv, [Next]_vars
  PROVE  LeftInv'
BY AdmitLeft, AcquireLeft, ServeLeft, ReturnLeft, FlushedLeft, OthersLeft DEF Next, Step

(***************************************************************************)
(* However a request ends (refused, denied, answered, unverified, its      *)
(* audit failed, its session ready), the deferred calls of httplisten.go   *)
(* and gateway.go leave nothing of it: no slot, no auditMu, no sequence    *)
(* that would hold back the rows after it, no busy session and none that   *)
(* no client knows of.                                                     *)
(***************************************************************************)
THEOREM NothingStaysBehind == Spec => []NothingLeftBehind
<1> DEFINE I == Typed /\ ReadyInv /\ LeftInv
<1>1. Init => I
  BY InitTyped, InitReady, InitLeft
<1>2. I /\ [Next]_vars => I'
  BY ReadyStep, LeftStep
<1>3. I => NothingLeftBehind
  <2> SUFFICES ASSUME I, \A r \in Reqs : ~Active(r)
               PROVE  /\ inflight = {} /\ authInflight = {}
                      /\ \A g \in Gates : auditMu[g] = {} /\ queue[g] = <<>>
                      /\ \A g \in DOMAIN sessions : ~sessions[g].busy /\ g \in exposed
    BY DEF NothingLeftBehind
  <2>1. \A r \in Reqs : ~Owns(r) /\ ~Inside(r) /\ at[r] \in {"idle", "done"}
    BY DEF Active, Owns, Inside, Owning, Gated
  <2>2. inflight = {} /\ authInflight = {}
    BY <2>1 DEF LeftInv, SlotsHeld
  <2>3. ASSUME NEW g \in Gates
        PROVE  auditMu[g] = {} /\ queue[g] = <<>>
    <3>1. auditMu[g] \subseteq Reqs /\ queue[g] \in Seq(Entries)
      BY DEF Typed, GatesTyped
    <3>2. auditMu[g] = {}
      BY <2>1, <3>1 DEF ReadyInv, MutexHeld
    <3>3. queue[g] # <<>> => 1 \in DOMAIN queue[g] /\ queue[g][1] \in Entries
      BY <3>1
    <3>4. queue[g] = <<>>
      BY <2>1, <3>3 DEF LeftInv, QueuesOwned, Entries
    <3> QED BY <3>2, <3>4
  <2>4. \A g \in DOMAIN sessions : ~sessions[g].busy /\ g \in exposed
    BY <2>1 DEF LeftInv, SessionsKept
  <2> QED BY <2>2, <2>3, <2>4
<1> QED BY <1>1, <1>2, <1>3, PTL DEF Spec

-----------------------------------------------------------------------------
\* Resolving the only sequence of a queue writes its rows, or the writer is
\* no longer open; then the queue is empty.
LEMMA ResolveOne ==
  ASSUME GatesTyped, NEW r \in Reqs, gateOf[r] \in Gates, ResolveAudit(r),
         \A i \in DOMAIN queue[gateOf[r]] : i = 1 /\ queue[gateOf[r]][1].req = r
  PROVE  /\ queue' = [queue EXCEPT ![gateOf[r]] = <<>>]
         /\ Pending(r) => Recorded(r, "allow")' \/ sink' # "open"
<1> DEFINE s == queue[gateOf[r]]
           m == Marked(r)
<1>1. s \in Seq(Entries)
  BY DEF GatesTyped
<1>2. PICK k \in 0..Len(s) : /\ Left(r, k)
                             /\ Write(FlattenSeq([i \in 1..k |-> m[i].rows]))
  BY ResolveLeaves
<1>3. /\ MarkOf(s, m, r)
      /\ Reserved(r) => Entry(r) \in 1..Len(s) /\ m[Entry(r)].resolved
  BY MarkedShape
<1>4. Len(s) = 0 \/ Len(s) = 1
  <2>1. DOMAIN s = 1..Len(s) /\ Len(s) \in Nat
    BY <1>1
  <2>2. ~(2 \in DOMAIN s)
    OBVIOUS
  <2> HIDE DEF s
  <2> QED BY <2>1, <2>2
<1>5. Len(m) = Len(s) /\ m \in Seq(Entries)
  BY <1>3 DEF MarkOf
<1>6. k = Len(s)
  <2>1. CASE Len(s) = 1
    <3>0. 1 \in DOMAIN s
      BY <1>1, <2>1
    <3>1. Reserved(r) /\ Entry(r) = 1
      BY <2>1, <3>0, <1>3 DEF Reserved
    <3> QED BY <1>2, <1>3, <1>5, <2>1, <3>1 DEF Left
  <2> QED BY <1>2, <1>4, <2>1
<1>7. queue' = [queue EXCEPT ![gateOf[r]] = <<>>]
  <2>1. SubSeq(m, k + 1, Len(m)) = <<>>
    BY <1>5, <1>6, SubSeqProperties
  <2> QED BY <1>2, <2>1 DEF Left
<1>8. ASSUME Pending(r)
      PROVE  Recorded(r, "allow")' \/ sink' # "open"
  <2>1. Len(s) = 1 /\ \E j \in DOMAIN s[1].rows : s[1].rows[j] = Row(r, "allow")
    BY <1>1, <1>4, <1>8 DEF Pending
  <2>2. m[1].rows = s[1].rows /\ m[1].rows \in Seq(Reqs \X Whats)
    <3>1. m[1] \in Entries
      BY <1>5, <2>1
    <3>2. m[1].rows = s[1].rows
      BY <1>3, <2>1 DEF MarkOf
    <3> QED BY <3>1, <3>2 DEF Entries
  <2> DEFINE rows == [i \in 1..k |-> m[i].rows]
  <2>3. rows[1] = m[1].rows /\ rows = <<rows[1]>>
    BY <1>6, <2>1
  <2> HIDE DEF rows
  <2>4. FlattenSeq(rows) = m[1].rows
    BY <2>3, FlattenOne
  <2>5. Write(m[1].rows)
    BY <1>2, <2>4 DEF rows
  <2>6. Len(m[1].rows) \in Nat /\ DOMAIN m[1].rows = 1..Len(m[1].rows)
    BY <2>2
  <2>7. sink' = "open" => \A i \in 1..Len(m[1].rows) : m[1].rows[i] \in trail'
    BY <2>5, <2>6, WriteGrows
  <2> QED BY <2>1, <2>2, <2>6, <2>7 DEF Recorded, Row
<1> QED BY <1>7, <1>8

\* Rows are never lost, so a step of another gate's request changes nothing.
LEMMA RecordKept ==
  ASSUME NEW q, OnRecord(q), trail \subseteq trail', sink' = sink \/ sink' # "open",
         method'[q] = method[q], at'[q] = at[q], answer'[q] = answer[q],
         q \in reached' => q \in reached,
         Inside(q) => gateOf'[q] = gateOf[q] /\ queue'[gateOf[q]] = queue[gateOf[q]]
  PROVE  OnRecord(q)'
<1>1. Pending(q) /\ Inside(q) => Pending(q)'
  BY DEF Pending
<1> QED BY <1>1 DEF OnRecord, Recorded, Row, Inside, Gated

\* The request that is served, along the listener's steps.
LEMMA HandleRecords ==
  ASSUME Typed, required, NEW r \in Reqs, Handle(r), OnRecord(r),
         Inside(r) => \A i \in DOMAIN queue[gateOf[r]] : i = 1 /\ queue[gateOf[r]][1].req = r
  PROVE  OnRecord(r)'
<1> USE DEF gateVars, trailVars
<1> DEFINE h == gateOf[r]
<1>0. RequestsTyped /\ GatesTyped
  BY DEF Typed
<1>1. Moves(r) /\ GatesTyped' /\ h \in Gates
  BY HandleMoves DEF Typed, RequestsTyped, Moves, Owns, Owning
<1> SUFFICES ASSUME method[r] = "tools/call"
             PROVE  /\ r \in reached' => Recorded(r, "dispatch")'
                    /\ answer'[r] = "result" => Recorded(r, "allow")'
                    /\ at'[r] \in {"approved", "cleared", "waiting", "answered"} =>
                         Pending(r)' \/ Recorded(r, "allow")' \/ sink' # "open"
                    /\ at'[r] = "settled" => Recorded(r, "allow")' \/ sink' # "open"
  BY <1>1 DEF Moves, OnRecord
<1>2. (Recorded(r, "allow") => Recorded(r, "allow")')
      /\ (Recorded(r, "dispatch") => Recorded(r, "dispatch")')
      /\ (sink # "open" => sink' # "open")
  BY <1>1 DEF Moves, Recorded, Row
<1>3. \A l, a : (Goto(r, l) => at'[r] = l) /\ (Tell(r, a) => answer'[r] = a)
  BY <1>0, Told
<1>4. CASE Enter(r)
  <2>1. at[r] = "serve" /\ reached' = reached
    BY <1>4 DEF Enter
  <2>2. CASE TurnAway(r, "gate busy") \/ TurnAway(r, "not forwarded")
    BY <1>2, <1>3, <2>1, <2>2 DEF TurnAway, OnRecord
  <2>3. CASE Decide(r) /\ answer' = answer
    <3>1. at'[r] \in {"rejected", "approved", "cleared"}
      BY <1>3, <2>3 DEF Decide
    <3>2. CASE at'[r] = "rejected"
      BY <1>2, <2>1, <2>3, <3>2 DEF OnRecord
    <3>3. CASE at'[r] # "rejected"
      <4>1. PICK rows \in Seq(Reqs \X Whats) :
              Reserve(r, rows) /\ \E j \in DOMAIN rows : rows[j] = Row(r, "allow")
        BY <2>1, <3>1, <3>3, HandleQueues DEF Inside, Gated
      <4> DEFINE e == [req |-> r, rows |-> rows, resolved |-> FALSE]
      <4>2. queue[h] \in Seq(Entries) /\ e \in Entries /\ e.req = r /\ e.rows = rows
        BY <1>0, <1>1 DEF GatesTyped, Entries
      <4>3. queue'[h] = Append(queue[h], e)
        BY <1>0, <1>1, <4>1 DEF Reserve, GatesTyped
      <4> HIDE DEF e
      <4>4. Len(queue[h]) + 1 \in DOMAIN queue'[h] /\ queue'[h][Len(queue[h]) + 1] = e
        BY <4>2, <4>3
      <4>6. gateOf'[r] = h
        BY <1>1 DEF Moves
      <4>7. e.req = r /\ \E j \in DOMAIN e.rows : e.rows[j] = Row(r, "allow")
        BY <4>1, <4>2
      <4>8. \E i \in DOMAIN queue'[h] :
              /\ queue'[h][i].req = r
              /\ \E j \in DOMAIN queue'[h][i].rows : queue'[h][i].rows[j] = Row(r, "allow")
        BY <4>4, <4>7
      <4>5. Pending(r)'
        BY <4>6, <4>8 DEF Pending, Row
      <4> QED BY <1>2, <2>1, <2>3, <3>1, <4>5 DEF OnRecord
    <3> QED BY <3>2, <3>3
  <2> QED BY <1>4, <2>2, <2>3 DEF Enter
<1>5. CASE Approved(r) \/ Resolve(r) \/ Leave(r)
  <2>1. ResolveAudit(r) /\ Inside(r) /\ answer' = answer /\ reached' = reached
    BY <1>5 DEF Approved, Resolve, Leave, Inside, Gated
  <2>2. Pending(r) => Recorded(r, "allow")' \/ sink' # "open"
    BY <1>0, <1>1, <2>1, ResolveOne
  <2>3. \/ at[r] = "approved" /\ at'[r] = "cleared"
        \/ at[r] = "failed" /\ at'[r] = "lost"
        \/ at[r] = "answered" /\ at'[r] = "settled"
        \/ at[r] = "leaving" /\ at'[r] = "returned"
    BY <1>3, <1>5 DEF Approved, Resolve, Leave
  <2> QED BY <1>2, <2>1, <2>2, <2>3 DEF OnRecord
<1>6. CASE Reject(r)
  BY <1>2, <1>3, <1>6 DEF Reject, OnRecord
<1>7. CASE Dispatch(r)
  <2>1. at[r] = "cleared" /\ queue' = queue /\ gateOf' = gateOf /\ Write(<<Row(r, "dispatch")>>)
    BY <1>7 DEF Dispatch
  <2>2. Pending(r) => Pending(r)'
    BY <2>1 DEF Pending, Row
  <2>3. sink' = "open" => Recorded(r, "dispatch")'
    <3> DEFINE rows == <<Row(r, "dispatch")>>
    <3>1. Len(rows) = 1 /\ rows[1] = Row(r, "dispatch") /\ Write(rows)
      BY <2>1
    <3> HIDE DEF rows
    <3>2. sink' = "open" => rows[1] \in trail'
      BY <3>1, WriteGrows
    <3> QED BY <3>1, <3>2 DEF Recorded, Row
  <2>4. CASE sink' # "open"
    <3>1. answer'[r] = "not forwarded" /\ at'[r] = "leaving" /\ reached' = reached
      BY <1>3, <1>7, <2>4 DEF Dispatch
    <3> QED BY <1>2, <3>1 DEF OnRecord
  <2>5. CASE sink' = "open"
    <3>1. answer' = answer /\ at'[r] = "waiting"
      BY <1>3, <1>7, <2>5 DEF Dispatch, Forward
    <3> QED BY <1>2, <2>1, <2>2, <2>3, <2>5, <3>1 DEF OnRecord
  <2> QED BY <2>4, <2>5
<1>8. CASE Hear(r)
  <2>1. at[r] = "waiting" /\ UNCHANGED <<answer, reached, gateOf, trail, sink>>
    BY <1>8 DEF Hear
  <2>2. queue' = queue /\ at'[r] \in {"failed", "answered"}
    BY <1>3, <1>8 DEF Hear, Unreachable, Unverified, NoDiscovery, Discovery, ToolResult, Relay
  <2>3. Pending(r) => Pending(r)'
    BY <2>1, <2>2 DEF Pending, Row
  <2> QED BY <1>2, <2>1, <2>2, <2>3 DEF OnRecord
<1>9. CASE Publish(r)
  <2>1. at'[r] = "leaving" /\ reached' = reached
    BY <1>3, <1>9 DEF Publish
  <2>2. answer'[r] = "result" => at[r] = "settled" /\ sink = "open"
    BY <1>3, <1>9 DEF Publish, AuditError
  <2> QED BY <1>2, <2>1, <2>2 DEF OnRecord
<1> QED BY <1>4, <1>5, <1>6, <1>7, <1>8, <1>9 DEF Handle

LEMMA ServeRecord ==
  ASSUME Typed, ReadyInv, RecordInv, NEW r \in Reqs, Serve(r)
  PROVE  RecordInv'
<1> DEFINE h == gateOf[r]
<1>0. RequestsTyped /\ GatesTyped
  BY DEF Typed
<1>1. Moves(r) /\ GatesTyped' /\ Handle(r)
  BY HandleMoves DEF Serve
<1>2. h \in Gates /\ UNCHANGED <<required, method, gateOf>>
  BY <1>0, <1>1 DEF RequestsTyped, Moves, Owns, Owning
<1>3. \A q \in Reqs : q # r => at'[q] = at[q] /\ answer'[q] = answer[q]
  BY <1>0, <1>1 DEF RequestsTyped, Moves
<1>4. \A q \in Reqs : at'[q] = "idle" => answer'[q] = "none"
  <2>1. at'[r] # "idle"
    BY <1>1 DEF Moves, Gated
  <2> QED BY <1>3, <2>1 DEF RecordInv
<1>5. SUFFICES ASSUME required
               PROVE  /\ \A g \in Gates : \A i \in DOMAIN queue'[g] :
                           i = 1 /\ queue'[g][1].req \in auditMu'[g]
                      /\ \A q \in Reqs : OnRecord(q)'
  BY <1>2, <1>4 DEF RecordInv
<1>6. /\ \A g \in Gates : \A i \in DOMAIN queue[g] : i = 1 /\ queue[g][1].req \in auditMu[g]
      /\ \A q \in Reqs : OnRecord(q)
  BY <1>5 DEF RecordInv
<1>7. \A q \in Reqs : Inside(q) => auditMu[gateOf[q]] = {q}
  BY <1>5 DEF ReadyInv, MutexHeld
<1>8. queue \in [Gates -> Seq(Entries)] /\ auditMu \in [Gates -> SUBSET Reqs]
  BY <1>0 DEF GatesTyped
<1>9. ~(at[r] = "serve" /\ Inside(r)) /\ ~(at'[r] = "returned" /\ Inside(r)')
  BY DEF Inside, Gated
<1>10. \A g \in Gates : g # h => queue'[g] = queue[g] /\ auditMu'[g] = auditMu[g]
  <2>1. \A g \in Gates : g # h => auditMu'[g] = auditMu[g]
    BY <1>1, <1>2, <1>8, HandleLocks
  <2>2. \/ queue' = queue
        \/ \E rows : queue' = [queue EXCEPT ![h] = rows]
    <3>1. Inside(r) /\ ResolveAudit(r) => \E rows : queue' = [queue EXCEPT ![h] = rows]
      BY DEF ResolveAudit
    <3>2. ASSUME queue' = [queue EXCEPT ![h][Entry(r)].rows = Append(@, Row(r, "hide"))]
          PROVE  \E rows : queue' = [queue EXCEPT ![h] = rows]
      BY <3>2
    <3> QED BY <1>1, <3>1, <3>2, HandleQueues DEF Reserve
  <2> QED BY <1>8, <2>1, <2>2
<1>11. /\ \A i \in DOMAIN queue'[h] : i = 1 /\ queue'[h][1].req \in auditMu'[h]
       /\ queue' = queue \/ auditMu[h] \subseteq {r}
  <2>1. CASE queue' = queue /\ ((Inside(r) /\ Inside(r)') \/ (at[r] = "serve" /\ at'[r] = "returned"))
    <3>1. auditMu' = auditMu
      BY <1>1, <1>9, <2>1, HandleLocks
    <3> QED BY <1>2, <1>6, <2>1, <3>1
  <2>2. CASE /\ at[r] = "waiting" /\ Inside(r)'
             /\ queue' = [queue EXCEPT ![h][Entry(r)].rows = Append(@, Row(r, "hide"))]
    <3>1. Inside(r)
      BY <2>2 DEF Inside, Gated
    <3>2. auditMu' = auditMu /\ auditMu[h] = {r}
      BY <1>1, <1>7, <1>9, <2>2, <3>1, HandleLocks
    <3>3. /\ Len(queue'[h]) = Len(queue[h])
          /\ \A i \in 1..Len(queue[h]) : queue'[h][i].req = queue[h][i].req
          /\ queue'[h] \in Seq(Entries) /\ queue[h] \in Seq(Entries)
      BY <1>0, <1>2, <1>8, <2>2, HideTyped
    <3>4. DOMAIN queue'[h] = DOMAIN queue[h] /\ DOMAIN queue[h] = 1..Len(queue[h])
      BY <3>3
    <3> QED BY <1>2, <1>6, <3>2, <3>3, <3>4
  <2>3. CASE at[r] = "serve" /\ Inside(r)' /\ \E rows \in Seq(Reqs \X Whats) : Reserve(r, rows)
    <3>1. auditMu[h] = {} /\ auditMu'[h] = {r}
      BY <1>1, <1>2, <1>5, <1>8, <1>9, <2>3, HandleLocks
    <3>2. DOMAIN queue[h] = {}
      BY <1>2, <1>6, <3>1
    <3>3. queue[h] = <<>>
      <4>1. queue[h] \in Seq(Entries)
        BY <1>2, <1>8
      <4> HIDE DEF h
      <4>2. DOMAIN queue[h] = 1..Len(queue[h]) /\ Len(queue[h]) \in Nat
        BY <4>1
      <4>4. ~(1 \in 1..Len(queue[h]))
        BY <3>2, <4>2
      <4>3. Len(queue[h]) = 0
        BY <4>2, <4>4
      <4> QED BY <4>1, <4>3
    <3>4. PICK rows : queue'[h] = Append(<<>>, [req |-> r, rows |-> rows, resolved |-> FALSE])
      <4>1. PICK rows : queue' = [queue EXCEPT ![gateOf[r]] =
                                     Append(@, [req |-> r, rows |-> rows, resolved |-> FALSE])]
        BY <2>3 DEF Reserve
      <4>2. gateOf[r] \in DOMAIN queue
        BY <1>2, <1>8
      <4>3. queue'[h] = Append(queue[h], [req |-> r, rows |-> rows, resolved |-> FALSE])
        BY <4>1, <4>2
      <4> QED BY <3>3, <4>3
    <3>5. DOMAIN queue'[h] = {1} /\ queue'[h][1].req = r
      BY <3>4
    <3> QED BY <3>1, <3>5
  <2>4. CASE Inside(r) /\ ResolveAudit(r)
    <3>1. auditMu[h] = {r}
      BY <1>7, <2>4
    <3>2. queue' = [queue EXCEPT ![h] = <<>>]
      BY <1>0, <1>2, <1>6, <2>4, <3>1, ResolveOne
    <3>3. DOMAIN queue'[h] = {}
      BY <1>2, <1>8, <3>2
    <3> QED BY <3>1, <3>3
  <2> QED BY <1>1, <2>1, <2>2, <2>3, <2>4, HandleQueues
<1>12. \A g \in Gates : \A i \in DOMAIN queue'[g] : i = 1 /\ queue'[g][1].req \in auditMu'[g]
  BY <1>6, <1>10, <1>11
<1>13. ASSUME NEW q \in Reqs
       PROVE  OnRecord(q)'
  <2>1. CASE q = r
    <3>1. Inside(r) => \A i \in DOMAIN queue[h] : i = 1 /\ queue[h][1].req = r
      BY <1>2, <1>6, <1>7
    <3> QED BY <1>1, <1>5, <1>6, <2>1, <3>1, HandleRecords
  <2>2. CASE q # r
    <3>1. /\ trail \subseteq trail' /\ (sink' = sink \/ sink' # "open")
          /\ (q \in reached' => q \in reached)
      BY <1>1, <2>2 DEF Moves
    <3>2. Inside(q) => queue'[gateOf[q]] = queue[gateOf[q]]
      <4>1. SUFFICES ASSUME Inside(q) PROVE queue'[gateOf[q]] = queue[gateOf[q]]
        OBVIOUS
      <4>2. gateOf[q] \in Gates /\ auditMu[gateOf[q]] = {q}
        BY <1>0, <1>7, <4>1 DEF RequestsTyped, Inside, Owns, Owning
      <4> QED BY <1>10, <1>11, <2>2, <4>2
    <3> QED BY <1>2, <1>3, <1>6, <2>2, <3>1, <3>2, RecordKept
  <2> QED BY <2>1, <2>2
<1> QED BY <1>12, <1>13

\* Outside the listener no row is written, and no result told.
LEMMA OthersRecord ==
  ASSUME Typed, RecordInv, [Next]_vars, \A r \in Reqs : ~Serve(r)
  PROVE  RecordInv'
<1>0. RequestsTyped
  BY DEF Typed
<1>1. /\ UNCHANGED <<required, auditMu, queue, trail, reached>>
      /\ sink' = sink \/ sink' = "closed"
  BY DEF Next, Step, Arrive, Authenticate, Acquire, Malformed, Return, Flushed, Tick, Close, vars,
         listenerVars, gatewayVars, gateVars, trailVars
<1>2. ASSUME NEW q \in Reqs
      PROVE  /\ answer'[q] = "result" => answer[q] = "result"
             /\ method'[q] = method[q] \/ at[q] = "idle"
             /\ at'[q] = at[q] \/ at'[q] \notin Gated \cup {"idle"}
             /\ Inside(q) => gateOf'[q] = gateOf[q]
             /\ at'[q] = "idle" => answer'[q] = answer[q]
  <2>1. ASSUME NEW r \in Reqs, Arrive(r) \/ Authenticate(r) \/ Acquire(r) \/ Malformed(r)
        PROVE  /\ \E l \in {"auth", "admitted", "done", "serve"} : Goto(r, l)
               /\ \/ answer' = answer
                  \/ \E a \in {"gateway busy", "unauthenticated", "bad request", "session not found",
                               "session busy", "table full"} : Tell(r, a)
               /\ method' = method \/ (at[r] = "idle" /\ \E m : method' = [method EXCEPT ![r] = m])
               /\ gateOf' = gateOf \/ \E g : gateOf' = [gateOf EXCEPT ![r] = g]
               /\ at[r] \in {"idle", "auth", "admitted"}
    <3>1. CASE Arrive(r)
      BY <3>1 DEF Arrive
    <3>2. CASE Authenticate(r) \/ Malformed(r)
      BY <3>2 DEF Authenticate, Malformed
    <3>3. CASE Acquire(r)
      BY <3>3 DEF Acquire, AcquireNew, AcquireExisting, Refuse, Take
    <3> QED BY <2>1, <3>1, <3>2, <3>3
  <2>2. ASSUME NEW r \in Reqs, Return(r) \/ Flushed(r)
        PROVE  /\ \E l \in {"flushing", "done"} : Goto(r, l)
               /\ UNCHANGED <<answer, method, gateOf>>
    BY <2>2 DEF Return, Flushed, Ready, Release, Gone
  <2>3. ASSUME NEW r \in Reqs, Arrive(r) \/ Authenticate(r) \/ Acquire(r) \/ Malformed(r)
        PROVE  /\ answer'[q] = "result" => answer[q] = "result"
               /\ method'[q] = method[q] \/ at[q] = "idle"
               /\ at'[q] = at[q] \/ at'[q] \notin Gated \cup {"idle"}
               /\ Inside(q) => gateOf'[q] = gateOf[q]
               /\ at'[q] = "idle" => answer'[q] = answer[q]
    BY <1>0, <2>1, <2>3 DEF RequestsTyped, Goto, Tell, Inside, Gated
  <2>4. ASSUME NEW r \in Reqs, Return(r) \/ Flushed(r)
        PROVE  /\ UNCHANGED <<answer, method, gateOf>>
               /\ at'[q] = at[q] \/ at'[q] \notin Gated \cup {"idle"}
    BY <1>0, <2>2, <2>4 DEF RequestsTyped, Goto, Gated
  <2>5. CASE Tick \/ Close \/ UNCHANGED vars
    BY <2>5 DEF Tick, Close, vars, listenerVars
  <2> QED BY <2>3, <2>4, <2>5 DEF Next, Step
<1>3. ASSUME required, NEW q \in Reqs
      PROVE  OnRecord(q)'
  <2>1. OnRecord(q)
    BY <1>3 DEF RecordInv
  <2>2. at[q] = "idle" => q \notin reached /\ answer[q] # "result"
    BY <1>0 DEF RequestsTyped, Reached, RecordInv
  <2>3. at[q] = "idle" => at'[q] = "idle" \/ at'[q] \notin Gated
    BY <1>2
  <2>4. Pending(q) /\ Inside(q) => Pending(q)'
    BY <1>1, <1>2 DEF Pending, Row
  <2> QED BY <1>1, <1>2, <2>1, <2>2, <2>3, <2>4 DEF OnRecord, Recorded, Row, Inside, Gated
<1> QED BY <1>1, <1>2, <1>3 DEF RecordInv

LEMMA InitRecord == Init => RecordInv
BY DEF Init, RecordInv, OnRecord

LEMMA RecordStep ==
  ASSUME Typed, ReadyInv, RecordInv, [Next]_vars
  PROVE  RecordInv'
BY ServeRecord, OthersRecord

(***************************************************************************)
(* A gate that requires audit lets nothing happen off the record: a tool   *)
(* call that reached the upstream has its dispatch row in the trail, and   *)
(* one whose result reached the client has the row that allowed it,        *)
(* whenever the writer failed (dispatch and the second look at auditError  *)
(* in httplisten.go).                                                      *)
(***************************************************************************)
THEOREM NothingHappensOffRecord == Spec => []NothingOffRecord
<1> DEFINE I == Typed /\ ReadyInv /\ RecordInv
<1>1. Init => I
  BY InitTyped, InitReady, InitRecord
<1>2. I /\ [Next]_vars => I'
  BY ReadyStep, RecordStep
<1>3. I => NothingOffRecord
  BY DEF RecordInv, OnRecord, NothingOffRecord
<1> QED BY <1>1, <1>2, <1>3, PTL DEF Spec

-----------------------------------------------------------------------------
\* Idle times are counted up to the TTL, in the table and for its client.
LEMMA OlderGrows ==
  /\ \A a \in Nat : a <= TTL => Older(a) \in Nat /\ Older(a) <= TTL
  /\ \A a, b \in Nat : a <= b => Older(a) <= Older(b)
  /\ \A a \in Nat : a >= TTL => Older(a) >= TTL
  /\ Older(0) = 1
BY GatewayAssumption DEF Older

\* What AgesInv says of a session, and of a request that flushes its result.
Fresh(g) ==
  IF g \in DOMAIN sessions THEN sessions[g].busy \/ sessions[g].age <= since[g]
                           ELSE since[g] >= TTL

Used(r) ==
  /\ gateOf[r] \in DOMAIN sessions \cap exposed
  /\ \/ sessions[gateOf[r]].busy
     \/ sessions[gateOf[r]].age = 0
     \/ sessions[gateOf[r]].age = 1 /\ r \in old

LEMMA AgesAre ==
  /\ AgesInv <=> /\ \A g \in Gates : since[g] <= TTL
                 /\ \A g \in exposed : Fresh(g)
                 /\ \A r \in Reqs : at[r] = "flushing" => Used(r)
  /\ AgesInv' <=> /\ \A g \in Gates : since'[g] <= TTL
                  /\ \A g \in exposed' : Fresh(g)'
                  /\ \A r \in Reqs : at'[r] = "flushing" => Used(r)'
BY DEF AgesInv, Fresh, Used

\* The listener and the doors of the gateway leave the idle times alone.
LEMMA PassAges ==
  ASSUME Typed, AgesInv, NEW r \in Reqs,
         Serve(r) \/ Arrive(r) \/ Authenticate(r) \/ Malformed(r)
  PROVE  AgesInv'
<1>0. RequestsTyped
  BY DEF Typed
<1>1. UNCHANGED <<sessions, exposed, since>>
  BY DEF Serve, Arrive, Authenticate, Malformed, tableVars
<1>2. old' = old \/ old' = old \ {r}
  BY DEF Serve, Arrive, Authenticate, Malformed
<1>3. /\ \A q \in Reqs : q # r => at'[q] = at[q] /\ gateOf'[q] = gateOf[q]
      /\ at'[r] # "flushing"
  <2>1. CASE Serve(r)
    BY <1>0, <2>1, HandleMoves DEF Serve, Moves, RequestsTyped, Gated
  <2>2. CASE Arrive(r) \/ Authenticate(r) \/ Malformed(r)
    BY <1>0, <2>2 DEF Arrive, Authenticate, Malformed, RequestsTyped, Goto
  <2> QED BY <2>1, <2>2
<1>4. \A g \in exposed : Fresh(g)'
  BY <1>1, AgesAre DEF Fresh
<1>5. \A q \in Reqs : at'[q] = "flushing" => Used(q)'
  BY <1>1, <1>2, <1>3, AgesAre DEF Used
<1> QED BY <1>1, <1>4, <1>5, AgesAre

LEMMA AcquireAges ==
  ASSUME Typed, ReadyInv, LeftInv, AgesInv, NEW r \in Reqs, Acquire(r)
  PROVE  AgesInv'
<1>0. RequestsTyped /\ TableTyped
  BY DEF Typed
<1>1. at[r] = "admitted" /\ UNCHANGED <<hosted, exposed, since, method>> /\ hosted
  BY DEF Acquire, LeftInv, Bare
<1>2. \A q \in Reqs : q # r => at'[q] = at[q] /\ gateOf'[q] = gateOf[q]
  BY <1>0 DEF RequestsTyped, Acquire, AcquireNew, AcquireExisting, Refuse, Take, Goto
<1>3. at'[r] \in {"done", "serve"} /\ (old' = old \/ old' = old \ {r})
  BY <1>0, Told DEF Acquire, AcquireNew, AcquireExisting, Refuse, Take
\* What becomes of a session that clients know.
<1>4. \A g \in exposed :
        \/ g \in DOMAIN sessions' /\ sessions'[g].busy
        \/ g \in DOMAIN sessions /\ g \in DOMAIN sessions' /\ sessions'[g] = sessions[g]
        \/ g \notin DOMAIN sessions'
           /\ (g \notin DOMAIN sessions \/ ~(sessions[g].busy \/ sessions[g].age < TTL))
  <2>1. /\ DOMAIN Swept = {g \in DOMAIN sessions : sessions[g].busy \/ sessions[g].age < TTL}
        /\ \A g \in DOMAIN Swept : Swept[g] = sessions[g]
    BY <1>0, SweptTyped
  <2>2. CASE sessions' = Swept
    BY <2>1, <2>2
  <2>3. CASE AcquireNew(r) /\ sessions' # Swept
    <3> DEFINE n == Cardinality(issued) + 1
               new == [busy |-> TRUE, age |-> 0, upstreamID |-> NoGate]
    <3>1. sessions' = Put(Swept, n, new)
      BY <2>3 DEF AcquireNew, Refuse, Take
    <3>2. n \notin exposed
      <4>1. n \notin issued
        BY DEF ReadyInv, IdsCounted
      <4> HIDE DEF n
      <4> QED BY <1>0, <4>1 DEF TableTyped
    <3> HIDE DEF n
    <3> QED BY <2>1, <3>1, <3>2 DEF Put
  <2>4. CASE AcquireExisting(r, gateOf[r]) /\ sessions' # Swept
    <3> DEFINE g == gateOf[r]
               e == [sessions[g] EXCEPT !.busy = TRUE]
    <3>1. g \in DOMAIN Swept /\ sessions' = [Swept EXCEPT ![g].busy = TRUE]
      BY <2>4 DEF AcquireExisting, Refuse, Take
    <3>2. sessions' = [Swept EXCEPT ![g] = e]
      BY <2>1, <3>1
    <3>3. e.busy
      <4>1. sessions[g] \in [busy : BOOLEAN, age : Nat, upstreamID : Gates \cup {NoGate}]
        BY <1>0, <2>1, <3>1 DEF TableTyped
      <4> QED BY <4>1
    <3> HIDE DEF e, g
    <3> QED BY <2>1, <3>1, <3>2, <3>3
  <2> QED BY <2>2, <2>3, <2>4 DEF Acquire
<1>5. \A g \in exposed : since[g] \in Nat /\ Fresh(g)
      /\ (g \in DOMAIN sessions => sessions[g].age \in Nat)
  BY <1>0, AgesAre DEF TableTyped
<1>6. \A g \in exposed : Fresh(g)'
  BY <1>1, <1>4, <1>5, GatewayAssumption DEF Fresh
<1>7. ASSUME NEW q \in Reqs, at'[q] = "flushing"
      PROVE  Used(q)'
  <2>1. q # r /\ at[q] = "flushing" /\ gateOf'[q] = gateOf[q] /\ Used(q)
    BY <1>2, <1>3, <1>7, AgesAre
  <2>2. ~(~sessions[gateOf[q]].busy /\ ~(sessions[gateOf[q]].age < TTL))
    BY <2>1, GatewayAssumption DEF Used
  <2> QED BY <1>1, <1>3, <1>4, <2>1, <2>2 DEF Used
<1> QED BY <1>1, <1>6, <1>7, AgesAre

LEMMA ReturnAges ==
  ASSUME Typed, ReadyInv, LeftInv, AgesInv, NEW r \in Reqs, Return(r)
  PROVE  AgesInv'
<1>0. RequestsTyped /\ TableTyped
  BY DEF Typed
<1> DEFINE h == gateOf[r]
<1>1. at[r] = "returned" /\ UNCHANGED <<gateOf, hosted, method>>
  BY DEF Return
<1>2. \A q \in Reqs : q # r => at'[q] = at[q]
  BY <1>0 DEF RequestsTyped, Return, Ready, Release, Gone, Goto
<1>3. h \in Gates /\ (hosted => h \in DOMAIN sessions)
  BY <1>0, <1>1 DEF RequestsTyped, Owns, Owning, ReadyInv, SessionsOwned
<1>4. \A g \in exposed : since[g] \in Nat /\ Fresh(g)
  BY <1>0, AgesAre DEF TableTyped
<1>5. hosted => (method[r] = "initialize" <=> h \notin exposed)
  BY <1>1 DEF ReadyInv, NamesTold, Owns, Owning
<1>6. CASE ~hosted
  <2>1. UNCHANGED <<sessions, exposed, since>> /\ Goto(r, "done") /\ old' = old \ {r}
    BY <1>6 DEF Return, Gone, tableVars
  <2>2. at'[r] = "done"
    BY <1>0, <2>1, Told
  <2>3. \A q \in Reqs : at'[q] = "flushing" => Used(q)'
    BY <1>1, <1>2, <2>1, <2>2, AgesAre DEF Used
  <2> QED BY <2>1, <2>3, AgesAre DEF Fresh
<1>7. CASE hosted /\ Ready(r) /\ method[r] = "initialize"
  <2>1. /\ sessions' = [sessions EXCEPT ![h] = [busy |-> FALSE, age |-> 0, upstreamID |-> h]]
        /\ exposed' = exposed \cup {h} /\ UNCHANGED <<old, since>>
    BY <1>7 DEF Ready
  <2>2. since[h] \in Nat
    BY <1>0, <1>3 DEF TableTyped
  <2>3. \A g \in exposed' : Fresh(g)'
    BY <1>3, <1>4, <1>7, <2>1, <2>2 DEF Fresh
  <2>4. \A q \in Reqs : at'[q] = "flushing" => Used(q)'
    <3>1. Used(r)'
      BY <1>1, <1>3, <1>7, <2>1 DEF Used
    <3>2. ASSUME NEW q \in Reqs, q # r, at'[q] = "flushing"
          PROVE  Used(q)'
      <4>1. Used(q)
        BY <1>2, <3>2, AgesAre
      <4> QED BY <1>1, <1>3, <1>7, <2>1, <4>1 DEF Used
    <3> QED BY <3>1, <3>2
  <2> QED BY <2>1, <2>3, <2>4, AgesAre
<1>8. CASE hosted /\ Release(r)
  <2> DEFINE freed == [sessions[h] EXCEPT !.busy = FALSE, !.age = 0]
  <2>1. /\ exposed' = exposed /\ since' = [since EXCEPT ![h] = 0] /\ old' = old \ {r}
        /\ at'[r] = "done"
    BY <1>0, <1>8, Told DEF Release, Gone
  <2>2. IF method[r] = "initialize" THEN sessions' = [x \in DOMAIN sessions \ {h} |-> sessions[x]]
                                    ELSE sessions' = [sessions EXCEPT ![h] = freed]
    BY <1>8 DEF Release, Drop
  <2>3. freed.age = 0
    <3>1. sessions[h] \in [busy : BOOLEAN, age : Nat, upstreamID : Gates \cup {NoGate}]
      BY <1>0, <1>3, <1>8 DEF TableTyped
    <3> QED BY <3>1
  <2> HIDE DEF freed
  <2>4. \A g \in Gates : since'[g] <= TTL
    BY <1>0, <1>3, <2>1, AgesAre, GatewayAssumption DEF TableTyped
  <2>5. \A g \in exposed : Fresh(g)'
    <3> TAKE g \in exposed
    <3>1. CASE g = h
      <4>1. sessions' = [sessions EXCEPT ![h] = freed] /\ since'[h] = 0
        BY <1>0, <1>3, <1>5, <1>8, <2>1, <2>2, <3>1 DEF TableTyped
      <4> QED BY <1>3, <1>8, <2>3, <3>1, <4>1 DEF Fresh
    <3>2. CASE g # h
      <4>1. /\ g \in DOMAIN sessions' <=> g \in DOMAIN sessions
            /\ g \in DOMAIN sessions => sessions'[g] = sessions[g]
            /\ since'[g] = since[g]
        BY <1>0, <2>1, <2>2, <3>2 DEF TableTyped
      <4> QED BY <1>4, <4>1 DEF Fresh
    <3> QED BY <3>1, <3>2
  <2>6. ASSUME NEW q \in Reqs, at'[q] = "flushing"
        PROVE  Used(q)'
    <3>1. q # r /\ Used(q)
      BY <1>2, <2>1, <2>6, AgesAre
    <3>2. CASE gateOf[q] = h
      <4>1. sessions' = [sessions EXCEPT ![h] = freed]
        BY <1>5, <1>8, <2>2, <3>1, <3>2 DEF Used
      <4> QED BY <1>1, <2>1, <2>3, <3>1, <3>2, <4>1 DEF Used
    <3>3. CASE gateOf[q] # h
      BY <1>1, <2>1, <2>2, <3>1, <3>3 DEF Used
    <3> QED BY <3>2, <3>3
  <2> QED BY <2>1, <2>4, <2>5, <2>6, AgesAre
<1> QED BY <1>6, <1>7, <1>8 DEF Return

LEMMA FlushedAges ==
  ASSUME Typed, AgesInv, NEW r \in Reqs, Flushed(r)
  PROVE  AgesInv'
<1>0. RequestsTyped /\ TableTyped
  BY DEF Typed
<1> DEFINE h == gateOf[r]
           fresh == [sessions[h] EXCEPT !.age = 0]
<1>1. /\ at[r] = "flushing" /\ at'[r] = "done" /\ UNCHANGED <<gateOf, exposed>>
      /\ since' = [since EXCEPT ![h] = 0] /\ old' = old \ {r}
  BY <1>0, Told DEF Flushed, Gone
<1>2. \A q \in Reqs : q # r => at'[q] = at[q]
  BY <1>0 DEF RequestsTyped, Flushed, Gone, Goto
<1>3. h \in Gates /\ h \in DOMAIN sessions
  BY <1>0, <1>1, AgesAre DEF RequestsTyped, Used
<1>4. fresh.age = 0 /\ fresh.busy = sessions[h].busy
  <2>1. sessions[h] \in [busy : BOOLEAN, age : Nat, upstreamID : Gates \cup {NoGate}]
    BY <1>0, <1>3 DEF TableTyped
  <2> QED BY <2>1
<1>5. sessions' = IF ~sessions[h].busy THEN [sessions EXCEPT ![h] = fresh] ELSE sessions
  BY <1>3 DEF Flushed
<1> HIDE DEF fresh, h
<1>6. \A g \in Gates : since'[g] <= TTL
  BY <1>0, <1>1, <1>3, AgesAre, GatewayAssumption DEF TableTyped
<1>7. ASSUME NEW g \in exposed
      PROVE  Fresh(g)'
  <2>1. Fresh(g) /\ g \in Gates
    BY <1>0, AgesAre DEF TableTyped
  <2>2. since'[g] = IF g = h THEN 0 ELSE since[g]
    BY <1>0, <1>1, <2>1 DEF TableTyped
  <2> QED BY <1>3, <1>4, <1>5, <2>1, <2>2 DEF Fresh
<1>8. ASSUME NEW q \in Reqs, at'[q] = "flushing"
      PROVE  Used(q)'
  <2>1. q # r /\ Used(q)
    BY <1>1, <1>2, <1>8, AgesAre
  <2> QED BY <1>1, <1>3, <1>4, <1>5, <2>1 DEF Used
<1> QED BY <1>1, <1>6, <1>7, <1>8, AgesAre

LEMMA TickAges ==
  ASSUME Typed, AgesInv, Tick
  PROVE  AgesInv'
<1>0. TableTyped
  BY DEF Typed
<1>1. /\ UNCHANGED <<at, gateOf, exposed>> /\ old = {} /\ old' = {r \in Reqs : Active(r)}
      /\ since' = [g \in Gates |-> Older(since[g])]
  BY DEF Tick, listenerVars
<1>2. /\ DOMAIN sessions' = DOMAIN sessions
      /\ \A g \in DOMAIN sessions : /\ sessions'[g].busy = sessions[g].busy
                                    /\ sessions'[g].age = Older(sessions[g].age)
  BY TickTyped
<1>3. \A g \in Gates : since[g] \in Nat /\ since[g] <= TTL
  BY <1>0, AgesAre DEF TableTyped
<1>4. \A g \in DOMAIN sessions : sessions[g].age \in Nat
  BY <1>0 DEF TableTyped
<1>5. \A g \in Gates : since'[g] <= TTL
  BY <1>1, <1>3, OlderGrows
<1>6. ASSUME NEW g \in exposed
      PROVE  Fresh(g)'
  <2>1. Fresh(g) /\ g \in Gates
    BY <1>0, AgesAre DEF TableTyped
  <2> QED BY <1>1, <1>2, <1>3, <1>4, <2>1, OlderGrows DEF Fresh
<1>7. ASSUME NEW q \in Reqs, at'[q] = "flushing"
      PROVE  Used(q)'
  <2>1. at[q] = "flushing" /\ Used(q)
    BY <1>1, <1>7, AgesAre
  <2> QED BY <1>1, <1>2, <2>1, OlderGrows DEF Used, Active
<1> QED BY <1>1, <1>5, <1>6, <1>7, AgesAre

LEMMA StillAges ==
  ASSUME AgesInv, Close \/ UNCHANGED vars
  PROVE  AgesInv'
BY DEF Close, vars, gatewayVars, listenerVars, tableVars, AgesInv

LEMMA InitAges == Init => AgesInv
BY GatewayAssumption DEF Init, AgesInv

LEMMA AgesStep ==
  ASSUME Typed, ReadyInv, LeftInv, AgesInv, [Next]_vars
  PROVE  AgesInv'
BY PassAges, AcquireAges, ReturnAges, FlushedAges, TickAges, StillAges DEF Next, Step

\* What the listener tells a client.
LEMMA HandleTells ==
  ASSUME Typed, NEW r \in Reqs, Handle(r)
  PROVE  answer'[r] = answer[r] \/ answer'[r] \in {"gate busy", "not forwarded", "denied",
                                                   "audit failed", "unverified", "result"}
<1>1. \A a : Tell(r, a) => answer'[r] = a
  BY Told DEF Typed
<1>2. CASE Enter(r)
  BY <1>1, <1>2 DEF Enter, TurnAway
<1>3. CASE Approved(r) \/ Reject(r) \/ Dispatch(r) \/ Hear(r)
  BY <1>1, <1>3 DEF Approved, Reject, Dispatch, Forward, Hear
<1>4. CASE Resolve(r) \/ Publish(r) \/ Leave(r)
  BY <1>1, <1>4 DEF Resolve, Publish, Leave
<1> QED BY <1>2, <1>3, <1>4 DEF Handle

\* Only acquire says that a session is missing or the table full.
LEMMA WhoRefuses ==
  ASSUME Typed, [Next]_vars, NEW q \in Reqs, answer'[q] # answer[q],
         answer'[q] \in {"session not found", "table full"}
  PROVE  Acquire(q)
<1>0. RequestsTyped
  BY DEF Typed
<1>1. ASSUME NEW r \in Reqs, \E a : Tell(r, a)
      PROVE  q = r
  BY <1>0, <1>1 DEF Tell, RequestsTyped
<1>2. \A a : Tell(q, a) => answer'[q] = a
  BY <1>0, Told
<1>3. ASSUME NEW r \in Reqs, Arrive(r) \/ Authenticate(r) \/ Malformed(r)
      PROVE  FALSE
  BY <1>1, <1>2, <1>3 DEF Arrive, Authenticate, Malformed
<1>4. ASSUME NEW r \in Reqs, Serve(r)
      PROVE  FALSE
  <2>1. q = r
    BY <1>0, <1>4, HandleMoves DEF Serve, Moves, RequestsTyped
  <2> QED BY <1>4, <2>1, HandleTells DEF Serve
<1>5. ASSUME NEW r \in Reqs, Acquire(r)
      PROVE  Acquire(q)
  <2>1. \E a : Tell(r, a)
    BY <1>5 DEF Acquire, AcquireNew, AcquireExisting, Refuse, Take
  <2> QED BY <1>1, <1>5, <2>1
<1>6. ASSUME NEW r \in Reqs, Return(r) \/ Flushed(r)
      PROVE  FALSE
  BY <1>6 DEF Return, Flushed
<1>7. ~(Tick \/ Close \/ UNCHANGED vars)
  BY DEF Tick, Close, vars, listenerVars
<1> QED BY <1>3, <1>4, <1>5, <1>6, <1>7 DEF Next, Step

(***************************************************************************)
(* A refusal is justified: acquire reports a session missing to a client   *)
(* that was told of it only when the client has not been answered for the  *)
(* TTL, though the sweep goes by the session's own idle time, which        *)
(* started before the result of its initialize was out; and it reports the *)
(* table full only of sessions in use or used within the TTL.              *)
(***************************************************************************)
THEOREM RefusalsHaveCause == Spec => RefusalsJustified
<1> DEFINE I == Typed /\ ReadyInv /\ LeftInv /\ AgesInv
<1>1. Init => I
  BY InitTyped, InitReady, InitLeft, InitAges
<1>2. I /\ [Next]_vars => I'
  BY ReadyStep, LeftStep, AgesStep
<1>3. I /\ [Next]_vars =>
        [\A r \in Reqs : answer'[r] # answer[r] =>
           /\ answer'[r] = "session not found" => since[gateOf[r]] >= TTL
           /\ answer'[r] = "table full" =>
                Cardinality({g \in DOMAIN sessions : sessions[g].busy \/ sessions[g].age < TTL})
                  >= Limit]_vars
  <2> SUFFICES ASSUME I, [Next]_vars, NEW r \in Reqs, answer'[r] # answer[r]
               PROVE  /\ answer'[r] = "session not found" => since[gateOf[r]] >= TTL
                      /\ answer'[r] = "table full" =>
                           Cardinality({g \in DOMAIN sessions :
                                          sessions[g].busy \/ sessions[g].age < TTL}) >= Limit
    OBVIOUS
  <2>0. \A a : Tell(r, a) => answer'[r] = a
    BY Told DEF Typed
  <2>1. ASSUME answer'[r] = "session not found"
        PROVE  since[gateOf[r]] >= TTL
    <3> DEFINE h == gateOf[r]
    <3>1. Acquire(r)
      BY <2>1, WhoRefuses
    <3>2. at[r] = "admitted" /\ hosted
      BY <3>1 DEF Acquire, LeftInv, Bare
    <3>3. h # NoGate /\ h \notin DOMAIN Swept
      BY <2>0, <2>1, <3>1 DEF Acquire, AcquireNew, AcquireExisting, Refuse, Take
    <3>4. h \in exposed
      BY <3>2, <3>3 DEF ReadyInv, NamesTold
    <3>5. h \in Gates /\ since[h] \in Nat
          /\ (h \in DOMAIN sessions => sessions[h].age \in Nat)
      BY <3>4 DEF Typed, TableTyped
    <3>6. h \notin DOMAIN sessions \/ (~sessions[h].busy /\ ~(sessions[h].age < TTL))
      BY <3>3, SweptTyped DEF Typed
    <3> QED BY <3>4, <3>5, <3>6, GatewayAssumption DEF AgesInv
  <2>2. ASSUME answer'[r] = "table full"
        PROVE  Cardinality({g \in DOMAIN sessions : sessions[g].busy \/ sessions[g].age < TTL})
                 >= Limit
    <3>1. Acquire(r)
      BY <2>2, WhoRefuses
    <3>2. Cardinality(DOMAIN Swept) >= Limit
      BY <2>0, <2>2, <3>1 DEF Acquire, AcquireNew, AcquireExisting, Refuse, Take
    <3> QED BY <3>2, SweptTyped DEF Typed
  <2> QED BY <2>1, <2>2
<1> QED BY <1>1, <1>2, <1>3, PTL DEF Spec, RefusalsJustified

=============================================================================
