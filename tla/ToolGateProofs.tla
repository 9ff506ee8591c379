--------------------------- MODULE ToolGateProofs ---------------------------
(***************************************************************************)
(* For any tools, definitions, cursors and bounds: ToolGate keeps its      *)
(* types, and a call is dispatched to a pinned tool only while the tool is *)
(* what the operator approved or the notice of its change is unheeded.     *)
(*                                                                         *)
(* The argument: a page that can still be published in one piece was       *)
(* computed from the definitions of now, or a notice is on its way, since  *)
(* every change sends one and acting on it drops the build the page        *)
(* belongs to.  So is what is published.  The dispatch holds the lock that *)
(* acting on a notice needs.                                               *)
(*                                                                         *)
(* The rows of a call agree because its one observation is held in one     *)
(* place at a time, the request's until it is first observed and the       *)
(* card's from then on, and because a pending call has one answer to come. *)
(***************************************************************************)
EXTENDS ToolGate, SequenceTheorems, FiniteSetTheorems, TLAPS

Messages ==
  [kind : {"page", "result"}, line : Lines, page : PageRecords]
    \cup [kind : {"changed"}, line : {0}, page : PageRecords]

Deciding == {"refused", "gates", "allowed", "dispatching", "sending"}

\* Types, those of TypeOK and more, by the state they speak of.
Builds(k) ==
  [id : 0..k, inFlight : BOOLEAN, paginated : BOOLEAN, next : Cursors \cup {"end"},
   seen : SUBSET Cursors, tools : Found]

CatalogTyped ==
  /\ nextID \in 0..MaxLines /\ nextID <= input.line
  /\ build \in Builds(nextID)
  /\ published \in Found /\ publishedPaginated \in BOOLEAN
  /\ build.id = 0 \/ published = Nothing

InputTyped ==
  /\ policy \in Policies /\ catalogHeld \in BOOLEAN
  /\ input \in [pc : {"scan", "listing", "over"} \cup Deciding, line : 0..MaxLines]
  /\ tool \in [Lines -> Tools \cup {""}]
  /\ input.pc = "listing" => input.line \in Lines
  /\ input.pc \in Deciding => input.line \in Lines /\ tool[input.line] \in Tools

ListingsTyped ==
  /\ cursor \in [Lines -> Cursors \cup {"first", ""}]
  /\ buildOf \in [Lines -> 0..nextID]
  /\ \A n \in Lines : n > input.line => buildOf[n] = 0

ReaderTyped ==
  reader \in [pc : {"scan", "notice", "page", "filtered"}, line : 0..MaxLines,
             build : 0..nextID, page : PageRecords, paginated : BOOLEAN]

ObservedTyped ==
  cardObserved \in [Lines -> Observations] /\ actionObserved \in [Lines -> Observations]

TrafficTyped ==
  /\ asked \subseteq 1..input.line /\ pending \subseteq 1..input.line
  /\ ready \subseteq Messages /\ \A m \in ready : m.line <= input.line
  /\ wire \in Seq(Messages) /\ \A i \in DOMAIN wire : wire[i].line <= input.line

UpstreamTyped == past \subseteq [Tools -> Defs] /\ defs \in past

Typed ==
  /\ CatalogTyped /\ InputTyped /\ ListingsTyped /\ ReaderTyped /\ ObservedTyped
  /\ TrafficTyped /\ UpstreamTyped

\* A build of one page holds no tools yet and awaits its page.
OnePage ==
  /\ ~build.paginated => build.tools = Nothing
  /\ build.id # 0 /\ ~build.inFlight => build.paginated

Whole(id) == id # 0 /\ build.id = id /\ ~build.paginated
Current(f) == Unheeded \/ \A t \in Tools : f[t] \in {defs[t], "unobserved"}

\* The listing that a build of one page awaits asks for a first page.
AsksFirst ==
  /\ input.pc = "listing" => input.line \notin asked
  /\ \A n \in Lines :
         /\ Whole(buildOf[n]) /\ tool[n] = ""
         /\ n \in asked \/ (input.pc = "listing" /\ n = input.line)
       => cursor[n] = "first"

PagesCurrent ==
  /\ \A m \in ready : m.kind = "page" /\ Whole(buildOf[m.line]) => Current(m.page.tools)
  /\ \A i \in DOMAIN wire :
       wire[i].kind = "page" /\ Whole(buildOf[wire[i].line]) => Current(wire[i].page.tools)
  /\ reader.pc \in {"page", "filtered"} /\ Whole(reader.build) => Current(reader.page.tools)

PublishedCurrent == ~publishedPaginated => Current(published)

DispatchLocked == input.pc = "dispatching" /\ Constrained => catalogHeld

IInv ==
  /\ Typed /\ OnePage /\ AsksFirst
  /\ PagesCurrent /\ PublishedCurrent /\ DispatchLocked /\ ApprovedWhenDispatched

-----------------------------------------------------------------------------
\* A row carries one of the observations.
LEMMA ObservationTyped ==
  ASSUME NEW t \in Tools, NEW o \in Defs \cup {"unobserved"}
  PROVE  Observation(t, o) \in Observations
BY DEF Observation, PinStatus, Observations

LEMMA ObserveTyped ==
  ASSUME published \in Found, NEW t \in Tools
  PROVE  observe(t) \in Defs \cup {"unobserved"}
BY DEF observe, Found

\* The values that stand for nothing.
LEMMA NothingTyped ==
  /\ Nothing \in Found
  /\ NoObservation \in Observations
  /\ NoPage \in PageRecords
  /\ \A k \in Nat : NoBuild \in Builds(k)
<1>1. Nothing \in Found
  BY DEF Nothing, Found
<1>2. NoObservation \in Observations
  BY DEF NoObservation, Observations
<1>3. NoPage \in PageRecords
  BY <1>1 DEF NoPage, PageRecords
<1>4. ASSUME NEW k \in Nat
      PROVE  NoBuild \in Builds(k)
  BY <1>1 DEF NoBuild, Builds
<1> QED  BY <1>1, <1>2, <1>3, <1>4

LEMMA TypedSuffices == Typed => TypeOK
<1> SUFFICES ASSUME Typed PROVE TypeOK
  OBVIOUS
<1>1. /\ nextID \in 0..MaxLines
      /\ build \in [id : 0..nextID, inFlight : BOOLEAN, paginated : BOOLEAN,
                    next : Cursors \cup {"end"}, seen : SUBSET Cursors, tools : Found]
      /\ published \in Found /\ publishedPaginated \in BOOLEAN
      /\ build.id = 0 \/ published = Nothing
  BY DEF Typed, CatalogTyped, Builds
<1>2. /\ policy \in Policies /\ catalogHeld \in BOOLEAN
      /\ input \in [pc : {"scan", "listing", "refused", "gates", "allowed", "dispatching",
                          "sending", "over"}, line : 0..MaxLines]
  BY DEF Typed, InputTyped, Deciding
<1>3. buildOf \in [Lines -> 0..nextID]
  BY DEF Typed, ListingsTyped
<1>4. pending \subseteq Lines
  <2>1. input.line \in 0..MaxLines
    BY <1>2
  <2>2. 1..input.line \subseteq Lines
    BY <2>1, GateAssumption DEF Lines
  <2> QED  BY <2>2 DEF Typed, TrafficTyped
<1>5. cardObserved \in [Lines -> Observations] /\ actionObserved \in [Lines -> Observations]
  BY DEF Typed, ObservedTyped
<1>6. reader \in [pc : {"scan", "notice", "page", "filtered"}, line : 0..MaxLines,
                  build : 0..nextID, page : PageRecords, paginated : BOOLEAN]
  BY DEF Typed, ReaderTyped
<1>7. defs \in [Tools -> Defs]
  BY DEF Typed, UpstreamTyped
<1> QED  BY <1>1, <1>2, <1>3, <1>4, <1>5, <1>6, <1>7 DEF TypeOK

LEMMA InitInvariant == Init => IInv
<1> SUFFICES ASSUME Init PROVE IInv
  OBVIOUS
<1>1. nextID = 0 /\ 0 \in 0..nextID /\ 0 \in 0..MaxLines
  <2>1. nextID = 0
    BY DEF Init
  <2> QED  BY <2>1, GateAssumption
<1>2. Typed
  <2>1. CatalogTyped
    <3>1. build = NoBuild /\ published = Nothing /\ publishedPaginated = FALSE /\ input.line = 0
      BY DEF Init
    <3>2. build \in Builds(nextID)
      BY <1>1, <3>1, NothingTyped
    <3>3. nextID <= input.line
      BY <1>1, <3>1
    <3> QED  BY <1>1, <3>1, <3>2, <3>3, NothingTyped DEF CatalogTyped
  <2>2. InputTyped
    <3>1. input = [pc |-> "scan", line |-> 0] /\ tool = [n \in Lines |-> ""]
      BY DEF Init
    <3>2. policy \in Policies /\ catalogHeld = FALSE
      BY DEF Init
    <3> QED  BY <1>1, <3>1, <3>2 DEF InputTyped, Deciding
  <2>3. ListingsTyped
    <3>1. cursor = [n \in Lines |-> ""] /\ buildOf = [n \in Lines |-> 0]
      BY DEF Init
    <3> QED  BY <1>1, <3>1 DEF ListingsTyped
  <2>4. ReaderTyped
    <3>1. reader = [pc |-> "scan", line |-> 0, build |-> 0, page |-> NoPage, paginated |-> FALSE]
      BY DEF Init, Scanning
    <3> QED  BY <1>1, <3>1, NothingTyped DEF ReaderTyped
  <2>5. ObservedTyped
    <3>1. /\ cardObserved = [n \in Lines |-> NoObservation]
          /\ actionObserved = [n \in Lines |-> NoObservation]
      BY DEF Init
    <3> QED  BY <3>1, NothingTyped DEF ObservedTyped
  <2>6. TrafficTyped
    <3>1. wire = << >> /\ asked = {} /\ pending = {} /\ ready = {}
      BY DEF Init
    <3>2. wire \in Seq(Messages) /\ DOMAIN wire = {}
      BY <3>1, EmptySeq, LenProperties
    <3> QED  BY <3>1, <3>2 DEF TrafficTyped
  <2>7. UpstreamTyped
    <3>1. defs = [t \in Tools |-> "approved"] /\ past = {defs}
      BY DEF Init
    <3> QED  BY <3>1, GateAssumption DEF UpstreamTyped
  <2> QED  BY <2>1, <2>2, <2>3, <2>4, <2>5, <2>6, <2>7 DEF Typed
<1>3. OnePage /\ AsksFirst /\ PagesCurrent /\ PublishedCurrent
  <2>1. build = NoBuild /\ published = Nothing /\ reader.pc = "scan"
    BY DEF Init, Scanning
  <2>2. \A f : ~Whole(f)
    BY <2>1 DEF Whole, NoBuild
  <2>3. OnePage
    BY <2>1 DEF OnePage, NoBuild
  <2>4. AsksFirst /\ PagesCurrent
    BY <2>1, <2>2 DEF AsksFirst, PagesCurrent, Init
  <2>5. PublishedCurrent
    BY <2>1 DEF PublishedCurrent, Current, Nothing
  <2> QED  BY <2>3, <2>4, <2>5
<1>4. DispatchLocked /\ ApprovedWhenDispatched
  BY DEF Init, DispatchLocked, ApprovedWhenDispatched
<1> QED  BY <1>2, <1>3, <1>4 DEF IInv

(***************************************************************************)
(* What remains of a sequence when its head is taken, and what is added.   *)
(***************************************************************************)
LEMMA TakenHead ==
  ASSUME NEW S, NEW s \in Seq(S), s # << >>
  PROVE  /\ Head(s) \in S /\ Tail(s) \in Seq(S)
         /\ \A i \in DOMAIN Tail(s) : i + 1 \in DOMAIN s /\ Tail(s)[i] = s[i + 1]
         /\ \A i \in DOMAIN s : i = 1 \/ (i - 1 \in DOMAIN Tail(s) /\ s[i] = Tail(s)[i - 1])
         /\ Head(s) = s[1] /\ 1 \in DOMAIN s
<1>1. /\ Head(s) \in S /\ Tail(s) \in Seq(S) /\ Len(Tail(s)) = Len(s) - 1
      /\ \A i \in 1..Len(Tail(s)) : Tail(s)[i] = s[i + 1]
  BY HeadTailProperties
<1>2. DOMAIN s = 1..Len(s) /\ Len(s) \in Nat /\ Len(s) # 0
  BY LenProperties, EmptySeq
<1>3. DOMAIN Tail(s) = 1..Len(Tail(s))
  BY <1>1, LenProperties
<1>4. Head(s) = s[1]
  OBVIOUS
<1> QED  BY <1>1, <1>2, <1>3, <1>4

LEMMA AddedLast ==
  ASSUME NEW S, NEW s \in Seq(S), NEW m \in S
  PROVE  /\ Append(s, m) \in Seq(S)
         /\ \A i \in DOMAIN Append(s, m) :
              (i \in DOMAIN s /\ Append(s, m)[i] = s[i]) \/ Append(s, m)[i] = m
         /\ \A i \in DOMAIN s : i \in DOMAIN Append(s, m) /\ Append(s, m)[i] = s[i]
         /\ Len(s) + 1 \in DOMAIN Append(s, m) /\ Append(s, m)[Len(s) + 1] = m
<1>1. /\ Append(s, m) \in Seq(S) /\ Len(Append(s, m)) = Len(s) + 1
      /\ \A i \in 1..Len(s) : Append(s, m)[i] = s[i]
      /\ Append(s, m)[Len(s) + 1] = m
  BY AppendProperties
<1>2. DOMAIN s = 1..Len(s) /\ Len(s) \in Nat
  BY LenProperties
<1>3. DOMAIN Append(s, m) = 1..(Len(s) + 1)
  BY <1>1, LenProperties
<1> QED  BY <1>1, <1>2, <1>3

-----------------------------------------------------------------------------
(***************************************************************************)
(* Types are kept, those of each part of the state by the steps that       *)
(* change it.                                                              *)
(***************************************************************************)
LEMMA LineGrows ==
  ASSUME InputTyped, [Next]_vars
  PROVE  input.line \in Nat /\ input'.line \in Nat /\ input.line <= input'.line
<1>1. \/ UNCHANGED input
      \/ \E pc : Goto(pc)
      \/ \E pc : NextLine(pc)
  BY DEF Next, RefuseList, SendList, SendListFails, Refuse, Gates, CheckPin, Dispatch, SendCall,
         SendCallUnanswered, TakeNotice, Invalidate, TakeResult, TakePage, CheckPage, AddPage,
         List, Call, Change, Cancel, Compute, Return, Send, vars
<1>2. input.line \in 0..MaxLines /\ DOMAIN input = {"pc", "line"}
  BY DEF InputTyped
<1>3. ASSUME NEW pc, Goto(pc) PROVE input'.line = input.line
  BY <1>2, <1>3 DEF Goto
<1>4. ASSUME NEW pc, NextLine(pc) PROVE input'.line = input.line + 1
  BY <1>4 DEF NextLine
<1> QED  BY <1>1, <1>2, <1>3, <1>4, GateAssumption

LEMMA CatalogSteps ==
  ASSUME [Next]_vars
  PROVE  \/ UNCHANGED catalog
         \/ invalidate
         \/ \E id : discard(id)
         \/ AddPage /\ Active(reader.build) /\ addPage(reader.page)
         \/ \E c \in Cursors \cup {"first"} : List(c)
BY DEF Next, RefuseList, SendList, SendListFails, Refuse, Gates, CheckPin, Dispatch, SendCall,
       SendCallUnanswered, TakeNotice, Invalidate, TakeResult, TakePage, CheckPage, AddPage,
       Call, Change, Cancel, Compute, Return, Send, vars

LEMMA InputSteps ==
  ASSUME [Next]_vars
  PROVE  \/ UNCHANGED <<policy, catalogHeld, input, tool>>
         \/ RefuseList \/ SendList \/ SendListFails \/ Refuse \/ Gates \/ CheckPin \/ Dispatch
         \/ SendCall \/ SendCallUnanswered
         \/ \E c \in Cursors \cup {"first"} : List(c)
         \/ \E t \in Tools : Call(t)
BY DEF Next, TakeNotice, Invalidate, TakeResult, TakePage, CheckPage, AddPage,
       Change, Cancel, Compute, Return, Send, vars, client

LEMMA CatalogKept ==
  ASSUME Typed, [Next]_vars
  PROVE  CatalogTyped'
<1> USE DEF catalog
<1>1. /\ nextID \in 0..MaxLines /\ nextID <= input.line
      /\ build \in Builds(nextID)
      /\ published \in Found /\ publishedPaginated \in BOOLEAN
      /\ build.id = 0 \/ published = Nothing
  BY DEF Typed, CatalogTyped
<1>2. input.line \in Nat /\ input'.line \in Nat /\ input.line <= input'.line
  BY LineGrows DEF Typed
<1>3. nextID \in Nat /\ NoBuild \in Builds(nextID) /\ Nothing \in Found /\ NoBuild.id = 0
  <2>1. nextID \in Nat
    BY <1>1, GateAssumption
  <2>2. NoBuild.id = 0
    BY DEF NoBuild
  <2> QED  BY <2>1, <2>2, NothingTyped
<1>4. CASE UNCHANGED catalog
  BY <1>1, <1>2, <1>3, <1>4 DEF CatalogTyped
<1>5. CASE invalidate
  <2>1. /\ build' = NoBuild /\ published' = Nothing /\ publishedPaginated' = FALSE
        /\ nextID' = nextID
    BY <1>5 DEF invalidate
  <2>2. build' \in Builds(nextID') /\ build'.id = 0
    BY <1>3, <2>1
  <2>3. nextID' \in 0..MaxLines /\ nextID' <= input'.line
    BY <1>1, <1>2, <1>3, <2>1
  <2> QED  BY <1>3, <2>1, <2>2, <2>3 DEF CatalogTyped
<1>6. ASSUME NEW id, discard(id) PROVE CatalogTyped'
  BY <1>1, <1>2, <1>3, <1>6 DEF CatalogTyped, discard
<1>7. CASE AddPage /\ Active(reader.build) /\ addPage(reader.page)
  <2> DEFINE tools == [t \in Tools |-> IF reader.page.tools[t] = "unobserved" THEN build.tools[t]
                                      ELSE reader.page.tools[t]]
  <2>1. reader.page \in PageRecords /\ build.tools \in Found
    BY <1>1 DEF Typed, ReaderTyped, Builds
  <2>2. tools \in Found
    BY <2>1 DEF PageRecords, Found
  <2>3. UNCHANGED nextID
    BY <1>7 DEF addPage
  <2>4. CASE reader.page.next = "end"
    <3>1. build' = NoBuild /\ published' = tools /\ publishedPaginated' = build.paginated
      BY <1>7, <2>4 DEF addPage
    <3> QED  BY <1>1, <1>2, <1>3, <2>2, <2>3, <3>1 DEF CatalogTyped, Builds
  <2>5. CASE reader.page.next # "end"
    <3>1. build' = [build EXCEPT !.inFlight = FALSE, !.paginated = TRUE, !.next = reader.page.next,
                                 !.seen = @ \cup {reader.page.next}, !.tools = tools]
      BY <1>7, <2>5 DEF addPage
    <3>2. UNCHANGED <<published, publishedPaginated>>
      BY <1>7, <2>5 DEF addPage
    <3>3. reader.page.next \in Cursors
      BY <2>1, <2>5 DEF PageRecords
    <3>4. build' \in Builds(nextID) /\ build'.id = build.id
      BY <1>1, <2>2, <3>1, <3>3 DEF Builds
    <3> QED  BY <1>1, <1>2, <2>3, <3>2, <3>4 DEF CatalogTyped
  <2> QED  BY <2>4, <2>5
<1>8. ASSUME NEW c \in Cursors \cup {"first"}, List(c) PROVE CatalogTyped'
  <2>1. input'.line = input.line + 1 /\ input'.line <= MaxLines
    BY <1>2, <1>8, GateAssumption DEF List, NextLine
  <2>2. /\ published' = IF c # "first" /\ Continues(c) THEN published ELSE Nothing
        /\ publishedPaginated' = (publishedPaginated /\ c # "first" /\ Continues(c))
    BY <1>8 DEF List, beginList
  <2>3. CASE c = "first"
    <3>1. nextID' = nextID + 1 /\ build' = [NoBuild EXCEPT !.id = nextID + 1, !.inFlight = TRUE]
      BY <1>8, <2>3 DEF List, beginList
    <3>2. nextID' \in 0..MaxLines /\ nextID' <= input'.line /\ nextID + 1 \in 0..nextID'
      BY <1>1, <1>2, <1>3, <2>1, <3>1, GateAssumption
    <3>3. build' \in Builds(nextID')
      BY <1>3, <3>1, <3>2 DEF Builds, NoBuild
    <3>4. published' = Nothing /\ publishedPaginated' \in BOOLEAN
      BY <2>2, <2>3
    <3> QED  BY <1>3, <3>2, <3>3, <3>4 DEF CatalogTyped
  <2>4. CASE c # "first"
    <3>1. /\ UNCHANGED nextID
          /\ build' = IF Continues(c) THEN [build EXCEPT !.inFlight = TRUE] ELSE build
      BY <1>8, <2>4 DEF List, beginList
    <3>2. build' \in Builds(nextID) /\ build'.id = build.id
      BY <1>1, <3>1 DEF Builds
    <3>3. /\ published' \in Found /\ publishedPaginated' \in BOOLEAN
          /\ build.id = 0 \/ published' = Nothing
      BY <1>1, <1>3, <2>2
    <3> QED  BY <1>1, <1>2, <3>1, <3>2, <3>3 DEF CatalogTyped
  <2> QED  BY <2>3, <2>4
<1> QED  BY <1>4, <1>5, <1>6, <1>7, <1>8, CatalogSteps

LEMMA InputKept ==
  ASSUME Typed, [Next]_vars
  PROVE  InputTyped'
<1>1. /\ policy \in Policies /\ catalogHeld \in BOOLEAN
      /\ input \in [pc : {"scan", "listing", "over"} \cup Deciding, line : 0..MaxLines]
      /\ tool \in [Lines -> Tools \cup {""}]
      /\ input.pc = "listing" => input.line \in Lines
      /\ input.pc \in Deciding => input.line \in Lines /\ tool[input.line] \in Tools
  BY DEF Typed, InputTyped
<1>2. ASSUME NEW pc, NextLine(pc)
      PROVE  /\ input' = [pc |-> pc, line |-> input.line + 1]
             /\ input.line + 1 \in Lines /\ input.line + 1 \in 0..MaxLines
  <2>1. input.line \in 0..MaxLines /\ input.line < MaxLines
    BY <1>1, <1>2 DEF NextLine
  <2>2. input.line + 1 \in 1..MaxLines /\ input.line + 1 \in 0..MaxLines
    BY <2>1, GateAssumption
  <2> QED  BY <1>2, <2>2 DEF NextLine, Lines
<1>3. CASE UNCHANGED <<policy, catalogHeld, input, tool>>
  BY <1>1, <1>3 DEF InputTyped
<1>4. CASE RefuseList
  BY <1>1, <1>2, <1>4 DEF InputTyped, RefuseList, client, Deciding, NextLine
<1>5. CASE SendList \/ SendListFails \/ Refuse \/ SendCall \/ SendCallUnanswered
  <2>1. UNCHANGED <<policy, catalogHeld, tool>> /\ (Goto("scan") \/ Goto("over"))
    BY <1>5 DEF SendList, SendListFails, Refuse, SendCall, SendCallUnanswered, client
  <2> QED  BY <1>1, <2>1 DEF InputTyped, Goto, Deciding
<1>6. CASE Gates \/ CheckPin \/ Dispatch
  <2>1. UNCHANGED <<policy, tool>> /\ input.pc \in Deciding /\ catalogHeld' \in BOOLEAN
    BY <1>1, <1>6 DEF Gates, CheckPin, Dispatch, client, Deciding, Constrained
  <2>2. \E pc \in {"scan"} \cup Deciding : Goto(pc)
    BY <1>6 DEF Gates, CheckPin, Dispatch, Deciding
  <2> QED  BY <1>1, <2>1, <2>2 DEF InputTyped, Goto, Deciding
<1>7. ASSUME NEW c \in Cursors \cup {"first"}, List(c) PROVE InputTyped'
  <2>1. UNCHANGED <<policy, catalogHeld, tool>> /\ (NextLine("scan") \/ NextLine("listing"))
    BY <1>7 DEF List
  <2>2. PICK pc \in {"scan", "listing"} : NextLine(pc)
    BY <2>1
  <2>3. /\ input' = [pc |-> pc, line |-> input.line + 1]
        /\ input.line + 1 \in Lines /\ input.line + 1 \in 0..MaxLines
    BY <1>2, <2>2
  <2> QED  BY <1>1, <2>1, <2>3 DEF InputTyped, Deciding
<1>8. ASSUME NEW t \in Tools, Call(t) PROVE InputTyped'
  <2>1. UNCHANGED <<policy, catalogHeld>> /\ (NextLine("refused") \/ NextLine("gates"))
    BY <1>8 DEF Call
  <2>2. tool' = [tool EXCEPT ![input.line + 1] = t]
    BY <1>8 DEF Call
  <2>3. PICK pc \in Deciding : NextLine(pc)
    BY <2>1 DEF Deciding
  <2>4. /\ input' = [pc |-> pc, line |-> input.line + 1]
        /\ input.line + 1 \in Lines /\ input.line + 1 \in 0..MaxLines
    BY <1>2, <2>3
  <2>5. tool' \in [Lines -> Tools \cup {""}] /\ tool'[input.line + 1] = t
    BY <1>1, <2>2, <2>4
  <2> QED  BY <1>1, <2>1, <2>3, <2>4, <2>5 DEF InputTyped
<1> QED  BY <1>3, <1>4, <1>5, <1>6, <1>7, <1>8, InputSteps

LEMMA BuildsGrow ==
  ASSUME Typed, [Next]_vars
  PROVE  nextID \in Nat /\ nextID' \in Nat /\ nextID <= nextID'
<1>1. nextID \in Nat
  BY GateAssumption DEF Typed, CatalogTyped
<1>2. ASSUME NEW c, List(c) PROVE nextID' = nextID \/ nextID' = nextID + 1
  BY <1>2 DEF List, beginList
<1>3. nextID' = nextID \/ nextID' = nextID + 1
  BY <1>2, CatalogSteps DEF catalog, invalidate, discard, addPage
<1> QED  BY <1>1, <1>3

LEMMA ListingSteps ==
  ASSUME [Next]_vars
  PROVE  \/ UNCHANGED <<cursor, buildOf>>
         \/ \E c \in Cursors \cup {"first"} : List(c)
         \/ TakePage
         \/ \E n \in Lines : Compute(n)
BY DEF Next, RefuseList, SendList, SendListFails, Refuse, Gates, CheckPin, Dispatch, SendCall,
       SendCallUnanswered, TakeNotice, Invalidate, TakeResult, CheckPage, AddPage, Call, Change,
       Cancel, Return, Send, vars, client

LEMMA ListingsKept ==
  ASSUME Typed, [Next]_vars
  PROVE  ListingsTyped'
<1>1. /\ cursor \in [Lines -> Cursors \cup {"first", ""}]
      /\ buildOf \in [Lines -> 0..nextID]
      /\ \A n \in Lines : n > input.line => buildOf[n] = 0
  BY DEF Typed, ListingsTyped
<1>2. /\ nextID \in Nat /\ nextID' \in Nat /\ nextID <= nextID'
      /\ input.line \in Nat /\ input'.line \in Nat /\ input.line <= input'.line
  BY BuildsGrow, LineGrows DEF Typed
<1>3. 0..nextID \subseteq 0..nextID' /\ 0 \in 0..nextID'
  BY <1>2
<1>4. \A n \in Lines : n \in Nat /\ (n > input'.line => n > input.line)
  BY <1>2 DEF Lines
<1>5. CASE UNCHANGED <<cursor, buildOf>>
  BY <1>1, <1>3, <1>4, <1>5 DEF ListingsTyped
<1>6. ASSUME NEW c \in Cursors \cup {"first"}, List(c) PROVE ListingsTyped'
  <2> DEFINE n == input.line + 1
             id == IF c = "first" THEN nextID + 1 ELSE IF Continues(c) THEN build.id ELSE 0
  <2>1. /\ cursor' = [cursor EXCEPT ![n] = c] /\ buildOf' = [buildOf EXCEPT ![n] = id]
        /\ input'.line = n
    BY <1>6 DEF List, NextLine
  <2>2. id \in 0..nextID'
    <3>1. c = "first" => nextID' = nextID + 1
      BY <1>6 DEF List, beginList
    <3>2. build.id \in 0..nextID
      BY DEF Typed, CatalogTyped, Builds
    <3> QED  BY <1>2, <1>3, <3>1, <3>2
  <2>3. \A k \in Lines : k > n => buildOf'[k] = 0
    <3> SUFFICES ASSUME NEW k \in Lines, k > n PROVE buildOf'[k] = 0
      OBVIOUS
    <3>1. k > input.line /\ k # n
      BY <1>2, <1>4
    <3> HIDE DEF n, id
    <3> QED  BY <1>1, <2>1, <3>1
  <2> HIDE DEF n, id
  <2> QED  BY <1>1, <1>3, <2>1, <2>2, <2>3 DEF ListingsTyped
<1>7. CASE TakePage
  <2>1. /\ cursor' = cursor /\ buildOf' = [buildOf EXCEPT ![Head(wire).line] = 0]
    BY <1>7 DEF TakePage
  <2> QED  BY <1>1, <1>3, <1>4, <2>1 DEF ListingsTyped
<1>8. ASSUME NEW n \in Lines, Compute(n) PROVE ListingsTyped'
  <2>1. cursor' = [cursor EXCEPT ![n] = ""] /\ buildOf' = buildOf
    BY <1>8 DEF Compute
  <2> QED  BY <1>1, <1>3, <1>4, <2>1 DEF ListingsTyped
<1> QED  BY <1>5, <1>6, <1>7, <1>8, ListingSteps

LEMMA ReaderSteps ==
  ASSUME [Next]_vars
  PROVE  \/ UNCHANGED reader
         \/ TakeNotice \/ Invalidate \/ TakePage \/ CheckPage \/ AddPage
BY DEF Next, RefuseList, SendList, SendListFails, Refuse, Gates, CheckPin, Dispatch, SendCall,
       SendCallUnanswered, TakeResult, List, Call, Change, Cancel, Compute, Return, Send, vars

\* What is read is one of the messages.
LEMMA HeadTyped ==
  ASSUME Typed, wire # << >>
  PROVE  /\ Head(wire) \in Messages /\ Head(wire).line \in 0..input.line
         /\ Head(wire).kind \in {"page", "result"} =>
              Head(wire).line \in Lines /\ Head(wire).page \in PageRecords
<1>1. wire \in Seq(Messages) /\ \A i \in DOMAIN wire : wire[i].line <= input.line
  BY DEF Typed, TrafficTyped
<1>2. Head(wire) \in Messages /\ Head(wire).line <= input.line
  BY <1>1, TakenHead
<1>3. input.line \in Nat
  <2>1. input.line \in 0..MaxLines
    BY DEF Typed, InputTyped
  <2> QED  BY <2>1, GateAssumption
<1>4. Head(wire).line \in Nat
  BY <1>2, GateAssumption DEF Messages, Lines
<1> QED  BY <1>2, <1>3, <1>4 DEF Messages

LEMMA ReaderKept ==
  ASSUME Typed, [Next]_vars
  PROVE  ReaderTyped'
<1> DEFINE Steps(k) == [pc : {"scan", "notice", "page", "filtered"}, line : 0..MaxLines,
                        build : 0..k, page : PageRecords, paginated : BOOLEAN]
<1>1. reader \in Steps(nextID)
  BY DEF Typed, ReaderTyped
<1>2. nextID \in Nat /\ nextID' \in Nat /\ 0..nextID \subseteq 0..nextID' /\ 0 \in 0..nextID'
  BY BuildsGrow
<1>3. \A r \in Steps(nextID) : r \in Steps(nextID')
  BY <1>2
<1>4. /\ Scanning \in Steps(nextID')
      /\ [Scanning EXCEPT !.pc = "notice"] \in Steps(nextID')
  <2>1. 0 \in 0..MaxLines
    BY GateAssumption
  <2> QED  BY <1>2, <2>1, NothingTyped DEF Scanning
<1>5. CASE UNCHANGED reader
  BY <1>1, <1>3, <1>5 DEF ReaderTyped
<1>6. CASE TakeNotice \/ Invalidate
  BY <1>4, <1>6 DEF ReaderTyped, TakeNotice, Invalidate
<1>7. CASE TakePage
  <2>1. /\ wire # << >> /\ Head(wire).kind = "page"
        /\ reader' = [pc |-> "page", line |-> Head(wire).line, build |-> buildOf[Head(wire).line],
                      page |-> Head(wire).page, paginated |-> FALSE]
    BY <1>7 DEF TakePage
  <2>2. Head(wire).line \in Lines /\ Head(wire).page \in PageRecords
    BY <2>1, HeadTyped
  <2>3. buildOf[Head(wire).line] \in 0..nextID
    BY <2>2 DEF Typed, ListingsTyped
  <2>4. Head(wire).line \in 0..MaxLines
    BY <2>2, GateAssumption DEF Lines
  <2> QED  BY <1>3, <2>1, <2>2, <2>3, <2>4 DEF ReaderTyped
<1>8. CASE CheckPage
  <2>1. \/ reader' = Scanning
        \/ \E id \in {reader.build, 0}, p \in BOOLEAN :
             reader' = [reader EXCEPT !.pc = "filtered", !.build = id, !.paginated = p]
    <3>1. build.paginated \in BOOLEAN
      BY DEF Typed, CatalogTyped, Builds
    <3> QED  BY <1>8, <3>1 DEF CheckPage, Relay
  <2> QED  BY <1>1, <1>2, <1>3, <1>4, <2>1 DEF ReaderTyped
<1>9. CASE AddPage
  BY <1>4, <1>9 DEF ReaderTyped, AddPage, Relay
<1> QED  BY <1>5, <1>6, <1>7, <1>8, <1>9, ReaderSteps

LEMMA ObservedSteps ==
  ASSUME [Next]_vars
  PROVE  \/ UNCHANGED <<cardObserved, actionObserved>>
         \/ Gates \/ CheckPin \/ Dispatch \/ SendCallUnanswered \/ TakeResult
         \/ \E n \in Lines : Cancel(n)
BY DEF Next, RefuseList, SendList, SendListFails, Refuse, SendCall, TakeNotice, Invalidate,
       TakePage, CheckPage, AddPage, List, Call, Change, Compute, Return, Send, vars, observed

LEMMA ObservedKept ==
  ASSUME Typed, [Next]_vars
  PROVE  ObservedTyped'
<1>1. cardObserved \in [Lines -> Observations] /\ actionObserved \in [Lines -> Observations]
  BY DEF Typed, ObservedTyped
<1>2. ASSUME NEW n, NEW o \in Observations, Keep(n, o)
      PROVE  actionObserved' \in [Lines -> Observations]
  BY <1>1, <1>2 DEF Keep
<1>3. input.pc \in Deciding => tool[input.line] \in Tools
  BY DEF Typed, InputTyped
<1>4. ASSUME NEW n \in Lines, Observe(n) PROVE ObservedTyped'
  <2> DEFINE o == IF cardObserved[n] # NoObservation THEN cardObserved[n] ELSE actionObserved[n]
  <2>1. o \in Observations
    BY <1>1
  <2>2. cardObserved' = [cardObserved EXCEPT ![n] = o] /\ Keep(n, NoObservation)
    BY <1>4 DEF Observe
  <2> HIDE DEF o
  <2> QED  BY <1>1, <1>2, <2>1, <2>2, NothingTyped DEF ObservedTyped
<1>5. CASE UNCHANGED <<cardObserved, actionObserved>>
  BY <1>1, <1>5 DEF ObservedTyped
<1>6. CASE Gates \/ CheckPin \/ Dispatch \/ SendCallUnanswered
  <2> DEFINE o == Observation(tool[input.line], observe(tool[input.line]))
  <2>1. (Gates \/ CheckPin) => o \in Observations
    <3>1. (Gates \/ CheckPin) => input.pc \in Deciding
      BY DEF Gates, CheckPin, Deciding
    <3>2. published \in Found
      BY DEF Typed, CatalogTyped
    <3> QED  BY <1>3, <3>1, <3>2, ObserveTyped, ObservationTyped
  <2>2. UNCHANGED cardObserved
    BY <1>6 DEF Gates, CheckPin, Dispatch, SendCallUnanswered
  <2>3. \/ UNCHANGED actionObserved
        \/ Keep(input.line, NoObservation)
        \/ (Gates \/ CheckPin) /\ Keep(input.line, o)
    BY <1>6 DEF Gates, CheckPin, Dispatch, SendCallUnanswered
  <2> HIDE DEF o
  <2> QED  BY <1>1, <1>2, <2>1, <2>2, <2>3, NothingTyped DEF ObservedTyped
<1>7. CASE TakeResult
  <2>1. wire # << >> /\ Head(wire).kind = "result" /\ Observe(Head(wire).line)
    BY <1>7 DEF TakeResult
  <2> QED  BY <1>4, <2>1, HeadTyped
<1>8. ASSUME NEW n \in Lines, Cancel(n) PROVE ObservedTyped'
  BY <1>4, <1>8 DEF Cancel
<1> QED  BY <1>5, <1>6, <1>7, <1>8, ObservedSteps

LEMMA UpstreamKept ==
  ASSUME Typed, [Next]_vars
  PROVE  UpstreamTyped'
<1>1. past \subseteq [Tools -> Defs] /\ defs \in past
  BY DEF Typed, UpstreamTyped
<1>2. UNCHANGED <<defs, past>> \/ \E t \in Tools : Change(t)
  BY DEF Next, RefuseList, SendList, SendListFails, Refuse, Gates, CheckPin, Dispatch, SendCall,
         SendCallUnanswered, TakeNotice, Invalidate, TakeResult, TakePage, CheckPage, AddPage,
         List, Call, Cancel, Compute, Return, Send, vars, upstream
<1>3. ASSUME NEW t \in Tools, Change(t) PROVE UpstreamTyped'
  <2>1. PICK d \in Defs : defs' = [defs EXCEPT ![t] = d]
    BY <1>3 DEF Change
  <2>2. defs' \in [Tools -> Defs] /\ past' = past \cup {defs'}
    BY <1>1, <1>3, <2>1 DEF Change
  <2> QED  BY <1>1, <2>2 DEF UpstreamTyped
<1> QED  BY <1>1, <1>2, <1>3 DEF UpstreamTyped

\* What the upstream says is well formed, and a first page is of the
\* definitions of now.
LEMMA PageTyped ==
  ASSUME Typed, NEW c, NEW p \in Pages(c)
  PROVE  /\ p \in PageRecords
         /\ c = "first" => \A t \in Tools : p.tools[t] \in {defs[t], "unobserved"}
<1>1. PICK S \in SUBSET Tools, f \in IF c = "first" THEN {defs} ELSE past,
           x \in Cursors \cup {"end"} :
        p = [kind |-> "page", tools |-> [t \in Tools |-> IF t \in S THEN f[t] ELSE "unobserved"],
             next |-> x]
  BY DEF Pages
<1>2. f \in [Tools -> Defs]
  BY DEF Typed, UpstreamTyped
<1>3. p.tools = [t \in Tools |-> IF t \in S THEN f[t] ELSE "unobserved"]
  BY <1>1
<1>4. p.tools \in Found
  BY <1>2, <1>3 DEF Found
<1>5. p \in PageRecords
  BY <1>1, <1>3, <1>4 DEF PageRecords
<1>6. c = "first" => f = defs
  OBVIOUS
<1> QED  BY <1>3, <1>5, <1>6

LEMMA TrafficSteps ==
  ASSUME [Next]_vars
  PROVE  \/ UNCHANGED <<asked, pending, ready, wire>>
         \/ SendList \/ SendCall \/ TakeNotice \/ TakeResult \/ TakePage
         \/ \E t \in Tools : Change(t)
         \/ \E n \in Lines : Compute(n) \/ Return(n)
         \/ \E m \in ready : Send(m)
BY DEF Next, RefuseList, SendListFails, Refuse, Gates, CheckPin, Dispatch,
       SendCallUnanswered, Invalidate, CheckPage, AddPage,
       List, Call, Cancel, vars, upstream

LEMMA TrafficKept ==
  ASSUME Typed, [Next]_vars
  PROVE  TrafficTyped'
<1>1. /\ asked \subseteq 1..input.line /\ pending \subseteq 1..input.line
      /\ ready \subseteq Messages /\ \A m \in ready : m.line <= input.line
      /\ wire \in Seq(Messages) /\ \A i \in DOMAIN wire : wire[i].line <= input.line
  BY DEF Typed, TrafficTyped
<1>2. input.line \in Nat /\ input'.line \in Nat /\ input.line <= input'.line
  BY LineGrows DEF Typed
<1>3. 1..input.line \subseteq 1..input'.line
  BY <1>2
<1>4. \A m \in Messages : m.line \in Nat
  BY DEF Messages, Lines
<1>5. \A m \in Messages : m.line <= input.line => m.line <= input'.line
  BY <1>2, <1>4
<1>6. \A i \in DOMAIN wire : wire[i] \in Messages
  BY <1>1, ElementOfSeq, LenProperties
<1>7. CASE UNCHANGED <<asked, pending, ready, wire>>
  BY <1>1, <1>3, <1>5, <1>6, <1>7 DEF TrafficTyped
<1>8. CASE SendList \/ SendCall
  <2>1. /\ UNCHANGED <<ready, wire>>
        /\ asked' = asked \cup {input.line} /\ pending' = pending \cup {input.line}
    BY <1>8 DEF SendList, SendCall
  <2>2. input.line \in 1..input.line
    <3>1. input.line \in Lines
      BY <1>8 DEF SendList, SendCall, Deciding, Typed, InputTyped
    <3> QED  BY <1>2, <3>1 DEF Lines
  <2> QED  BY <1>1, <1>3, <1>5, <1>6, <2>1, <2>2 DEF TrafficTyped
<1>9. CASE TakeNotice \/ TakeResult \/ TakePage
  <2>1. /\ UNCHANGED <<asked, ready>> /\ pending' \subseteq pending
        /\ wire # << >> /\ wire' = Tail(wire)
    BY <1>9 DEF TakeNotice, TakeResult, TakePage, upstream
  <2>2. /\ wire' \in Seq(Messages)
        /\ \A i \in DOMAIN wire' : i + 1 \in DOMAIN wire /\ wire'[i] = wire[i + 1]
    BY <1>1, <2>1, TakenHead
  <2> QED  BY <1>1, <1>3, <1>5, <1>6, <2>1, <2>2 DEF TrafficTyped
<1>10. ASSUME NEW m \in Messages, m.line <= input.line, wire' = Append(wire, m),
              UNCHANGED pending, asked' \subseteq asked, ready' \subseteq ready
       PROVE  TrafficTyped'
  <2>1. /\ wire' \in Seq(Messages)
        /\ \A i \in DOMAIN wire' : (i \in DOMAIN wire /\ wire'[i] = wire[i]) \/ wire'[i] = m
    BY <1>1, <1>10, AddedLast
  <2> QED  BY <1>1, <1>3, <1>5, <1>6, <1>10, <2>1 DEF TrafficTyped
<1>11. ASSUME NEW t \in Tools, Change(t) PROVE TrafficTyped'
  <2> DEFINE m == [kind |-> "changed", line |-> 0, page |-> NoPage]
  <2>1. m \in Messages /\ m.line <= input.line
    BY <1>2, NothingTyped DEF Messages
  <2> HIDE DEF m
  <2>2. wire' = Append(wire, m) /\ UNCHANGED <<pending, asked, ready>>
    BY <1>11 DEF Change, m
  <2> QED  BY <1>10, <2>1, <2>2
<1>12. ASSUME NEW n \in Lines, Compute(n) PROVE TrafficTyped'
  <2>1. PICK p \in Pages(cursor[n]) \cup {[NoPage EXCEPT !.kind = k] : k \in {"error", "large"}} :
          ready' = ready \cup {[kind |-> "page", line |-> n, page |-> p]}
    BY <1>12 DEF Compute
  <2>2. p \in PageRecords
    <3>1. \A k \in {"error", "large"} : [NoPage EXCEPT !.kind = k] \in PageRecords
      BY NothingTyped DEF PageRecords
    <3> QED  BY <3>1, PageTyped
  <2>3. UNCHANGED <<pending, wire>> /\ asked' = asked \ {n} /\ n \in asked
    BY <1>12 DEF Compute
  <2>4. n <= input.line
    BY <1>1, <1>2, <2>3
  <2> DEFINE m == [kind |-> "page", line |-> n, page |-> p]
  <2>5. m \in Messages /\ m.line <= input.line /\ ready' = ready \cup {m}
    BY <2>1, <2>2, <2>4 DEF Messages
  <2> HIDE DEF m
  <2> QED  BY <1>1, <1>3, <1>5, <1>6, <2>3, <2>5 DEF TrafficTyped
<1>13. ASSUME NEW n \in Lines, Return(n) PROVE TrafficTyped'
  <2> DEFINE m == [kind |-> "result", line |-> n, page |-> NoPage]
  <2>1. n \in asked /\ wire' = Append(wire, m) /\ UNCHANGED <<pending, ready>>
        /\ asked' = asked \ {n}
    BY <1>13 DEF Return
  <2>2. n <= input.line
    BY <1>1, <1>2, <2>1
  <2>3. m \in Messages /\ m.line <= input.line
    BY <2>2, NothingTyped DEF Messages
  <2> HIDE DEF m
  <2> QED  BY <1>10, <2>1, <2>3
<1>14. ASSUME NEW m \in ready, Send(m) PROVE TrafficTyped'
  BY <1>1, <1>10, <1>14 DEF Send
<1> QED  BY <1>7, <1>8, <1>9, <1>11, <1>12, <1>13, <1>14, TrafficSteps

LEMMA TypesKept ==
  ASSUME Typed, [Next]_vars
  PROVE  Typed'
BY CatalogKept, InputKept, ListingsKept, ReaderKept, ObservedKept, TrafficKept, UpstreamKept
   DEF Typed

-----------------------------------------------------------------------------
(***************************************************************************)
(* A change is unheeded from the moment it happens until the catalog is    *)
(* dropped for it.                                                         *)
(***************************************************************************)
LEMMA Heeding ==
  ASSUME Typed, [Next]_vars
  PROVE  Invalidate \/ Unheeded' \/ (~Unheeded /\ defs' = defs)
<1>1. wire \in Seq(Messages)
  BY DEF Typed, TrafficTyped
<1>2. ASSUME NEW t \in Tools, Change(t) PROVE Unheeded'
  <2> DEFINE m == [kind |-> "changed", line |-> 0, page |-> NoPage]
  <2>1. m \in Messages /\ m.kind = "changed"
    BY NothingTyped DEF Messages
  <2> HIDE DEF m
  <2>2. wire' = Append(wire, m)
    BY <1>2 DEF Change, m
  <2>3. Len(wire) + 1 \in DOMAIN wire' /\ wire'[Len(wire) + 1] = m
    BY <1>1, <2>1, <2>2, AddedLast
  <2> QED  BY <2>1, <2>3 DEF Unheeded
<1>3. defs' = defs \/ \E t \in Tools : Change(t)
  BY DEF Next, RefuseList, SendList, SendListFails, Refuse, Gates, CheckPin, Dispatch, SendCall,
         SendCallUnanswered, TakeNotice, Invalidate, TakeResult, TakePage, CheckPage, AddPage,
         List, Call, Cancel, Compute, Return, Send, vars, upstream
<1>4. ASSUME reader.pc = "notice", ~Invalidate PROVE Unheeded'
  <2>1. UNCHANGED reader
    BY <1>4, ReaderSteps DEF TakeNotice, TakePage, CheckPage, AddPage
  <2> QED  BY <1>4, <2>1 DEF Unheeded
<1>5. ASSUME NEW i \in DOMAIN wire, wire[i].kind = "changed" PROVE Unheeded'
  <2>1. CASE UNCHANGED wire
    BY <1>5, <2>1 DEF Unheeded
  <2>2. CASE TakeNotice
    BY <2>2 DEF TakeNotice, Unheeded, Scanning
  <2>3. CASE TakeResult \/ TakePage
    <3>1. wire # << >> /\ wire' = Tail(wire) /\ Head(wire).kind # "changed"
      BY <2>3 DEF TakeResult, TakePage
    <3>2. i # 1
      BY <1>1, <1>5, <3>1, TakenHead
    <3>3. i - 1 \in DOMAIN wire' /\ wire[i] = wire'[i - 1]
      BY <1>1, <3>1, <3>2, TakenHead
    <3> QED  BY <1>5, <3>3 DEF Unheeded
  <2>4. ASSUME NEW m \in Messages, wire' = Append(wire, m) PROVE Unheeded'
    <3>1. i \in DOMAIN wire' /\ wire'[i] = wire[i]
      BY <1>1, <2>4, AddedLast
    <3> QED  BY <1>5, <3>1 DEF Unheeded
  <2>5. ASSUME NEW n \in Lines, Return(n) PROVE Unheeded'
    <3> DEFINE m == [kind |-> "result", line |-> n, page |-> NoPage]
    <3>1. m \in Messages
      BY NothingTyped DEF Messages
    <3> HIDE DEF m
    <3> QED  BY <2>4, <2>5, <3>1 DEF Return, m
  <2>6. ASSUME NEW m \in ready, Send(m) PROVE Unheeded'
    BY <2>4, <2>6 DEF Send, Typed, TrafficTyped
  <2>7. SendList \/ SendCall \/ (\E n \in Lines : Compute(n)) => UNCHANGED wire
    BY DEF SendList, SendCall, Compute
  <2> QED  BY <1>2, <2>1, <2>2, <2>3, <2>5, <2>6, <2>7, TrafficSteps
<1> QED  BY <1>2, <1>3, <1>4, <1>5 DEF Unheeded

\* A build of one page was one before, or begins with this step.
LEMMA WholeBefore ==
  ASSUME Typed, OnePage, [Next]_vars
  PROVE  /\ OnePage'
         /\ build'.id # 0 /\ ~build'.paginated =>
              \/ build'.id = build.id /\ ~build.paginated
              \/ build'.id = nextID + 1 /\ List("first")
<1> USE DEF OnePage
<1>1. build \in Builds(nextID) /\ nextID \in Nat
  BY BuildsGrow DEF Typed, CatalogTyped
<1>2. NoBuild.id = 0 /\ NoBuild.tools = Nothing /\ ~NoBuild.paginated
  BY DEF NoBuild
<1>3. CASE UNCHANGED catalog
  BY <1>3 DEF catalog
<1>4. CASE invalidate
  BY <1>2, <1>4 DEF invalidate
<1>5. ASSUME NEW id, discard(id) PROVE build' = build \/ build' = NoBuild
  BY <1>5 DEF discard
<1>6. CASE addPage(reader.page)
  <2>1. build' = NoBuild \/ build'.paginated
    BY <1>1, <1>6 DEF addPage, Builds
  <2> QED  BY <1>2, <2>1
<1>7. CASE List("first")
  <2>1. build' = [NoBuild EXCEPT !.id = nextID + 1, !.inFlight = TRUE]
    BY <1>7 DEF List, beginList
  <2>2. build'.id = nextID + 1 /\ build'.inFlight /\ build'.tools = Nothing
    BY <2>1 DEF NoBuild
  <2> QED  BY <1>7, <2>2
<1>8. ASSUME NEW c, c # "first", List(c)
      PROVE  /\ build'.id = build.id /\ build'.paginated = build.paginated
             /\ build'.tools = build.tools
             /\ build'.inFlight = build.inFlight \/ build'.inFlight
  <2>1. build' = IF Continues(c) THEN [build EXCEPT !.inFlight = TRUE] ELSE build
    BY <1>8 DEF List, beginList
  <2> QED  BY <1>1, <2>1 DEF Builds
<1> QED  BY <1>2, <1>3, <1>4, <1>5, <1>6, <1>7, <1>8, CatalogSteps

(***************************************************************************)
(* A line whose build is of one page after a step had that build before    *)
(* it, unless it is the listing that the step began.                       *)
(***************************************************************************)
LEMMA LineWholeBefore ==
  ASSUME Typed, OnePage, [Next]_vars, NEW n \in Lines,
         buildOf'[n] # 0, build'.id = buildOf'[n], ~build'.paginated
  PROVE  \/ buildOf'[n] = buildOf[n] /\ Whole(buildOf[n])
         \/ n = input.line + 1 /\ List("first")
<1>1. buildOf \in [Lines -> 0..nextID] /\ nextID \in Nat
  BY BuildsGrow DEF Typed, ListingsTyped
<1>2. buildOf[n] \in 0..nextID /\ buildOf[n] # nextID + 1
  BY <1>1
<1>3. \/ build'.id = build.id /\ ~build.paginated
      \/ build'.id = nextID + 1 /\ List("first")
  BY WholeBefore
<1>4. CASE buildOf'[n] = buildOf[n]
  BY <1>2, <1>3, <1>4 DEF Whole
<1>5. ASSUME NEW c \in Cursors \cup {"first"}, List(c), buildOf'[n] # buildOf[n]
      PROVE  n = input.line + 1 /\ List("first")
  <2> DEFINE id == IF c = "first" THEN nextID + 1 ELSE IF Continues(c) THEN build.id ELSE 0
  <2>1. buildOf' = [buildOf EXCEPT ![input.line + 1] = id]
    BY <1>5 DEF List
  <2>2. n = input.line + 1 /\ buildOf'[n] = id
    <3> HIDE DEF id
    <3> QED  BY <1>1, <1>5, <2>1
  <2>3. CASE c = "first"
    BY <1>5, <2>2, <2>3
  <2>4. CASE c # "first"
    <3>1. Continues(c) /\ id = build.id
      BY <2>2, <2>4
    <3>2. build.paginated /\ build' = [build EXCEPT !.inFlight = TRUE]
      BY <1>5, <2>4, <3>1 DEF OnePage, Continues, List, beginList
    <3>3. build'.paginated
      BY <3>2 DEF Typed, CatalogTyped, Builds
    <3> QED  BY <3>3
  <2> QED  BY <2>3, <2>4
<1>6. CASE TakePage
  <2>1. buildOf' = [buildOf EXCEPT ![Head(wire).line] = 0]
    BY <1>6 DEF TakePage
  <2>2. buildOf'[n] = buildOf[n]
    BY <1>1, <2>1
  <2> QED  BY <1>4, <2>2
<1>7. ASSUME NEW k \in Lines, Compute(k) PROVE buildOf'[n] = buildOf[n]
  BY <1>7 DEF Compute
<1> QED  BY <1>4, <1>5, <1>6, <1>7, ListingSteps

LEMMA AsksFirstKept ==
  ASSUME Typed, OnePage, AsksFirst, [Next]_vars
  PROVE  AsksFirst'
<1>1. /\ tool \in [Lines -> Tools \cup {""}] /\ cursor \in [Lines -> Cursors \cup {"first", ""}]
      /\ \A n \in Lines : n > input.line => buildOf[n] = 0
  BY DEF Typed, InputTyped, ListingsTyped
<1>0. /\ input.line \in Nat /\ asked \subseteq 1..input.line
      /\ input.line + 1 \notin 1..input.line
  <2>1. input.line \in Nat
    BY LineGrows DEF Typed
  <2> QED  BY <2>1 DEF Typed, TrafficTyped
<1>2. input.pc = "listing" => input.line \notin asked
  BY DEF AsksFirst
<1>3. ASSUME input'.pc = "listing"
      PROVE  \/ UNCHANGED input
             \/ /\ input'.line = input.line + 1 /\ UNCHANGED asked
                /\ \E c \in Cursors \cup {"first"} : List(c)
  <2>1. DOMAIN input = {"pc", "line"}
    BY DEF Typed, InputTyped
  <2>2. ~\E pc \in {"scan", "over", "refused", "allowed", "dispatching", "sending"} : Goto(pc)
    BY <1>3, <2>1 DEF Goto
  <2>3. ~\E pc \in {"scan", "refused", "gates"} : NextLine(pc)
    BY <1>3 DEF NextLine
  <2>4. ~(RefuseList \/ SendList \/ SendListFails \/ Refuse \/ Gates \/ CheckPin \/ Dispatch
           \/ SendCall \/ SendCallUnanswered)
    BY <2>2, <2>3 DEF RefuseList, SendList, SendListFails, Refuse, Gates, CheckPin, Dispatch,
                      SendCall, SendCallUnanswered
  <2>5. ~\E t \in Tools : Call(t)
    BY <2>3 DEF Call
  <2>6. ASSUME NEW c \in Cursors \cup {"first"}, List(c)
        PROVE  input'.line = input.line + 1 /\ UNCHANGED asked
    BY <2>6 DEF List, NextLine, upstream
  <2> QED  BY <2>4, <2>5, <2>6, InputSteps
<1>4. asked' \subseteq asked \cup {input.line}
  BY TrafficSteps DEF SendList, SendCall, TakeNotice, TakeResult, TakePage, Change, Compute, Return,
     Send, upstream
<1>5. input.line \in asked' => input.line \in asked \/ SendList \/ SendCall
  BY TrafficSteps DEF TakeNotice, TakeResult, TakePage, Change, Compute, Return, Send, upstream
<1>6. SendList \/ SendCall => input'.pc = "scan"
  <2>1. DOMAIN input = {"pc", "line"}
    BY DEF Typed, InputTyped
  <2> QED  BY <2>1 DEF SendList, SendCall, Goto
<1>7. input'.pc = "listing" => input'.line \notin asked'
  <2> SUFFICES ASSUME input'.pc = "listing" PROVE input'.line \notin asked'
    OBVIOUS
  <2>1. CASE UNCHANGED input
    BY <1>2, <1>5, <1>6, <2>1
  <2>2. CASE input'.line = input.line + 1 /\ UNCHANGED asked
    BY <1>0, <2>2
  <2> QED  BY <1>3, <2>1, <2>2
<1>8. ASSUME NEW n \in Lines, buildOf'[n] # 0, build'.id = buildOf'[n], ~build'.paginated,
             tool'[n] = "", n \in asked' \/ (input'.pc = "listing" /\ n = input'.line)
      PROVE  cursor'[n] = "first"
  <2>1. CASE n = input.line + 1 /\ List("first")
    <3>1. cursor' = [cursor EXCEPT ![input.line + 1] = "first"]
      BY <2>1 DEF List
    <3> QED  BY <1>1, <2>1, <3>1
  <2>2. CASE buildOf'[n] = buildOf[n] /\ Whole(buildOf[n])
    <3>0. n \in Nat /\ ~(n > input.line)
      <4>1. ~(n > input.line)
        BY <1>1, <2>2 DEF Whole
      <4> QED  BY <4>1 DEF Lines
    <3>1. n \in Nat /\ n <= input.line /\ n # input.line + 1
      BY <1>0, <3>0
    <3>2. tool[n] = ""
      <4>1. ASSUME NEW t \in Tools, Call(t) PROVE tool'[n] = tool[n]
        BY <1>1, <3>1, <4>1 DEF Call
      <4>2. ~(\E t \in Tools : Call(t)) => UNCHANGED tool
        BY InputSteps DEF RefuseList, SendList, SendListFails, Refuse, Gates, CheckPin, Dispatch,
           SendCall, SendCallUnanswered, List, client
      <4> QED  BY <1>8, <4>1, <4>2
    <3>3. n \in asked \/ (input.pc = "listing" /\ n = input.line)
      <4>1. ~(SendCall /\ n = input.line)
        <5>1. SendCall => tool[input.line] \in Tools
          BY DEF SendCall, Deciding, Typed, InputTyped
        <5> QED  BY <3>2, <5>1, ToolsAssumption
      <4>2. SendList => input.pc = "listing"
        BY DEF SendList
      <4> QED  BY <1>3, <1>4, <1>5, <1>8, <3>1, <4>1, <4>2
    <3>4. cursor[n] = "first"
      BY <2>2, <3>2, <3>3 DEF AsksFirst
    <3>5. ~Compute(n)
      <4>1. Compute(n) => n \in asked /\ asked' = asked \ {n} /\ UNCHANGED input
        BY DEF Compute
      <4> QED  BY <1>2, <1>8, <4>1
    <3>6. ASSUME NEW k \in Lines, k # n, Compute(k) PROVE cursor'[n] = cursor[n]
      BY <1>1, <3>6 DEF Compute
    <3>7. ASSUME NEW c, List(c) PROVE cursor'[n] = cursor[n]
      BY <1>1, <3>1, <3>7 DEF List
    <3>8. TakePage => UNCHANGED cursor
      BY DEF TakePage
    <3> QED  BY <3>4, <3>5, <3>6, <3>7, <3>8, ListingSteps
  <2> QED  BY <1>8, <2>1, <2>2, LineWholeBefore
<1> QED  BY <1>7, <1>8 DEF AsksFirst, Whole

\* The catalog is dropped: nothing is left that could be out of date.
LEMMA Dropped ==
  ASSUME invalidate
  PROVE  PagesCurrent' /\ PublishedCurrent'
<1>1. build' = NoBuild /\ published' = Nothing
  BY DEF invalidate
<1>2. build'.id = 0
  BY <1>1 DEF NoBuild
<1>3. PagesCurrent'
  BY <1>2 DEF PagesCurrent, Whole
<1>4. PublishedCurrent'
  BY <1>1 DEF PublishedCurrent, Current, Nothing
<1> QED  BY <1>3, <1>4

(***************************************************************************)
(* While no notice is unheeded and the definitions stand, what a build of  *)
(* one page may still publish was computed from them.                      *)
(***************************************************************************)
LEMMA PagesKept ==
  ASSUME Typed, OnePage, AsksFirst, PagesCurrent, [Next]_vars, ~Unheeded, defs' = defs
  PROVE  PagesCurrent'
<1> DEFINE Fits(f) == \A t \in Tools : f[t] \in {defs[t], "unobserved"}
           Stays(n) == buildOf'[n] # 0 /\ build'.id = buildOf'[n] /\ ~build'.paginated
<1>1. /\ \A m \in ready : m.kind = "page" /\ Whole(buildOf[m.line]) => Fits(m.page.tools)
      /\ \A i \in DOMAIN wire :
           wire[i].kind = "page" /\ Whole(buildOf[wire[i].line]) => Fits(wire[i].page.tools)
      /\ reader.pc \in {"page", "filtered"} /\ Whole(reader.build) => Fits(reader.page.tools)
  BY DEF PagesCurrent, Current
<1>2. /\ input.line \in Nat /\ wire \in Seq(Messages)
      /\ \A m \in ready : m \in Messages /\ m.line <= input.line
      /\ \A i \in DOMAIN wire : wire[i] \in Messages /\ wire[i].line <= input.line
  <2>1. input.line \in Nat /\ wire \in Seq(Messages)
    BY LineGrows DEF Typed, TrafficTyped
  <2> QED  BY <2>1, ElementOfSeq, LenProperties DEF Typed, TrafficTyped
<1>3. ASSUME NEW n \in Lines, n <= input.line, Stays(n) PROVE Whole(buildOf[n])
  <2>1. n # input.line + 1
    BY <1>2, <1>3
  <2> QED  BY <1>3, <2>1, LineWholeBefore
<1>4. \A m \in Messages : m.kind = "page" => m.line \in Lines
  BY DEF Messages
<1>5. ASSUME NEW m \in ready', m.kind = "page", Stays(m.line) PROVE Fits(m.page.tools)
  <2>1. CASE m \in ready
    BY <1>1, <1>2, <1>3, <1>4, <1>5, <2>1
  <2>2. ASSUME NEW n \in Lines, Compute(n), m \notin ready PROVE Fits(m.page.tools)
    <3>1. PICK p \in Pages(cursor[n]) \cup {[NoPage EXCEPT !.kind = k] : k \in {"error", "large"}} :
            ready' = ready \cup {[kind |-> "page", line |-> n, page |-> p]}
      BY <2>2 DEF Compute
    <3>2. m = [kind |-> "page", line |-> n, page |-> p]
      BY <1>5, <2>2, <3>1
    <3>3. m.line = n /\ m.page = p
      BY <3>2
    <3>4. CASE p \in Pages(cursor[n])
      <4>1. n \in asked /\ tool[n] = ""
        BY <2>2 DEF Compute
      <4>2. n <= input.line
        <5>1. asked \subseteq 1..input.line
          BY DEF Typed, TrafficTyped
        <5>2. n \in 1..input.line
          BY <4>1, <5>1
        <5> QED  BY <1>2, <5>2
      <4>3. Whole(buildOf[n])
        BY <1>3, <1>5, <3>3, <4>2
      <4>4. cursor[n] = "first"
        BY <4>1, <4>3 DEF AsksFirst
      <4> QED  BY <3>3, <3>4, <4>4, PageTyped
    <3>5. CASE p \in {[NoPage EXCEPT !.kind = k] : k \in {"error", "large"}}
      <4>1. p.tools = Nothing
        BY <3>5 DEF NoPage
      <4> QED  BY <3>3, <4>1 DEF Nothing
    <3> QED  BY <3>1, <3>4, <3>5
  <2>3. ready' \subseteq ready \/ \E n \in Lines : Compute(n)
    BY TrafficSteps DEF SendList, SendCall, TakeNotice, TakeResult, TakePage, Change, Return, Send,
       upstream
  <2> QED  BY <1>5, <2>1, <2>2, <2>3
<1>6. ASSUME NEW i \in DOMAIN wire', wire'[i].kind = "page", Stays(wire'[i].line)
      PROVE  Fits(wire'[i].page.tools)
  <2>1. ASSUME NEW j \in DOMAIN wire, wire'[i] = wire[j] PROVE Fits(wire'[i].page.tools)
    BY <1>1, <1>2, <1>3, <1>4, <1>6, <2>1
  <2>2. CASE UNCHANGED wire
    BY <1>6, <2>1, <2>2
  <2>3. CASE TakeNotice \/ TakeResult \/ TakePage
    <3>1. wire # << >> /\ wire' = Tail(wire)
      BY <2>3 DEF TakeNotice, TakeResult, TakePage
    <3>2. i + 1 \in DOMAIN wire /\ wire'[i] = wire[i + 1]
      BY <1>2, <1>6, <3>1, TakenHead
    <3> QED  BY <2>1, <3>2
  <2>4. ASSUME NEW m \in Messages, wire' = Append(wire, m), m.kind = "page" => m \in ready
        PROVE  Fits(wire'[i].page.tools)
    <3>1. (i \in DOMAIN wire /\ wire'[i] = wire[i]) \/ wire'[i] = m
      BY <1>2, <1>6, <2>4, AddedLast
    <3>2. CASE wire'[i] = m
      BY <1>1, <1>2, <1>3, <1>4, <1>6, <2>4, <3>2
    <3> QED  BY <2>1, <3>1, <3>2
  <2>5. ASSUME NEW t \in Tools, Change(t) PROVE Fits(wire'[i].page.tools)
    <3> DEFINE m == [kind |-> "changed", line |-> 0, page |-> NoPage]
    <3>1. m \in Messages /\ m.kind # "page"
      BY NothingTyped DEF Messages
    <3>2. wire' = Append(wire, m)
      BY <2>5 DEF Change
    <3> HIDE DEF m
    <3> QED  BY <2>4, <3>1, <3>2
  <2>6. ASSUME NEW n \in Lines, Return(n) PROVE Fits(wire'[i].page.tools)
    <3> DEFINE m == [kind |-> "result", line |-> n, page |-> NoPage]
    <3>1. m \in Messages /\ m.kind # "page"
      BY NothingTyped DEF Messages
    <3>2. wire' = Append(wire, m)
      BY <2>6 DEF Return
    <3> HIDE DEF m
    <3> QED  BY <2>4, <3>1, <3>2
  <2>7. ASSUME NEW m \in ready, Send(m) PROVE Fits(wire'[i].page.tools)
    BY <1>2, <2>4, <2>7 DEF Send
  <2>8. SendList \/ SendCall \/ (\E n \in Lines : Compute(n)) => UNCHANGED wire
    BY DEF SendList, SendCall, Compute
  <2> QED  BY <2>2, <2>3, <2>5, <2>6, <2>7, <2>8, TrafficSteps
<1>7. ASSUME reader'.pc \in {"page", "filtered"}, reader'.build # 0, build'.id = reader'.build,
             ~build'.paginated
      PROVE  Fits(reader'.page.tools)
  <2>1. ASSUME reader.pc \in {"page", "filtered"}, reader'.build = reader.build,
               reader'.page = reader.page
        PROVE  Fits(reader'.page.tools)
    <3>1. reader.build \in 0..nextID /\ nextID \in Nat
      BY BuildsGrow DEF Typed, ReaderTyped
    <3>2. reader.build # nextID + 1
      BY <3>1
    <3>3. Whole(reader.build)
      BY <1>7, <2>1, <3>2, WholeBefore DEF Whole
    <3> QED  BY <1>1, <2>1, <3>3
  <2>2. CASE UNCHANGED reader
    BY <1>7, <2>1, <2>2
  <2>3. CASE TakeNotice \/ Invalidate \/ AddPage
    BY <1>7, <2>3 DEF TakeNotice, Invalidate, AddPage, Relay, Scanning
  <2>4. CASE TakePage
    <3>1. /\ wire # << >> /\ Head(wire).kind = "page"
          /\ reader'.build = buildOf[Head(wire).line] /\ reader'.page = Head(wire).page
      BY <2>4 DEF TakePage
    <3>2. Head(wire) = wire[1] /\ 1 \in DOMAIN wire
      BY <1>2, <3>1, TakenHead
    <3>3. UNCHANGED build
      BY <2>4 DEF TakePage, catalog
    <3>4. Whole(buildOf[wire[1].line])
      BY <1>7, <3>1, <3>2, <3>3 DEF Whole
    <3> QED  BY <1>1, <3>1, <3>2, <3>4
  <2>5. CASE CheckPage
    <3>1. reader.pc = "page" /\ DOMAIN reader = {"pc", "line", "build", "page", "paginated"}
      BY <2>5 DEF CheckPage, Typed, ReaderTyped
    <3>2. \/ reader' = Scanning
          \/ \E id \in {reader.build, 0} : \E p :
               reader' = [reader EXCEPT !.pc = "filtered", !.build = id, !.paginated = p]
      BY <2>5 DEF CheckPage, Relay
    <3>3. reader'.build = reader.build /\ reader'.page = reader.page
      <4>1. reader' # Scanning
        BY <1>7 DEF Scanning
      <4>2. PICK id \in {reader.build, 0} : \E p :
              reader' = [reader EXCEPT !.pc = "filtered", !.build = id, !.paginated = p]
        BY <3>2, <4>1
      <4>3. reader'.build = id /\ reader'.page = reader.page
        BY <3>1, <4>2
      <4> QED  BY <1>7, <4>3
    <3> QED  BY <2>1, <3>1, <3>3
  <2> QED  BY <2>2, <2>3, <2>4, <2>5, ReaderSteps
<1> QED  BY <1>5, <1>6, <1>7 DEF PagesCurrent, Current, Whole

LEMMA PublishedKept ==
  ASSUME Typed, OnePage, PagesCurrent, PublishedCurrent, [Next]_vars, ~Unheeded, defs' = defs
  PROVE  PublishedCurrent'
<1> DEFINE Fits(f) == \A t \in Tools : f[t] \in {defs[t], "unobserved"}
<1>1. ~publishedPaginated => Fits(published)
  BY DEF PublishedCurrent, Current
<1>2. ~publishedPaginated' => Fits(published')
  <2>1. CASE UNCHANGED catalog \/ \E id : discard(id)
    BY <1>1, <2>1 DEF catalog, discard
  <2>2. CASE invalidate
    BY <2>2 DEF invalidate, Nothing
  <2>3. CASE AddPage /\ Active(reader.build) /\ addPage(reader.page)
    <3>1. CASE reader.page.next = "end"
      <4>1. /\ publishedPaginated' = build.paginated
            /\ published' = [t \in Tools |-> IF reader.page.tools[t] = "unobserved"
                                            THEN build.tools[t] ELSE reader.page.tools[t]]
        BY <2>3, <3>1 DEF addPage
      <4>2. ~build.paginated => build.tools = Nothing /\ Fits(reader.page.tools)
        <5>1. ~build.paginated => Whole(reader.build)
          BY <2>3 DEF Active, Whole
        <5>2. reader.pc = "filtered"
          BY <2>3 DEF AddPage
        <5> QED  BY <5>1, <5>2 DEF OnePage, PagesCurrent, Current
      <4> QED  BY <4>1, <4>2 DEF Nothing
    <3>2. CASE reader.page.next # "end"
      BY <1>1, <2>3, <3>2 DEF addPage
    <3> QED  BY <3>1, <3>2
  <2>4. ASSUME NEW c, List(c) PROVE ~publishedPaginated' => Fits(published')
    <3>1. /\ published' = IF c # "first" /\ Continues(c) THEN published ELSE Nothing
          /\ publishedPaginated' = (publishedPaginated /\ c # "first" /\ Continues(c))
      BY <2>4 DEF List, beginList
    <3> QED  BY <1>1, <3>1 DEF Nothing
  <2> QED  BY <2>1, <2>2, <2>3, <2>4, CatalogSteps
<1> QED  BY <1>2 DEF PublishedCurrent, Current

-----------------------------------------------------------------------------
(***************************************************************************)
(* The check of the pin looks at what is published, and the lock it keeps  *)
(* stops the reader from acting on a notice before the row is durable.     *)
(***************************************************************************)
LEMMA DispatchKept ==
  ASSUME Typed, PublishedCurrent, DispatchLocked, ApprovedWhenDispatched, [Next]_vars
  PROVE  DispatchLocked' /\ ApprovedWhenDispatched'
<1>1. /\ DOMAIN input = {"pc", "line"} /\ DOMAIN policy = {"pins", "strict"}
      /\ policy' = policy
  <2>1. policy' = policy
    BY InputSteps DEF RefuseList, SendList, SendListFails, Refuse, Gates, CheckPin, Dispatch,
       SendCall, SendCallUnanswered, List, Call
  <2> QED  BY <2>1 DEF Typed, InputTyped, Policies
<1>2. Constrained' = Constrained
  BY <1>1 DEF Constrained
<1>3. CASE input'.pc # "dispatching"
  BY <1>3 DEF DispatchLocked, ApprovedWhenDispatched
<1>4. CASE CheckPin /\ input'.pc = "dispatching"
  <2> DEFINE n == input.line
             t == tool[n]
  <2>1. input'.line = n /\ UNCHANGED <<tool, defs, reader, wire>>
    BY <1>1, <1>4 DEF CheckPin, Goto, client, upstream
  <2>2. catalogHeld' = Constrained /\ (Constrained => ~Refused(t, observe(t)))
    BY <1>1, <1>4 DEF CheckPin, Goto
  <2>3. t \in Tools
    BY <1>4 DEF CheckPin, Deciding, Typed, InputTyped
  <2>4. CASE t \in policy.pins
    <3>1. observe(t) = "approved"
      BY <2>2, <2>4 DEF Constrained, Refused
    <3>2. ~publishedPaginated /\ published[t] = "approved"
      BY <3>1, GateAssumption DEF observe
    <3>3. defs[t] = "approved" \/ Unheeded
      BY <2>3, <3>2, GateAssumption DEF PublishedCurrent, Current
    <3> HIDE DEF t, n
    <3> QED  BY <1>1, <1>2, <2>1, <2>2, <2>4, <3>3
             DEF DispatchLocked, ApprovedWhenDispatched, Unheeded, t, n
  <2>5. CASE t \notin policy.pins
    <3>1. ~policy.strict
      BY <2>2, <2>5 DEF Constrained, Refused
    <3> QED  BY <1>1, <1>2, <2>1, <2>2, <2>5, <3>1 DEF DispatchLocked, ApprovedWhenDispatched
  <2> QED  BY <2>4, <2>5
<1>5. CASE UNCHANGED <<policy, catalogHeld, input, tool>> /\ input'.pc = "dispatching"
  <2> DEFINE t == tool[input.line]
  <2>1. input' = input /\ tool' = tool /\ catalogHeld' = catalogHeld /\ input.pc = "dispatching"
    BY <1>5
  <2>2. DispatchLocked'
    BY <1>2, <2>1 DEF DispatchLocked
  <2>3. CASE t \in policy.pins
    <3>1. Constrained /\ catalogHeld
      BY <2>1, <2>3 DEF DispatchLocked, Constrained
    <3>2. ~Invalidate
      BY <3>1 DEF Invalidate
    <3>3. defs[t] = "approved" \/ Unheeded
      BY <2>1, <2>3 DEF ApprovedWhenDispatched
    <3>4. defs'[t] = "approved" \/ Unheeded'
      BY <3>2, <3>3, Heeding
    <3> QED  BY <1>1, <2>1, <2>2, <2>3, <3>4 DEF ApprovedWhenDispatched
  <2>4. CASE t \notin policy.pins
    BY <1>1, <2>1, <2>2, <2>4 DEF ApprovedWhenDispatched
  <2> QED  BY <2>3, <2>4
<1>6. \/ input'.pc # "dispatching"
      \/ CheckPin
      \/ UNCHANGED <<policy, catalogHeld, input, tool>>
  <2>1. ASSUME NEW pc, pc # "dispatching", Goto(pc) \/ NextLine(pc) PROVE input'.pc # "dispatching"
    BY <1>1, <2>1 DEF Goto, NextLine
  <2>2. RefuseList \/ SendList \/ SendListFails \/ Refuse \/ Gates \/ Dispatch \/ SendCall
          \/ SendCallUnanswered
          => \E pc \in {"scan", "over", "refused", "allowed", "sending"} : Goto(pc) \/ NextLine(pc)
    BY DEF RefuseList, SendList, SendListFails, Refuse, Gates, Dispatch, SendCall,
           SendCallUnanswered
  <2>3. (\E c \in Cursors \cup {"first"} : List(c)) \/ (\E t \in Tools : Call(t))
          => \E pc \in {"scan", "listing", "refused", "gates"} : NextLine(pc)
    BY DEF List, Call
  <2> QED  BY <2>1, <2>2, <2>3, InputSteps
<1> QED  BY <1>3, <1>4, <1>5, <1>6

LEMMA StepInvariant ==
  IInv /\ [Next]_vars => IInv'
<1> SUFFICES ASSUME IInv, [Next]_vars PROVE IInv'
  OBVIOUS
<1> USE DEF IInv
<1>1. Typed' /\ OnePage' /\ AsksFirst'
  BY TypesKept, WholeBefore, AsksFirstKept
<1>2. DispatchLocked' /\ ApprovedWhenDispatched'
  BY DispatchKept
<1>3. PagesCurrent' /\ PublishedCurrent'
  <2>1. CASE Invalidate
    BY <2>1, Dropped DEF Invalidate
  <2>2. CASE Unheeded'
    BY <2>2 DEF PagesCurrent, PublishedCurrent, Current
  <2>3. CASE ~Unheeded /\ defs' = defs
    BY <2>3, PagesKept, PublishedKept
  <2> QED  BY <2>1, <2>2, <2>3, Heeding
<1> QED  BY <1>1, <1>2, <1>3

(***************************************************************************)
(* The catalog, the lines and the messages keep their types, and a catalog *)
(* is collected or published, never both.                                  *)
(***************************************************************************)
THEOREM TypeCorrect == Spec => []TypeOK
<1>1. Init => IInv
  BY InitInvariant
<1>2. IInv /\ [Next]_vars => IInv'
  BY StepInvariant
<1>3. IInv => TypeOK
  BY TypedSuffices DEF IInv
<1> QED  BY <1>1, <1>2, <1>3, PTL DEF Spec

(***************************************************************************)
(* The durable dispatch of a call to a pinned tool happens while the tool  *)
(* is what the operator approved or the notice of its change has not been  *)
(* acted on, whatever the listings, the upstream and the other calls do.   *)
(***************************************************************************)
THEOREM PinnedDispatchesAreApproved == Spec => []ApprovedWhenDispatched
<1>1. Init => IInv
  BY InitInvariant
<1>2. IInv /\ [Next]_vars => IInv'
  BY StepInvariant
<1>3. IInv => ApprovedWhenDispatched
  BY DEF IInv
<1> QED  BY <1>1, <1>2, <1>3, PTL DEF Spec
-----------------------------------------------------------------------------
(***************************************************************************)
(* What is kept of a line.  A call has no row until its dispatch; from     *)
(* there on it has one observation, held by the request until it is        *)
(* observed and by its card afterwards.                                    *)
(***************************************************************************)
Decided(n, places) == n = input.line /\ input.pc \in places

RowsOf(n) ==
  /\ stated[n] = {} \/ \E o \in Observations \ {NoObservation} : stated[n] = {o}
  /\ tool[n] = "" =>
       /\ stated[n] = {}
       /\ actionObserved[n] = NoObservation /\ cardObserved[n] = NoObservation
  /\ Decided(n, Deciding) => n \notin pending /\ cardObserved[n] = NoObservation
  /\ Decided(n, Deciding \ {"sending"}) => stated[n] = {}
  /\ Decided(n, {"refused", "gates"}) => actionObserved[n] = NoObservation
  /\ Decided(n, {"allowed", "dispatching", "sending"}) => actionObserved[n] # NoObservation
  /\ Decided(n, {"sending"}) => stated[n] = {actionObserved[n]}
  /\ (n \in pending /\ tool[n] # "") =>
       \/ /\ cardObserved[n] = NoObservation /\ actionObserved[n] # NoObservation
          /\ stated[n] = {actionObserved[n]}
       \/ /\ actionObserved[n] = NoObservation /\ cardObserved[n] # NoObservation
          /\ stated[n] = {cardObserved[n]}
  /\ (n \notin pending /\ ~Decided(n, Deciding)) => actionObserved[n] = NoObservation

\* A line is a call or a listing.
LineKinds ==
  /\ \A n \in Lines : n > input.line => tool[n] = ""
  /\ \A n \in Lines : tool[n] # "" => buildOf[n] = 0
  /\ input.pc = "listing" => tool[input.line] = ""

\* A line whose answer the upstream still owes is pending, its answer is of the
\* line's kind, and a call has one result.
AnswersAwaited ==
  /\ \A n \in asked : tool[n] # "" => n \in pending
  /\ \A m \in ready : m.kind = "page" /\ tool[m.line] = ""
  /\ \A i \in DOMAIN wire : wire[i].kind = "page" => tool[wire[i].line] = ""
  /\ \A i \in DOMAIN wire : wire[i].kind = "result" =>
       /\ tool[wire[i].line] # "" /\ wire[i].line \in pending /\ wire[i].line \notin asked
       /\ \A j \in DOMAIN wire :
            (wire[j].kind = "result" /\ wire[j].line = wire[i].line) => j = i

RowsInv ==
  /\ stated \in [Lines -> SUBSET Observations]
  /\ \A n \in Lines : RowsOf(n)
  /\ LineKinds /\ AnswersAwaited

ListingInv == (build.inFlight => build.id # 0) /\ BuildHasListing

-----------------------------------------------------------------------------
\* What is observed of a tool is something: a row always carries a status.
LEMMA ObservationMade ==
  ASSUME NEW t, NEW o PROVE Observation(t, o) # NoObservation
<1>1. PinStatus(t, o) # ""
  BY DEF PinStatus
<1>2. Observation(t, o).status = PinStatus(t, o) /\ NoObservation.status = ""
  BY DEF Observation, NoObservation
<1> QED  BY <1>1, <1>2

LEMMA RowSteps ==
  ASSUME [Next]_vars
  PROVE  \/ UNCHANGED <<input, tool, pending, cardObserved, actionObserved, stated>>
         \/ RefuseList \/ SendList \/ SendListFails \/ Refuse \/ Gates \/ CheckPin \/ Dispatch
         \/ SendCall \/ SendCallUnanswered \/ TakeResult \/ TakePage
         \/ \E c \in Cursors \cup {"first"} : List(c)
         \/ \E t \in Tools : Call(t)
         \/ \E n \in Lines : Cancel(n)
BY DEF Next, TakeNotice, Invalidate, CheckPage, AddPage, Change, Compute, Return, Send, vars,
       client, observed

LEMMA RowsFacts ==
  ASSUME Typed
  PROVE  /\ input.line \in Nat /\ DOMAIN input = {"pc", "line"}
         /\ tool \in [Lines -> Tools \cup {""}] /\ "" \notin Tools
         /\ cardObserved \in [Lines -> Observations] /\ actionObserved \in [Lines -> Observations]
         /\ pending \subseteq 1..input.line /\ asked \subseteq 1..input.line
         /\ \A n \in Lines : n \in Nat
         /\ input.pc \in Deciding => input.line \in Lines /\ tool[input.line] \in Tools
         /\ input.pc = "listing" => input.line \in Lines
         /\ published \in Found
         /\ wire \in Seq(Messages)
         /\ \A i \in DOMAIN wire : wire[i] \in Messages /\ wire[i].line <= input.line
         /\ ready \subseteq Messages /\ \A m \in ready : m.line <= input.line
         /\ buildOf \in [Lines -> 0..nextID] /\ nextID \in Nat
<1>1. input.line \in Nat /\ DOMAIN input = {"pc", "line"}
  <2>1. input.line \in 0..MaxLines /\ DOMAIN input = {"pc", "line"}
    BY DEF Typed, InputTyped
  <2> QED  BY <2>1, GateAssumption
<1>2. wire \in Seq(Messages) /\ \A i \in DOMAIN wire : wire[i] \in Messages
  BY ElementOfSeq, LenProperties DEF Typed, TrafficTyped
<1>3. nextID \in Nat
  BY GateAssumption DEF Typed, CatalogTyped
<1>4. \A n \in Lines : n \in Nat
  BY GateAssumption DEF Lines
<1> QED  BY <1>1, <1>2, <1>3, <1>4, ToolsAssumption
         DEF Typed, InputTyped, ObservedTyped, TrafficTyped, CatalogTyped, ListingsTyped

LEMMA NextUnused ==
  ASSUME Typed, NEW n \in Lines, n = input.line + 1
  PROVE  n > input.line /\ n \notin pending /\ n \notin asked
<1>1. input.line \in Nat
  BY RowsFacts
<1>2. n > input.line /\ n \notin 1..input.line
  BY <1>1
<1>3. pending \subseteq 1..input.line /\ asked \subseteq 1..input.line
  BY RowsFacts
<1> QED  BY <1>2, <1>3

LEMMA Moves ==
  ASSUME Typed, NEW pc, Goto(pc) \/ NextLine(pc)
  PROVE  input'.pc = pc
<1>1. DOMAIN input = {"pc", "line"}
  BY DEF Typed, InputTyped
<1>2. Goto(pc) => input'.pc = pc
  BY <1>1 DEF Goto
<1>3. NextLine(pc) => input'.pc = pc
  BY DEF NextLine
<1> QED  BY <1>2, <1>3

(***************************************************************************)
(* Each line's rows keep agreeing with what is kept of it.                 *)
(***************************************************************************)
LEMMA RowsKept ==
  ASSUME Typed, RowsInv, [Next]_vars, NEW n \in Lines
  PROVE  RowsOf(n)'
<1> DEFINE Alike == /\ stated'[n] = stated[n] /\ tool'[n] = tool[n]
                    /\ actionObserved'[n] = actionObserved[n]
                    /\ cardObserved'[n] = cardObserved[n]
           Observed(o) == /\ actionObserved'[n] = NoObservation /\ cardObserved'[n] = o
                          /\ o \in Observations \ {NoObservation} /\ stated'[n] = {o}
<1>1. RowsOf(n) /\ LineKinds /\ AnswersAwaited
  BY DEF RowsInv
<1>0. /\ DOMAIN input = {"pc", "line"} /\ "" \notin Tools
      /\ tool \in [Lines -> Tools \cup {""}]
      /\ cardObserved \in [Lines -> Observations] /\ actionObserved \in [Lines -> Observations]
      /\ input.pc \in Deciding => input.line \in Lines /\ tool[input.line] \in Tools
      /\ input.pc = "listing" => input.line \in Lines
  BY RowsFacts
<1> USE <1>0
<1>2. ASSUME Alike, n \in pending' <=> n \in pending, ~Decided(n, Deciding), ~Decided(n, Deciding)'
      PROVE  RowsOf(n)'
  BY <1>1, <1>2 DEF RowsOf, Decided, Deciding
<1>3. ASSUME Alike, n \in pending' <=> n \in pending, input' = input
      PROVE  RowsOf(n)'
  BY <1>1, <1>3 DEF RowsOf, Decided, Deciding
<1>4. CASE UNCHANGED <<input, tool, pending, cardObserved, actionObserved, stated>>
  BY <1>3, <1>4
<1>5. CASE RefuseList \/ SendListFails \/ \E c \in Cursors \cup {"first"} : List(c)
  <2>1. /\ UNCHANGED <<tool, pending, cardObserved, actionObserved, stated>>
        /\ input.pc \in {"scan", "listing"} /\ input'.pc \in {"scan", "listing", "over"}
    <3>1. ASSUME NEW pc, Goto(pc) \/ NextLine(pc) PROVE input'.pc = pc
      BY <3>1, Moves
    <3>2. CASE RefuseList \/ SendListFails
      BY <3>1, <3>2 DEF RefuseList, SendListFails, NextLine, observed, client
    <3>3. CASE \E c \in Cursors \cup {"first"} : List(c)
      BY <3>1, <3>3 DEF List, NextLine, observed
    <3> QED  BY <1>5, <3>2, <3>3
  <2> QED  BY <1>2, <2>1 DEF Decided, Deciding
<1>6. CASE SendList
  <2>1. /\ UNCHANGED <<tool, cardObserved, actionObserved, stated>>
        /\ input.pc = "listing" /\ input'.pc = "scan" /\ pending' = pending \cup {input.line}
    BY <1>6 DEF SendList, Goto, observed, client
  <2>2. CASE n = input.line
    <3>1. tool[n] = ""
      BY <1>1, <2>1, <2>2 DEF AnswersAwaited, LineKinds
    <3> QED  BY <1>1, <2>1, <3>1 DEF RowsOf, Decided, Deciding
  <2>3. CASE n # input.line
    BY <1>2, <2>1, <2>3 DEF Decided, Deciding
  <2> QED  BY <2>2, <2>3
<1>7. CASE Refuse
  <2>1. /\ UNCHANGED <<tool, pending, cardObserved, actionObserved, stated>>
        /\ input.pc = "refused" /\ input'.pc = "scan"
    BY <1>7 DEF Refuse, Goto, observed, client
  <2> QED  BY <1>1, <2>1 DEF RowsOf, Decided, Deciding
<1>8. CASE Gates
  <2>1. /\ UNCHANGED <<tool, pending, cardObserved, stated>>
        /\ input.pc = "gates" /\ input'.line = input.line
    BY <1>8 DEF Gates, Goto, client
  <2>2. CASE input'.pc = "refused" /\ UNCHANGED actionObserved
    BY <1>1, <2>1, <2>2 DEF RowsOf, Decided, Deciding
  <2>3. CASE input'.pc = "allowed" /\ \E o \in Observations \ {NoObservation} : Keep(input.line, o)
    <3>1. CASE n = input.line
      <4>1. PICK o \in Observations \ {NoObservation} : actionObserved'[n] = o
        BY <1>1, <2>3, <3>1 DEF Keep
      <4>2. n \notin pending' /\ cardObserved'[n] = NoObservation /\ stated'[n] = {}
        BY <1>1, <2>1, <3>1 DEF RowsOf, Decided, Deciding
      <4>3. tool'[n] # ""
        BY <2>1, <3>1 DEF Deciding
      <4>4. Decided(n, Deciding)' /\ ~Decided(n, {"refused", "gates"})' /\ ~Decided(n, {"sending"})'
        BY <2>1, <2>3, <3>1 DEF Decided, Deciding
      <4> QED  BY <4>1, <4>2, <4>3, <4>4 DEF RowsOf
    <3>2. CASE n # input.line
      BY <1>1, <2>1, <2>3, <3>2 DEF RowsOf, Decided, Deciding, Keep
    <3> QED  BY <3>1, <3>2
  <2>4. ASSUME NEW t \in Tools PROVE Observation(t, observe(t)) \in Observations \ {NoObservation}
    BY RowsFacts, ObservationMade, ObservationTyped, ObserveTyped
  <2> HIDE DEF Alike, Observed
  <2>5. tool[input.line] \in Tools
    BY <2>1 DEF Deciding
  <2> QED  BY <1>8, <2>2, <2>3, <2>4, <2>5 DEF Gates, Goto
<1>9. CASE CheckPin
  <2>1. /\ UNCHANGED <<tool, pending, cardObserved, stated>>
        /\ input.pc = "allowed" /\ input'.line = input.line
    BY <1>9 DEF CheckPin, Goto, client
  <2>2. CASE input'.pc = "scan" /\ Keep(input.line, NoObservation)
    BY <1>1, <2>1, <2>2 DEF RowsOf, Decided, Deciding, Keep
  <2>3. CASE /\ input'.pc = "dispatching"
             /\ \/ UNCHANGED actionObserved
                \/ \E o \in Observations \ {NoObservation} : Keep(input.line, o)
    BY <1>1, <2>1, <2>3 DEF RowsOf, Decided, Deciding, Keep
  <2>4. ASSUME NEW t \in Tools PROVE Observation(t, observe(t)) \in Observations \ {NoObservation}
    BY RowsFacts, ObservationMade, ObservationTyped, ObserveTyped
  <2>5. tool[input.line] \in Tools
    BY <2>1 DEF Deciding
  <2> QED  BY <1>9, <2>2, <2>3, <2>4, <2>5 DEF CheckPin, Goto
<1>10. CASE Dispatch
  <2>1. /\ UNCHANGED <<tool, pending, cardObserved>>
        /\ input.pc = "dispatching" /\ input'.line = input.line
    BY <1>10 DEF Dispatch, Goto, client
  <2>2. CASE input'.pc = "scan" /\ Keep(input.line, NoObservation) /\ UNCHANGED stated
    BY <1>1, <2>1, <2>2 DEF RowsOf, Decided, Deciding, Keep
  <2>3. CASE input'.pc = "sending" /\ Row(input.line, actionObserved[input.line])
               /\ UNCHANGED actionObserved
    <3>1. CASE n = input.line
      <4>1. stated[n] = {} /\ actionObserved[n] \in Observations \ {NoObservation}
        BY <1>1, <2>1, <3>1 DEF RowsOf, Decided, Deciding
      <4>2. stated'[n] = {actionObserved[n]}
        BY <2>3, <3>1, <4>1 DEF RowsInv, Row
      <4> QED  BY <1>1, <2>1, <2>3, <3>1, <4>1, <4>2 DEF RowsOf, Decided, Deciding
    <3>2. CASE n # input.line
      BY <1>2, <2>1, <2>3, <3>2 DEF RowsInv, Decided, Row
    <3> QED  BY <3>1, <3>2
  <2> QED  BY <1>10, <2>2, <2>3 DEF Dispatch, Goto
<1>11. CASE SendCall
  <2>1. /\ UNCHANGED <<tool, cardObserved, actionObserved, stated>>
        /\ input.pc = "sending" /\ input'.pc = "scan" /\ pending' = pending \cup {input.line}
    BY <1>11 DEF SendCall, Goto, observed, client
  <2>2. CASE n = input.line
    BY <1>1, <2>1, <2>2 DEF RowsOf, Decided, Deciding
  <2>3. CASE n # input.line
    BY <1>2, <2>1, <2>3 DEF Decided, Deciding
  <2> QED  BY <2>2, <2>3
<1>12. CASE SendCallUnanswered
  <2>1. /\ UNCHANGED <<tool, pending, cardObserved>>
        /\ input.pc = "sending" /\ input'.pc \in {"scan", "over"}
        /\ Row(input.line, actionObserved[input.line]) /\ Keep(input.line, NoObservation)
    BY <1>12 DEF SendCallUnanswered, Goto, client
  <2>2. CASE n = input.line
    <3>1. stated'[n] = stated[n] /\ actionObserved'[n] = NoObservation
      BY <1>1, <2>1, <2>2 DEF RowsInv, Row, Keep, RowsOf, Decided
    <3> QED  BY <1>1, <2>1, <2>2, <3>1 DEF RowsOf, Decided, Deciding
  <2>3. CASE n # input.line
    BY <1>2, <2>1, <2>3 DEF RowsInv, Decided, Deciding, Row, Keep
  <2> QED  BY <2>2, <2>3
<1>13. ASSUME NEW t \in Tools, Call(t) PROVE RowsOf(n)'
  <2> DEFINE k == input.line + 1
  <2>1. /\ UNCHANGED <<pending, cardObserved, actionObserved, stated>>
        /\ input.pc = "scan" /\ input'.line = k /\ input'.pc \in {"refused", "gates"}
        /\ tool' = [tool EXCEPT ![k] = t]
    BY <1>13 DEF Call, NextLine, observed
  <2>2. CASE n = k
    <3>2. n > input.line /\ n \notin pending
      BY <2>2, NextUnused
    <3>3. tool[n] = ""
      BY <1>1, <3>2 DEF AnswersAwaited, LineKinds
    <3> QED  BY <1>1, <2>1, <2>2, <3>2, <3>3 DEF RowsOf, Decided, Deciding
  <2>3. CASE n # k
    BY <1>2, <2>1, <2>3 DEF Decided, Deciding
  <2> QED  BY <2>2, <2>3
<1>14. ASSUME NEW m \in Lines, tool[m] # "", m \in pending, Observe(m), UNCHANGED <<input, tool>>,
              \/ pending' = pending
              \/ pending' = pending \ {m}
       PROVE  RowsOf(n)'
  <2>1. CASE n = m
    <3>1. RowsOf(m) /\ ~Decided(m, Deciding)
      BY <1>1, <1>14, <2>1 DEF RowsOf
    <3>2. PICK o \in Observations \ {NoObservation} :
            /\ o = IF cardObserved[m] # NoObservation THEN cardObserved[m] ELSE actionObserved[m]
            /\ stated[m] = {o}
      BY <1>14, <3>1 DEF RowsOf
    <3>3. Observed(o)
      BY <1>14, <2>1, <3>2 DEF Observe, Row, Keep, RowsInv
    <3>4. ~Decided(n, Deciding)'
      BY <1>14, <2>1, <3>1 DEF Decided
    <3> HIDE DEF Alike
    <3> QED  BY <1>14, <2>1, <3>3, <3>4 DEF RowsOf, Decided, Deciding
  <2>2. CASE n # m
    BY <1>3, <1>14, <2>2 DEF Observe, Row, Keep, RowsInv
  <2> QED  BY <2>1, <2>2
<1>15. ASSUME NEW m \in Lines, Cancel(m) PROVE RowsOf(n)'
  BY <1>14, <1>15 DEF Cancel, client
<1>16. CASE TakeResult
  <2>1. Head(wire) = wire[1] /\ 1 \in DOMAIN wire
    BY <1>16, RowsFacts, TakenHead DEF TakeResult
  <2>2. wire[1].line \in pending /\ tool[wire[1].line] # "" /\ wire[1].line \in Lines
    <3>1. wire[1].kind = "result" /\ wire[1] \in Messages
      BY <1>16, <2>1, RowsFacts DEF TakeResult
    <3>2. wire[1].line \in Lines
      BY <3>1 DEF Messages
    <3> QED  BY <1>1, <2>1, <3>1, <3>2 DEF AnswersAwaited, LineKinds
  <2> QED  BY <1>14, <1>16, <2>1, <2>2 DEF TakeResult, client
<1>17. CASE TakePage
  <2>1. Head(wire) = wire[1] /\ 1 \in DOMAIN wire
    BY <1>17, RowsFacts, TakenHead DEF TakePage
  <2>2. tool[wire[1].line] = ""
    BY <1>1, <1>17, <2>1 DEF AnswersAwaited, LineKinds, TakePage
  <2>3. /\ UNCHANGED <<input, tool, cardObserved, actionObserved, stated>>
        /\ pending' = pending \ {wire[1].line}
    BY <1>17, <2>1 DEF TakePage, observed
  <2>4. CASE n = wire[1].line
    BY <1>1, <2>2, <2>3, <2>4 DEF RowsOf, Decided
  <2>5. CASE n # wire[1].line
    BY <1>3, <2>3, <2>5
  <2> QED  BY <2>4, <2>5
<1> QED  BY <1>4, <1>5, <1>6, <1>7, <1>8, <1>9, <1>10, <1>11, <1>12, <1>13, <1>15, <1>16, <1>17,
            RowSteps

(***************************************************************************)
(* Lines keep their kind, and so do their answers.                         *)
(***************************************************************************)
LEMMA ToolSteps ==
  ASSUME Typed, LineKinds, [Next]_vars
  PROVE  /\ \A n \in Lines : n <= input.line => tool'[n] = tool[n]
         /\ \A n \in Lines : n > input'.line => tool'[n] = ""
         /\ \A n \in Lines : tool'[n] # "" => tool'[n] = tool[n] \/ n > input.line
<1>1. /\ \A n \in Lines : n > input.line => tool[n] = ""
      /\ input.line \in Nat /\ input'.line \in Nat /\ input.line <= input'.line
      /\ tool \in [Lines -> Tools \cup {""}]
  BY RowsFacts, LineGrows DEF LineKinds, Typed
<1>5. input.line \in Nat /\ input'.line \in Nat /\ input.line <= input'.line
  BY <1>1
<1>2. CASE UNCHANGED tool
  <2>1. \A n \in Lines : n > input'.line => n > input.line
    BY <1>5, GateAssumption DEF Lines
  <2> QED  BY <1>1, <1>2, <2>1
<1>3. CASE \E t \in Tools : Call(t)
  <2>1. PICK t \in Tools : tool' = [tool EXCEPT ![input.line + 1] = t]
    BY <1>3 DEF Call
  <2>2. input'.line = input.line + 1
    BY <1>3 DEF Call, NextLine
  <2>3. \A n \in Lines : n # input.line + 1 => tool'[n] = tool[n]
    BY <1>1, <2>1
  <2>4. \A n \in Lines : /\ n > input'.line => n > input.line /\ n # input.line + 1
                         /\ n <= input.line => n # input.line + 1
                         /\ n # input.line + 1 \/ n > input.line
    BY <1>5, <2>2, GateAssumption DEF Lines
  <2> QED  BY <1>1, <2>3, <2>4
<1>4. (\E t \in Tools : Call(t)) \/ UNCHANGED tool
  BY InputSteps DEF RefuseList, SendList, SendListFails, Refuse, Gates, CheckPin, Dispatch,
     SendCall, SendCallUnanswered, List, client
<1> QED  BY <1>2, <1>3, <1>4

LEMMA ListingsAwaited ==
  ASSUME Typed, LineKinds, [Next]_vars
  PROVE  /\ \A n \in Lines : tool'[n] # "" => buildOf'[n] = 0
         /\ input'.pc = "listing" => tool'[input'.line] = ""
<1>1. /\ \A n \in Lines : n > input.line => tool[n] = "" /\ buildOf[n] = 0
      /\ \A n \in Lines : tool[n] # "" => buildOf[n] = 0
      /\ input.pc = "listing" => tool[input.line] = ""
      /\ buildOf \in [Lines -> 0..nextID]
      /\ input.line \in Nat
      /\ input.pc = "listing" => input.line \in Lines
  BY RowsFacts DEF LineKinds, Typed, ListingsTyped
<1>2. ASSUME NEW c, List(c)
      PROVE  /\ \A n \in Lines : tool'[n] # "" => buildOf'[n] = 0
             /\ input'.pc = "listing" => tool'[input'.line] = ""
  <2>1. /\ \E id : buildOf' = [buildOf EXCEPT ![input.line + 1] = id]
        /\ input'.line = input.line + 1 /\ input.line < MaxLines /\ tool' = tool
    BY <1>2 DEF List, NextLine
  <2>2. input.line + 1 \in Lines /\ input.line + 1 > input.line
    <3>1. input.line \in Nat /\ input.line < MaxLines
      BY <1>1, <2>1
    <3> QED  BY <3>1, GateAssumption DEF Lines
  <2>3. tool[input.line + 1] = ""
    BY <1>1, <2>2
  <2> QED  BY <1>1, <2>1, <2>2, <2>3
<1>3. ASSUME UNCHANGED buildOf \/ TakePage
      PROVE  \A n \in Lines : tool'[n] # "" => buildOf'[n] = 0
  <2>1. \A n \in Lines : buildOf'[n] = buildOf[n] \/ buildOf'[n] = 0
    <3>1. buildOf \in [Lines -> 0..nextID]
      BY <1>1
    <3> QED  BY <1>3, <3>1 DEF TakePage
  <2>2. \A n \in Lines : tool'[n] # "" => tool[n] # "" \/ n > input.line
    BY ToolSteps
  <2>3. \A n \in Lines : tool'[n] # "" => buildOf[n] = 0
    BY <1>1, <2>2
  <2> QED  BY <2>1, <2>3
<1>4. ASSUME ~\E c \in Cursors \cup {"first"} : List(c)
      PROVE  input'.pc = "listing" => tool'[input'.line] = ""
  <2>1. input'.pc = "listing" => input' = input
    <3>1. ASSUME NEW pc, Goto(pc) \/ NextLine(pc) PROVE input'.pc = pc
      BY <3>1, Moves
    <3>2. RefuseList \/ SendList \/ SendListFails \/ Refuse \/ Gates \/ CheckPin \/ Dispatch
            \/ SendCall \/ SendCallUnanswered
            => \E pc \in {"scan", "over", "refused", "allowed", "dispatching", "sending"} :
                 Goto(pc) \/ NextLine(pc)
      BY DEF RefuseList, SendList, SendListFails, Refuse, Gates, CheckPin, Dispatch, SendCall,
             SendCallUnanswered
    <3>3. (\E t \in Tools : Call(t)) => \E pc \in {"refused", "gates"} : NextLine(pc)
      BY DEF Call
    <3> QED  BY <1>4, <3>1, <3>2, <3>3, InputSteps
  <2>2. ASSUME input' = input, input.pc = "listing" PROVE tool'[input.line] = tool[input.line]
    <3>1. input.line \in Lines /\ input.line \in Nat
      BY <1>1, <2>2
    <3>2. input.line <= input.line
      BY <3>1
    <3> QED  BY <3>1, <3>2, ToolSteps
  <2> QED  BY <1>1, <2>1, <2>2
<1>5. UNCHANGED buildOf \/ TakePage \/ (\E c \in Cursors \cup {"first"} : List(c))
  BY ListingSteps DEF Compute
<1> QED  BY <1>2, <1>3, <1>4, <1>5

LEMMA AnswersKept ==
  ASSUME Typed, RowsInv, [Next]_vars
  PROVE  AnswersAwaited'
<1>0. AnswersAwaited /\ LineKinds
  BY DEF RowsInv
<1>1. /\ wire \in Seq(Messages) /\ input.line \in Nat
      /\ pending \subseteq 1..input.line /\ asked \subseteq 1..input.line
      /\ \A m \in ready : m \in Messages /\ m.line <= input.line
      /\ \A i \in DOMAIN wire : wire[i] \in Messages /\ wire[i].line <= input.line
  BY RowsFacts
<1>2. /\ \A n \in asked : n \in Lines /\ n <= input.line
      /\ \A m \in Messages : m.kind \in {"page", "result"} => m.line \in Lines
  <2>1. \A n \in asked : n \in Lines /\ n <= input.line
    <3>1. asked \subseteq 1..input.line /\ input.line \in Nat
      BY <1>1
    <3>2. 1..input.line \subseteq Lines
      <4>1. input.line \in 0..MaxLines
        BY DEF Typed, InputTyped
      <4> QED  BY <4>1, GateAssumption DEF Lines
    <3>3. \A n \in 1..input.line : n <= input.line
      BY <3>1
    <3> QED  BY <3>1, <3>2, <3>3
  <2> QED  BY <2>1 DEF Messages
<1>3. \A n \in Lines : n <= input.line => tool'[n] = tool[n]
  BY <1>0, ToolSteps
<1>4. CASE UNCHANGED <<asked, pending, ready, wire>>
  BY <1>0, <1>1, <1>2, <1>3, <1>4 DEF AnswersAwaited
<1>5. CASE SendList \/ SendCall
  <2>1. /\ UNCHANGED <<tool, ready, wire>> /\ input.pc \in {"listing", "sending"}
        /\ pending' = pending \cup {input.line} /\ asked' = asked \cup {input.line}
    BY <1>5 DEF SendList, SendCall, client
  <2>2. ASSUME NEW i \in DOMAIN wire, wire[i].kind = "result"
        PROVE  wire[i].line # input.line
    <3>1. tool[wire[i].line] # "" /\ wire[i].line \in pending
      BY <1>0, <2>2 DEF AnswersAwaited
    <3>2. CASE input.pc = "listing"
      BY <1>0, <3>1, <3>2 DEF LineKinds
    <3>3. CASE input.pc = "sending"
      <4>1. input.line \in Lines
        BY <3>3, RowsFacts DEF Deciding
      <4>2. input.line \notin pending
        BY <3>3, <4>1 DEF RowsInv, RowsOf, Decided, Deciding
      <4> QED  BY <3>1, <4>2
    <3> QED  BY <2>1, <3>2, <3>3
  <2> QED  BY <1>0, <2>1, <2>2 DEF AnswersAwaited
<1>6. CASE TakeNotice \/ TakeResult \/ TakePage
  <2>1. /\ wire # << >> /\ wire' = Tail(wire) /\ UNCHANGED <<tool, asked, ready>>
        /\ Head(wire) = wire[1] /\ 1 \in DOMAIN wire
    BY <1>1, <1>6, TakenHead DEF TakeNotice, TakeResult, TakePage, client, upstream
  <2>2. \A i \in DOMAIN wire' : i + 1 \in DOMAIN wire /\ wire'[i] = wire[i + 1]
    BY <1>1, <2>1, TakenHead
  <2>3. \A i \in DOMAIN wire' : i \in Nat /\ i >= 1
    <3>1. wire' \in Seq(Messages)
      BY <1>1, <2>1, TakenHead
    <3> QED  BY <3>1, LenProperties
  <2>4. \/ pending' = pending
        \/ pending' = pending \ {wire[1].line}
    BY <1>6, <2>1 DEF TakeNotice, TakeResult, TakePage
  <2>5. ASSUME pending' # pending
        PROVE  /\ wire[1].kind \in {"page", "result"}
               /\ wire[1].kind = "page" => tool[wire[1].line] = ""
               /\ wire[1].kind = "result" => wire[1].line \notin asked
    BY <1>0, <1>6, <2>1, <2>5 DEF AnswersAwaited, TakeNotice, TakeResult, TakePage
  <2>6. \A n \in asked' : tool'[n] # "" => n \in pending'
    BY <1>0, <2>1, <2>4, <2>5 DEF AnswersAwaited
  <2>7. ASSUME NEW i \in DOMAIN wire', wire'[i].kind = "result"
        PROVE  /\ tool'[wire'[i].line] # "" /\ wire'[i].line \in pending'
               /\ wire'[i].line \notin asked'
               /\ \A j \in DOMAIN wire' :
                    (wire'[j].kind = "result" /\ wire'[j].line = wire'[i].line) => j = i
    <3>1. i + 1 \in DOMAIN wire /\ i + 1 # 1 /\ wire'[i] = wire[i + 1]
      BY <2>2, <2>3
    <3>2. /\ tool[wire[i + 1].line] # "" /\ wire[i + 1].line \in pending
          /\ wire[i + 1].line \notin asked
          /\ \A j \in DOMAIN wire :
               (wire[j].kind = "result" /\ wire[j].line = wire[i + 1].line) => j = i + 1
      BY <1>0, <2>7, <3>1 DEF AnswersAwaited
    <3>3. wire[1].kind = "result" => wire[1].line # wire[i + 1].line
      BY <2>1, <3>1, <3>2
    <3>4. pending' # pending => wire[1].line # wire[i + 1].line
      BY <2>5, <3>2, <3>3
    <3>5. wire[i + 1].line \in pending'
      BY <2>4, <3>2, <3>4
    <3>6. ASSUME NEW j \in DOMAIN wire', wire'[j].kind = "result", wire'[j].line = wire'[i].line
          PROVE  j = i
      <4>1. j + 1 \in DOMAIN wire /\ wire'[j] = wire[j + 1]
        BY <2>2
      <4>2. j + 1 = i + 1
        BY <3>1, <3>2, <3>6, <4>1
      <4>3. i \in Nat /\ j \in Nat
        BY <2>3
      <4> QED  BY <4>2, <4>3
    <3> QED  BY <2>1, <3>1, <3>2, <3>5, <3>6
  <2>8. \A m \in ready' : m.kind = "page" /\ tool'[m.line] = ""
    BY <1>0, <2>1 DEF AnswersAwaited
  <2>9. ASSUME NEW i \in DOMAIN wire', wire'[i].kind = "page" PROVE tool'[wire'[i].line] = ""
    <3>1. i + 1 \in DOMAIN wire /\ wire'[i] = wire[i + 1]
      BY <2>2
    <3>2. tool[wire[i + 1].line] = ""
      BY <1>0, <2>9, <3>1 DEF AnswersAwaited
    <3> QED  BY <2>1, <3>1, <3>2
  <2> QED  BY <2>6, <2>7, <2>8, <2>9 DEF AnswersAwaited
<1>7. ASSUME NEW m \in Messages, wire' = Append(wire, m), UNCHANGED <<tool, pending>>,
             asked' \subseteq asked, ready' \subseteq ready,
             m.kind = "page" => tool[m.line] = "",
             m.kind = "result" => tool[m.line] # "" /\ m.line \in asked /\ m.line \notin asked'
      PROVE  AnswersAwaited'
  <2>1. /\ \A i \in DOMAIN wire' : (i \in DOMAIN wire /\ wire'[i] = wire[i]) \/ wire'[i] = m
        /\ \A k \in DOMAIN wire : wire'[k] = wire[k]
    <3>1. /\ \A i \in DOMAIN Append(wire, m) :
               (i \in DOMAIN wire /\ Append(wire, m)[i] = wire[i]) \/ Append(wire, m)[i] = m
          /\ \A k \in DOMAIN wire : Append(wire, m)[k] = wire[k]
      BY <1>1, AddedLast
    <3> QED  BY <1>7, <3>1
  <2>2. \A i \in DOMAIN wire' : i \notin DOMAIN wire => wire'[i] = m /\ i = Len(wire) + 1
    <3>1. Len(wire') = Len(wire) + 1 /\ wire' \in Seq(Messages) /\ Len(wire) \in Nat
      <4>1. /\ Append(wire, m) \in Seq(Messages) /\ Len(Append(wire, m)) = Len(wire) + 1
            /\ Len(wire) \in Nat
        BY <1>1, AppendProperties, LenProperties
      <4> QED  BY <1>7, <4>1
    <3>2. DOMAIN wire = 1..Len(wire) /\ DOMAIN wire' = 1..(Len(wire) + 1)
      BY <1>1, <3>1, LenProperties
    <3> QED  BY <2>1, <3>1, <3>2
  <2>3. m.kind = "result" =>
          /\ m.line \in pending
          /\ \A i \in DOMAIN wire : wire[i].kind = "result" => wire[i].line # m.line
    BY <1>0, <1>7 DEF AnswersAwaited
  <2>4. ASSUME NEW i \in DOMAIN wire', wire'[i].kind = "result"
        PROVE  /\ tool'[wire'[i].line] # "" /\ wire'[i].line \in pending'
               /\ wire'[i].line \notin asked'
               /\ \A j \in DOMAIN wire' :
                    (wire'[j].kind = "result" /\ wire'[j].line = wire'[i].line) => j = i
    <3>1. CASE i \in DOMAIN wire /\ wire'[i] = wire[i]
      <4>1. /\ tool[wire[i].line] # "" /\ wire[i].line \in pending /\ wire[i].line \notin asked
            /\ \A j \in DOMAIN wire :
                 (wire[j].kind = "result" /\ wire[j].line = wire[i].line) => j = i
        BY <1>0, <2>4, <3>1 DEF AnswersAwaited
      <4>2. ASSUME NEW j \in DOMAIN wire', wire'[j].kind = "result", wire'[j].line = wire'[i].line
            PROVE  j = i
        <5>1. CASE j \in DOMAIN wire /\ wire'[j] = wire[j]
          BY <3>1, <4>1, <4>2, <5>1
        <5>2. CASE wire'[j] = m
          BY <2>3, <2>4, <3>1, <4>2, <5>2
        <5> QED  BY <2>1, <5>1, <5>2
      <4>3. tool' = tool /\ pending' = pending /\ wire'[i].line \notin asked'
        BY <1>7, <3>1, <4>1
      <4> QED  BY <3>1, <4>1, <4>2, <4>3
    <3>2. CASE i \notin DOMAIN wire
      <4>1. wire'[i] = m /\ i = Len(wire) + 1
        BY <2>2, <3>2
      <4>2. ASSUME NEW j \in DOMAIN wire', wire'[j].kind = "result", wire'[j].line = wire'[i].line
            PROVE  j = i
        <5>1. CASE j \in DOMAIN wire
          BY <2>1, <2>3, <2>4, <4>1, <4>2, <5>1
        <5>2. CASE j \notin DOMAIN wire
          BY <2>2, <4>1, <5>2
        <5> QED  BY <5>1, <5>2
      <4> QED  BY <1>7, <2>3, <2>4, <4>1, <4>2
    <3> QED  BY <2>1, <3>1, <3>2
  <2>5. \A i \in DOMAIN wire' : wire'[i].kind = "page" => tool'[wire'[i].line] = ""
    <3>1. \A i \in DOMAIN wire : wire[i].kind = "page" => tool[wire[i].line] = ""
      BY <1>0 DEF AnswersAwaited
    <3>2. ASSUME NEW i \in DOMAIN wire', wire'[i].kind = "page" PROVE tool'[wire'[i].line] = ""
      <4>1. CASE i \in DOMAIN wire /\ wire'[i] = wire[i]
        BY <1>7, <3>1, <3>2, <4>1
      <4>2. CASE wire'[i] = m
        BY <1>7, <3>2, <4>2
      <4> QED  BY <2>1, <4>1, <4>2
    <3> QED  BY <3>2
  <2>6. /\ \A n \in asked' : tool'[n] # "" => n \in pending'
        /\ \A r \in ready' : r.kind = "page" /\ tool'[r.line] = ""
    BY <1>0, <1>7 DEF AnswersAwaited
  <2> QED  BY <2>4, <2>5, <2>6 DEF AnswersAwaited
<1>8. ASSUME NEW t \in Tools, Change(t) PROVE AnswersAwaited'
  <2> DEFINE m == [kind |-> "changed", line |-> 0, page |-> NoPage]
  <2>1. m \in Messages /\ m.kind = "changed"
    BY NothingTyped DEF Messages
  <2>2. wire' = Append(wire, m) /\ UNCHANGED <<tool, pending, asked, ready>>
    BY <1>8 DEF Change, client
  <2> HIDE DEF m
  <2> QED  BY <1>7, <2>1, <2>2
<1>9. ASSUME NEW n \in Lines, Compute(n) PROVE AnswersAwaited'
  <2>1. /\ UNCHANGED <<tool, pending, wire>> /\ tool[n] = "" /\ asked' = asked \ {n}
        /\ \A m \in ready' : m \in ready \/ (m.kind = "page" /\ m.line = n)
    <3>1. PICK p : ready' = ready \cup {[kind |-> "page", line |-> n, page |-> p]}
      BY <1>9 DEF Compute
    <3>2. \A m \in ready' : m \in ready \/ (m.kind = "page" /\ m.line = n)
      BY <3>1
    <3>3. UNCHANGED <<tool, pending, wire>> /\ tool[n] = "" /\ asked' = asked \ {n}
      BY <1>9 DEF Compute
    <3> QED  BY <3>2, <3>3
  <2> QED  BY <1>0, <2>1 DEF AnswersAwaited
<1>10. ASSUME NEW n \in Lines, Return(n) PROVE AnswersAwaited'
  <2> DEFINE m == [kind |-> "result", line |-> n, page |-> NoPage]
  <2>1. m \in Messages /\ m.kind = "result" /\ m.line = n
    BY NothingTyped DEF Messages
  <2>2. /\ wire' = Append(wire, m) /\ UNCHANGED <<tool, pending, ready>>
        /\ asked' = asked \ {n} /\ n \in asked /\ tool[n] # ""
    BY <1>10 DEF Return, client
  <2> HIDE DEF m
  <2> QED  BY <1>7, <2>1, <2>2
<1>11. ASSUME NEW m \in ready, Send(m) PROVE AnswersAwaited'
  <2>1. m \in Messages /\ m.kind = "page" /\ tool[m.line] = ""
    BY <1>0, <1>1 DEF AnswersAwaited
  <2>2. wire' = Append(wire, m) /\ UNCHANGED <<tool, pending, asked>> /\ ready' \subseteq ready
    BY <1>11 DEF Send, client
  <2> QED  BY <1>7, <2>1, <2>2
<1> QED  BY <1>4, <1>5, <1>6, <1>8, <1>9, <1>10, <1>11, TrafficSteps

(***************************************************************************)
(* No path that gives up a listing leaves the build that waits for it.     *)
(***************************************************************************)
LEMMA ListingKept ==
  ASSUME Typed, RowsInv, ListingInv, [Next]_vars
  PROVE  ListingInv'
<1> DEFINE Inp == input.pc = "listing" /\ buildOf[input.line] = build.id
           Pend == \E n \in pending : buildOf[n] = build.id
           Rea == reader.pc \in {"page", "filtered"} /\ reader.build = build.id
<1>1. /\ build.inFlight => build.id # 0
      /\ build.inFlight => Inp \/ Pend \/ Rea
  BY DEF ListingInv, BuildHasListing
<1>2. /\ build \in Builds(nextID) /\ nextID \in Nat /\ buildOf \in [Lines -> 0..nextID]
      /\ DOMAIN build = {"id", "inFlight", "paginated", "next", "seen", "tools"}
      /\ DOMAIN reader = {"pc", "line", "build", "page", "paginated"}
      /\ pending \subseteq 1..input.line /\ pending \subseteq Lines /\ input.line \in Nat
  BY RowsFacts, TypedSuffices DEF Typed, CatalogTyped, Builds, TypeOK
<1>3. ASSUME ~build'.inFlight PROVE ListingInv'
  BY <1>3 DEF ListingInv, BuildHasListing
<1>4. NoBuild.inFlight = FALSE
  BY DEF NoBuild
<1>5. CASE invalidate
  BY <1>3, <1>4, <1>5 DEF invalidate
<1>6. CASE AddPage /\ Active(reader.build) /\ addPage(reader.page)
  BY <1>2, <1>3, <1>4, <1>6 DEF addPage
<1>7. ASSUME build' = build, build.inFlight, Inp' \/ Pend' \/ Rea' PROVE ListingInv'
  BY <1>1, <1>7 DEF ListingInv, BuildHasListing
<1>8. ASSUME NEW c \in Cursors \cup {"first"}, List(c) PROVE ListingInv'
  <2> DEFINE n == input.line + 1
  <2>1. input.line < MaxLines /\ input.line \in Nat
    BY <1>2, <1>8 DEF List, NextLine
  <2>2. n \in Lines /\ n \notin pending /\ input.pc = "scan"
    <3>1. n \in Lines
      BY <2>1, GateAssumption DEF Lines
    <3> QED  BY <1>8, <3>1, NextUnused DEF List, NextLine
  <2>3. \E id : buildOf' = [buildOf EXCEPT ![n] = id]
    BY <1>8 DEF List
  <2>4. UNCHANGED <<pending, reader>>
    BY <1>8 DEF List
  <2>5. CASE c = "first"
    <3>1. /\ build' = [NoBuild EXCEPT !.id = nextID + 1, !.inFlight = TRUE]
          /\ buildOf' = [buildOf EXCEPT ![n] = nextID + 1]
          /\ input' = [pc |-> IF nextID + 1 = 0 /\ Constrained THEN "scan" ELSE "listing", line |-> n]
      BY <1>8, <2>5 DEF List, NextLine, beginList
    <3>2. build'.id = nextID + 1 /\ build'.id # 0
      BY <1>2, <3>1 DEF NoBuild
    <3>3. input'.pc = "listing" /\ input'.line = n
      BY <1>2, <3>1
    <3>4. buildOf'[n] = nextID + 1
      BY <1>2, <2>2, <3>1
    <3> QED  BY <3>2, <3>3, <3>4 DEF ListingInv, BuildHasListing
  <2>6. CASE c # "first" /\ Continues(c)
    <3>1. /\ build' = [build EXCEPT !.inFlight = TRUE]
          /\ buildOf' = [buildOf EXCEPT ![n] = build.id]
          /\ input' = [pc |-> IF build.id = 0 /\ Constrained THEN "scan" ELSE "listing", line |-> n]
      BY <1>8, <2>6 DEF List, NextLine, beginList
    <3>2. build'.id = build.id /\ build'.id # 0
      BY <1>2, <2>6, <3>1 DEF Continues
    <3>3. input'.pc = "listing" /\ input'.line = n
      BY <3>1, <3>2
    <3>4. buildOf'[n] = build.id
      BY <1>2, <2>2, <3>1
    <3> QED  BY <3>2, <3>3, <3>4 DEF ListingInv, BuildHasListing
  <2>7. CASE c # "first" /\ ~Continues(c)
    <3>1. build' = build
      BY <1>8, <2>7 DEF List, beginList
    <3>2. Pend => Pend'
      BY <1>2, <2>2, <2>3, <2>4, <3>1
    <3>3. Rea => Rea'
      BY <2>4, <3>1
    <3>4. ~Inp
      BY <2>2
    <3> QED  BY <1>1, <1>3, <1>7, <3>1, <3>2, <3>3, <3>4
  <2> QED  BY <2>5, <2>6, <2>7
<1>9. ASSUME build' = build, UNCHANGED <<buildOf, pending, reader>>,
             input.pc = "listing" => input' = input
      PROVE  ListingInv'
  BY <1>1, <1>3, <1>7, <1>9
<1>10. CASE SendList
  <2>1. /\ build' = build /\ UNCHANGED <<buildOf, reader>> /\ input.pc = "listing"
        /\ pending' = pending \cup {input.line}
    BY <1>10 DEF SendList, catalog, client
  <2> QED  BY <1>1, <1>3, <1>7, <2>1
<1>11. CASE TakeNotice \/ TakeResult
  <2>1. build' = build /\ UNCHANGED <<buildOf, input>> /\ reader.pc = "scan"
    BY <1>11 DEF TakeNotice, TakeResult, catalog, client
  <2>2. CASE TakeNotice
    BY <1>1, <1>3, <1>7, <2>1, <2>2 DEF TakeNotice
  <2>3. CASE TakeResult
    <3>1. Head(wire) = wire[1] /\ 1 \in DOMAIN wire /\ wire[1] \in Messages
      BY <2>3, RowsFacts, TakenHead DEF TakeResult
    <3>2. tool[wire[1].line] # "" /\ wire[1].line \in Lines
      BY <2>3, <3>1 DEF TakeResult, RowsInv, AnswersAwaited, Messages
    <3>3. buildOf[wire[1].line] = 0 /\ pending' = pending \ {wire[1].line}
      BY <2>3, <3>1, <3>2 DEF TakeResult, RowsInv, LineKinds
    <3> QED  BY <1>1, <1>3, <1>7, <2>1, <3>3
  <2> QED  BY <1>11, <2>2, <2>3
<1>12. CASE TakePage
  <2> DEFINE n == Head(wire).line
  <2>1. /\ build' = build /\ input' = input /\ reader.pc = "scan" /\ pending' = pending \ {n}
        /\ reader'.pc = "page" /\ reader'.build = buildOf[n]
        /\ buildOf' = [buildOf EXCEPT ![n] = 0]
    BY <1>12 DEF TakePage, catalog
  <2>2. n \in Lines
    BY <1>12, HeadTyped DEF TakePage
  <2>3. \A k \in Lines : k # n => buildOf'[k] = buildOf[k]
    BY <1>2, <2>1
  <2>4. Pend /\ build.id # 0 => Pend' \/ Rea'
    BY <1>2, <2>1, <2>3
  <2>5. Inp => Inp' \/ Rea'
    <3>1. input.pc = "listing" => input.line \in Lines
      BY RowsFacts
    <3> QED  BY <2>1, <2>3, <3>1
  <2> QED  BY <1>1, <1>3, <1>7, <2>1, <2>4, <2>5
<1>13. CASE CheckPage
  <2>1. reader.pc = "page" /\ UNCHANGED <<buildOf, input, pending>>
    BY <1>13 DEF CheckPage, client
  <2>2. CASE build.inFlight /\ reader.build = build.id /\ reader.page.kind # "page"
    <3>1. Active(reader.build)
      BY <1>1, <2>2 DEF Active
    <3>2. discard(reader.build)
      BY <1>13, <1>1, <2>2, <3>1 DEF CheckPage
    <3>3. build' = NoBuild
      BY <2>2, <3>2 DEF discard
    <3> QED  BY <1>3, <1>4, <3>3
  <2>3. CASE build.inFlight /\ reader.build = build.id /\ reader.page.kind = "page"
    <3>1. Active(reader.build) /\ reader.build # 0
      BY <1>1, <2>3 DEF Active
    <3>2. /\ build' = build
          /\ \E p : reader' = [reader EXCEPT !.pc = "filtered", !.build = reader.build,
                                             !.paginated = p]
      BY <1>13, <2>3, <3>1 DEF CheckPage, catalog
    <3>3. reader'.pc = "filtered" /\ reader'.build = reader.build
      BY <1>2, <3>2
    <3> QED  BY <1>7, <2>3, <3>2, <3>3
  <2>4. CASE build.inFlight /\ reader.build # build.id
    <3>1. build' = build
      BY <1>13, <2>4 DEF CheckPage, discard, catalog
    <3> QED  BY <1>1, <1>7, <2>1, <2>4, <3>1
  <2>5. CASE ~build.inFlight
    <3>1. build' = build \/ build' = NoBuild
      BY <1>13 DEF CheckPage, discard, catalog
    <3> QED  BY <1>3, <1>4, <2>5, <3>1
  <2> QED  BY <2>2, <2>3, <2>4, <2>5
<1>14. CASE AddPage
  <2>1. reader.pc = "filtered" /\ UNCHANGED <<buildOf, input, pending>>
    BY <1>14 DEF AddPage, client
  <2>2. CASE Active(reader.build)
    <3>1. addPage(reader.page) \/ discard(reader.build)
      BY <1>14, <2>2 DEF AddPage
    <3>2. discard(reader.build) => build' = NoBuild
      BY <2>2 DEF Active, discard
    <3> QED  BY <1>3, <1>4, <1>6, <1>14, <2>2, <3>1, <3>2
  <2>3. CASE ~Active(reader.build)
    <3>1. build' = build
      BY <1>14, <2>3 DEF AddPage, catalog
    <3>2. build.inFlight => ~Rea
      BY <1>1, <2>3 DEF Active
    <3> QED  BY <1>1, <1>3, <1>7, <2>1, <3>1, <3>2
  <2> QED  BY <2>2, <2>3
<1>15. CASE SendListFails \/ RefuseList \/ Invalidate
  BY <1>5, <1>15 DEF SendListFails, RefuseList, Invalidate
<1>16. CASE Refuse \/ Gates \/ CheckPin \/ Dispatch \/ SendCallUnanswered
  BY <1>9, <1>16 DEF Refuse, Gates, CheckPin, Dispatch, SendCallUnanswered, catalog, client
<1>17. CASE SendCall
  <2>1. /\ build' = build /\ UNCHANGED <<buildOf, reader>> /\ input.pc = "sending"
        /\ pending' = pending \cup {input.line}
    BY <1>17 DEF SendCall, catalog, client
  <2> QED  BY <1>1, <1>3, <1>7, <2>1
<1>18. ASSUME \/ \E t \in Tools : Call(t) \/ Change(t)
              \/ \E n \in Lines : Cancel(n) \/ Compute(n) \/ Return(n)
              \/ \E m \in ready : Send(m)
       PROVE  ListingInv'
  BY <1>9, <1>18 DEF Call, NextLine, Change, Cancel, Compute, Return, Send, catalog, client
<1>19. CASE UNCHANGED vars
  BY <1>9, <1>19 DEF vars, catalog, client
<1> QED  BY <1>8, <1>10, <1>11, <1>12, <1>13, <1>14, <1>15, <1>16, <1>17, <1>18, <1>19 DEF Next

LEMMA StatedKept ==
  ASSUME Typed, RowsInv, [Next]_vars
  PROVE  stated' \in [Lines -> SUBSET Observations]
<1>1. stated \in [Lines -> SUBSET Observations]
  BY DEF RowsInv
<1>2. \/ UNCHANGED stated
      \/ \E n, o : Row(n, o)
  BY RowSteps DEF RefuseList, SendList, SendListFails, Refuse, Gates, CheckPin, Dispatch, SendCall,
     SendCallUnanswered, TakeResult, TakePage, List, Call, Cancel, Observe, observed
<1>3. \A n \in Lines : RowsOf(n)'
  BY RowsKept
<1>4. DOMAIN stated' = Lines
  BY <1>1, <1>2 DEF Row
<1>5. ASSUME NEW n \in Lines PROVE stated'[n] \in SUBSET Observations
  <2>1. stated'[n] = {} \/ \E o \in Observations : stated'[n] = {o}
    BY <1>3 DEF RowsOf
  <2> QED  BY <2>1
<1>6. \E f : stated' = [n \in Lines |-> f[n]]
  BY <1>1, <1>2 DEF Row
<1> QED  BY <1>4, <1>5, <1>6

LEMMA RowsInit == Init => RowsInv /\ ListingInv
<1> SUFFICES ASSUME Init PROVE RowsInv /\ ListingInv
  OBVIOUS
<1>1. /\ stated = [n \in Lines |-> {}] /\ tool = [n \in Lines |-> ""]
      /\ cardObserved = [n \in Lines |-> NoObservation]
      /\ actionObserved = [n \in Lines |-> NoObservation]
      /\ pending = {} /\ asked = {} /\ ready = {} /\ wire = << >>
      /\ input.pc = "scan" /\ build = NoBuild /\ buildOf = [n \in Lines |-> 0]
  BY DEF Init
<1>2. DOMAIN wire = {}
  <2>1. wire \in Seq(Messages) /\ Len(wire) = 0
    BY <1>1, EmptySeq
  <2> QED  BY <2>1, LenProperties
<1>3. \A n \in Lines : RowsOf(n)
  BY <1>1 DEF RowsOf, Decided, Deciding
<1>4. LineKinds /\ AnswersAwaited
  BY <1>1, <1>2 DEF LineKinds, AnswersAwaited
<1>5. ListingInv
  BY <1>1 DEF ListingInv, BuildHasListing, NoBuild
<1> QED  BY <1>1, <1>3, <1>4, <1>5 DEF RowsInv

LEMMA RowsStep == Typed /\ RowsInv /\ ListingInv /\ [Next]_vars => (RowsInv /\ ListingInv)'
<1> SUFFICES ASSUME Typed, RowsInv, ListingInv, [Next]_vars PROVE RowsInv' /\ ListingInv'
  OBVIOUS
<1>1. LineKinds'
  BY ToolSteps, ListingsAwaited DEF RowsInv, LineKinds
<1> QED  BY <1>1, StatedKept, RowsKept, AnswersKept, ListingKept DEF RowsInv

(***************************************************************************)
(* From its dispatch on every row of a call carries one observation, what  *)
(* is kept of a request is dropped with it, and a listing that is being    *)
(* collected has a line that still waits for its page: for any tools,      *)
(* policies, cursors and bounds, and any order of the upstream's answers.  *)
(***************************************************************************)
THEOREM RowsOfCallsAgree == Spec => []RowsAgree
<1>1. Init => IInv /\ RowsInv /\ ListingInv
  BY InitInvariant, RowsInit
<1>2. (IInv /\ RowsInv /\ ListingInv) /\ [Next]_vars => (IInv /\ RowsInv /\ ListingInv)'
  <2>1. IInv => Typed
    BY DEF IInv
  <2> QED  BY <2>1, StepInvariant, RowsStep
<1>3. RowsInv /\ ListingInv => RowsAgree
  <2> SUFFICES ASSUME RowsInv, ListingInv PROVE RowsAgree
    OBVIOUS
  <2>1. ASSUME NEW n \in Lines
        PROVE  Cardinality(stated[n]) <= 1 /\ NoObservation \notin stated[n]
    <3>1. stated[n] = {} \/ \E o \in Observations \ {NoObservation} : stated[n] = {o}
      BY DEF RowsInv, RowsOf
    <3>2. Cardinality({}) = 0
      BY FS_EmptySet
    <3>3. ASSUME NEW o PROVE Cardinality({o}) = 1
      BY FS_Singleton
    <3>4. CASE stated[n] = {}
      BY <3>2, <3>4
    <3>5. ASSUME NEW o \in Observations \ {NoObservation}, stated[n] = {o}
          PROVE  Cardinality(stated[n]) <= 1 /\ NoObservation \notin stated[n]
      <4>1. Cardinality(stated[n]) = 1
        BY <3>3, <3>5
      <4>2. NoObservation \notin stated[n]
        BY <3>5
      <4> QED  BY <4>1, <4>2
    <3> QED  BY <3>1, <3>4, <3>5
  <2>2. ASSUME NEW n \in Lines, actionObserved[n] # NoObservation
        PROVE  n \in pending \/ n = input.line
    BY <2>2 DEF RowsInv, RowsOf, Decided
  <2>3. BuildHasListing
    BY DEF ListingInv
  <2> QED  BY <2>1, <2>2, <2>3 DEF RowsAgree
<1> QED  BY <1>1, <1>2, <1>3, PTL DEF Spec

=============================================================================
