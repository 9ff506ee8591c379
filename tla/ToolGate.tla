------------------------------ MODULE ToolGate ------------------------------
(***************************************************************************)
(* The tool catalog of one stdio session (internal/proxy/tool_catalog.go)  *)
(* and the pins that calls are held to (stdio.go).  The input goroutine    *)
(* starts listings and takes calls through decide, the gates, the durable  *)
(* dispatch and the write; the response goroutine invalidates the catalog, *)
(* adds the pages of listings to it and records the results of calls.      *)
(*                                                                         *)
(* A definition stands for its digest; "approved" is the pinned one, and a *)
(* tool that is not listed is "unobserved".  The upstream is concurrent    *)
(* and announces its changes: it computes an answer and sends it later,    *)
(* and a later page may come from definitions it has since replaced.       *)
(***************************************************************************)
EXTENDS Naturals, Sequences, FiniteSets

CONSTANTS
  Tools,
  MayPin,     \* those an operator may pin
  Observing,  \* the operator may also leave the session without pins
  Defs,       \* the definitions a tool may have
  Cursors,
  MaxLines,   \* bound on the lines the client sends
  MaxChanges, \* bound on the changes of definition
  MaxWire     \* bound on the upstream's unread lines

ASSUME ToolsAssumption == "" \notin Tools /\ MayPin \subseteq Tools

ASSUME GateAssumption ==
  /\ "approved" \in Defs /\ "unobserved" \notin Defs
  /\ Observing \in BOOLEAN
  /\ Cursors \cap {"first", "bad", "end"} = {}
  /\ MaxLines \in Nat /\ MaxChanges \in Nat /\ MaxWire \in Nat

Lines == 1..MaxLines
Found == [Tools -> Defs \cup {"unobserved"}]
Nothing == [t \in Tools |-> "unobserved"]
Policies == {p \in [pins : SUBSET MayPin, strict : BOOLEAN] :
               p.strict \/ p.pins # {} \/ Observing}

VARIABLES
  policy,             \* the operator's: the tools it pins, and strict_tool_pins
  build,              \* c.build: the listing being collected
  nextID,
  published,
  publishedPaginated,
  catalogHeld,        \* the input goroutine holds catalog.mu across steps
  input,              \* [pc, line] of the input goroutine
  tool,               \* of each line that is a call: its tool
  cursor,             \* of each listing not yet answered: its cursor
  buildOf,            \* of each listing pending: its build, 0 for none
  pending,            \* the lines whose answer is awaited
  cardObserved,       \* of each call observed: the observation its card keeps
  actionObserved,     \* of each call: the observation its rows carry
  stated,             \* of each call: the observations of the rows it has from
                      \* its dispatch on
  reader,             \* [pc, line, build, page, paginated] of the response goroutine
  shown,              \* the tools of the listing it has just passed on
  defs, past,         \* the upstream's definitions, now and ever
  changes,
  asked,              \* the lines it has yet to answer
  ready,              \* the answers it has computed and not sent
  wire                \* what it has written and the proxy has not read

catalog == <<build, nextID, published, publishedPaginated>>
client == <<tool, cursor, buildOf>>
observed == <<cardObserved, actionObserved, stated>>
upstream == <<defs, past, changes, asked, ready>>
vars == <<policy, catalog, catalogHeld, input, client, pending, observed, reader, shown,
          upstream, wire>>

NoBuild == [id |-> 0, inFlight |-> FALSE, paginated |-> FALSE, next |-> "end",
            seen |-> {}, tools |-> Nothing]
NoPage == [kind |-> "error", tools |-> Nothing, next |-> "end"]
Scanning == [pc |-> "scan", line |-> 0, build |-> 0, page |-> NoPage, paginated |-> FALSE]
NoObservation == [def |-> "", status |-> ""]

Init ==
  /\ policy \in Policies
  /\ build = NoBuild /\ nextID = 0
  /\ published = Nothing /\ publishedPaginated = FALSE
  /\ catalogHeld = FALSE
  /\ input = [pc |-> "scan", line |-> 0]
  /\ tool = [n \in Lines |-> ""] /\ cursor = [n \in Lines |-> ""]
  /\ buildOf = [n \in Lines |-> 0]
  /\ pending = {}
  /\ cardObserved = [n \in Lines |-> NoObservation]
  /\ actionObserved = [n \in Lines |-> NoObservation]
  /\ stated = [n \in Lines |-> {}]
  /\ reader = Scanning
  /\ shown = {}
  /\ defs = [t \in Tools |-> "approved"] /\ past = {defs} /\ changes = 0
  /\ asked = {} /\ ready = {} /\ wire = << >>

-----------------------------------------------------------------------------
\* The pins: the status a row carries, and whether a call is refused.

Constrained == policy.strict \/ policy.pins # {}

PinStatus(t, o) ==
  IF t \notin policy.pins /\ policy.strict THEN "unpinned"
  ELSE IF o \in {"unobserved", "unhashable"} THEN o
  ELSE IF t \notin policy.pins THEN "unpinned"
  ELSE IF o = "approved" THEN "matched" ELSE "mismatch"

Refused(t, o) == IF t \in policy.pins THEN o # "approved" ELSE policy.strict

Observation(t, o) == [def |-> o, status |-> PinStatus(t, o)]

\* The catalog, each operation under catalog.mu.

observe(t) == IF publishedPaginated THEN "unobserved" ELSE published[t]

invalidate ==
  /\ build' = NoBuild
  /\ published' = Nothing /\ publishedPaginated' = FALSE
  /\ UNCHANGED nextID

discard(id) ==
  /\ build' = IF build.id = id THEN NoBuild ELSE build
  /\ UNCHANGED <<nextID, published, publishedPaginated>>

\* A continuation belongs to the build that expects its cursor, or to none.
Continues(c) == build.id # 0 /\ ~build.inFlight /\ build.next = c

\* Fault: what an earlier listing published stands until this one is whole.
beginListKept(c) ==
  /\ UNCHANGED <<published, publishedPaginated>>
  /\ IF c = "first"
     THEN /\ nextID' = nextID + 1
          /\ build' = [NoBuild EXCEPT !.id = nextID + 1, !.inFlight = TRUE]
     ELSE /\ build' = IF Continues(c) THEN [build EXCEPT !.inFlight = TRUE] ELSE build
          /\ UNCHANGED nextID

beginList(c) ==
  /\ published' = IF c # "first" /\ Continues(c) THEN published ELSE Nothing
  /\ publishedPaginated' = (publishedPaginated /\ c # "first" /\ Continues(c))
  /\ IF c = "first"
     THEN /\ nextID' = nextID + 1
          /\ build' = [NoBuild EXCEPT !.id = nextID + 1, !.inFlight = TRUE]
     ELSE /\ build' = IF Continues(c) THEN [build EXCEPT !.inFlight = TRUE] ELSE build
          /\ UNCHANGED nextID

Active(id) == id # 0 /\ build.id = id /\ build.inFlight

\* addPage refuses a page whose cursor or whose names the build has seen.
Repeats(page) ==
  \/ page.next \in build.seen
  \/ \E t \in Tools : "unobserved" \notin {page.tools[t], build.tools[t]}

addPage(page) ==
  LET tools == [t \in Tools |-> IF page.tools[t] = "unobserved" THEN build.tools[t]
                                ELSE page.tools[t]] IN
  /\ IF page.next = "end"
     THEN /\ build' = NoBuild
          /\ published' = tools /\ publishedPaginated' = build.paginated
     ELSE /\ build' = [build EXCEPT !.inFlight = FALSE, !.paginated = TRUE,
                                    !.next = page.next, !.seen = @ \cup {page.next},
                                    !.tools = tools]
          /\ UNCHANGED <<published, publishedPaginated>>
  /\ UNCHANGED nextID

Row(n, o) == stated' = [stated EXCEPT ![n] = @ \cup {o}]
Keep(n, o) == actionObserved' = [actionObserved EXCEPT ![n] = o]
Goto(pc) == input' = [input EXCEPT !.pc = pc]

-----------------------------------------------------------------------------
(***************************************************************************)
(* The input goroutine.  A line that starts a listing is given its build,  *)
(* and refused when a constrained session cannot tell which it belongs to. *)
(***************************************************************************)
NextLine(pc) ==
  /\ input.pc = "scan" /\ input.line < MaxLines
  /\ input' = [pc |-> pc, line |-> input.line + 1]

List(c) ==
  LET n == input.line + 1
      id == IF c = "first" THEN nextID + 1 ELSE IF Continues(c) THEN build.id ELSE 0 IN
  /\ ~catalogHeld
  /\ NextLine(IF id = 0 /\ Constrained THEN "scan" ELSE "listing")
  /\ beginList(c)
  /\ cursor' = [cursor EXCEPT ![n] = c]
  /\ buildOf' = [buildOf EXCEPT ![n] = id]
  /\ UNCHANGED <<policy, catalogHeld, tool, pending, observed, reader, shown, upstream, wire>>

\* A listing whose parameters are malformed or ambiguous, or that is refused
\* for any other reason.
RefuseList ==
  /\ ~catalogHeld
  /\ NextLine("scan")
  /\ invalidate
  /\ UNCHANGED <<policy, catalogHeld, client, pending, observed, reader, shown, upstream, wire>>

SendList ==
  /\ input.pc = "listing"
  /\ Goto("scan")
  /\ pending' = pending \cup {input.line}
  /\ asked' = asked \cup {input.line}
  /\ UNCHANGED <<policy, catalog, catalogHeld, client, observed, reader, shown, defs, past,
                 changes, ready, wire>>

\* The write fails, and the input ends.
SendListFails ==
  /\ input.pc = "listing" /\ ~catalogHeld
  /\ Goto("over")
  /\ invalidate
  /\ UNCHANGED <<policy, catalogHeld, client, pending, observed, reader, shown, upstream, wire>>

(***************************************************************************)
(* A call the policy allows is held to its pin before the other gates, and *)
(* again once they have let it through.                                    *)
(***************************************************************************)
Call(t) ==
  /\ ~catalogHeld
  /\ NextLine(IF Refused(t, observe(t)) THEN "refused" ELSE "gates")
  /\ tool' = [tool EXCEPT ![input.line + 1] = t]
  /\ UNCHANGED <<policy, catalog, catalogHeld, cursor, buildOf, pending, observed, reader,
                 shown, upstream, wire>>

\* The rows of a refused call carry one observation, forgotten with the call.
Refuse ==
  /\ input.pc = "refused" /\ ~catalogHeld
  /\ Goto("scan")
  /\ UNCHANGED <<policy, catalog, catalogHeld, client, pending, observed, reader, shown,
                 upstream, wire>>

\* Validation, the limits and the approver: the rows of a call they let
\* through fix its observation.
Gates ==
  /\ input.pc = "gates"
  /\ \/ Goto("refused") /\ UNCHANGED actionObserved
     \/ ~catalogHeld /\ Goto("allowed")
        /\ Keep(input.line, Observation(tool[input.line], observe(tool[input.line])))
  /\ UNCHANGED <<policy, catalog, catalogHeld, client, pending, cardObserved, stated, reader,
                 shown, upstream, wire>>

\* Fault: the check of decide is enough.
CheckPinOnce ==
  LET n == input.line
      o == observe(tool[n]) IN
  /\ input.pc = "allowed" /\ ~catalogHeld
  /\ Goto("dispatching")
  /\ Keep(n, Observation(tool[n], o))
  /\ catalogHeld' = Constrained
  /\ UNCHANGED <<policy, catalog, client, pending, cardObserved, stated, reader, shown, upstream,
                 wire>>

\* The last check of the pin.  It keeps catalog.mu for the dispatch.
CheckPin ==
  LET n == input.line
      o == observe(tool[n]) IN
  /\ input.pc = "allowed" /\ ~catalogHeld
  /\ IF Constrained /\ Refused(tool[n], o)
     THEN Goto("scan") /\ Keep(n, NoObservation) /\ UNCHANGED catalogHeld
     ELSE /\ Goto("dispatching")
          /\ IF Constrained THEN Keep(n, Observation(tool[n], o)) ELSE UNCHANGED actionObserved
          /\ catalogHeld' = Constrained
  /\ UNCHANGED <<policy, catalog, client, pending, cardObserved, stated, reader, shown, upstream,
                 wire>>

\* Fault: the path of a row that is refused keeps the lock.
DispatchKeepsLock ==
  LET n == input.line IN
  /\ input.pc = "dispatching"
  /\ \/ /\ Row(n, actionObserved[n]) /\ Goto("sending")
        /\ catalogHeld' = FALSE /\ UNCHANGED actionObserved
     \/ /\ Goto("scan") /\ Keep(n, NoObservation)
        /\ UNCHANGED <<catalogHeld, stated>>
  /\ UNCHANGED <<policy, catalog, client, pending, cardObserved, reader, shown, upstream, wire>>

\* The durable dispatch row, and the release of catalog.mu before the write.
Dispatch ==
  LET n == input.line IN
  /\ input.pc = "dispatching"
  /\ catalogHeld' = FALSE
  /\ \/ Row(n, actionObserved[n]) /\ Goto("sending") /\ UNCHANGED actionObserved
     \/ Goto("scan") /\ Keep(n, NoObservation) /\ UNCHANGED stated
  /\ UNCHANGED <<policy, catalog, client, pending, cardObserved, reader, shown, upstream, wire>>

SendCall ==
  LET n == input.line IN
  /\ input.pc = "sending"
  /\ Goto("scan")
  /\ pending' = pending \cup {n} /\ asked' = asked \cup {n}
  /\ UNCHANGED <<policy, catalog, catalogHeld, client, observed, reader, shown, defs, past,
                 changes, ready, wire>>

\* A call that is a notification, or whose bytes were cut: nothing answers it.
SendCallUnanswered ==
  LET n == input.line IN
  /\ input.pc = "sending"
  /\ \/ Goto("scan")
     \/ Goto("over")
  /\ Row(n, actionObserved[n]) /\ Keep(n, NoObservation)
  /\ UNCHANGED <<policy, catalog, catalogHeld, client, pending, cardObserved, reader, shown,
                 upstream, wire>>

\* Fault: each observation reads the catalog of its own time.
ObserveAnew(n) ==
  LET o == Observation(tool[n], observe(tool[n])) IN
  /\ Row(n, o)
  /\ cardObserved' = [cardObserved EXCEPT ![n] = o]
  /\ Keep(n, NoObservation)

(***************************************************************************)
(* observeAction: the first observation of a call takes what was observed  *)
(* from actionObserved into its card, where a later result finds it.  The  *)
(* client's cancellation observes an outcome that is not known.            *)
(***************************************************************************)
Observe(n) ==
  LET o == IF cardObserved[n] # NoObservation THEN cardObserved[n] ELSE actionObserved[n] IN
  /\ Row(n, o)
  /\ cardObserved' = [cardObserved EXCEPT ![n] = o]
  /\ Keep(n, NoObservation)

Cancel(n) ==
  /\ input.pc = "scan" /\ n \in pending /\ tool[n] # ""
  /\ cardObserved[n] = NoObservation
  /\ Observe(n)
  /\ UNCHANGED <<policy, catalog, catalogHeld, input, client, pending, reader, shown, upstream,
                 wire>>

-----------------------------------------------------------------------------
(***************************************************************************)
(* The response goroutine takes a line of the upstream: a notice that the  *)
(* tools changed, the result of a call, or the page of a listing, which it *)
(* checks, filters and adds to the catalog under three separate locks.     *)
(***************************************************************************)
TakeNotice ==
  /\ reader.pc = "scan" /\ wire # << >> /\ Head(wire).kind = "changed"
  /\ wire' = Tail(wire) /\ shown' = {}
  /\ reader' = [Scanning EXCEPT !.pc = "notice"]
  /\ UNCHANGED <<policy, catalog, catalogHeld, input, client, pending, observed, upstream>>

Invalidate ==
  /\ reader.pc = "notice" /\ ~catalogHeld
  /\ invalidate
  /\ reader' = Scanning
  /\ UNCHANGED <<policy, catalogHeld, input, client, pending, observed, shown, upstream, wire>>

TakeResult ==
  /\ reader.pc = "scan" /\ wire # << >> /\ Head(wire).kind = "result"
  /\ wire' = Tail(wire) /\ shown' = {}
  /\ pending' = pending \ {Head(wire).line}
  /\ Observe(Head(wire).line)
  /\ UNCHANGED <<policy, catalog, catalogHeld, input, client, reader, upstream>>

TakePage ==
  /\ reader.pc = "scan" /\ wire # << >> /\ Head(wire).kind = "page"
  /\ wire' = Tail(wire) /\ shown' = {}
  /\ LET n == Head(wire).line IN
     /\ pending' = pending \ {n}
     /\ reader' = [pc |-> "page", line |-> n, build |-> buildOf[n], page |-> Head(wire).page,
                   paginated |-> FALSE]
     /\ buildOf' = [buildOf EXCEPT ![n] = 0]
  /\ UNCHANGED <<policy, catalog, catalogHeld, input, tool, cursor, observed, upstream>>

\* An error or a malformed answer discards its build; so does a page over
\* the bounds, which is then filtered as one of no build.  A constrained
\* session refuses what has no build.
Relay(S) == reader' = Scanning /\ shown' = S

\* Fault: an error gives up the listing and leaves its build.
CheckPageLeaves ==
  LET id == reader.build
      kept == Active(id) /\ reader.page.kind = "page" IN
  /\ reader.pc = "page" /\ (id # 0 => ~catalogHeld)
  /\ IF reader.page.kind = "large" /\ Active(id) THEN discard(id) ELSE UNCHANGED catalog
  /\ IF reader.page.kind = "error" \/ (~kept /\ Constrained)
     THEN Relay({})
     ELSE /\ reader' = [reader EXCEPT !.pc = "filtered", !.build = IF kept THEN @ ELSE 0,
                                      !.paginated = kept /\ build.paginated]
          /\ UNCHANGED shown
  /\ UNCHANGED <<policy, catalogHeld, input, client, pending, observed, upstream, wire>>

CheckPage ==
  LET id == reader.build
      kept == Active(id) /\ reader.page.kind = "page" IN
  /\ reader.pc = "page" /\ (id # 0 => ~catalogHeld)
  /\ IF id = 0 \/ kept \/ (reader.page.kind = "large" /\ ~Active(id))
     THEN UNCHANGED catalog
     ELSE discard(id)
  /\ IF reader.page.kind = "error" \/ (~kept /\ Constrained)
     THEN Relay({})
     ELSE /\ reader' = [reader EXCEPT !.pc = "filtered", !.build = IF kept THEN @ ELSE 0,
                                      !.paginated = kept /\ build.paginated]
          /\ UNCHANGED shown
  /\ UNCHANGED <<policy, catalogHeld, input, client, pending, observed, upstream, wire>>

\* The tools of the page whose pins do not refuse them.
Visible ==
  LET known(t) == IF reader.build = 0 \/ reader.paginated \/ reader.page.next # "end"
                  THEN "unobserved" ELSE reader.page.tools[t] IN
  {t \in Tools : reader.page.tools[t] # "unobserved" /\ ~Refused(t, known(t))}

\* Fault: a page that cannot join the catalog is passed on all the same.
AddPageLoose ==
  LET id == reader.build
      joins == Active(id) /\ ~Repeats(reader.page) IN
  /\ reader.pc = "filtered" /\ (id # 0 => ~catalogHeld)
  /\ IF joins THEN addPage(reader.page)
     ELSE IF Active(id) THEN discard(id) ELSE UNCHANGED catalog
  /\ Relay(Visible)
  /\ UNCHANGED <<policy, catalogHeld, input, client, pending, observed, upstream, wire>>

AddPage ==
  LET id == reader.build
      joins == Active(id) /\ ~Repeats(reader.page) IN
  /\ reader.pc = "filtered" /\ (id # 0 => ~catalogHeld)
  /\ IF joins THEN addPage(reader.page)
     ELSE IF Active(id) THEN discard(id) ELSE UNCHANGED catalog
  /\ Relay(IF Constrained /\ ~joins THEN {} ELSE Visible)
  /\ UNCHANGED <<policy, catalogHeld, input, client, pending, observed, upstream, wire>>

-----------------------------------------------------------------------------
\* The upstream, as the proxy meets it.

Change(t) ==
  /\ changes < MaxChanges /\ Len(wire) < MaxWire
  /\ \E d \in Defs \ {defs[t]} : defs' = [defs EXCEPT ![t] = d]
  /\ past' = past \cup {defs'} /\ changes' = changes + 1
  /\ wire' = Append(wire, [kind |-> "changed", line |-> 0, page |-> NoPage])
  /\ UNCHANGED <<policy, catalog, catalogHeld, input, client, pending, observed, reader, shown,
                 asked, ready>>

\* Some tools, of the definitions of now or, in a later page, of any before.
Pages(c) ==
  {[kind |-> "page", tools |-> [t \in Tools |-> IF t \in S THEN f[t] ELSE "unobserved"],
    next |-> x] :
     S \in (SUBSET Tools) \ {{}}, f \in IF c = "first" THEN {defs} ELSE past, x \in Cursors \cup {"end"}}

Compute(n) ==
  /\ n \in asked /\ tool[n] = ""
  /\ asked' = asked \ {n} /\ cursor' = [cursor EXCEPT ![n] = ""]
  /\ \E p \in Pages(cursor[n]) \cup {[NoPage EXCEPT !.kind = k] : k \in {"error", "large"}} :
       ready' = ready \cup {[kind |-> "page", line |-> n, page |-> p]}
  /\ UNCHANGED <<policy, catalog, catalogHeld, input, tool, buildOf, pending, observed, reader, shown,
                 defs, past, changes, wire>>

Send(m) ==
  /\ m \in ready /\ Len(wire) < MaxWire
  /\ ready' = ready \ {m} /\ wire' = Append(wire, m)
  /\ UNCHANGED <<policy, catalog, catalogHeld, input, client, pending, observed, reader, shown,
                 defs, past, changes, asked>>

Return(n) ==
  /\ n \in asked /\ tool[n] # "" /\ Len(wire) < MaxWire
  /\ asked' = asked \ {n}
  /\ wire' = Append(wire, [kind |-> "result", line |-> n, page |-> NoPage])
  /\ UNCHANGED <<policy, catalog, catalogHeld, input, client, pending, observed, reader, shown,
                 defs, past, changes, ready>>

-----------------------------------------------------------------------------
Next ==
  \/ RefuseList \/ SendList \/ SendListFails
  \/ Refuse \/ Gates \/ CheckPin \/ Dispatch \/ SendCall \/ SendCallUnanswered
  \/ TakeNotice \/ Invalidate \/ TakeResult \/ TakePage \/ CheckPage \/ AddPage
  \/ \E c \in Cursors \cup {"first"} : List(c)
  \/ \E t \in Tools : Call(t) \/ Change(t)
  \/ \E n \in Lines : Cancel(n) \/ Compute(n) \/ Return(n)
  \/ \E m \in ready : Send(m)

Spec == Init /\ [][Next]_vars

\* The proxy's own steps are taken; a write may block for as long as the
\* upstream does not read.
FairSpec ==
  /\ Spec
  /\ WF_vars(Refuse \/ Gates \/ CheckPin \/ Dispatch)
  /\ WF_vars(TakeNotice \/ Invalidate \/ TakeResult \/ TakePage \/ CheckPage \/ AddPage)

-----------------------------------------------------------------------------
PageRecords == [kind : {"page", "error", "large"}, tools : Found, next : Cursors \cup {"end"}]
Observations ==
  [def : Defs \cup {"unobserved", ""}, status : {"", "unpinned", "unobserved", "unhashable",
                                                "matched", "mismatch"}]

(***************************************************************************)
(* Types; and a catalog is collected or published, never both, because a   *)
(* listing that begins supersedes what an earlier one published.           *)
(***************************************************************************)
TypeOK ==
  /\ policy \in Policies
  /\ nextID \in 0..MaxLines
  /\ build \in [id : 0..nextID, inFlight : BOOLEAN, paginated : BOOLEAN,
                next : Cursors \cup {"end"}, seen : SUBSET Cursors, tools : Found]
  /\ published \in Found /\ publishedPaginated \in BOOLEAN
  /\ build.id = 0 \/ published = Nothing
  /\ catalogHeld \in BOOLEAN
  /\ input \in [pc : {"scan", "listing", "refused", "gates", "allowed", "dispatching",
                      "sending", "over"}, line : 0..MaxLines]
  /\ buildOf \in [Lines -> 0..nextID]
  /\ pending \subseteq Lines
  /\ cardObserved \in [Lines -> Observations] /\ actionObserved \in [Lines -> Observations]
  /\ reader \in [pc : {"scan", "notice", "page", "filtered"}, line : 0..MaxLines,
                 build : 0..nextID, page : PageRecords, paginated : BOOLEAN]
  /\ defs \in [Tools -> Defs]

(***************************************************************************)
(* While the dispatch of a call to a pinned tool is made durable, the tool *)
(* is what the operator approved, or the notice that it changed has not    *)
(* been acted on.  In a strict session no other tool is dispatched.        *)
(***************************************************************************)
Unheeded == reader.pc = "notice" \/ \E i \in DOMAIN wire : wire[i].kind = "changed"

ApprovedWhenDispatched ==
  input.pc = "dispatching" =>
    LET t == tool[input.line] IN
    IF t \in policy.pins THEN defs[t] = "approved" \/ Unheeded ELSE ~policy.strict

\* No path that gives up a listing leaves the build that waits for its page.
BuildHasListing ==
  build.inFlight =>
    \/ input.pc = "listing" /\ buildOf[input.line] = build.id
    \/ \E n \in pending : buildOf[n] = build.id
    \/ reader.pc \in {"page", "filtered"} /\ reader.build = build.id

(***************************************************************************)
(* From its dispatch on, every row of a call carries the definition it was *)
(* dispatched with, also when the tools are listed anew before its result, *)
(* or a result comes after its outcome was recorded as unknown; and what   *)
(* is kept of a request is dropped with it, the definition of a call and   *)
(* the build of a listing.                                                 *)
(***************************************************************************)
RowsAgree ==
  /\ \A n \in Lines : Cardinality(stated[n]) <= 1 /\ NoObservation \notin stated[n]
  /\ \A n \in Lines : actionObserved[n] # NoObservation =>
                        n \in pending \/ n = input.line
  /\ BuildHasListing

(***************************************************************************)
(* A pinned tool the client is shown can be called: what the filter let    *)
(* through is what the catalog published, although a listing may begin     *)
(* between the two.                                                        *)
(***************************************************************************)
ShownCanBeCalled ==
  [][shown' # shown => \A t \in shown' : ~Refused(t, observe(t)')]_vars

(***************************************************************************)
(* A notice is acted on however long the dispatched call waits to be       *)
(* written: the catalog is dropped.                                        *)
(***************************************************************************)
NoticesLand == reader.pc = "notice" ~> (build.id = 0 /\ published = Nothing)

=============================================================================
