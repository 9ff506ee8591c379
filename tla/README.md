# NockGuard: a TLA+ model of its gate, its audit trail and those who read it

NockGuard is a proxy between an AI agent and its tool servers (MCP over stdio or
HTTP). Every tool call passes a gate (policy, tool pins, argument checks, rate
and spend limits, a human's approval) and every decision leaves a row in a
signed, hash-chained trail. What a user of it relies on is that no call reaches a
server without its row or without clearing every gate, that the trail says what happened
and cannot lose a row unnoticed, that a call to a pinned tool reaches the tool that was
approved, and that what the wall and `verify` say of a trail is true. That is what is
modelled here: each of these, at the places where processes, goroutines, sessions,
deaths and time make it hard.

Everything is translated from the Go source. Line numbers are those of
`PROJECT.json`, which maps every definition to the lines it stands for.

## The system

| part | source | state it keeps | operations | hard about it |
|---|---|---|---|---|
| signed trail | `internal/audit/audit.go` | trail file, sidecar `<trail>.hwm`, marker `<trail>.audit-failing`, flock; in memory the numbers of the v2 runs and the latch of a failed required write | `New`, `Record`, `RecordRequired`, `Close`, `Verify` | several processes on one file, death and power loss between any two steps, torn writes |
| completeness verdicts | `internal/audit/completeness.go` | none: one pass over the rows | `AssessRuns` | rows in an order no writer intends |
| deferred audit queue | `internal/proxy/stdio.go` | `auditSeq`, `auditNext`, `auditTodo`, `auditResolved` ranges, `auditPending`, `actionIDs`, `cardAfterSeq`, `auditFailed` | `reserveAuditSequence`, `appendAudit`, `resolveAudit`, `drainAudits`, `flushAuditsLocked`, `pruneCardHistoryLocked` | requests answered out of order; memory behind a slow request |
| stdio session | `internal/proxy/stdio.go` | the map of pending calls, active ids, observations; `runStopping` | `agentToUpstream`, `upstreamToAgent`, `Run`, `drainRunForClose` | three goroutines and timers, late or repeated answers, failing writes, signals |
| approvals | `internal/approval/` | held calls, their channels; the poller's offset and mailboxes | `Ask`, `handle`, `pollUpdates` | timers against answers; wakeups; starting and stopping one poller |
| tool catalogue and pins | `internal/proxy/tool_catalog.go`, `tool_digest.go`, `tool_discovery_http.go` | the published catalogue and the build in progress, pinned digests | `beginList`, `addPage`, `invalidate`, `observe`, `pinObservation` | stale generations; `list_changed` between check and dispatch |
| policy | `internal/policy/` | a loaded policy, read only | `Load`, `Evaluate`, shadow comparison | order of rules, defaults |
| gateway | `internal/gateway/` | the session table, two semaphores; the answer to an initialize while it arrives | `acquire`, `ServeHTTP`, `Run`, `initWriter` | a session is released before its first handler ends; expiry; limits; an answer cut anywhere |
| HTTP MCP proxy | `internal/proxy/httplisten.go`, `required_audit.go` | the gate mutex of a session | handlers | concurrent requests of one session |
| pool router | `internal/pool/` | pins, headroom, cooldowns, spend | `Route`, `RouteWithBudget`, `RecordSpend`, `RecordFailure` | thresholds and caps, sticky routes |
| forwarder | `internal/forward/` | a bounded channel | `Enqueue`, `Stop` | drops; `Enqueue` after `Stop` |
| limits and trust | `internal/ratelimit/`, `internal/trust/` | sliding windows, a score file | `Allow`, `ApplyOutcome` | several processes, one file |
| wall and session verdicts | `cmd/nockguard-wall/`, `internal/sessionverify/`, `internal/audit/export.go`, `verify` of `cmd/nockguard` | a shared view, a lock cursor | `getView`, `pollLock`, `ReadGuard`, `MakeExportProof` | reading the trail and its sidecar while a process writes; views that are old |
| validators, secrets, evidence, export, command line, transports | the rest | none between calls | | text and I/O |

How they interact: `Run` starts the upstream and two goroutines. The input
goroutine reads one line, reserves its audit sequence, takes it through the gate
(which may hold it in `Ask` for minutes), queues its rows, writes a `dispatch` row
of its own, registers the call and writes it to the upstream. The response
goroutine matches answers with pending calls, writes the observation, resolves
the sequence and passes the result on. Both share the queue, under
`auditMutex`, and the queue writes to one `Auditor`, which shares its file with
other processes under an flock. The read side only reads files.

## Modules

| module | models | abstracts |
|---|---|---|
| `AuditTrail` | `New` in three steps (it takes no lock), `record` step by step from the flock to its return, `Close`, death of a process, power loss | a signature is the identity of its row; a row's bytes are left out, except whether the file ends in a whole line |
| `AuditTrailProofs` | theorems about it | |
| `AuditQueue` | the queue of one session, every function one operator or action | rows are records of their sequence and kind; the resolved ranges, which the code keeps sorted, are a set |
| `RequestOrderLog` | the abstract log: rows leave in request order, or early for a paired request and for no other, with cards from the whole history | |
| `SessionAudit`, `SessionAuditMC`, `SessionAuditProofs` | requests of a session over the queue: stdio (one line at a time in each goroutine) or HTTP (concurrent), with claims and releases of cards, from the first request to the drains at the end and their deadlines | the gate is a choice of verdict |
| `Completeness`, `CompletenessMC` | `AssessRuns` as a fold; all short streams of one run | times are small numbers |
| `StdioProxy`, `StdioProxyProofs` | one paired run: input goroutine, response goroutine, `Run`, over `AuditQueue`, judged by `Completeness` | cards; the gate is a choice of verdict |
| `HttpListener` | one POST through the handler of `httplisten.go`: gate mutex, sequence, verdict, dispatch row, upstream, discovery, result, deferred calls; required or best effort | headers, scrubbing, status codes; the queue is a sequence of its unresolved requests |
| `Gateway`, `GatewayProofs` | the gateway's authentication, admission, session table, deadlines and shutdown, around `HttpListener`; or the same listener alone, as mcp-listen | token, host, origin and body checks are a choice of outcome |
| `InitWriter` | the incremental parser of an initialize's answer, chunk by chunk | a field of a line is one symbol: a result, an error or a comment |
| `GatewayMC` | `Gateway` and `InitWriter` | |
| `Policy` | what a policy file means: lists, modes, fail modes, shadow, inject, and the checks of `loadFrom`, as operators | a pattern is the set of names it matches; YAML |
| `CallGate`, `CallGateProofs` | `decide` and `decideToolCall` in the sessions of one gateway or in one stdio proxy, over `Policy`, the limiter, the trust score, the approver and the forwarder they share | half minutes, ten-thousandths of a score; pins and validators are a choice of block |
| `PoolRouter` | the router of nockguard-pool: pins, headroom, cooldowns, the budget of a tree of sessions | cents, halves of a quota |
| `CallGateMC` | `CallGate` and `PoolRouter` | |
| `ApprovalGate` | what an `Approver` promises | |
| `ApprovalLocal` | `LocalApprover`: holds, timers, `handle` in three steps | file permissions, peer uid |
| `ApprovalTelegram` | `TelegramApprover`: asks, one poller, mailboxes and wakeups, Telegram's update queue | a nonce is the call it was made for |
| `Approvals`, `ApprovalsProofs` | `buildApprover`: whichever of the two it returns, as an implementation of `ApprovalGate` | the environment it reads |
| `ToolGate`, `ToolGateProofs` | the tool catalogue and the pins: both goroutines of a stdio session over `catalog.mu`, and an upstream that changes its tools | a definition stands for its digest; page bounds are one kind of page, "large"; the other gates are a choice; an HTTP listing is not modelled |
| `Wall` | the verdicts of `sessionverify`, the wall's cached view, badges, exports and proofs, `verify` in three forms, the poller of fence rows and what it streams; and of the writer what a reader can see | rows are whole; nocklock's verdict on its chain is given |
| `ReadSide`, `ReadSideProofs` | `Wall` and `CompletenessMC` | |

`StdioProxy` and `SessionAudit` extend `AuditQueue`: their actions are the
program's handlers, and call the queue's operators with the same arguments as the code.
`StdioProxy` instantiates `Completeness` on the rows its run has written, so that its
invariants are the verdict an auditor would get. `Gateway` extends `HttpListener`: a request of a
session goes through the listener's own steps between being acquired and being released, and the
sessions meet at the one writer they share. `SessionAudit` implements
`RequestOrderLog`, and both approvers implement `ApprovalGate`, through
`INSTANCE ... WITH`.

`GatewayMC`, `CallGateMC` and `ReadSide` check two parts that share no state in one run, and
`Approvals` two approvers of which one is built: a variable chosen in Init (`subject`, `approver`) says
which of the two a behaviour is about, and the other stays as it was. The searches of the parts are
added, not multiplied. `SessionAuditMC` chooses the kind of session in the same way.

Operators whose comment begins with "Fault:" are not part of the model. Each is a
plausible mistake in one definition (a lock left shared, a wakeup not passed on);
put in its place, it makes TLC refute a property. `PROJECT.json` pairs them.

### How the actions follow the code

*Trail.* `pc` says where a process is in `New` (`stat`, walk, finish) or in `record`:
waiting for the flock, locked, head read, appended, synced, marked. Each
system call that can fail or be followed by death is a step. The stages that only
compute are part of the step before. `synced` counts the rows a power loss cannot
take and `hwmDisk` is the set of sidecars it may leave: a rename is atomic, and it is
durable once the directory is synced. The latch is set, and the marker created, on the
failure of a required write only.

*Queue.* `auditSeq`, `auditNext`, `auditTodo`, `auditResolved`, `auditPending`,
`actionIDs`, `cardAfterSeq` and `auditFailed` are the code's fields. A lock region of
`auditMutex` is one action. `Write` may find the writer latched for good. A stdio session ends while its requests are anywhere:
`Stop` is the upstream's exit or a signal (a paired run takes up no further line, a legacy one goes on), `DrainAtExit` what
`drainRunForClose`, or a legacy `Run` in its place, does with no line in hand, and `GiveUp` their deadlines, before the drain
(nothing is swept) or during it (it ends when `Run` has gone on). The response goroutine may be in the middle of an answer, and its
`DrainAtEOF` may come before, after or never.

*Stdio run.* `input`, `reader` and `main` say between which two calls each goroutine
is. A step ends where the code releases a lock another goroutine may take, or hands
bytes over. The upstream may answer each forwarded line up to `MaxAnswers` times,
at once or late, and ends its output at any moment; a signal may come at any moment.

*Approvals.* One action per lock region, channel operation or HTTP exchange.

*Tool catalogue.* `build`, `nextID`, `published` and `publishedPaginated` are the code's fields; one
action per region of `catalog.mu`. A page is taken, checked, filtered and added in
three regions, between which the other goroutine may begin a listing or invalidate the catalogue.
The pin check and the durable dispatch row are one region in the code: the lock is a variable,
`catalogHeld`, so that steps which do not need it happen in between. `SendCall` registers the call and
writes it in one step, which `StdioProxy` splits. The upstream is concurrent: it computes a page
at one time and sends it at another, and a later page may mix definitions it has replaced; it announces a
change in the step that makes it, as `tools/list_changed` promises.

*Listener and gateway.* `at` says between which two calls of the handler a request is; a step is
one lock region, one write to the trail or one exchange with the upstream, and the deferred calls
(the sequence is resolved, then the gate's mutex is released) are one step, at the end of every path.
`sessions` is the table, with `busy`, the time since `lastUsed` and `upstreamID`; `inflight` and
`authInflight` are the requests that hold a slot. `onReady` is a step of its own, before the result is
written, since the client may answer its first byte. `since` is the time as the
client sees it, for the property only.

*Initialize result.* `parser` holds `pos`, `lineStart` and `skipLF`; the scan restarts where it stopped,
so `searchFrom` is the length held before. One `Write` is one action, whatever the chunk.

*Call gate.* One action for each use of something shared: `Limiter.Allow`, an approver's
answer, the audit of a decision (which updates the score and enqueues the report). Refusals that touch
nothing shared are one step. `admitted`, `accepted`, `posted` and `upstream` are kept for the properties
only: what the limiter let through, what the channel took and the worker posted, what was known of a call forwarded.
`host` says whether the gate serves HTTP handlers or one stdio line at a time. `Stop` comes at any moment, since every `Run` returns
in the end whatever is still decided; a report made after it is a send on a closed channel, and panics: `net/http` recovers it and
the call ends there, while a stdio proxy dies.

*Pool router.* One action per method, which are atomic behind the router's lock.

*Readers.* A reader is in `getView`'s wait (`queued`), waits for the flock or its turn (`start`),
is between the two files (`read`), or before the fence rows (`fence`). `answer` is what it was
told, with what was so when it asked (`since`). A file may fail to be read at either step. The writer stamps, appends and
checkpoints in three steps, as in `AuditTrail`, and may die before the last. The poller is its cursor and signature (`last`, `sig`),
the heads it has just taken (`head`), and for the property what it has emitted and what each log held when it first looked.
A look adopts the cursor without emitting the first time and when the log has shrunk, as `pollLock` does.

## Runs

| run | instance | shows |
|---|---|---|
| `AuditTrailRequired` | 2 processes, an established trail, 3 rows, all faults but a lost newline, deaths, power loss, required rows only | `AckedSurvives`, `SidecarNotAheadOfStorage`, `RunRowsInSequence`; a sound trail verifies and is never refused (`TrailVerifies`) |
| `AuditTrailShared` | the same with best-effort rows, lost newlines and failing sidecars, no power loss, under fairness | one chain; every call waiting for the flock returns or its process dies |
| `AuditTrailFresh` | 2 processes, no trail yet, deaths, no other fault | **violation**: finding 1 |
| `SessionAuditMC` | 3 concurrent HTTP requests answered in any order; 2 paired stdio calls, 2 cards, a writer that may fail; 2 calls of a legacy stdio session; a shutdown at any moment, whose drain may give up | the compacted queue implements the log, paired requests alone going early and never late; nothing is retained and the card history is pruned; a result leaves after its rows; no decision is lost by a `Run` whose drain ends in time |
| `SessionAuditNameless` | a stdio session under `fail_mode: ask`, 1 call | **violation**: finding 2 |
| `StdioProxyRun` | 2 lines with 2 ids: calls, notifications, cancellations; 2 answers each; failing writes and writer; a shutdown that may overtake the response goroutine; fairness of `Run` only | no forward without dispatch; never BROKEN; a run closed with no answer half handled is LIMITED; no answer passes beside the audit; the run exits |
| `StdioProxyEndsBusy` | 1 line, output may end while it is decided | **violation**: finding 3 |
| `Approvals` | whichever approver: 2 calls and 3 operators' requests, or 2 calls, 2 taps and 2 goroutines that could poll | the gate is implemented; a decision told is honoured; no tap or poller is lost; every Ask that is answered returns |
| `ToolGate` | 3 lines (listings of one or more pages, calls), 2 tools of which one may be pinned, one change of definition, under fairness of the proxy | a pinned call is dispatched with its approved definition, or before the notice of the change is acted on; a call's rows name one definition, and no build is orphaned (`RowsAgree`); what the client is shown it can call; a notice is acted on |
| `Gateway` | 3 requests, 2 session and 2 authentication slots, a TTL of 2 ticks, a writer that may fail, shutdown at any moment; or 2 requests to an mcp-listen, required or not; or an answer to an initialize of 6 symbols in any chunks | nothing happens off the record; a session a client was told of is ready for it; refusals have their cause; nothing is left behind by a request that ended; cuts do not matter |
| `CallGate` | 2 sessions of a gateway, or lines of a stdio proxy, 3 calls, 3 policies, scores on either side of a tier, a channel of 1 place, 2 half minutes; or 7 operations of the router on 2 accounts, with a budget or without | what goes upstream has cleared every gate; the limits and the budget of a tree are kept, and nothing is refused while there is room; a stop that returns has posted what the channel took, whatever calls were open |
| `ReadSide` | 2 questions beside a writer of 2 rows and one damage, or beside 2 fence rows, views of every age; or the poller beside a log of up to 2 fence rows that may be replaced; or all streams of up to 6 rows of one run, at most one damaged | verdicts are true; views miss only what their age allows; the stream of fence rows misses and repeats none that came after the poller's first look at a log; a proof has every row of its window; LIMITED exactly for complete streams, BROKEN for good |

**Bounds.** Two processes are what an interleaving of the trail needs: a third
does nothing to the first two that another step of the second could not, and the
theorems hold for any number. Three rows give an established row, one that fails or is interrupted and
one written after it. Three requests are needed to have a resolved
range with a gap on both sides of it, and a history with a commit that is
superseded while an older request still needs it; for a gateway they are an initialize that is
still flushing, a request of its session and one that finds the table full. Two lines are needed for a
duplicate id, a cancellation and its target, or a later line behind one in flight. Two taps let a
stranger's precede an approver's, and let a wakeup stand for two; two goroutines are
one poller more than there should be. Six rows are an open, a decision, a dispatch, a
terminal and a late observation, and a close. For the tool gate, three lines are a listing, its
continuation or a listing that supersedes it, and a call; one change of definition is what a stale page needs, and
a wire of one line still leaves any number of computed pages to overtake each other. A session
that pins nothing (`Observing`) only records what it observes: the run leaves it out, as no call of it is refused.
A TTL of two ticks, of which a request lasts at most one, lets a session outlive a slow flush by being answered and
not by being released. Three calls fill a window of two with one that finds it full, or one refused and one
after it; two half minutes are a window, or the decay of a score back to its
baseline. Six symbols of an answer are two whole events (a field, its line end, a blank line), with the cut
anywhere. Seven operations of the router are enough to pin, spend past the cap, cross
both thresholds and fail. In `ReadSide` two readers are one that builds and one that waits; a tick is a
second, to which rows are dated, and `sessionReverify`, after which a poll's view must be
looked at again. `BuildTime` = 0 says that a build takes less than a tick: a slower one only makes a view older by as
much. The scenes keep apart questions that do not meet (a proof beside an export, a poll
beside a page that connects), and the trail's rows apart from the fence rows, which share no
file; both are read in each. The poller, which shares nothing with those who ask, is a subject of its own: two fence rows let one
be there before its first look and one after, or a new log reach the old cursor.
`MaxRows`, `MaxSeq`, `MaxAnswers`, `MaxTaps`, `MaxCalls`, `MaxTime`, `MaxSteps`, `MaxFence`, `MaxLength` and `Unhosted` stand only in guards of the steps that
would add one more.

**Fairness.** A goroutine that can move does in the end (weak fairness of its steps).
The flock goes to a waiter that finds it free again and again (strong
fairness of `Lock`), which is what the kernel's wait queue gives. `StdioProxyRun` assumes
only `Run`'s goroutine and its timers, since the code promises to exit whatever the
others do. For Telegram a fetch tried for ever succeeds sometimes; no deadline
is assumed to pass, so that a lost wakeup cannot hide behind the timeout. Timers of the local approver
fire. In `ToolGate` a write to the upstream may block for ever: only the steps before it, and those of the
response goroutine, are fair. Nothing is assumed of upstreams, people or clients. The other runs check
no liveness: what must happen at the end (`NothingLeftBehind`, `DecisionsReachTrail`, `StopPostsAll`,
`NothingRetained`) is stated of the states in which it has ended.

**A flag.** `EndsBusy` lets the upstream's output end while a line is being decided. The code
allows it. `StdioProxyRun` excludes it because `RunNotBroken` fails with it: that is finding 3. A shutdown
may also overtake the response goroutine between taking an answer and passing it on: such a run is closed without the
observation, INCOMPLETE and not LIMITED, which `ClosedRunComplete` names as its exception.

**Exceptions a property names.** `VerdictsAreTrue`: a trail whose first row has no sidecar yet is
called TAMPERED, where README.md:216 of the repository promises UNANCHORED after "a crash before the checkpoint
update" (the same cause as finding 1), and `verify` says so of a file it could not read. `CutsDoNotMatter`: when an error that answers the
initialize and a later result come in one chunk, the result counts, while in two chunks the error does.

`CHECK_DEADLOCK FALSE` is set where the system stops: a session that has ended, a
run that exited, approvals that returned, streams at their length, calls and questions that are all answered. The trail's
processes never stop for good, so it is not set there.

## Findings

1. **A new trail can be refused for ever** (`AuditTrailFresh`, `audit.go:672`). The
   comment on `updateHighWaterMark` says that a crash between append and sidecar leaves a sidecar one
   entry behind, "which Verify accepts". At the first row there is no sidecar yet, and
   `checkHighWaterMark` takes a trail without one for a truncated one: every later `New` fails.
2. **A refusal can be missing from the trail** (`SessionAuditNameless`, `stdio.go:2004`). A
   `tools/call` without a name, held under `fail_mode: ask` and turned down: the approver's row
   resolves the call's sequence, and the deny row that follows is queued under a sequence that is flushed
   already. Neither its own `resolveAudit` nor the drain, which promises "to emit everything in order", writes it.
3. **A run can be made BROKEN by an upstream that exits at the wrong moment**
   (`StdioProxyEndsBusy`, `stdio.go:2353`). At end of output the response goroutine drains the
   queue without waiting for the line being decided. The drain resolves the line's sequence
   and forgets its action; the refusal's decision row is then written without an action or not at all, and its
   observation has no decision. `drainRunForClose` waits for the input goroutine for this very reason.

Met while modelling, seen in the source and not stated as runs: a call that outlives the forwarder's `Stop` panics. "A slow or
unreachable NockCC can never stall or fail a tool call" (`forward.go:11`), but every `Run` gives up on calls that are still decided (after 5
seconds of `Shutdown` in the gateway and mcp-listen, after a bounded drain in the stdio proxy), and the deferred `Stop` closes the
channel and waits for the reports queued behind a slow NockCC: a call refused, or answered by a human, meanwhile sends its report on the
closed channel (`forward.go:108`), its handler ends without an answer, and a stdio proxy dies with the queued reports (`Panic` of `CallGate`).
Others: a write that loses only a row's newline
leaves a trail `New` accepts and a next row that is acknowledged and joins the line (the
"unterminated" fault; it is why the theorems about acknowledged rows exclude it); `New` may remove the failure marker another
process has just set, since it verifies without the lock; two claims answered out of order leave `currentCard` and
the card of queued rows different; a `Run` that gives up at its deadline leaves queued decisions unwritten, which a paired run
shows by having no close and a legacy trail by nothing; when a fence log is replaced, clients that stay connected are not sent what the new log holds
up to the cursor; a second answer that comes after the first one's id was
released is passed on to the client unchanged.

## Proofs

Checked by TLAPS for every value of the constants.

*Trail* (`AuditTrailProofs`). Three invariants, each resting on the one before.
- `TypeInv` is `TypeOK` and that an unterminated line is a row: without it the count of
  synced rows could go below zero when the line is spoilt. It gives `TypeCorrect`.
- `ChainInv` adds that the flock's holder is the one process in the critical section and that
  the head it has read is still the last signature: this is inductive because no other process
  can append while it holds the lock, and a death or a power loss releases the lock with the process. It
  gives `WritersExclude` and `TrailIsOneChain`, under all faults.
- `DiskInv` relates the rows to storage: while a row is on its way, what has been synced of it and of the
  sidecar follows from where its writer is. It gives `AckedRowsSurvive` and
  `SidecarBehindStorage`, under `RequiredOnly`: required writes only, and no write that
  loses just a newline. Both conditions are needed: best-effort rows are not
  synced, so their sidecar may outrun them.

- `WholeInv` says that any sidecar a process has read or may find counts rows that are in the trail, and that
  none of the damage a writer stops at goes unnoticed; it gives `WholeTrailsVerify`, under `RequiredOnly` for a trail that once had a sidecar
  (`Established`; finding 1 is what happens without). `SequenceInv` ties each row's number to the numbers of the rows of its run before it, and a
  process's counters to the rows of its run (`CountersOf`), also while a row may still fail: the latch of a failed required write is what keeps
  a number from being used again. It gives `RunsStayInSequence`, under `RequiredOnly`.

*Session and its queue* (`SessionAuditProofs`). First the queue's operators, for every argument: what `Mark`
makes of the resolved ranges covers what they covered and the range marked, and nothing else, and keeps them apart; the
ranges of a set of sequences, folded in any order, cover that set (the fold is unwound by a smallest counterexample); `Frontier`
stops at the first sequence that is not covered (`FrontierPasses`). Then `QueueInv`: ranges lie between the frontier and the next
sequence, and what waits in the queue belongs to a sequence not yet passed. `SessionInv` adds whose sequence is whose, that a paired
request owns its action until its rows are written (`Paired`), and, place by place, which of its rows are written and which still
wait in front of it (`RequestRows`, `ResponseHeld`). They give `ResultsFollowRows`: decision and dispatch, in either order, before the response, and all three before the result. `RunOver` says what the drain of a `Run` leaves
behind when it ends in time with no line to come, an empty queue and no line in hand, and that the response goroutine adds nothing to it; with it they give
`DecisionsOutliveSession`, for sessions without nameless calls: with them it is false, which is finding 2. Of a `Run` that gives up it says nothing. `Owed` adds that a
pending sequence is that of a request between its arrival and its resolution, and that the actions owned lie behind the
frontier; `PrunedFew` counts what `Prune` leaves. They give `QuietRetainsNothing`, its state part and its action part.
The refinement of `RequestOrderLog` needs what the queue has forgotten. `CardsKept` says that the card states kept are part of the
whole history and hold, for every unsettled sequence and every later one, the last state committed at or before it (`Remembers`), which
pruning preserves (`PruneRemembers`); so a row is stamped alike from either (`CardsAgree`). `HistoryOwned` says that each state of the history
is the commit of one request, so that no commit replaces another. A flush takes the rows of the sequences it passes, the log
those of all the requests that are settled with every earlier one: the two run over different lists, and `FlattenMiddle`
shows that leaving out empty ends changes nothing. `ActionsHeld` says that what waits is a row of an action in paired
sessions only, whose request is not settled: it is why only a paired request goes early, and none stays behind. With `SettledGrows`, what a flush adds to the settled requests, this makes each resolution
or drain one `Settle` of the log (`FlushSettles`), and gives `SessionImplementsLog`, again for sessions without nameless
calls: those queue rows under a sequence that is settled, which the log forbids.

*Stdio run* (`StdioProxyProofs`). The trail only grows. The input goroutine holds its line from the dispatch row to the end
of the write (`DispatchedFirst`), and an id is released only once the observation of its call is in the queue or the
trail (`ObservedFirst`). They give `ForwardedCallsAreDispatched` and `RelayedCallsAreObserved`, with `EndsBusy` as
well.

*Approvals* (`ApprovalsProofs`). `IInv` follows a decision of the local approver through its three steps: taken (no
verdict anywhere), sent (in the channel), returned. Together with "a taken hold is not in the
map" it makes the timeout's check exact. It gives `OperatorsAreHonored`, `OneRequestDecides`, and,
step by step, `LocalImplementsGate`. For Telegram, `PInv` says that the flag `polling` is the one goroutine that
polls, and that it is set while a call waits: the goroutine that finds nobody waiting clears it under the lock a caller registers
under. It gives `OnePollerRuns`. `TInv` counts taps: with `d` the number of updates dealt with, a mailbox
holds the taps of its call among the first `d` that were not taken yet, an update in the poller's hands is number `d + 1`, and a
mailbox with taps has its wakeup, unless its owner is about to look again. It gives `RejectionsAreReported`; with the first
tap of an approver as the answer it maps every step of either approver to one of the gate's or a stutter
(`ApproversAreGates`, and `EitherHonorsOperators` for whichever is built).

*Tool gate* (`ToolGateProofs`). `Typed` gives the types of each part of the state, with the facts that
order the lines: a build's number is at most the number of lines, and a line not yet sent has no build.
It gives `TypeCorrect`. `ApprovedWhenDispatched` is not inductive: it needs to know that what is published is what
the upstream has now. `PublishedCurrent` says so of a catalogue of one page, unless a notice is
unheeded; it rests on `PagesCurrent`, the same of every page computed, on the wire or in the reader's hands that
may still be published whole, and that on `AsksFirst`, that the listing such a build awaits asks for a
first page. Each change sends a notice, and acting on one drops the build such pages belong to, so all three are
inductive; `DispatchLocked` says that the lock acting on a notice needs is held. They give
`PinnedDispatchesAreApproved`, with `Observing` as well and for any tools, cursors and lines. `RowsInv` says which rows a line
has at each place it can be and that all carry the observation taken for its dispatch; `ListingInv` that a build in flight
has a line whose page it awaits. They give `RowsOfCallsAgree`.

*Call gate* (`CallGateProofs`). `ForwardedIsCleared` looks only at what went upstream; it is not inductive until
it is known what a call has passed at each place it can wait at (`PassedAt`): not denied once it reaches the
limiter, counted once it reaches the hold, approved where the policy asks for a human once its secrets are put in.
`Cleared` keeps the same of each call sent. It gives `CallsAreCleared`, for any sessions, tools,
policy that loads, and limits, whatever the trust score does. `LimiterInv` says that the limiter's lists of
times are what it has admitted but for a prefix that has left the window: it gives `LimitsAreKept`. `ForwarderInv` counts reports, as many accepted as posted and still in the channel, and says
that the worker ends with the channel empty; calls still open add nothing to a closed channel, since their reports panic. It gives `StopLosesNothing`.

*Pool router* (`CallGateProofs`, from `Accounts` on). What a tree's dear calls cost is part of what it spent (`DearIsCapped`), so
that the call that reaches the cap is the last of them; the announcements are the crossings, and the trees remember them (`Announced`);
how long an upstream cools follows from when it failed (`CoolsAfterFailure`). With `CandidatesAreGood`, what a route is allowed
and spares, they give `BudgetsAreKept`, for any files that parse, sessions and trees: the limits of the gate and the budget of
the router in one. Every behaviour of the two side by side is one of the gate (`GateBesidePool`), so its other theorems hold there too.

*Gateway* (`GatewayProofs`). One invariant of five parts. `Typed`; `ReadyInv`: a request owns its session and its gate's
mutex exactly while it is inside (`SessionsOwned`, `MutexHeld`), and a session that may be told has its upstream session
(`ExposedReady`); `LeftInv`: slots and unresolved sequences belong to requests that have not ended (`SlotsHeld`,
`QueuesOwned`), and a session nobody uses is known to a client (`SessionsKept`); `RecordInv`: under required audit, where the call's allow row
is from its approval on, in the trail, in the queue or lost with the writer; `AgesInv`: a session a client knows of is busy
or no older in the table than the client's last answer, and one that is gone has not answered for the TTL. They give `ToldSessionsReady`, `NothingStaysBehind`, `NothingHappensOffRecord` and
`RefusalsHaveCause`, for any number of requests, slots and sessions and for an mcp-listen alone.

*Read side* (`ReadSideProofs`). A proof is complete because of what holds beside it: its window ends before now and
before the time of any row on its way (`ProofsArePast`), and who makes one holds the writers' flock between its two
reads, so that no row is on its way and the time it took is not ahead of the clock (`CapturesHoldFlock`). It gives
`ProofsStayComplete`, under damage, failed checkpoints and failed reads. `KInv` bounds what a view may miss: a view has the rows
that were there when it was built, or when the reader that waits for it asked (`ReadersServed`, place by place of `getView`), and of the
poller `Streamed` says that it has shown, in order and once, what lies between its first look at a log and its cursor, and nothing beyond, and `PollerKeepsUp` that
the cursor is at the end of the log once the signature is the log's. It gives `ViewsStayCurrent`, for any readers, ages
and scenes. `VInv` follows damage: what is damaged stays so, and a trail that is cut short is left alone (`DamageKnown`); whoever
reads after the damage finds it, whether it came before both of its reads or between them (`BothRead`, `HalfRead`); a view whose last
read is more than `BuildTime` after the damage shows it, and one that is shared was built while its readers waited
(`SharedLate`). It gives `VerdictsStayTrue`.

*Verdict on a run* (`ReadSideProofs`, from `VerdictJudges` on). The fold of `AssessRuns` is unrolled into one state per row
(`Runs`). `Summary` says of the state after `k` rows what those rows hold, without the fold: which run events and which
rows of each action were among them, and that it is not broken exactly when each row fits the rows before it (`SoundAt`). One row keeps it
(`AssessFacts`, `SummaryStep`); whether an outcome is unknown is known only of a run that is not broken, where an action ends once. So
the verdicts are statements about the stream at once (`VerdictFacts`): LIMITED of one that fits at every place,
closes and leaves no action open, which are the streams the design calls complete (`CompleteFits`, `FitsComplete`); BROKEN of one with a signed row
that does not fit somewhere, which no later row can change (`BrokenStays`). They give `LimitedIsComplete` and `BreachesLast`,
for streams of any length, with any actions and times.

Assumptions: only the named ASSUMEs on constants of the modules, and those a theorem states.

Several of these rest on facts about folds or loops of the model. The induction theorems of the library take an operator as a
parameter, which the provers cannot instantiate, so such facts are proved from the set of counterexamples: it has a smallest element, and that
one leads to a smaller.

Model-checked only:
- liveness and everything that rests on fairness (`RecordReturns`, `ShutdownEnds`, `AskReturns`, `AnswerDecides`,
  `ShownCanBeCalled`, `NoticesLand`), which is out of the prover's reach;
- what the verdict is on the rows the stdio proxy writes (`RunNotBroken`, `ClosedRunComplete`). `VerdictFacts` says when a
  stream of rows is broken and when it is complete; what is missing is the invariant that the proxy's rows fit, through its queue;
- `CutsDoNotMatter` of `InitWriter`, which compares two parses of one text.

## Plan

The trail, the session over its queue, the approvers and the tool gate came first, then the gateway with its
listeners, the call gate with what sessions share, the pool router and the read side. What is left:

1. Proofs: `RunNotBroken` and `ClosedRunComplete`, from `VerdictFacts` and an invariant that each row in the trail or the queue of
   `StdioProxy` fits those before it.
2. The live stream of a wall's page (`handleSSE`, `tail`): what is shown between a page's
   history and its registration, and of a line that is half written. Both are hazards the code has today.
3. One score file shared by two processes (`internal/trust`), which the code leaves to the last writer.

## Not modelled

Signatures and canonical JSON (a signature that is equal when the content is);
parsing, matching and scrubbing of text, with the argument validators and the set of secrets, which are functions of
one message; transports and framing, whose errors are the failures of the steps that use them; file permissions and peer credentials; the
replacement of the trail's path by another process (`VerifyStoragePath` and
`checkPathIdentity`); retired key files; replies written to the client at
shutdown; the drains that find a line in hand, and the outcome rows of `finishPendingActions`, in `SessionAudit` (both are in `StdioProxy`); the fixed approver of the
end-to-end tests (`NOCKGUARD_APPROVAL_TEST`, `cmd/nockguard/main.go:36-41`); rows the fence poller skips, and those the wall drops for a slow client; the live event stream, filters, pulse and rendering of the wall; evidence packs and the offline check of a
proof; command-line wiring; `serve` of nockguard-pool, which the code does not implement; scripts, site
and examples. Each component's entry in `PROJECT.json` says what is left out of it, and its hazards without a
property say why there is none.
