# Formal models of looprig/wui

TLA+ models of this repository's protocol and state machinery, the TLC
configurations that check them on small instances, and TLAPS proofs of their
main properties for every value of the parameters. `PROJECT.json` lists the
components, the runs, the mutants that show each property can fail, the map
from definitions to source lines, the hazards and the theorems.

All source paths below are relative to `src/`; `join.ts` is
`packages/protocol/src/join.ts`, `clientlink.ts` is
`packages/protocol/src/clientlink.ts` and `connection.ts` is
`packages/react/src/stores/connection.ts`.

## Inventory

| component | code | state | operations | talks to |
|---|---|---|---|---|
| Factory session join | `join.ts` `joinFactorySessionView` (640-949) | committed cursor `coveredThrough`, repair count, reset floor, per-generation queue, capture, `seen` | subscribe, cold read, capture, join, follow, repair, reset, abort | captured tail, signal queue, ClientLink, REST |
| Captured tail | `join.ts` `CapturedTail` (408-525) | tip, coverage, events, spent budgets | accept a page, attest a prefix | Factory join |
| Factory signal queue | `join.ts` `FactorySignalQueue` (1024-1109) | buffered signals, waiter, repair flag | push, drain, next, wait for repair | link callbacks, Factory join |
| Legacy session join | `join.ts` `joinSessionView` (1201-1480) | cursor, tip, connection epoch, pending repair, refusal streak | connect, page the journal, drain, follow, reconnect, give up | live queue, live source, journal reader |
| Live frame queue | `join.ts` `AsyncQueue`, `selectFrameToDrop` (1559-1823) | buffered frames, waiter, closed/error, drop count | push, evict, refuse, close, drain, next | pump, legacy join |
| Contract validators | `validate.ts`, `schema.ts`, `errors.ts`, `types.ts` | none | accept or reject a wire record | everything that reads the wire |
| Session view stores | `packages/protocol/src/store.ts` | legacy: generation, pump, pending frame, binding state; Factory: controller, lifecycle token, persisted cursor | start, stop, pump, flush, visibility | joins, React |
| Fold and rows | `fold.ts`, `rows.ts`, `enduring.ts`, `blocks.ts` ... | the `SessionView` | fold one event or frame | joins |
| Client link | `clientlink.ts` | socket, readiness, per-subscription state | connect, subscribe, ready, interrupted, disconnect | Factory join, link store |
| Factory link store | `packages/react/src/stores/connection.ts`, `publisher.ts` | bindings, generations, refresh epoch, channel ownership | bind, release, drive, refresh, close | client link |
| Factory session view hook | `packages/react/src/use-session-view.ts` | cold snapshot, gate page tickets, earlier-history read | start, read, join publication, browse, reset | Factory join, REST |
| Command plane | `commands.ts`, `stores/pending.ts`, `stores/composer.ts` | command slots: identity, retained envelope, outcome | submit, replay, cancel, settle | REST, views |
| Gates | `gate.ts`, `gate-actions.ts`, `stores/gate.ts` | open gates, responses in flight | respond, retire | command plane, fold |
| Session lists and reachability | `packages/react/src/stores/session-list.ts`, `use-factory-session-list.ts`, `app/src/lib/use-session-reachability.ts` | snapshot, read generation; failing since, notify seen, probe in flight | refresh, page, probe, interval | REST, view store |
| REST and SSE transports | `transport.ts`, `factory-rest.ts`, `sse.ts`, `live.ts` | cached CSRF token, one fetch per connection | call, retry once on 403, stream | server |
| React bindings, web application | `packages/react/src/*`, `app/src/*` | component state | render | stores |
| HTTP guard and CSRF tokens | `guard.go`, `csrf.go`, `handler.go` | bounded token map | mint, verify, evict | browsers |
| Embedded bundle | `assets.go`, `bundle.go` | embedded files | serve | browsers |
| Release publication | `app/scripts/release-dist.mjs` | staged and published trees | stage, publish, roll back, interrupt | file system |

What is hard here, and what a unit test hardly reaches:

* **Two sources for one journal.** Both joins subscribe first and read
  afterwards, so each record may come from a page, from the buffer of the time
  before the join, and from the live link. Correctness is "each once, in order,
  none missing" whatever the interleaving, and the cursor must never assert more
  than was yielded, since what is below it is never read again.
* **Bounded buffers.** An overflow means different things before and after the
  join, and in the legacy queue it means eviction, coalescing or refusal.
* **Repairs.** A repair counter that forgives too much retries forever, one that
  forgives too little gives up on a recovering session.
* **Leftovers.** Superseded connections, subscriptions, pumps, reads and command
  attempts keep calling back, and the reaction to a settled promise may run
  after a `close()`, a `cancel()`, a `stop()` or a later `start()`.
* **Listeners that call back.** The view store speaks to its listeners in the
  middle of its methods; one may stop or restart the store before the method
  goes on.
* **Two copies of one fact.** The client library and the link each hold a
  connection state; a page of open gates and the followed journal each say which
  gates are open; a preview and a committed row each hold a step's text; a tab
  and the guard each hold a token.
* **Outcomes nobody hears.** A command's reply, a create's answer and a gate's
  response may be lost after the server acted on them; the retry must be the
  same action, and what the user is told must not be false.
* **Resets and truncation.** The cursor may go back, but only when told to, and
  rows, gates and tombstones of the journal that went must go with it.
* **Bodies in chunks.** A line, a frame and a UTF-8 sequence may be split
  anywhere, and an object may change between two of its ranges.
* **Publication.** A release writes a tree that a crash, a signal or a surviving
  child process may leave half written.
* **Suspension.** Every `await` and `yield` is a point where the link, the
  consumer and an abort may act first.

The properties that make each component correct are named under Runs, and
`hazards` in `PROJECT.json` ties each to the line where it bites.

## Modules

| module | role |
|---|---|
| `CapturedTail` | the capture of a journal tail, page by page: an operator library over a capture record |
| `SignalQueue` | the Factory join's bounded signal buffer: an operator library over a queue record |
| `FactoryJoin` | `joinFactorySessionView` with an external Factory; EXTENDS the two above |
| `ContiguousFeed` | what the Factory join promises its consumer: a feed of the journal with no hole. `FactoryJoin` is shown to implement it, and `FactoryColdJoin` and `GateBoard` build on that promise |
| `LiveQueue` | `AsyncQueue` and the eviction policy: an operator library over a queue record |
| `SessionJoin` | `joinSessionView` with an external server and live source; EXTENDS `LiveQueue` |
| `ClientLink` | the application's one link over the external Centrifuge client: an operator library with its own variables |
| `FactoryLinkStore` | the owner of the link, its bindings and the coalesced connect; EXTENDS `ClientLink` and composes its operators into handlers |
| `SessionViewStore` | the legacy view's owner: one pump at a time, a notification per frame, and listeners that may call back; with the connection status derived from its channels |
| `FactoryViewStore` | Factory's view owner: one join at a time, the cursor the next one starts from, and listeners that may stop and start it; joins are external and keep `ContiguousFeed`'s promise |
| `SessionList` | the legacy session list: overlapping reads of one store under a hook that aborts and remounts |
| `Reachability` | the probe of the open session's host: intervals, notifies and at most one request |
| `PageViews` | composes `SessionViewStore` and the last three; an initial state gives one of them something to do |
| `FactoryColdJoin` | the snapshot machine behind `useFactorySessionView`: cold read, authorized join, gate page re-reads and earlier history |
| `FactoryLiveText` | the preview of uncommitted text the same machine keeps, with its tombstones |
| `CommandPlane` | the retained envelopes of a session's controls, the stores that are views of them, and the attempts that carry them to Factory |
| `FactoryPages` | the session page's composer over the plane, and the shell's identity and session list; EXTENDS `CommandPlane` |
| `HostControl` | a control request of the wui-hosted plane: the tabs' cached CSRF token and shared mint, and the guard's bounded token map |
| `HostPages` | the create form, the legacy composer, gates and interrupts of each tab; EXTENDS `HostControl` |
| `GateBoard` | the board of open gates: a page merged with the events of a followed journal |
| `Transcript` | the fold of durable records and live frames into one list of rows |
| `EventContent` | which rows one record becomes, whatever its spelling, and the live text of a step against its committed text |
| `Contract` | the parse boundary of the Factory plane: which documents a client takes |
| `LiveStream` | one `text/event-stream` response through the line parser, in chunks |
| `ToolCapture` | the tool-output viewer, the paged object read and the requests under it |
| `ResponseReads` | composes the last four and `FactoryLiveText`; an initial state gives one of them something to read |
| `ReleaseDist` | the publication of a bundle, its rollback, and what the Go side makes of the committed tree |
| `WuiHost` | composes `ReleaseDist` and `HostPages` in the same way |
| `MC*` | small instances for TLC, one per `.cfg` (the three Factory join instances share `MCFactoryJoin`) |
| `FactoryJoin_proofs`, `SessionJoin_proofs` | theorems about the joins; the Factory join's feed has no hole, and it gives up fairly |
| `FactoryColdJoin_proofs` | what the Factory session hook shows is true |
| `FactoryLinkStore_proofs` | theorems about the link store |
| `ViewStores_proofs` | theorems about both view stores, the transcript they fold, the session list and the probe |
| `CommandPlane_proofs` | theorems about commands, their stores and the pages that send them |
| `WuiHost_proofs` | theorems about control requests and the pages that send them, and about what a release publishes, leaves behind and may have committed |
| `GateBoard_proofs` | theorems about the board of open gates, the tool-output viewer, the parse boundary and the preview of uncommitted text |

Definitions named as a "seeded fault" are plausible bugs of the operator that
follows them. They are not part of a specification; substituting one for the
operator breaks the property `PROJECT.json` pairs it with.

### Grain

JavaScript runs one callback to completion, so an action is the code between
two points where it awaits or yields. `pc`, where there is one, is the point
where a generator or script is suspended. A value an awaited promise already
holds, but that the generator has not resumed with, is modelled where it
matters: `hand` in both queues is the item given to a waiting `next()`, and
other callbacks may run before the generator gets it. Where a method speaks to
listeners that may call back (`SessionViewStore`), the method is cut at that
point and `calls` is the stack of what is suspended.

### FactoryJoin

| model | code |
|---|---|
| `pc = "delay"`, `StartGeneration`, `Repair` | loop head: repair cap, backoff, floor applied, `generationBase` (666-691) |
| `Publish`, `Republish`, `Hint`, `LinkFault`, `DeliverReset`, `LateReset` | the link's callbacks `admitPublication`, `onReset`, `onError` (692-758) |
| `Ready`, `ReadyFails` | the subscription settles (763-768) |
| `FirstPage`, `NextPage`, `ReadFails` | cold reads and `followCapturedTail` (535-557, 769-829) |
| `Refuse`, `JoinAt` | what a capture's end leads to (829-883) |
| `EmitEvent`, `EmitCoverage`, `EmitAbove`, `EmitDone` | `mergeFactoryEvents` yielded one by one (872-911) |
| `Await`, `Follow`, `Woken` | the live loop and the race with a repair (911-939, 1068-1109) |
| `Aborted`, `Return` | the signal checks and exits (940-949) |

Public and private records differ only in that private ones are never
published and carry no event in a page. An event weighs `EventBytes` of the
byte ceiling, whatever the constant says of it (`BytesOf`, `PageBytes`). A validator's rejection is the fault
the join sees; ephemeral publications and tip hints are one kind of item, since
neither moves the cursor. A truncated journal grows other records in the same
places, told apart by `id`.

### SessionJoin

| model | code |
|---|---|
| `Connect` | loop head, new queue, live source called, pump started (1257-1326) |
| `AskPage`, `ServeRead`, `ReadReturns`, `EmitEvent`, `PageDone` | the cold walk (1327-1355); the server answers between asking and returning |
| `Drain`, `DrainDone`, `Follow`, `Await` | steps 3 and 4 (1372-1394) |
| `LiveEnds`, `ReadFails`, `EndConnection`, `DelayOver` | catch, finally, streak, give-up, delays (1395-1475) |
| `Relay`, `Arrives`, `OnIrreducible` | the pump of any connection and the epoch guard (1278-1311, 1832-1845) |
| `abandoned`, `AbandonedEnds` | connections left behind whose `return()` has not taken effect (1403-1424) |
| `Publish`, `Chatter`, `ConnectionEnds`, `Commit`, `Subscribe` | the server and the network |

Left out: the fold (it is a function of what is yielded and moves no cursor),
`onQueueOverflow` (a report), the lengths of delays, and a consumer that calls
`return()` at a yield, which ends the join where it stands. An unparseable `error`
frame is assumed to carry no record: the code neither repairs nor notices when
it did. `refusers`, `recovered`, `asked`, `start` and `yielded` are history.

### ClientLink and FactoryLinkStore

| model | code |
|---|---|
| `transport`, `registry`, `Drop` | the external client's state, its `_subs`, and its order of events on a loss |
| `currentState`, `negotiated`, `pendingConnect`, `Connect`, `Disconnect`, `Opens`, `DropEnds` | `clientlink.ts` 251-325 |
| `Subscribe`, `Authorizes`, `SubscriptionDrops`, `SubscriptionFails` | `subscribe` and the handlers of a subscription's events (`clientlink.ts` 327-402) |
| `Open`, `Close`, `Bind`, `Cancel` | the store's interface (`connection.ts` 283-367) |
| `Released`, `Peers`, `Redriven` | `#release`, `#redriveChannelPeers` (393-460) |
| `EnsureConnected`, `ConnectReaction` with `Established`, `Failed`, `Overtaken` | `#ensureConnected` (468-512): the call, and the reaction of its promise |
| `Drive`, `JoinReaction` with `Abandoned`, `Unavailable`, `Subscribes` | `#join` before and after its `await` (514-591) |
| `ReadyReaction` | the reaction of a subscription's `ready` (592-602) |
| `OnBindingError` | `#onBindingError` (605-616) |

`jobs` is the microtask queue: the reactions of promises already settled. A
view or the provider may call the store between two of them; an event of the
transport waits until they have run. Reactions queued together run in any
order, which covers the order the code runs them in. A loss is told one
callback at a time (`dropping`): first every authorized subscription, then the
link. That is what the library does (`_disconnect`, `_clearConnectedState`,
built into `dist/assets/index-CocKO3WJ.js:22`).

Folded away: a subscription's `readySettled`, `authorized` and `interrupted`
are its `state`, because whatever settles readiness otherwise also reports an
error and the store drops the subscription in that same step; `OpenIsHeard`
is what makes this sound. `waiting` forgets the waits that `close()` abandons:
their records are cancelled, so they return whatever the attempt comes to.
A view's callback is taken not to call back into the store synchronously, and
`unsubscribe` not to throw. `losses`, `closed` and `heard` are history.

### SessionViewStore

| model | code |
|---|---|
| `Start`, `StartReset`, `StartJoin` | `start()`, cut where a listener may call back (`store.ts` 410-470) |
| `Stop`, `StopRest` | `stop()` (501-516) |
| `PumpEvent`, `PumpRest`, `PumpEnds`, `PumpFails`, `Settle`, `SettleRest` | the pump, its catch and its finally (518-540, 579-612) |
| `SetActive` | the activity channel (542-577) |
| `Schedule`, `Finalize`, `FlushTask`, `Frame`, `Unlisten` | the pending update: a frame, or a microtask while hidden (579-727) |
| `Visibility` | the visibility listener of a run (447-457) |
| `QueueOverflow`, `RepairRequired`, `RepairDone` | the join's reports (471-496) |
| `HearError`, `HearLifecycle`, `WarnTask` | `SessionConnectionStore` over two unlabelled channels (`connection.ts` 47-117) |

`habit` says from which listeners the application calls back. The rows are a
count. A timer and an animation frame are told apart, though the code keeps both
in one field.

### FactoryViewStore, SessionList and Reachability

| model | code |
|---|---|
| `FactoryStart`, `FactoryStop` | `FactorySessionViewStore.start()` and `stop()` (`store.ts` 120-215) |
| `Take`, `PersistThrows`, `PumpThrows`, `SettleFailed` | its pump, with the token check before an update is published, its catch and its finally (139-168) |
| `YieldsPublic`, `YieldsCoverage`, `YieldsStatus`, `OpensWindow`, `GoesBack`, `JoinReturns` | a join, as `ContiguousFeed` promises it: external |
| `Refresh`, `Heard` | `SessionListStore.refresh()` and its two reactions (`stores/session-list.ts`) |
| `ListMount`, `QueryChanges`, `ListUnmount`, `ManualRefresh` | `useSessionList`'s effect, its cleanup and `refresh` |
| `SessionsListState` | what the page makes of the snapshot (`app/src/lib/sessions-state.ts`) |
| `Probe`, `Interval`, `Answered`, `Rejected`, `Notify`, `ProbeUnmount` | the hook's probe, its interval and its cleanups (`use-session-reachability.ts`) |

An update is its cover and the one public record it may carry; what the fold
makes of it moves no cursor. Notify listeners run at the end of a step, so what
they call is the next action; error listeners run in the middle of one, and
between (`at = "failing"`) only the store's own methods may run. A page of the
list is the read it answers and whether it is empty. The probe's times are ages,
which stop mattering once they reach the limit. `shown`, `edge`, `silentFor` and
`failures` are history.

### FactoryColdJoin and FactoryLiveText

| model | code |
|---|---|
| `Start`, `Stop`, `Abort`, `NewTicket`, `TakeTicket` | `start`, `stop`, generations and gate tickets (`use-session-view.ts` 362-475, 939-946) |
| `ColdGates`, `ColdTail`, `ColdRecapture`, `ColdReady`, `ColdFails`, `ColdDenied`, `CancelCold` | `#readCold` (576-653) |
| `Authorize`, `JoinGates`, `StatusRead`, `Public`, `Repair`, `JoinFails`, `JoinDenied` | the join's callbacks (641-767) |
| `Projection`, `Cursors`, `JoinStart`, `lowest` | the join's publication of a capture (728-760), and where the join resumes from (`join.ts` 740-755) |
| `GateTimer`, `RefreshSampled`, `Refreshed`, `RefreshSuperseded`, `RefreshFails`, `RefreshDenied` | the gate page's re-reads (398-464) |
| `BrowseEarlier`, `EarlierSampled`, `EarlierRestarts`, `EarlierShown`, `EarlierDropped`, `EarlierFails`, `EarlierDenied` | earlier history (477-550) |
| `Commit`, `Truncate`, `GateMoves`, `Revoke` | Factory: external |

Every read is sampled by Factory between its start and its answer, and an
aborted one may still answer (an allowance's `strays`). A truncation between two
captures is told of by a reset that the link orders with its records, so the next
capture resumes from the committed cursor or from one the journal was not cut
below (`lowest`). `FactoryLiveText` follows `#liveText`
and its tombstones (`use-session-view.ts` 696-844) and the decoder of
`factory-live-text.ts`; the machine and the preview share only the generation,
so each is checked by itself.

### CommandPlane and FactoryPages

| model | code |
|---|---|
| `Build`, `Attach`, `Detach`, `Abandon` | the life of a store that is a view of the scope (`stores/pending.ts`) |
| `Send`, `MintFails`, `Replay`, `Discard`, `ForgetError`, `Prune` | what a control does (`pending.ts`, `composer.ts`, `gate.ts`) |
| `Settle` with `Outcome`, `Answered` | `#attempt` and `#classify` (287-325), and `commands.ts` |
| `Reads`, `Excuse`, `Decide`, `Reply`, `Lose` | Factory and the network: external |
| `RouteSends`, `RouteSettles`, `RouteDiscards`, `RouteMounts` | `session-detail-route.tsx` with `own-commands.ts` |
| `Login`, `NewGeneration`, `RetryBootstrap`, `BootstrapSettles` | `use-connection.ts` |
| `Turns`, `ListSettles` | `use-factory-session-list.ts`, `stores/publisher.ts` |

A request handed to the link may reach Factory after its attempt was given up.
A slot is told by its command's identity, which no two slots share.

### HostControl and HostPages

| model | code |
|---|---|
| `Start`, `Attempt`, `MintArrives`, `MintFails`, `Rejected`, `Served`, `Fails`, `Abort` | `HostTransport`'s control requests (`transport.ts` 467-694) |
| `Verify`, `EvictExpired`, `EvictOldest`, `MintServed`, `Arrive` | `csrf.go` 119-272 |
| `Age`, `Restart` | time and the process: external |
| `IdempotencyKeyFor`, `StartCreate` | the create form's attempt (`new-session-button.tsx` 43-69) |
| `StartInput`, `StartGate`, `StartInterrupt`, `Answered`, `Fold`, `Prune`, `Reconcile` | `composer.ts`, `stores/gate.ts`, `use-interrupt.ts` and their effects on a new view |
| `Handle`, `GateTimesOut` | serve, and the policy that resolves a gate nobody answered: external |

Tokens are numbered as they are minted, so the guard's clock is the number of
tokens past their lifetime.

### GateBoard, Transcript and EventContent

| model | code |
|---|---|
| `Render` with `ResolvedIn`, `OpenRows`, `OpeningEvents`, `Folded`, `NewGeneration` | `useFactoryGateBoard` (`factory-gate-board.ts` 91-241) |
| `FoldEvents`, `MergePage`, `GateProjection` | the public gate board (`fold.ts` 1615-1845, `gate.ts`) |
| `Start`, `Cold`, `PageArrives`, `Public`, `Earlier`, `Refused` | what the view gives it, as `FactoryColdJoin` has it |
| `FoldTurnStarted`, `FoldStepDone`, `FoldTerminal`, `FoldRefusal`, `FoldLoopStarted`, `FoldGate`, `RelinkLoop` | the enduring events (`fold.ts` 918-1222, 1406-1427) |
| `FoldDelta`, `FoldTool`, `CommitLiveRows`, `DropLiveRows`, `AddPendingRow`, `ResolveCommand` | live frames, their commit, and pending rows |
| `Attach`, `ColdRead`, `FoldCold`, `FoldLive`, `Drop` | the connection that hands them over (`join.ts` 1313-1393) |
| `Rows`, `StepRows`, `OpenerRows`, `DecodeMessages`, `FoldChunk` | `enduring.ts`, `blocks.ts`, `rows.ts`, `fold.ts` 481-762 |

Text is the set of the steps (`Transcript`) or the tokens (`EventContent`) it is
made of; several blocks of one heading are joined with a newline when they are
committed (`Joined`, `rows.ts` 244-292), and those of a tool's result with nothing
(`ToolResultText`). A subagent may work before its `LoopStarted` record is
written (`MayWork`), the order `relinkLoop` is for (`fold.ts` 1391-1406). The rows of a `Transcript` view are the function of its rows by their
ordinals: the code's array only grows at its end, is filtered, or has rows
replaced in their places, so the order of ordinals is its order. `ReadFirst` is
the comparator `rowsForLoop` sorts a loop's rows with (`rows.ts` 340-351). Turn ids, content, queued inputs, compactions and status events, which
no property tells apart, are left out, and so are malformed frames.

### Contract, LiveStream and ToolCapture

`Contract` is `validateFactorySemantics` over numbers as `JSON.parse` leaves
them: exact below `Exact` (2^53), rounded to an even one from there on. Which
documents reach it is `Document`, the shapes the schemas let through. `LiveStream` is the parser of `sse.ts` step by step
and the source of `live.ts`; what it should have yielded is defined from the
blocks the server sent, in the module, beside it. `ToolCapture` is the viewer
with its effects, `readToolCapture` and the requests of `factory-rest.ts`, over
objects that may be replaced or removed between any two of them; a request may
fail, or end in an `AbortError` that is not the viewer's (`RequestDropped`).

### ReleaseDist

| model | code |
|---|---|
| `StartRelease`, `Compare`, `RemoveTree`, `Copy`, `VerifyDist`, `Summary`, `Check` | the transaction (`release-dist.mjs` 253-330) |
| `Spawn`, `LeaderCloses`, `Settle`, `Interrupt`, `GraceEnds`, `KillWaitEnds` | `ManagedCommands` and its process groups |
| `Fail`, `RollBack` | the catch and `restoreCommittedDist` |
| `BundleProtocolVersion`, `Serve` | `bundle.go`, `assets.go` |
| `Exit`, `Scribble`, `Crash`, `Commit`, `Reset` | commands, the machine and the operator: external |

Handlers run only where the script awaits, so a signal that arrives elsewhere is
one that arrives at the next await. Only the release, its commands and the
operator write `dist/`; the operator commits after exit 0 only, and starts no
release while a process of the last one is alive.

## Runs

| run | what it asks | instance |
|---|---|---|
| `factory_join` | Does the Factory join skip, repeat or reorder a public record, commit past one, or give up without cause; does it implement `ContiguousFeed`? | journal up to 4, pages of 2, records of 7, 1, 3 and 1 under a ceiling of 6, a buffer of 1, two faults, one repair |
| `factory_truncation` | Do order and the rule for lowering the cursor survive a truncation; does the join catch up, and does an abort always end it? | journal up to 2, one truncation, one fault, two repairs, with fairness |
| `factory_join_overflow` | Is an overflow after the join repaired, as the design document says? It is not: see Findings | journal up to 4, pages of 1, light records, no fault, a consumer that may be slower than its buffer |
| `session_join` | Does the legacy join yield each record once and in order; do the binding state, the streak and the eviction do what they say; does it catch up? | journal up to 3, a buffer of 2, three noise frames over two streams, one fault, with fairness |
| `link_store` | Is every open subscription its binding's own and the only one of its channel; is a loser driven, a declined session left alone, a cancelled or closed one silent; is a binding that is down told so, once for each loss; is every wait answered? | two views of one session, three epochs, two lost connections |
| `page_views` | Do the stores run the join that is wanted, abort the superseded, tell what they published and lose nothing; does the list say what came of the newest read; is a host given up neither early nor for ever? | no callback, callbacks from error listeners, or from notify listeners, two deep; four generations, two events, three reports; two Factory runs over a journal up to 2, cut once; three reads of two windows; three ticks |
| `cold_join` | Are the rows shown the journal's and only the permitted caller's; does the gate page shown never go back, nor stay behind but where a superseded re-read answered late; does an earlier page settle? | journal up to 3, one truncation, four allowances in which the sources meet pairwise |
| `commands` | Is a command kept until decided, is what is told of it true, is an input in sight, is the list the reader's own? | two commands, three stores, five allowances; the shell: three reads, two logins |
| `wui_host` | Is what is committed served; does a release write alone, end whole, and end when told to; is the one retry safe, does a text make one session, does a gate's card tell the truth, a timeout excepted? | seven builds, two heads, three releases, two signals, one stray write, one crash; two tabs, three requests, a gate that may time out, a guard of two tokens, which ages and restarts |
| `gate_board` | Does a resolved gate stay gone, is an open one listed? | two gates, journal up to 4, one truncation, two pages, two runs |
| `transcript` | Does what is shown agree with a replay, is the tree of loops known, do rows stay in place, is nothing told twice? | journal up to 5, allowances for frames, tools, a subagent, a subagent whose record comes late, and submits |
| `response_reads` | Does the parser yield what was sent, is the viewer honest, is what a validator takes what was sent, does a record become the same rows however spelled, is what was watched what is committed, is the preview true? | two blocks in every chunking, with a line over the limit and a block behind it; two loads and one rewrite; numbers on both sides of the last exact integer, ids on both sides of the limit; every spelling of one record; two turns of two steps |

Some properties are conjunctions of named parts, which the modules define and
comment one by one: `JudgedRight` (`HealthyIsLive`, `StreakIsConsecutive`,
`RecoveryReadLater`), `NobodyDownUntold` (`LoserReachable`, `EveryGenerationTried`,
`DownIsTold`, `EachLossTold`, `NoOrphanedWait`, `ToldOncePerSubscription`,
`OncePerGeneration`, `ClosedStaysIdle`, `ReadySettles`), `ComesToRest` (`CatchesUp`, `AbortStops`),
`ViewTells` (`StatusTells`, `RowsOfThisRun`, `UrgentShown`, `Published`),
`OneRunHeld` (`WantedRuns`, `NothingLeaks`), `StoreFaithful` (`NothingLost`,
`RunsAsAsked`, `KeepsThePromise`), `ListTells` (`NewestTold`, `NeverBackwards`),
`ProbeHonest` (`NeverHasty`, `TroubleNamed`, `ComesRound`), `BoardTrue`
(`ResolvedStaysGone`, `OpenIsListed`), `ShownAsMeant` (`SameEventSameRows`,
`WatchedThenCommitted`), `ShownIsTrue` (`RowsMatchJournal`, `RevokedShowsNothing`,
`NewestGates`), `ViewerHonest` (`ShownIsWhole`, `LoadingIsReal`), `RepliesTold` (`TruthTold`, `ErrorOfTheLast`),
`ListOfTheReader`, `ReleasedWhole` (`EndsWhole`, `WrittenAlone`, `SignalEnds`).

Six properties except something the code does, in their formulas and in the
comments above them; each exception is told again under "Seen while modelling":

* `GivesUpOnlyOnFaults` is about joins whose reads fit the capture's budgets
  (`PagesFit`, `WindowsFit`). The first record of `factory_join` weighs more than
  the ceiling, so both sides of that condition are met there.
* `NobodyDownUntold` says that a binding which is down was told so, and not that
  it is driven again when the library reconnects by itself; `EveryGenerationTried`
  is about the connections the store asks for.
* `GateConverges` excepts a gate whose last re-read was of an earlier run and
  answered late (`hushed`). Without the exception `cold_join` finds it.
* `GateStoryTrue` excepts a gate that timed out.
* `LoadingIsReal` excepts a read that ended in an `AbortError` not the viewer's.
* `WatchedThenCommitted` asks for the same text where one block fills a heading,
  and for the same words, newlines aside, where several do.

`PageViews`, `WuiHost` and `ResponseReads` put machines that share no state side
by side: an initial state gives one of them something to do and leaves the
others at rest, so a run explores the sum of their behaviours and not the
product. A theorem about one of them is about its own specification.

### Findings

* `join.ts:1052`: an overflow after the join is a silent hole. `push()` discards
  what waits and sets `requiresRepair`, but the live loop (`join.ts:911`) takes
  the next signal without reading the flag: the next record is applied and the
  cursor moves over the discarded ones, which are never read again.
  `docs/plans/2026-09-01-factory-journal-live-join-design.md:27` says that
  "overflow requires repair and is never treated as successful application".
  `factory_join_overflow` finds the behaviour (`OverflowRepairs` is violated).

### Bounds, and why they are enough

A page limit of one or two makes every capture or walk take several pages; a
buffer of one or two overflows on the next frame; three noise frames over two
streams are the fewest that tell "noisiest" from "oldest"; one more fault than
the repairs allowed reaches the give-up. Two views of one session are the fewest
that compete for a channel; three epochs give an attempt, a close and an attempt
after it. Four generations let a listener restart the store inside a restart. Two runs of
Factory's store are a superseded one and the current one; three reads of the
list overlap pairwise and once more; with three ticks a failure may be younger
than, or as old as, what makes a host unreachable.
In `cold_join`, `commands` and `transcript` an allowance says how often each
thing may happen in one behaviour; each brings together the sources that could
overwrite each other's part of the state, and together they spend every action.
Two commands are the fewest that can be confused; three requests are two that
share a tab's token and one that mints beside them; a guard of two tokens evicts
on the third. A journal of four holds an opening, its resolution and a re-opened
pair after a truncation. Three releases let a crash be followed by a repair and
a publication. `MaxSetbacks`, `MaxNoise`, `MaxSeq`, `MaxRecords`, `MaxCommitted`,
`MaxTruncations` and the allowances only bound what the environment does;
nothing of the program counts them.

Deadlock is checked in the runs of the two joins, which say where they end
(`Terminated`); elsewhere a system whose environment is out of its bounds rests,
and each `.cfg` says so.

### Assumptions that are switches of the models

* `ConsumerKeepsUp` (FactoryJoin): after the join, the consumer takes a signal
  before the buffer overflows. `NoHole` depends on it; `factory_join_overflow`
  shows what happens without it.
* `SubscribedAtCall` (SessionJoin): the contract of `LiveFrameSource`, that
  everything committed after the call reaches the connection.
* `Excuses` (CommandPlane) is FALSE: a Core error is a decision, as
  `commands.ts:314` says.
* `ShowsAhead` (GateBoard) is FALSE: a truncation takes no record the view shows
  but has not covered, and none the cold capture covered before the first
  projection has told of it. With it TRUE a tombstone outlives its journal; see
  below. Either way the join gives no record past a cut before the reset that
  tells of it, as the link orders them; a reset heard before the cold capture
  does not lower the join after it.

### Fairness

`Join` is weakly fair: a ready microtask or timer runs, and the consumer keeps
calling `next()`. Weak fairness of the server's steps says that it answers
reads, grants subscriptions and sends the resets it owes. An abort (`Aborted`)
is strongly fair in `FactoryJoin`, for the check is reached again and again
between steps that disable it. There `Publish` is strongly fair too: a link that
is detached and attached again infinitely often still delivers; without it a
subscription could die before its first record for ever, which no client can do
anything about. In `SessionJoin` delivery on the current connection is weakly
fair, and after an abort the live source honours `return()`; nothing says an
abandoned pump ever stops. In `FactoryLinkStore` queued reactions and the
callbacks of a loss are weakly fair: they are microtasks and a synchronous run.
An attempt to connect comes to an answer, and a subscription that asks is
answered while there is a connection (`SubscriptionAnswered`): both strongly
fair, as other callbacks disable them for a moment again and again. In
`SessionViewStore` a suspended method resumes, microtasks run, and an animation
frame fires while the page is visible. In `FactoryColdJoin` the reads of the
gate page and of earlier history are answered, a due timer fires, and the join
is projected. In `Reachability`, while the hook is mounted, the interval and the
clock's ticks come, a request settles and its promise resolves. In `ReleaseDist` the script goes on and its timers fire; commands,
signals and the operator owe nothing. Nothing is assumed of faults.

## What is proved

For every value of the constants, checked by TLAPS to the last leaf:

* `FactoryJoin_proofs`
  * `TypeCorrect`: `Spec => []TypeOK`. The inductive invariant `TypeInv` adds
    that a link never runs ahead of the journal, that a capture that asked for
    another page has admitted one, and that the loop runs only with attempts
    left.
  * `YieldsInOrder`: `Spec => []InOrderOnce`. `OrderInv` says that everything
    yielded lies at or below the cursor (`Delivered`), and that whatever a
    capture's plan still holds is above it, one record per sequence (`Ahead`).
    `InOrderOnce` alone is not inductive: a yield is in order only because the
    plan is ahead of the cursor.
  * `LoweredOnlyByOwnReset`: `Spec => LoweredOnlyWhenTold`. A floor is recorded
    in one step and applied in another; `FloorInv` carries between them that
    the reset was this generation's own and still lies below the cursor.
* `FactoryJoin_proofs`, of the feed, with `ConsumerKeepsUp`
  * `NothingSkipped`: `Spec => []NoHole`, and `HoleFreeFeed`: with no truncation,
    `Spec => ImplementsFeed`. `FeedInv` follows a record through the generation.
    What a capture covers is in the capture (`WalkInv`) and then in the plan
    (`PlanInv`); what the link carries above the capture's tip is in the buffer
    (`BufferInv`), and then in the plan or still pending, up to the first request
    to repair (`FlowInv`). A record is met only after those below it, so the
    cursor, which moves to each one met, passes none. `CursorInJournal` and
    `QueueInv` say where the cursor may be and that what is pending is the
    journal's. All hold of a journal that was not cut; `NoHole` says nothing of
    one that was. A repair may come at any point: it starts from the cursor,
    and `BufferInv` and `FlowInv` owe nothing once one is asked for.
  * `GivesUpFairly`: `Spec => []GivesUpOnlyOnFaults`, for records of any weight.
    What must fit the budgets is in the property (`PagesFit`, `WindowsFit`) and is
    not assumed of the constants: over records the journal really holds, a page
    above the cursor, or the whole window of a join that has none. `GiveInv`
    counts: repairs without progress never outnumber the faults, and a generation
    that is going to be repaired without having moved the cursor has met a fault
    no repair was counted for (`Owed`). A capture that met none is above where it
    started and within its budgets (`WithinBudget`), so it is never refused
    empty-handed.
* `FactoryColdJoin_proofs`
  * `ShowsTheTruth`: `Spec => []ShownIsTrue`, for any tail limit and journal and
    any allowance. `ShownInv` follows the rows and forgets the reads. The current
    rows in the join's range are those of the tail it took, and none lies beyond
    that tail (`HoldsRows`); the tail is the journal's up to `lowest`, the lowest
    tip the journal was cut to since the capture (`TailAgrees`). `RowsMatchJournal`
    alone is not inductive: it is silent while the view is not live, and what a
    repair leaves in place must still be the journal's when it is live again. A new
    capture resumes from a cursor the link may really have delivered (`Cursors`), so
    the rows it keeps below that cursor are those of the journal it reads
    (`CursorTrue`). What is shown adds to the current rows only earlier ones of
    other sequences (`ShowsCurrent`), and the cold read, which would overwrite the
    join's rows, is over before the first projection (`OneSource`): here the
    cancellation of the cold read in `Authorize` carries the proof. A refusal
    clears every row and moves the generation on, so a page of earlier history that
    was on its way is dropped, and one asked for afterwards has no answer (`Refused`).
    `NewestGates` is about three readers of one page that answer in any order.
    `TicketInv` follows them: a page is no older than the start of its read, who
    took a ticket later started later (`TicketsInOrder`), and an answer still to be
    adopted is of a read that started no earlier than any adopted before
    (`AdoptsForward`). A new ticket is nobody's, by counting the reads in flight
    (`TicketIsNew`).
* `ViewStores_proofs`
  * `StoreIsFaithful`: `FactorySpec => StoreFaithful`. `KeepInv` adds to
    `NothingLost` that the run whose token is current is the controller's, and
    every other was aborted or is over (`RunsInv`); and that the run that is
    heard continues the store's own cursor: it stands at it, or its offer is what
    comes next above it (`Continues`). A failed write of the cursor leaves it
    moved, a superseded run's offer is dropped, and both keep `Continues`. The
    refinement of `ContiguousFeed` (`StoreKeepsPromise`) is of the store's
    cursor and what it published, over all its runs, until the journal shrinks.
  * `OneRunIsHeld`: `Spec => []OneRunHeld`. The property speaks of the store at
    rest, the invariant `HeldInv` of the whole stack of suspended methods: only
    the one on top may have listeners that call nobody (`StackInv`), each pump
    has a generation of its own and one about to settle has left (`PumpInv`),
    and where a run is wanted it is held or a start is under way
    (`WantedInv`), while a run not aborted is the one `stop()` reaches
    (`LeakInv`). `StillHeld` settles in one lemma every step that leaves the
    runs alone.
  * `ListTellsTheNewest`: `ListSpec => ListTells`. The snapshot is that of the
    newest read, which no cleanup aborts while the page is mounted, and only an
    aborted read ends as one (`ListInv`).
  * `ReplayShowsTheSame`: `TranscriptSpec => []ReplayAgrees`, and `TreeIsKnown`:
    `TranscriptSpec => []TreeKnown`, from one invariant, `TranscriptIInv`. `ViewOK`
    says what a view is to the records it was folded from: a row the journal wrote
    holds what its record says and such rows stand in its order (`InOrder`), every
    row shows of the tree what the loops tell (`RowOK`), and an observed loop is
    what its own record said. It is of each client by itself, with frames or
    without; `Agree` relates the two: the same rows of the journal, gates, outcomes
    and observed loops. What one record does to the rows is said once (`Folded`,
    proved kind by kind) and so is what a frame does (`Framed`: only a live row
    comes, and only live rows change), and what follows for the two is proved from
    that. A tool call hangs one block because a loop's steps, which number its
    calls, rise (`JournalOK`, `OneAnchor`).
  * `PartitionsGrow`: `TranscriptSpec => PartitionGrows`, from the same invariant:
    a record or a frame leaves what is committed alone, and what it commits is of
    the record folded, which is above every one folded before (`Grows`).
  * `StepsAreToldOnce`: `TranscriptSpec => []QuietlyToldOnce`. The property speaks
    of committed steps; the invariant (`TextOK`) of every text a row holds. That of
    a live row is of a step no folded record committed, and none that is committed
    after the turn it is of has ended (`SaidLive`); that of a row kept at the end
    of a turn no other record commits (`SaidKept`). A quiet session has one item
    at most in the queue, and it is the journal's next record or a frame of the
    running step (`QuietFrame`).
  * `NeverGivenUpEarly`: `ProbeSpec => [](NeverHasty /\ TroubleNamed)`. A failure
    that is being timed happened since the last sign of the host and is no older
    than it (`TimedInv`).
* `SessionJoin_proofs`
  * `TypeCorrect`: `Spec => []TypeOK`, which bounds every buffer by
    `maxQueuedFrames`. It rests on lemmas about the eviction policy: a victim
    exists whenever some frame is droppable, and it is a droppable frame of the
    buffer (`VictimDroppable`), so a push never leaves more than the bound.
  * `YieldsExactlyOnce`: with `SubscribedAtCall`, `Spec => []ExactlyOnce`. The
    invariant `OrderInv` is about the *stream*, that is what is drained, in
    hand and buffered, taken together. It is a run of consecutive records in
    order (`Run`), which reaches the last record sent unless the queue refused
    (`Whole`); it starts no later than the walk ends, and once the walk is over
    no later than the cursor, below which the tip check passes records over
    (`FlowsFrom`). Eviction takes no record (`RunWithout`), a refusal cuts the
    stream short (`RunPrefix`), consuming takes its head (`RunTail`), and a new
    connection starts an empty run at the journal's tip (`RunEmpty`). `Placed`
    ties the cursor and the page to the number of events yielded, and `Shape`
    says which parts of the buffer may be occupied where.
  * `JudgesTheCurrent`: `Spec => []JudgedRight`. `JudgeInv` says where a pending
    refusal came from: it was announced, and is of the current connection or of
    an earlier one that the next read repairs; a connection that refused has a
    queue that says so, one that recovered refuses no more, and the refusals
    since the last recovery are no more than `Streak` holds.
  * `NoisiestGivesWay`: `Spec => ThinsNoisiest`. The victim is of a stream that
    none is louder than (`VictimNoisiest`), so when it was the last frame of
    its stream no stream has two (`ThinnedStreams`).

* `FactoryLinkStore_proofs`
  * `TypeCorrect`: `Spec => []TypeOK`. `TypeInv` adds that no record has
    attempted a generation that is yet to come: a subscription is opened with
    the current generation by a record that has not attempted it, so never with
    generation 0. `DriveTypes` is proved once for the call that nearly every
    handler ends with.
  * `LiveIsOwned`: `Spec => []OpenIsHeard`. It is not inductive alone.
    Releasing takes whatever holds the channel, so `OwnInv` adds that a channel
    has one holder (`OnePerChannel`); a peer driven again forgets its attempt,
    so whoever holds a subscription must have joined before (`HoldersJoined`);
    and a late join must not subscribe for a record that left the set of
    bindings (`BoundAreBindings`, `AskedWereBound`). Three lemmas carry every
    handler: nothing moves (`SameOwners`), one record lets go (`LettingGo`), one
    takes its channel over (`TakingOver`).
  * `OpensOncePerGeneration`: `Spec => []OncePerGeneration`. A binding's
    subscriptions are counted by the generation it attempted last, and one whose
    attempt is given back never had a subscription (`OpensCounted`).
  * `CancelledStaysSilent`: `Spec => CancelledIsSilent`. Cancelling settles the
    binding's promise (`CancelledSettled`), so a late rejection finds nothing to
    change; everything else about a record happens to bound ones only.
  * `ClosedIsIdle`: `Spec => []ClosedStaysIdle`. Every attempt known to the link
    or queued is of an epoch reached so far (`AttemptsKnown`), so the epoch
    `close()` moves on to overtakes them all (`ClosedInv`).
  * `NobodyIsDownUntold`: `Spec => [](LoserReachable /\ EveryGenerationTried /\
    DownIsTold /\ EachLossTold /\ NoOrphanedWait /\ ToldOncePerSubscription)`, which
    with the two theorems above is all of `NobodyDownUntold` but its liveness. None
    of the six is inductive. `NobodyInv` adds that link and library disagree only
    while a drop is told, so a connect is never asked of a live transport
    (`LinkAgrees`); that a binding without an attempt has its join queued (`Tried`);
    that one which attempted and never joined lost to a subscription still there,
    and whoever frees a channel gives its losers their attempt back
    (`ChannelTaken`); and that asking, granted and told are different subscriptions
    (`ToldCounted`, `GrantedOnce`). `DownInv` is `DownIsTold` in the middle of the
    handlers: a binding that holds nothing and was told nothing has its join still
    to come. `Paired` is `EachLossTold` there: what a binding was told, and is about
    to be told, of authorizations is what it was told of losses and the one
    subscription that is up. It rests on `PlainInv`: a subscription that is up has
    its connection or is about to be told that it is gone, with no join to come
    that would replace it untold, and an authorization still to be told is told.
* `CommandPlane_proofs`
  * `EnvelopesRetained`: `Spec => []RetainedUntilDecided`, and
    `ControlsTellTheTruth`: with `~Excuses`, `Spec => []RepliesTold`. `PlaneInv`
    adds that identities are used in their order (`MintedInOrder`), so what a
    control retains is the last one it minted (`RetainsTheLast`): without it a
    late error could be one of an earlier command. `TruthInv` adds that an
    answer on its way says what Factory recorded (`AnswersTrue`) and that what
    was told rejected was rejected, not merely unread (`ToldAsDecided`):
    `TruthTold` alone is not inductive.
  * `PagesUseThePlane`: `PagesSpec => Spec`, by a step-by-step mapping of the
    pages' actions, so both hold under the pages the run checks.
  * `InputsStayInSight`: with `~Excuses`, `PagesSpec => []InputInSight`. An input
    the page sent and does not remember yet has an attempt of the page's own
    under way, and an input that ended is retained no more (`SightInv`). It rests
    on `OneAttempt`: a retained command has one attempt at a time, so no other
    store's attempt can settle it behind the page's back.
  * `ListIsTheReaders`: `PagesSpec => []ListOfTheReader`. The last read of each
    kind is unique, and its answer, if it has one, was given to the caller the
    shell was told of (`ReadsInv`); a read superseded by a new generation is
    never the last (`NoneAhead`).
* `WuiHost_proofs`, of the control requests
  * `RetriesSafely`: `Spec => []RetryIsSafe`. A second token is asked for only
    after the first was refused (`PhaseOfAttempt`), and a mint under way is
    newer than any token its tab has presented (`AnswerIsNewer`). Nothing is
    assumed of the guard's map: it may forget any token at any time.
    `PagesUseTheTransport` (`PageSpec => Spec`) carries it to the pages
    (`PagesRetrySafely`).
  * `OneSessionPerGoal`: `PageSpec => []GoalOnce`. The key an attempt carries is
    the one its text was minted with, and serve counts the session of a key once
    (`FormInv`).
  * `GateStoriesTrue`: `PageSpec => []GateStoryTrue`. A tab responds again only when
    the answer to its first response was lost (`OneResponse`); a tab whose
    response was accepted offers the gate no more (`Stories`). The gate may time
    out at any moment; a response accepted before is not taken back by it.
* `WuiHost_proofs`, of the releases
  * `CommittedServes`: `ReleaseSpec => []AcceptedServes`. A tree that claims to be a
    release without being one may be staged, by a release that failed half way;
    `StagedHonestly` says it has then still to restore HEAD's tree, or ended
    without publishing.
  * `ReleasesEndWhole`: `ReleaseSpec => []EndsWhole`, and `ReleaseWritesAlone`:
    `ReleaseSpec => WrittenAlone`. `WholeInv` adds which processes of a command may
    be alive where in the script (`CommandInv`) and what has been gathered by
    each of its stages (`Gathered`): a release that goes on past a command has
    seen its whole group end.
* `GateBoard_proofs`
  * `TypeCorrect`: `Spec => []TypeOK`, and `ResolvedIsGone`:
    `Spec => []ResolvedStaysGone`, with nothing assumed of truncations.
    `BoardInv` adds what one render makes of a view (`FoldedFrom`: a gate of its
    window or page is on the board or gone), and that a view that has read
    nothing knows of no resolution (`Phases`), without which a tombstone would
    be dropped with a page that was never known. `Published` settles in one
    lemma what all seven publications share.
  * `BoardIsTrue`: with `ShowsAhead` FALSE, `Spec => []BoardTrue`. What a page or
    an opening event shows is hidden only by a tombstone, so it is enough that
    each tombstone stands for a resolution in the journal as it is
    (`Tombstones`). A row may leave the window while its tombstone stays, so the
    invariant does not point at a row: the resolution lies no further than the
    view reaches, by its coverage or by a row ahead of it (`Reached`), which is
    what a truncation that the view is not told of leaves alone. `Followed` says
    the same of the rows: one at or below the lowest cut is the journal's.

* `GateBoard_proofs`, of the tool-output viewer
  * `ViewerShowsOneContent`: `CaptureSpec => []ViewerHonest`, for any page size,
    ceiling and objects, which may be replaced or removed between any two requests.
    `ViewerInv` never looks at a page: from its head on, a read holds the digest of
    one content of its object, of the length its label tells (`ReadsOne`), and only
    bytes equal to that content are shown. What is shown says which props it is of
    and stays true of those while the viewer moves to others (`ShowsWhole`). A read
    that is not aborted is the last one started, and a viewer that waits has one of
    the props it waits for (`OneWaits`); effects that are still due change neither.
* `GateBoard_proofs`, of the parse boundary
  * `DocumentsTakenAsSent`: `ContractSpec => []TakenAsSent`, for documents of any
    kind, size and number. That a double is below `Exact` only if the integer sent
    was (`DoubleIsExact`) makes what the client compares what was sent. Sequences
    each above the one before it rise (`AscendingRises`), so no two records become
    one. The count of a gate page is not bounded and may be rounded; the verdict
    is the same, because a page has no more sequences than its tip
    (`RisingIsLong`), which is exact. The last two are shown by a least
    counterexample, without induction over a sequence. Beyond twice `Exact` a real
    double is coarser than `Double`; no step uses more of such a number than that
    it stays above `Exact`.
* `GateBoard_proofs`, of the preview of uncommitted text
  * `PreviewIsTrue`: `LiveTextSpec => []PreviewTrue`, for any finite number of
    loops, any chunks, any of the limits, and any number of turns, steps, deltas
    and subscriptions. `PreviewInv` says of what is still waiting what the
    handlers rely on. While no delta was late, the next delta of a turn goes on
    where its text or the delta before it ended, unless a record between them
    drops that text, and with none waiting the Host stands there itself
    (`Resumes`, `GoesOnWhole`). A gap opens only with a mark, and the mark of a
    text that is held outlives every eviction (`RememberIs`), so what is not
    marked may be joined. Between two ends of a loop's turns that wait, or one
    remembered and one that waits, the loop starts (`EndsOnce`), so one turn of a
    loop is remembered at a time (`OnePerLoop`) and the bound evicts none while
    the loops are no more than it (`OnePerLoopIsFew`). The bytes of a text are a
    sum over its code units, not a fold: a chunk adds its own, less two where it
    completes a surrogate pair (`EncodedAppend`), which is what the code counts;
    the sum over the turns changes at one of them or loses some (`TotalPut`,
    `FewerBytes`).

The proofs use the assumptions on constants that the modules name and nothing
else about the environment: any number of faults, connections, records, stores,
tabs, commands, tokens and releases.

Only model-checked: liveness (it needs fairness, which is beyond the prover):
`CatchesUp`, `AbortStops`, `ReadySettles`, `GateConverges`, `EarlierSettles`,
`ViewTells`, `ComesRound`, `SignalEnds`; and of `response_reads` `FramesAsSent` and
`ShownAsMeant`. `LiveStream` and `EventContent` compute by folding and filtering
sequences, as what they model does, and what a recursive definition computes for
every input cannot be proved with the installed provers. Where no theorem states it,
a module's `TypeOK` documents its variables.

## Seen while modelling, without a run

What the code does that a reader may not expect, beside Findings. None is a
counterexample of a run: each is either excluded by an assumption named here, or
outside what the properties say.

The joins and the link:

* A truncation can be missed, and a reset can look like one (`join.ts:751`): its
  tip is compared with the cursor of the moment it arrives, while records
  captured before it are still to be committed, or while a read of a newer tip
  has overtaken it. `LoweredOnlyWhenTold` says what still holds.
* A view that never committed anything gives up without a fault on a session
  whose tail does not fit the capture's budgets: a cursor of 0 commits no prefix
  of a refused capture (`join.ts:829`), so each repair reads the same. A tail is
  eight pages of 256, which is the budget in pages and events, but nothing bounds
  what its records weigh, and the byte ceiling (1 MiB, `join.ts:317`) is the one
  that binds. A single page over the ceiling stops a view above a cursor in the
  same way.
* A view with nothing committed reads a bounded tail, but a record below that
  tail that was buffered before the join is merged and shown (`join.ts:1020`),
  without its neighbours.
* A refusing connection can reset the refusal streak (`join.ts:1305`): a second
  refusal while a repair is pending is not marked on its connection, whose end
  is then taken for a recovery.
* The fetch live source is not subscribed when called (`live.ts:124`): the GET
  is only sent, and a record committed before its acceptance and after the cold
  read is lost. This is what `SubscribedAtCall` assumes away.
* A transport loss strands a binding (`connection.ts:477`): the subscription
  reports the loss while the link's own state is still `connected`, so the
  rejoin takes the fast path, finds its generation already tried, and nobody
  calls `connect()`. The binding was told of its loss (`DownIsTold`), and stays
  down, over a connection the library makes by itself, until the next generation
  the store asks for.
* `joined` is set when `subscribe` returns (`connection.ts:576`), so a binding
  whose first subscription was declined is told `onRejoin` and never `onJoin`.
* The rejection of a superseded subscription's `ready` rejects the binding's own
  promise (`connection.ts:601`). A terminal disconnect while a subscription asks
  leaves the binding's `ready` pending, so `ReadySettles` excepts a link that is
  left disconnected.
* `onQueueOverflow` is documented as the join's total (`join.ts:1155`) but counts
  per connection, and the store's damper (`store.ts:473`) swallows later reports.

The stores and the view hook:

* A timer and an animation frame share one handle field (`store.ts:709-717`), so
  with equal numbers one may cancel a foreign one; an error listener that stops
  the store leaves its frame stranded; a lifecycle listener that restarts it
  from inside `stop()` has the new run aborted by the rest of `stop()`
  (`store.ts:507`). `WantedRuns` and `NothingLeaks` except these habits by name.
* `FactorySessionViewStore` persists `coveredThrough` only upward
  (`store.ts:154`): after a truncation a restart resumes above the journal. When
  `persistCoveredThrough` throws (`store.ts:155`), the update is published and
  the cursor moved, but the listeners are not told. `start()` from inside an
  error listener does nothing unless `stop()` was called first.
* The probe hears a notify only at the next interval, so a host may be shown
  unreachable after a frame of it was folded; an interval that a notify answers
  asks nothing, so the session's state may be old, even an earlier session's
  (the hook is not keyed by its session, and what it timed survives going from
  one to another); a request that never answers leaves "reachable".
* In the view hook, rows start where the join began; `earlierState` stays
  "loading" over a stop and start; an earlier page or a cold read of a journal
  since truncated may leave rows of the old one; a gate re-read of an earlier run
  that answers although it was aborted schedules nothing (`use-session-view.ts:429`,
  `441`), and none could be scheduled while it was in flight, although
  `gateRefreshMs`'s comment (205-214) promises one.
* The preview may show a late delta of a step that is done, until the next one
  is. More ended loops than `MAX_LIVE_TEXT_TOMBSTONES` let an ended turn show
  again. The application does not render the preview.

Commands, pages and gates:

* A Core error that decides nothing after a lost reply is told as a rejection
  (`commands.ts:314`), although the first attempt may have been admitted. This
  is what `Excuses` assumes away.
* A reply that is lost, a retry and a rejection leave the page's "sent, waiting"
  row for ever; the session page is not keyed by its session, so what it
  remembers as sent survives going from one session to another.
* Between a change of cookie and the generation that tells of it, the list may
  show what Factory answers the new caller.
* Page requests carry no abort signal. A late rejection of a stale token clears
  the freshly minted one, which costs one more mint. The legacy composer adds its
  row after the acknowledgement, which a fold may have overtaken: the row stays
  until the next one. After a lost reply, a second click on a legacy gate says
  another client answered first (`stores/gate.ts:28`), and so does a click on
  a gate that timed out under its own policy (`stores/gate.ts:34-37`), although nobody
  answered it (`permission-gate-card.tsx:116`); `GateStoryTrue` excepts both. Deny
  stays enabled while an approval is in flight (`permission-gate-card.tsx:33-36`);
  the click is dropped by the store (`stores/gate.ts:76`).
* The gate board's tombstone of a row that a truncation took outlives its
  journal; every lowering of the coverage starts a new generation at its first
  projection; a page sampled before a truncation leaves a gate that is gone. The
  comment at `factory-gate-board.ts:194` calls redundant what is not.

The fold, the readers and the release:

* A delta folded after its step is done (`join.ts:1372` folds what was queued
  during the cold read) is kept by `commitTerminalSegment` (`fold.ts:1332`) as a
  row of text already shown, although `fold.ts:640-644` excludes it.
  `QuietlyToldOnce` is about behaviours in which the session writes nothing
  between an attach and its cold read (`quiet`). `loopIdsInOrder`
  promises a stable order, which dropped live rows can change.
* Live text is concatenated without separators (`fold.ts:751-758`), a commit joins
  with newlines (`rows.ts:244-291`), so what was watched changes when it is
  committed if several blocks have one heading; `toolUseSummary` keeps an exact key where Go keeps the last of a case-folded
  one; an `AbortError` that is not the viewer's own is taken for one
  (`factory-rest.ts:304`, `339`) and leaves it "loading" with no read
  (`tool-capture-viewer.tsx:104`); after an oversized line its remainder is parsed
  as a line of its own, and a long complete line is taken or not depending on the
  chunks; ids above 2^53 lose
  precision in the legacy validators.
* A leader that survives SIGKILL makes `termination` reject while `run()` still
  waits, which ends the process without a rollback
  (`release-dist.mjs:168-174`, `206-209`).

## Not modelled

* `resolve()` of `commands.ts`; the link's rpc and tokens; a binding's cursor and
  `advance()`, which label callbacks.
* `HostOriginGuard`, `handler.go` and the request builders: functions of one
  request. `schema.ts` and the shapes ajv checks: generated.
* Text layout, turn ids, compactions, queued inputs and rendering.

## Plan

1. *Done*: the joins, the link and its store; both view stores and the view
   hook; commands and pages of both planes; the CSRF guard; gates; the fold; the
   readers; the session list and the probe; the release.
2. *Proved*: what the table above lists; with it every safety property of the
   Factory join, the link's store, Factory's view store and the list.
3. Left to the runs: liveness, and the two readers that compute by folds
   (`LiveStream`, `EventContent`), which would have to be written without them.
4. Models next: text layout and queued inputs of the fold, `resolve()` of the
   command plane.
