# A TLA+ development of codex-acp-v2

The adapter is a Rust ACP v2 agent. It speaks ACP on stdin/stdout with one client
and JSON lines with one child, the Codex app-server, and owns what lies between:
sessions, the order in which the child's events reach them, the calls under way,
callbacks that need the client's answer, and the resources leased to sessions.
Paths below are relative to the repository, lines are those of the modelled commit.

    client  <-- ACP, SDK -->  server/  <-- Backend -->  backend/  <-- pipes -->  child
       |                      |    ^                       |                     |
       |                      |    +--- event channel -----+                     |
       |                      +-- session queues --> session workers --> client  |
       +---- mcp/* ----->  mcp/ (one HTTP listener per declared server)  <-------+

The runtime is tokio's multi-threaded one. What the ACP connection spawns (request
handlers, the pump, session workers, callbacks) shares one driver and interleaves at
awaits; the tasks of the transport and of the MCP bridge run in parallel. `State` (one
mutex) is never held across an await; the locks that are held across calls to the backend
are taken in the order creation_gate, Session.gate, Session.admission,
Session.delivery, Session.data.

## 1. Inventory

| Component | State | Operations | What makes it correct |
|---|---|---|---|
| Backend connection (`backend/mod.rs`, `backend/transport.rs`) | next id, table of pending replies, `disconnected`, frame position, outbound and event channels, three tasks | request, notify, respond, shutdown, handshake; write, read and dispatch, supervise | one verdict per call, its own; nothing registered behind the drain; positions in output order; no event lost but by ending the connection; the terminal event always fits; going down settles everything |
| Event pump and session queues (`server/events.rs` 17-134, `dispatch.rs`, `mod.rs` 182-242) | early buffer, `setup_in_progress`, one queue and worker per session | park, route, register, fence; enqueue, deliver | no event lost without trace or duplicated; a session's own events in order; a fence observes what was emitted before it; a slow session holds up no other |
| Thread ownership (`server/ownership.rs`) | cache of descendants' roots | walk of ancestors through `thread/read`, claim | a thread belongs to a session it descends from, or to none |
| Session lifecycle (`server/lifecycle.rs`) | `State.sessions`, `SessionData.open/closing/active_turn/last_completed_turn`, gates | new, resume, fork, prompt, close, delete, list | the limit; a closed session is detached and its turn stopped; a resume disturbs no running turn; nobody deadlocks |
| Cancellation and settings (`server/controls.rs`) | admission lock, `pending_settings`, overlay, cutoffs | cancel, set_config, reconcile | a successful cancellation stopped what the client saw running; settings converge to the backend's; nothing is answered before it is effective |
| Teardown (`server/teardown.rs`, `resources.rs`) | streams, descendants, terminals | close_descendants, start, stop and close streams | no descendant that is known works on; a stream that runs has an owner; bounded walk |
| Extensions (`server/extension_requests.rs`, `extensions.rs`) | negotiated methods | pass-through, archive, history mutation, detached review | authority checks, also after a wait; the session is idle when its history changes |
| History (`server/history.rs`) | snapshot cutoffs, streamed items | replay, reset_history | what a page contains is neither undone nor missing; complete means whole |
| Callbacks (`server/events.rs` 318-591, `interactions/`) | `State.pending`, limit of 128 | insert, RequiresAction, answer, cancel, Running | answered once; none survives its session; the state shown is the last one |
| Handlers and set-up (`server/handlers.rs`, `mod.rs` `run`) | request slots | dispatch, initialize | every request answered |
| MCP bridge (`mcp/`) | leases, listeners, permits, connections by id | prepare, connect, relay, disconnect, close | one disconnect, permits returned, a request of the client is answered or withdrawn |
| Runtime cache (`backend/runtime_cache.rs`, `embedded.rs`, `executable.rs`) | a shared directory and its lock | extract, verify, rename, check | a whole runtime or an error, whoever is killed when |
| Framing, configuration, projection, input | none, or data | conversions | bounded lines; faithful translation |
| Build and release scripts | none | - | not part of the running system |

How they meet. A handler calls the backend and awaits its reply; its future may be
dropped or time out at any await. The child's frames pass the reader into the event
channel, the pump moves each event to the queue of the session owning its thread, and
that session's worker applies it under `delivery`. `session/new` and `fork` tell the
pump of their thread through the registrations channel, because events of the new
thread may come before the response; `synchronize_session` sends a fence through the
same channel to wait for what has been read already. Close, resume and cancel rely on
the turn notifications which the worker applies.

Hard behaviours: registration against the drain; late and repeated answers; full
queues; parking while a session is being created; fences against live events; a
session object that outlives its entry in the table; a limit checked long before the
insertion; calls to the backend that time out although they were carried out; a turn
that ends before the response that names it; pages of a history that changes while it
is read; a setting accepted now and effective later; threads that spawn others while they
are closed; a connection that four parties may end; installers that are killed.
`PROJECT.json` lists each under "hazards", at its line, with the property that covers it
or why none does.

## 2. Modules

| Module | Models | Proofs |
|---|---|---|
| `RpcPromise` | what the table of pending replies promises to callers | |
| `Transport` | the backend connection, implements `RpcPromise` | `TransportProofs` |
| `EventDelivery` | from the event channel to the sessions | `EventDeliveryProofs` |
| `SessionLifecycle` | requests on sessions, racing with turns | `SessionLifecycleProofs` |
| `Interactions` | callbacks to the client, and what ends them | `InteractionsProofs` |
| `HistoryReplay` | the client's transcript: replay, reset, live items, reverts | `HistoryReplayProofs` |
| `SettingsSync` | settings: mutations, reports, resumes, the session's copy | `SettingsSyncProofs` |
| `Descendants` | owner_for_thread against a close of descendants | `OwnershipProofs` |
| `ExtensionRequests` | the way of an extension request, and MCP event streams | `OwnershipProofs` |
| `McpBridge` | native MCP connections, listeners, leases, requests | `ProcessProofs` |
| `RuntimeStore` | what the runtime cache promises to adapters | |
| `RuntimeCache` | installation by concurrent, killed processes, implements `RuntimeStore` | `ProcessProofs` |
| `MCTransport`, `MCEventDelivery`, `MCSessionLifecycle`, `MCInteractions` | instances for TLC | |
| `MCServing` | EventDelivery, or SessionLifecycle | |
| `MCReconciliation` | HistoryReplay, or SettingsSync | |
| `MCOwnership` | Descendants, or ExtensionRequests | |
| `MCProcess` | McpBridge, or RuntimeCache | |

The last four check two systems side by side that share no variable: `part` is chosen
in the initial state and says which of the two a behaviour is of, the other one stays in
an initial state. ExtensionRequests, RuntimeCache and SettingsSync have no name in common
with their neighbour, and both modules are EXTENDED; in MCServing one is an INSTANCE. In
ExtensionRequests the table of sessions is therefore `objects`, `SessionData.open` is
`live`, and `made` counts the objects, whose `Session.id` is `names`; in SettingsSync the initial predicate and the
next-state relation are `SettingsInit` and `SettingsNext`, and what the backend has yet
to read is `requests`.

### Transport

One process per future (`phase`), with the steps of `request_snapshot`: `BeginCall` is
lines 147-171 under one lock of the table, `CheckLink` and `Enqueue` are `send`,
`Receive` the oneshot, `GiveUp` the timer or a dropped future, whose `PendingGuard`
clears the slot (`Settle`). `WriteFrame`, the `Dispatch...` actions and the
`Supervisor...` actions are the three tasks; an aborted task runs until its next
await, so `aborting` can still do a step. The child answers anything it was sent, in
any order and again, prints activity or garbage, closes its output and exits. `wire`,
`observed` and `dispatched` are history. A frame is its kind, its id, and, as history,
the call it answers and its place in the output; parsing is abstracted to `malformed`.

`RpcPromise` says: at most `Limit` calls open, each open call gets one verdict and
keeps it, nobody gets another's answer, and when the link goes down every open call is
settled at once and none opens again.

### EventDelivery

The pump's local variables are `queued`, `registered` and `hand`; `PumpTakes` parks or
takes an event, `PumpRoutes` resolves its owner and enqueues it, `PumpRegisters` and
`PumpFences` handle the registrations, `PumpFinishes` lets the waiter's marker follow
the routed prefix. `WorkerTakes`, `WorkerAnswers`, `WorkerDelivers` are one iteration
of a session's worker. `FenceLocks` .. `FenceReleases` stand for any holder of the
delivery lock across awaits (resume, history mutation). `owner_for_thread` is the
function `Root` and an error (`PumpFails`); Descendants has its walk. Whether an event is
a callback matters only where parked events are discarded (`Discard`), so it is chosen
there. The byte limits of the buffers are left to the counts.

### SessionLifecycle

One process per request. `req[r]` is what the handler's task keeps: its step, its
arguments, the session object it looked up (`mine`), the turn it interrupts or has
started (`aim`); `goal` is history. Sessions are behind an `Arc`, so an object is named
by the request that created it and the table maps ids to objects. Guards are dropped
when the handler returns (`Finish`). Each call to the backend succeeds, fails, or fails
after it was carried out (a timeout). The worker's lines that concern turns are
`Deliver` and `Drop`; routing is merged into them, since `EventDelivery` has it.
An interrupt is admitted before the turn ends, and `Settle` waits for the end.
`Synchronize` waits for the session's notifications, or times out. The backend may start
turns by itself, as with the queued turns of `extensions.rs` 276-281, and the status of
an accepted turn is taken as inProgress. Closing streams, descendants and terminals is
one step that may fail: Descendants and ExtensionRequests have its inside. `TornDown` is
about a request that removes the object it has closed. Sessions are removed by name, so
a second close that has waited at the gate may take out an object it has not closed
(section 6), and of that removal it says nothing. A detached
review (`kind` "review") is a creation that looks at the limit first and then waits for
the gate of the session it reviews, with the creation gate held all the while; its thread
is a new one, and its turn is one the backend starts.

### Interactions

`TakeRequest` and `Admit` are `server_request` up to the spawn, with the data lock held
from one to the other (`admitting`); the callback's task is `task[c]`: it asks the client,
leaves the table, responds, looks whether others are pending, and shows Running. Its
`select!` is `ClientAnswers`, `AskingFails` (an error, the timeout, an interaction the
client does not support) and `Signalled`, the cancel channel. `Sweep` is
`cancel_interactions`, run by `session/cancel`, `close` and the archive extension, whose
steps are `req[r]`. `send_notification` does not await, so what the client is shown
changes in the step that decides it. `Host` is the lane of callbacks without a thread,
which the pump handles itself. Translation and answers are abstracted: a callback may be
refused for what it asks. Resume, which reopens a session, and the loop that reports a
lost backend to every session are left out here, and so is the turn a prompt records
before its notification (SessionLifecycle has it).

### HistoryReplay

One session. `step` is where the request is that holds the gate: its fence
(`synchronize_session`), the delivery lock, the answer of the backend, the replay, the
last fence. `Page` is an answer to `thread/items/list`, read from the history as it is
then and behind every request sent before (`wire`, which Codex reads in order, is empty); `Covers` notes in `cutoffs`
the position of that answer for its items. The worker drops a notification at or below
a cutoff (`SnapshotCovered`). `Resets` is `reset_history` up to its replay; `Reset` runs
it for the request, `DeliverReverted` for a `thread/reverted` that no request has
reconciled, and the replay then goes on under the worker. Codex starts and completes
items, carries out a history mutation when it comes to it, also after the adapter has
given it up, and prints notifications with consecutive positions. The state of an item
is how far it is (0, 1, 2), which is what a notification or a page tells of it.
`history` has the items of each thread
in order. `forgotten`, `highest` (of all cutoffs that resets have set) and `intact` are history.

### SettingsSync

One session again, and the request that holds its gate. `Enable`, `Look`, `Wait`, `Wake`
are the loop of `reconcile_settings`, where `woken` is the permit of a
`Notified` that was enabled before the look. `pending` is `pending_settings`, recorded
before the call and kept when the call's time is up (`Refused` decides). The backend
reads requests in order, accepts a mutation and makes it effective later
(`queued`), and prints a full notification when that changes anything; a resume is
answered with the settings it covers (`overlay`), which a notification printed before
that answer does not replace (`Observed`). A patch changes one setting or none.

### Descendants

Codex's threads form a tree that grows while it is looked at. `walk[w]` is an
`owner_for_thread` under way, for the pump and for the close: `Look` consults the table
and the cache, `Climbs` asks `thread/read` for the parent, `Confirm` looks at the session
found, `Claim` enters it for the threads passed under the lock of the state, if the
table still holds that object. `close` has the local variables of `close_descendants`:
the listing page by page, the check of each thread, the children to settle and to drop,
and the rounds until a listing has none. A `thread/read` that Codex refuses with an error
means that the thread has no owner (`ReadRefused`, `ownership.rs` 72-75), and a close that
asked goes on without it; any other error of a walk, and every error of the other calls,
ends the close (`CloseFails`) and leaves its session open. `ever` and `untold` are history:
the threads that have been sessions, and those a close was refused. `ClosedClean` promises
a clean close with two restrictions, both in `Alone`, and fails without either: no session
was opened for another of the threads above, and no close was refused the metadata of the
thread or of one above it. The first is the run `close_nested`, whose `ClosedWholly` needs no
refusal; the second is what `ownership.rs` 73 intends, missing and inaccessible threads
"confer no authority", and the README promises only "verified" descendants.

### ExtensionRequests

A call arrives, is authorized by what is open then (`Scope`), finds its session
(`FindSession`), waits for its gate, looks again (`Enter`), claims a stream if it starts one,
and is sent. A time-out leaves the backend to carry it out later. `Classes` are the tables
of methods of `extensions.rs` by what they permit, with `session/close` and
`session/resume` beside them, of which the model has what concerns table, gate and streams.
A close, an archive or a delete stops the session's streams one by one (`ListStreams`,
`Send`, `Answered`), and `TearsDown` takes the session off the table by its name. A
resume uses the object it has found, or adds one; an object it has found it detaches
(`Detaches`) and opens again (`Attaches`), whether or not it is in the table by then, and
if it fails it takes an added one out again. Any number of them may be under way for one
session, so the races of section 6 happen here: an object opened again behind its removal,
and a removal by name of another object. Such objects are `strays`, which is history.
`ForwardedOwned` excepts strays from one of its conjuncts, that the object is the one in the
table, and from no other; `ClosedSilent` speaks of sessions of which no object is open, so
that a stray's streams are not silent by it. A resume that finds foreground work ends in
`refused` (`EnterResume`); turns and descendants are in SessionLifecycle and Descendants.

### McpBridge

One `initialize` over HTTP makes at most one connection: `handler[i]` is the HTTP task,
`task[i]` the detached `connect`. Dropping a lease spawns its cleanup (`DropLease`);
`End`, `Ended` and `Finish` are `ProviderCleanup`, `Rescue` the task that a full
queue leaves. `CloseBegins`, `CloseDrains` and `CloseEnds` are a listener's close with
its wait for permits. `lookup[m]` is a request of the client for a connection: it
registers for changes, looks, waits, publishes, and is answered, closed or withdrawn. A
reply that is no valid response takes the request out of the table before it is looked at
(`http.rs` 163-183), and the client gets an error; it is a `Reply` like any other here. A
connect whose time is up makes no connection, whatever the client answers later.
Requests the other way (`http.rs` 225-273), the limit on concurrent HTTP requests and the
SSE stream itself are left out.

### RuntimeCache

Processes share a directory with one runtime per version and one lock. A process may be
killed anywhere, which releases its lock and leaves its staging directory (`litter`).
A process keeps nothing when it ends, so one that is started again is a new one with an
old name: `MaxStarts` allows it, and in the run another launcher takes that part.
`Inspect` verifies what is there, `Extract` writes file by file, `Verify` and `Rename`
install, `ValidatePackage` is the check of `executable.rs` outside the lock. The
user may spoil a file or remove a damaged directory at any time. `RuntimeStore` knows no lock, no staging and no
files: a runtime is absent, whole or damaged, and appears whole in one step.

## 3. Runs

| Run | Instance | Shows |
|---|---|---|
| `transport` | the handshake, a call and a post, capacities 1 and 2, one request in flight, two frames of the child | one verdict each, its own; no event lost; positions; everything ends when anything does |
| `serving` | an open session, its subagent, a session being created, one fence, two events, buffers of 1 and 2; or two requests of any of nine kinds on two ids | delivery: nothing lost, doubled or reordered, fences observe, nobody is held up; every request is answered |
| `lifecycle` | three requests of any of nine kinds, one session open and two threads that can be created, limit 2, one turn | the limit, teardown, resume and cancellation |
| `interactions` | a callback of a session and one without, limit 1, one cancellation, close or archive, one turn | one answer each, nothing after the sweep, no busy session without a turn; tasks and events go on without the client |
| `reconciliation` | two items of a thread and one of a descendant, pages of one item, a limit of two, two requests, four notifications; or two settings of which a resume covers one, three requests, three reports | the transcript and the copy of the settings settle on what Codex has |
| `ownership` | two roots and two threads to spawn, one of which a client may ask a session for, pages of one, two rounds, two sessions, two refused reads; or three calls of eleven requests, among them a close and a resume of one session and an archive of the other, two sessions, three objects, one stream | owners are ancestors, a close leaves nothing it could know of, streams have their owner, authority holds when a request is sent |
| `process` | two connections of one listener that may get the same id, one message; or three processes, two versions, two files | one disconnect, permits return, requests end; the cache is a store |
| `delivery_callbacks`, `close_nested`, `resume_retry`, `resume_close_race`, `completed_turn` | one or two requests, few events | counterexamples: section 6 |

Why these bounds reach what matters. In Transport a table of one entry is full as soon
as the other call registers, an outbound queue of one blocks every second sender, an
event queue of two is full after one event beside the reserved slot, and two frames
suffice for a late, a repeated and a reordered answer. In EventDelivery a second event
overflows the parking buffer, and one thread each of the kinds own, descendant and new
covers the three ways the pump places an event. In Interactions the second callback meets a
full table and the request is whatever may end the session. Two callbacks of one session are
in no run: the safety properties are proved for any number of them, and `GoesOnWithoutClient`
is checked for one.
In SessionLifecycle two requests make
every pairwise race and the third one can use what the race left; with one session
open and a limit of two, two creations compete for one place. In HistoryReplay three
items overflow the limit of two, pages of one item let the history change between any
two of them, and two requests are a mutation given up and one behind it. In SettingsSync
the third request finds what two have left, and one setting is covered by a resume, the
other not. In Descendants the listing is in the order of `MCThreads`, so a thread may appear on
a page that has been read; two rounds are the one that finds and the one that finds none,
two refused reads are of a thread and of its parent,
and two sessions are an old and a new object. Three calls are a start, a stop or close
racing it, and one more start; or a close, a resume or second close behind it, and what
waits behind both; three objects are the two sessions and what a resume adds. Two connections with one id are the only way to meet an
id again, and `elsewhere` fills the pool. Three launchers are two of one version and
one of the other, each may die at any step, and the next finds what it left; a launcher
starts once, and the proofs hold for any number of starts.
Ids of threads to be made and requests are interchangeable; symmetry is used in the run
`lifecycle` alone, which has no liveness property. Deadlock is not checked: each system
stops when its finite number of events and requests is used up.

Every property has a mutant, a definition next to the real one marked "Mutant:", for
which TLC finds the property violated in the same run.

## 4. Fairness

- Transport: a ready task runs (weak fairness of the steps it cannot refuse), the
  supervisor's timers fire, a killed child is reaped, and the pump receives. Nothing is
  owed by the child, by request timers or by room in the outbound queue: calls settle
  without them when the link goes down.
- EventDelivery: the pump, every worker, and the end of a creation request, which is
  answered or times out. A holder of the delivery lock owes nothing, so that
  `EventsGoOn` says what it should.
- SessionLifecycle: a request's task as a whole. Its calls are answered or time out,
  and so do its waits for notifications. Nothing is owed by the backend's turns or by
  the session queues, so no request relies on them to finish.
- Interactions: workers, and the tasks of callbacks once they have something to end
  with. The client owes no answer and no timer is counted on; nor is a cancellation or a
  teardown, whose calls may hang as long as their timeouts.
- McpBridge: tasks run, and `connect` and `disconnect`, which the code bounds by
  timers, come back. The timers of the client's own requests are not counted on, so
  `RequestsEnd` shows that a connection's end reaches them without.
- RuntimeCache: a process that is not killed goes on; it polls for the lock and gives up at
  its deadline. A holder that dies loses the lock by itself.

HistoryReplay, SettingsSync, Descendants and ExtensionRequests state no liveness: each
of their waits ends by a timer, and what matters is the state they end in.

## 5. Proofs

`TransportProofs` proves, for any set of calls and any capacities that `spawn` accepts:
the type invariant with its limits (`TypeCorrect`), `NeverStranded`, `Correlated`,
`PositionsOrdered`, `NothingLost`, and that the table of pending replies implements
`RpcPromise` (`PromiseKept`). The assumption is `TransportAssumption`, the validation at
`transport.rs` 12-19 and what `spawn` sends. The argument is one inductive invariant,
`IInv`:

- `IdsUnique`, ids below `next_id` and never shared, and `FramesGenuine`, every frame of
  the child answers a call that began under the id it carries: without both, removing
  "the slot of that id" could hit another call.
- `StampsExact`, a position is a place in the output; it makes `PositionsFollowOutput`
  a consequence.
- `TableGuarded`, `disconnected` is set by the supervisor's drain and nowhere else, an
  idle call has heard nothing, and `NoStrandedCall`: the second conjunct of that property
  is not inductive without the first two facts.

`NoSilentLoss` is proved on top of `IInv`: one step per action of reader and consumer, as
an event moves from the output to `dispatched` and the channel, and from there to
`observed`, and a frame lemma for all that touch none of them.

`EventDeliveryProofs` proves for any threads, sessions, creations, callers of
`synchronize_session` and capacities (`DeliveryAssumption`) that an open session gets its
own thread's events in order and loses none (`InOrder`), that a caller that has
returned has everything behind it that its thread had said (`FenceObserves`), and that
every event is in one place only (`NoneLostOrDoubled`). Neither is
inductive: what is delivered next was put into the session's queue long before. `IInv`
follows an event through every place it can be. `ChannelExact`: the channel is the rest
of the output. `PumpSound`: what the pump holds or has parked is in order, the event in
hand first, and what is parked is of threads that are no sessions, so it cannot be
overtaken by their own events. `LineSound`: delivered, then the worker's, then the queue,
then the pump, in that order for the thread of the session. `KeepsTrack`: an event that has
been read is held, parked, in the line of its owner, or given up. `MarkerSound`: before a
caller's marker lies, in its session's line, everything that is not over of what its thread
had printed when it began; the marker enters the queue when the captured prefix is routed,
and `KeepsTrack` says that nothing of it can be elsewhere then. Where an event is follows from that;
that it is nowhere else is `OInv` (`Parted`, `Apart`): the stages exclude each other, and
no line has an event twice. A step either moves no event, or takes each from the one place
it was in (`Advances`), and with both `NoneLostOrDoubled` follows.

`SessionLifecycleProofs` proves, for any finite set of ids, any requests and any limit
that the sessions open at the start respect (`LifecycleAssumption`): the type invariant,
with the locks held by running requests alone (`TypeCorrect`), and `LimitHolds`, the
limit on open sessions. The limit is compared with the table in `Limit` and the session
inserted in `Register`, two calls later, so `SessionLimit` is not inductive. `IInv` adds
`CreationHeld` (a request between the grant of `creation_gate` and its end holds it, and
only creations reach the steps that insert), `RoomKept` (what `Limit` found still holds in
`setup` and `register`, as the table grows in `Register` and `Adopt` alone and no other
request is between its look and its insertion) and `Informed` (which of its variables a
request has set at each step). One lemma per part for a step of a request, each with
one step per action.

A second invariant, `SInv`, is proved with the first (`PromisesKept`) and gives the three
action properties: `TearsDown`, `SparesForeground` and `CancelsForeground`. Each of them says
of one step that no turn the client had been shown still runs, which the code knows only
from the session's own copy, so the core is `Shown`: if a turn runs that was announced to
an object, it is that object's active turn, and there is no further news of the thread.
It holds because turns are numbered as they start (`Numbered`) and the start of a running turn
is the last of its news (`Ordered`), and because an object, though requests keep it past its
removal from the table, never serves two ids (`OneId`) and has heard nothing before it is
made (`Coming`). A cancellation aims at the one turn that may still run of those its client
had seen (`Announced`, `Aimed`) and has stopped it when it goes on (`Stopped`), as nothing
starts an old turn again. `TearsDown` is about a request whose object is the one it removes;
what another has opened in its place it has not looked at. `Kept` ties the steps to `Session.gate` and the delivery lock:
`Vacated`, that a resume about to detach has no turn, stays true because the delivery lock it holds
keeps out the only notification that could bring one, and its gate keeps out a prompt; `Sole`,
that a resume meets its own object in the table or none, because any other resume of that id
waits at `creation_gate`; `Detached`, because a resume that attached the thread again
would hold the gate of the object in the table.

`OwnershipProofs` proves for any threads, sessions and bounds (`DescendantsAssumption`)
that a walk attributes a thread to nobody but an ancestor (`OwnersAreAncestors`).
`Descends` is what every relation that is reflexive, transitive and contains the parents
contains, so it needs no recursion. `IInv` says that the thread a walk set out from, and
every thread it passed, descends from the thread it is at, and that what the cache of roots
holds are ancestors: `Claim` enters all threads passed at once, after awaits in which the
tree grew and sessions changed hands, so the property needs the first fact, and the
first holds because spawning only adds descendants. `Walk` and `Close` steps that leave
that alone are covered by frame lemmas.

`ClosesClean` says that a close that succeeds leaves nothing at work below its session. Its
invariant is `CInv` (`ClosingInvariant`). The listing is read page by page while agents
spawn, so a thread may appear on a page already read; and a thread spawned by one that was
dropped is loaded again. `Awaited` is what makes the last round conclusive: as long as a
listing has found nothing, above every loaded thread of the session there is one still ahead
in that listing, itself perhaps, since whoever spawns is at work, loaded, and was ahead or has
been found. `Foretold` says the walk from such a thread leads to the closing session, for which no
other session may have been opened between and no metadata on the way have been refused
(`Alone`; without either the property fails, the first of which is the run `close_nested`), and `Cleared` that nothing of it is loaded after the last round, or
later, as only a thread at work spawns and only a session's own thread gets work from a
client (`Still`).

`ProcessProofs` proves for any launchers, versions and files (`CacheAssumption`)
that the cache implements `RuntimeStore` (`StoreImplemented`), and that a launch fails
for a cause (`FailsHaveCause`). `IInv`: who works holds the lock; who extracts found no
runtime, and none appears while it holds the lock; what is about to be renamed was
verified; a runtime the user has not touched is whole; who is past the lock has seen
its runtime or the user has touched it. Every step then maps to a step of the store or
to a stutter: only `Rename` makes a runtime appear, and whole.

`OwnershipProofs` also proves for any requests, sessions and streams
(`ExtensionAssumption`) that a stream that runs is claimed by its own session
(`RunningIsClaimed`), that a session of which no object is open has none, running or on its
way (`ClosedStaysSilent`), and that a request is lawful when it is sent and not only when it
was authorized (`ForwardedStaysOwned`). None of the three is inductive, and closes, archives
and resumes of one session may be under way together, with objects that are no longer in the
table. `RequestsInv` says: who is past the gate holds it, and unless it is a close or a resume its object
is open, and closing only by itself (`Gated`), which holds because whoever closes, detaches
or reopens an object holds its gate; a found object is of the session that was named
(`Found`); an object outside the table is shut, or a stray (`TableSound`). A close cannot
rely on its session's place in the table, so `StreamsOpen` follows the claims instead: each has
a `Witness`, an open object of its session that no request is about to shut without having
that stream still on its list. A start is a witness's user, since it holds its gate; a
close lists what is claimed when it has the gate, and shuts its object only when the list is
empty, each entry leaving it with the claim. Each call has at most one message
on its way (`WireSound`); and a claim stands for exactly one of a start that is ready or on its
way, a stream that runs, and a verdict that will end the claim (`ClaimsHeld`), so that a
late stop cannot end the claim of a stream started after it. A timed-out start or stop
keeps its place in that list, which is why giving up a claim on a time-out would break it.

`InteractionsProofs` proves for any sessions, callbacks, requests and limit
(`InteractionAssumption`) that callbacks are answered once (`CallbacksAnswered`), that a
teardown's sweep is final (`SweepIsFinal`), and that no session without a turn is shown
busy (`BusyHasTurn`), with the limit of the table in `TypeCorrect`. `IInv` says where a
callback is: in its lane, once (`LaneSound`), with its worker, or with its task
(`CallbackSound`); only there can it still get an answer. `SweepIsFinal` needs `Barred`,
that nothing is being admitted to a session that is marked, which holds because the mark
waits for the data lock that the admission holds: that is the one step the whole argument
turns on. `RequestSound` says that whoever got to a sweep as a teardown has set the mark.

`ProcessProofs` also proves for any listeners, connections, ids, messages and limits
(`BridgeAssumption`) that the client is asked to disconnect once (`AskedOnce`), that a
closed listener stays empty (`StaysClosed`), and the two action properties: no request is
told that a connection is unknown that the client has made (`KnownWhenAsked`), and what is
given up is withdrawn (`WithdrawnWhenGivenUp`); with the limits on permits and slots in
`TypeCorrect`. `IInv` follows the lease: it is with the task, the handler, the table or a
cleanup, in one place (`Holds`), and while it is, the connection's id is in `endpoints` and
stands for it alone (`Known`). `KnownWhenAsked` rests on `CountExact`: `connecting` is the number
of connects between the request to the client and the insertion, so a lookup that sees
no entry and a count of zero has missed nobody. `StaysClosed` rests on `CloseSound`: no
permit is given once `shutdown` is set, because both happen under the table's lock. A frame
lemma covers the connections a step does not touch.

`HistoryReplayProofs` proves, for any tree of threads, any items, page size and limit of a
replay (`HistoryAssumption`), that the transcript settles on Codex's history (`Settles`),
that only a reset takes anything back (`GoesForward`), and that a reset called complete is
(`CompletesWhole`). `ViewSettles` speaks of the moment when nothing is on its way; before
that, `Follows` says of each item that is kept why the client will end up with it: it is
shown as it is, a notification that no cutoff covers will tell of it, or the replay of a
reset has yet to come to it (`Ahead`). Delivering a notification keeps that because the notifications
of an item rise (`Rising`) and the last tells its present stage (`UpToDate`), so that if an
earlier one is not covered, neither is the last. An item that is removed must not come back:
`Gone` says that whatever is on its way of it was printed before the mutation's answer, whose position
the reset will make the cutoff, or lies below the highest cutoff already. It has to hold
through the time in which the transcript cannot be whole, between a mutation and its reset,
and for that `Sought` names when anything is promised at all, and `Asked` says that nothing
but the mutation that is waited for can be carried out then: a fact about the order in which Codex reads
its requests. `Whole` is the same argument for the replay of one reset; `Early`, that it has
not read a page while a mutation that was given up is unread. `NeverBackward` needs `Forward`, that
a notification behind what is shown is covered or from before a resume, which a page
keeps by covering, at its own position, all it shows.

`SettingsSyncProofs` proves, for any settings, any values and any limits
(`SettingsAssumption`), that the session's copy settles on what is effective
(`CacheFollows`), that a reconciliation that waits has a cause to (`WaitsForCause`), and
that a settings call that succeeds says the truth (`AnswersTrue`). The caller decides by
the copy, which is behind the backend by whatever is on its way, so none of the three is
inductive. `Tracks` says how far: of each setting, that the copy is right or the last
notification on its way tells it; where a resume covers a setting, a notification from
before its answer tells nothing, and the copy is right from the answer on (`Covering`,
`Overlaid`). `Exact` is what makes success true. Outside a revert or a resume whose end has not been
seen, there are two cases: no notification is on its way, and nothing but the pending mutation can cause one
(`Quiet`); or that mutation is effective and at most its one notification is on its way
(`Applied`). So when the copy has been replaced since the mutation was recorded and shows it, the
backend has made it effective. A mutation that was not recorded, because the copy showed it already, changes nothing
for the same reason (`Unrecorded`). For the one who waits, `Counted` and `Looked` say that a look that failed
still fails unless it was woken, since `Notified` is enabled before the look; `Carries`
says that the mutation is still with the backend or effective, and `Tracks` that in
the second case the copy shows it or a notification will. All three need the order in which Codex
reads its requests (`Ordered`), that behind the one that is pending the backend
has nothing (`Own`), and that it has none at all while a resume or a revert is settling (`Still`).

Out of the prover's reach and left to TLC: liveness under fairness and ENABLED. Every
invariant and every action property that a passing run checks is also proved.
No module uses RECURSIVE.

## 6. Where code and text disagree

1. `delivery_callbacks`: a failing `session/new` answers the parked callbacks of other
   sessions' subagents with "session setup failed" (`server/mod.rs` 186-205).
2. `resume_retry`: after a `thread/resume` that failed, the session is withdrawn but the
   thread not unsubscribed, as the failure of the replay does (`lifecycle.rs` 188 and
   232), so the next resume is refused its overrides.
3. `resume_close_race`: a resume that waits at the gate of a session that is being closed
   goes on with the removed object and answers success (`lifecycle.rs` 163-169, 374). An
   extension request behind it is then forwarded for an object that is not in the table
   (`extension_requests.rs` 112), although `README.md` 414 has it target an open session.
4. `completed_turn`: one remembered completed turn does not keep a turn from being
   resurrected when a queued turn has ended too (`lifecycle.rs` 346, `events.rs` 259).
5. `close_nested`: `session/resume` accepts a subagent's thread. What was cached for the
   outer session stays its own (`ownership.rs` 22-26), so the close of the subagent's
   session passes over the threads below it and reports success while they work on.

Also against `README.md` 183, and without a run of its own: of two closes at one gate, the
second takes out by name the object of a resume that came in between (`lifecycle.rs` 374)
and reports success, though it has ended neither that object's turn nor its streams.
`TornDown` is restricted to a close that removes its own object and fails without the
restriction; ExtensionRequests has these objects among its `strays`.

Met while modelling, and listed as hazards without a property because no document
says what should happen: a reset lowers `history_cutoff` below what an earlier one had
set (`history.rs` 183; `ViewSettles` excludes it by `Lowered`); selecting a
mode with null instructions again may wait for a report that Codex does not owe
(`config.rs` 20); the order between a root's events and those of a parked subagent
(`events.rs` 69). Nor does a property say whether Running may be shown over the
requires_action of a callback that was announced between a task's look at the table and its
notification (`events.rs` 509-527). A launch that waits for the lock until its deadline
counts as failed for a cause, so no property shows that the lock passes on.

## 7. Not modelled

- ACP framing (`acp_transport.rs`), the build and release scripts, `input.rs`, the option
  lists of `config.rs`, the projections and the translation of permissions and
  elicitations: sequential conversions of data, without a state that several parties
  share. A model of them would be their text again.
- The negotiation of capabilities and event filters, request slots (`handlers.rs`), the request direction of the MCP bridge
  from Codex to the client's answer inside HTTP (`http.rs` 225-273), its concurrency limit
  and SSE framing.
- The ACP SDK, tokio, the filesystem and Codex are environment: the models say what the
  code relies on. Timeouts are choices, not clocks, so that a bound such as the six
  seconds of `shutdown` against the ten of the supervisor is not compared.
- Compositions beyond the pairs that share state in the code: EventDelivery takes
  ownership as a function, SessionLifecycle takes teardown as one step.

What the plan has left: resume
and the loss of the backend in Interactions; pure operators for `settings_match` and the mode templates against a
reference definition.
