# A TLA+ development of CodexUI

CodexUI is a Qt frontend for the Codex app-server.  Its core is two threads
around one shared node graph: the Qt main thread, which shows the graph and
sends what the user does, and the SNode.C worker thread, which talks to the
app-server and is the only writer of the graph.  Beside it stand a profile
manager, which starts and stops the processes of a profile, and a browser
frontend.  This directory holds TLA+ models of the parts of that system in which
order, interruption and failure matter, the TLC runs that check them on small
instances, and TLAPS proofs for instances of any size.

Paths below are those of the repository, e.g. `src/codex/FrontendSession.cpp`.

## 1. Inventory

| Part | State | Operations | Talks to |
| --- | --- | --- | --- |
| `nodegraph/SpscQueue.h` | ring of optional slots, two cyclic positions | tryPush, tryEmplace, tryPop, sizeApprox | one producer, one consumer thread |
| `nodegraph/ThreadChannels` | two rings, two eventfds, rescan word, pending provider authority, whose turn it is after a rescan | send…, tryReceiveForQt, tryReceiveForWorker, drain…Wake, close | both threads |
| `FrontendSession` | deferred changes, position of the scan over retired nodes, acknowledgements not yet sent, drain flags | drainWorkerMessages, collectRescanRetirements, flushNodeAcknowledgements, send…Action, shutdown | channels, graph (tryRead), shell handlers |
| `WorkerMailboxReceiver` | closing, tick scheduled | readEvent, readTimeout, shutdownEvent, next tick | channels, SNode.C event loop, ClientRuntime handlers |
| `nodegraph/NodeGraph` | nodes in order, parents and children with cached positions, relations with incoming edges, revisions, retired nodes | read/write access, upsert, setParent, replaceChildren, relate, removeMany, releaseRetired, publish | both threads (reader/writer lock) |
| `nodegraph/WorkerLogic` | prompt queues, prompts in flight, threads being created, connection state | admit, takeNextPrompt, completePrompt, resetProviderDerived, acknowledgeUiDetached | NodeGraph, channels |
| `ClientRuntime` | connection, hydrations, parked prompts, server requests, pages, shutdown | bridge events, dispatchNodeAction, pumps, requestShutdown | WorkerLogic, ProtocolUpdater, SNode.C |
| `nodegraph/ProtocolUpdater` | none of its own | reduction of protocol operations to the graph | NodeGraph |
| `ShellWidget` | bound thread, routed revision, pending rows and delta, the projection in flight, timers, responses on their way, detachments owed | handleGraphChanged, commitPendingPanes, bindGraphPanes, projections, resolve pending requests | FrontendSession, graph (tryRead), ConversationView |
| `ui/NodeGraphUiAdapter` | none of its own | conversation, conversationDeltaSince, conversationRoute | graph (tryRead, on Qt and pool threads) |
| `middle/ConversationView`, `ConversationItemModel` | presented thread, rows by section, stage, loading overlay | present, replace, place and update rows | ShellWidget |
| manager (`src/manager`) | profiles and revision; per profile: states, command queue, probe, sign-in, deletion | start, check, open, stop, sign in and out, delete, edit, remove | systemd helpers, bridge client, web server |
| browser (`web/src`) | prompts and runtime phase per thread, requests of this epoch, presentation model | submit, hydrate, page, remove turns, fail and retry | WebSocket bridge |

How they interact: the worker commits a graph transaction and announces it with
`GraphChanged`; when the queue is full the announcement becomes a *rescan*, a
promise that Qt will reread everything up to a revision.  A removed node stays
in the graph as *retired* until Qt has let go of it and says so with
`UiDetached`.  Qt never blocks on the graph: it tries to read and, when the
worker holds the lock, defers the change.  A large change of the selected thread
is projected on a pool thread and handed back to the Qt thread as a stage of
rows, which the pane commits put on the screen pass by pass.  The user's actions
travel the other way through the second ring, and quitting sends
`ShutdownRequest` behind them.  The manager drives its services with helper
commands, one at a time, and watches them through a bridge client of its own; the
browser session talks to the app-server through the bridge directly and shares no
code with the native client.

What is hard: two threads without a common lock around the rings; wakes that
may fail; a queue that overflows; rescans that overtake older changes; an array
that is reordered while it is scanned in pages; a receiver that dies in a
handler while Qt waits for it; prompts whose answer, revert, reset and deletion
race; server requests that are answered while they are withdrawn or replaced
under the same id; rows projected off the Qt thread from a graph that moves on;
positions cached in nodes that every edit has to keep right; helper commands
that do their work and lose the answer; a page, a removal and a reload of one
thread that overtake each other in the browser.

What makes each part correct:

* ring: no loss, duplication or reordering; no two threads in one slot.
* channels: no committed revision forgotten, provider resets announced no later
  than what they reset, the stop notice always finds room.
* graph: cached positions and incoming edges agree with the lists they cache;
  every changed node is reported, for only reported nodes reach the views.
* session: nodes stay readable as long as something on its way names them;
  nothing retired is lost from sight; everything is shown or released some day.
* mailbox: actions handled once and in order before the shutdown; the shutdown
  always ends.
* prompts: at most one unanswered prompt per thread, none sent twice, no dispatch
  slot leaked, none revived by a late answer, each settled some day.
* server requests: an answer reaches the request the user saw, once, while the
  server waits; what is offered can be answered; what was submitted is kept.
* projection: rows go to the selected thread only; what is pending is on its way;
  rows and items agree, in order too, when everything is quiet.
* manager: control of the bridge is given back; a deletion runs alone; nothing
  the manager calls stopped runs; every operation ends.
* browser: no thread waits for an answer that cannot come; a removal of turns
  runs alone; prompts are sent once, in order, and settle.

## 2. Modules

| Module | Models |
| --- | --- |
| `BoundedFifo` | abstract: what one mailbox direction promises |
| `SpscQueue` | the ring, each call split at its shared accesses |
| `SpscQueueProofs` | theorems about the ring |
| `ThreadChannels` | worker to Qt: admission, overflow to the rescan word, authority, turn taking |
| `GraphStructure` | the topology of the shared graph: children, relations, removal, reports |
| `SharedGraphProofs` | theorems about the channels (part 1) and the topology (part 2) |
| `FrontendSession` | delivery, deferral, rescan collection, retirement and acknowledgement; parts of NodeGraph, WorkerLogic and ShellWidget it needs |
| `FrontendSessionProofs` | theorems about retirement |
| `WorkerMailbox` | Qt to worker: actions, receiver, failure, shutdown |
| `ServerRequests` | requests of the app-server: arrival, withdrawal, reset, the user's answer |
| `QtToWorkerProofs` | theorems about the shutdown (part 1), requests and responses (part 2) |
| `PromptPipeline` | worker: admission, queues, parking, dispatch, answers, recovery of prompts |
| `PromptPipelineProofs` | theorems about slots, queues and the order of sending |
| `ConversationProjection` | routing of changes to the rows of the selected thread, projections off the Qt thread, staging and commits |
| `ConversationProjectionProofs` | theorems about pending rows |
| `ConversationRows` | the order of the rows: prompts, items and history in the graph, exact placements, the item model |
| `ProfileRuntime` | the manager's runtime of one profile: command queue, readiness, stop, sign-in, deletion |
| `ManagerController` | the profile registry around that runtime (EXTENDS it) |
| `ManagerControllerProofs` | theorems about control, deletion and stopping |
| `BrowserSession` | the browser's prompts, hydration, paging, removal of turns |
| `BrowserSessionProofs` | theorems about waits, removals and the order of sending |
| `MC…` | extended by the TLC configurations |

Small models that share nothing with each other stand in one MC module as
*scenes*: the initial state picks a scene, the part the scene is not about stands
still, and every property is checked in every scene.  `MCConversation` holds
`SpscQueue` and `ConversationProjection`, `MCSharedGraph` holds `ThreadChannels`,
`GraphStructure` and `FrontendSession` with two nodes, `MCFrontendSession` holds
`FrontendSession` with one node and `ConversationRows`, `MCWorkerMailbox` holds
`WorkerMailbox` and `ServerRequests`.  A property of a module whose variables bear
other names in the MC module is checked through INSTANCE: `SessionIntact` of
`MCSharedGraph` is `AffectedReadable` and `RetirementTracked`, which
`MCFrontendSession` checks under their own names, and `RowsIntact` of
`MCFrontendSession` is `RowsFollowGraph` and `RowsWellFormed` of `ConversationRows`.

### SpscQueue

`producer`, `consumer` and `slots` are the members of the class; `producerAt`
and `consumerAt` say where a call stands.  A push is `PushLoad` (both position
loads and the full check), `PushEmplace` (the slot) and `PushPublish` (the
release store); `PushRefuse` is the early return.  A pop is cut in the same way.
A load of the *other* thread's position returns any value not older than the
one read last (`LoadResults`): C++ coherence, no more.  `roomSeen` remembers
that `sizeApprox` promised room to the producer.

`Contents` is the refinement mapping to `BoundedFifo`: the slots from consumer
to producer, where a message already moved out still counts until the consumer
position is published.

### ThreadChannels

The two rings are used through what `SpscQueue` establishes, so a queue is a
sequence here; a thread may still see the other's progress late (`sizeSeen` for
the worker, `surelySeen` for Qt, which surely sees what was queued before a
rescan it received).  `sendGraphChanged` is `Commit`, `StoreAuthority`,
`AdmitChange` or `CoalesceChange`, and `Wake`; `tryReceiveForQt` is cut at the
queued turn, the exchange of the rescan word, the exchange of the authority, the
pop and the compare-and-swap after it.  `told`, `resets`, `authorityTold` and
`overtaken` are history.

### GraphStructure

The write lock makes every `WriteAccess` operation one action: `Upsert`,
`ReplaceState`, `SetParent`, `ClearParent`, `ReplaceChildren`, `Relate`,
`Unrelate`, `ReplaceRelated`, `RemoveMany`, `ReleaseRetired`.  What the code keeps
twice is a variable of its own: `index` is `parentIndex_`, the position among the
siblings or, after the removal, among the retired nodes; `incoming` are the edges
a target knows of.  Erasures that start at a cached position or stop after as
many hits as the cache promises are modelled that way.  `noted` is what the
operation reports, cleaned as `prepareChanges` does.  An operation whose arguments
the code refuses with an exception is not enabled.  The walk over the ancestors and
the closure under pending operations are the least sets closed under a step, and a
filtered list is ordered by the ranks of the positions it keeps: what they compute is
said without recursion, for the proofs.

### FrontendSession

One pass of `drainWorkerMessages` runs from `BeginDrain` over the
`Handle…`/`Collect…` steps to `FinishBusy` or, when everything is quiescent,
through `FlushOne` to `FlushEnd`.  `drainAt` says where the pass is; the worker
moves between any two steps.  A handler may accept or refuse (graph locked), and
`deliverFilesystem` may refuse before it.  `parentIndex`, `retired` and
`orderGeneration` are the retired-node bookkeeping of NodeGraph, whose release
swaps the last node into the gap.

The panes are reduced to what they hold: `retained` (rows, cards, the bound
thread) and `routed` (nodes waiting for the next pane commit, which a change
older than their removal may name although they are retired by then; every
reader of that list tests `live()` first).  Sends and receives are one step,
since `ThreadChannels` takes them apart.

### WorkerMailbox

`ReadEvent`, `ReadTimeout` and `NextTick` are the three ways into
`consumeWakeAndMessages`; a handler may throw (`ConsumeThrows`), the runtime may
stop by itself (`RuntimeFails`), the eventfd may fail (`ReadEventFails`).
`shutdown()` is `BeginShutdown`, `SendShutdown` or `SkipShutdown`, `Join`.

### ServerRequests

A member of `Requests` is one request of the server and the node made for it;
several may carry one JSON-RPC id.  `node`, `key` and `stamp` are the interaction
in the graph, `pendingServerRequests` the typed entry that an answer needs,
`local` the entry of `localPendingRequests` that shows a response as submitting or
keeps it.  `Request` is `registerServerRequest` with `applyInteraction`, which
replaces a node of the same key and scopes the key when a preserved or older
request has the plain one; `Resolved` is `serverRequest/resolved`; `Reset` is what
every new generation does; `RejectResponse`, `RefuseResponse` and `SendResponse`
are the ends of `resolveInteraction`.  The user writes a response in a modal dialog;
when it closes, `pendingRequest` reads the request once more.  `SubmitPending` is
`submitPending` with what was read, `SubmitBusy` the graph that is locked just then:
what was written is dropped with a notice.  `authored`, `submitted` and `sent` are
history: the last response written, the last one `submitPending` was given, and what
the bridge took.

Assumed of the server: it asks only while its provider is ready, and reuses an id
only after what it said of the earlier request has arrived.  A connection that
failed is closed before another request arrives; generations change at
connections and provider changes only.  The queue of answers is an ideal FIFO
that may refuse, as `WorkerMailbox` shows it.

### PromptPipeline

The worker runs one callback at a time, so an action is a callback up to the
point where it hands a `PromptCommand` to `dispatchPrompt`; that command is then
`command`, and nothing but the `Dispatch…` actions may happen until it is placed
(`Idle`).  `queue`, `slot` and `creating` are `promptQueues_`, `promptInFlight_`
and `creatingThreads_`; `hydrating`, `interactive`, `parked` and `resumed` are
the sets and maps of `ClientRuntime` (`pendingHydrations`,
`interactiveHydrations`, `promptsWaitingForHydration`,
`resumedPromptAdmissions`); `prompt`, `live`, `loaded` and `hydration` are what
the graph says of local prompts and threads.  `requests` holds every request
whose answer has not come, with what its completion has captured.  A request
whose operation node was removed, by a revert, a reset or with its thread, is
`current = FALSE` and stays only where a stale answer still does something.  `Settle` and `Complete` are
`completePrompt` and `completePromptResult`, `ForgetPrompts` is `forgetPrompt`.

Recovery nodes are one place (`home = Recovery`): nothing is ever sent from
there.  `turn/start` and `turn/steer` are one kind of request, since they differ
in parameters only.

Three things are assumed of the app-server, because the code relies on them:

* it answers the history requests of one thread in the order of asking
  (`InTurn`).  Otherwise the *stale* answer to a `thread/resume` that a revert
  retired erases the prompt parked behind the newer hydration
  (`ClientRuntime.cpp:2521`), and the thread's slot is never freed again;
* a thread that `thread/start` has just created may be announced and selected
  before the answer, but nobody sends to it or reverts it before
  (`CreateThread`).  `completeCreatedThread` would overwrite that prompt's slot
  (`insert_or_assign`).

* it has no items of a thread that exists only locally, so that no prompt of a
  draft materializes (`PromptMaterialized`).  A turn sent to a local id (finding
  `prompt_local_thread`) that materialized and was then refused would be completed
  without failing the prompts queued behind it, and nothing would take the next.

A deleted thread's id is not used again before the next provider reset.

### ConversationProjection

The rows of the one conversation the user sees.  A row is an item with the
revision its content is of, so that "the row is up to date" can be said; text,
cards, heights and order are left out, and a structural change is placed or
refused.  `ChangeItem`, `InsertItem`, `RemoveItem`, `Hydrate`, `HydrationFails`
and `ChangeElsewhere` are what the worker may commit.  `DeliverQueued`,
`DeliverRescan` and `DeliverRetirements` are `handleGraphChanged` with
`conversationRoute` and `queueConversationRoute` (`ReplaceAuthority`,
`LeaveToProjection`, `RouteItems`); `CommitPanes` is one pass of
`commitPendingPanes`, whose first piece of work is `PresentRows`, `PlaceRows`,
`ProjectRows` or `ReplaceRows`; `StartProjection`, `ReadProjection` (on the pool
thread) and `FinishProjection` are a projection, `CommitStage` the end of the
staging in the view.

Timers only order: one that is due may fire at any time.  One exception is kept,
since correctness leans on it: a projection that waits 500 ms starts after the
pane commits, 16 ms apart, have dealt with the rows that were outstanding when it
was asked for.  A complete projection reads the graph in one step, under its lock
(`ReadSnapshot`); a delta reads it twice, since `conversationDeltaSince` lists what
changed and gives the lock up before `conversationDelta` takes it again
(`ListChanged`, `ProjectChanged`), and either read may find the graph locked.

Not here: thread removal, prompts that become items, the retry stage, history
pages and the order of rows, for which see `ConversationRows`.

### ConversationRows

The order of the rows of one thread, from the worker's transaction to the item
model.  `graph` holds the turns, their items in order, the item that opens each
(`TurnRootItem`), the running turn and what `WorkerLogic` keeps of prompts:
dispatch state, slot, queue.  The worker's actions are `Submit`, `Accept`, `Fail`
and `Materialized` (`WorkerLogic`), `TurnStarted`, `TurnCompleted`,
`MessageArrives`, `AnswerArrives` and `HistoryArrives` (`ProtocolUpdater`).  A turn may end before the answer to the
request that began it or to a steer; the answer then leaves it ended.
`Change` says which nodes such a transaction reports, and which of them by a
change of structure: that, and not the order itself, is what `conversationRoute`
sees.  On the Qt side `Handle` routes a change against the graph of *now*;
`ProjectRows` projects a batch of the rows pending as exact placements
(`Placement`, `Ordered`), `PlaceRows` places them later among the rows as they
are by then: `Plan` makes the removals and two sweeps of `Place` on a copy,
`InPlace` is the final check, `Refreshed` the update of edges, indentation and
mark of the sections touched.  A plan that fails is `Refused` and `ReplaceRows`
asks for a complete projection instead (`FinishProjection`, `CommitStage`).
A message goes by the key of the prompt it is of, so that a prompt becomes its
message in place; `NewlyShown` prompts are acknowledged to the worker.

A complete projection is one step and its stage another, since
`ConversationProjection` takes them apart; content is left out.  Not here: roots
replaced under another key, threads that fail to load, rescans, retired nodes.

### ProfileRuntime and ManagerController

`rt` are the members of the class, in one record, because most of its methods are
functions that pass it on (`EnsureUi`, `StopAll`, `FinishDeletion`, …); the
command queue is `operations` with `current`, and a command carries the name of
its continuation (`why`).  `RunNext` starts a helper; `…Shown`, `Launched`,
`Checked`, `Started`, `Stopped`, `Inspected` and `Deleted` are its ends.
`fromProbe` are the lines of the bridge client the manager has not read,
`ReadProbe` reads one.  `services`, `listening` and `bridge` are the
environment: units, the activation socket, and control, provider, login flow and
account behind the bridge client.  A helper may fail, or do its work and lose the
answer.

`ManagerController` adds the registry: `DeleteData`, `Remove`, `Edit`,
`EditOther`, and `DeletionFinished`, which arrives by a queued connection and
outlives the runtime that emitted it.

Abstractions: the activation socket answers synchronously; a start whose answer
is lost takes effect at once or never; *NotRequired* is folded into *SignedIn*;
the refresh timer is free when it expires nothing; file formats, logs and the
1 MB limit on the monitor's output are left out.

### BrowserSession

A JavaScript handler with its microtasks runs before the next event, so each is
one action, written as a function on the work of the session (`Work`).
`prompt` is the coordinator, `runtime` is `runtimeByThread` (phase and whether a
page is on the way), `requests` are the unanswered requests with what their
continuation compares when the answer arrives (`tied`: the runtime entry or target
is still the one it was sent for).  `LoseProvider` ends an epoch; late answers
change nothing but the creation of a thread.

Assumed: the app-server answers `thread/start` before it announces the thread, and
announces reverts of threads the client knows.  A new thread dispatches its prompts
when it is created; with a section chosen for it the code first awaits the answer of
`assignThreadGroup` (`web/src/app/BrowserFrontendSession.ts:552`), which with the
groups is left out: the wait ends with that answer or the loss of the provider, and
then, unless a later prompt to the thread has done so, the same dispatch happens.
Left out: item pages, the limit of
eight background hydrations, catalogs, groups, settings, rename, archive, fork,
workspace, cursors already seen; steering is a turn.

## 3. Runs

| Run | Instance | Distinct states | Shows |
| --- | --- | --- | --- |
| `conversation` | ring: 3 slots, 2 messages; rows: 2 items, 2 threads, five worlds | 206,151 | no slot race, room kept, refinement of the FIFO; what is pending is on its way, rows go to the selected thread, selection completes, items get their rows and their latest content |
| `conversation_rescan` | 2 items, 3 revisions, folding | violation | a change folded into a rescan never reaches its row |
| `shared_graph` | channels: 3 slots, 1 reserved, 4 revisions; graph: 4 live nodes and a second incarnation; session: 2 nodes, 2 slots, page 1, 2 revisions | 1,825,784 (symmetry) | nothing forgotten, authority in time, terminal slot free, no starvation; `GraphIntact`, changes reported; `SessionIntact`: readable while named, retirement tracked with two nodes |
| `frontend_session` | session: 1 node, otherwise the same; rows: 2 prompts, 1 prompt with an answer, or 1 prompt and two pages of history; batches of 2, 2 changes on their way | 373,692 | delivered, reported, released under fairness; readable and tracked; `RowsIntact`: rows follow the graph and are well formed |
| `conversation_emphasis` | 2 prompts | violation | a prompt on its way opens a turn that is not marked as active |
| `worker_mailbox` | mailbox: 3 slots, 4 actions; requests: 3 under one id, 3 generations, 2 responses | 197,145 | order before shutdown, handled, completed; right answer, actionable, kept once submitted, not submitting for ever |
| `prompt_pipeline` | 1 thread and 1 draft with 2 prompts, or 3 prompts on 1 thread | 157,958 | slots carried, queues served, one unanswered, sent once and in order, all settled |
| `prompt_revived` | as `prompt_pipeline` | violation | a prompt failed by a revert is sent after all |
| `prompt_local_thread` | as `prompt_pipeline` | violation | a turn goes to a local-only thread id |
| `manager` | 1 external and 1 owned backend, the UI; 3 user requests and outside events together | 556,091 | control accounted for, deletion alone, known stopped, nothing orphaned, operations end |
| `manager_launch` | as `manager` | violation | opening CodexUI twice launches it twice |
| `browser` | 1 thread and a draft with 2 prompts, or 1 prompt and its history | 84,689 | waits are real, removal alone, sent once and in order, all settled |

Why the bounds are enough. Three ring slots let positions wrap and pass through
every occupancy. Three channel slots with one reserved and four revisions let the
queue fill, overflow, drain and fill again, with resets on either side. In the
graph, three edits of the tree give three siblings in any order with one moved or
removed; three edits of the relations give two edges of one source to one target
over two kinds, and one more; a removal, a new incarnation and a release reorder
the retired nodes (`Scenarios` in `MCSharedGraph` says what is combined). In the
session two nodes and a page of one give a scan of two passes whose order changes
in between, which one node, in `frontend_session`, cannot show; of two queue slots
one is reserved, so the second unread change overflows. A deferred list is bounded
by `MaxDeferred`: one refused page beside what else is refused, two in the run
with one node. `MaxRevision` and `MaxActions` bound what is otherwise an endless
supply.

Of server requests three share an id, since a scoped key matters only when a
preserved request and a current one have it, and a third replaces either; three
generations are before, at and after a reset.  The state of a prompt thread is per
thread and threads share nothing but the reset, so one thread and one draft that
becomes it show every interleaving; two prompts are one in flight and one behind
it, three leave two waiting, which order needs.

Of rows one is changed while another is inserted or removed; three transactions
are an insertion, a change and what arrives between, four are one more before
a projection is read.  `World` bounds what is combined: reads that find the graph
locked, selections, folding, loading and refused rows.  `RowsArrive` speaks of the
worlds without folding and refusal, and of content only where nothing is loaded
either; `SelectionCompletes` of all but folding beside loading or a locked graph:
outside those the code does not keep the promise (section 5).

Of the order of rows two prompts on an idle thread give a turn opened and one
steered or two opened, each prompt sent, accepted, failed, overtaken by its
message or replaced by it, its turn ended before it is accepted or after.  A turn of history in two pages gives one whose opening
row changes, appears or moves while a prompt is submitted behind it.  Batches of
two rows split a change over two placements, and two changes on their way let a
placement meet a graph that is two transactions further.  Worlds are *calm* but
for what section 5 says: a refused placement is followed by its replacement before
another change is routed.

The manager's profile has one backend it owns (`Backends`) and one it does not
(`External`), because start order and ownership are all that tells backends apart; the budget lets two requests and a
fault, one request and two faults, or three requests meet.  In the browser no
more than two requests are unanswered when the user or another program acts.

The five violations are disagreements between the code and what the repository
says of it; PROJECT.json quotes the lines.  Parked prompts
(`promptsWaitingForHydration`) are not dropped when a revert fails them; `admit`
accepts a draft whose creation has failed; the mark that refuses a second launch
is overwritten by an older status answer; a rescan asks for what changed after a
revision that later deliveries move on before the projection starts; the row of a
prompt keeps its mark of the active turn when only the state of prompts changes.

Each property is also run against a mutant of the code's definition it guards
(the definitions commented as mutants in the modules); each mutant breaks it.

Fairness.  Both event loops run their enabled steps (Qt's 100 ms recovery timer
and the worker's 100 ms descriptor timeout included), timers that are due fire,
pool threads finish, and a pane commit that is scheduled happens.  `tryRead`,
retried every millisecond, does not fail for ever, because the worker holds the
lock for one transaction at a time: strong fairness of the accepting steps in
`FrontendSession`, a bounded number of failures in `ConversationProjection`.  A
pane that shows a removed node is reconciled by the next pane commit, which
`handleGraphChanged` schedules.  The app-server answers every request some day
(weak fairness per thread and per prompt), helpers end or are killed by their
timeout, and the bridge client's lines are read.  A queued message is seen some
day.  Nothing is assumed of wakes, of the user, of new transactions or of failures.

## 4. Proofs

`SpscQueueProofs` proves for every capacity and every set of messages what the
ring scene of `conversation` checks for three slots:

* `TypeCorrect` - the type invariant;
* `RingInvariant` - the inductive invariant `RingInv`.  The type alone is not
  inductive in any useful way: a push is safe because the producer's *stale*
  view of the consumer only underestimates the room (`ViewsInv`), and slots are
  engaged exactly between the positions (`SlotsInv`).  `SlotDiscipline` and the
  refinement both follow from it;
* `SlotsAreDisciplined`, `RoomIsKeptForTheProducer`, and
* `RingImplementsFifo` - every step of the ring is a step of `BoundedFifo` or
  leaves its variables alone.

They rest on the assumptions `Capacity \in Nat \ {0}` (the `static_assert`) and
`Empty \notin Message` (an empty optional is no message).  The lemmas are about
cyclic positions: how `Advance`, `Distance`, `Forward` and `SlotIndex` fit
together; capacities are unbounded there.

Part 1 of `SharedGraphProofs` proves the invariants of the channels that `shared_graph`
checks, and their type invariant, for every
capacity, reserve and number of transactions, from the inductive invariant
`ChannelInv`.  None of the properties is inductive alone:

* `NoRevisionForgotten` needs what each thread has in its hands (`HandsInv`);
* `AuthorityInTime` needs that everything sent is behind what the worker still
  holds (`HeldIsAhead`), that a reset's authority travels with its own change
  (`ChangesCarry`), and that a stored authority is pending, being handed over or
  told (`AuthorityKnown`) - the swap that clears the pending word must compare;
* `StoppedFindsRoom` needs the reserve counted in the worker's *own* view of the
  queue, which only overestimates it (`ReserveInv`);
* `NoStarvedHead` needs that after a rescan has overtaken the head the queue has
  its turn and Qt surely sees the head (`TurnInv`).

Assumed are a capacity that is a natural number and a reserve between one and
the capacity, as the constants of the worker-to-Qt ring have it (512 and 1).

Part 2 proves for every set of nodes, ids, kinds and relations that the topology stays
intact (`GraphStaysIntact`) and that every change of a live node is reported
(`ChangesReachTheViews`); `shared_graph` checks both with five nodes.  The inductive
invariant `GraphInv` has four parts:

* `ListsInv` - the lists of live, inserted and retired nodes repeat nothing, and a
  node is live or retired, never both;
* `TreeInv` - a node is in the list of its parent and in no other, at the position it
  caches, and there is no cycle: *no non-empty set of live nodes is closed under
  parents*.  Said so, without paths or depths, a new parent closes a cycle only if the
  parent is among the node's descendants, which is what the walk over the ancestors
  refuses (`StillNoCycle`);
* `RetiredInv` - a retired node caches its place in the array, which the release of a
  node swaps;
* `EdgesInv` - both ends know an edge, and waiting requests are linked by insertion.

`removeMany()` erases from the first cached position on, and edges from the back, as
many as the removed nodes know of.  `ShortenedErasure` shows that such an erasure is
the full one if nothing it skips should go, and `ChildrenErased` and `OutErased` that
the invariant says so: stale positions or a forgotten incoming edge would break them.
A filtered list is defined by the ranks of the indices it keeps (`Only`), so that what
a filter does needs no recursion (`Ranks`, `OnlyAtRanks`, `OnlySame`).  Reports are
proved per operation: whatever list changes, its owner is noted (`NotedEnough`), and
an erased or inserted child changes the list of its own kind only (`EraseSame`,
`InsertSame`).  Assumed is that no node is called None and that the two relations the
operations name exist (`GraphAssumption`).

Part 1 of `QtToWorkerProofs` proves for every capacity of at least two and every number of
actions that a shutdown loses nothing (`ShutdownLosesNothing`) and is never refused
(`ShutdownFindsRoom`).  What is handled and what is queued must together be what
was admitted, in order, with `ShutdownRequest` last (`OrderInv`), as long as the
receiver is open; and the last slot must be free in Qt's *old* view of the ring
(`MailboxTypes`), which `HasRoomForAction` keeps.

Part 2 proves the three safety properties of server requests for
any number of requests, ids and generations.  The keys and stamps are the heart
(`KeyInv`): what lives and is not kept for review is of this generation, and what
is kept for review is of an older one, so that an id the server reuses finds the
old node under a scoped key.  `AnswersReachTheirRequest` needs that of several
answers in the queue only the one written last counts (`ActionsInv`), and
`ResponsesAreKept` that the shell keeps what it submitted last or still shows it as
submitting (`ShellInv`), also where a later response was dropped by the busy graph
(`ShellApplied`).

`FrontendSessionProofs` proves `AffectedReadable` and `RetirementTracked` for every
finite set of nodes, page size and capacities.  Neither is inductive.  A node is
released only after Qt let go of it, so acknowledgements must be about nodes no
pane holds and, once sent, no change on its way names (`LetGoInv`); a removal that
was told must be one (`GoneInv`).  Tracking leans on the scan: of the nodes before
its position Qt has been told, *or* the order has changed since and the scan starts
again (`ScanInv`, `TrackInv`).  The release that swaps the last retired node into
the gap is why the order generation must be compared.

`ConversationProjectionProofs` proves `WorkIsScheduled` and `PresentsTheSelected`
from `ProjectionInv`: a stage is of the bound thread, a pending structural change
holds the pane commit, and what is asked for is due, retried or in flight.  It needs
no assumption about the constants.

`ManagerControllerProofs` proves the four safety properties of the manager for any
sequence of owned backends, and any external ones beside them.  A method of
`ProfileRuntime` is a function on the record of its members, so the proofs are about
those functions: each keeps `Healthy`, the invariant of a record with the services,
the bridge and the unread lines.  What the queue of commands may hold, and behind
what, is most of it (`ServiceInv`): a stop and the deletion after it are one chain
with one command at a time, nothing that launches is behind it, and the timer's
refresh is never behind what opens the profile.  `ControlInv` follows the control of
the bridge through every order of what is written to the probe and read from it.
Assumed are distinct backends and names that do not clash (`ProfileAssumption`); a
launch plan has at most one app-server and one bridge (`LaunchPlan.cpp:144`, `:176`).

`PromptPipelineProofs` proves the four safety properties of the way of prompts
(`SlotIsCarried`, `QueueIsServed`, `OneUnanswered`, `SentOnceInOrder`) for every
number of prompts, threads and drafts.  Its invariant `PipelineInv` has a part for
each thing that could go wrong on the way:

* `WorkInv` speaks of prompts, queues and slots alone: what a record may look like
  in each state, that queue and slot of a thread hold exactly the prompts the graph
  shows as queued and as being sent, and that none overtakes another.  Each
  operation (`Complete`, `Enqueue`, `ForgetPrompts`, a reset, a created thread)
  keeps it, whoever calls it;
* `CarryInv` gives each prompt that holds a slot exactly one carrier, the command in
  hand, a parking place or a current request, at its own thread.  It must also say
  what may still be carried *without* holding a slot, prompts that have failed or are
  gone, for their late answers must find nothing to settle;
* `AskInv` says what an unanswered request is about.  A stale `thread/resume` erases
  the prompt parked at its thread, so such a request may only be on its way while the
  slot of that thread is free; that needs the order of answers assumed above;
* `CommandInv` lets a command be parked without displacing another prompt,
  `CreatingInv` keeps a draft while its creation is under way, and `LinkInv` that
  without a connection no request is current.

`SentOnceInOrder` follows from that invariant before and after a step, and from what
every step does to requests and to prompts that are done (`Tame`).  Assumed are
names that do not clash (`NamesAssumption`) and a natural number of prompts.
Without the assumption about items of local threads `QueueIsServed` fails with three
prompts and a draft, more than the two instances of `prompt_pipeline` have at once;
that is how the assumption was found.

`BrowserSessionProofs` proves `WaitsAreReal`, `RemovalIsAlone` and `SentOnceInOrder`
of the browser for every number of threads and prompts.  The invariant `BInv` says of
each thread by itself

* which requests may be tied to its runtime entry, and in which phase the entry must
  be for them (`HistoryOK`), and that a ready thread is one the model knows
  (`ReadyIsKnown`);
* what a prompt looks like in each state, and that a turn on its way belongs to the
  prompt it was sent for (`PromptOK`, `TurnOK`);
* that a removal has exactly one request and nothing else goes on beside it
  (`RevertOK`);
* that a queue is served - by a prompt in flight or a thread that will come back
  (`Served`) - and that a draft with prompts is being created (`DraftOK`).

None of the three properties is inductive alone: a wait is real because the one
request that can end it is still tied to the *current* entry of the thread, and an
answer to a superseded entry must change nothing.  The code's helpers are functions on
the record of the session's work.  Each touches one thread (`Moves`), a dispatch
touches the prompts of the threads it is for (`DispatchStep`), and a settled history
leaves the rest of its thread steady (`Steady`); the lemmas about actions compose
them.  Assumed are names that do not clash (`BrowserAssumption`).

Only model-checked, by nature: the liveness properties and with them everything about
ENABLED, and what folds compute for every input, which needs an induction the
proof system cannot instantiate.  That is why `RowsIntact` stays with TLC, that
is `RowsFollowGraph` and `RowsWellFormed` of `ConversationRows`, whose rows are built
by folds over the graph.
`SessionIntact` of `MCSharedGraph` only joins two invariants that are proved under their
own names.

## 5. Deviations the models leave aside

Behaviour met while modelling that the properties are stated around, in most cases
because the repository says nothing definite of it.

Projection (`ConversationProjection` has the restriction in its properties):

* a content change routed while a complete projection finishes is dropped with
  `pendingConversationItems`; the projection may have been read before it;
* a removal routed while a delta projection is scheduled or in flight is left to
  that projection, which looks at live items only;
* a structural route clears `pendingConversationAuthorityReplacement` after a
  refused delta, so rows the delta had may stay missing (`ShellWidget.cpp:1439-1442`;
  worlds of `ConversationRows` that are not calm show it); more than eight adjacent
  new rows are always refused;
* the end of loading, folded into a rescan, of a reselected thread that is already
  presented leaves the overlay up;
* another thread is selected while the graph is locked and a delta projection asked
  for by a rescan is due.  `bindGraphPanes` does not take it back, so with the next
  change routed it runs for the new thread, and when it finds nothing clears
  `pendingConversation` and `pendingConversationAuthorityReplacement`
  (`ShellWidget.cpp:1277-1306`): if no pane commit came in between, the thread is
  not projected, and the overlay stays until something else changes;
* a change left to a projection leaves `pendingConversation` true, so the pane
  commit runs every 16 ms until the projection completes
  (`docs/architecture/shared-node-graph.md:394-398`).

Native client:

* a response to a server request is lost when the worker holds the graph's lock as
  the dialog closes: `presentPending` submits only what `pendingRequest` could read
  again, and the notice says that no response was sent (`ShellWidget.cpp:2118-2125`,
  `:2959-2961`).  `docs/architecture/ui-internal-api.md:44-45` and
  `docs/qualification/native-test-suite.md:304` keep authored input where *admission*
  is refused, which `ResponsesAreKept` covers; of this case the repository says
  nothing;
* the settings resume after a background hydration runs beside a turn
  (`ClientRuntime.cpp:2462`, `docs/guides/interaction-guide.md:299-300`);
* a place in `pendingHistoricalHydrations` stays taken when its thread is deleted
  before the page arrives, or when another page of it is pending; eight of them
  end historical hydration until the next reset;
* request nodes preserved for review are never removed while the program runs;
* `shared-node-graph.md:262-263` has ordinary messages stop at 510, the code at 511.

Manager: the exit of a previous probe after `stop()` can abort a new start
(`ProfileRuntime.cpp:62-70`); reading logs during a deletion keeps the runtime busy,
so the queued removal of the profile fails; `stop()` drops a waiting inspection, and
`deletionFinished` is never emitted for it.

Browser: after a failed hydration or resume queued prompts wait for Reload without
a notice (`docs/guides/interaction-guide.md:281-285`,
`docs/web/contract-1.0.md:126`; excluded by the phase *failed*); Reload does not
continue an incomplete page of stale history; hydrating a thread that was announced
before the answer to its `thread/start` or fork leaves `historyPageInFlight` set,
and a selected thread that disappears and is reverted elsewhere can strand a prompt
in phase *cold* (both excluded by the assumptions above).

## 6. Not modelled, and the plan

Left out for good: widgets, layout and styling, payload reduction field by
field, git, dialogs, HTTP plumbing, file formats.  Simplified: memory orders
other than coherence in the ring (the positions are the only racing words); the
split of a retired page into provider and ordinary part; handlers that throw on
the Qt side; `PromptMaterialized` sharing the acknowledgement queue; in
`PromptPipeline` the user's own thread/revert, further pages of history, and
activity ordering.

Left to do, most important first:

1. The user's own thread/revert, as actions of `PromptPipeline`.
2. The item, historical and browser hydration pumps with their limits.
3. The commits of the thread, inspector and chrome panes.
4. Opening rows replaced under another key (`ReplaceRoot` of the item model).

Theorems worth proving with them: that the row order of `ConversationRows` follows the
graph, once its folds are stated by positions as the filters of `GraphStructure` are.
