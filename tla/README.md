# Vistalith in TLA+

Vistalith keeps a *Semantic World Graph* of a software project next to SDDK,
the authority it observes.  Everything that happens is an event in an
append-only log; the graph is the projection of the log; clients read the
graph, propose patches to it, talk to agents about it and draft changes that
SDDK has to govern.  This directory models that core: TLA+ modules, TLC runs
on small instances, and theorems checked by TLAPS for every instance.

Paths below are relative to the repository (`crates/...`).

## The system

| Component | State it keeps | Operations |
|---|---|---|
| `vistalith-graph`: event log and store (`store.rs`) | log entries with sequence and revision; the live graph | `append`, `propose_patch`, `graph_at_revision`, `replay`, `rebuild` |
| graph and projection (`graph.rs`, `projection.rs`) | subjects (authority, properties, deprecation, cursor), relations, revision | `apply_event` for 22 event kinds, `apply_operations` |
| patches (`patch.rs`) | none | `validate_patch`: base revision, endpoints, SDDK governance |
| reactive behaviors (`behavior.rs`) | none | `append_and_react` with four built-in behaviors |
| conversation engine (`agent-runtime/conversation.rs`) | none: everything is in the store | `start_thread`, `send_user_message*`, `fork_thread` |
| frames and agent runs (`frames.rs`) | none: properties of the frame subject | `start_frame`, `run_frame_turn`, `close_frame`, `start_agent_frame`, `finish_agent_run` |
| visual intents (`intents.rs`) | none: properties of the intent subject | draft, promote, discard |
| tools, grants, MCP (`tools.rs`, `mcp.rs`) | grants and denials; live connections | grant, revoke, `invoke`; register, disable, refresh, reconnect, `call` |
| providers (`provider.rs`) | none | `complete`, `stream_complete` |
| SDDK bridge (`sddk-bridge`) | SDDK's ledger on disk | `submit_evidence_proposal`, `sync_workflow`, `evaluate_pull_up` |
| read models (`context.rs`, `diff.rs`, `why.rs`, `algorithms.rs`, `decisions.rs`, `c4.rs`) | none | pure functions of a graph |
| canvas (`excalidraw.rs`, server) | none: primitives and bindings are subjects | draw, import and export scenes |
| LikeC4 (`likec4.rs`) | none | export; import as a series of appends |
| HTTP server (`vistalith-server`) | `Arc<RwLock<GraphStore>>`, grants, MCP manager | about 50 handlers |
| web, desktop, TypeScript client | UI selection | HTTP calls |

How they interact: a handler takes the store's read or write lock and calls the
components as functions.  The write lock is held for the whole of a turn, across
the awaits on the provider and on tools.  Nothing is shared otherwise, except
the grants and the MCP connections, which have mutexes of their own, and the
channels of a streamed turn between the provider's task, the turn's, the
forwarder's and the client.  The log
lives in memory; only SDDK's ledger is on disk.

What is hard here:

- *partial failure*: `apply_event` changes the live graph step by step and
  returns at the first error, and nothing undoes the steps before it; imports
  and promotions are several appends;
- *stale state*: clients propose patches and promote drafts on a revision they
  read some time ago; a turn calls tools by a catalog built before it began;
- *sequences*: turns that fail at any await and are tried again under the same
  number, forks of forks of such threads, frames whose thread is also written to
  directly, scenes exported, edited and imported again;
- *feedback*: behaviors append to the log and change the graph they react to;
- *two ledgers*: SDDK's receipts are on disk, the events about them in memory;
- *retries*: a tool call whose transport closed is repeated, a sync runs again;
- *waiting*: a provider, a tool or a slow reader of a stream is awaited with
  the write lock held.

`PROJECT.json` lists every hazard at its line, with the properties that cover
it or the reason why none does.

What makes each component correct:

- store: the log explains the graph; a revision identifies a state; no event
  twice; time travel gives back what was there;
- projection: no dangling relation; which kinds of events may fail midway;
- patches: SDDK-owned subjects keep what they state;
- behaviors: exactly the advisories that the trigger justifies, once each, and
  nothing but advisories; the dispatch ends;
- conversation: turns numbered without gap or repetition, each with a question
  and one answer; the prompt is the last thing the provider sees;
- streams: the client gets the deltas in order and then the result; every
  stream ends and gives the lock back;
- frames: budgets are kept, the accounting is backed by the log, the first
  close wins;
- intents: what is applied is what was previewed, and once;
- bridge: the two ledgers tell the same story, also after restarts;
- tools: never more calls than granted but for the retry; nothing runs without
  a grant unless its server said that what is called only reads;
- read models: each is what it is said to compute, and they agree;
- canvas: importing again what was imported changes nothing, and content is
  never bound to another subject than the one it was bound to.

## Modules

    SemanticGraph <-- EventProjection <-- AtomicStore   (refined by GraphStore)
          ^                 ^       ^
          |                 |       +---- StoreOperations <-- Governance --> PullUp
      GraphStore <------- Replay <-- Reactive

    Conversation <-- Frames        Streaming --> AnswerStream (refined by it)
    Tools        ReadModels        Canvas

| Module | Models |
|---|---|
| `SemanticGraph` | The data: subjects, relations, event kinds; `Steps(e)`, the primitive graph mutations the projection of an event runs, each with the checks made before it; `GovernedBySddk`, `Valid`, `Rejection` for patches. No variables. |
| `GraphStore` | The store as a state machine. `AppendEvent`/`ProposePatch` begin an append, each `Project` is one primitive step on the live graph, `Commit` writes the log entry, `Abort` leaves by `?`. Clients read the graph (`ReadGraph`) and patch on what they read. |
| `EventProjection` | `apply_event` as one function over the same steps, and `replay` of a whole log with it. |
| `AtomicStore` | The abstract specification: log and graph change together, at once. |
| `Replay` | `rebuild` and `graph_at_revision` over the replays of the log and its prefixes, compared with the live graph; the refinement. |
| `StoreOperations` | The store as a value that a handler without awaits threads its appends and patches through; a failing append stops the handler and leaves what it did to the graph. |
| `Reactive` | `append_and_react`: a posted event, then the behaviors one by one on the live graph, then their advisories one by one through the store's own append. |
| `Conversation` | Threads, turns and forks. The durable items in log order; a turn is the actions between its awaits (`BeginTurn`, `AnswerCalls`, `RunTool`, `RecordCall`, `AnswerText`), and may end at each (`ProviderFails`, `Disconnect`). |
| `Frames` | Extends `Conversation`: a frame's turn is an ordinary turn with guards before (`MayRun`, `RefuseExhausted`) and accounting after (`Account`). Direct messages to the frame's thread stay possible, as they are in the server. |
| `Streaming` | A streamed turn as the parties that carry it: the provider's task, the turn's, the forwarder's and the client, with three bounded channels per request, and the queue for the write lock. |
| `AnswerStream` | The abstract specification of what a streaming client gets. |
| `Tools` | MCP connections, sessions and listings, the manager's maps, grants and denials, and the calls of the turn under way. A management request is as many actions as it takes locks. |
| `Governance` | Intents (draft, promote, discard), proposals and pull-ups to SDDK, `sync_workflow`, next to SDDK's ledger and receipts, other clients' events, and restarts that lose log and graph. |
| `PullUp` | `classify` and `validate_for` as operators. |
| `ReadModels` | `why_path`, `impact_analysis`, `shortest_path`, the decisions lens's evidence, `diff_graphs` and `build_context_view`, with the queues and orders of the code, over graphs that grow and change. |
| `Canvas` | Primitives, `import_excalidraw` with its three ways to bind, imports that stop midway, export. |
| `*Proofs` | Theorems and their proofs: eight modules, see below. |
| `MC*` | Instances for TLC. |

How the state corresponds.  `log` is `EventLog.entries`; `graph` is
`GraphStore.graph`, with a node's `touched` for `last_event_sequence`; `pending`
is the stack frame of the append in progress; `seen` is what a client got from
`GET /graph`.  In `Conversation`, `items` are the message, tool-call and turn
events of all threads in log order and `turns` is the thread's `turns` property;
in `Frames`, `frames` are the frame subjects' properties and `charges` the
`frame-turn-completed` events.  In `Streaming`, `stage` is where
`send_user_message_streaming_opts` of each request stands and `events`, `deltas`
and `frames` are the three `mpsc` channels.  In `Tools`, a connection's `known`
is the listing its descriptors are from, `session` counts its reconnections, and
`opened` is the listing its present session was opened with; `handlers` is a bag,
as two requests may have looked up just the same.  In `Governance`,
`drafts` and `proposals` are properties that one event writes once, `synced` is
how much of SDDK's ledger the last sync of this life saw.  In `Canvas`,
`bindings` are the `sketch-element` subjects in the order of their ids.

History variables, which no action reads except to extend them (or to bound the
instance): `torn` (`GraphStore`, `Conversation`), `skewed` (`Conversation`: the
forks whose source had torn), `raised`, `runs` in `Frames`,
`said` and `seen` in `Streaming`, `given`, `runs` and `free` in `Tools`, and a
connection's `overlapped` (an earlier session answered the last refresh).

The type invariants are stated in every module with state.  `TypeOK` of the store
is checked and proved; those of `Conversation`, `Frames`, `Governance`, `Canvas` and
`ReadModels` are proved (the first as part of `ConversationInv`, the last stated
with its proof); the others were checked while their module was written and
document the state.

Abstractions.  Identity strings, JSON, provenance and timestamps are left out.
A property has one name and a few values.  Generated ids (uuid v7) never collide
and are ordered by time.  A message has no content; what it mentions is a
position.  `Conversation`, `Frames`, `Streaming` and `Canvas` work on items,
deltas and bindings, not on the graph of `SemanticGraph`: their appends are on
subjects that were just created or looked up under the same lock, and fail in
two ways only, which are kept: a completion with a model name that is no subject
id (`"unnamed"`; in `Streaming`, an answer whose turn ends as an error), and a
frame with a subject listed twice (`StartFrameTorn`).
That these are the ways an append of that kind can tear is what the run
`store_kinds` checks.  In `Tools` one turn calls tools at a time, because it
holds the store's write lock; everything else runs next to it.

## Runs

| Run | Checks | Bounds |
|---|---|---|
| `store_world` | `TypeOK`, `RevisionIdentifiesGraph`, `TimeTravelIsExact`, `TimeTravelLands`, `PatchRespectsSddk`, `AtomicUntilTorn` | 4 subjects, 8 events, 7 patches, one client, log of 4; 100 thousand states |
| `store_kinds` | `EndpointsExist`, `OnlyTheseTear`, `GraphIsProjectionOfLog` | every other event kind, well-formed or not, log of 4; 3.2 million states |
| `reactive` | `AdvisoriesMatchTriggers`, `BehaviorsOnlyAdvise`, `EveryTriggerAnswered` | 3 subjects, 4 advisory ids, 5 posts; 20 thousand states |
| `conversation` | `TurnsAnswered`, `PromptIsLast`, `HistoryInOrder`, `TurnsConsecutive` | 3 threads, one tool call per answer, mentions of the first item, no turn begins after 7 items; 2.1 million states |
| `frames` | `BudgetsHold`, `UsageBacked`, `FirstCloseWins` | 1 frame with up to 2 turns and 2 tokens or none, 2 threads, 6 items; 410 thousand states |
| `streaming` | `DeliversAnswerStream`, `StreamsConclude`, `SlowClientsBuffered` | 2 requests with up to 2 and 1 deltas per completion, channels of 1, one tool round; 239 thousand states |
| `tools` | `RunsBounded`, `NoneSneaksIn`, `ListingFollowsSession` | one server, 2 tools with one id, 3 listings, 2 connections of which one loses its transport and gets a second session, 2 management requests under way, 1 granted call; 2.9 million states |
| `governance` | `AppliedAsPreviewed`, `ResolvedOnce`, `ReceiptsRecorded`, `PullUpsEarned`, `SyncIdempotent`, `SyncReflectsLedger` | 2 intents, 2 proposals, 1 cycle, 2 ledger entries, 2 receipts, 2 lives, no handler starts on a log of 5; 916 thousand states |
| `read_models` | `WhyIsComplete`, `ImpactIsExplicit`, `PathIsShortest`, `ContextIsExplained`, `DiffIsExact` | 4 subjects and every subset of 10 relations between them, one of them defined late, one edited; 6336 states |
| `canvas` | `RetryCompletes`, `StrippedResolves`, `ReimportIsNoop`, `BindingsUnique` | 4 notes, 2 scenes, texts that differ in case only, 5 files, one of which names a subject that is not there; people leave two notes to imports, and no import starts with 2 bindings; 40 thousand states |

and two that find a counterexample to something a comment or the README states
(`PROJECT.json`, "findings"):

| Run | Statement the code does not keep | What happens |
|---|---|---|
| `half_mutated` | "The store is never left half-mutated" | the second step of a projection fails; the graph keeps the first |
| `prompt_overtaken` | "Includes the just-appended user prompt as the final message" | a fork copies the messages of torn turns without counting them; the next prompt gets a number that is taken, and the messages of later turns sort behind it |

What the runs show, beyond that the properties hold:

- The revision is a sound optimistic lock only until an append tears; after
  that, clients can hold a graph no log explains.  `OnlyTheseTear` lists the
  kinds of events that can do it.
- A streamed turn needs no client to finish as long as its answer fits in the
  channels and the forwarder's hand (16 + 32 + 1 deltas): `SlowClientsBuffered`
  states this for any capacity.  Beyond it, one client that neither reads nor
  leaves keeps the write lock.
- A grant is for one call, and a call may run its tool twice (`RunsBounded` has
  the factor 2, and 1 would be violated by the retry after a reconnect).
- `ResolvedOnce` has to allow "discarded" after every outcome, because
  `discard_intent` looks at no status.  It also excepts a step in which a client's
  event, or a change promoted with it, writes the intent's status (`POST /events`
  takes any), and `SyncReflectsLedger` a cursor that an append that tore has
  written.  For all constants both exceptions are needed; in the instance neither
  occurs, so what TLC checks there is the statement without them.
- `ReceiptsRecorded` has to except an intent that was never drafted: its
  receipt is issued before the event is refused.
- The why path without a bound is exactly the impact set, and the evidence that
  it shows directly is in the decisions lens; the converse of the second does
  not hold (Divergences).

Why the bounds are enough.  In the store, what can go wrong needs at most: one
event that creates, one that the failing one collides with, the failing one,
and one that builds on what it left: a log of four (an aborted append takes no
room in it).  A client's view matters only against the present graph, so one
client stands for many.  The subjects are two plain ones, one of the `sddk`
namespace and one that events create.  In a conversation the shortest completed
turn is three items, so 7 items hold two completed turns and the start of a
third, and three threads are a fork of a fork.  For frames, 6 items and a turn
begun before the sixth hold two charged turns with a direct turn or a failed one
before or between, which is what exhausts every budget of the instance.
Streams interact through the lock only: two requests have every order at the
lock, and channels of one are full and empty at every point.  In `tools` one
server with two connections is deleted and registered again under a turn that
still has the old one, two requests under way overlap in every way that two can,
two alike included, and the second session is the retry's.  Its listings have the
cases that matter to a call without a grant: a harmless tool, one that hides a
destructive one of the same id, and one of which nothing is said; a turn's
catalog may be behind by any of them.  Ids that tools of two servers share are
not in the instance; the proofs have any number of servers.  In `governance` the log of 5 holds a
draft, somebody's event, the patch and its outcome, and a proposal; two lives
are one restart.  The graphs of `read_models` include chains, cycles, a
self-loop, two ways to a subject and two relations between the same two.  In
`canvas` two scenes keep bindings apart, and one binding before an import of two
shapes gives every collision between what is bound and what comes.  An import is
evaluated wherever enough ids are left to give each shape a note (`Enough`): files
and exports of two shapes with up to two notes there, so both shapes may carry
identities, of subjects with texts that fold to the same, and either or both may
lose them.  That is why people leave two of the four ids to imports (`Spare`).
Exports of three shapes would need more notes; the proofs have any number.

Symmetry is used for threads (`conversation`, `frames`) and scenes (`canvas`):
only safety properties are checked there.

Fairness.  `ReactiveSpec` assumes weak fairness of the steps of the dispatch:
the handler holds the lock, none of its steps waits for anything, and the loop
runs to its end.  `StreamSpec` assumes weak fairness of the server's own tasks,
the turn's and the forwarder's, which Tokio runs whenever they can go on; its
lock is a queue, as Tokio's `RwLock` is.  What the code has no timeout for is
not assumed: that the provider goes on (`ProviderAnswers`), that a tool returns
(`ToolsReturn`) and that a client reads or leaves (`ClientsReadOn`) are premises
of the properties, so a reader sees what each depends on.  Nothing is assumed of
clients otherwise: whether anybody posts an event is open.

Deadlock is checked where an action that changes nothing always remains enabled,
as it does in the program.  `streaming`, `governance`, `read_models` and `canvas`
do not check it: when every stream has ended, or the bound on the log, the
graph or the bindings is reached, nothing is left to do in the instance.

Each property has a mutant, a bug the code could plausibly have (`PROJECT.json`,
"mutants"); the operators are defined in front of what they replace and are used
nowhere else.

## Proofs

TLAPS proves, for any values of the constants that satisfy the assumptions:

| Theorem | States |
|---|---|
| `StoreProofs!TypeCorrect` | `Spec => []TypeOK` |
| `StoreProofs!EndpointsAlwaysExist` | `Spec => []EndpointsExist` |
| `StoreProofs!OnlyFiveKindsTear` | `Spec => []OnlyTheseTear` |
| `StoreProofs!BaseRevisionIdentifiesGraph` | `Spec => []RevisionIdentifiesGraph` |
| `StoreProofs!EventsLoggedOnce` | `Spec => []NoEventTwice` |
| `StoreProofs!EveryRevisionAccountedFor` | `Spec => []RevisionsAccountedFor` |
| `StoreProofs!PatchesRespectSddk` | `Spec => PatchRespectsSddk` |
| `StoreProofs!GraphIsLogProjection` | `Spec => []GraphIsProjectionOfLog` |
| `StoreProofs!TimeTravelReturns` | `Spec => []TimeTravelIsExact` |
| `StoreProofs!EveryRevisionReachable` | `Spec => []TimeTravelLands` |
| `StoreProofs!StoreIsAtomic` | `Spec => AtomicUntilTorn` |
| `StoreProofs!AdvisoriesExact` | `ReactiveSpec => []AdvisoriesMatchTriggers` |
| `StoreProofs!OnlyAdvise` | `ReactiveSpec => BehaviorsOnlyAdvise` |
| `FramesProofs!AnswersAlwaysBounded` | `ConversationSpec => []AnswersBounded` |
| `FramesProofs!TurnsAlwaysConsecutive` | `ConversationSpec => []TurnsConsecutive` |
| `FramesProofs!TurnsAlwaysAnswered` | `ConversationSpec => []TurnsAnswered` |
| `FramesProofs!PromptAlwaysEndsHistory` | `ConversationSpec => []PromptIsLast` |
| `FramesProofs!HistoryAlwaysInOrder` | `ConversationSpec => []HistoryInOrder` |
| `FramesProofs!FirstCloseAlwaysWins` | `FramesSpec => FirstCloseWins` |
| `FramesProofs!BudgetsAlwaysHold` | `FramesSpec => []BudgetsHold` |
| `FramesProofs!UsageAlwaysBacked` | `FramesSpec => []UsageBacked` |
| `FramesProofs!FramesKeepThreadsSound` | the four properties of `Conversation`, under `FramesSpec` |
| `FramesProofs!FramesTypeCorrect` | `FramesSpec => []FramesTypeOK` |
| `ToolsProofs!RunsAlwaysBounded` | `ToolsSpec => []RunsBounded` |
| `ToolsProofs!ListingsFollowSessions` | `ToolsSpec => []ListingFollowsSession` |
| `ToolsProofs!NoToolSneaksIn` | `ToolsSpec => []NoneSneaksIn` |
| `GovernanceProofs!GovTypeCorrect` | `GovSpec => []GovTypeOK` |
| `GovernanceProofs!PullUpsAlwaysEarned` | `GovSpec => []PullUpsEarned` |
| `GovernanceProofs!ReceiptsAlwaysRecorded` | `GovSpec => []ReceiptsRecorded` |
| `GovernanceProofs!PromotionsAsPreviewed` | `GovSpec => []AppliedAsPreviewed` |
| `GovernanceProofs!SyncAlwaysIdempotent` | `GovSpec => []SyncIdempotent` |
| `GovernanceProofs!SyncAlwaysReflects` | `GovSpec => []SyncReflectsLedger` |
| `GovernanceProofs!IntentsResolveOnce` | `GovSpec => ResolvedOnce` |
| `StreamingProofs!AnswersDeliveredInOrder` | `StreamSpec => DeliversAnswerStream` |
| `CanvasProofs!CanvasIsTyped` | `CanvasSpec => []CanvasTypeOK` |
| `CanvasProofs!BindingsAreUnique` | `CanvasSpec => []BindingsUnique` |
| `CanvasProofs!ReimportsAreNoops` | `CanvasSpec => []ReimportIsNoop` |
| `CanvasProofs!StrippedShapesResolve` | `CanvasSpec => []StrippedResolves` |
| `CanvasProofs!RetriesComplete` | `CanvasSpec => []RetryCompletes` |
| `ReadModelsProofs!ReadModelsTypesHold` | `ReadModelsSpec => []ReadModelsTypes` |
| `ReadModelsProofs!WhyPathExplains` | `ReadModelsSpec => []WhyIsComplete` |
| `ReadModelsProofs!ImpactHidesNothing` | `ReadModelsSpec => []ImpactIsExplicit` |
| `ReadModelsProofs!NoPathIsShorter` | `ReadModelsSpec => []PathIsShortest` |
| `ReadModelsProofs!DiffsAreExact` | `ReadModelsSpec => DiffIsExact` |
| `ReadModelsProofs!ContextExplains` | `ReadModelsSpec => []ContextIsExplained` |

`StoreProofs`, which has the behaviors that run over the store as well, and
`GovernanceProofs` rest on the lemmas of `SemanticGraphProofs`; the theorems
about frames on the lemmas about the conversation in front of them, in the same
module.

Assumptions.  Each is named, in the module that declares the constants, and
evaluated by TLC in the runs.  `ConstantsAssumption`: the SDDK subjects are
subjects, the "absent" values are no members, events and patches are well-formed
as their Rust types make them, and what clients send has an id.  `StoreAssumption`
and `ReactiveAssumption`: bounds and namespaces.  `ConversationAssumption`,
`FramesAssumption` and `StreamingAssumption`: bounds, and that the mark of a frame
without a thread is no thread.  `ToolsAssumption`: servers are ordered (they are
iterated as a `BTreeMap`), names and ids are what the two maps go between, and
listings are lists, and the name read back from an id has that id again, as what is
sanitized stays as it is.  In `Governance`, `NamespacesAssumption` keeps intents,
proposals, cycles and the project apart as their namespaces do,
`GovernanceAssumption` types the gestures and property values, and
`SyncAssumption` says that the ids `sync_workflow` derives by a digest are those
of no client's event.  `CanvasAssumption` types the notes, texts and files, and keeps
what a file may name that is no subject (`Strangers`) apart from the notes.
`ReadModelsAssumption`: subjects, kinds and
relations are listed once, as the keys of a map are; the supporters of a subject
are listed by kind and then by identity, as `why.rs` sorts them; sizes are
naturals and requests are typed.

Recursion.  What the code computes by walking the log is defined by recursive
*functions* (`StepRuns`, `Replays`, `Copying`, `Spent`, `SyncRuns`, `ImportRuns`, `Showing`),
and what it computes by walking the graph by functions of the number of steps of
the walk (`WhyRuns`, `ImpactRuns`, `PathRuns`, `ChainRuns`, `ViewRuns`), never by
`RECURSIVE` operators, so that it can be proved about.  That such a function exists, and that it satisfies
its equations, is proved for each (`StepRunsUnfold`, `SyncRunsUnfold`, ...) from
two facts about sets of naturals: every non-empty one has a least element
(`Least`), and one that has 0 and the successor of each member is everything
(`Induction`; `InductionUpTo` and `Recursion` where a walk has a last step).  They
are derived from `WFMin`, in `SemanticGraphProofs`, `FramesProofs`, `CanvasProofs`
and `ReadModelsProofs`, since the library's induction theorem takes an operator
as parameter.

The graph.  `SemanticGraphProofs` establishes, event kind by event kind, what the
steps of a projection are (`StepsGrounded`), that one step leaves a graph a graph,
what a run of steps keeps (`Keeps`: subjects and relations are never lost; `Adds`:
only what the event names appears) and what a run that succeeds has established.

The store.  `TypeOK` is inductive with that.  `EndpointsExist` is not inductive:
some steps declare a relation without looking at its ends.  What makes it true is
the order of the steps: whatever a relation step does not check is created by a
step before it or looked up by one, and subjects are never removed.  The
strengthening says that of the steps that remain to be run in the pending append,
and is preserved because each step makes the subjects of the rest exist.

`OnlyTheseTear` needs `TearInv`: an append of another kind has either not begun to
run, or only steps are left that cannot fail, because the one step that can is
first, and what follows relates a subject that was created a step ago.

`RevisionIdentifiesGraph` needs that a client's graph never has a higher
revision than the store's, and that the graph found by the append in progress
is the one with the store's current revision; a commit either bumps the
revision or (a rejection, which has no steps) changes nothing.
`PatchRespectsSddk` needs the pending steps of a patch to have passed
validation in the state the append began in, and that what validation read
(which subjects are SDDK-owned) is not changed by the steps before.  It is the
theorem that shows that validating the whole patch up front is enough.

Replay.  `ReplayInv` says that the log replays to the settled graph, that each
graph a client has read is what a prefix of the log replays to, and that the
append under way stands somewhere in the run of its event's projection
(`RunSoFar`); without the last, the commit of an append that took many steps
could not be compared with `apply_event` run at once.  `TimeTravelIsExact` then
follows with `EveryRevisionAccountedFor`: the entries behind the one that gave a
revision and at the same revision are rejections, which change nothing.
`StoreIsAtomic` is the refinement: initial states map to initial states, `Commit`
maps to the atomic append (by `ReplayInv`, and `AtomicInv`: what is appended is an
event of a client, or a patch that was valid against the graph it was proposed
on), and every other step to a stutter, until an append tears.

Behaviors.  `AdvisoriesMatchTriggers` compares what was raised with what the graph
right after the trigger justifies, while the behaviors read the live graph.
`ReactiveInv` is the store's invariant with three parts.  `DispatchSound`: what is
under way is an advisory on a subject that exists, so its append cannot fail.
`RaisedOnce`: no output is raised again.  `RaisedExactly`: of the trigger under
way, what was raised, what was returned and what the behaviors still to run will
say is together exactly what is justified.  It holds because the live graph and
the one after the trigger are `Alike`: they differ in advisory subjects and in
what these mention, which no behavior looks at.

Conversations.  `ConversationInv` speaks of the turns that were not completed as
well: a turn's number is the next of its thread, an item of a thread never has a
later number than that, items are in order of their numbers, and the turns up to the thread's count are
completed, with exactly one answer each (`ThreadsOK`); the prompt of the turn under way is in
the log (`TurnOK`); and a message's cursor is its own position unless a later one
mentioned it (`CursorsOK`), which is what bounds how the history can deviate from
the order of the log.  A fork is the hard step: it copies a prefix in one action,
and the proof shows that the copy is such a thread again.  It is not when the
source had torn: that is the finding `prompt_overtaken`, and why the properties
except the forks in `skewed`.

Frames.  `AccountInv` adds to it what a frame's request may assume of the turn it
awaits (`RequestOK`: the thread is the frame's, and turns and tokens were left when
it began), and that a frame's usage is the sum of its charges, each for a later turn
than the one before and completed in the log with that many tokens (`ChargesOK`).
A frame's count never is ahead of its thread's, so the turn under way is later than
all charged ones; direct messages to the thread only make it later still.  `FrameInv` says that a request's frame is
open as long as its turn runs, which is why the accounting at its end touches no
closed frame although others may close frames at any time a turn does not run.

Tools.  `RunsBounded` is not inductive: a call that was paid for has left the
grants and has not run yet.  `RunsInv` balances the account: runs, twice the
calls left, and how often the call under way may still run (`Left`: once if sent,
once more if the retry is unused) never exceed twice the calls given.  For
`ListingFollowsSession` the invariant speaks of the refreshes under way as well:
one that was answered by the present session carries a listing at least as new
as that session.  `SneakInv` follows a tool from the listing to the catalog
(`CatalogFromListings`: all that some connection once listed, in order) and from
there to the call (`CallFromCatalog`); the catalog is older than the call, so it
has to name the listing it was made from.  What `get` finds is the first tool of the id
in it (`GetIsFirst`), and unless that hides another it is the only one of the
name that is read back (`FirstDecides`).  Requests under way are a bag, of which the
invariants only say what is in it (`RequestBegun`, `RequestDone`).

Governance.  `RecordInv` carries all of `ReceiptsRecorded`, `AppliedAsPreviewed`,
`SyncIdempotent`, `SyncReflectsLedger` and `ResolvedOnce`, because each needs the
others' graph.
- *Receipts.*  SDDK's receipt is on disk before the event about it is appended, so
  that append must not fail.  It cannot: a proposal's id is new, and what an intent
  is about and the intent itself stay in the graph (`DraftsThere`, `AllThere`,
  `Keeps`).  `Recording` says in addition that no proposal holds a receipt that is
  still to come, or the next one could already be claimed.
- *Previews.*  `Counted` ties revisions to positions in the log, and a draft's base
  is the revision of its own entry.  So a base that still is the graph's revision
  has only rejections behind it (`OnlyRefusals`), and a promotion appends exactly
  the change and its outcome: the second append cannot fail behind the first
  (`PreviewedApplied`).  `Harmless` says of every other handler that it appends
  no such event, under which what was foreseen stays so (`PreviewedKept`).
- *Sync.*  `SyncedThere`: since the last sync, each cycle's newest event is in the
  log and its relation to the project in the graph.  That a sync establishes it
  needs that no append in it fails (`SyncSucceeds`, over all orders of the cycles),
  and for a cycle whose event is skipped that its subject is there: `CyclesThere`,
  for which the id of a sync's event must be no other event's (`Owned`).
- *Cursors.*  `Owned` also says which cursor such an event carries, so what is left
  is what a log makes of it.  `EventSays`, for each kind of event: its steps write
  the properties it names of its own subject and no others, and `UnwrittenIsSilent`:
  of a property an event does not write all steps are silent.  Then replaying the
  log from that event on keeps the cursor (`CursorReplayed`, by induction over the
  log), and the live graph has it where the log accounts for the live graph
  (`Accounted`).
- *Statuses.*  Each handler is followed through its appends: an append of its own
  leaves the status of every intent it is not about (`AppendSame`, `SameThrough`), and
  what it makes of the one it is about is an outcome or "discarded" (`*Resolves`, one
  per handler).  `apply` appends two events, and either may write the status:
  the change, if a client put it there, or the outcome, of a draft only.

Every handler is proved to *lead* from one sound store to another (`Leads`), once
for one append (`Appended`) and then by composition (`LeadsThrough`).  The proof
that a step preserves `RecordInv` has one lemma per action (`*Kept`).

Pull-ups.  `ProposalsValidate` compares the two decisions, which are written
independently in the code, for every evaluation; the rest is that a receipt for
a pull-up is only ever appended with an evaluation classified as a proposal.

Streams.  `StreamInv` says where the frames of an answer are: those the client
has read, those in its channel, at most one in the forwarder's hand, and the
deltas in the channel behind, without a gap or an overlap (`Passed`, `Rest`,
`InOrder`), and that the hand holds the result only when the channel behind it is
empty and the turn has ended.  Every step of any party then is a step of the
answer stream of its own request and a stutter for all the others (`MineKept`).
Since nothing but `Typed` is known about the bounds, the theorem covers the
channels of 16, 16 and 32 of the code, where the run has channels of one.

Canvas.  An import is a run over the elements of a file, one subject or binding
at a time, and each of the properties compares two runs.  Two relations carry
them: `Grown` (a run only adds notes and bindings) and `Gets` (where the run looks
an element up, and what it finds or makes).  `BindingsUnique` is inductive with the
type invariant: a run binds an element only when it found nothing bound to it, and
that the new notes do not run out is counted (`Room`, by cardinality).  For
`ReimportIsNoop`: an element that was imported is `Settled`, what comes later in the file keeps
it settled, and a run over settled elements changes nothing, whether they kept
their identities, lost them or were renumbered, which is a congruence of the
lookups (`SameElement`).  For `RetryCompletes`: a run stops at the first broken
element and not before, so the retry finds everything in front of it settled and
goes on from there with the state the whole run would have.  `StrippedResolves`
follows from what the lookup by content answers on a scene with unique bindings
(`Answer`, `ResolvesAs`).

Read models.  The graph's part is small: `ReadModelsTypes`, that what is declared
is between what is defined.  The rest is about the walks, for whatever graph.
- *Levels.*  `Within(s)[n]`, and the same sets forwards (`Ahead`), are levels: each
  has the one before and its neighbours (`IsLevels`).  Until one adds nothing each
  has a member more, so from the number of subjects on they stay the same
  (`LevelsClose`), which is why the code's walks need no other bound.
- *Queues.*  `why_path` and `shortest_path` keep a queue whose depths never
  decrease (`Walked`) and whose entries, but the root, each come from an entry one
  less deep (`IsQueue`), and which is spread as far as it was taken (`Spread`).  Such a
  queue has at each depth what the level has and those before have not
  (`QueueLevels`); this is `WhyIsComplete`, and with parents the chain from the
  goal back has one subject per level (`ChainStep`, `PathDistance`), so no path
  is shorter.  That no subject is in it twice bounds the steps (`QueueIsShort`).
- *Impact.*  The walk with a stack has no levels.  What was found and what waits is
  always closed under one more step and inside the largest level (`Reaches`), and
  each relation is pushed at most once (`Spent`), so the stack is empty at the end.
- *The context view* puts a subject in the queue once for each relation to it and
  sees only then whether it was there before.  `ViewHas` says of the queue that
  depths do not decrease and each entry is a root or what an item one less deep
  leads to (`ViewQueue`), of the items that each is the first entry of its subject
  and has sent on all it leads to (`ViewItems`), of the exclusions that what was
  taken is an item or is excluded, and what is too deep is (`ViewExcluded`), and of
  the budget that what did not fit then does not fit later, as tokens only grow
  (`ViewBudget`, `ViewSum`).  `ViewShort` counts the relations that leave what was
  taken, so roots and relations together bound the steps.  At the end of the queue that is `ContextIsExplained` (`Layered`).
- *The diff* is about single steps: what changed is exactly what `Changes` lists.

Only model-checked: liveness, that is `EveryTriggerAnswered`, `StreamsConclude` and
`SlowClientsBuffered`, as fairness and ENABLED are beyond the prover.  Every
invariant and every action property that a run checks is stated by a theorem.

## Divergences

Where code and documentation differ, or the code does what its reader may not
expect.  The first two are shown by runs, the others were met while reading (or
while proving) and are in the models as the code has them.

- `store.rs:95`: a failing projection leaves the live graph changed
  (`half_mutated`).
- `conversation.rs:564`: the fork of a thread with torn completions hands out turn
  numbers that are taken (`prompt_overtaken`).  The proof of `PromptIsLast` found
  it: the invariant was not preserved by a fork of such a thread.
- `conversation.rs:210`: a closed frame's thread still takes turns, from messages
  sent to the thread itself (`Frames` has them as actions).
- `conversation.rs:807`: history is ordered by a cursor that a mention moves, so
  a mentioned message is sent to the provider behind its own answer
  (`HistoryInOrder` therefore excepts mentioned messages, within their turn).
- `conversation.rs:486`: a fork compares tool calls with the last message it
  copied, so calls of later turns are copied as well.
- `conversation.rs:641`: a tool that runs while its client disconnects is in no
  event, though `tools.rs:294` has the caller record it "either way".
- `server/lib.rs:1154`: an agent run "closes the frame" only if a budget does.
- `provider.rs:529`: a streamed completion with neither text nor calls is an
  answer, where `complete` refuses it as empty; `provider.rs:659` names every
  streamed model "streamed".
- `mcp.rs:318`: "Calls a remote tool by its *original* name" means the name that
  `remote_name_of` reads back from the catalog id, which is the sanitized one.
- `mcp.rs:540`: two tool names of a server that differ in characters a provider
  does not accept get one catalog id, although `mcp.rs:545` calls the suffix of an
  id unambiguous.  The first entry then decides whether a grant is needed, while
  the name read back decides what runs: if "edit.file" is listed first and only
  reads, a destructive "edit_file" behind it runs without a grant, although by
  `mcp.rs:511` a tool "can never sneak in as read-only".  The run `tools` has this
  listing.  `NoneSneaksIn` says what is left of the sentence: the first tool of
  the id was listed as read-only, and so was the tool that ran if it is not
  hidden like that.
- `mcp.rs:457`, `server/lib.rs:804`: a disabled mark or a grant can outlive its
  server and meets the next one of that name.
- `intents.rs:124`: promoting an intent that was submitted to SDDK is refused as
  "already discarded"; `intents.rs:285`: one that was applied can be discarded.
- `context.rs:248`: a subject found too deep on one way stays in the exclusions
  when another way includes it.  `context.rs:130` indexes the log by a subject's
  cursor, which is past its end for what a torn append left behind.
- `context.rs:210`: a root that exceeds the budget may be listed already, as too
  deep from another root (`context.rs:248`), and a subject is listed once
  (`context.rs:149`).  The view is then marked truncated with no exclusion that
  says "token-budget-exhausted".  The proof of `ContextIsExplained` found it, which
  stated the two to be equivalent before.
- `why.rs:76`: a supporter with two relations is shown with the kind that sorts
  first, so evidence the decisions lens lists may be missing from `evidence`.
- `excalidraw.rs:388`: exports show every primitive as a text shape; importing
  an export again binds those that were bound as another shape, were reworded,
  or were in no scene.  Re-import is a no-op for what was imported before, which
  is what `ReimportIsNoop` states.

## Not modelled

- events of frames and conversations that a client sends to `POST /events` itself:
  they go past `require_open` and the accounting, so `BudgetsHold`, `UsageBacked`
  and `FirstCloseWins` are about the handlers only (what such events do to the
  graph is in `GraphStore`);
- the SHA-256 digest, JSON and fixture forms of the log;
- LikeC4 (`likec4.rs`): a lexer, a recursive-descent parser and a printer; what
  an import appends is of kinds `SemanticGraph` has, one after the other;
- the C4 view (`c4.rs`), which selects and renders, and cycles and the
  topological order (`algorithms.rs`), which are single calls of a library;
- HTTP request parsing, the translation to and from vendors' forms (`provider.rs`),
  authentication and transports of MCP;
- the SurrealDB spike, which nothing uses;
- the web and desktop applications and the TypeScript client, which keep no
  state of the system: a client is modelled by what it may send.

## Plan

Modelled, checked and proved as described above.  What would come next: the
composition of `Tools` with `Conversation`, whose turn is abstract in the first
and whose tools are abstract in the second; the C4 view as a selection over the
graphs of `ReadModels`.
