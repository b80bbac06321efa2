# behest: a TLA+ verification project

behest is an agent runtime: it takes a user's message for a session, calls a
language model, executes the tools the model asks for, appends everything to
the session's history and repeats until the model has finished. This directory
models the parts of it whose correctness depends on the order of events, checks
them with TLC on small instances and proves the most important properties with
TLAPS for every value of the constants.

- `PROJECT.json` lists components, runs, mutants, findings, hazards and theorems,
  and maps every definition to the lines of code it stands for.
- `tlc -config <cfg> <module>` runs a model; `tlapm <module>.tla` checks the
  proofs of the eight modules that hold theorems (section 5).

## 1. The system

| Part (crate) | State | Operations | Talks to |
|---|---|---|---|
| `AgentRuntime` and its turn loop (`behest-runtime`: agent, run_loop, turn, run) | locals of one future: block, iteration, usage, finish reason, answer, recovery count, breaker | `run`, `resume`, six blocks per turn | everything below, by awaited calls |
| `SnapshotStore` (snapshot) | one snapshot per run | save, load, delete | written by the loop, read by `resume` |
| `SessionGate` (session_gate) | map session -> mutex behind a `RwLock` | `acquire`, drop of the guard | `run`, `resume` |
| `InputAdmission` (input) | set of fingerprints behind a mutex | `admit` | `run` |
| `ScopedToolRegistry` (tool_scope) | base tools, stack of scopes behind a mutex | push, pop by guard, register, get, specs | one registry shared by all runs and the application |
| `ComponentRegistry`, `ManagedRuntime` (registry, managed) | factories, descriptors, instances, states, cached order, a lock each | register, unregister, init, start, stop, replace | components, the shutdown token |
| `ShutdownToken` (lifecycle) | flag, waiters, parent | signal, wait, child | `ManagedRuntime::serve`, components |
| `ExtensionPoint` (extension) | map name -> `Arc` behind a `RwLock` | register, replace, get, unregister | hosts |
| Event pipeline (subscription, event_store, stream_adapter) | broadcast channel, numbered events, rooms | emit, bridge, subscribe = replay + live | the loop emits, applications read |
| Invocation (invocation) | listeners, cancel flag, map run -> session | emit, `on`, cancel | event broadcast |
| `MemoryRunStore` (memory, state) | runs, events, projections, a lock each | create, update, append, delete | the loop |
| Session stores (`behest-store`: memory, sql, redis, mongodb) | sessions, messages, executions, embeddings | create, append, usage, delete, list | the loop, applications |
| Session data stores (session_data_store) | keys of a session | set, get, clear | listeners, applications |
| Tool batch (tool_runtime) | permits, results | `execute_batch`: a concurrent and an exclusive group | tools, execution store |
| Limited tool runtime (`behest-tool`) | sum of the outputs of a batch | `execute_batch` under filter, limits and hooks | hosts |
| `ApprovalGate` (`behest-approval`) | pending requests, decisions | request, decide, expire | tools, users |
| Provider streams (`behest-adapter-openai`, `-anthropic`, accumulator) | bytes, partial calls, message | chunks to events to a message, fallback to complete | the loop |
| `ModelRouter` (router) | none between calls | retries, then the next provider | hosts |
| Compaction, context (compaction, context) | the session's history | select, summarise, filter, trim | the loop |
| Doom loop detector (doom_loop) | window of recent calls | record and check | the loop |
| Core algorithms (`behest-core`: budget, journal, recovery, sub_engine; `behest-memory`: compaction) | values, two counters | thresholds, replay, snip, create a child, shorten a list | hosts |
| Queues, configuration, skills, facts | external services, text | I/O, parsing | construction |

What is hard about it: a run's future may be dropped at any await and its
process may die; `resume` then starts the loop in the middle, from a snapshot
that may be stale. Runs, applications and reloads share registries and stores
behind many small locks that are released between the steps of one operation;
Redis and MongoDB operations are several calls. Every store, provider and tool
call may fail or time out. Channels drop their oldest events when a reader is
slow. Loops restart with `continue`, so that their end depends on counters. The
`hazards` of `PROJECT.json` name each such place with its line and the property
that covers it.

What makes the parts correct, in a sentence each: a resumed run continues where
the interrupted one stood, within the same limits, and ends; a session has one
run at a time, a busy session is answered without waiting, a scope lives as long
as its owner;
components start after their dependencies and stop before them, and no started
instance is forgotten; each subscriber sees a run's events once, in order, to
the terminal one, or is told that it lost some; a listener's cancellation stops
its dispatch; a store behaves as if its operations were atomic; a batch answers
every call once, in the order of the calls; what a provider streamed is what is
stored; what leaves the context is in a summary.

## 2. Modules

| Module | Models | Composed in |
|---|---|---|
| `AgentRun` | one run: `run`, the turn loop, `resume`, with history, status, snapshot and events | `MCAgentRun` |
| `SessionLock` | abstract: at most one holder per session | refined by `RunAdmission` |
| `RunAdmission` | many callers of `run`/`resume` at the gate, admission, tool scopes, with an application | `MCRunAdmission` |
| `ComponentRegistry` | the registry's operations and the hot reload | `MCComponentRegistry` |
| `RuntimeEvents` | what a runtime emits: the broadcast channel and the external queue | `MCRuntimeEvents` |
| `EventPipeline` | bridge, event stores, rooms, subscribers | `MCRuntimeEvents`, on `RuntimeEvents` |
| `Invocation` | listeners, their filters and handlers, cancellation | `MCRuntimeEvents`, on `RuntimeEvents` |
| `SessionStoreSpec` | abstract: a session store whose operations are atomic | refined by `SessionStores` |
| `SessionStores` | the four backends, call by call | `MCStores` |
| `MemoryRunStore` | three maps under three locks | `MCStores` |
| `KeyValueSpec` | abstract: keys of sessions | refined by `SessionData` |
| `SessionData` | data in memory, in a file, in Redis | `MCStores` |
| `SessionHistory` | a session's history: overflow, selection, summary, filter, trimming | `MCStores`, `MCHistory` |
| `Journal` | journal, checkpoints, snip, export, restart | `MCStores` |
| `ToolBatch` | batches of tool calls that share a semaphore | `MCCalls` |
| `ToolLimits` | a batch under a host's filter, limits and hooks | `MCCalls` |
| `ApprovalGate` | requests, decisions, expiry | `MCCalls` |
| `ProviderStream` | from bytes in chunks to the stored message | `MCCalls` |
| `DoomLoop` | the detector over batches and resumptions | `MCCalls` |
| `SubEngines` | sub-agents created by several threads | `MCCalls` |
| `ShutdownToken` | `wait` and `signal_shutdown` step by step | `MCCalls` |
| `ModelRouter` | retries and fallback along a chain | `MCCalls` |
| `ExtensionPoint` | the map of extensions and its two-step `unregister` | `MCCalls` |
| `TokenBudget`, `MessageCompaction` | pure functions | none |
| `AgentRunProofs`, `RunAdmissionProofs`, `ComponentRegistryProofs` | theorems about the module they are named for | |
| `EventProofs` | theorems about `EventPipeline`, `Invocation` | |
| `StoreProofs` | theorems about `SessionStores`, `MemoryRunStore`, `SessionData` | |
| `ToolProofs` | theorems about `ToolBatch`, `DoomLoop`, `ApprovalGate`, `ToolLimits` | |
| `EngineProofs` | theorems about `ModelRouter`, `ProviderStream`, `SubEngines`, `ExtensionPoint` | |
| `HistoryProofs` | theorems about `Journal`, `SessionHistory`, `MessageCompaction`, `TokenBudget` | |

`MCCalls` and `MCStores` put components that share nothing into one instance: a
variable `part` says which one a behaviour exercises, the others stay in their
first state. `MCRuntimeEvents` does the same by its `wiring`, over one shared
`RuntimeEvents`: a bridge with readers, or listeners with a queue.

### AgentRun

One future and what outlives it. `pc` is the place in the code where the future
awaits; the six places named like `TurnState` variants are the heads of the six
`if matches!(resume_from, ..)` blocks of `run_loop_inner`. A block is entered
when `resumeFrom` is in `EntersFrom(pc)` and otherwise skipped by `SkipBlock`,
exactly as the code falls through, because `resume` is nothing but the same
chain with another `resume_from`. Every action is the code from one await to
the next with its status update, snapshot, event and message. Provider, tools
and context adapters are external and may answer anything of `Answers` or fail;
`StoreFails` fails any store call. Where the code saves the snapshot and then
updates the status, these are two steps (`SaveSnapshot`, `UpdateStatus`), and a
drop or an error may fall between them. `Drop` is a dropped future or a crash: the
locals go, history, status, snapshot and events stay. `ResumeLoad` and
`ResumeStart` are two steps, for `resume` loads its snapshot before it acquires
the session's gate. History messages carry a role, an id and a call number, not
their text; events are kept where they tell the outcome or the messages of a run.

### RunAdmission

Callers call `run` or `resume` on any session with any input, any number of
times. `LookUp`, `InsertMutex` and `TryLock` are `SessionGate::acquire`: a look
under the read lock, `or_insert_with` under the write lock, then `try_lock`.
`Admit` is validation and the fingerprint set. `PushScope` and `CreateRun`
precede the stage `running`, whose inside is `AgentRun`. `Drop` cancels the
future at an await. The guards are dropped one by one in the reverse order of
their declaration (`DropScope`, `DropSession`). `mingled` records the scopes that were
ever on the stack together with a live one of another session or of an
application, for `NoLeakedScopes`. `AppPush`, `AppRegister`,
`AppDrop` and `AppUnregister` are an application that shares the registry.
`SessionLock` says what the gate promises; `Holders` is the refinement mapping:
the callers whose guard holds a mutex, by session.

### ComponentRegistry

The five maps, and per task the operation, its step, the components left to visit
(`todo`) and the instance it fetched (`held`). Each lock section is a step, each
awaited `build`, `start`, `stop` or hook has an outcome of its own. The order of
`recompute_topo` is any order that follows the dependencies: the code sorts only
the initial queue, the rest follows the iteration of a `HashMap`. Instances are
numbers; `serving`, `handed` and `rebuilt` record what became of them, for
`NoInstanceLost`. A task is at work on a component (`AtWork`) once `init_all`,
`start_all` or `stop_all` has taken it up, or a reload has fetched its instance,
until it has set the state; `NoClash` says that no two tasks are at work on the
same one, and `ApartSpec` is the specification of tasks that observe it. Only a
reload that has yet to check the state may meet a start (`MayMeet`), for then it
finds the component `Starting` and fails, or `Running`.

### RuntimeEvents, EventPipeline, Invocation

`emitted` is the sequence of all events; a receiver of the broadcast channel is a
position in it, and has lagged when it is more than `Capacity` behind. The bridge
is such a receiver: `EventPipeline` takes it from `recv` through the append to one
of the three stores to the two rooms, with an append that fails, an append that is
stored though its reply is lost (`ReplyLost`: the entry is in the store and is
never published) and an aborted bridge as faults. `emit_cache_metrics` appends on
its own. A reader opens the live stream, replays pages of the store and then
follows the room. `Invocation` is `on()`'s listener loop: `Receive`, the look at
the cancel flag, `LookUpSession`, `SpawnHandler`, and handlers that may cancel.

### SessionStores, MemoryRunStore, SessionData

A client's operation is a list of calls, between which another client may act.
In memory and in SQL it is one step or a transaction; Redis and MongoDB take
several. `CallFails` is an error between two calls, so that a call either did
nothing or took effect before it was reported as failed. `SessionStoreSpec` is
the store that the trait documents: a message belongs to a session, a record to
a message, and both go with the session (`ON DELETE CASCADE`). The mapping takes
a session's messages from the backend's own records, with those a Redis update
has taken out or lost (`InHand`, `Lost`). For SQL it maps all sessions; for the
other backends those whose deletion has not begun (`Promised`), because their
deletions do leave things behind (section 7).
`MemoryRunStore` acquires and awaits each of three locks in
the order of the code. `SessionData` writes a file in two steps, truncating it
first; a restart may fall between them, and the reading, the truncation or the
write may end in an error with the lock released (`FailWrite`: the file is left
torn, though nothing crashed).

### SessionHistory, MessageCompaction, Journal

`SessionHistory` is a list of records with sizes; `Select`, `Filter`, `Trim` and
`Covered` are the four loops that shorten it, as sets of positions. `covers`
records what a summary has seen. `MessageCompaction` is the memory crate's own
compaction for hosts, on sequences of messages. `Journal` is the log with
checkpoints, as a host uses it; `Restart` rebuilds it from the export.

### The calls of a turn

`ToolBatch` gives every call its place: waiting for a permit, running, recorded.
The registry may change between the partition and the execution (`MaxUpsets`).
`ProviderStream` cuts a reply into chunks anywhere (an event is two halves, so
the blank line may be cut off), extracts, parses and accumulates; a broken body
sends the whole call to `complete`. `DoomLoop` compares the detector with a
definition of repetition over the full history. `ShutdownToken` separates the
flag from `Notify`, so that a notification can fall between the two looks of
`wait`. `ExtensionPoint` counts references by slots of the map and holders.
`ApprovalGate` takes `decide` in its two locks: `TakeRequest` removes the request
under the first, `RecordDecision` stores the decision under the second, and
`DropDecide` cancels it while it waits between them, which loses the request.
`Elapse` makes a request overdue, and only `ExpireTimedOut` acts on that.
`SubEngines` loads the two counters and adds to them in four steps; `crowd`
records the most creations that were ever between the first load and the last
addition at once.

## 3. Runs

Passing runs:

| Run | Shows | Bounds |
|---|---|---|
| `run_crash` | recoveries stay bounded, tool results answer the latest message, and a dropped run can be resumed, over two drops and two resumptions at any await, with any answers | 2 iterations, 1 recovery, answers with up to 2 calls |
| `run_stops` | with `resume` racing the live run: the run stops, no block lacks its data, limits hold, all calls are answered, and result, status and terminal event agree | 2 iterations, budget 1, orderly provider, 1 drop, 1 resumption |
| `admission` | one run per session as a refinement of `SessionLock`, every call is answered; no live scope disappears, what stays behind overlapped a foreign scope, specs agree with look-ups | 2 callers, 2 sessions, 1 application, 1 tool, 1 input, 3 calls and pushes |
| `reg_lifecycle` | order of starts and stops, the cached order, no lost instance, drain | 2 components with any dependencies (none, one, a cycle, on themselves), 1 operator, 1 reloader, 3 instances, 7 operations |
| `evt_pipeline` | the store has the events in order, nothing is lost silently, replay and live meet, listeners know the session, a cancelled listener stops, every reader reaches the end | 1 run, 3 events, channels of 1, 1 fault; 1 reader behind each pair of store and adapter, or 2 listeners |
| `calls` | results in call order, exclusive calls alone, batches end; one answer per request, and the newest stands; a streamed answer is whole; loops are stopped; sub-engines are bounded; signals arrive; fallback in order; no entry in use is unregistered | 2 batches of up to 3 calls, 2 permits; 2 call ids of 2 requests each, 2 that decide; 4 replies; 7 recorded calls; 2 threads; a token, its child and grandchild; chains of 3 with 3 attempts; 2 names and 2 instances |
| `stores` | refinement of the two abstract stores, though calls and writes may fail; sessions listed once, only strays deadlock, projections count events; what is dropped is summarised, the context is recent; the journal keeps its log | 2 clients and 2 messages (both symmetric), 1 session, 1 fault; 3 clients of runs; 2 of data, 1 restart; 8 messages of sizes 1 and 3; 5 journal entries |

Runs that show the code doing something else than its text says (each is a
finding of `PROJECT.json` with the quotation):

| Run | The code |
|---|---|
| `doc_resume` | resumed from a `BuildingContext` snapshot, the loop spins for ever without calling the model |
| `evt_doc_paging` | the Redis event store limits a page before it filters, so that a reader may get an empty page with events still to come |
| `doc_fanout` | two threads that create a sub-engine at once exceed its bounds |
| `doc_selection` | a turn taken in part by the selection is neither summarised nor kept |
| `doc_stream` | an Anthropic tool call behind a block of text loses its arguments |

Why the bounds are enough. Iteration limits of 2 let a turn be followed by
another one with data of the first still in the locals; one recovery separates
"before", "at" and "after" its limit; two drops let a resumed run crash again.
Two callers are all it takes for a race at the gate, and three calls let one of
them come back, or the application push beside both; the proofs remove the
bound. Two components have
every shape of dependency a start order can get wrong between two visits;
three instances are one each and one reload or rebuild; seven operations reach
`register, register, init, start, unregister, stop` and one more. A channel of
one event lags at the second; three events are a first, a middle and a last.
Three clients of the run store can hold its three locks in a circle. Eight
messages are compacted twice. Seven recorded calls hold the longest cycle of the
configurations with its repetitions. A second file, runtime or token would be
independent of the first. Bounds appear as guards named `Max...`; at them the
models stop, which is why deadlock is not checked; `OnlyStraysDeadlock` and the
liveness properties are what says that nobody waits in a circle.

Assumptions set by constants. `ResumeRaces = FALSE` keeps `resume` away from a
live run; `run_stops` lifts it. `Races = FALSE` in `ComponentRegistry` keeps a
reload from overlapping another operation than `start_all` and `names`, as the
repository's own callers do. With `TRUE` and two reloads of one component,
`replace_instance`, which fetches, checks and writes in separate lock sections,
loses an instance (section 7); `InstancesAreKept` says that it takes two tasks at
work on the same component. `run_stops` has a
provider that lists calls exactly when it finishes for them; with any other,
`ContextIsComplete` fails, for calls listed by a truncated answer are never
executed.

## 4. Fairness

`AgentRun!FairSpec`: weak fairness of the loop, since the executor polls a live
future, and provider and tools answer or run into `provider_timeout` and
`tool_timeout`. A drop, a resumption and the begin of a run are not fair.
`RunAdmission!FairSpec`: weak fairness of each caller's steps but the end of a
run, so that no answer may depend on another run's end.
`EventPipeline!PipelineFairness`: the publications of the bridge and the tasks of
the readers are polled; emissions, faults and new subscriptions are not fair.
`ToolBatch!BatchFairness`: each batch goes on, and a started tool returns or meets
its timeout; upsets and drops are not fair. `ShutdownToken!TokenFairness`: a task
inside `wait` or `signal_shutdown` is polled, but nobody has to signal. In an
instance with a `part`, the fair actions of the other parts are disabled
throughout, so their conditions hold trivially and constrain nothing.

## 5. Proofs

Eight modules hold the theorems, each over any values of the constants: any
number of clients, sessions, messages, calls and threads, any capacities and
limits. `PROJECT.json` lists the theorems with the property each one states.
Every safety property and each of the three refinements that the passing runs
check is proved; liveness is not. The invariants below are inductive, so that a property
follows from its invariant without looking at a step. Some theorems carry a
hypothesis, which is named with them.

### AgentRunProofs

- `TypeCorrect`, `ResumptionComplete` (`RecoveryDataComplete`), `CallsBounded`
  (`ModelCallsBounded`), `BudgetBounded` (`BudgetOverrunBounded`) and, of the two
  last, `LimitsKept` (`LimitsHold`) need `IInv`, which is `TypeOK`,
  `RecoveryDataComplete` and three more. `SnapshotOK` says of every snapshot,
  saved or loaded by a waiting `resume`, that it holds the answer and finish
  reason the block it names needs and an iteration and usage within the limits.
  `ControlOK` says the same of the locals at each place, for each `resumeFrom`
  the place can be reached with; without these cases a skipped block would seem
  to have set its locals. `BoundsOK` relates the model calls since the start to
  the iteration.
- `AttemptsBounded`, `RecoveryKept` (`RecoveryBounded`), `ToolResultsInPlace`
  (`ToolResultsAnswerLatest`) and `DroppedResumable` (`DroppedRunIsResumable`).
  `RecoveryOK` bounds the recovery count wherever it stands. `HistoryOK` relates
  the locals and the snapshot to the history: which answer is the latest and
  who still uses it (`AnswerOK`, `WaitingOK`), what a snapshot saved behind a
  write knows (`SavedOK`), how often each result has been appended, which grows
  with every resumption that repeats a batch (`CopiesOK`), and how many requests
  to go on there are for a count (`AskedOK`). The last three theorems are about
  runs that no `resume` overtakes (`~ResumeRaces`): a `resume` that loaded its
  snapshot before the live run went on brings an old count and an old answer
  back, and there `ToolResultsAnswerLatest` and `RecoveryBounded` are false.
  `AttemptsBounded` needs no such hypothesis.
- `OutcomeAgreed` (`OutcomesAgree`) from `OutcomeOK`: which of result, status and
  terminal event has been written at each place of an uninterrupted run.
- `ContextComplete` (`ContextIsComplete`) from `ContextOK`: the calls of the
  latest answer that are answered so far. Its hypothesis `Orderly` is a provider
  that lists calls only when it finishes for them; calls in an answer with any
  other finish reason are stored and never executed.

### RunAdmissionProofs

- `TypeCorrect`, `GateCorrect` and from it `OneRunPerSession`
  (`SessionExclusive`) and `GateIsALock` (`ImplementsSessionLock`). `GateOK`
  says that different sessions have different mutexes, that the handle a caller
  tries and the mutex it holds are the one in the map for its session, that a
  caller past the gate holds one, and that a mutex has one holder. The
  refinement theorem maps each step to a step or a stutter of `SessionLock`.
- `ScopesSurvive` (`LiveScopesPresent`) from `ScopesOK`: ids on the stack differ
  and are below `next_id`, and each live scope is on the stack and owned by one
  guard. Hence a pop takes nothing but its owner's scope.
- `OffersWhatRuns` (`SpecsAgreeWithGet`): folding the scopes over the base from
  below and looking a name up from above give the same tool, by the topmost
  scope that has the name.
- `NothingStaysBehind` (`NoLeakedScopes`) from `StackOK`, for any callers, sessions
  and applications: a live scope is on top of the stack unless it is `mingled`
  (`LiveOnTop`), so that its pop finds it there; and who has a scope holds a
  session's mutex (`ScopesHeld`), so that beside a push every live scope is a
  foreign one. What overlapped a foreign scope may leak (section 7).

### ComponentRegistryProofs

- `TypeCorrect` and `CacheIsFresh` (`TopoFresh`) from `TopoOK`, for any tasks and
  any races: the cached order is taken while the locks are held that a
  registration needs.
- `InstancesAreKept` (`NoInstanceLost`) for `ApartSpec`: any number of operators
  and reloaders, that overlap as they like, `stop_all` and `init_all` included,
  but are never at work on the same component. This is as weak as the code
  allows: two reloads of one component do lose an instance (section 7).
  `InstInv` says which instance each map, `held` and `handed` know
  (`InstancesOK`), that a reload which has not swapped yet holds the registered
  instance and brings one nobody else knows (`ReloadOK`, by `Unswapped`), and
  where each instance that serves can be found (`ServingOK`, by `Kept`). The step
  of one task leaves the parts about another's component alone (`KeepOff`).
- `ManagedIsApart`: `Managed`, that is one operator and one reloader with no reload
  beside another operation than `start_all` and `names`, as the repository's own
  callers use the registry, implies `ApartSpec`.
- `StartsInOrder` (`OrderRespected`) and `StopDrains` (`StopDrainsOrdered`) under
  `Managed`. `RegistryInv` adds to `InstInv` and the types with `TopoOK`: `WorkOK`
  (operators and reloaders do not overlap, the states an operation may find and
  what it has still to visit) and `OrderOK` (what is left of an operation's list
  is sorted by the dependencies, and what must not be running or must be is not
  or is).

### EventProofs

- `BridgeKeepsOrder` (`BridgedInOrder`) from `PipelineInv`: the numbers in a
  memory or SQL store are contiguous, the entry in hand is behind all stored ones
  of its author (`WorkFits`) and its number is its own (`OwnNumber`), what a
  room carries is stored.
- `NoEventIsLost` (`NothingLost`) from `GapInv`, which adds that each reader has
  a way to every entry it lacks: behind its cursor in the store, in its replayed
  page, in its channel, or still in the publisher's hand (`NoGap`). `PageIsWhole`
  says that a page is the next entries, without a gap in it.
- `CancelIsPrompt` (`CancelStopsDispatch`). `NoneLateInHand` says that no event was
  dispatched late while the listener is not cancelled, or has one in hand behind
  its look at the flag, so that the one in hand is the only late one.
- `HandlersAreInformed` (`HandlersKnowSession`) from `SessionsInv`: a run's first
  event is its `RunStarted`, and each event a listener has or had in hand stands
  behind one that it recorded, unless it came late, lagged or filtered it away.

### StoreProofs

- `StoresAreStore` (`ImplementsSessionStore`) from `StoresInv`: what each client
  knows at each call of its operation, that two appends never have the same
  message, and where a message is while it is in nobody's list. Each step is a
  step of `SessionStoreSpec` or a stutter (`Faithful`), shown operation by
  operation. Outside SQL it holds for the sessions whose deletion has not begun.
- `MessagesAreListed` (`ListedOnce`) from `ListInv`, which adds that a message not
  entangled by two updates stands in its list once or is in the hand of one
  update; `Ranks` shows that sorting a list by time, equal times in their order,
  is a permutation.
- `DeadlocksAreStrays` (`OnlyStraysDeadlock`) and `ProjectionsCount`
  (`ProjectionCountsEvents`) from `RunStoreInv`: who holds which lock at each
  await, that a run without a record is one not yet created or already deleted
  (`OnceCreated`), and what the projection lacks of the list (`Projected`).
- `DataIsKeyValue` (`ImplementsKeyValue`) from `DataInv`: a session has one
  writer at a time (`OneWriter`), only a file is ever torn (`NeverTorn`), and what
  stands between a call's steps is what it read and what it will write. A crash
  or a failed write maps to `Spoil`, of the session that was being written and of
  no other.

### ToolProofs

- `ResultsOrdered` (`ResultsInCallOrder`) and `ExclusiveRunsAlone`
  (`ExclusiveAlone`) from `BatchInv`: the order in which calls are started,
  which results are there in each phase, and what an error ends. `BatchesOrdered`
  is the invariant itself.
- `LoopsAreFound` (`LoopsAreStopped`) from `DoomInv`, which says that the history
  before the last call has not tripped the detector. The detector looks at a
  suffix and the property at any stretch of the history; `UntrippedIsBounded`
  goes from one to the other by the least stretch that is too long.
- `NewestAnswerStands` (`NewestDecisionStands`) from `GateInv`: one interface at
  most is between the two locks of `decide` (`OneBetween`); the request whose
  decision is on its way is the newest of its call id, is pending no more and
  has no answer yet (`OnItsWay`); and the answers there are belong to requests
  before the pending one (`AnswersBehind`). So the decision on its way is newer
  than what it overwrites.
- `LimitsHoldInBatches` (`LimitsEnforced`): `Counters` relates the sum of the
  outputs to what was delivered; `OpenCalls` says that an unanswered call has
  passed the filter and the length of its batch. No run lists `LimitsEnforced`;
  `calls` exercises the actions.

### EngineProofs

- `FallbackIsOrdered` (`FallbackInOrder`): `AttemptsLeft` bounds the attempt in
  progress, `UnusableUncalled` says that what was passed over was never called.
- `FanOutIsBounded` (`FanOutBounded`) from `CountersOK`: the two counters differ
  from the engines there are by the threads that stand between their steps, and
  with these they overrun their bounds by the `crowd` less one. Creations that
  never overlap therefore keep the bounds exactly.
- `AnswersAreWhole` (`StreamedAnswerIsWhole`) for any replies that are `Proper`,
  which is what the two wire formats promise. `StreamInv` says that while the
  stream is at work the adapter, the accumulator and the subscribers know exactly
  what the blocks taken so far say (`AnswerOK`): the message is `SaidBy` of them,
  each started call is in progress once with the fragments of its own (`ToolsOK`),
  and subscribers were told the text and the calls that are stopped. There is a
  lemma for each kind of block. `PollOK` and `AllTaken` say that `poll_next` waits
  only with no whole block, or behind a comment, and so that nothing is left
  behind at the end of the body. Without `Proper` an index or an id could name
  two calls, and a fragment go to the wrong one.
- `RemovalIsChecked` (`RemovedWhileUnused`): by the count of references, a value
  nobody looked up or put in since the check has no other slot and no holder.

### HistoryProofs

`ThresholdsOrdered` and `PressureMonotone` for every window and buffer of a
`TokenBudget`; of `MessageCompaction`, for every list of messages and every
estimate of tokens, `AutocompactKeepsPairs`, `AutocompactFits`,
`SummaryCoversReplaced` and `NewestSurvives`. These two modules have no behaviour
and no run.

`JournalIsKept` (`JournalKeepsLog`) holds for any number of calls, entries,
checkpoints and restarts. `JournalInv` claims `JournalOK` of every journal that
did not record a checkpoint after entries its plan had not seen (`~hasty`: they
are lost, and the code leaves it to the host), in five parts:
`JournalTypes`; `ChainOK`, that over the journal, the export and the plan an
offset means one entry, numbers grow with offsets and a checkpoint holds all that
was told before it and not given up; `EntriesOK`, that the log is ascending, its
next offset is the one behind it, and what it tells and leaves open is what the
host knows; `DiskOK`, that the export has what lies below the exported offset;
`PlanOK`, that a plan nothing has overtaken covers the log. That the prompt shows
what such a log tells is `PromptIs`, proved of every straight log by a least
counterexample over its prefixes (`LeastExists`, `PromptGrows`), since the
induction theorems of the library cannot be used; `Reopen` and `BuildPrompt` are
written as recursive functions, which have defining facts where a fold has none.

`DroppedIsCovered` (`DroppedIsSummarised`) and `ContextIsKept` (`ContextIsRecent`)
hold for any sizes, limits and number of compactions. Of `HistoryInv`, `RecordsOK`
says that a history begins with an input, that a summary follows its compaction
message at once, and that tool messages follow one another back to an answer of
the model; `StageOK` relates the stage to the last record. `CutsOK` says of a
history in which no turn was taken in part that each tail begins with an input and
that what lies before it is covered by the summary or behind the prompt's limit,
and `ChosenOK` prepares it for the selection that waits for its summary. `Select`,
`Tokens`, `InOrder` and `LongestEnd` are recursive functions on the numbers up to
a length; `IteratesExist` gives them their defining facts, and `Climb`, an
induction over a set of numbers, what they preserve. The second theorem assumes
`TailTurns # 0`, for with no turn kept the filter also hides the newest message
(section 7).

### What the proofs rest on, and what they leave

A proof uses the named `ASSUME`s of the modules, which the runs evaluate, and the
hypotheses written in its theorem. The `ASSUME`s keep model values for "nobody"
and "none" apart from real ones, make bounds and limits natural numbers and lists
of records what the code's types say; `StreamAssumption` says that replies are
`Proper`. Two exclude values the code would accept: a threshold and a shortest
cycle of the doom loop detector are not 0, which would make the first call a loop,
and a page of a replay is not empty.

Model-checked only is liveness (`RunStops`, `CallsAnswered`, `Delivered`,
`BatchEnds`, `SignalsArrive`), which needs `ENABLED`.

## 6. Not modelled

Of the modelled parts: the messages compaction writes inside `AgentRun`, a second
run on a session between a crash and the resumption, poisoned locks, operations
of the registry dropped at an await, the downcast after a reload, requests and
error bodies of providers, a character cut in two by a chunk, the paginated and
filtered lists of stores, statistics and vector search, MySQL and SQLite beside
PostgreSQL (the same steps), the reports and texts of compaction.

Not at all, since they hold no state worth checking or only convert data:
configuration and construction, the clients of queues, skills and facts, request
and response conversion of the adapters, `behest-core`'s run types and the
execution plans of `behest-tool` (no callers), the copies in the `behest` crate,
and plain data types. Much of the code's size is of this kind, and tests and
documentation beside it; the map covers about an eighth of all lines.
`PROJECT.json` gives the reason for each part.

## 7. Texts and code

The runs named `doc_...` in section 3 each show one difference. Where the code and
its text differ, or the code does what a reader may not expect, without a run of
their own:

- Runs. An error of the provider, a tool or a store in the middle of a run is
  returned as it is, with no terminal event and the status as it stood
  (run_loop.rs:423, against agent_event.rs:291, "Terminal event emitted when a run
  terminates with an error"). Fingerprints of all sessions are in one set, so that
  an input is refused as a duplicate of another session's (input.rs:330, against
  "within a session" at 205-206). A fingerprint stays when the run then fails to
  start. `resume` may set a completed run going again, when it raced its end. The
  first failed compaction ends the run, so that the breaker never reaches its
  threshold. Two overlapping runs that end in the order they began leak a scope.
  The user's input stands twice in the first context (context.rs:179).
  `event_channel_capacity` of the configuration is not used (agent.rs:85).
- Registry. Two reloads of one component fetch the same old instance
  (registry.rs:766-778) and insert without looking again (802-809): the second
  takes the first one's instance out, which runs on and is returned to nobody, and
  returns the old one once more, against "Atomically replace" (737) and "Returns
  the old" (753-754). Beside a reload, a `stop_all` stops the old instance and the
  component is set `Running` again. `init_all` goes on with the dependents of a
  component that failed (registry.rs:586-588). `stop_all` stops nothing once a
  dependency was unregistered (698-700). When `start_all` fails in
  `build_managed`, the components it started keep running (config/mod.rs:668), and
  the context pipeline built there is not handed to the runtime.
- Events. `emit_cache_metrics` may store an event with a sequence number of its
  own beside the bridge's (agent.rs:513-518). An append that was stored though it
  reported an error leaves an entry that replays show and no live stream had. All
  NATS subscribers of a room share one consumer (nats_jetstream.rs:139-147). Queue
  publishers are tasks of their own, so that the queue is not "Ordered per-run"
  (agent.rs:481). `Control::set_concurrency_limit` and `set_timeout` have no
  effect (invocation.rs:997, 1028).
- Stores. In the memory stores `delete_session_cascading` leaves the session's
  executions listed, for `delete_by_session` of the executions is the trait's
  no-op (behest-store lib.rs:916), against "Implementations MUST cascade the
  deletion" (lib.rs:502-504) and "semantically equivalent to ... `ON DELETE
  CASCADE`" (memory/composite.rs:51-52). In Redis (redis/session.rs:170, 193),
  MongoDB and memory an append that found its session puts its message, or its
  execution, in after the deletion has returned, against the same sentence. SQL
  and MongoDB do not persist `tool_call_id` and `tool_name` (sql/session.rs:359,
  450; mongodb/session.rs:201). An append to Redis that races the deletion leaves
  a stub that makes `list_sessions` fail (redis/session.rs:193, 369-375), beside
  its message. A file write that fails leaves the file truncated
  (invocation.rs:422-424, 484-486), and later reads of the session fail.
  `append_event` and `update_run_status` of the run store take two locks in
  opposite orders when the run has no record.
- Compaction. The latest compaction is looked up by its user record, which has no
  summary text, so the next prompt never contains the previous summary. The check
  counts the unfiltered history, so that every turn compacts after the first
  overflow. `prune` and `buffer_tokens` are not used. With `tail_turns` 0, which
  nothing forbids (policy.rs:36), the newest input is summarised away as well.
  microcompact replaces a cleared output's call id (behest-memory
  compaction.rs:126-129).
- Streams. Two comments in a row near the end of a body hide the events behind
  them. Usage is never requested from OpenAI (`stream_options`), so a token budget
  does not trip there. A body that ends early without an error counts as finished.
  The fallback to `complete` repeats text that subscribers have had.
- Tools. A tool of the concurrent group that stands behind a failed call has been
  executed and is never recorded (tool_runtime.rs:173, against 104-105, "each
  execution is recorded"). `decide` approves a request whose timeout has elapsed,
  as long as nobody has called `expire_timed_out` (behest-approval lib.rs:140,
  against "after which the approval is considered denied", lib.rs:60).
  `ExtensionPoint::unregister` removes an entry that is looked up between its two
  lock sections (extension.rs:204, against "Refuses to remove an entry whose
  strong count is greater than one", 192-193). The limited runtime goes on
  executing tools after the cumulative limit (tool_runtime.rs:247-264).
  `truncate_output` counts characters for bytes. Decisions of the approval gate
  are never removed, so that a call id asked again shows the decision of before
  until it is answered. A `decide` that is dropped while it waits for its second
  lock has removed the request and leaves no decision (behest-approval
  lib.rs:141-144).
- Core. The bound on live children "per parent" (sub_engine.rs:11-12, 170-173) is
  compared with one counter that the whole tree shares. A window below 1000 tokens
  gives an effective window larger than itself. The router reports the last
  provider's error, even when that is "not found".

## 8. Plan

What is left, most important first:

1. `SessionRuns`: several runs and resumptions on one session's history,
   composing `AgentRun` with `RunAdmission` and `SessionHistory`.
2. Proofs: how a run's history, its snapshot and its session fit together, once
   there is `SessionRuns`; that the gate and the two batches make no deadlock;
   the hypothesis `~ResumeRaces` of `AgentRunProofs` made as weak as it can be.
3. Three components in `reg_lifecycle`: beyond eight million states at six
   operations, it needs a symmetry that the dependencies allow.
4. The path of a message through a store and a provider's wire format, for the
   ids of tool calls.
