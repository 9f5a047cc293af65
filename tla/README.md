# TLA+ models of PromptKit

PromptKit is a Go runtime for applications built on language models: providers
that stream completions, a pipeline of stages around them, an SDK of
conversations on top, an A2A (agent to agent) server, and an event bus that
everything reports to.  This directory models the parts of it whose
correctness depends on the order of concurrent steps.  TLC checks small
instances of the models, TLAPS proves the main safety properties for every
value of the constants.

Contents: [Inventory](#inventory) - [Modules](#modules) - [Runs](#runs) -
[Fairness](#fairness) - [Proofs](#proofs) - [Where code and documentation
disagree](#where-code-and-documentation-disagree) - [Not
modelled](#not-modelled) - [Plan](#plan)

## Inventory

| Part | State it keeps | Operations | What is hard |
|---|---|---|---|
| Provider streaming path (`runtime/providers/base_provider.go`, `stream_*.go`) | semaphore, token bucket, two channels and two goroutines per stream | `RunStreamingRequest`, `OpenStreamWithRetryRequest`, `relayStream`, `midStreamRetry` | one slot, several owners; retries that race for tokens; blocking sends; errors after the first chunk |
| A2A server (`server/a2a/server.go`, `server_stream.go`) | `cancels`, `subs`, `convs`, each behind its own mutex | message/send, message/stream, tasks/cancel, tasks/subscribe, eviction, `Shutdown` | handlers, runner goroutines, cancellation and eviction in any order |
| A2A task store (`server/a2a/task_store.go`) | the tasks | `Create`, `SetState`, `AddArtifacts`, `Cancel`, `EvictTerminal` | transitions requested by actors that do not know of each other |
| Event bus (`runtime/events/bus.go`) | listener lists, buffered channel, worker pool, strikes | `Subscribe`, `SubscribeAll`, `Publish`, `Close`, `Clear` | publish against close, snapshots, hanging listeners |
| Stage pipeline (`runtime/pipeline/stage/pipeline.go`, `builder.go`, `stages_advanced.go`) | a channel for every stage or edge, executions in flight, shutdown flag | `Execute`, `Shutdown`, `Process` of each stage, `collectOutput` | goroutines that block on each other; who closes which channel when; test of the flag before `wg.Add` |
| Unary turns (`stages_core.go`, `stages_context.go`, `stages_provider.go`, `stages_save.go`) and state stores (`runtime/statestore`) | the stored conversation; a context window; the position the message log was written up to | `Load`, `LogAppend`, `AppendMessages`, `Save` | one failing stage of several; lost acknowledgements; overlapping turns; a crash between rounds |
| Duplex conversations (`sdk/conversation.go`, `sdk/session/duplex_session.go`, `stages_duplex_provider*.go`) | the conversation's lock, the session's input and output channels, the buffer before the provider session is open | `SendChunk`, `SubmitToolResults`, `ContinueDuplex`, `Drain`, `Close`, `Clear` | sends that race the close of their channel; two loops that wait for each other |
| Pending tool calls (`sdk/tools`, `sdk/conversation_tools.go`) | calls awaiting a person, decisions not yet sent | `Add`, `Claim`, `ResolveTool`, `RejectTool`, `PopAll`, expiry | several reviewers, expiry, a store that refuses |
| Realtime voice (`openai/realtime_session_integration.go`, `stream_pump.go`, `transcript_reorder.go`) | queue and drop flag, the turn that waits for its transcript, its timer | `Barge`, `handleMessage`, `handleResponseChunk`, `handle`, `resolvePending` | interruptions against audio in transit; late or missing transcripts against the hold timer |
| Workflows (`runtime/workflow`, `sdk/workflow*.go`) | current state, visits, history, pending transition, the active conversation, the stored context | `Send`, `Transition`, `CommitPending`, `persistWorkflowContext`, `ResumeWorkflow` | transitions in the middle of a turn; locks held over store writes; two writes for one context; restarts |
| MCP client and registry (`runtime/mcp`) | pending requests, connections, tool index, process slots | `sendRequest`, `readLoop`, `GetClient`, `createNewClient`, `UnregisterServer`, `Close` | callers that make the same client; process death; late replies |
| Provider adapters, evals, hooks, speech, prompts, configuration, telemetry, storage | little, or none that changes after loading | conversions, scoring, I/O | wire formats, not ordering |

How they interact.  A conversation of the SDK runs a pipeline: once per `Send`,
or for as long as a duplex session lives.  The pipeline's provider stage calls a
provider's streaming method and reads the channel it returns; the provider
shares one semaphore and one token bucket among all its requests.  The load and
save stages, and the tool loop of the provider stage, read and write a state
store.  Tool calls are dispatched to executors, among them the MCP registry's
clients; a gated one waits in the pending store for a reviewer.  A workflow owns
a conversation per state and moves between them.  The A2A server opens
conversations through an interface (`Send`, `Stream`, `Resume`) and keeps its
own record of tasks.  All of them publish events; recorders, metrics and
telemetry subscribe.

What makes each modelled part correct:

* *Streaming path*: a slot is given back exactly once; the upstream never sees
  more requests than the limit; every retry is paid for; the caller sees all
  chunks, in order, and nothing after the one that closes the stream; every
  request ends.
* *Stage pipeline*: no send on a closed channel; nothing lost, and nothing
  reordered on one way through the graph; failures reach the caller; every
  execution ends; a clean shutdown has waited.
* *Unary turns*: what `Send` returned is stored, whole, once, in order; a crash
  leaves whole rounds; nothing that is stored goes away.
* *Duplex conversations and approvals*: senders never meet the closed channel; a
  gated tool runs once and after an approval only; a result travels once;
  `Close` returns and the session comes to rest.
* *Voice*: what was said is neither lost nor moved; the user's words stand
  before the answer or are replaced by one placeholder; interrupted audio stops;
  every turn ends that is not behind an error.
* *Workflows*: turns run in the state the workflow is in; a promised transition
  is made once; what is stored is the workflow, across restarts; visit limits
  hold; every call returns its locks and comes back itself.
* *MCP*: a result is that of one's own call; no connection is lost; the process
  limit holds.
* *A2A server*: a task follows its lifecycle whoever acts on it; what clients
  are told agrees with the store; every exit path releases what it registered;
  shutdown leaves nothing running unsupervised; every task settles.
* *Event bus*: no panic, no duplicate, nothing to a listener that left, nothing
  lost by a close that returns in time, no close that hangs.

`PROJECT.json` lists every component, and under "hazards" the places in the
code where these can go wrong.

## Modules

| Module | Models |
|---|---|
| `StreamBackpressure` | the streaming path, from the slot to the caller's loop |
| `StagePipeline` | one execution of a graph of stages, and `Shutdown` |
| `TurnPersistence` | unary turns, the tool loop's message log, the save stage and the store |
| `PendingToolStore` | the two stores of the approval gate; extended by `DuplexConversation` |
| `DuplexConversation` | a live conversation: its lock, session, provider stage, gate and reviewers |
| `ToolApproval` | the abstract contract of the gate; `DuplexConversation` implements it |
| `StreamPump`, `TranscriptReorder` | the pump of a realtime session; the reorder stage |
| `VoiceSession` | both, composed with the receive loop and the provider stage between them |
| `WorkflowMachine` | the state machine; extended by `WorkflowConversation` |
| `WorkflowConversation` | workflow conversations over the machine, with their store |
| `MCPClient` | stdio and SSE clients; extended by `MCPRegistry` |
| `MCPRegistry` | the registry over its clients |
| `A2ATaskStore` | `InMemoryTaskStore`; extended by `A2AServer` |
| `A2AServer` | the server's handlers and goroutines over the store |
| `A2ATaskLifecycle` | the abstract lifecycle a poller may see; `A2AServer` implements it |
| `EventBus` | the bus |
| `ProviderStreamProofs` (streaming path and voice), `StagePipelineProofs`, `TurnPersistenceProofs`, `DuplexConversationProofs`, `WorkflowConversationProofs`, `MCPRegistryProofs`, `A2AServerProofs`, `EventBusProofs` | theorems |
| `MC...` | instances for TLC |

One action is one critical section, one atomic operation, or one channel
operation: the points between which the Go scheduler may run something else.
Operators whose comment begins with "Mutant" are deliberately wrong variants
of the definition that follows them.  No action uses them; each is a plausible
slip in that code which one of the properties must notice.

### The provider streaming path

`pc[r]` is the control of `RunStreamingRequest` and of the attempt loop it
calls (`acquire`, `attempt`, `do`, `peek`, `budget`, `backoff`, then `open` or
`failed`).  `consumer[s]`, `relay[r]` and `caller[r]` are the three goroutines a
successful open leaves behind; `inner[s]` is the channel between the first two,
`sent[r]` with `recvd[r]` the one between the last two.  `phase[r]` is 2 while
`midStreamRetry` uses the loop again.

| Code | Actions |
|---|---|
| `AcquireStreamSlot`, `StreamSemaphore` | `AcquireStreamSlot`, `AcquireRejected`, `ReleaseStreamSlot` |
| `OpenStreamWithRetryRequest`, `classifyStreamAttempt` | `AttemptAborted`, `Dial`, `ResponseOK`, `ResponseFails`, `PeekOK`, `PeekFails`, `PeekIdleFires`, `RetryGranted`, `RetryDenied`, `BackoffElapsed`, `BackoffCancelled` |
| `RetryBudget` | `TryAcquire`, `Refill` |
| `streamResponse` (OpenAI) | `ConsumerReads`, `ConsumerUsage`, `ConsumerFinishes`, `ConsumerErrors`, `ConsumerEOF`, `ConsumerSends`, `ContextClosesBody`, `ConsumerCloses`, `ConsumerEnds` |
| `relayStream`, `forwardChunks`, `midStreamRetry` | `ForwardChunk`, `SourceClosed`, `MidStreamGranted`, `MidStreamDenied`, `EmitReset`, `EmitRetryError`, `CloseOut` |
| `processStreamChunks` | `CallerReceives`, `CallerStops`, `CallerSeesEOF` |

Abstractions.  A chunk is `content`, `usage`, `final`, `error` or `reset`.  A `usage`
chunk is that of OpenAI's usage-only event, which has a finish reason and the cost and
after which the consumer reads on; `final` is the chunk of `[DONE]`, or of a finish
reason that comes with the usage, after which it returns.  The upstream may answer,
refuse or break at any point, and send usage-only events when it likes.  The bucket
holds whole tokens and accrues one at any time.  Durations are left out: a timer may
fire whenever it is set.

### The A2A server

A request is named by the task it creates.  `run[t]` is the control of its runner (the
goroutine of a send, the handler of a stream); `cancels`, `subs` and `convs` are the
server's maps, `bcast[t]` the broadcaster object, which outlives its entry in `subs`;
`sub[s]` is a subscription with its buffer; `wire[t]` the events of the stream (`emit`
writes an event to the client and then broadcasts it, which is one step here: the write
is to one reader and the broadcast to others, so what a subscriber sees is compared with
what was broadcast); `sweep[t]` how far the eviction of a task is; `down` how far
`Shutdown` is.

| Code | Actions |
|---|---|
| `handleSendMessage`, `handleToolResultMessage`, `getOrCreateConversation` | `Receive`, `RefuseMessage`, `CreateTask`, `Reply` |
| `runConversation`, `runResume`, `finalizeTask` | `RunConversation`, `SendWorking`, `SendSucceeds`, `SendFails`, `StoreArtifacts`, `finalizeTask`, `RunnerExits` |
| `handleStreamMessage`, `handleStreamToolResultMessage`, `processEvents` | `OpenBroadcaster`, `StreamWorking`, `AnnounceWorking`, `RegisterStream`, `StreamArtifact`, `StreamEnds`, `RecordFinal`, `EmitFinal`, `StreamContextDone`, `CloseBroadcaster`, `RemoveBroadcaster` |
| `handleCancelTask` | `CancelInFlight`, `CancelTask` |
| `handleTaskSubscribe`, `taskBroadcaster` | `LookupBroadcaster`, `SendStatus`, `Subscribe`, `SubscriberReceives`, `SubscriberEnds`, `SubscriberLeaves` |
| `evictionLoop` | `EvictTerminalTasks`, `SweepCancel`, `SweepBroadcaster`, `EvictClosedBroadcasters`, `EvictIdleConversation` |
| `Shutdown` | `ShutdownBegins`, `ShutdownDrains`, `CloseAllBroadcasters`, `CancelAll`, `CloseConversations` |

Abstractions.  The conversation is external and may return anything at any
time.  A message with a tool result takes the same steps as one without.  Time
is not modelled: any terminal task may be old enough to be evicted, any
conversation idle for long enough.  Requests that are refused before they
change anything are left out.

`A2ATaskLifecycle` is the contract towards a client that polls: submitted, then
working, then completed, failed or input_required; canceled from any of the
states that are not terminal; gone only after a terminal state.  It is narrower
than the store's transition table, and the server implements it with `status`
mapped to itself.

### The event bus

`subscription[l]` is the control of one call of `Subscribe` or `SubscribeAll`
and of the function it returns; `registered` the two listener lists together,
ordered by `id`; `pub[e]` the control and outcome of one `Publish`; `worker[w]`,
`hand[w]`, `todo[w]` and `callee[w]` a worker's loop, event, snapshot and
running listener; `closer[c]` one call of `Close`.  `audience[e]` is a history
variable: what the subscriptions were when `e` was enqueued.

A listener that timed out keeps running in its goroutine; the bus does not look
at it again, so the model does not either.

### The stage pipeline

A *worker* is a stage and a channel it reads: one goroutine for each upstream of
a merge, one for every other stage.  `at[w]`, `hold[w]` and `todo[w]` are its
control, the element in hand and the channels it still goes to; `chan` and
`closed` are the channels; `collecting[l]` and `taken[l]` the collector of a leaf;
`exec` and `closer[k]` the calls of `Execute` and `Shutdown`.

| Code | Actions |
|---|---|
| `validate`, `createChannels`, `getStageInputs`, `upstreamChannel` | `validate`, `Channels`, `StageInputs`, `UpstreamChannel` |
| `ExecuteSync`, `Execute`, `executeBackground` | `Execute`, `ExecuteStarts`, `ExecuteEnds`, `Cancel` |
| `MapStage`, `RouterStage`, `MergeStage` (and `PassthroughStage`) | `WorkerReceives` (`Passes`, `Fails`, `Routes`), `WorkerSends`, `SendCancelled`, `FailSends`, `InputEnds`, `StageReturns` |
| `collectOutput`, `startOutputCollection` | `CollectTakes`, `CollectSends`, `CollectEnds`, `OutputCloses` |
| `accumulateResult` | `Reads` |
| `Shutdown` | `Shutdown`, `ShutdownReturns` |

The caller is `ExecuteSync`: its elements are in the input, which is closed.  A
caller that streams them in one by one is a root stage that is slow to receive.
A router's destinations are a set, visited in any order.

### Unary turns

`at[t]` is the control of one `Send` through its pipeline (`load`, `seed`,
`round`, `tools`, `persist`, `next`, `emit`, `save`, `write`), `msgs[t]` the
context of the tool loop, `persisted[t]` its `lastPersistedSeq`, `new[t]` what the
save stage collected, `store` the conversation.  `mode` is one of the three ways
a conversation is stored: with a message log (`log`), with a store that appends
(`append`), with one that loads and saves (`bulk`).  `spoilt[t]` names what went
wrong for a turn, and each property lists which of these names excuse it in which
mode; `faults` counts them.  The save stage keeps the elements that did not come from
the history; the model's `Own` takes what follows the loaded messages, which is the
same because the history always precedes (`MsgsAt`, part of what is proved).

| Code | Actions |
|---|---|
| `Send`, the load stages | `Send`, `Resume`, `Load`, `LoadFails` |
| `preSeedLog`, `persistMessages` and the tool loop | `PreSeedLog`, `PreSeedFails`, `ModelAnswers`, `ModelCalls`, `ExecuteToolCalls`, `PersistMessages`, `PersistFails`, `PersistPanics`, `NextRound`, `RoundFails` |
| `IncrementalSaveStage` | `Emit`, `Save`, `FullSave`, `SaveFails` |
| process and store | `Crash`, `Expires` |

### Duplex conversations and approvals

Senders, reviewers and closers are callers; `exec` is the goroutine of the session
(`executePipeline`), `stage` and `fwd` the two loops of the provider stage,
`input` and `out` the channels between them.  `writer` and `readers` are `c.mu`,
with Go's preference for a waiting writer.  `gate[c]`, `verdict[c]`, `ran[c]` and
`answered` are what has become of a tool call.

| Code | Actions |
|---|---|
| `SendChunk` | `SendChunk`, `SendChunkReturns` |
| `executePipeline`, `handleToolCalls` | `ExecReceives`, `ExecHolds`, `ExecRuns`, `ExecSendsResults`, `ExecForwards`, `ExecFails`, `ExecCancelled`, `ExecPipelineEnds` |
| `DuplexProviderStage.Process` | `StageReceivesFirst`, `StageBuffers`, `StageOpens`, `StageFailedEnds`, `FwdReceives`, `FwdRecords`, `FwdSends`, `FwdCancelled`, `ProviderSpeaks`, `ProviderCalls`, `ProviderFails`, `ProviderCloses`, `StageStops`, `StageEnds` |
| `ResolveTool`, `RejectTool`, `ContinueDuplex` | `ResolvePeeks`, `ResolveClaims`, `RejectToolPeeks`, `RejectTool`, `Resolves`, `ContinueDuplex`, `SubmitToolResults` |
| `Close`, `Clear`, `Drain` | `Locks`, `CloseLocked`, `ClearLocked`, `Drain`, `ClosesInput`, `Cancels` |

Abstractions.  The provider and the reader of `Response()` are the environment:
the reader may stall, so nothing is assumed of `ExecForwards` and `ExecFails`.  A
panic stops everything.  The pipeline's other stages pass everything through; its
idle timeout, client-deferred tools and the Redis store are left out; the two
checks of `ContinueDuplex` are one step, and the messages of one tool result one
element.  A sender's context ends (`SendChunkReturns`), and the provider closes its
response channel after the stage has closed the session.

`ToolApproval` is the contract: new, held, approved or rejected, run, answered, or
expired.  Its one way round the gate is the code's: a call that the pending store
refuses is run.  The refinement mapping, `CallState`, reads the contract's state
off the stores and the history of each call.

### Voice

`VoiceSession` puts `StreamPump` and `TranscriptReorder` together with the
handlers of the realtime session's receive loop in front (`Receives`) and
`handleResponseChunk` of the provider stage in between (`HandleResponseChunk`).
`captured` and `hasContent` are the stage's flags, which the microphone's
goroutine writes too (`MicrophoneAudio`).  The server may begin a response, send
transcripts late, fail to, or send none, send an error event and disconnect at any
point.  After an error event (`HandleError`) the receive loop reads on, while the
provider stage ends on the error chunk.  `said`,
`barged`, `replaced` and `guessed` are history.  `out` leaves audio out: the reorder
stage passes it on as it comes.  What the pump drops and what the properties pick
out of a channel is `Filter`, which numbers what it keeps instead of recursing over the
sequence: the prover can reason about it.

### Workflows

`WorkflowMachine` has the context that is persisted and `ProcessEvent` as
`Destination` and `RecordTransition`.  In `WorkflowConversation` a call is a
`Send`, a `Transition` or a `Close`; `at[u]` with `then[u]` is its control; `mu` is
`wc.mu`, `holder[k]` the lock of an executor; `active`, `opened`, `live` and
`offered` are the conversations; `stored` is the store, `appended` the
`historyAppended` of the process.  `Restart` is a crash and `ResumeWorkflow`.

| Code | Actions |
|---|---|
| `Send` | `SendBegins`, `Validates`, `SendEnds`, `Reconciles` |
| the tool loop with `TransitionExecutor` | `Handoff`, `CommitPending`, `Arrives`, `RoundCalls`, `RoundEnds` |
| `Transition`, `openConvForCurrentState` | `Transition`, `Opens`, `OpenFails` |
| `persistWorkflowContext`, `appendWorkflowListDelta` | `Saves`, `WritesCurrent`, `AppendsDelta`, `Saved` |
| `Close`; a crash and `ResumeWorkflow` | `Close`; `Restart` |

### MCP

`MCPClient` has the connection, the ids, the pending table and the messages under
way, as a set, so that replies come in any order or late.  `MCPRegistry` adds the
registry's maps, its mutex, the process slots and the callers between the points
where `r.mu` is released (`at[c]`), with the client a caller is making in
`mine[c]`.

| Code | Actions |
|---|---|
| `sendRequest` and its retries | `SendRequest`, `SendFails`, `ReceiveReply`, `RequestTimeout`, `ContextDone` |
| `readLoop`, `deliver` | `HandleMessage`, `ReaderStops` |
| the process or the server (external) | `ServerHandles`, `Dies` |
| `GetClient`, `createNewClient`, `acquireProcessSlot` | `TryGetExistingClient`, `AcquireProcessSlot`, `CreateNewClient`, `Initialize`, `InitializeFails`, `Install`, `Discard`, `RefreshToolIndex` |
| `GetClientForTool`, `ListAllTools` | `GetClientForTool`, `FetchServerTools`, `UpdateToolsResult`, `LookUp` |
| `RegisterServer`, `UnregisterServer`, `Close` | `RegisterServer`, `UnregisterServer`, `CloseRegistry`, `CloseClients` |

## Runs

| Run | Instance | Shows |
|---|---|---|
| `stream_always` | 2 requests, limit 1, 2 attempts, burst 1, mid-stream retry, buffers of 2, one request with usage-only events and a cancellation, callers that stop | slots, budget, completeness of chunks, nothing behind the closing chunk |
| `stream_live` | 2 requests, limit 1, 2 attempts, burst 1 and one token accrued, the default window, buffers of 1, no cancellation | the upstream limit; every call ends and every slot returns without a context's help |
| `pipeline` | router, map and merge, with a second edge from the router past the map; 2 elements, channels of 1, one cancellation, one `Shutdown` | no panic, nothing lost, order within a way, failures told, clean shutdown, every execution ends |
| `turn_persistence` | 2 turns of up to 2 rounds, the three modes, no window or a window of 1, up to 2 faults | what is returned is stored once and in order; crashes leave whole rounds; nothing stored goes away |
| `turn_log_window` | 2 turns, message log, window of 1, no fault | *violated*: a later turn's user message never reaches the log |
| `duplex_session` | 1 sender, 2 reviewers of one gated call, a pending store that may refuse, one closer, channels of 1 | senders and close, the approval contract (a refinement), one result per call, close returns, the session ends |
| `voice` | 2 utterances, 2 responses, 2 deltas or an error event, channels of 1 | the transcript is whole and in order, one placeholder or the words, interruptions, every turn ends |
| `workflow` | 4 states with visit limits, a redirect, a transient state; 2 calls of up to 2 rounds, a history limit of 3, up to 2 faults | the stored workflow, visit limits across restarts, turns in their state, promised transitions, every call returns |
| `mcp_registry` | 2 callers, 1 server, 4 clients, both transports, no limit or a limit of 1 or 2, one administrator | own answers, no leftovers in the table, no lost connection, the limit |
| `a2a_requests` | a send and a stream in one context, cancel, disconnect, shutdown | lifecycle (a refinement), artifacts, blocking replies, conversations, drained shutdown, every task settles |
| `a2a_subscribe` | one stream with an artifact, 2 subscribers with a buffer of 1 and room for 1, cancel, disconnect, eviction | what subscribers see, final events, release of broadcasters |
| `bus_delivery` | 1 listener, 3 events of two types, 2 workers, one closer, buffer 1, one strike | no panic, no duplicate, nothing after unsubscribing, nothing lost, strikes, close returns |

Properties that say one thing in several clauses are conjunctions of named parts, and
the parts are what the comments in the modules explain:

| Property | Parts |
|---|---|
| `EveryStreamEnds` | `EveryCallEnds`, `EverySlotReturns` |
| `AnswersSettled` | `CompletedCarriesArtifacts`, `BlockingReplySettled` |
| `StreamsEndClean` | `FinalEventRecorded`, `BroadcasterReleased` |
| `DispatchExact` | `OneCallPerEvent`, `UnsubscribedIsSilent`, `StrikesBounded` |
| `ReviewHonoured`, `EveryoneReturns` | `TypeOK`, `GateHonoured`, `OneResultPerCall`; `CloseReturns`, `SessionEnds` |
| `AnswersMatch` | `TypeOK`, `AnswerIsOwn`, `TableIsWaitedFor` |
| `LogIsWhole` | `TypeOK`, `RoundsAreLogged`, `CrashLeavesWholeRounds`, `PanicsExplained` |
| `MachineConsistent`, `StoreConsistent`, `TurnsConsistent` | `TypeOK`, `LoopGuardHolds`, `ToolFitsState`; `StoreIsCurrent`, `HistoryChains`; `TurnStartsInState`, `PendingIsOwn`, `ScheduledIsCommitted` |
| `TranscriptsInPlace` | `VoiceTypeOK`, `UserBeforeText`, `PlaceholderStandsAlone` |
| `ElementsAccounted` | `TypeOK`, `NothingLost`, `TracksKeepOrder`, `FailuresAreTold` |

`TypeOK` of `StreamBackpressure`, `A2AServer` and `EventBus` is in no run: it is a
theorem.

Why the bounds are enough.  The races are between pairs: two requests for one slot or
one token, a runner and a canceller, a publisher and a closer, two workers and one
listener, two reviewers of a call, two turns of a conversation, two makers of a client,
a transcript and a timer.  A buffer of one is full after one element, so every blocking
and dropping path is taken (a failed mid-stream retry puts two chunks before a caller
that has stopped, hence the two of `stream_always`); two attempts contain a retry; a
limit of two lets two callers make a client for one server at a time, so that the loser
gives a slot back under a limit; two rounds a tool loop that goes on; two elements an
overtaking; two subscribers with room for one reach the limit; three events and a strike
limit of one let two workers pass the test of the strikes together.  Two faults let one
thing fail while the recovery from another is under way.  The named bounds (`MaxChunks`,
`MaxRefills`, `MaxArtifacts`, `MaxRounds`, `MaxFaults`, `MaxHistory`, `MaxElements`,
`Utterances`, `MaxResponses`, `MaxDeltas`) limit the input, not the control.  So do the
guards of `CreateNewClient`, `Replaces` and `Restart` that a name for a new client or
conversation is left: the code makes as many as it likes. `HistoryChains` is stated for
as many transitions as the history has room for; the section on disagreements says what
happens then. An error event of the voice session takes the place of its deltas: before
and behind it responses begin and end, which is what matters; text before an error comes
with the error of a lost connection.  A stream of `stream_always` has one chunk before
the one that closes it, of content or of usage; two, on buffers of one, pass as well
(5.4 million states). Constants such as `Cancellable`, `UsageReqs`, `Canceling`,
`Disconnecting`, `TaskTTL`, `ConvTTL` and `MayShutdown` say which of the environment's
actions an instance has; `TaskTTL` and `ConvTTL` are configuration of the server itself
(0 disables eviction).  Three cases lie outside: the exception of `EveryExecutionEnds`
(a map stage stuck with its error) needs a third element, some exceptions of
`LoopGuardHolds` a third call, and a second caller of the pipeline's `Shutdown`, which
returns at once, a second closer.  The safety results that are proved hold without any
bound.

Symmetry is used for the subscribers in
`a2a_subscribe`, for the callers in `mcp_registry` and for the turns in
`turn_persistence`: they are constants the definitions never tell apart.  No
liveness run uses symmetry.

Deadlock is not checked: requests, events, turns and calls are finite in number,
so every instance may come to rest.  That it does not come to rest too early is
what the liveness properties say.

Exceptions inside a property.  Where the code breaks a promise in a known way the
property names the way (`spoilt`, `replaced`, `guessed`, `overtaken`, `Wedged`,
`Abandoned`, `CutOff`), so that it says exactly how far the promise goes; the section
on disagreements lists what is behind each.  Four of them thereby excuse the race that
is the worst of their hazard, and show what is left of the promise.  `WithinLimit`
leaves out the replacement of a dead client, and holds the releases on failure, on a lost race, by
`UnregisterServer` and by `Close` to the limit.  `StoreOnlyGrows` leaves out turns that
overlap on a bulk store, and holds for turns one after the other and for the two modes
that append.  `InterruptedAudioStops` allows the audio that was in the emit channel,
and says that nothing the pump had queued survives and nothing new is added.
`CleanShutdownWaits` leaves out the execution that was between its two steps, and says
that every other one is waited for.  `StoreConsistent` and `TurnsConsistent` excuse
theirs in part: a history torn between two writes, calls that overlap.

## Fairness

* `StreamBackpressure!FairSpec`: weak fairness of each goroutine's steps.
  Acquisition is strongly fair, because `semaphore.Weighted` serves waiters
  first come, first served.  The consumer's reads make progress because its
  `IdleTimeoutReader` closes the body.  Two assumptions are about the
  environment and stated apart: the upstream answers a dial and a peek or breaks
  the connection, and a caller that has not stopped goes on reading (the loop of
  `processStreamChunks` does nothing else).  Nothing is assumed of callers that
  stop or of contexts.
* `A2AServer!FairSpec`: weak fairness of each runner and of a cancel handler
  between its two steps.  A conversation returns (provider calls have timeouts).
  Clients need not cancel, subscribe, read or disconnect.
* `EventBus!FairSpec`: weak fairness of the launch of the workers, of a publisher
  inside `Publish`, of each worker including the subscriber timer, and of
  `Close`.  Listeners need not return, and the deadline of `Close` is not used,
  which makes `EveryCloseReturns` stronger than the code's own safeguard.
* `StagePipeline!FairSpec`: as long as any step of the execution can be made, one
  is made; the caller reads to the end, as `accumulateResult` does; the idle timer
  fires.  No step can be repeated for ever, so this is enough, and it assumes less
  than fairness of each goroutine.  With `IdleTimeout` and `ExecutionTimeout` 0
  there is no timer and the property does not hold.
* `DuplexConversation!FairSpec`: weak fairness of the session's goroutine, of both
  loops of the stage, of each closer (the timers of `Drain` included) and of a
  sender's context.  Not of the steps that hand a chunk to the application.
* `WorkflowConversation!FairSpec`: weak fairness of each call's steps; providers,
  tools and stores answer.
* `VoiceSession!FairVoiceSpec`: weak fairness of the pump's goroutine, of the provider
  stage's and of the reorder stage's, which selects between its input and the hold
  timer: each takes a step if it can go on taking one.  Nothing is assumed of which
  ready case a `select` chooses.  The server and the user owe nothing.

## Proofs

All theorems are proved from the named assumptions on constants, which say no
more than the types of the configuration, that the sets of requests, of callers and
of workers are finite, that the placeholder values are not members (`NothingStored`:
an empty store is not a context), and what `validate` guarantees of a graph of
stages.  `UpstreamLimited` is also about the default retry window only, because the
code breaks the promise in the other one.

**Streaming path.**  `TypeCorrect`; `SlotsConserved` (`SlotConservation`); `RedialsPaid`
(`RedialsWithinBudget`); `UpstreamLimited` (`UpstreamWithinLimit`); `ChunksAreDelivered`
(`NoChunkLost`); `StreamsEndOnce` (`ClosingChunkIsLast`).  `ControlInv` ties the control
of the four goroutines together (a consumer runs only after an open, the relay opens
again only in phase 2).  The slot count is proved by showing for every action that the
set of holders is kept, gains one element as the counter goes up, or loses one as it
goes down.  The budget is not inductive as stated, since a token is taken before the
dial it pays for: `BudgetInv` adds the tokens taken and not yet spent, counted as the
set of requests between grant and dial.  The limit follows from `CoverInv`: an exchange
in flight belongs to a holder.  The two about chunks read what the caller was sent and
what waits in the inner channel as one sequence.  `PipeInv`: on a request's first stream
its content and usage chunks and the one in the consumer's hand are as many as were
parsed, and the relay leaves that stream with an error forwarded or with the channel
drained and closed.  `CloseInv`: what has closed that sequence is its last chunk,
nothing has as long as the consumer reads, and only the `reset` of the one mid-stream
retry opens it again (`Restarting`).

**Voice.**  `WordsAlwaysArrive` (`WordsArrive`), `TranscriptsStandInPlace`
(`TranscriptsInPlace`) and `InterruptedAudioIsStopped` (`InterruptedAudioStops`), for any
number of utterances, responses and deltas and any size of the channels, from
`VoiceInvariance`.  Its `VoiceInv` was checked by TLC first.  `Base` has the types, with
one number for every element but a placeholder.  `SaidOK`: the server speaks response
after response, and each ends once.  `EndOK`: after the end of the latest response
nothing of it is in the channels, so that the stage makes no second end when the
response channel closes.  With these `WordsArrive` is inductive: a step moves a word
from the head of one channel to the end of the next, or adds the newest, and a turn-end
that gives way is missing on both sides because no other is equal to it.  `AudioOK`: a
response that was interrupted produces no audio any more.  `UsersOK`: the user's turns, sent
or on their way, are in the order they were spoken.  `PlaceholdersOK`: a placeholder, or
a user's turn that is over, has a turn-end behind it.  `CalmOK` is what puts the user
before the answer: as long as nothing was guessed and no turn-end gave way, the nth
response is told behind a user's turn that is not before the nth; and `OwnersOK`, by
counting, that the nth response answers none after the nth if every utterance is
answered.  The lemmas about `Filter` (of an append, a concatenation, a tail, a filter)
are proved from the ranks of what it keeps.

**A2A server.**  `TypeCorrect`; `FinalEventsAreRecorded`; `AnswersAreSettled`
(`AnswersSettled`); `BroadcastersAreReleased` and with it `StreamsAreClean`
(`StreamsEndClean`); `ConversationsAreReachable`;
`DrainedShutdownIsClean`; `ServerImplementsLifecycle`.  The common strengthening
is `LifeInv`: for each point of a runner's control, the states its task can be
in given that cancel and eviction may have come first.  Each property then has
a strengthening of its own that extends it to the control points before the one
it speaks of (`WireInv`: the result is in the store before its event is on the
wire; `ShutdownInv`: who is running has a cancel function registered, was
cancelled, or was evicted).  The refinement needs only `LifeInv`: it is what
rules out a `SetState` along an edge the lifecycle does not have.
`SubscribersSeeTheRun` (`SubscriberSeesRun`) is the one with an order: `SubInv` says
that what a subscriber has got, followed by what is in its buffer, is the task's stream
from the moment of the subscription on, and up to its end while the broadcaster is open.

**Event bus.**  `TypeCorrect`; `PublishIsSafe`; `StrikesAreBounded`;
`CallsAreUnique` and `UnsubscribedIsLeftAlone`, together `DispatchIsExact`
(`DispatchExact`); `CleanCloseHasDelivered`.  `PoolInv`
and `CountInv` say that the workers are launched once and that the WaitGroup
counts them; `LockInv` that a publisher inside `Publish` keeps the channel open;
`PlaceInv` that an event is in one place (not yet sent, once in the channel, or in
one worker's hand); `StrikesInv` counts the workers that run a listener together
with its strikes; `OwedInv` that an event owed to a listener is still in the
channel, in the hand of a worker that has the listener before it, or delivered.
`CloseInv` and `JoinedInv` carry this to the moment `Close` returns.

**Stage pipeline.**  `NoSendOnClosed` (`NobodyPanics`) for any acyclic graph, any
routing and any buffers; `CleanShutdown` (`CleanShutdownWaits`).  The first rests on
`CloseInv`: a channel is closed by the return of the one stage that owns it
(`OneOwner`: the first component of a channel's name), a goroutine is on its way to
channels of its own stage only, and a stage that has returned has no goroutine
left; the pipeline's output is closed behind the last collector.  The second adds
that whoever has called `Shutdown` has raised the flag, so that an execution that
starts afterwards is one that was overtaken.  `TypeIsCorrect` (`TypeOK`, with it that
no channel but the input holds more than its buffer) and `NothingIsLost` (`NothingLost`)
are two of the four parts of `ElementsAccounted`, for every finite acyclic graph.  The
places an element's copies can be in are sets side by side (`Spread`): positions in
channels, channels a goroutine still owes it to, collectors, positions in what the
caller has read.  `AccountInv` says that together they number `copies` at most, and
exactly as long as the context is not done: a copy is never in two places, and only
a cancellation loses one.  It needs `HandsOK` (who is on its way to send has an element
in hand and who is not has none; an element that failed is owed to the stage's shared
channel alone) and `IdleOK` (before `Execute` there is nothing anywhere).

The other two parts do not hold on every graph that `Build` accepts, so their theorems
name the graphs on which they do.  `TracksStayInOrder` (`TracksKeepOrder`, cancelled or
not) is for graphs with `OneWay`: to a place, a channel and the mark an element has
there, leads one way only.  Without it two downstreams that compete for one channel and
meet again in a merge overtake each other.  `OrderInv` says that nothing is behind a
later element of its track (`OrderAt`: between places, and between hand, channel and
caller at one place) nor in one row with it (`RowsOK`), and that all elements are at
places of the graph (`PlacesOK`).  A step moves an element to a place behind which
everything was behind it already; that one goroutine only has an element in hand for a
place (`OneHand`) is what `OneWay` is for.  `FailuresReachTheCaller`
(`FailuresAreTold`) is for graphs with `OnlyMergesBehind`: a router may route an error
nowhere, and a second `MapStage` that fails leaves unread what it was sent.
`ToldInv` follows the error through the stages behind the one that failed
(`OnTheWay`), and says that who is over has drained a closed channel (`ReadersDrain`), so that
at the end the error can only be with the caller.  `EveryElementAccounted`
(`ElementsAccounted`) is all four parts, under both conditions.  `MCStagePipeline`
has TLC evaluate both conditions on the graph of the run; on a diamond without router, on two
maps in a row and on a router behind a map, which break one condition each, TLC finds the
property violated.

**Duplex conversations.**  `NoSenderPanics` (`SendersNeverPanic`) for any number of
senders, reviewers, closers and calls.  `LockInv` is the discipline of `c.mu`: a
sender in its send is a reader, a closer past the lock is the writer and has
waited for the readers, and a closed session has no reader left.  The session's
own test of `closed` plays no part in it, which is what hazard
`duplex_session.go:232` is about.

`ReviewIsHonoured` (`ReviewHonoured`) and `ConversationImplementsApproval` (the
refinement `ImplementsApproval`) rest on `CallInv`: from the checker on a call is in at
most one place and there once (`OnePlace`: pending, in a reviewer's hand, resolved, in a
batch, a channel or a message, or answered), before that in one message of the model
and nowhere else (`ProposedOnce`), and beyond the reviewer only when its handler has run or it
was rejected (`Decided`).  The abstract state of a call is read off that place
(`StateOf`), and every action is shown to be one step of the contract or none.

**MCP.**  `TypeIsCorrect`; `ResultsAreOwn` (`AnswersMatch`), from `RequestInv`: an id is
given out once by a connection, so that what is pending and what travels under one id
are of one call (`IdsInv`), and what is in a response channel is for the call that
reads it (`RepliesInv`): a late reply after a retry cannot be taken for another's.
`NothingIsOrphaned` (`NoOrphan`), from `OwnerInv`: a client that is
running is owned once: by the registry's map, by the caller that makes it or by the
admin that closes it (`OneOwner`, `Kept`), `Close` holds the lock until it has taken the
whole map (`ClosingInv`), and the owner tells how far the connection is (`ConnInv`);
and from `ClosedInv`: behind a `Close` that overtook nobody no caller is on its way to
the map, and what is still in it is about to be closed.
`LimitIsKept` (`WithinLimit`), from `SlotInv`: the callers that have a slot and no client
yet, and the clients that are owned, together are at most the slots taken, as long as
no dead client has been replaced.

**Workflows.**  `TypeIsCorrect`; `TurnsAreConsistent` (`TurnsConsistent`), from `SoloInv`:
unless calls overlap, one call runs at a time and the active conversation, the tool it
was offered and what is pending in it fit the machine's state;
`MachineIsConsistent` (`MachineConsistent`), from `VisitsInv` (no context has more visits
than the limit: the machine's, the stored one, one that is being stored) and `CountInv`
(the stored visits lack at most the last transition); `StoreIsConsistent`
(`StoreConsistent`), from `StoreInv`: the snapshot a call is about to write is the machine
as it is (`CopyInv`), the stored history is the head of the machine's and
`historyAppended` its length (`PrefixInv`), the machine's own history chains and leads
to its state (`ChainInv`), and what was saved is the machine (`UpToDateInv`).

**Unary turns.**  `TypeIsCorrect`; `NothingIsStoredTwice` (`NothingTwice`);
`StoredStays` (the action property `StoreOnlyGrows`); `ReturnedTurnsAreStored`
(`ReturnedIsStored`); `TheLogIsWhole` (`LogIsWhole`).  Their common base is `HandsInv`:
a turn's own messages are a numbered tail of its context (`MsgsAt`), the save stage has
them in order (`NewAt`), what is stored or in a snapshot was said by its turn
(`KnownInv`), and only `fullSave` writes back what it loaded (`WriteInv`).  `OrderInv`
excludes a second copy: with a log nothing of a turn is stored past the end of the store
in the turn's hands (`PlaceAt`), without one only turns that have returned are stored,
in order (`SavedInv`).  `CurrentInv`: the snapshot that is about to be written back is
the store, unless the turn is overlapped.  `StoredInv`: what returned is in the store
and in every snapshot.  `LogInv`: every call has its result behind it but the last while
it runs (`CallsAt`), the slice behind `lastPersistedSeq` is in range (`RangeAt`), the
store is a prefix of what the turn has in hand (`PrefixAt`) and has whole rounds between
them (`RoundsAt`).

**Only model-checked**: the liveness properties, as the prover does not handle
fairness.  Every invariant of a run is a theorem, `ElementsAccounted` under the two
conditions on the graph.

## Where code and documentation disagree

Shown by a run.

* `turn_log_window`.  `preSeedLog` and `persistMessages` (`stages_provider.go:1112`,
  `:1134`) take the index of a message in the context for its position in the store.
  With `WithContextWindow` the context is shorter than the store: the message of a
  later turn's user is taken for one the store has, and once the store is longer
  than context and reply together the slice is out of range and panics.
  `options.go:1141` promises that messages "survive process crashes".

Met while modelling; the models have the behaviour of the code, and where a property
would fail because of it the property names the case.

*Streaming path.*
* A mid-stream retry (`base_provider.go:675`) streams without a slot, so that more
  requests than the limit are in flight (`stream_semaphore.go:9`).
  `UpstreamWithinLimit` is stated for the default retry window.
* A caller that stops reading leaves the consumer blocked with its slot
  (`base_provider.go:565`), though the comment at `:562` says a slow caller does not
  hold one.
* The error chunk of a failed attempt is forwarded before the reset chunk (`:649`),
  where `:585` says it is as if the attempt had never happened.
* The OpenAI consumer sends a chunk with a finish reason and the cost for the usage-only
  event and reads on (`openai.go:952`), and a second one for `[DONE]` (`:935`) that has
  a finish reason and no cost.  `streaming.go:81` says that the finish reason is "nil
  until stream is complete" and `:107` that the cost is "only present in final chunk";
  after the usage chunk an error, more content or a mid-stream retry may still come.
  `ClosingChunkIsLast` is about the chunk after which the consumer returns.
* The idle timer of the peek closes an `io.NopCloser` (`stream_retry_driver.go:217`)
  and interrupts nothing.

*A2A server.*
* A client that leaves message/stream leaves its task `working`, which no eviction
  removes (`server_stream.go:394`; `concepts/a2a.md:115`).  `EveryTaskSettles` names the
  case (`Abandoned`).
* `complete` emits its event also when the store refused the state
  (`server_stream.go:212`).
* A submitted task can be cancelled, and a tool result makes a new task instead of
  resuming the one that asked (`server.go:592`); the diagram in `concepts/a2a.md:99`
  has it otherwise.

*Event bus.*
* The first `Subscribe` raises `started` before it adds to the WaitGroup
  (`bus.go:230`): a `Close` in between does not wait for the workers.
  `CleanCloseDelivers` leaves that window out.  A second `Close` returns at once
  (`:439`), while the first still drains.

*Stage pipeline.*
* The strategy routers of `router_strategies.go` never close the channels of their
  edges, and `MetricsStage` returns on a cancelled context without closing its
  output: the stages behind them are left to the idle timer.  `stage.go` says a stage
  with several outputs must close them.
* `MapStage` sends its error without looking at the context and may be stuck with it
  (`Wedged`); `collectOutput` sends to the caller in the same way, so that a caller
  who abandons the output keeps the execution for ever.
* A stage that fails stops reading, and what is before it blocks until the idle timer;
  the error itself reaches only an event.
* `Execute` tests the flag and registers in two steps (`pipeline.go:55`, `overtaken`);
  a second `Shutdown` returns nil while executions run.

*Unary turns.*
* A stage's error does not reach `Send`: after a failed load the turn runs without its
  history, after a failed save it returns a reply that is not stored
  (`pipeline-architecture.md:334` describes errors that propagate).
* Overlapping turns lose each other's messages on a store without append
  (`stages_save.go:217`) and may panic with a message log, though
  `sdk/conversation.go:94` says conversations are safe for concurrent use.
* A failed pre-seed loses the user's message; a failed last append is not repeated; a
  turn that is cut off in its tool loop stores calls without results; a conversation
  that expires during a turn is stored twice in part.

*Duplex conversations.*
* `handleToolCalls` (`duplex_session.go:407`), `SubmitToolResults` (`:628`) and the
  stage send on channels that `Close` may have closed: they panic.  Only senders are
  protected, and that is what `SendersNeverPanic` says.
* The gate fails open when the pending store refuses a call (`sdk/sdk.go:882`); the
  contract has this as `RunUngated`.
* Resolutions that were taken for a submission that fails are lost; `ResolveTool` runs
  its handler after a `Close`; a provider session that cannot be opened is not reported
  to the reader.
* The comment on `Close` (`conversation.go:1273`) says it does not drain; it does.

*Voice.*
* A transcript that arrives after the response is finished is ignored
  (`stages_duplex_provider_session.go:981`) unless the microphone was heard since; the
  turn gets the placeholder although the reorder stage waits for late transcripts.  The
  flag is written by two goroutines without a lock.
* A turn end that is held when the next one comes is replaced by it (`replaced`), and
  the timer goes on from the first.  A transcript after the timeout is taken for the
  other turn's (`guessed`).
* The comment of the reorder stage (`transcript_reorder.go:17`) says that it
  "guarantees that, within a turn, the user's input transcript is emitted before that
  turn's assistant text".  When two responses end before their transcripts come, the
  second end replaces the first (`:172`), the first transcript resolves both turns, and
  each later one is taken for the turn after its own: with three utterances the third
  answer is sent before the third user's words.  `UserBeforeText` is stated for runs in which
  no end was replaced.
* Audio that is already in a channel at a barge-in is still played, and a drop signal
  taken late may drop audio of the next response.

* A server's error event is passed on as an error chunk and the receive loop reads on
  (`realtime_session_integration.go:645`), but the provider stage ends on that chunk
  (`stages_duplex_provider_session.go:944`): what the server says afterwards, a turn-end
  included, stays in the queue of the pump and has no reader (`CutOff`).

*Workflows.*
* Calls that overlap (`sdk/workflow_test.go:1152` means them to) commit transitions in
  the middle of a turn without `wc.mu`: a stale snapshot overwrites a newer one, the
  history gets an entry twice, a scheduled transition is dropped.
* `workflow.current` and `workflow.history` are two writes: a crash between them leaves
  the history short, a lost acknowledgement repeats an entry.
* Once the history is trimmed at its limit nothing more is appended to it
  (`runtime/workflow/context.go:33`).  A transition that was not saved and is trimmed
  away before the next save leaves a hole in the stored history; `HistoryChains`
  ends where trimming begins.
* A `Transition` that cannot open its conversation leaves a closed one active; `Send`
  fails until a later transition succeeds.  The limit of an `on_max_visits` target is
  not tested.

*MCP.*
* `checkHealth` does not notice that a stdio process has died, so the reconnection in
  `client.go` is never reached, against `runtime-tools-mcp.md:405`.
* Replacing a dead client gives its slot back twice, so that `MaxProcesses` can be
  exceeded (`replaced`); with the limit reached a dead client cannot be replaced.
* A client that is initialized while `Close` runs is put into the table of the closed
  registry: the last check of `createNewClient` does not test `closed`
  (`registry.go:272`).  A second `Close` returns at once (`:496`) and `UnregisterServer`
  refuses (`:169`), so that the connection stays open, where `:491` says that `Close`
  "shuts down all MCP servers and connections".  `NoOrphan` names the case (`overtaken`).
* A refresh that ends after `UnregisterServer` puts stale tools into the index.

## Not modelled

Whole parts: provider adapters, prompt packs, templates and configuration, evals and
hooks, speech, credentials, telemetry, storage, the tool registry, compositions,
memory and skills, the event store and the stages that transform one element at a
time.  They convert, score, parse or do I/O; their difficulty is in data, which a
state machine says nothing about.  They are most of the repository's lines:
vendor formats, option setters, command line tools and converters.  `PROJECT.json`
gives the reason for each.

Inside modelled parts: durations, metrics and logs; authentication, health checks,
JSON-RPC framing and the recovery of handler panics in the A2A server; sequence numbers
of events; several executions of one pipeline at a time, `PriorityChannel`, a merge made
for another number of inputs than its graph has, which fails at once
(`stages_advanced.go:131`); summaries,
retrieval, the message index, forks, and the steps inside one operation of the file and
Redis stores; the Redis pending store; forks of an MCP registry and `GetClient`'s
fall-through to the parent (`registry.go:209`), the streamable HTTP transport and the
unreachable reconnection of MCP clients; the wall-time budget and the artifacts of
workflows; Gemini's interruptions and the scenario path of the duplex stage.

Three kinds of results are outside the prover's reach and are left to TLC: liveness
under fairness, statements about `ENABLED`, and induction over data.

## Plan

Next: several executions of one pipeline, the Redis stores' internal steps, and
Gemini's realtime session beside OpenAI's.
