------------------------- MODULE DuplexConversation -------------------------
(***************************************************************************)
(* A duplex (live) conversation of the SDK: the Conversation and its lock  *)
(* (sdk/conversation.go, conversation_tools.go), the duplex session with   *)
(* its forwarding goroutine (sdk/session/duplex_session.go), the duplex    *)
(* provider stage with its two loops (runtime/pipeline/stage), and the     *)
(* human-in-the-loop gate over the pending store.                          *)
(*                                                                         *)
(* Actors: Senders call SendChunk with audio (SendText, SendFrame and the  *)
(* others are the same code), Reviewers call ResolveTool, RejectTool and   *)
(* ContinueDuplex, Closers call Close or Clear.  The session's goroutine   *)
(* is exec; the stage is Process with its response loop, fwd its input     *)
(* loop.  The provider and the reader of Response() are the environment.   *)
(*                                                                         *)
(* An action is what a goroutine does between two operations that others   *)
(* can see: a channel operation, a critical section, a lock acquired.  A   *)
(* channel is a sequence with a capacity; a select with several ready      *)
(* cases may take any; a send on a closed channel panics, and a panic is   *)
(* the end of the process.  An element is its kind and the calls it is     *)
(* about.  The pipeline's channels from the stage to the session are one   *)
(* channel, its other stages pass everything through, and its idle timeout *)
(* is left out.                                                            *)
(***************************************************************************)
EXTENDS PendingToolStore, Sequences

CONSTANTS Calls,       \* tool calls the model may make
          Messages,    \* the sets of calls that the messages of the model carry
          Gated,       \* those whose tool was registered by OnToolAsync and wants approval
          Senders, Reviewers, Closers,
          InputCap,    \* capacity of stageInput
          OutCap,      \* capacity of the pipeline's output
          MaxBuffered, \* chunks of audio kept while the provider session opens
          AddMayFail,  \* the pending store is a durable one, whose Add may return an error
          None         \* no closer, no call

ASSUME DuplexAssumption ==
    /\ Gated \subseteq Calls /\ Messages \subseteq SUBSET Calls /\ {} \notin Messages
    /\ None \notin Calls /\ None \notin Closers
    /\ {InputCap, OutCap} \subseteq Nat \ {0}
    /\ {MaxBuffered, MaxPending} \subseteq Nat /\ AddMayFail \in BOOLEAN

VARIABLES
    writer,     \* the closer that holds or awaits c.mu, which keeps new readers out
    readers,    \* senders that hold c.mu for reading
    convClosed, \* c.closed
    sender,     \* per sender: its control
    closer,     \* per closer: its control
    closed,     \* s.closed, and stageInput closed
    cancelled,  \* the session context is done
    input,      \* contents of stageInput
    out,        \* contents of the pipeline's output
    exec,       \* executePipeline: its control, tool calls left, results, anything held
    stage,      \* DuplexProviderStage.Process: its control
    replay,     \* the elements buffered before the provider session was open
    fwd,        \* forwardInputElements: its control and the results in hand
    reviewer,   \* per reviewer: its control, the call it decides, the batch it submits
    gate,       \* gate[c]: what the checker made of the call
    verdict,    \* verdict[c]: the reviewers' decision
    ran,        \* ran[c]: how often the tool's handler ran
    answered,   \* the calls whose results the provider received
    panic       \* the goroutine that panicked, or "no"

lockVars    == <<writer, readers, convClosed>>
sessionVars == <<closed, cancelled>>
stageVars   == <<stage, replay, fwd>>
reviewVars  == <<reviewer, verdict>>
callVars    == <<gate, ran, answered>>
storeVars   == <<pending, resolved>>
vars == <<lockVars, sender, closer, sessionVars, input, out, exec, stageVars, reviewVars,
          callVars, storeVars, panic>>

\* A panic stops every goroutine.
Alive == panic = "no" /\ UNCHANGED panic

Elem(kind, calls) == [kind |-> kind, calls |-> calls]

Init ==
    /\ writer = None /\ readers = {} /\ convClosed = FALSE
    /\ sender = [s \in Senders |-> "idle"]
    /\ closer = [k \in Closers |-> "idle"]
    /\ closed = FALSE /\ cancelled = FALSE
    /\ input = <<>> /\ out = <<>>
    /\ exec = [at |-> "none", todo |-> {}, results |-> {}, held |-> FALSE]
    /\ stage = "none" /\ replay = <<>> /\ fwd = [at |-> "none", calls |-> {}]
    /\ reviewer = [r \in Reviewers |-> [at |-> "idle", call |-> None, batch |-> {}]]
    /\ gate = [c \in Calls |-> "new"]
    /\ verdict = [c \in Calls |-> "none"]
    /\ ran = [c \in Calls |-> 0]
    /\ answered = {}
    /\ StoreInit
    /\ panic = "no"

-----------------------------------------------------------------------------
(* SendChunk.  The caller holds c.mu for reading through the whole call;   *)
(* the first call starts the pipeline.                                     *)

\* stageInput <- e, by `who`: waits for room; a closed channel panics.
SendInput(e, who) ==
    /\ panic = "no"
    /\ IF closed THEN panic' = who /\ UNCHANGED input
       ELSE Len(input) < InputCap /\ input' = Append(input, e) /\ UNCHANGED panic

SendChunkHolding(s, lock) ==
    /\ sender[s] = "idle"
    /\ writer = None /\ ~convClosed /\ ~closed
    /\ sender' = [sender EXCEPT ![s] = "sending"]
    /\ readers' = readers \cup lock
    /\ exec' = [exec EXCEPT !.at = IF @ = "none" THEN "loop" ELSE @]
    /\ stage' = IF exec.at = "none" THEN "first" ELSE stage
    /\ UNCHANGED <<writer, convClosed, closer, sessionVars, input, out, replay, fwd,
                   reviewVars, callVars, storeVars>>
    /\ Alive

\* Mutant: c.mu is released before the session's SendChunk.
SendChunkUnlocked(s) == SendChunkHolding(s, {})

SendChunk(s) == SendChunkHolding(s, {s})

\* The select of SendChunk: the element is queued, or the caller's context is
\* done.
SendChunkReturns(s) ==
    /\ sender[s] = "sending"
    /\ \/ SendInput(Elem("audio", {}), "sender")
       \/ UNCHANGED input /\ Alive
    /\ sender' = [sender EXCEPT ![s] = "idle"]
    /\ readers' = readers \ {s}
    /\ UNCHANGED <<writer, convClosed, closer, sessionVars, out, exec, stageVars,
                   reviewVars, callVars, storeVars>>

-----------------------------------------------------------------------------
(* executePipeline: the session's goroutine.                               *)

ExecUnchanged == UNCHANGED <<lockVars, sender, closer, sessionVars, stageVars, reviewVars>>

\* The loop takes an element of the pipeline.
ExecReceives ==
    /\ exec.at = "loop" /\ out # <<>>
    /\ out' = Tail(out)
    /\ exec' = [exec EXCEPT !.at = CASE Head(out).kind = "calls" -> "tools"
                                     [] Head(out).kind = "error" -> "error"
                                     [] OTHER -> "forward",
                            !.todo = Head(out).calls]
    /\ UNCHANGED <<input, callVars, storeVars>> /\ Alive /\ ExecUnchanged

\* The pipeline closed its output.
ExecPipelineEnds ==
    /\ exec.at = "loop" /\ out = <<>> /\ stage = "ended"
    /\ exec' = [exec EXCEPT !.at = "exited"]
    /\ UNCHANGED <<input, out, callVars, storeVars>> /\ Alive /\ ExecUnchanged

\* The session context is done: the loop and every blocking select of it end.
ExecCancelled ==
    /\ exec.at \in {"loop", "results", "forward", "error"} /\ cancelled
    /\ exec' = [exec EXCEPT !.at = "exited"]
    /\ UNCHANGED <<input, out, callVars, storeVars>> /\ Alive /\ ExecUnchanged

\* Where handleToolCalls goes: on to the next call of the message, then to the
\* results of those executed, then to the pending ones, which are surfaced.
NextTool(todo, results, held) ==
    [todo |-> todo, results |-> results, held |-> held,
     at |-> IF todo # {}         THEN "tools"
            ELSE IF results # {} THEN "results"
            ELSE IF held         THEN "forward" ELSE "loop"]

\* checkHITLGate on a call that needs approval: it goes to the pending store.
ExecHolds(c) ==
    /\ exec.at = "tools" /\ c \in exec.todo /\ c \in Gated
    /\ Add(c)
    /\ gate' = [gate EXCEPT ![c] = "held"]
    /\ exec' = NextTool(exec.todo \ {c}, exec.results, TRUE)
    /\ UNCHANGED <<input, out, ran, answered, resolved>> /\ Alive /\ ExecUnchanged

\* A call that needs no approval is executed.  So is one that the pending
\* store refused: the checker returns nil when Add fails, as it does for a tool
\* that is not gated.
ExecRuns(c) ==
    /\ exec.at = "tools" /\ c \in exec.todo
    /\ c \notin Gated \/ Full \/ AddMayFail
    /\ gate' = [gate EXCEPT ![c] = "passed"]
    /\ ran' = [ran EXCEPT ![c] = @ + 1]
    /\ exec' = NextTool(exec.todo \ {c}, exec.results \cup {c}, exec.held)
    /\ UNCHANGED <<input, out, answered, storeVars>> /\ Alive /\ ExecUnchanged

\* SendToolResults of handleToolCalls.
ExecSendsResults ==
    /\ exec.at = "results"
    /\ SendInput(Elem("results", exec.results), "exec")
    /\ exec' = NextTool({}, {}, exec.held)
    /\ UNCHANGED <<out, callVars, storeVars>> /\ ExecUnchanged

\* forwardChunk, of a chunk or of the pending tools.  If Response() was never
\* taken a chunk without room is dropped, otherwise it waits for the reader,
\* who may never come: this action has no fairness.
ExecForwards ==
    /\ exec.at = "forward"
    /\ exec' = [exec EXCEPT !.at = "loop", !.held = FALSE]
    /\ UNCHANGED <<input, out, callVars, storeVars>> /\ Alive /\ ExecUnchanged

\* An error element: the error chunk waits for the reader, and the loop ends.
ExecFails ==
    /\ exec.at = "error"
    /\ exec' = [exec EXCEPT !.at = "exited"]
    /\ UNCHANGED <<input, out, callVars, storeVars>> /\ Alive /\ ExecUnchanged

ExecStep == \/ ExecReceives \/ ExecPipelineEnds \/ ExecCancelled
            \/ \E c \in Calls : ExecHolds(c) \/ ExecRuns(c)
            \/ ExecSendsResults

-----------------------------------------------------------------------------
(* DuplexProviderStage.                                                    *)

StageUnchanged == UNCHANGED <<lockVars, sender, closer, sessionVars, exec, reviewVars, gate,
                              ran, storeVars>>

Audio(q) == {i \in DOMAIN q : q[i].kind = "audio"}

\* preSessionBuffer.add: over the bound the oldest audio goes, never the element
\* of a drain or tool results.
Buffered(q, e) ==
    LET all == Append(q, e)
    IN  IF Cardinality(Audio(all)) <= MaxBuffered THEN all
        ELSE LET i == CHOOSE i \in Audio(all) : \A j \in Audio(all) : i <= j
             IN  SubSeq(all, 1, i - 1) \o SubSeq(all, i + 1, Len(all))

\* Process waits for the first element without looking at its context.
StageReceivesFirst ==
    /\ stage = "first"
    /\ \/ /\ input # <<>>
          /\ stage' = "opening"
          /\ replay' = Buffered(<<>>, Head(input)) /\ input' = Tail(input)
       \/ /\ input = <<>> /\ closed
          /\ stage' = "ended"
          /\ UNCHANGED <<replay, input>>
    /\ UNCHANGED <<out, fwd, answered>> /\ Alive /\ StageUnchanged

Buffering == \A i \in DOMAIN replay : replay[i].kind # "eos"

\* The drain goroutine buffers the input while the provider session opens, and
\* goes on after a failed open: Process waits for it.
StageBuffers ==
    /\ stage \in {"opening", "failed"} /\ Buffering /\ input # <<>>
    /\ replay' = Buffered(replay, Head(input)) /\ input' = Tail(input)
    /\ UNCHANGED <<out, stage, fwd, answered>> /\ Alive /\ StageUnchanged

\* CreateStreamSession returns.
StageOpens ==
    /\ stage = "opening"
    /\ \/ stage' = "running" /\ fwd' = [fwd EXCEPT !.at = "reading"]
       \/ stage' = "failed" /\ UNCHANGED fwd
    /\ UNCHANGED <<input, out, replay, answered>> /\ Alive /\ StageUnchanged

StageFailedEnds ==
    /\ stage = "failed"
    /\ cancelled \/ ~Buffering \/ (input = <<>> /\ closed)
    /\ stage' = "ended"
    /\ UNCHANGED <<input, out, replay, fwd, answered>> /\ Alive /\ StageUnchanged

\* forwardInputElements reads what was buffered, then the input.  The element
\* of a drain ends it, as a closed input does; text goes to the provider,
\* tool results are first recorded on the output.
FwdTakes(e) ==
    fwd' = CASE e.kind = "eos"     -> [fwd EXCEPT !.at = "finished"]
             [] e.kind = "audio"   -> [fwd EXCEPT !.at = "sending"]
             [] e.kind = "results" -> [at |-> "recording", calls |-> e.calls]

FwdReceives ==
    /\ fwd.at = "reading"
    /\ \/ /\ replay # <<>>
          /\ FwdTakes(Head(replay)) /\ replay' = Tail(replay) /\ UNCHANGED input
       \/ /\ replay = <<>> /\ input # <<>>
          /\ FwdTakes(Head(input)) /\ input' = Tail(input) /\ UNCHANGED replay
       \/ /\ replay = <<>> /\ input = <<>> /\ closed
          /\ fwd' = [fwd EXCEPT !.at = "finished"] /\ UNCHANGED <<replay, input>>
    /\ UNCHANGED <<out, stage, answered>> /\ Alive /\ StageUnchanged

\* Its context is the session's, until Process cancels it.
FwdCancelled ==
    /\ fwd.at \in {"reading", "recording"}
    /\ cancelled \/ stage \in {"grace", "ended"}
    /\ fwd' = [fwd EXCEPT !.at = "cancelled"]
    /\ UNCHANGED <<input, out, stage, replay, answered>> /\ Alive /\ StageUnchanged

\* The tool result messages go to the output for the state store, as one
\* element here.  Process closes the output when it returns.
FwdRecords ==
    /\ fwd.at = "recording" /\ panic = "no"
    /\ IF stage = "ended" THEN panic' = "stage" /\ UNCHANGED out
       ELSE Len(out) < OutCap /\ out' = Append(out, Elem("record", {})) /\ UNCHANGED panic
    /\ fwd' = [fwd EXCEPT !.at = "sending"]
    /\ UNCHANGED <<input, stage, replay, answered>> /\ StageUnchanged

\* sendElementToSession: a failed send is logged and the element is gone.
FwdSends ==
    /\ fwd.at = "sending"
    /\ \/ stage # "ended" /\ answered' = answered \cup fwd.calls
       \/ UNCHANGED answered
    /\ fwd' = [at |-> "reading", calls |-> {}]
    /\ UNCHANGED <<input, out, stage, replay>> /\ Alive /\ StageUnchanged

FwdStep == FwdReceives \/ FwdCancelled \/ FwdRecords \/ FwdSends

\* handleResponseChunk, of a chunk the provider has sent and the output has
\* room for.
RespForwards(e) ==
    /\ stage = "running" /\ Len(out) < OutCap
    /\ out' = Append(out, e)
    /\ UNCHANGED <<input, replay, fwd, answered>> /\ Alive /\ StageUnchanged

ProviderSpeaks == RespForwards(Elem("text", {})) /\ UNCHANGED stage

Proposed == {c \in Calls : gate[c] # "new"} \cup exec.todo
                \cup UNION {out[i].calls : i \in DOMAIN out}

\* The message that ends a turn of the model carries tool calls.
ProviderCalls(S) ==
    /\ S \cap Proposed = {}
    /\ RespForwards(Elem("calls", S)) /\ UNCHANGED stage

\* An error chunk goes out and ends the response loop.
ProviderFails ==
    RespForwards(Elem("error", {})) /\ stage' = "grace"

\* The response loop ends: what was accumulated goes out if there is room
\* before its send gives up, and Process cancels the input loop.
RespEnds ==
    /\ stage = "running" /\ stage' = "grace"
    /\ \/ Len(out) < OutCap /\ out' = Append(out, Elem("text", {}))
       \/ UNCHANGED out
    /\ UNCHANGED <<input, replay, fwd, answered>> /\ Alive /\ StageUnchanged

\* The provider hung up.
ProviderCloses == RespEnds

\* The context is done; or the input has ended and the stage closed the
\* provider session itself, at once after the element of a drain, after the
\* final-response timeout otherwise.
StageStops == (cancelled \/ fwd.at = "finished") /\ RespEnds

\* Process waits for the input loop, 100 ms at most, closes the provider
\* session and its output.
StageEnds ==
    /\ stage = "grace" /\ stage' = "ended"
    /\ UNCHANGED <<input, out, replay, fwd, answered>> /\ Alive /\ StageUnchanged

StageStep == \/ StageReceivesFirst \/ StageBuffers \/ StageOpens \/ StageFailedEnds
             \/ StageStops \/ StageEnds

-----------------------------------------------------------------------------
(* Reviewers.  Neither ResolveTool nor RejectTool looks at c.closed.       *)

ReviewUnchanged == UNCHANGED <<lockVars, sender, closer, sessionVars, out, exec, stageVars,
                               gate, answered>>

\* ResolveToolWithArgs peeks first, to recover the handler before it claims.
ResolvePeeks(r, c) ==
    /\ reviewer[r].at = "idle" /\ Get(c)
    /\ reviewer' = [reviewer EXCEPT ![r].at = "peeked", ![r].call = c]
    /\ UNCHANGED <<input, verdict, ran, storeVars>> /\ Alive /\ ReviewUnchanged

\* Mutant: the loser of the claim takes a call that was approved for its own.
ResolveClaimsShared(r) ==
    /\ reviewer[r].at = "peeked"
    /\ \/ Claim(reviewer[r].call)
       \/ ~Get(reviewer[r].call) /\ UNCHANGED pending
    /\ LET c == reviewer[r].call
       IN  IF Get(c) \/ verdict[c] = "approved"
           THEN /\ verdict' = [verdict EXCEPT ![c] = "approved"]
                /\ reviewer' = [reviewer EXCEPT ![r].at = "approved"]
           ELSE /\ reviewer' = [reviewer EXCEPT ![r].at = "idle", ![r].call = None]
                /\ UNCHANGED verdict
    /\ UNCHANGED <<input, ran, resolved>> /\ Alive /\ ReviewUnchanged

\* The claim: the winner goes on to run the handler, the loser gets
\* ErrPendingAlreadyResolved.
ResolveClaims(r) ==
    /\ reviewer[r].at = "peeked"
    /\ \/ /\ Claim(reviewer[r].call)
          /\ verdict' = [verdict EXCEPT ![reviewer[r].call] = "approved"]
          /\ reviewer' = [reviewer EXCEPT ![r].at = "approved"]
       \/ /\ ~Get(reviewer[r].call)
          /\ reviewer' = [reviewer EXCEPT ![r].at = "idle", ![r].call = None]
          /\ UNCHANGED <<pending, verdict>>
    /\ UNCHANGED <<input, ran, resolved>> /\ Alive /\ ReviewUnchanged

\* Mutant: RejectTool looks the call up and leaves it in the store.
RejectToolPeeks(r, c) ==
    /\ reviewer[r].at = "idle" /\ Get(c)
    /\ verdict' = [verdict EXCEPT ![c] = "rejected"]
    /\ reviewer' = [reviewer EXCEPT ![r].at = "rejected", ![r].call = c]
    /\ UNCHANGED <<input, ran, storeVars>> /\ Alive /\ ReviewUnchanged

RejectTool(r, c) ==
    /\ reviewer[r].at = "idle" /\ Claim(c)
    /\ verdict' = [verdict EXCEPT ![c] = "rejected"]
    /\ reviewer' = [reviewer EXCEPT ![r].at = "rejected", ![r].call = c]
    /\ UNCHANGED <<input, ran, resolved>> /\ Alive /\ ReviewUnchanged

\* ResolveApproved runs the handler, ResolveRejected does not; the resolution
\* waits for ContinueDuplex.
Resolves(r) ==
    /\ reviewer[r].at \in {"approved", "rejected"}
    /\ ran' = [ran EXCEPT ![reviewer[r].call] = IF reviewer[r].at = "approved" THEN @ + 1 ELSE @]
    /\ ResolvedAdd(reviewer[r].call)
    /\ reviewer' = [reviewer EXCEPT ![r].at = "idle", ![r].call = None]
    /\ UNCHANGED <<input, verdict, pending>> /\ Alive /\ ReviewUnchanged

\* ContinueDuplex looks at c.closed under c.mu and releases it, pops the
\* resolutions, and SubmitToolResults looks at s.closed under closeMu, which
\* Close holds from its first step to its last.  A closed session loses the
\* batch.  The three are one action: of the steps that fall between them, those
\* of Close have the effect of a context that ends the send below.
ContinueDuplex(r) ==
    /\ reviewer[r].at = "idle" /\ resolved # {}
    /\ writer = None /\ ~convClosed
    /\ PopAll
    /\ reviewer' = IF closed THEN reviewer
                   ELSE [reviewer EXCEPT ![r].at = "submitting", ![r].batch = resolved]
    /\ UNCHANGED <<input, verdict, ran, pending>> /\ Alive /\ ReviewUnchanged

\* The select of SendToolResults: the results are queued, or the caller's
\* context is done and they are lost.
SubmitToolResults(r) ==
    /\ reviewer[r].at = "submitting"
    /\ \/ SendInput(Elem("results", reviewer[r].batch), "reviewer")
       \/ UNCHANGED input /\ Alive
    /\ reviewer' = [reviewer EXCEPT ![r].at = "idle", ![r].batch = {}]
    /\ UNCHANGED <<verdict, ran, storeVars>> /\ ReviewUnchanged

ReviewerStep(r) ==
    \/ \E c \in Calls : ResolvePeeks(r, c) \/ RejectTool(r, c)
    \/ ResolveClaims(r) \/ Resolves(r) \/ ContinueDuplex(r) \/ SubmitToolResults(r)

\* The cleanup loop of the pending store.
Expires ==
    /\ \E S \in SUBSET pending : S # {} /\ RemoveExpired(S)
    /\ UNCHANGED <<input, reviewVars, ran, resolved>> /\ Alive /\ ReviewUnchanged

-----------------------------------------------------------------------------
(* Close and Clear hold c.mu for writing to their end.                     *)

CloseUnchanged == Alive /\ UNCHANGED <<sender, out, exec, stageVars, reviewVars, callVars,
                                       storeVars>>

\* c.mu.Lock: from here new readers wait.
Locks(k, op) ==
    /\ closer[k] = "idle" /\ writer = None
    /\ writer' = k
    /\ closer' = [closer EXCEPT ![k] = op]
    /\ UNCHANGED <<readers, convClosed, sessionVars, input>> /\ CloseUnchanged

\* The readers have left.  Close drains the session: nothing to do when it is
\* closed, a plain Close when it was never started, otherwise the element that
\* ends the input.
CloseLocked(k) ==
    /\ closer[k] = "close" /\ readers = {}
    /\ convClosed' = TRUE
    /\ writer' = IF closed THEN None ELSE writer
    /\ closer' = [closer EXCEPT ![k] = IF closed                THEN "returned"
                                       ELSE IF exec.at = "none" THEN "closing" ELSE "eos"]
    /\ UNCHANGED <<readers, sessionVars, input>> /\ CloseUnchanged

\* Clear closes the session and keeps the conversation; the history it clears
\* is not modelled.
ClearLocked(k) ==
    /\ closer[k] = "clear" /\ readers = {}
    /\ writer' = IF closed THEN None ELSE writer
    /\ closer' = [closer EXCEPT ![k] = IF closed THEN "returned" ELSE "closing"]
    /\ UNCHANGED <<readers, convClosed, sessionVars, input>> /\ CloseUnchanged

\* Mutant: Drain waits for room without looking at its context.
DrainSendsOnly(k) ==
    /\ closer[k] = "eos" /\ Len(input) < InputCap
    /\ input' = Append(input, Elem("eos", {}))
    /\ closer' = [closer EXCEPT ![k] = "closing"]
    /\ UNCHANGED <<lockVars, sessionVars>> /\ CloseUnchanged

\* Drain sends the element, or its 30 s are over.  Then it waits for the
\* pipeline, for the playout grace or for the 30 s, and closes: whichever comes
\* first, the close comes at any time.
Drain(k) ==
    /\ closer[k] = "eos"
    /\ \/ Len(input) < InputCap /\ input' = Append(input, Elem("eos", {}))
       \/ UNCHANGED input
    /\ closer' = [closer EXCEPT ![k] = "closing"]
    /\ UNCHANGED <<lockVars, sessionVars>> /\ CloseUnchanged

\* duplexSession.Close: the flag and the channel, then the context.
ClosesInput(k) ==
    /\ closer[k] = "closing"
    /\ closed' = TRUE
    /\ closer' = [closer EXCEPT ![k] = "cancel"]
    /\ UNCHANGED <<lockVars, cancelled, input>> /\ CloseUnchanged

Cancels(k) ==
    /\ closer[k] = "cancel"
    /\ cancelled' = TRUE
    /\ writer' = None
    /\ closer' = [closer EXCEPT ![k] = "returned"]
    /\ UNCHANGED <<readers, convClosed, closed, input>> /\ CloseUnchanged

CloserStep(k) == \/ CloseLocked(k) \/ ClearLocked(k) \/ Drain(k) \/ ClosesInput(k)
                 \/ Cancels(k)

-----------------------------------------------------------------------------
Next ==
    \/ \E s \in Senders : SendChunk(s) \/ SendChunkReturns(s)
    \/ ExecStep \/ ExecForwards \/ ExecFails
    \/ StageStep \/ FwdStep
    \/ ProviderSpeaks \/ ProviderFails \/ ProviderCloses
    \/ \E S \in Messages : ProviderCalls(S)
    \/ \E r \in Reviewers : ReviewerStep(r)
    \/ Expires
    \/ \E k \in Closers : Locks(k, "close") \/ Locks(k, "clear") \/ CloserStep(k)

Spec == Init /\ [][Next]_vars

\* The goroutines run, a tool handler and CreateStreamSession return, the
\* timers of Drain fire, and the callers of SendChunk have a deadline.
Fairness ==
    /\ WF_vars(ExecStep) /\ WF_vars(StageStep) /\ WF_vars(FwdStep)
    /\ \A s \in Senders : WF_vars(SendChunkReturns(s))
    /\ \A k \in Closers : WF_vars(CloserStep(k))

FairSpec == Spec /\ Fairness

-----------------------------------------------------------------------------
(* Properties.                                                             *)

Elems == {Elem(k, S) : k \in {"audio", "text", "eos", "results", "calls", "error", "record"},
                       S \in SUBSET Calls}

\* Every variable holds what its goroutine or channel can hold; the channels
\* stay within their capacities.
TypeOK ==
    /\ writer \in Closers \cup {None} /\ readers \subseteq Senders /\ convClosed \in BOOLEAN
    /\ sender \in [Senders -> {"idle", "sending"}]
    /\ closer \in [Closers -> {"idle", "close", "clear", "eos", "closing", "cancel",
                               "returned"}]
    /\ closed \in BOOLEAN /\ cancelled \in BOOLEAN
    /\ input \in Seq(Elems) /\ Len(input) <= InputCap
    /\ out \in Seq(Elems) /\ Len(out) <= OutCap
    /\ exec \in [at : {"none", "loop", "tools", "results", "forward", "error", "exited"},
                 todo : SUBSET Calls, results : SUBSET Calls, held : BOOLEAN]
    /\ stage \in {"none", "first", "opening", "failed", "running", "grace", "ended"}
    /\ replay \in Seq(Elems)
    /\ fwd \in [at : {"none", "reading", "recording", "sending", "finished", "cancelled"},
                calls : SUBSET Calls]
    /\ Cardinality(Audio(replay)) <= MaxBuffered
    /\ reviewer \in [Reviewers -> [at : {"idle", "peeked", "approved", "rejected", "submitting"},
                                   call : Calls \cup {None}, batch : SUBSET Calls]]
    /\ gate \in [Calls -> {"new", "held", "passed"}]
    /\ verdict \in [Calls -> {"none", "approved", "rejected"}]
    /\ ran \in [Calls -> Nat] /\ answered \subseteq Calls
    /\ pending \subseteq Calls /\ resolved \subseteq Calls
    /\ panic \in {"no", "sender", "exec", "reviewer", "stage"}

\* SendChunk never sends on the closed input channel, whatever Close and Clear
\* do meanwhile: it holds c.mu for reading, although the session's own check of
\* s.closed is made and given up before the send (duplex_session.go SendChunk).
SendersNeverPanic == panic # "sender"

\* The handler of a tool runs at most once per call, whoever approves and
\* however often, and for a call that was held only after an approval: a
\* rejected or expired call never runs (conversation_tools.go, Claim).
GateHonoured ==
    \A c \in Calls : /\ ran[c] <= 1
                     /\ ran[c] = 1 => verdict[c] = "approved" \/ gate[c] = "passed"

Holders(c) == {r \in Reviewers : c \in reviewer[r].batch}
Queued(q, c) == {i \in DOMAIN q : q[i].kind = "results" /\ c \in q[i].calls}
In(c, S) == IF c \in S THEN 1 ELSE 0

\* The result of a call is in one place at a time on its way to the provider,
\* and the provider gets it once: two reviewers that continue at the same time
\* share the resolutions and never send one twice (ResolvedStore.PopAll).
OneResultPerCall ==
    \A c \in Calls :
        In(c, resolved) + Cardinality(Holders(c)) + Cardinality(Queued(input, c))
            + Cardinality(Queued(replay, c)) + In(c, exec.results) + In(c, fwd.calls)
            + In(c, answered) <= 1

CallState ==
    [c \in Calls |-> IF c \in answered                THEN "answered"
                     ELSE IF ran[c] > 0               THEN "run"
                     ELSE IF verdict[c] # "none"      THEN verdict[c]
                     ELSE IF c \in pending            THEN "held"
                     ELSE IF gate[c] = "held"         THEN "expired" ELSE "new"]

Approval == INSTANCE ToolApproval WITH Calls <- Calls, Gated <- Gated, Capacity <- MaxPending,
                                       MayFail <- AddMayFail, call <- CallState

\* The conversation implements the approval contract: a call is held, decided
\* once, run after an approval only, answered after the decision, and passes
\* the gate unheld only when the store refuses it (sdk.go newAsyncToolChecker).
ImplementsApproval == Approval!Spec

\* Close and Clear return: senders let go of c.mu when their context ends, and
\* Drain bounds its own waits (conversation.go Close, duplex_session.go Drain).
CloseReturns == \A k \in Closers : closer[k] # "idle" ~> closer[k] = "returned" \/ panic # "no"

\* A closed session comes to rest: its goroutine and its stage end, whatever
\* they were blocked on (duplex_session.go Close).
SessionEnds == closed ~> \/ exec.at \in {"none", "exited"} /\ stage \in {"none", "ended"}
                         \/ panic # "no"

\* Review works: a gated handler runs only for the reviewer who claimed the
\* call, and every call has at most one result on its way (conversation.go
\* ResolveTool, sdk/tools/pending.go PopAll).
ReviewHonoured == TypeOK /\ GateHonoured /\ OneResultPerCall

\* Closing works: Close and Clear return, and the session comes to rest.
EveryoneReturns == CloseReturns /\ SessionEnds
=============================================================================
