------------------------- MODULE StreamBackpressure -------------------------
(***************************************************************************)
(* The streaming request path every provider delegates to                  *)
(* (runtime/providers): the concurrent-stream semaphore, the retry driver  *)
(* with its token-bucket budget, the provider's stream consumer, the relay *)
(* that forwards chunks to the caller and, when the retry window is        *)
(* "always", retries after a mid-stream failure, and the caller            *)
(* (ProviderStage.processStreamChunks).                                    *)
(*                                                                         *)
(* A request r opens at most two upstream streams, <<r, 1>> by             *)
(* RunStreamingRequest and <<r, 2>> by midStreamRetry.  phase[r] says      *)
(* which of the two the open loop and the relay are working on.            *)
(***************************************************************************)
EXTENDS Integers, FiniteSets, Sequences

CONSTANTS
    Reqs,        \* streaming requests issued against one provider
    Limit,       \* StreamSemaphore limit; <= 0 is the nil semaphore
    Burst,       \* RetryBudget burst; <= 0 is the nil budget
    Enabled,     \* StreamRetryPolicy.Enabled
    MaxAttempts, \* StreamRetryPolicy.MaxAttempts
    Window,      \* StreamRetryPolicy.Window
    BufferSize,  \* DefaultStreamBufferSize
    MaxChunks,   \* bound: content and usage chunks per upstream stream
    MaxRefills,  \* bound: tokens the bucket accrues while the model runs
    Cancellable, \* bound: the requests whose context may end
    UsageReqs,   \* bound: the requests whose streams have usage-only events
    CallersStop  \* whether a chunk interceptor may make the caller stop reading

ASSUME ConstantsAssumption ==
    /\ IsFiniteSet(Reqs) /\ Cancellable \subseteq Reqs /\ UsageReqs \subseteq Reqs
    /\ Limit \in Int /\ Burst \in Int /\ MaxAttempts \in Int
    /\ Enabled \in BOOLEAN /\ CallersStop \in BOOLEAN
    /\ Window \in {"pre_first_chunk", "always"}
    /\ BufferSize \in Nat \ {0}
    /\ MaxChunks \in Nat /\ MaxRefills \in Nat

VARIABLES
    pc,         \* per request: control of the open loop
    phase,      \* per request: 1 first stream, 2 mid-stream retry
    attempt,    \* per request: the open loop's attempt index
    ctxDone,    \* per request: its context was cancelled or timed out
    idleFired,  \* per request: the idle timer of the current peek fired
    inUse,      \* slots taken from the semaphore
    tokens,     \* whole tokens in the budget's bucket
    refills,    \* tokens accrued so far (bounds the model)
    redials,    \* dials that are not the first dial of their request
    upstream,   \* per stream: the HTTP exchange with the provider
    consumer,   \* per stream: the consumer goroutine
    produced,   \* per stream: content and usage chunks parsed from the body
    hand,       \* per stream: the chunk the consumer is sending, or "none"
    inner,      \* per stream: innerChan / retryChan contents
    relay,      \* per request: the relay goroutine
    content,    \* per request: forwardChunks has counted a content chunk
    sent,       \* per request: every chunk ever sent on outChan
    recvd,      \* per request: how many of them the caller has received
    caller      \* per request: the loop reading outChan

openVars   == <<pc, phase, attempt, ctxDone, idleFired>>
budgetVars == <<tokens, refills>>
streamVars == <<upstream, consumer, produced, hand, inner>>
relayVars  == <<relay, content, sent>>
callerVars == <<recvd, caller>>
vars == <<openVars, inUse, budgetVars, redials, streamVars, relayVars, callerVars>>

Streams == Reqs \X {1, 2}

DefaultStreamRetryMaxAttempts == 2

Attempts ==
    IF ~Enabled THEN 1
    ELSE IF MaxAttempts < 1 THEN DefaultStreamRetryMaxAttempts ELSE MaxAttempts

Chunks == {"content", "usage", "final", "error", "reset"}

\* The chunks after which streamResponse reads on.
ReadsOn == {"content", "usage"}

Current(r) == <<r, phase[r]>>

InnerClosed(s) == consumer[s] \in {"closed", "done"}

HasRoom(ch) == Len(ch) < BufferSize

OutHasRoom(r) == Len(sent[r]) - recvd[r] < BufferSize

-----------------------------------------------------------------------------
Init ==
    /\ pc = [r \in Reqs |-> "idle"]
    /\ phase = [r \in Reqs |-> 1]
    /\ attempt = [r \in Reqs |-> 0]
    /\ ctxDone = [r \in Reqs |-> FALSE]
    /\ idleFired = [r \in Reqs |-> FALSE]
    /\ inUse = 0
    /\ tokens = IF Burst > 0 THEN Burst ELSE 0
    /\ refills = 0
    /\ redials = 0
    /\ upstream = [s \in Streams |-> "none"]
    /\ consumer = [s \in Streams |-> "none"]
    /\ produced = [s \in Streams |-> 0]
    /\ hand = [s \in Streams |-> "none"]
    /\ inner = [s \in Streams |-> << >>]
    /\ relay = [r \in Reqs |-> "none"]
    /\ content = [r \in Reqs |-> FALSE]
    /\ sent = [r \in Reqs |-> << >>]
    /\ recvd = [r \in Reqs |-> 0]
    /\ caller = [r \in Reqs |-> "none"]

(* The caller invokes RunStreamingRequest. *)
Call(r) ==
    /\ pc[r] = "idle"
    /\ pc' = [pc EXCEPT ![r] = "acquire"]
    /\ UNCHANGED <<phase, attempt, ctxDone, idleFired, inUse, budgetVars,
                   redials, streamVars, relayVars, callerVars>>

(* The request's context is cancelled or reaches its deadline. *)
CancelContext(r) ==
    /\ r \in Cancellable
    /\ pc[r] # "idle"
    /\ ~ctxDone[r]
    /\ ctxDone' = [ctxDone EXCEPT ![r] = TRUE]
    /\ UNCHANGED <<pc, phase, attempt, idleFired, inUse, budgetVars, redials,
                   streamVars, relayVars, callerVars>>

(* The token bucket accrues a token. *)
Refill ==
    /\ 0 < Burst
    /\ tokens < Burst
    /\ refills < MaxRefills
    /\ tokens' = tokens + 1
    /\ refills' = refills + 1
    /\ UNCHANGED <<openVars, inUse, redials, streamVars, relayVars, callerVars>>

(* Mutant: the limit is off by one. *)
SlotAvailableOffByOne == Limit > 0 => inUse <= Limit

(* StreamSemaphore.Acquire and Release; the nil semaphore does nothing. *)
SlotAvailable == Limit > 0 => inUse < Limit

TakeSlot == inUse' = IF Limit > 0 THEN inUse + 1 ELSE inUse

ReleaseStreamSlot == inUse' = IF Limit > 0 THEN inUse - 1 ELSE inUse

(* RetryBudget.TryAcquire when it returns TRUE; a nil budget always does. *)
TryAcquire ==
    /\ Burst > 0 => tokens > 0
    /\ tokens' = IF Burst > 0 THEN tokens - 1 ELSE tokens
    /\ UNCHANGED refills

BudgetEmpty == Burst > 0 /\ tokens = 0

-----------------------------------------------------------------------------
(* RunStreamingRequest: the slot. *)

AcquireStreamSlot(r) ==
    /\ pc[r] = "acquire"
    /\ SlotAvailable
    /\ TakeSlot
    /\ pc' = [pc EXCEPT ![r] = "attempt"]
    /\ UNCHANGED <<phase, attempt, ctxDone, idleFired, budgetVars, redials,
                   streamVars, relayVars, callerVars>>

(* Acquire returns the context's error: nothing to release. *)
AcquireRejected(r) ==
    /\ pc[r] = "acquire"
    /\ ctxDone[r]
    /\ pc' = [pc EXCEPT ![r] = "failed"]
    /\ UNCHANGED <<phase, attempt, ctxDone, idleFired, inUse, budgetVars,
                   redials, streamVars, relayVars, callerVars>>

(***************************************************************************)
(* OpenStreamWithRetryRequest returns an error.  RunStreamingRequest's     *)
(* deferred function then releases the slot; in midStreamRetry the relay   *)
(* goes on to emit a terminal error chunk.                                 *)
(***************************************************************************)
OpenFails(r) ==
    /\ pc' = [pc EXCEPT ![r] = "failed"]
    /\ IF phase[r] = 1
         THEN /\ ReleaseStreamSlot
              /\ UNCHANGED relay
         ELSE /\ relay' = [relay EXCEPT ![r] = "refused"]
              /\ UNCHANGED inUse

(***************************************************************************)
(* OpenStreamWithRetryRequest returns a body: the consumer goroutine is    *)
(* started on it.  In RunStreamingRequest the relay starts too and the     *)
(* channel is handed to the caller, and the slot now belongs to the        *)
(* consumer; in midStreamRetry the relay goes on with retryChan.           *)
(***************************************************************************)
OpenSucceeds(r) ==
    /\ pc' = [pc EXCEPT ![r] = "open"]
    /\ consumer' = [consumer EXCEPT ![Current(r)] = "reading"]
    /\ relay' = [relay EXCEPT ![r] = "forward"]
    /\ caller' = [caller EXCEPT ![r] = IF phase[r] = 1 THEN "reading" ELSE @]
    /\ UNCHANGED inUse

-----------------------------------------------------------------------------
(* OpenStreamWithRetryRequest: the loop over attempts. *)

(* ctx.Err() at the head of the loop, or a request that cannot be built. *)
AttemptAborted(r) ==
    /\ pc[r] = "attempt"
    /\ OpenFails(r)
    /\ UNCHANGED <<phase, attempt, ctxDone, idleFired, budgetVars, redials,
                   streamVars, content, sent, callerVars>>

Dial(r) ==
    /\ pc[r] = "attempt"
    /\ ~ctxDone[r]
    /\ pc' = [pc EXCEPT ![r] = "do"]
    /\ upstream' = [upstream EXCEPT ![Current(r)] = "dialing"]
    /\ redials' = IF phase[r] = 1 /\ attempt[r] = 0 THEN redials ELSE redials + 1
    /\ UNCHANGED <<phase, attempt, ctxDone, idleFired, inUse, budgetVars,
                   consumer, produced, hand, inner, relayVars, callerVars>>

(* Do returns 200: the body is open and its first frame is peeked. *)
ResponseOK(r) ==
    /\ pc[r] = "do"
    /\ pc' = [pc EXCEPT ![r] = "peek"]
    /\ upstream' = [upstream EXCEPT ![Current(r)] = "open"]
    /\ idleFired' = [idleFired EXCEPT ![r] = FALSE]
    /\ UNCHANGED <<phase, attempt, ctxDone, inUse, budgetVars, redials,
                   consumer, produced, hand, inner, relayVars, callerVars>>

(***************************************************************************)
(* classifyStreamAttempt reports a failure, the body already closed.  A    *)
(* failure that is not transient, or that of the last attempt, ends the    *)
(* loop; any other one goes on to the budget.                              *)
(***************************************************************************)
AttemptFails(r, transient) ==
    /\ upstream' = [upstream EXCEPT ![Current(r)] = "none"]
    /\ \/ /\ transient
          /\ attempt[r] < Attempts - 1
          /\ pc' = [pc EXCEPT ![r] = "budget"]
          /\ UNCHANGED <<inUse, relay>>
       \/ /\ ~transient \/ attempt[r] >= Attempts - 1
          /\ OpenFails(r)
    /\ UNCHANGED <<phase, attempt, ctxDone, idleFired, budgetVars, redials,
                   consumer, produced, hand, inner, content, sent, callerVars>>

(* Do fails (transient unless the context ended it) or the status is not 200. *)
ResponseFails(r) ==
    /\ pc[r] = "do"
    /\ \E transient \in BOOLEAN : AttemptFails(r, transient)

(***************************************************************************)
(* The peek's idle timer fires.  It closes the io.NopCloser around the     *)
(* body, which does nothing: the pending Read stays blocked.               *)
(***************************************************************************)
PeekIdleFires(r) ==
    /\ pc[r] = "peek"
    /\ ~idleFired[r]
    /\ idleFired' = [idleFired EXCEPT ![r] = TRUE]
    /\ UNCHANGED <<pc, phase, attempt, ctxDone, inUse, budgetVars, redials,
                   streamVars, relayVars, callerVars>>

(***************************************************************************)
(* PeekFirstFrame fails and the body is closed.  The read error counts as  *)
(* an idle timeout, never transient, once the timer has fired, and the     *)
(* context's error is never transient.                                     *)
(***************************************************************************)
PeekFails(r) ==
    /\ pc[r] = "peek"
    /\ \E transient \in {t \in BOOLEAN : /\ t => ~idleFired[r]
                                         /\ ~t => idleFired[r] \/ ctxDone[r]} :
            AttemptFails(r, transient)

PeekOK(r) ==
    /\ pc[r] = "peek"
    /\ OpenSucceeds(r)
    /\ UNCHANGED <<phase, attempt, ctxDone, idleFired, budgetVars, redials,
                   upstream, produced, hand, inner, content, sent, recvd>>

(* A retry needs a token; without one the loop fails fast. *)
RetryGranted(r) ==
    /\ pc[r] = "budget"
    /\ TryAcquire
    /\ pc' = [pc EXCEPT ![r] = "backoff"]
    /\ UNCHANGED <<phase, attempt, ctxDone, idleFired, inUse, redials,
                   streamVars, relayVars, callerVars>>

RetryDenied(r) ==
    /\ pc[r] = "budget"
    /\ BudgetEmpty
    /\ OpenFails(r)
    /\ UNCHANGED <<phase, attempt, ctxDone, idleFired, budgetVars, redials,
                   streamVars, content, sent, callerVars>>

BackoffElapsed(r) ==
    /\ pc[r] = "backoff"
    /\ pc' = [pc EXCEPT ![r] = "attempt"]
    /\ attempt' = [attempt EXCEPT ![r] = @ + 1]
    /\ UNCHANGED <<phase, ctxDone, idleFired, inUse, budgetVars, redials,
                   streamVars, relayVars, callerVars>>

BackoffCancelled(r) ==
    /\ pc[r] = "backoff"
    /\ ctxDone[r]
    /\ OpenFails(r)
    /\ UNCHANGED <<phase, attempt, ctxDone, idleFired, budgetVars, redials,
                   streamVars, content, sent, callerVars>>

-----------------------------------------------------------------------------
(***************************************************************************)
(* The consumer goroutine (streamResponse of the OpenAI provider).  It     *)
(* parses the body into a chunk and sends it; the sends on innerChan do    *)
(* not select on the context, they wait for room.                          *)
(***************************************************************************)
ConsumerParses(s, chunk) ==
    /\ consumer[s] = "reading"
    /\ hand[s] = "none"
    /\ hand' = [hand EXCEPT ![s] = chunk]
    /\ UNCHANGED <<openVars, inUse, budgetVars, redials, upstream, consumer,
                   inner, relayVars, callerVars>>

ConsumerReads(s) ==
    /\ ~ctxDone[s[1]]
    /\ produced[s] < MaxChunks
    /\ produced' = [produced EXCEPT ![s] = @ + 1]
    /\ ConsumerParses(s, "content")

(***************************************************************************)
(* The usage-only event (include_usage is always set): a chunk with a      *)
(* finish reason and the cost, after which the loop continues.  Nothing in *)
(* the code keeps it to one, or to the end of the content.                 *)
(***************************************************************************)
ConsumerUsage(s) ==
    /\ s[1] \in UsageReqs
    /\ ~ctxDone[s[1]]
    /\ produced[s] < MaxChunks
    /\ produced' = [produced EXCEPT ![s] = @ + 1]
    /\ ConsumerParses(s, "usage")

(* [DONE], or a finish reason with the usage in the same event: returns. *)
ConsumerFinishes(s) ==
    /\ ~ctxDone[s[1]]
    /\ ConsumerParses(s, "final")
    /\ UNCHANGED produced

(* A read error, an idle timeout, or the context seen done. *)
ConsumerErrors(s) ==
    /\ ConsumerParses(s, "error")
    /\ UNCHANGED produced

(* The body ends without a terminator, or the parser panics (safe.Run). *)
ConsumerEOF(s) ==
    /\ consumer[s] = "reading"
    /\ hand[s] = "none"
    /\ consumer' = [consumer EXCEPT ![s] = "returning"]
    /\ UNCHANGED <<openVars, inUse, budgetVars, redials, upstream, produced,
                   hand, inner, relayVars, callerVars>>

(* Mutant: the returns after the closing chunks are missing. *)
ConsumerSendsAndContinues(s) ==
    /\ consumer[s] = "reading"
    /\ hand[s] # "none"
    /\ HasRoom(inner[s])
    /\ inner' = [inner EXCEPT ![s] = Append(@, hand[s])]
    /\ hand' = [hand EXCEPT ![s] = "none"]
    /\ UNCHANGED <<openVars, inUse, budgetVars, redials, upstream, consumer,
                   produced, relayVars, callerVars>>

ConsumerSends(s) ==
    /\ consumer[s] = "reading"
    /\ hand[s] # "none"
    /\ HasRoom(inner[s])
    /\ inner' = [inner EXCEPT ![s] = Append(@, hand[s])]
    /\ consumer' = [consumer EXCEPT ![s] =
                       IF hand[s] \in ReadsOn THEN "reading" ELSE "returning"]
    /\ hand' = [hand EXCEPT ![s] = "none"]
    /\ UNCHANGED <<openVars, inUse, budgetVars, redials, upstream, produced,
                   relayVars, callerVars>>

(* The watcher goroutine closes the body when the context is done. *)
ContextClosesBody(s) ==
    /\ consumer[s] = "reading"
    /\ ctxDone[s[1]]
    /\ upstream[s] = "open"
    /\ upstream' = [upstream EXCEPT ![s] = "closed"]
    /\ UNCHANGED <<openVars, inUse, budgetVars, redials, consumer, produced,
                   hand, inner, relayVars, callerVars>>

(* The consumer's own defers: the body, then the channel. *)
ConsumerCloses(s) ==
    /\ consumer[s] = "returning"
    /\ upstream' = [upstream EXCEPT ![s] = "closed"]
    /\ consumer' = [consumer EXCEPT ![s] = "closed"]
    /\ UNCHANGED <<openVars, inUse, budgetVars, redials, produced, hand, inner,
                   relayVars, callerVars>>

(* Mutant: the mid-stream consumer releases a slot it never took. *)
ConsumerEndsAlwaysReleasing(s) ==
    /\ consumer[s] = "closed"
    /\ consumer' = [consumer EXCEPT ![s] = "done"]
    /\ ReleaseStreamSlot
    /\ UNCHANGED <<openVars, budgetVars, redials, upstream, produced, hand,
                   inner, relayVars, callerVars>>

(* Mutant: the consumer's deferred release is missing. *)
ConsumerEndsWithoutRelease(s) ==
    /\ consumer[s] = "closed"
    /\ consumer' = [consumer EXCEPT ![s] = "done"]
    /\ UNCHANGED <<openVars, inUse, budgetVars, redials, upstream, produced,
                   hand, inner, relayVars, callerVars>>

(* The goroutine ends; only RunStreamingRequest's consumer defers a release. *)
ConsumerEnds(s) ==
    /\ consumer[s] = "closed"
    /\ consumer' = [consumer EXCEPT ![s] = "done"]
    /\ IF s[2] = 1 THEN ReleaseStreamSlot ELSE UNCHANGED inUse
    /\ UNCHANGED <<openVars, budgetVars, redials, upstream, produced, hand,
                   inner, relayVars, callerVars>>

-----------------------------------------------------------------------------
(* The relay goroutine. *)

CanMidStreamRetry == Enabled /\ Window = "always"

(***************************************************************************)
(* forwardChunks: one iteration.  An error chunk is forwarded and ends the *)
(* loop; relayStream may then try a mid-stream retry, midStreamRetry just  *)
(* returns.                                                                *)
(***************************************************************************)
ForwardChunk(r) ==
    LET s == Current(r)
        chunk == Head(inner[s])
    IN  /\ relay[r] = "forward"
        /\ inner[s] # << >>
        /\ OutHasRoom(r)
        /\ inner' = [inner EXCEPT ![s] = Tail(@)]
        /\ sent' = [sent EXCEPT ![r] = Append(@, chunk)]
        /\ content' = [content EXCEPT ![r] = @ \/ chunk = "content"]
        /\ relay' = [relay EXCEPT ![r] =
                        IF chunk # "error" THEN "forward"
                        ELSE IF phase[r] = 1 /\ CanMidStreamRetry /\ content[r]
                             THEN "midstream" ELSE "closing"]
        /\ UNCHANGED <<openVars, inUse, budgetVars, redials, upstream,
                       consumer, produced, hand, callerVars>>

(* Mutant: the relay stops when the source is closed, drained or not. *)
SourceClosedUndrained(r) ==
    /\ relay[r] = "forward"
    /\ InnerClosed(Current(r))
    /\ relay' = [relay EXCEPT ![r] = "closing"]
    /\ UNCHANGED <<openVars, inUse, budgetVars, redials, streamVars, content,
                   sent, callerVars>>

(* The source channel is closed and drained. *)
SourceClosed(r) ==
    /\ relay[r] = "forward"
    /\ inner[Current(r)] = << >>
    /\ InnerClosed(Current(r))
    /\ relay' = [relay EXCEPT ![r] = "closing"]
    /\ UNCHANGED <<openVars, inUse, budgetVars, redials, streamVars, content,
                   sent, callerVars>>

(* Mutant: the mid-stream retry skips the budget. *)
MidStreamGrantedUnpaid(r) ==
    /\ relay[r] = "midstream"
    /\ relay' = [relay EXCEPT ![r] = "reset"]
    /\ UNCHANGED <<openVars, inUse, budgetVars, redials, streamVars, content,
                   sent, callerVars>>

(* relayStream: req.Budget.TryAcquire() before midStreamRetry. *)
MidStreamGranted(r) ==
    /\ relay[r] = "midstream"
    /\ TryAcquire
    /\ relay' = [relay EXCEPT ![r] = "reset"]
    /\ UNCHANGED <<openVars, inUse, redials, streamVars, content, sent,
                   callerVars>>

MidStreamDenied(r) ==
    /\ relay[r] = "midstream"
    /\ BudgetEmpty
    /\ relay' = [relay EXCEPT ![r] = "closing"]
    /\ UNCHANGED <<openVars, inUse, budgetVars, redials, streamVars, content,
                   sent, callerVars>>

(* midStreamRetry: emit Reset, then run the open loop again from scratch. *)
EmitReset(r) ==
    /\ relay[r] = "reset"
    /\ OutHasRoom(r)
    /\ sent' = [sent EXCEPT ![r] = Append(@, "reset")]
    /\ relay' = [relay EXCEPT ![r] = "opening"]
    /\ pc' = [pc EXCEPT ![r] = "attempt"]
    /\ phase' = [phase EXCEPT ![r] = 2]
    /\ attempt' = [attempt EXCEPT ![r] = 0]
    /\ UNCHANGED <<ctxDone, idleFired, inUse, budgetVars, redials, streamVars,
                   content, callerVars>>

(* midStreamRetry: the retry did not open; a terminal error chunk follows. *)
EmitRetryError(r) ==
    /\ relay[r] = "refused"
    /\ OutHasRoom(r)
    /\ sent' = [sent EXCEPT ![r] = Append(@, "error")]
    /\ relay' = [relay EXCEPT ![r] = "closing"]
    /\ UNCHANGED <<openVars, inUse, budgetVars, redials, streamVars, content,
                   callerVars>>

(* The relay's deferred close(outChan). *)
CloseOut(r) ==
    /\ relay[r] = "closing"
    /\ relay' = [relay EXCEPT ![r] = "done"]
    /\ UNCHANGED <<openVars, inUse, budgetVars, redials, streamVars, content,
                   sent, callerVars>>

-----------------------------------------------------------------------------
(* processStreamChunks: the loop over the returned channel. *)

(* One chunk; an error chunk makes it return without draining the rest. *)
CallerReceives(r) ==
    /\ caller[r] = "reading"
    /\ recvd[r] < Len(sent[r])
    /\ recvd' = [recvd EXCEPT ![r] = @ + 1]
    /\ caller' = [caller EXCEPT ![r] =
                    IF sent[r][recvd[r] + 1] = "error" THEN "stopped" ELSE @]
    /\ UNCHANGED <<openVars, inUse, budgetVars, redials, streamVars, relayVars>>

(* A chunk interceptor enforces or denies: the loop stops reading. *)
CallerStops(r) ==
    /\ CallersStop
    /\ caller[r] = "reading"
    /\ recvd[r] > 0
    /\ caller' = [caller EXCEPT ![r] = "stopped"]
    /\ UNCHANGED <<openVars, inUse, budgetVars, redials, streamVars, relayVars,
                   recvd>>

CallerSeesEOF(r) ==
    /\ caller[r] = "reading"
    /\ relay[r] = "done"
    /\ recvd[r] = Len(sent[r])
    /\ caller' = [caller EXCEPT ![r] = "eof"]
    /\ UNCHANGED <<openVars, inUse, budgetVars, redials, streamVars, relayVars,
                   recvd>>

-----------------------------------------------------------------------------
DialStep(r) == ResponseOK(r) \/ ResponseFails(r)

PeekStep(r) == PeekOK(r) \/ PeekFails(r)

LoopStep(r) ==
    \/ AcquireRejected(r)
    \/ AttemptAborted(r) \/ Dial(r)
    \/ PeekIdleFires(r)
    \/ RetryGranted(r) \/ RetryDenied(r)
    \/ BackoffElapsed(r) \/ BackoffCancelled(r)

OpenStep(r) ==
    AcquireStreamSlot(r) \/ LoopStep(r) \/ DialStep(r) \/ PeekStep(r)

ConsumerStep(s) ==
    \/ ConsumerReads(s) \/ ConsumerUsage(s)
    \/ ConsumerFinishes(s) \/ ConsumerErrors(s)
    \/ ConsumerEOF(s) \/ ConsumerSends(s) \/ ContextClosesBody(s)
    \/ ConsumerCloses(s) \/ ConsumerEnds(s)

RelayStep(r) ==
    \/ ForwardChunk(r) \/ SourceClosed(r)
    \/ MidStreamGranted(r) \/ MidStreamDenied(r)
    \/ EmitReset(r) \/ EmitRetryError(r) \/ CloseOut(r)

CallerStep(r) ==
    \/ CallerReceives(r) \/ CallerStops(r) \/ CallerSeesEOF(r)

Next ==
    \/ Refill
    \/ \E r \in Reqs : \/ Call(r) \/ CancelContext(r)
                       \/ OpenStep(r) \/ RelayStep(r) \/ CallerStep(r)
    \/ \E s \in Streams : ConsumerStep(s)

Spec == Init /\ [][Next]_vars

-----------------------------------------------------------------------------
(***************************************************************************)
(* Fairness.  The Go scheduler runs every goroutine that can run; the      *)
(* semaphore serves its waiters first come first served, so a waiter whose *)
(* turn keeps coming is served (strong fairness); timers fire.  The        *)
(* consumer's reads cannot hang either: the IdleTimeoutReader it puts      *)
(* around the body really closes it.  That the upstream answers a dial and *)
(* a peek, and that the caller keeps reading, are separate assumptions.    *)
(***************************************************************************)
RuntimeFairness ==
    /\ \A r \in Reqs : /\ SF_vars(AcquireStreamSlot(r))
                      /\ WF_vars(LoopStep(r))
                      /\ WF_vars(RelayStep(r))
    /\ \A s \in Streams : WF_vars(ConsumerStep(s))

UpstreamFairness == \A r \in Reqs : WF_vars(DialStep(r) \/ PeekStep(r))

CallerFairness ==
    \A r \in Reqs : WF_vars(CallerReceives(r) \/ CallerSeesEOF(r))

(* Everything makes progress. *)
FairSpec == Spec /\ RuntimeFairness /\ UpstreamFairness /\ CallerFairness

-----------------------------------------------------------------------------
(* Type correctness of every variable. *)
TypeOK ==
    /\ pc \in [Reqs -> {"idle", "acquire", "attempt", "do", "peek", "budget",
                        "backoff", "open", "failed"}]
    /\ phase \in [Reqs -> {1, 2}]
    /\ attempt \in [Reqs -> Nat]
    /\ ctxDone \in [Reqs -> BOOLEAN]
    /\ idleFired \in [Reqs -> BOOLEAN]
    /\ inUse \in Int
    /\ tokens \in Nat
    /\ refills \in Nat
    /\ redials \in Nat
    /\ upstream \in [Streams -> {"none", "dialing", "open", "closed"}]
    /\ consumer \in [Streams -> {"none", "reading", "returning", "closed",
                                 "done"}]
    /\ produced \in [Streams -> Nat]
    /\ hand \in [Streams -> Chunks \cup {"none"}]
    /\ inner \in [Streams -> Seq(Chunks)]
    /\ relay \in [Reqs -> {"none", "forward", "midstream", "reset", "opening",
                           "refused", "closing", "done"}]
    /\ content \in [Reqs -> BOOLEAN]
    /\ sent \in [Reqs -> Seq(Chunks)]
    /\ recvd \in [Reqs -> Nat]
    /\ caller \in [Reqs -> {"none", "reading", "stopped", "eof"}]

(* The requests that own a slot, read off the control state alone. *)
Opening(r) == pc[r] \in {"attempt", "do", "peek", "budget", "backoff"}

ConsumerOwnsSlot(r) ==
    consumer[<<r, 1>>] \in {"reading", "returning", "closed"}

HoldsSlot(r) == (phase[r] = 1 /\ Opening(r)) \/ ConsumerOwnsSlot(r)

Holders == {r \in Reqs : HoldsSlot(r)}

(***************************************************************************)
(* Every slot taken is owned by exactly one request: on every exit path of *)
(* RunStreamingRequest and of its consumer the slot is released once and   *)
(* only once, whichever of the deferred functions does it, so a slot never *)
(* leaks with no owner and the semaphore is never released too often.      *)
(***************************************************************************)
SlotConservation == Limit > 0 => inUse = Cardinality(Holders)

(* Requests with an upstream exchange: dialed, and the body not yet closed. *)
InFlight ==
    {r \in Reqs : \E k \in {1, 2} : upstream[<<r, k>>] \in {"dialing", "open"}}

(***************************************************************************)
(* The semaphore "caps the number of concurrent streaming requests a       *)
(* provider will have in flight at any one time" (stream_semaphore.go).    *)
(***************************************************************************)
UpstreamWithinLimit == Limit > 0 => Cardinality(InFlight) <= Limit

(***************************************************************************)
(* Only retries consume tokens and every retry does: the dials beyond each *)
(* request's first one, pre-first-chunk retries and mid-stream retries     *)
(* alike, never exceed the burst plus what the bucket has accrued since.   *)
(***************************************************************************)
RedialsWithinBudget == Burst > 0 => redials + tokens <= Burst + refills

(***************************************************************************)
(* The caller's channel ends with the chunk that closes the stream: a      *)
(* final chunk of [DONE] is the last one, and an error chunk is the last   *)
(* one or is followed by the Reset of the one mid-stream retry, which the  *)
(* Reset announces and nothing else does (streaming.go).  A usage chunk    *)
(* also has a finish reason and closes nothing: [DONE]'s chunk, more       *)
(* content or an error may follow it (openai.go).                          *)
(***************************************************************************)
ClosingChunkIsLast ==
    \A r \in Reqs :
        /\ \A i \in 1 .. Len(sent[r]) - 1 :
               /\ sent[r][i] # "final"
               /\ sent[r][i] = "error" <=> sent[r][i + 1] = "reset"
        /\ \A i, j \in 1 .. Len(sent[r]) :
               sent[r][i] = "reset" /\ sent[r][j] = "reset" => i = j

SentParsed(r) == {i \in 1 .. Len(sent[r]) : sent[r][i] \in ReadsOn}

(***************************************************************************)
(* A stream is never cut short silently: when the relay is done with a     *)
(* stream and has forwarded no error, the caller's channel has received    *)
(* every content and usage chunk the consumer parsed, text and cost alike, *)
(* also when the body just ended or the parser panicked with chunks still  *)
(* buffered in innerChan.                                                  *)
(***************************************************************************)
NoChunkLost ==
    \A r \in Reqs :
        /\ relay[r] \in {"closing", "done"}
        /\ \A i \in 1 .. Len(sent[r]) : sent[r][i] # "error"
        => Cardinality(SentParsed(r)) = produced[<<r, 1>>]

(***************************************************************************)
(* Under FairSpec: a request that asks for a slot ends, with an error or   *)
(* with its output channel closed: no retry, back-off, semaphore wait or   *)
(* full buffer keeps it for ever.                                          *)
(***************************************************************************)
EveryCallEnds ==
    \A r \in Reqs :
        pc[r] = "acquire" ~> relay[r] = "done" \/ (pc[r] = "failed" /\ phase[r] = 1)

(***************************************************************************)
(* The consumer gives the slot back once the body is drained "so a slow    *)
(* caller does not hold an upstream slot" (base_provider.go): every slot   *)
(* taken is eventually given back.                                         *)
(***************************************************************************)
EverySlotReturns == \A r \in Reqs : HoldsSlot(r) ~> ~HoldsSlot(r)

\* Requests come to rest with what they hold: every call ends and every slot
\* is given back (base_provider.go RunStreamingRequest, relayStream).
EveryStreamEnds == EveryCallEnds /\ EverySlotReturns
=============================================================================
