----------------------------- MODULE A2AServer -----------------------------
(***************************************************************************)
(* The A2A server (server/a2a/server.go, server/a2a/server_stream.go).     *)
(*                                                                         *)
(* Every accepted message/send or message/stream request is identified by  *)
(* the ID of the task it creates.  A send request is an HTTP handler that  *)
(* starts a goroutine, waits for it (or for the settle time) and answers   *)
(* with a snapshot; a stream request runs in its HTTP handler.  Around     *)
(* them run tasks/cancel handlers, tasks/subscribe handlers, the eviction  *)
(* loop and Shutdown.  The mutexes (the store's, cancelsMu, subsMu,        *)
(* convsMu, the broadcaster's) are each held for one operation, so one     *)
(* action is one critical section, and everything else interleaves.        *)
(*                                                                         *)
(* The conversation behind a task is external: Send, Stream, Resume and    *)
(* ResumeStream may give any result at any time, whether or not their     *)
(* context is cancelled.  A conversation object is named by the request    *)
(* that opened it.  Requests refused before they change anything (bad      *)
(* JSON, an opener that fails) are left out.                               *)
(***************************************************************************)
EXTENDS A2ATaskStore, Naturals, Sequences, FiniteSets

CONSTANTS Contexts,           \* context IDs
          Subs,               \* tasks/subscribe requests
          NoTask,             \* no conversation object
          MaxArtifacts,       \* bound: artifact events of one stream
          SubscriberBuffer,   \* subscriberBuffer
          MaxSubscribers,     \* maxSubscribers
          Streams,            \* the requests that are message/stream, not message/send
          Disconnecting,      \* the streams whose client may disconnect
          Canceling,          \* the tasks that clients may cancel
          TaskTTL, ConvTTL,   \* whether the TTLs are positive: 0 disables an eviction
          MayShutdown         \* whether Shutdown may be called

ASSUME A2AAssumption ==
    /\ NoTask \notin Tasks
    /\ MaxArtifacts \in Nat
    /\ SubscriberBuffer \in Nat \ {0}
    /\ MaxSubscribers \in Nat
    /\ Streams \subseteq Tasks
    /\ Disconnecting \subseteq Streams /\ Canceling \subseteq Tasks
    /\ TaskTTL \in BOOLEAN /\ ConvTTL \in BOOLEAN
    /\ MayShutdown \in BOOLEAN

VARIABLES context,     \* context[t]: the context ID of the request
          blocking,    \* blocking[t]: configuration.blocking of a send
          run,         \* run[t]: where the goroutine (send) or handler (stream) is
          result,      \* result[t]: what the conversation returned
          reply,       \* reply[t]: the send handler's answer
          wire,        \* wire[t]: the SSE events written to the client and broadcast
          cancels,     \* domain of s.cancels
          cancelled,   \* tasks whose cancel function was called
          gone,        \* streams whose client disconnected
          canceling,   \* tasks/cancel handlers between their two steps
          subs,        \* domain of s.subs
          bcast,       \* bcast[t]: the state of the task's broadcaster object
          sub,         \* sub[s]: the tasks/subscribe request s
          convs,       \* convs[c]: s.convs, or NoTask
          convOf,      \* convOf[t]: the conversation object the request holds
          closed,      \* conversation objects that were closed
          sweep,       \* evicted tasks whose cleanup is pending, and its step
          down,        \* how far Shutdown is
          drained      \* whether srv.Shutdown returned before its deadline

reqVars  == <<context, blocking>>
runVars  == <<run, result, reply, wire>>
ctxVars  == <<cancels, cancelled, gone, canceling>>
subVars  == <<subs, bcast, sub>>
convVars == <<convs, convOf, closed>>
srvVars  == <<sweep, down, drained>>

vars == <<storeVars, reqVars, runVars, ctxVars, subVars, convVars, srvVars>>

Results == {"content", "empty", "pending", "error"}

\* The state a result is recorded as.
FinalState(r) == CASE r = "error" -> "failed"
                   [] r = "pending" -> "input_required"
                   [] OTHER -> "completed"

\* s.ctx.Err() != nil: the cancel function was called, or, for a stream, the
\* request's context ended.
ContextDone(t) == t \in cancelled \cup gone

Goto(t, from, to) == /\ run[t] = from
                     /\ run' = [run EXCEPT ![t] = to]

Init ==
    /\ StoreInit
    /\ context \in [Tasks -> Contexts]
    /\ blocking = [t \in Tasks |-> FALSE]
    /\ run = [t \in Tasks |-> "none"]
    /\ result = [t \in Tasks |-> "none"]
    /\ reply = [t \in Tasks |-> "none"]
    /\ wire = [t \in Tasks |-> <<>>]
    /\ cancels = {} /\ cancelled = {} /\ gone = {} /\ canceling = {}
    /\ subs = {}
    /\ bcast = [t \in Tasks |-> "none"]
    /\ sub = [s \in Subs |-> [pc |-> "idle", task |-> NoTask, from |-> 0,
                              buf |-> <<>>, got |-> <<>>, dropped |-> FALSE]]
    /\ convs = [c \in Contexts |-> NoTask]
    /\ convOf = [t \in Tasks |-> NoTask]
    /\ closed = {}
    /\ sweep = [t \in Tasks |-> "none"]
    /\ down = "up"
    /\ drained = FALSE

-----------------------------------------------------------------------------
(* A request arrives: the part the four message handlers share.            *)

\* Mutant: the check and the store of the entry are not one critical section,
\* so a second opener may overwrite the first one's entry.
getOrCreateConversationUnlocked(t) ==
    /\ convOf' = [convOf EXCEPT ![t] = t]
    /\ convs' = [convs EXCEPT ![context[t]] = t]
    /\ UNCHANGED closed

\* getOrCreateConversation, one critical section of convsMu.  The context ID
\* is the request's own: Init chose it.
getOrCreateConversation(t) ==
    LET c == context[t]
    IN  /\ convOf' = [convOf EXCEPT ![t] = IF convs[c] = NoTask THEN t ELSE convs[c]]
        /\ convs' = [convs EXCEPT ![c] = IF @ = NoTask THEN t ELSE @]
        /\ UNCHANGED closed

Receive(t) ==
    /\ down = "up"
    /\ \E b \in BOOLEAN :
          /\ b => t \notin Streams
          /\ blocking' = [blocking EXCEPT ![t] = b]
    /\ getOrCreateConversation(t)
    /\ Goto(t, "none", "received")
    /\ UNCHANGED <<storeVars, context, result, reply, wire, ctxVars, subVars, srvVars>>

\* The message is refused after the conversation was opened: it cannot be
\* converted, a tool result is not accepted, or the conversation cannot do
\* what is asked of it.
RefuseMessage(t) ==
    /\ Goto(t, "received", "done")
    /\ UNCHANGED <<storeVars, reqVars, result, reply, wire, ctxVars, subVars, convVars,
                   srvVars>>

CreateTask(t) ==
    /\ Create(t)
    /\ Goto(t, "received", "created")
    /\ UNCHANGED <<reqVars, result, reply, wire, ctxVars, subVars, convVars, srvVars>>

-----------------------------------------------------------------------------
(* message/send: handleSendMessage, handleToolResultMessage, and the       *)
(* goroutine of runConversation and runResume.                             *)

\* The cancel function is registered before the goroutine starts.
RunConversation(t) ==
    /\ t \notin Streams
    /\ Goto(t, "created", "start")
    /\ cancels' = cancels \cup {t}
    /\ reply' = [reply EXCEPT ![t] = "waiting"]
    /\ UNCHANGED <<storeVars, reqVars, result, wire, cancelled, gone, canceling, subVars,
                   convVars, srvVars>>

SendWorking(t) ==
    /\ Goto(t, "start", "sending")
    /\ SetState(t, "working")
    /\ UNCHANGED <<reqVars, result, reply, wire, ctxVars, subVars, convVars, srvVars>>

\* Mutant: a result with content is recorded before its artifacts are stored.
SendSucceedsUnordered(t) ==
    /\ result' = [result EXCEPT ![t] = "content"]
    /\ Goto(t, "sending", "finalize")
    /\ UNCHANGED <<storeVars, reqVars, reply, wire, ctxVars, subVars, convVars, srvVars>>

\* conv.Send (conv.Resume) returns a result: pending tools, content, or neither.
SendSucceeds(t) ==
    /\ \E r \in Results \ {"error"} :
          /\ result' = [result EXCEPT ![t] = r]
          /\ Goto(t, "sending", IF r = "content" THEN "artifacts" ELSE "finalize")
    /\ UNCHANGED <<storeVars, reqVars, reply, wire, ctxVars, subVars, convVars, srvVars>>

\* It returns an error: a cancelled context leaves the state to the cancel
\* handler.
SendFails(t) ==
    /\ result' = [result EXCEPT ![t] = "error"]
    /\ Goto(t, "sending", IF ContextDone(t) THEN "exit" ELSE "finalize")
    /\ UNCHANGED <<storeVars, reqVars, reply, wire, ctxVars, subVars, convVars, srvVars>>

StoreArtifacts(t) ==
    /\ Goto(t, "artifacts", "finalize")
    /\ AddArtifacts(t)
    /\ UNCHANGED <<reqVars, result, reply, wire, ctxVars, subVars, convVars, srvVars>>

\* The SetState call that ends the task, of finalizeTask and of the error path.
finalizeTask(t) ==
    /\ t \notin Streams
    /\ Goto(t, "finalize", "exit")
    /\ SetState(t, FinalState(result[t]))
    /\ UNCHANGED <<reqVars, result, reply, wire, ctxVars, subVars, convVars, srvVars>>

\* The deferred calls: the entry of s.cancels is deleted, done is closed.
RunnerExits(t) ==
    /\ Goto(t, "exit", "done")
    /\ cancels' = cancels \ {t}
    /\ UNCHANGED <<storeVars, reqVars, result, reply, wire, cancelled, gone, canceling,
                   subVars, convVars, srvVars>>

\* The handler answers once done is closed or, when the request is not
\* blocking, after the settle time.
Reply(t) ==
    /\ reply[t] = "waiting"
    /\ run[t] = "done" \/ ~blocking[t]
    /\ reply' = [reply EXCEPT ![t] = IF Present(t) THEN status[t] ELSE "error"]
    /\ UNCHANGED <<storeVars, reqVars, run, result, wire, ctxVars, subVars, convVars, srvVars>>

-----------------------------------------------------------------------------
(* message/stream: handleStreamMessage, handleStreamToolResultMessage.     *)

\* Mutant: a full buffer loses its oldest event.
BroadcastDroppingOldest(t, e) ==
    sub' = [s \in Subs |->
              IF sub[s].pc = "attached" /\ sub[s].task = t /\ bcast[t] = "open"
              THEN [sub[s] EXCEPT !.buf = IF Len(@) < SubscriberBuffer
                                          THEN Append(@, e) ELSE Append(Tail(@), e)]
              ELSE sub[s]]

\* broadcaster.send: every attached subscriber gets the event or, when its
\* buffer is full, loses it.
Broadcast(t, e) ==
    sub' = [s \in Subs |->
              IF sub[s].pc = "attached" /\ sub[s].task = t /\ bcast[t] = "open"
              THEN IF Len(sub[s].buf) < SubscriberBuffer
                   THEN [sub[s] EXCEPT !.buf = Append(@, e)]
                   ELSE [sub[s] EXCEPT !.dropped = TRUE]
              ELSE sub[s]]

\* emit: the event goes to the client (writeSSE) and then to the subscribers
\* (broadcastEvent).  Nothing else reads what the client was sent, so the two are
\* one step, at the broadcast.
Emit(t, e) == /\ wire' = [wire EXCEPT ![t] = Append(@, e)]
              /\ Broadcast(t, e)

\* getBroadcaster: the task's broadcaster object is created and published.
OpenBroadcaster(t) ==
    /\ t \in Streams
    /\ Goto(t, "created", "opened")
    /\ subs' = subs \cup {t}
    /\ bcast' = [bcast EXCEPT ![t] = IF t \in subs THEN @ ELSE "open"]
    /\ UNCHANGED <<storeVars, reqVars, result, reply, wire, ctxVars, sub, convVars, srvVars>>

StreamWorking(t) ==
    /\ Goto(t, "opened", "announce")
    /\ SetState(t, "working")
    /\ UNCHANGED <<reqVars, result, reply, wire, ctxVars, subVars, convVars, srvVars>>

\* The working event is emitted whether or not SetState succeeded.
AnnounceWorking(t) ==
    /\ Goto(t, "announce", "register")
    /\ Emit(t, "working")
    /\ UNCHANGED <<storeVars, reqVars, result, reply, ctxVars, subs, bcast, convVars, srvVars>>

\* The cancel function is registered only now.
RegisterStream(t) ==
    /\ Goto(t, "register", "streaming")
    /\ cancels' = cancels \cup {t}
    /\ UNCHANGED <<storeVars, reqVars, result, reply, wire, cancelled, gone, canceling,
                   subVars, convVars, srvVars>>

StreamArtifact(t) ==
    /\ Goto(t, "streaming", "streaming")
    /\ Len(wire[t]) <= MaxArtifacts
    /\ Emit(t, "artifact")
    /\ UNCHANGED <<storeVars, reqVars, result, reply, ctxVars, subs, bcast, convVars, srvVars>>

\* handleEvent gets a Done, error or client-tool event, or the channel closes.
StreamEnds(t) ==
    /\ Goto(t, "streaming", "finalize")
    /\ \E r \in Results \ {"content"} : result' = [result EXCEPT ![t] = r]
    /\ UNCHANGED <<storeVars, reqVars, reply, wire, ctxVars, subVars, convVars, srvVars>>

\* Mutant: the final event is emitted without recording the state.
RecordFinalSkipped(t) ==
    /\ t \in Streams
    /\ Goto(t, "finalize", "final")
    /\ UNCHANGED <<storeVars, reqVars, result, reply, wire, ctxVars, subVars, convVars, srvVars>>

\* complete, fail and emitInputRequired: the state is recorded (an error is
\* only logged) ...
RecordFinal(t) ==
    /\ t \in Streams
    /\ Goto(t, "finalize", "final")
    /\ SetState(t, FinalState(result[t]))
    /\ UNCHANGED <<reqVars, result, reply, wire, ctxVars, subVars, convVars, srvVars>>

\* ... and the event is emitted all the same.
EmitFinal(t) ==
    /\ Goto(t, "final", "close")
    /\ Emit(t, FinalState(result[t]))
    /\ UNCHANGED <<storeVars, reqVars, result, reply, ctxVars, subs, bcast, convVars, srvVars>>

\* Mutant: the handler returns without cleaning up its broadcaster.
StreamContextDoneUnclean(t) ==
    /\ ContextDone(t)
    /\ Goto(t, "streaming", "done")
    /\ UNCHANGED <<storeVars, reqVars, result, reply, wire, ctxVars, subVars, convVars, srvVars>>

\* processEvents sees the context done: no state is recorded, no event is
\* emitted.  The select may as well pick an event that is there.
StreamContextDone(t) ==
    /\ ContextDone(t)
    /\ Goto(t, "streaming", "close")
    /\ UNCHANGED <<storeVars, reqVars, result, reply, wire, ctxVars, subVars, convVars, srvVars>>

CloseBroadcaster(t) ==
    /\ Goto(t, "close", "remove")
    /\ bcast' = [bcast EXCEPT ![t] = "closed"]
    /\ UNCHANGED <<storeVars, reqVars, result, reply, wire, ctxVars, subs, sub, convVars,
                   srvVars>>

\* The handler returns; its entry of s.cancels stays.
RemoveBroadcaster(t) ==
    /\ Goto(t, "remove", "done")
    /\ subs' = subs \ {t}
    /\ UNCHANGED <<storeVars, reqVars, result, reply, wire, ctxVars, bcast, sub, convVars,
                   srvVars>>

\* The client of a stream goes away: the request's context ends.
ClientDisconnects(t) ==
    /\ t \in Disconnecting \ gone
    /\ t \in Streams
    /\ run[t] # "done"
    /\ gone' = gone \cup {t}
    /\ UNCHANGED <<storeVars, reqVars, runVars, cancels, cancelled, canceling, subVars,
                   convVars, srvVars>>

-----------------------------------------------------------------------------
(* tasks/cancel: handleCancelTask.                                         *)

\* First step, under cancelsMu: cancel what is in flight.  One handler per
\* task at a time: a second one would find no entry and a terminal task.
CancelInFlight(t) ==
    /\ down = "up"
    /\ status[t] # "none"
    /\ t \in Canceling \ canceling
    /\ cancelled' = IF t \in cancels THEN cancelled \cup {t} ELSE cancelled
    /\ cancels' = cancels \ {t}
    /\ canceling' = canceling \cup {t}
    /\ UNCHANGED <<storeVars, reqVars, runVars, gone, subVars, convVars, srvVars>>

\* Second step: the store.
CancelTask(t) ==
    /\ t \in canceling
    /\ Cancel(t)
    /\ canceling' = canceling \ {t}
    /\ UNCHANGED <<reqVars, runVars, cancels, cancelled, gone, subVars, convVars, srvVars>>

-----------------------------------------------------------------------------
(* tasks/subscribe: handleTaskSubscribe.                                   *)

Attached(t) == {s \in Subs : sub[s].pc = "attached" /\ sub[s].task = t}

LookupBroadcaster(s) ==
    /\ down = "up"
    /\ sub[s].pc = "idle"
    /\ \E t \in Tasks :
          /\ status[t] # "none"
          /\ sub' = [sub EXCEPT ![s].task = t,
                                ![s].pc = IF t \in subs THEN "found" ELSE "missing"]
    /\ UNCHANGED <<storeVars, reqVars, runVars, ctxVars, subs, bcast, convVars, srvVars>>

\* No broadcaster: the task's current status is the only event.
SendStatus(s) ==
    /\ sub[s].pc = "missing"
    /\ sub' = [sub EXCEPT ![s].pc = "done",
                          ![s].got = IF Present(sub[s].task)
                                     THEN <<status[sub[s].task]>> ELSE <<>>]
    /\ UNCHANGED <<storeVars, reqVars, runVars, ctxVars, subs, bcast, convVars, srvVars>>

\* broadcaster.subscribe: a closed broadcaster gives a closed channel.
Subscribe(s) ==
    /\ sub[s].pc = "found"
    /\ LET t == sub[s].task
       IN  sub' = [sub EXCEPT
             ![s].pc = IF bcast[t] = "closed" \/ Cardinality(Attached(t)) >= MaxSubscribers
                       THEN "done" ELSE "attached",
             ![s].from = Len(wire[t])]
    /\ UNCHANGED <<storeVars, reqVars, runVars, ctxVars, subs, bcast, convVars, srvVars>>

SubscriberReceives(s) ==
    /\ sub[s].pc = "attached"
    /\ sub[s].buf # <<>>
    /\ sub' = [sub EXCEPT ![s].got = Append(@, Head(sub[s].buf)), ![s].buf = Tail(@)]
    /\ UNCHANGED <<storeVars, reqVars, runVars, ctxVars, subs, bcast, convVars, srvVars>>

\* The channel is closed and empty.
SubscriberEnds(s) ==
    /\ sub[s].pc = "attached"
    /\ sub[s].buf = <<>>
    /\ bcast[sub[s].task] = "closed"
    /\ sub' = [sub EXCEPT ![s].pc = "done"]
    /\ UNCHANGED <<storeVars, reqVars, runVars, ctxVars, subs, bcast, convVars, srvVars>>

\* The subscriber disconnects: unsubscribe.
SubscriberLeaves(s) ==
    /\ sub[s].pc = "attached"
    /\ sub' = [sub EXCEPT ![s].pc = "left"]
    /\ UNCHANGED <<storeVars, reqVars, runVars, ctxVars, subs, bcast, convVars, srvVars>>

-----------------------------------------------------------------------------
(* The eviction loop: evictOnce, every evictionInterval until Shutdown.    *)

\* evictTerminalTasks: the store first, then, task by task and under two
\* other locks, the cancel function and the broadcaster.
EvictTerminalTasks ==
    /\ TaskTTL
    /\ down = "up"
    /\ \A t \in Tasks : sweep[t] = "none"
    /\ \E old \in (SUBSET Tasks) \ {{}} :
          /\ EvictTerminal(old)
          /\ sweep' = [t \in Tasks |-> IF t \in old THEN "cancel" ELSE "none"]
    /\ UNCHANGED <<reqVars, runVars, ctxVars, subVars, convVars, down, drained>>

SweepCancel(t) ==
    /\ sweep[t] = "cancel"
    /\ sweep' = [sweep EXCEPT ![t] = "broadcaster"]
    /\ cancels' = cancels \ {t}
    /\ UNCHANGED <<storeVars, reqVars, runVars, cancelled, gone, canceling, subVars, convVars,
                   down, drained>>

SweepBroadcaster(t) ==
    /\ sweep[t] = "broadcaster"
    /\ sweep' = [sweep EXCEPT ![t] = "none"]
    /\ bcast' = [bcast EXCEPT ![t] = IF t \in subs THEN "closed" ELSE @]
    /\ subs' = subs \ {t}
    /\ UNCHANGED <<storeVars, reqVars, runVars, ctxVars, sub, convVars, down, drained>>

EvictClosedBroadcasters ==
    /\ down = "up"
    /\ \E t \in subs : bcast[t] = "closed"
    /\ subs' = {t \in subs : bcast[t] # "closed"}
    /\ UNCHANGED <<storeVars, reqVars, runVars, ctxVars, bcast, sub, convVars, srvVars>>

\* evictIdleConversations: the conversation was last asked for longer than
\* its TTL ago, which says nothing of a Send that is still running on it.
EvictIdleConversation(c) ==
    /\ ConvTTL
    /\ down = "up"
    /\ convs[c] # NoTask
    /\ closed' = closed \cup {convs[c]}
    /\ convs' = [convs EXCEPT ![c] = NoTask]
    /\ UNCHANGED <<storeVars, reqVars, runVars, ctxVars, subVars, convOf, srvVars>>

-----------------------------------------------------------------------------
(* Shutdown.                                                               *)

HandlerActive(t) ==
    \/ run[t] \in {"received", "created"}
    \/ t \notin Streams /\ reply[t] = "waiting"
    \/ t \in Streams /\ run[t] \notin {"none", "done"}

\* stopCh is closed and srv.Shutdown refuses new requests.
ShutdownBegins ==
    /\ MayShutdown
    /\ down = "up"
    /\ down' = "draining"
    /\ UNCHANGED <<storeVars, reqVars, runVars, ctxVars, subVars, convVars, sweep, drained>>

\* srv.Shutdown returns: every handler has returned, or its deadline is over.
ShutdownDrains ==
    /\ down = "draining"
    /\ down' = "broadcasters"
    /\ drained' = /\ \A t \in Tasks : ~HandlerActive(t)
                  /\ canceling = {}
                  /\ \A s \in Subs : sub[s].pc \in {"idle", "done", "left"}
    /\ UNCHANGED <<storeVars, reqVars, runVars, ctxVars, subVars, convVars, sweep>>

CloseAllBroadcasters ==
    /\ down = "broadcasters"
    /\ down' = "cancels"
    /\ bcast' = [t \in Tasks |-> IF t \in subs THEN "closed" ELSE bcast[t]]
    /\ subs' = {}
    /\ UNCHANGED <<storeVars, reqVars, runVars, ctxVars, sub, convVars, sweep, drained>>

\* Mutant: the entries are dropped without calling the cancel functions.
CancelAllUncalled ==
    /\ down = "cancels"
    /\ down' = "convs"
    /\ cancels' = {}
    /\ UNCHANGED <<storeVars, reqVars, runVars, cancelled, gone, canceling, subVars, convVars,
                   sweep, drained>>

CancelAll ==
    /\ down = "cancels"
    /\ down' = "convs"
    /\ cancelled' = cancelled \cup cancels
    /\ cancels' = {}
    /\ UNCHANGED <<storeVars, reqVars, runVars, gone, canceling, subVars, convVars, sweep,
                   drained>>

CloseConversations ==
    /\ down = "convs"
    /\ down' = "down"
    /\ closed' = closed \cup ({convs[c] : c \in Contexts} \ {NoTask})
    /\ convs' = [c \in Contexts |-> NoTask]
    /\ UNCHANGED <<storeVars, reqVars, runVars, ctxVars, subVars, convOf, sweep, drained>>

-----------------------------------------------------------------------------
RunnerStep(t) ==
    \/ RefuseMessage(t) \/ CreateTask(t)
    \/ RunConversation(t) \/ SendWorking(t) \/ SendSucceeds(t) \/ SendFails(t)
    \/ StoreArtifacts(t) \/ finalizeTask(t) \/ RunnerExits(t) \/ Reply(t)
    \/ OpenBroadcaster(t) \/ StreamWorking(t) \/ AnnounceWorking(t) \/ RegisterStream(t)
    \/ StreamArtifact(t) \/ StreamEnds(t) \/ RecordFinal(t) \/ EmitFinal(t)
    \/ StreamContextDone(t) \/ CloseBroadcaster(t) \/ RemoveBroadcaster(t)

SubscriberStep(s) ==
    \/ LookupBroadcaster(s) \/ SendStatus(s) \/ Subscribe(s)
    \/ SubscriberReceives(s) \/ SubscriberEnds(s) \/ SubscriberLeaves(s)

ShutdownStep == \/ ShutdownBegins \/ ShutdownDrains \/ CloseAllBroadcasters
                \/ CancelAll \/ CloseConversations

Next ==
    \/ \E t \in Tasks :
          \/ Receive(t) \/ RunnerStep(t) \/ ClientDisconnects(t)
          \/ CancelInFlight(t) \/ CancelTask(t)
          \/ SweepCancel(t) \/ SweepBroadcaster(t)
    \/ \E s \in Subs : SubscriberStep(s)
    \/ \E c \in Contexts : EvictIdleConversation(c)
    \/ EvictTerminalTasks \/ EvictClosedBroadcasters
    \/ ShutdownStep

Spec == Init /\ [][Next]_vars

\* Goroutines and handlers are scheduled, conversations return (provider calls
\* have timeouts), a tasks/cancel handler finishes.  Nothing makes a client
\* send, cancel, subscribe or read.
Fairness == \A t \in Tasks :
              /\ WF_vars(RunnerStep(t))
              /\ WF_vars(CancelTask(t))

FairSpec == Spec /\ Fairness

-----------------------------------------------------------------------------
(* Properties.                                                             *)

RunStates == {"none", "received", "created", "start", "sending", "artifacts", "opened",
              "announce", "register", "streaming", "finalize", "final", "close", "remove",
              "exit", "done"}

Events == {"working", "artifact", "completed", "failed", "input_required"}

SubStates == {"idle", "found", "missing", "attached", "done", "left"}

Subscriptions ==
    {q \in [pc : SubStates, task : Tasks \cup {NoTask}, from : Nat, buf : Seq(Events),
            got : Seq(Events \cup TaskStates), dropped : BOOLEAN] :
        q.pc # "idle" => q.task \in Tasks}

\* Every variable of the server has its type.  SetState's transition table is
\* what keeps the store to the states the handlers set.
TypeOK ==
    /\ status \in [Tasks -> {"none", "evicted", "submitted", "working", "completed", "failed",
                             "canceled", "input_required"}]
    /\ artifacts \in [Tasks -> BOOLEAN]
    /\ context \in [Tasks -> Contexts]
    /\ blocking \in [Tasks -> BOOLEAN]
    /\ run \in [Tasks -> RunStates]
    /\ result \in [Tasks -> Results \cup {"none"}]
    /\ reply \in [Tasks -> TaskStates \cup {"none", "waiting", "error"}]
    /\ wire \in [Tasks -> Seq(Events)]
    /\ cancels \subseteq Tasks /\ cancelled \subseteq Tasks
    /\ gone \subseteq Tasks /\ canceling \subseteq Tasks /\ subs \subseteq Tasks
    /\ bcast \in [Tasks -> {"none", "open", "closed"}]
    /\ sub \in [Subs -> Subscriptions]
    /\ convs \in [Contexts -> Tasks \cup {NoTask}]
    /\ convOf \in [Tasks -> Tasks \cup {NoTask}]
    /\ closed \subseteq Tasks
    /\ sweep \in [Tasks -> {"none", "cancel", "broadcaster"}]
    /\ down \in {"up", "draining", "broadcasters", "cancels", "convs", "down"}
    /\ drained \in BOOLEAN

\* What tasks/get shows of a task is the lifecycle of A2ATaskLifecycle,
\* whatever handlers, cancellations, evictions and Shutdown do at once: a
\* terminal task never changes again, a cancelled one is never resurrected by
\* the goroutine that is still running, only terminal tasks are evicted.
Lifecycle == INSTANCE A2ATaskLifecycle WITH Tasks <- Tasks, status <- status
ImplementsLifecycle == Lifecycle!Spec

FinalEvents == {"completed", "failed", "input_required"}

\* A final event on the wire was recorded in the store first: the task is in
\* that state, unless a tasks/cancel won the race for the store or the task
\* has been evicted since.
FinalEventRecorded ==
    \A t \in Tasks : \A i \in 1 .. Len(wire[t]) :
        wire[t][i] \in FinalEvents => status[t] \in {wire[t][i], "canceled", "evicted"}

\* finalizeTask stores the artifacts before it marks the task completed: a
\* poller that sees "completed" sees the answer too.
CompletedCarriesArtifacts ==
    \A t \in Tasks : status[t] = "completed" /\ result[t] = "content" => artifacts[t]

\* However a stream handler ends (Done event, error, client tool, closed
\* channel, cancelled context) and whatever the eviction loop removed before,
\* no broadcaster stays behind in s.subs and none stays open.
BroadcasterReleased ==
    \A t \in Tasks : t \in Streams /\ run[t] = "done" =>
        t \notin subs /\ bcast[t] # "open"

\* The answer to a blocking message/send shows a task at rest.  The exception
\* is a context that was cancelled: the goroutine leaves the state to the
\* cancel handler, which may not have set it yet.
BlockingReplySettled ==
    \A t \in Tasks : blocking[t] /\ t \notin cancelled =>
        reply[t] \notin {"submitted", "working"}

\* The lock around getOrCreateConversation: a conversation that was opened and
\* not closed is the one in s.convs, so Shutdown and the eviction loop reach it
\* and two requests of a context never run on two conversations at once.
ConversationReachable ==
    \A t \in Tasks : convOf[t] = t /\ t \notin closed => convs[context[t]] = t

\* After a Shutdown whose HTTP requests were drained, nothing is left to run
\* on: broadcasters and conversations are closed and every goroutine that is
\* still running has a cancelled context, unless its task was evicted (the
\* eviction drops the cancel function without calling it).
DrainedShutdownClean ==
    down = "down" /\ drained =>
        \A t \in Tasks :
            /\ bcast[t] # "open"
            /\ convOf[t] = t => t \in closed
            /\ run[t] \notin {"none", "done"} => t \in cancelled \/ status[t] = "evicted"

\* A subscriber that lost no event to a full buffer has the events broadcast
\* since it subscribed, which are those the stream's client is sent, in that order and without a gap,
\* and all of them as long as the broadcaster is open.
SubscriberSeesRun ==
    \A s \in Subs : LET q == sub[s]
                        events == q.got \o q.buf
                    IN  q.pc = "attached" /\ ~q.dropped =>
        /\ events = SubSeq(wire[q.task], q.from + 1, q.from + Len(events))
        /\ bcast[q.task] = "open" => q.from + Len(events) = Len(wire[q.task])

\* A task whose stream ended with the client's request context: the handler
\* returns and no SetState follows (server_stream.go processEvents).
Abandoned(t) == t \in gone /\ status[t] = "working"

\* A created task does not stay submitted or working for ever, with two
\* exceptions. The server goes down: Shutdown cancels the goroutines and leaves
\* the states. The client of its stream disconnects: the task stays working.
EveryTaskSettles ==
    \A t \in Tasks : status[t] = "submitted" ~>
                         \/ status[t] \notin {"submitted", "working"}
                         \/ down # "up" \/ Abandoned(t)

\* What a poller or a blocking caller is shown is settled: a completed task has
\* its artifacts and a blocking message/send answers with a task at rest
\* (server.go runConversation, handleSendMessage).
AnswersSettled == CompletedCarriesArtifacts /\ BlockingReplySettled

\* A stream ends in order: the final event that goes out was recorded, and the
\* broadcaster is closed and removed (server_stream.go).
StreamsEndClean == FinalEventRecorded /\ BroadcasterReleased
=============================================================================
