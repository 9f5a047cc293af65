------------------------------ MODULE EventBus ------------------------------
(***************************************************************************)
(* The runtime's event bus (runtime/events/bus.go): publishers put events  *)
(* on a buffered channel, a pool of workers started by the first           *)
(* subscription dispatches them to the listeners, each call under a        *)
(* timeout, and Close stops the publishers and waits for the workers.      *)
(*                                                                         *)
(* One element of Listeners is one call of Subscribe or SubscribeAll, one  *)
(* element of Events one call of Publish, one element of Closers one call  *)
(* of Close.  An action is one critical section of mu, one atomic          *)
(* operation, or one channel operation.  Sequence numbers, the counter of  *)
(* dropped events and the goroutine that only logs a late listener are     *)
(* left out.                                                               *)
(***************************************************************************)
EXTENDS Naturals, Sequences, FiniteSets

CONSTANTS Listeners,     \* subscriptions
          Global,        \* those made by SubscribeAll
          Topic,         \* Topic[l]: the event type l subscribes to
          Events,        \* calls of Publish
          Type,          \* Type[e]: the event's type
          Closers,       \* calls of Close
          Workers,       \* the worker pool
          BufferSize,    \* eventBufferSize
          MaxLeakCount,  \* maxLeakCount
          NoEvent,       \* no event in hand
          NoListener     \* no listener running

ASSUME EventBusAssumption ==
    /\ Global \subseteq Listeners
    /\ IsFiniteSet(Workers) /\ Workers # {}
    /\ BufferSize \in Nat \ {0}
    /\ MaxLeakCount \in Nat
    /\ NoEvent \notin Events /\ NoListener \notin Listeners

VARIABLES subscription,  \* per listener: control of Subscribe and unsubscribe
          registered,    \* the entries of listeners and globalListeners
          nextID,        \* the last ID given
          id,            \* per listener: its ID, which orders the two lists
          leakCount,     \* per listener: its timeout strikes
          started,       \* the flag that the workers were, or will be, launched
          pub,           \* per event: control and outcome of Publish
          eventCh,       \* contents of the event channel
          chClosed,      \* the channel was closed
          closed,        \* the flag publishers read
          closer,        \* per Close call: its control
          waiting,       \* the counter of the WaitGroup
          worker,        \* per worker: its control
          hand,          \* per worker: the event it dispatches
          todo,          \* per worker: the listeners of its snapshot left to invoke
          callee,        \* per worker: the listener it runs
          calls,         \* calls[l][e]: how often l was invoked with e
          audience       \* history: subscription as it was when e was enqueued

busVars    == <<subscription, registered, nextID, id, started>>
pubVars    == <<pub, eventCh, audience>>
closeVars  == <<chClosed, closed, closer>>
workerVars == <<worker, hand, todo, callee>>
vars == <<busVars, leakCount, pubVars, closeVars, waiting, workerVars, calls>>

Init ==
    /\ subscription = [l \in Listeners |-> "none"]
    /\ registered = {}
    /\ nextID = 0
    /\ id = [l \in Listeners |-> 0]
    /\ leakCount = [l \in Listeners |-> 0]
    /\ started = FALSE
    /\ pub = [e \in Events |-> "none"]
    /\ eventCh = <<>>
    /\ chClosed = FALSE /\ closed = FALSE
    /\ closer = [c \in Closers |-> "none"]
    /\ waiting = 0
    /\ worker = [w \in Workers |-> "none"]
    /\ hand = [w \in Workers |-> NoEvent]
    /\ todo = [w \in Workers |-> {}]
    /\ callee = [w \in Workers |-> NoListener]
    /\ calls = [l \in Listeners |-> [e \in Events |-> 0]]
    /\ audience = [e \in Events |-> [l \in Listeners |-> "none"]]

-----------------------------------------------------------------------------
(* Subscribe and SubscribeAll.                                             *)

\* ensureStarted: the first caller wins the compare-and-swap and will launch
\* the workers; any other one goes straight on to register.
EnsureStarted(l) ==
    /\ subscription[l] = "none"
    /\ subscription' = [subscription EXCEPT ![l] = IF started THEN "register" ELSE "launch"]
    /\ started' = TRUE
    /\ UNCHANGED <<registered, nextID, id, leakCount, pubVars, closeVars, waiting, workerVars,
                   calls>>

LaunchWorkers(l) ==
    /\ subscription[l] = "launch"
    /\ subscription' = [subscription EXCEPT ![l] = "register"]
    /\ waiting' = waiting + Cardinality(Workers)
    /\ worker' = [w \in Workers |-> "receive"]
    /\ UNCHANGED <<registered, nextID, id, leakCount, started, pubVars, closeVars, hand, todo,
                   callee, calls>>

Register(l) ==
    /\ subscription[l] = "register"
    /\ subscription' = [subscription EXCEPT ![l] = "on"]
    /\ nextID' = nextID + 1
    /\ id' = [id EXCEPT ![l] = nextID + 1]
    /\ registered' = registered \cup {l}
    /\ UNCHANGED <<leakCount, started, pubVars, closeVars, waiting, workerVars, calls>>

\* Mutant: the entry is looked up but not removed.
UnsubscribeForgotten(l) ==
    /\ subscription[l] = "on"
    /\ subscription' = [subscription EXCEPT ![l] = "off"]
    /\ UNCHANGED <<registered, nextID, id, leakCount, started, pubVars, closeVars, waiting,
                   workerVars, calls>>

\* The function Subscribe returned.
Unsubscribe(l) ==
    /\ subscription[l] = "on"
    /\ subscription' = [subscription EXCEPT ![l] = "off"]
    /\ registered' = registered \ {l}
    /\ UNCHANGED <<nextID, id, leakCount, started, pubVars, closeVars, waiting, workerVars,
                   calls>>

Clear ==
    /\ registered # {}
    /\ registered' = {}
    /\ subscription' = [l \in Listeners |->
                          IF l \in registered THEN "off" ELSE subscription[l]]
    /\ UNCHANGED <<nextID, id, leakCount, started, pubVars, closeVars, waiting, workerVars,
                   calls>>

-----------------------------------------------------------------------------
(* Publish.  It holds publishMu's read lock from before the test of closed *)
(* until it returns.                                                       *)

PublishMu == {e \in Events : pub[e] = "stamped"}

\* closed is false: the event gets its sequence number.
PublishStamps(e) ==
    /\ pub[e] = "none"
    /\ ~closed
    /\ pub' = [pub EXCEPT ![e] = "stamped"]
    /\ UNCHANGED <<busVars, leakCount, eventCh, audience, closeVars, waiting, workerVars,
                   calls>>

PublishRefused(e) ==
    /\ pub[e] = "none"
    /\ closed
    /\ pub' = [pub EXCEPT ![e] = "refused"]
    /\ UNCHANGED <<busVars, leakCount, eventCh, audience, closeVars, waiting, workerVars,
                   calls>>

\* The non-blocking send; a send on a closed channel panics.
PublishSends(e) ==
    /\ pub[e] = "stamped"
    /\ pub' = [pub EXCEPT ![e] = IF chClosed THEN "panicked"
                                 ELSE IF Len(eventCh) < BufferSize THEN "accepted"
                                 ELSE "dropped"]
    /\ eventCh' = IF pub'[e] = "accepted" THEN Append(eventCh, e) ELSE eventCh
    /\ audience' = [audience EXCEPT ![e] = IF pub'[e] = "accepted" THEN subscription ELSE @]
    /\ UNCHANGED <<busVars, leakCount, closeVars, waiting, workerVars, calls>>

-----------------------------------------------------------------------------
(* The workers.                                                            *)

WorkerReceives(w) ==
    /\ worker[w] = "receive"
    /\ eventCh # <<>>
    /\ hand' = [hand EXCEPT ![w] = Head(eventCh)]
    /\ eventCh' = Tail(eventCh)
    /\ worker' = [worker EXCEPT ![w] = "dispatch"]
    /\ UNCHANGED <<busVars, leakCount, pub, audience, closeVars, waiting, todo, callee, calls>>

\* The listener's own type, or SubscribeAll.
Wants(l, e) == l \in Global \/ Topic[l] = Type[e]

\* dispatch: the snapshot of the listeners.
Dispatch(w) ==
    /\ worker[w] = "dispatch"
    /\ todo' = [todo EXCEPT ![w] = {l \in registered : Wants(l, hand[w])}]
    /\ worker' = [worker EXCEPT ![w] = "invoke"]
    /\ UNCHANGED <<busVars, leakCount, pubVars, closeVars, waiting, hand, callee, calls>>

\* Every listener of the snapshot has been dealt with.
Dispatched(w) ==
    /\ worker[w] = "invoke"
    /\ todo[w] = {}
    /\ worker' = [worker EXCEPT ![w] = "receive"]
    /\ hand' = [hand EXCEPT ![w] = NoEvent]
    /\ UNCHANGED <<busVars, leakCount, pubVars, closeVars, waiting, todo, callee, calls>>

\* The order of invocation: the listeners of the event's type, then the
\* global ones, each list in the order of the IDs.
Precedes(l, k) ==
    \/ l \notin Global /\ k \in Global
    \/ (l \in Global <=> k \in Global) /\ id[l] <= id[k]

NextListener(w, l) == l \in todo[w] /\ \A k \in todo[w] : Precedes(l, k)

\* invokeWithTimeout: the listener runs in a goroutine of its own ...
Invoke(w) ==
    /\ worker[w] = "invoke"
    /\ \E l \in Listeners :
          /\ NextListener(w, l)
          /\ leakCount[l] < MaxLeakCount
          /\ callee' = [callee EXCEPT ![w] = l]
          /\ todo' = [todo EXCEPT ![w] = @ \ {l}]
          /\ calls' = [calls EXCEPT ![l][hand[w]] = @ + 1]
    /\ worker' = [worker EXCEPT ![w] = "running"]
    /\ UNCHANGED <<busVars, leakCount, pubVars, closeVars, waiting, hand>>

\* ... unless it has had its strikes.
SkipLeaking(w) ==
    /\ worker[w] = "invoke"
    /\ \E l \in Listeners :
          /\ NextListener(w, l)
          /\ leakCount[l] >= MaxLeakCount
          /\ todo' = [todo EXCEPT ![w] = @ \ {l}]
    /\ UNCHANGED <<busVars, leakCount, pubVars, closeVars, waiting, worker, hand, callee,
                   calls>>

\* The listener returns or panics (safeInvoke) within the timeout.
ListenerReturns(w) ==
    /\ worker[w] = "running"
    /\ worker' = [worker EXCEPT ![w] = "invoke"]
    /\ callee' = [callee EXCEPT ![w] = NoListener]
    /\ UNCHANGED <<busVars, leakCount, pubVars, closeVars, waiting, hand, todo, calls>>

\* Mutant: the worker has no timer.
NeverTimesOut(w) == FALSE

\* The timeout: a strike, and the worker goes on without the listener.
ListenerTimesOut(w) ==
    /\ worker[w] = "running"
    /\ leakCount' = [leakCount EXCEPT ![callee[w]] = @ + 1]
    /\ worker' = [worker EXCEPT ![w] = "invoke"]
    /\ callee' = [callee EXCEPT ![w] = NoListener]
    /\ UNCHANGED <<busVars, pubVars, closeVars, waiting, hand, todo, calls>>

\* Mutant: the worker stops at the closed channel without draining it.
WorkerExitsUndrained(w) ==
    /\ worker[w] = "receive"
    /\ chClosed
    /\ worker' = [worker EXCEPT ![w] = "exited"]
    /\ waiting' = waiting - 1
    /\ UNCHANGED <<busVars, leakCount, pubVars, closeVars, hand, todo, callee, calls>>

WorkerExits(w) ==
    /\ worker[w] = "receive"
    /\ chClosed
    /\ eventCh = <<>>
    /\ worker' = [worker EXCEPT ![w] = "exited"]
    /\ waiting' = waiting - 1
    /\ UNCHANGED <<busVars, leakCount, pubVars, closeVars, hand, todo, callee, calls>>

-----------------------------------------------------------------------------
(* Close.                                                                  *)

\* Only the first call does anything.
CloseBegins(c) ==
    /\ closer[c] = "none"
    /\ closer' = [closer EXCEPT ![c] = IF closed THEN "ignored" ELSE "lock"]
    /\ closed' = TRUE
    /\ UNCHANGED <<busVars, leakCount, pubVars, chClosed, waiting, workerVars, calls>>

\* Mutant: the channel is closed without publishMu.
CloseChannelUnlocked(c) ==
    /\ closer[c] = "lock"
    /\ chClosed' = TRUE
    /\ closer' = [closer EXCEPT ![c] = "closed"]
    /\ UNCHANGED <<busVars, leakCount, pubVars, closed, waiting, workerVars, calls>>

\* publishMu.Lock waits for every publisher to leave.
CloseChannel(c) ==
    /\ closer[c] = "lock"
    /\ PublishMu = {}
    /\ chClosed' = TRUE
    /\ closer' = [closer EXCEPT ![c] = "closed"]
    /\ UNCHANGED <<busVars, leakCount, pubVars, closed, waiting, workerVars, calls>>

CloseChecksStarted(c) ==
    /\ closer[c] = "closed"
    /\ closer' = [closer EXCEPT ![c] = IF started THEN "wait" ELSE "drain"]
    /\ UNCHANGED <<busVars, leakCount, pubVars, chClosed, closed, waiting, workerVars, calls>>

CloseWaits(c) ==
    /\ closer[c] = "wait"
    /\ waiting = 0
    /\ closer' = [closer EXCEPT ![c] = "returned"]
    /\ UNCHANGED <<busVars, leakCount, pubVars, chClosed, closed, waiting, workerVars, calls>>

\* closeTimeout: the remaining events are abandoned.
CloseTimesOut(c) ==
    /\ closer[c] = "wait"
    /\ closer' = [closer EXCEPT ![c] = "abandoned"]
    /\ UNCHANGED <<busVars, leakCount, pubVars, chClosed, closed, waiting, workerVars, calls>>

\* No workers: Close empties the channel itself, next to any worker that a
\* late subscription still launches.
CloseDrains(c) ==
    /\ closer[c] = "drain"
    /\ eventCh # <<>>
    /\ eventCh' = Tail(eventCh)
    /\ UNCHANGED <<busVars, leakCount, pub, audience, closeVars, waiting, workerVars, calls>>

CloseDrained(c) ==
    /\ closer[c] = "drain"
    /\ eventCh = <<>>
    /\ closer' = [closer EXCEPT ![c] = "returned"]
    /\ UNCHANGED <<busVars, leakCount, pubVars, chClosed, closed, waiting, workerVars, calls>>

-----------------------------------------------------------------------------
SubscribeStep(l) ==
    EnsureStarted(l) \/ LaunchWorkers(l) \/ Register(l) \/ Unsubscribe(l)

PublishStep(e) == PublishStamps(e) \/ PublishRefused(e) \/ PublishSends(e)

\* What a worker does by itself; that a listener returns is not part of it.
WorkerStep(w) ==
    \/ WorkerReceives(w) \/ Dispatch(w) \/ Dispatched(w)
    \/ Invoke(w) \/ SkipLeaking(w) \/ ListenerTimesOut(w) \/ WorkerExits(w)

\* What Close does by itself, without its deadline.
CloseStep(c) ==
    \/ CloseChannel(c) \/ CloseChecksStarted(c)
    \/ CloseWaits(c) \/ CloseDrains(c) \/ CloseDrained(c)

Next ==
    \/ \E l \in Listeners : SubscribeStep(l)
    \/ Clear
    \/ \E e \in Events : PublishStep(e)
    \/ \E w \in Workers : WorkerStep(w) \/ ListenerReturns(w)
    \/ \E c \in Closers : CloseBegins(c) \/ CloseStep(c) \/ CloseTimesOut(c)

Spec == Init /\ [][Next]_vars

\* Goroutines that can run do run, and the subscriber timer fires; listeners
\* need not return and the deadline of Close is not relied on.
Fairness ==
    /\ \A l \in Listeners : WF_vars(LaunchWorkers(l))
    /\ \A e \in Events : WF_vars(PublishSends(e))
    /\ \A w \in Workers : WF_vars(WorkerStep(w))
    /\ \A c \in Closers : WF_vars(CloseStep(c))

FairSpec == Spec /\ Fairness

-----------------------------------------------------------------------------
(* Properties.                                                             *)

\* Every variable has its type; the WaitGroup's counter never goes negative.
TypeOK ==
    /\ subscription \in [Listeners -> {"none", "launch", "register", "on", "off"}]
    /\ registered \subseteq Listeners
    /\ nextID \in Nat /\ id \in [Listeners -> Nat]
    /\ leakCount \in [Listeners -> Nat]
    /\ started \in BOOLEAN /\ chClosed \in BOOLEAN /\ closed \in BOOLEAN
    /\ pub \in [Events -> {"none", "stamped", "refused", "accepted", "dropped", "panicked"}]
    /\ eventCh \in Seq(Events)
    /\ closer \in [Closers -> {"none", "ignored", "lock", "closed", "wait", "drain",
                               "returned", "abandoned"}]
    /\ waiting \in Nat
    /\ worker \in [Workers -> {"none", "receive", "dispatch", "invoke", "running", "exited"}]
    /\ hand \in [Workers -> Events \cup {NoEvent}]
    /\ todo \in [Workers -> SUBSET Listeners]
    /\ callee \in [Workers -> Listeners \cup {NoListener}]
    /\ calls \in [Listeners -> [Events -> Nat]]
    /\ audience \in [Events -> [Listeners -> {"none", "launch", "register", "on", "off"}]]

\* publishMu: however Publish and Close race, no publisher that saw the bus
\* open sends on the closed channel.
PublishNeverPanics == \A e \in Events : pub[e] # "panicked"

\* An event reaches a listener once at most, whichever worker takes it and
\* however the listener list changes meanwhile.
OneCallPerEvent == \A l \in Listeners, e \in Events : calls[l][e] <= 1

\* A listener is never invoked with an event that was enqueued after its
\* unsubscribe function returned (or the bus was cleared), even though the
\* workers invoke from snapshots.
UnsubscribedIsSilent ==
    \A l \in Listeners, e \in Events : audience[e][l] = "off" => calls[l][e] = 0

\* Close "waits for all workers to finish processing remaining events": when
\* it returns before its deadline, an accepted event has reached every
\* listener that was registered when it was enqueued and still is, except
\* those that have had their strikes.  Left out: an event enqueued while the
\* first Subscribe is between its compare-and-swap and wg.Add, which Close
\* does not wait for.
CleanCloseDelivers ==
    \A c \in Closers, l \in Listeners, e \in Events :
        /\ closer[c] = "returned" /\ pub[e] = "accepted"
        /\ audience[e][l] = "on" /\ subscription[l] = "on" /\ Wants(l, e)
        /\ \A k \in Listeners : audience[e][k] # "launch"
        /\ leakCount[l] < MaxLeakCount
        => calls[l][e] > 0

\* "Listeners that have timed out more than maxLeakCount times are skipped":
\* the workers read the count and add to it in two critical sections, so each
\* of the other workers may add one strike more, and no more.
StrikesBounded ==
    \A l \in Listeners : leakCount[l] <= MaxLeakCount + Cardinality(Workers) - 1

\* Under FairSpec: Close returns although listeners hang, publishers and
\* subscribers race it, and its own deadline is not needed.
EveryCloseReturns ==
    \A c \in Closers : closer[c] = "lock" ~> closer[c] \in {"returned", "abandoned"}

\* Dispatch is exact whatever subscribes, leaves and hangs meanwhile: no event
\* twice, none to a listener that had left, and a listener that hangs is given
\* up after its strikes (bus.go dispatch, invokeListener).
DispatchExact == OneCallPerEvent /\ UnsubscribedIsSilent /\ StrikesBounded
=============================================================================
