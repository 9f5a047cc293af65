---------------------------- MODULE StagePipeline ----------------------------
(***************************************************************************)
(* The pipeline of stages (runtime/pipeline/stage/pipeline.go, builder.go, *)
(* stages_advanced.go): one execution of a graph of stages, each with its  *)
(* goroutines, joined by bounded channels, from Execute to the close of    *)
(* its output, and Shutdown beside it.                                     *)
(*                                                                         *)
(* A stage maps elements and may fail (MapStage), routes them to some of   *)
(* its downstreams (RouterStage) or merges its upstreams (MergeStage; with *)
(* one of them it passes elements on, as PassthroughStage does). A         *)
(* goroutine of a stage reads one channel: a worker is a stage and the     *)
(* channel it reads. A channel is the sequence of what it holds; a send on *)
(* a closed one panics, and a panic is the end of the process. The context *)
(* is cancelled by the caller or by the idle timer. What stages do to the  *)
(* content of an element, events, totals and the metrics wrapper of a      *)
(* stage's input are left out.  A merge was made for the number of inputs  *)
(* the graph gives it: with another ProcessMultiple returns an error       *)
(* before it reads anything, which is a mistake in the graph.              *)
(***************************************************************************)
EXTENDS Naturals, Sequences, FiniteSets

CONSTANTS Stages, Edges,    \* the graph, a set of pairs
          Kind,             \* Kind[s]: "map", "router" or "merge"
          BufferSize,       \* ChannelBufferSize
          MaxElements,      \* elements that a caller feeds
          Closers           \* callers of Shutdown

Downs(s) == {d \in Stages : <<s, d>> \in Edges}
Ups(s)   == {u \in Stages : <<u, s>> \in Edges}

\* validate: the edges are between known stages, the graph has no cycle
\* (detectCycles) and merges only where a stage can (checkFanInSupport).
validate ==
    /\ Stages # {} /\ Edges \subseteq Stages \X Stages
    /\ \E rank \in [Stages -> 1 .. Cardinality(Stages)] : \A e \in Edges : rank[e[1]] < rank[e[2]]
    /\ \A s \in Stages : Cardinality(Ups(s)) > 1 => Kind[s] = "merge"

\* A graph that Build accepts; the pipeline's own two channels are no stage's.
ASSUME PipelineAssumption ==
    /\ validate /\ IsFiniteSet(Stages) /\ "pipeline" \notin Stages
    /\ Kind \in [Stages -> {"map", "router", "merge"}]
    /\ {BufferSize, MaxElements} \subseteq Nat \ {0}

VARIABLES
    exec,        \* "idle", "checked", "running", "done" or "refused"
    isShutdown,
    closer,      \* closer[k]: "idle", "waiting", "clean", "timeout" or "already"
    chan,        \* chan[c]: what channel c holds
    closed,      \* the channels that are closed
    at,          \* at[w]: "recv", "send", "fail" or "done"
    hold,        \* hold[w]: the element in hand
    todo,        \* todo[w]: the channels it still goes to
    returned,    \* the stages whose Process has returned
    collecting,  \* collecting[l]: the collector of leaf l, "recv", "send" or "done"
    taken,       \* taken[l]: the element it has in hand
    cancelled,   \* ctx is done
    panicked,
    received,    \* what the caller has read
    copies,      \* copies[n]: how many came of element n at the routers
    failed,      \* the elements whose map failed
    overtaken    \* the execution was registered after Shutdown had begun

vars == <<exec, isShutdown, closer, chan, closed, at, hold, todo, returned, collecting, taken,
          cancelled, panicked, received, copies, failed, overtaken>>
shutdownVars == <<exec, isShutdown, closer, overtaken>>
workerVars   == <<at, hold, todo, returned>>
collectVars  == <<collecting, taken>>
ghostVars    == <<copies, failed>>

-----------------------------------------------------------------------------
(* The graph: createChannels, getStageInputs, collectOutput.               *)

Input  == <<"pipeline", "input">>
Output == <<"pipeline", "output">>
Shared(s) == <<s, "shared">>

\* upstreamChannel: a router has a channel for each edge, every other stage one
\* for all its downstreams.
UpstreamChannel(u, d) == IF Kind[u] = "router" THEN <<u, d>> ELSE Shared(u)

StageInputs(s) == IF Ups(s) = {} THEN {Input} ELSE {UpstreamChannel(u, s) : u \in Ups(s)}

\* What a stage closes when it returns.
StageOutputs(s) == {Shared(s)} \cup {UpstreamChannel(s, d) : d \in Downs(s)}

Leaves   == {s \in Stages : Downs(s) = {}}
Channels == {Input, Output} \cup UNION {StageOutputs(s) : s \in Stages}
Workers  == UNION {{s} \X StageInputs(s) : s \in Stages}

Element(n) == [n |-> n, via |-> "input", error |-> FALSE]
None == Element(0)

Init ==
    /\ exec = "idle" /\ isShutdown = FALSE /\ closer = [k \in Closers |-> "idle"]
    /\ chan = [c \in Channels |-> <<>>] /\ closed = {}
    /\ at = [w \in Workers |-> "recv"] /\ hold = [w \in Workers |-> None]
    /\ todo = [w \in Workers |-> {}] /\ returned = {}
    /\ collecting = [l \in Leaves |-> "recv"] /\ taken = [l \in Leaves |-> None]
    /\ cancelled = FALSE /\ panicked = FALSE
    /\ received = <<>>
    /\ copies = [n \in 1 .. MaxElements |-> 0] /\ failed = {} /\ overtaken = FALSE

\* ch <- e: waits for room; on a closed channel it panics.
Send(c, e) ==
    /\ ~panicked
    /\ IF c \in closed THEN panicked' = TRUE /\ UNCHANGED chan
       ELSE /\ Len(chan[c]) < BufferSize
            /\ chan' = [chan EXCEPT ![c] = Append(@, e)] /\ UNCHANGED panicked

Takes(c) == chan[c] # <<>> /\ chan' = [chan EXCEPT ![c] = Tail(@)]

Alive == ~panicked /\ UNCHANGED panicked

-----------------------------------------------------------------------------
(* The caller: Execute and what it does with the two channels.             *)

ShutdownIdle == UNCHANGED shutdownVars

\* ExecuteSync puts its elements into the input and closes it.
Fed(m) == [n \in 1 .. m |-> Element(n)]

\* Execute looks at isShutdown ...
Execute ==
    /\ exec = "idle"
    /\ exec' = IF isShutdown THEN "refused" ELSE "checked"
    /\ \E m \in 1 .. MaxElements :
          /\ chan' = [chan EXCEPT ![Input] = Fed(m)]
          /\ copies' = [n \in 1 .. MaxElements |-> IF n <= m THEN 1 ELSE 0]
    /\ closed' = {Input}
    /\ UNCHANGED <<isShutdown, closer, overtaken, workerVars, collectVars, cancelled, received,
                   failed>> /\ Alive

\* ... and registers the execution in a second step, and starts it.
ExecuteStarts ==
    /\ exec = "checked" /\ exec' = "running"
    /\ overtaken' = isShutdown
    /\ UNCHANGED <<isShutdown, closer, chan, closed, workerVars, collectVars, cancelled, received,
                   ghostVars>> /\ Alive

\* accumulateResult, or any other reader.
Reads ==
    /\ Takes(Output) /\ received' = Append(received, Head(chan[Output]))
    /\ UNCHANGED <<closed, workerVars, collectVars, cancelled, ghostVars>>
    /\ Alive /\ ShutdownIdle

\* The caller cancels, or the idle timer fires.
Cancel ==
    /\ exec = "running" /\ ~cancelled /\ cancelled' = TRUE
    /\ UNCHANGED <<chan, closed, workerVars, collectVars, received, ghostVars>>
    /\ Alive /\ ShutdownIdle

-----------------------------------------------------------------------------
(* The goroutines of the stages.                                           *)

WorkerIdle == UNCHANGED <<collectVars, cancelled, received>> /\ ShutdownIdle

Received(w) == Head(chan[w[2]])

\* An element on its way to the channels of D.
Holds(w, e, D) ==
    /\ hold' = [hold EXCEPT ![w] = IF D = {} THEN None ELSE e] /\ todo' = [todo EXCEPT ![w] = D]
    /\ at' = [at EXCEPT ![w] = IF D = {} THEN "recv" ELSE "send"]

\* An element for the next stage, unchanged or mapped.
Passes(w) ==
    /\ Kind[w[1]] # "router"
    /\ Holds(w, Received(w), {Shared(w[1])})
    /\ UNCHANGED ghostVars

\* Mutant: the element goes on as it came, the error is only returned.
FailsQuietly(w) ==
    /\ Kind[w[1]] = "map"
    /\ at' = [at EXCEPT ![w] = "fail"] /\ hold' = [hold EXCEPT ![w] = Received(w)]
    /\ failed' = failed \cup {Received(w).n}
    /\ UNCHANGED <<todo, copies>>

\* The function of a MapStage fails.
Fails(w) ==
    /\ Kind[w[1]] = "map"
    /\ at' = [at EXCEPT ![w] = "fail"]
    /\ hold' = [hold EXCEPT ![w] = [Received(w) EXCEPT !.error = TRUE]]
    /\ failed' = failed \cup {Received(w).n}
    /\ UNCHANGED <<todo, copies>>

\* The function of a RouterStage picks destinations, perhaps none.
Routes(w) ==
    /\ Kind[w[1]] = "router"
    /\ \E D \in SUBSET Downs(w[1]) :
          /\ Holds(w, Received(w), {UpstreamChannel(w[1], d) : d \in D})
          /\ copies' = [copies EXCEPT ![Received(w).n] = (@ + Cardinality(D)) - 1]
    /\ UNCHANGED failed

WorkerReceives(w) ==
    /\ exec = "running" /\ at[w] = "recv" /\ Takes(w[2])
    /\ Passes(w) \/ Fails(w) \/ Routes(w)
    /\ UNCHANGED <<closed, returned>> /\ WorkerIdle /\ Alive

InputEnds(w) ==
    /\ exec = "running" /\ at[w] = "recv" /\ chan[w[2]] = <<>> /\ w[2] \in closed
    /\ at' = [at EXCEPT ![w] = "done"]
    /\ UNCHANGED <<chan, closed, hold, todo, returned, ghostVars>> /\ WorkerIdle /\ Alive

\* A copy for a router's destination is marked with it.
Copy(w, c) == IF Kind[w[1]] = "router" THEN [hold[w] EXCEPT !.via = c[2]] ELSE hold[w]

\* One destination less; after the last the goroutine receives again.
Sent(w, c) ==
    LET last == todo[w] = {c} IN
    /\ todo' = [todo EXCEPT ![w] = @ \ {c}]
    /\ at' = [at EXCEPT ![w] = IF last THEN "recv" ELSE @]
    /\ hold' = [hold EXCEPT ![w] = IF last THEN None ELSE @]

\* The goroutine is over, what it has in hand is gone.
Stops(w) ==
    /\ at' = [at EXCEPT ![w] = "done"] /\ hold' = [hold EXCEPT ![w] = None]
    /\ todo' = [todo EXCEPT ![w] = {}]

WorkerSends(w, c) ==
    /\ at[w] = "send" /\ c \in todo[w]
    /\ Send(c, Copy(w, c)) /\ Sent(w, c)
    /\ UNCHANGED <<closed, returned, ghostVars>> /\ WorkerIdle

\* The select of a send finds the context done.  A router goes on with its next
\* destination and element, everybody else returns.
SendCancelled(w, c) ==
    /\ at[w] = "send" /\ c \in todo[w] /\ cancelled
    /\ IF Kind[w[1]] = "router" THEN Sent(w, c) ELSE Stops(w)
    /\ UNCHANGED <<chan, closed, returned, ghostVars>> /\ WorkerIdle /\ Alive

\* MapStage sends its error without looking at the context, and returns.
FailSends(w) ==
    /\ at[w] = "fail"
    /\ Send(Shared(w[1]), hold[w]) /\ Stops(w)
    /\ UNCHANGED <<closed, returned, ghostVars>> /\ WorkerIdle

WorkersOf(s) == {w \in Workers : w[1] = s}

\* Mutant: a merge returns with the first of its inputs.
AnyWorkerDone(s) == \E w \in WorkersOf(s) : at[w] = "done"

AllWorkersDone(s) == \A w \in WorkersOf(s) : at[w] = "done"

\* Mutant: a router leaves the channels of its edges open.
ClosesShared(s) == closed' = closed \cup {Shared(s)}

ClosesOutputs(s) == closed' = closed \cup StageOutputs(s)

\* Process returns, its deferred closes included.
StageReturns(s) ==
    /\ exec = "running" /\ s \notin returned /\ AllWorkersDone(s)
    /\ returned' = returned \cup {s} /\ ClosesOutputs(s)
    /\ UNCHANGED <<chan, at, hold, todo, ghostVars>> /\ WorkerIdle /\ Alive

WorkerStep(w) == \/ WorkerReceives(w) \/ InputEnds(w) \/ FailSends(w)
                 \/ \E c \in Channels : WorkerSends(w, c) \/ SendCancelled(w, c)

-----------------------------------------------------------------------------
(* collectOutput and the end of executeBackground.                         *)

CollectIdle == UNCHANGED <<workerVars, cancelled, received, ghostVars>> /\ ShutdownIdle

CollectTakes(l) ==
    /\ collecting[l] = "recv" /\ Takes(Shared(l))
    /\ taken' = [taken EXCEPT ![l] = Head(chan[Shared(l)])]
    /\ collecting' = [collecting EXCEPT ![l] = "send"]
    /\ UNCHANGED closed /\ CollectIdle /\ Alive

\* The send waits for the reader, whatever becomes of the context.
CollectSends(l) ==
    /\ collecting[l] = "send" /\ Send(Output, taken[l])
    /\ collecting' = [collecting EXCEPT ![l] = "recv"] /\ taken' = [taken EXCEPT ![l] = None]
    /\ UNCHANGED closed /\ CollectIdle

CollectEnds(l) ==
    /\ collecting[l] = "recv" /\ chan[Shared(l)] = <<>> /\ Shared(l) \in closed
    /\ collecting' = [collecting EXCEPT ![l] = "done"]
    /\ UNCHANGED <<taken, chan, closed>> /\ CollectIdle /\ Alive

OutputCloses ==
    /\ Output \notin closed /\ \A l \in Leaves : collecting[l] = "done"
    /\ closed' = closed \cup {Output}
    /\ UNCHANGED <<chan, collectVars>> /\ CollectIdle /\ Alive

\* waitForStageErrors has seen every stage and the output is closed: wg.Done.
ExecuteEnds ==
    /\ exec = "running" /\ returned = Stages /\ Output \in closed
    /\ exec' = "done"
    /\ UNCHANGED <<isShutdown, closer, overtaken, chan, closed, workerVars, collectVars, cancelled,
                   received, ghostVars>> /\ Alive

CollectStep(l) == CollectTakes(l) \/ CollectSends(l) \/ CollectEnds(l)

-----------------------------------------------------------------------------
(* Shutdown.                                                               *)

ExecutionIdle == UNCHANGED <<exec, overtaken, chan, closed, workerVars, collectVars, cancelled,
                             received, ghostVars>> /\ Alive

\* The first caller raises the flag and waits, a later one returns at once.
Shutdown(k) ==
    /\ closer[k] = "idle"
    /\ closer' = [closer EXCEPT ![k] = IF isShutdown THEN "already" ELSE "waiting"]
    /\ isShutdown' = TRUE
    /\ ExecutionIdle

\* Mutant: Shutdown does not wait for what is running.
NothingRuns == exec # "idle"

Waited == exec # "running"

\* wg.Wait returns, or the grace period is over.
ShutdownReturns(k) ==
    /\ closer[k] = "waiting"
    /\ \/ Waited /\ closer' = [closer EXCEPT ![k] = "clean"]
       \/ closer' = [closer EXCEPT ![k] = "timeout"]
    /\ UNCHANGED isShutdown /\ ExecutionIdle

\* A step of the execution, its reader and its idle timer included.
Runs ==
    \/ ExecuteStarts \/ Reads \/ Cancel
    \/ \E w \in Workers : WorkerStep(w)
    \/ \E s \in Stages : StageReturns(s)
    \/ \E l \in Leaves : CollectStep(l)
    \/ OutputCloses \/ ExecuteEnds

Next == Execute \/ Runs \/ \E k \in Closers : Shutdown(k) \/ ShutdownReturns(k)

Spec == Init /\ [][Next]_vars

\* The execution goes on as long as any goroutine of it can, the caller reads
\* the output to its end, as accumulateResult does, and the idle timer fires.
\* No step can be repeated for ever, so that it need not be fair to each of them.
FairSpec == Spec /\ WF_vars(Runs)

-----------------------------------------------------------------------------
(* Properties.                                                             *)
Elements == [n : 0 .. MaxElements, via : {"input"} \cup Stages, error : BOOLEAN]

\* Every variable holds what the code can put there.
TypeOK ==
    /\ exec \in {"idle", "checked", "running", "done", "refused"}
    /\ closer \in [Closers -> {"idle", "waiting", "clean", "timeout", "already"}]
    /\ {isShutdown, cancelled, panicked, overtaken} \subseteq BOOLEAN
    /\ chan \in [Channels -> Seq(Elements)] /\ \A c \in Channels \ {Input} : Len(chan[c]) <= BufferSize
    /\ closed \subseteq Channels /\ returned \subseteq Stages
    /\ at \in [Workers -> {"recv", "send", "fail", "done"}] /\ hold \in [Workers -> Elements]
    /\ todo \in [Workers -> SUBSET Channels]
    /\ collecting \in [Leaves -> {"recv", "send", "done"}] /\ taken \in [Leaves -> Elements]
    /\ received \in Seq(Elements)
    /\ copies \in [1 .. MaxElements -> Nat]
    /\ failed \subseteq 1 .. MaxElements

\* No goroutine ever sends on a channel that is closed, though several send on
\* one and stages return in any order (stages_advanced.go ProcessMultiple,
\* pipeline.go collectOutput).
NobodyPanics == ~panicked

\* The places where copies of element n are: in channels, in the hands of the
\* stages and of the collectors, and with the caller.
Spread(f) == UNION {{x} \X f[x] : x \in DOMAIN f}
In(n, q) == {i \in DOMAIN q : q[i].n = n}
Owes(w, n) == IF hold[w].n # n THEN {} ELSE IF at[w] = "fail" THEN {Shared(w[1])} ELSE todo[w]
InChannels(n) == Spread([c \in Channels |-> In(n, chan[c])])
InHand(n) == Spread([w \in Workers |-> Owes(w, n)])
Collected(n) == {l \in Leaves : taken[l].n = n}

\* As long as nobody cancels, every copy of every element is somewhere on its
\* way or was read by the caller, once, an error in the place of the element
\* that failed (pipeline.go, stages_advanced.go).
NothingLost ==
    ~cancelled => \A n \in 1 .. MaxElements :
        Cardinality(InChannels(n)) + Cardinality(InHand(n)) + Cardinality(Collected(n))
            + Cardinality(In(n, received)) = copies[n]

\* What the router sent the same way is read in the order it was fed: merging
\* mixes tracks and keeps each in order (stages_advanced.go forwardInput).
TracksKeepOrder ==
    \A i, j \in DOMAIN received :
        i < j /\ received[i].via = received[j].via => received[i].n < received[j].n

\* An execution that ran to its end uncancelled told its caller of every failed
\* element (stage.go MapStage; a stage's returned error reaches only an event).
FailuresAreTold ==
    exec = "done" /\ ~cancelled /\ chan[Output] = <<>> =>
        \A n \in failed : \E i \in DOMAIN received : received[i].n = n /\ received[i].error

\* A Shutdown that returns without error has no execution running beside it,
\* other than one that passed Execute's test before the flag was raised and
\* registered itself afterwards (pipeline.go Execute, Shutdown).
CleanShutdownWaits ==
    \A k \in Closers : closer[k] = "clean" /\ exec = "running" => overtaken

\* A MapStage sends its error, its channel is full and the context is done: the
\* stage that would take it may have returned.
Wedged == cancelled /\ \E w \in Workers : at[w] = "fail" /\ Len(chan[Shared(w[1])]) = BufferSize

\* Every execution comes to its end and releases Shutdown, whatever failed, was
\* cancelled or is blocked on whom (pipeline.go executeBackground), unless a
\* MapStage is stuck for ever with its error.
EveryExecutionEnds == exec = "running" ~> (exec = "done" \/ []Wedged)

\* Every element is accounted for: nothing is lost on the way, tracks keep
\* their order, and a failure is told (stage.go, stages_advanced.go).
ElementsAccounted == TypeOK /\ NothingLost /\ TracksKeepOrder /\ FailuresAreTold

-----------------------------------------------------------------------------
(* The graphs on which that holds of the order and of the failures too.    *)

\* An element is at a place: a channel, and the mark that it has there.  From x
\* it goes on to the places of Onward(x).
Marks == {"input"} \cup Stages
Onward(x) ==
    {<<Output, x[2]>> : l \in {k \in Leaves : Shared(k) = x[1]}}
    \cup UNION {IF Kind[w[1]] = "router" THEN {<<<<w[1], d>>, d>> : d \in Downs(w[1])}
                ELSE {<<Shared(w[1]), x[2]>>} : w \in {v \in Workers : v[2] = x[1]}}

\* To every place there is one way: way[x] are the places that an element at x
\* has passed.  Tracks may part at routers and meet in merges, but none meets
\* itself, and a router gets one track only.
OneWay(way) ==
    /\ DOMAIN way \subseteq Channels \X Marks /\ <<Input, "input">> \in DOMAIN way
    /\ \A x \in DOMAIN way :
          /\ x \notin way[x] /\ \A y \in way[x] : y \in DOMAIN way /\ way[y] \subseteq way[x]
          /\ \A y \in Onward(x) : y \in DOMAIN way /\ way[y] = way[x] \cup {x}

\* Behind a stage that can fail there are stages only that pass elements on: B
\* has the stages that an error comes from or through.
OnlyMergesBehind(B) ==
    /\ \A s \in Stages : Kind[s] = "map" => s \in B
    /\ \A s \in B : s \in Stages /\ Kind[s] # "router"
                   /\ \A d \in Downs(s) : d \in B /\ Kind[d] = "merge"
=============================================================================
