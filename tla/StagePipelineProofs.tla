------------------------- MODULE StagePipelineProofs -------------------------
(***************************************************************************)
(* No goroutine of an execution sends on a closed channel, for any acyclic *)
(* graph of stages, any routing, any buffer and any number of elements.    *)
(* Every channel has one owner, the stage that closes it; a goroutine      *)
(* sends on channels of its own stage only; and a stage closes when all    *)
(* its goroutines are over.  The pipeline's output is the collectors'.     *)
(* A Shutdown that returns without error has waited.  Every copy of every  *)
(* element is accounted for, as long as nobody cancels.  And on the graphs *)
(* of OneWay and OnlyMergesBehind tracks keep their order and failures are *)
(* told to the caller.                                                     *)
(***************************************************************************)
EXTENDS StagePipeline, FiniteSetTheorems, TLAPS

\* The controls of the goroutines.
ControlsOK ==
    /\ at \in [Workers -> {"recv", "send", "fail", "done"}]
    /\ todo \in [Workers -> SUBSET Channels]
    /\ collecting \in [Leaves -> {"recv", "send", "done"}]

\* A goroutine is on its way to channels of its own stage only.
SendsToOwn == \A w \in Workers : todo[w] \subseteq StageOutputs(w[1])

\* A stage that has returned has no goroutine left.
ReturnedAreDone == \A s \in Stages : s \in returned => AllWorkersDone(s)

\* A stage's channel is closed by the return of the stage alone.
ClosedByOwner == \A s \in Stages : \A c \in StageOutputs(s) : c \in closed => s \in returned

\* The output is closed behind the last collector.
OutputClosedLast == Output \in closed => \A l \in Leaves : collecting[l] = "done"

CloseInv == ControlsOK /\ SendsToOwn /\ ReturnedAreDone /\ ClosedByOwner /\ OutputClosedLast
            /\ NobodyPanics

closing == <<at, todo, collecting, returned, closed, panicked>>

-----------------------------------------------------------------------------
(* The channels and their owners.                                          *)

LEMMA OutputsAreTagged ==
    ASSUME NEW s \in Stages, NEW c \in StageOutputs(s)
    PROVE  c[1] = s /\ c \in Channels
BY DEF StageOutputs, UpstreamChannel, Shared, Channels

LEMMA OneOwner ==
    ASSUME NEW s \in Stages, NEW t \in Stages, NEW c \in StageOutputs(s), c \in StageOutputs(t)
    PROVE  s = t
BY OutputsAreTagged

LEMMA PipelineChannelsApart ==
    ASSUME NEW s \in Stages
    PROVE  Input \notin StageOutputs(s) /\ Output \notin StageOutputs(s)
<1>1. Input[1] = "pipeline" /\ Output[1] = "pipeline" /\ Input # Output
  BY DEF Input, Output
<1>2. s # "pipeline"
  BY PipelineAssumption
<1>3. QED
  BY <1>1, <1>2, OutputsAreTagged

LEMMA WorkerHasStage ==
    ASSUME NEW w \in Workers
    PROVE  w[1] \in Stages /\ w \in WorkersOf(w[1])
BY DEF Workers, WorkersOf

LEMMA SharedIsOwn ==
    ASSUME NEW s \in Stages
    PROVE  Shared(s) \in StageOutputs(s)
BY DEF StageOutputs

-----------------------------------------------------------------------------
(* The steps.                                                              *)

LEMMA InitCloseInv == Init => CloseInv
BY DEF Init, CloseInv, ControlsOK, SendsToOwn, ReturnedAreDone, ClosedByOwner, OutputClosedLast,
       NobodyPanics

LEMMA NeutralStep ==
    ASSUME CloseInv, UNCHANGED closing
    PROVE  CloseInv'
BY DEF closing, CloseInv, ControlsOK, SendsToOwn, ReturnedAreDone, ClosedByOwner,
       OutputClosedLast, NobodyPanics, AllWorkersDone

\* The input is closed as the caller hands it over, before any stage runs.
LEMMA ExecuteStep ==
    ASSUME CloseInv, Execute
    PROVE  CloseInv'
<1>1. closed' = {Input} /\ UNCHANGED <<at, todo, collecting, returned, panicked>>
  BY DEF Execute, Alive, workerVars, collectVars
<1>2. ClosedByOwner'
  BY <1>1, PipelineChannelsApart DEF ClosedByOwner
<1>3. OutputClosedLast'
  BY <1>1 DEF OutputClosedLast, Input, Output
<1>4. (ControlsOK /\ SendsToOwn /\ ReturnedAreDone /\ NobodyPanics)'
  BY <1>1 DEF CloseInv, ControlsOK, SendsToOwn, ReturnedAreDone, NobodyPanics, AllWorkersDone
<1>5. QED
  BY <1>2, <1>3, <1>4 DEF CloseInv

\* A step of one goroutine that closes nothing and does not panic: it stays
\* with channels of its stage, and it was not over.
LEMMA GoroutineStep ==
    ASSUME CloseInv, NEW w \in Workers, at[w] # "done",
           NEW a \in {"recv", "send", "fail", "done"}, NEW D \in SUBSET StageOutputs(w[1]),
           at' = [at EXCEPT ![w] = a], todo' = [todo EXCEPT ![w] = D],
           UNCHANGED <<collecting, returned, closed, panicked>>
    PROVE  CloseInv'
<1>1. w[1] \in Stages /\ w \in WorkersOf(w[1])
  BY WorkerHasStage
<1>2. D \subseteq Channels
  BY <1>1, OutputsAreTagged
<1>3. ControlsOK'
  BY <1>2 DEF CloseInv, ControlsOK
<1>4. SendsToOwn'
  BY DEF CloseInv, ControlsOK, SendsToOwn
<1>5. w[1] \notin returned
  BY <1>1 DEF CloseInv, ReturnedAreDone, AllWorkersDone
<1>6. ReturnedAreDone'
  <2> SUFFICES ASSUME NEW s \in Stages, s \in returned, NEW v \in WorkersOf(s)
               PROVE  at'[v] = "done"
    BY DEF ReturnedAreDone, AllWorkersDone
  <2>1. v # w /\ v \in Workers /\ at[v] = "done"
    BY <1>1, <1>5 DEF CloseInv, ReturnedAreDone, AllWorkersDone, WorkersOf
  <2>2. QED
    BY <2>1 DEF CloseInv, ControlsOK
<1>7. (ClosedByOwner /\ OutputClosedLast /\ NobodyPanics)'
  BY DEF CloseInv, ClosedByOwner, OutputClosedLast, NobodyPanics
<1>8. QED
  BY <1>3, <1>4, <1>6, <1>7 DEF CloseInv

\* A goroutine that is not over finds the channels of its stage open.
LEMMA OwnChannelsOpen ==
    ASSUME CloseInv, NEW w \in Workers, at[w] # "done", NEW c \in StageOutputs(w[1])
    PROVE  c \notin closed
<1>1. w[1] \in Stages /\ w \in WorkersOf(w[1])
  BY WorkerHasStage
<1>2. w[1] \notin returned
  BY <1>1 DEF CloseInv, ReturnedAreDone, AllWorkersDone
<1>3. QED
  BY <1>1, <1>2 DEF CloseInv, ClosedByOwner

LEMMA WorkerReceivesStep ==
    ASSUME CloseInv, NEW w \in Workers, WorkerReceives(w)
    PROVE  CloseInv'
<1>1. at[w] = "recv" /\ UNCHANGED <<collecting, returned, closed, panicked>>
  BY DEF WorkerReceives, WorkerIdle, Alive, collectVars
<1>2. w[1] \in Stages
  BY WorkerHasStage
<1>3. CASE Passes(w)
  <2>1. {Shared(w[1])} \in SUBSET StageOutputs(w[1])
    BY <1>2, SharedIsOwn
  <2>2. at' = [at EXCEPT ![w] = "send"] /\ todo' = [todo EXCEPT ![w] = {Shared(w[1])}]
    BY <1>3 DEF Passes, Holds
  <2>3. QED
    BY <1>1, <2>1, <2>2, GoroutineStep
<1>4. CASE Fails(w)
  <2>1. at' = [at EXCEPT ![w] = "fail"] /\ todo' = [todo EXCEPT ![w] = todo[w]]
    BY <1>4 DEF Fails, CloseInv, ControlsOK
  <2>2. todo[w] \in SUBSET StageOutputs(w[1])
    BY DEF CloseInv, SendsToOwn
  <2>3. QED
    BY <1>1, <2>1, <2>2, GoroutineStep
<1>5. CASE Routes(w)
  <2>1. PICK D \in SUBSET Downs(w[1]) :
           Holds(w, Received(w), {UpstreamChannel(w[1], d) : d \in D})
    BY <1>5 DEF Routes
  <2>2. {UpstreamChannel(w[1], d) : d \in D} \in SUBSET StageOutputs(w[1])
    BY DEF StageOutputs
  <2>3. PICK a \in {"recv", "send"} : at' = [at EXCEPT ![w] = a]
    BY <2>1 DEF Holds
  <2>4. todo' = [todo EXCEPT ![w] = {UpstreamChannel(w[1], d) : d \in D}]
    BY <2>1 DEF Holds
  <2>5. QED
    BY <1>1, <2>2, <2>3, <2>4, GoroutineStep
<1>6. QED
  BY <1>3, <1>4, <1>5 DEF WorkerReceives

LEMMA InputEndsStep ==
    ASSUME CloseInv, NEW w \in Workers, InputEnds(w)
    PROVE  CloseInv'
<1>1. /\ at[w] = "recv" /\ at' = [at EXCEPT ![w] = "done"]
      /\ todo' = todo /\ UNCHANGED <<collecting, returned, closed, panicked>>
  BY DEF InputEnds, WorkerIdle, Alive, collectVars
<1>2. todo' = [todo EXCEPT ![w] = todo[w]] /\ todo[w] \in SUBSET StageOutputs(w[1])
  BY <1>1 DEF CloseInv, ControlsOK, SendsToOwn
<1>3. QED
  BY <1>1, <1>2, GoroutineStep

\* What a goroutine does behind a send or its cancellation.
LEMMA SentStep ==
    ASSUME CloseInv, NEW w \in Workers, NEW c, at[w] = "send", Sent(w, c) \/ Stops(w),
           UNCHANGED <<collecting, returned, closed, panicked>>
    PROVE  CloseInv'
<1>1. CASE Sent(w, c)
  <2>1. PICK a \in {"recv", "send"} : at' = [at EXCEPT ![w] = a]
    BY <1>1 DEF Sent
  <2>2. todo' = [todo EXCEPT ![w] = todo[w] \ {c}]
    BY <1>1 DEF Sent, CloseInv, ControlsOK
  <2>3. todo[w] \ {c} \in SUBSET StageOutputs(w[1])
    BY DEF CloseInv, SendsToOwn
  <2>4. QED
    BY <2>1, <2>2, <2>3, GoroutineStep
<1>2. CASE Stops(w)
  <2>1. at' = [at EXCEPT ![w] = "done"] /\ todo' = [todo EXCEPT ![w] = {}]
    BY <1>2 DEF Stops
  <2>2. {} \in SUBSET StageOutputs(w[1])
    OBVIOUS
  <2>3. QED
    BY <2>1, <2>2, GoroutineStep
<1>3. QED
  BY <1>1, <1>2

LEMMA WorkerSendsStep ==
    ASSUME CloseInv, NEW w \in Workers, NEW c, WorkerSends(w, c)
    PROVE  CloseInv'
<1>1. /\ at[w] = "send" /\ c \in todo[w] /\ Sent(w, c)
      /\ UNCHANGED <<collecting, returned, closed>>
  BY DEF WorkerSends, WorkerIdle, collectVars
<1>2. c \notin closed
  BY <1>1, OwnChannelsOpen DEF CloseInv, SendsToOwn
<1>3. UNCHANGED panicked
  BY <1>2 DEF WorkerSends, Send
<1>4. QED
  BY <1>1, <1>3, SentStep

LEMMA SendCancelledStep ==
    ASSUME CloseInv, NEW w \in Workers, NEW c, SendCancelled(w, c)
    PROVE  CloseInv'
<1>1. /\ at[w] = "send" /\ (Sent(w, c) \/ Stops(w))
      /\ UNCHANGED <<collecting, returned, closed, panicked>>
  BY DEF SendCancelled, WorkerIdle, collectVars, Alive
<1>2. QED
  BY <1>1, SentStep

LEMMA FailSendsStep ==
    ASSUME CloseInv, NEW w \in Workers, FailSends(w)
    PROVE  CloseInv'
<1>1. /\ at[w] = "fail" /\ at' = [at EXCEPT ![w] = "done"] /\ todo' = [todo EXCEPT ![w] = {}]
      /\ UNCHANGED <<collecting, returned, closed>>
  BY DEF FailSends, Stops, WorkerIdle, collectVars
<1>2. Shared(w[1]) \in StageOutputs(w[1])
  BY WorkerHasStage, SharedIsOwn
<1>3. Shared(w[1]) \notin closed
  BY <1>1, <1>2, OwnChannelsOpen
<1>4. UNCHANGED panicked
  BY <1>3 DEF FailSends, Send
<1>5. {} \in SUBSET StageOutputs(w[1])
  OBVIOUS
<1>6. QED
  BY <1>1, <1>4, <1>5, GoroutineStep

LEMMA StageReturnsStep ==
    ASSUME CloseInv, NEW s \in Stages, StageReturns(s)
    PROVE  CloseInv'
<1>1. /\ AllWorkersDone(s) /\ returned' = returned \cup {s}
      /\ closed' = closed \cup StageOutputs(s)
      /\ UNCHANGED <<at, todo, collecting, panicked>>
  BY DEF StageReturns, ClosesOutputs, WorkerIdle, collectVars, Alive
<1>2. ReturnedAreDone'
  BY <1>1 DEF CloseInv, ReturnedAreDone, AllWorkersDone
<1>3. ClosedByOwner'
  <2> SUFFICES ASSUME NEW t \in Stages, NEW c \in StageOutputs(t), c \in closed'
               PROVE  t \in returned'
    BY DEF ClosedByOwner
  <2>1. CASE c \in closed
    BY <1>1, <2>1 DEF CloseInv, ClosedByOwner
  <2>2. CASE c \in StageOutputs(s)
    BY <1>1, <2>2, OneOwner
  <2>3. QED
    BY <1>1, <2>1, <2>2
<1>4. OutputClosedLast'
  BY <1>1, PipelineChannelsApart DEF CloseInv, OutputClosedLast
<1>5. (ControlsOK /\ SendsToOwn /\ NobodyPanics)'
  BY <1>1 DEF CloseInv, ControlsOK, SendsToOwn, NobodyPanics
<1>6. QED
  BY <1>2, <1>3, <1>4, <1>5 DEF CloseInv

LEMMA CollectStepKeeps ==
    ASSUME CloseInv, NEW l \in Leaves, CollectStep(l)
    PROVE  CloseInv'
<1>1. /\ collecting[l] # "done" /\ UNCHANGED <<at, todo, returned, closed>>
      /\ \E m \in {"recv", "send", "done"} : collecting' = [collecting EXCEPT ![l] = m]
  BY DEF CollectStep, CollectTakes, CollectSends, CollectEnds, CollectIdle, workerVars
<1>2. Output \notin closed
  BY <1>1 DEF CloseInv, OutputClosedLast
<1>3. UNCHANGED panicked
  BY <1>2 DEF CollectStep, CollectTakes, CollectSends, CollectEnds, Alive, Send
<1>4. ControlsOK'
  BY <1>1 DEF CloseInv, ControlsOK
<1>5. (SendsToOwn /\ ReturnedAreDone /\ ClosedByOwner /\ OutputClosedLast /\ NobodyPanics)'
  BY <1>1, <1>2, <1>3 DEF CloseInv, SendsToOwn, ReturnedAreDone, AllWorkersDone, ClosedByOwner,
                          OutputClosedLast, NobodyPanics
<1>6. QED
  BY <1>4, <1>5 DEF CloseInv

LEMMA OutputClosesStep ==
    ASSUME CloseInv, OutputCloses
    PROVE  CloseInv'
<1>1. /\ \A l \in Leaves : collecting[l] = "done"
      /\ closed' = closed \cup {Output} /\ UNCHANGED <<at, todo, collecting, returned, panicked>>
  BY DEF OutputCloses, CollectIdle, workerVars, collectVars, Alive
<1>2. ClosedByOwner'
  BY <1>1, PipelineChannelsApart DEF CloseInv, ClosedByOwner
<1>3. (ControlsOK /\ SendsToOwn /\ ReturnedAreDone /\ OutputClosedLast /\ NobodyPanics)'
  BY <1>1 DEF CloseInv, ControlsOK, SendsToOwn, ReturnedAreDone, AllWorkersDone,
              OutputClosedLast, NobodyPanics
<1>4. QED
  BY <1>2, <1>3 DEF CloseInv

LEMMA NextCloseInv == CloseInv /\ [Next]_vars => CloseInv'
<1> SUFFICES ASSUME CloseInv, [Next]_vars
             PROVE  CloseInv'
  OBVIOUS
<1>1. CASE UNCHANGED vars
  BY <1>1, NeutralStep DEF vars, closing
<1>2. CASE Execute
  BY <1>2, ExecuteStep
<1>3. CASE ExecuteStarts \/ Reads \/ Cancel \/ ExecuteEnds
  BY <1>3, NeutralStep DEF ExecuteStarts, Reads, Cancel, ExecuteEnds, workerVars, collectVars,
                           Alive, closing
<1>4. CASE \E w \in Workers : WorkerStep(w)
  BY <1>4, WorkerReceivesStep, InputEndsStep, FailSendsStep, WorkerSendsStep, SendCancelledStep
     DEF WorkerStep
<1>5. CASE \E s \in Stages : StageReturns(s)
  BY <1>5, StageReturnsStep
<1>6. CASE \E l \in Leaves : CollectStep(l)
  BY <1>6, CollectStepKeeps
<1>7. CASE OutputCloses
  BY <1>7, OutputClosesStep
<1>8. CASE \E k \in Closers : Shutdown(k) \/ ShutdownReturns(k)
  <2>1. UNCHANGED closing
    BY <1>8 DEF Shutdown, ShutdownReturns, ExecutionIdle, workerVars, collectVars, Alive, closing
  <2>2. QED
    BY <2>1, NeutralStep
<1>9. QED
  BY <1>1, <1>2, <1>3, <1>4, <1>5, <1>6, <1>7, <1>8 DEF Next, Runs

-----------------------------------------------------------------------------
(* No goroutine of a stage and no collector ever sends on a channel that is *)
(* closed, in whatever order stages fail, are cancelled and return          *)
(* (pipeline.go startStages, collectOutput; stages_advanced.go).            *)
THEOREM NoSendOnClosed == Spec => []NobodyPanics
<1>1. CloseInv => NobodyPanics
  BY DEF CloseInv
<1>2. QED
  BY <1>1, InitCloseInv, NextCloseInv, PTL DEF Spec

-----------------------------------------------------------------------------
(* Shutdown.  A caller that has called it has raised the flag.             *)

FlagRaised ==
    /\ DOMAIN closer = Closers
    /\ \A k \in Closers : closer[k] # "idle" => isShutdown

ShutdownInv == FlagRaised /\ CleanShutdownWaits

LEMMA InitShutdownInv == Init => ShutdownInv
BY DEF Init, ShutdownInv, FlagRaised, CleanShutdownWaits

LEMMA ShutdownStep ==
    ASSUME ShutdownInv, NEW k \in Closers, Shutdown(k) \/ ShutdownReturns(k)
    PROVE  ShutdownInv'
<1>1. UNCHANGED <<exec, overtaken>>
  BY DEF Shutdown, ShutdownReturns, ExecutionIdle
<1>2. CASE Shutdown(k)
  <2>1. /\ isShutdown' = TRUE
        /\ closer' = [closer EXCEPT ![k] = IF isShutdown THEN "already" ELSE "waiting"]
    BY <1>2 DEF Shutdown
  <2>2. \A j \in Closers : closer'[j] = "clean" => closer[j] = "clean"
    BY <2>1 DEF ShutdownInv, FlagRaised
  <2>3. QED
    BY <1>1, <2>1, <2>2 DEF ShutdownInv, FlagRaised, CleanShutdownWaits
<1>3. CASE ShutdownReturns(k)
  <2>1. /\ closer[k] = "waiting" /\ isShutdown' = isShutdown
        /\ \/ exec # "running" /\ closer' = [closer EXCEPT ![k] = "clean"]
           \/ closer' = [closer EXCEPT ![k] = "timeout"]
    BY <1>3 DEF ShutdownReturns, Waited
  <2>2. FlagRaised'
    BY <2>1 DEF ShutdownInv, FlagRaised
  <2>3. CleanShutdownWaits'
    BY <1>1, <2>1 DEF ShutdownInv, FlagRaised, CleanShutdownWaits
  <2>4. QED
    BY <2>2, <2>3 DEF ShutdownInv
<1>4. QED
  BY <1>2, <1>3

\* An execution that starts is running when the flag is raised only as one that
\* was overtaken.
LEMMA ExecuteStartsStep ==
    ASSUME ShutdownInv, ExecuteStarts
    PROVE  ShutdownInv'
<1>1. overtaken' = isShutdown /\ UNCHANGED <<isShutdown, closer>>
  BY DEF ExecuteStarts
<1>2. QED
  BY <1>1 DEF ShutdownInv, FlagRaised, CleanShutdownWaits

\* Every other step leaves Shutdown alone and starts nothing.
LEMMA OtherStep ==
    ASSUME ShutdownInv, UNCHANGED <<isShutdown, closer, overtaken>>, exec' = exec \/ exec' # "running"
    PROVE  ShutdownInv'
BY DEF ShutdownInv, FlagRaised, CleanShutdownWaits

LEMMA NextShutdownInv == ShutdownInv /\ [Next]_vars => ShutdownInv'
<1> SUFFICES ASSUME ShutdownInv, [Next]_vars
             PROVE  ShutdownInv'
  OBVIOUS
<1>1. CASE UNCHANGED vars
  BY <1>1, OtherStep DEF vars
<1>2. CASE Execute \/ ExecuteEnds
  <2>1. UNCHANGED <<isShutdown, closer, overtaken>> /\ exec' # "running"
    BY <1>2 DEF Execute, ExecuteEnds
  <2>2. QED
    BY <2>1, OtherStep
<1>3. CASE ExecuteStarts
  BY <1>3, ExecuteStartsStep
<1>4. CASE Reads \/ Cancel
  BY <1>4, OtherStep DEF Reads, Cancel, ShutdownIdle, shutdownVars
<1>5. CASE \E w \in Workers : WorkerStep(w)
  <2>1. PICK w \in Workers : WorkerStep(w)
    BY <1>5
  <2>2. UNCHANGED shutdownVars
    BY <2>1 DEF WorkerStep, WorkerReceives, InputEnds, FailSends, WorkerSends, SendCancelled,
                WorkerIdle, ShutdownIdle
  <2>3. QED
    BY <2>2, OtherStep DEF shutdownVars
<1>6. CASE \E s \in Stages : StageReturns(s)
  BY <1>6, OtherStep DEF StageReturns, WorkerIdle, ShutdownIdle, shutdownVars
<1>7. CASE OutputCloses \/ \E l \in Leaves : CollectStep(l)
  <2>1. UNCHANGED shutdownVars
    BY <1>7 DEF OutputCloses, CollectStep, CollectTakes, CollectSends, CollectEnds, CollectIdle,
                ShutdownIdle
  <2>2. QED
    BY <2>1, OtherStep DEF shutdownVars
<1>8. CASE \E k \in Closers : Shutdown(k) \/ ShutdownReturns(k)
  BY <1>8, ShutdownStep
<1>9. QED
  BY <1>1, <1>2, <1>3, <1>4, <1>5, <1>6, <1>7, <1>8 DEF Next, Runs

(* A Shutdown that returns without error leaves no execution running, for   *)
(* any number of callers, but for one that passed Execute's test of the     *)
(* flag before and registered afterwards (pipeline.go Execute, Shutdown).   *)
THEOREM CleanShutdown == Spec => []CleanShutdownWaits
<1>1. ShutdownInv => CleanShutdownWaits
  BY DEF ShutdownInv
<1>2. QED
  BY <1>1, InitShutdownInv, NextShutdownInv, PTL DEF Spec

-----------------------------------------------------------------------------
(* Counting.                                                               *)

Live == [n : 1 .. MaxElements, via : {"input"} \cup Stages, error : BOOLEAN]
Is(e, n) == IF e.n = n THEN 1 ELSE 0

\* Of sets side by side one changes: the count changes with it.
LEMMA SpreadChanges ==
    ASSUME NEW W, NEW f, NEW g, DOMAIN f = W, DOMAIN g = W, NEW x \in W,
           \A y \in W \ {x} : g[y] = f[y],
           IsFiniteSet(Spread(f)), IsFiniteSet(f[x]), IsFiniteSet(g[x])
    PROVE  /\ IsFiniteSet(Spread(g))
           /\ Cardinality(Spread(g)) + Cardinality(f[x]) = Cardinality(Spread(f)) + Cardinality(g[x])
           /\ Cardinality(Spread(f)) \in Nat /\ Cardinality(Spread(g)) \in Nat
           /\ Cardinality(f[x]) <= Cardinality(Spread(f))
<1> DEFINE A == {x} \X f[x]
           B == {x} \X g[x]
           R == Spread(f) \ A
<1>1. Spread(f) = R \cup A /\ R \cap A = {}
  BY DEF Spread
<1>2. Spread(g) = R \cup B /\ R \cap B = {}
  BY DEF Spread
<1>3. IsFiniteSet({x}) /\ Cardinality({x}) = 1
  BY FS_Singleton
<1>4. /\ Cardinality(f[x]) \in Nat /\ Cardinality(g[x]) \in Nat
      /\ IsFiniteSet(A) /\ Cardinality(A) = Cardinality(f[x])
      /\ IsFiniteSet(B) /\ Cardinality(B) = Cardinality(g[x])
  BY <1>3, FS_Product, FS_CardinalityType, SMTT(40)
<1>5. IsFiniteSet(R) /\ Cardinality(R) \in Nat
  BY FS_Difference, FS_CardinalityType
<1> HIDE DEF A, B, R
<1>6. ASSUME NEW C, IsFiniteSet(C), R \cap C = {}
      PROVE  IsFiniteSet(R \cup C) /\ Cardinality(R \cup C) = Cardinality(R) + Cardinality(C)
  <2>1. /\ IsFiniteSet(R \cup C)
        /\ Cardinality(R \cup C) = Cardinality(R) + Cardinality(C) - Cardinality(R \cap C)
    BY <1>5, <1>6, FS_Union
  <2>2. Cardinality(R \cap C) = 0 /\ Cardinality(C) \in Nat
    BY <1>6, FS_EmptySet, FS_CardinalityType
  <2> QED BY <1>5, <2>1, <2>2
<1>7. Cardinality(Spread(f)) = Cardinality(R) + Cardinality(A)
  BY <1>1, <1>4, <1>6
<1>8. IsFiniteSet(Spread(g)) /\ Cardinality(Spread(g)) = Cardinality(R) + Cardinality(B)
  BY <1>2, <1>4, <1>6
<1> QED BY <1>4, <1>5, <1>7, <1>8

LEMMA SpreadGrows ==
    ASSUME NEW W, NEW f, NEW g, DOMAIN f = W, DOMAIN g = W, NEW x \in W,
           \A y \in W \ {x} : g[y] = f[y],
           IsFiniteSet(Spread(f)), IsFiniteSet(f[x]), IsFiniteSet(g[x]), NEW k \in Nat,
           Cardinality(g[x]) = Cardinality(f[x]) + k
    PROVE  /\ IsFiniteSet(Spread(g)) /\ Cardinality(Spread(f)) \in Nat
           /\ Cardinality(Spread(g)) = Cardinality(Spread(f)) + k
BY SpreadChanges, FS_CardinalityType

LEMMA SpreadShrinks ==
    ASSUME NEW W, NEW f, NEW g, DOMAIN f = W, DOMAIN g = W, NEW x \in W,
           \A y \in W \ {x} : g[y] = f[y],
           IsFiniteSet(Spread(f)), IsFiniteSet(f[x]), IsFiniteSet(g[x]), NEW k \in Nat,
           Cardinality(f[x]) = Cardinality(g[x]) + k
    PROVE  /\ IsFiniteSet(Spread(g)) /\ Cardinality(Spread(g)) \in Nat
           /\ Cardinality(Spread(f)) = Cardinality(Spread(g)) + k
BY SpreadChanges, FS_CardinalityType

LEMMA InFinite ==
    ASSUME NEW q \in Seq(Live), NEW n
    PROVE  IsFiniteSet(In(n, q)) /\ Cardinality(In(n, q)) \in Nat
<1>1. In(n, q) \in SUBSET (1 .. Len(q)) /\ Len(q) \in Nat
  BY DEF In
<1>2. IsFiniteSet(1 .. Len(q))
  BY <1>1, FS_Interval
<1> QED BY <1>1, <1>2, FS_Subset, FS_CardinalityType

LEMMA InAppend ==
    ASSUME NEW q \in Seq(Live), NEW e \in Live, NEW n
    PROVE  Cardinality(In(n, Append(q, e))) = Cardinality(In(n, q)) + Is(e, n)
<1> DEFINE r == Append(q, e)
<1>1. /\ Len(q) \in Nat /\ DOMAIN q = 1 .. Len(q) /\ DOMAIN r = 1 .. Len(q) + 1
      /\ \A i \in 1 .. Len(q) : r[i] = q[i]
      /\ r[Len(q) + 1] = e
  OBVIOUS
<1>2. CASE e.n = n
  <2>1. In(n, r) = In(n, q) \cup {Len(q) + 1} /\ Len(q) + 1 \notin In(n, q)
    BY <1>1, <1>2 DEF In
  <2> QED BY <1>2, <2>1, InFinite, FS_AddElement, ZenonT(60) DEF Is
<1>3. CASE e.n # n
  <2>1. In(n, r) = In(n, q)
    BY <1>1, <1>3 DEF In
  <2> QED BY <1>3, <2>1, InFinite DEF Is
<1> QED BY <1>2, <1>3

LEMMA InTail ==
    ASSUME NEW q \in Seq(Live), q # <<>>, NEW n
    PROVE  Cardinality(In(n, q)) = Cardinality(In(n, Tail(q))) + Is(Head(q), n)
<1> DEFINE r == Tail(q)
           S == In(n, q) \ {1}
           T == In(n, r)
           f == [i \in S |-> i - 1]
<1>1. /\ Len(q) \in Nat /\ Len(q) >= 1 /\ DOMAIN q = 1 .. Len(q) /\ DOMAIN r = 1 .. Len(q) - 1
      /\ \A i \in 1 .. Len(q) - 1 : r[i] = q[i + 1]
      /\ Head(q) = q[1] /\ r \in Seq(Live)
  OBVIOUS
<1>2. IsFiniteSet(In(n, q)) /\ Cardinality(In(n, q)) \in Nat /\ IsFiniteSet(T) /\ Cardinality(T) \in Nat
  BY <1>1, InFinite
<1>3. IsFiniteSet(S) /\ Cardinality(S) = IF 1 \in In(n, q) THEN Cardinality(In(n, q)) - 1
                                         ELSE Cardinality(In(n, q))
  BY <1>2, FS_RemoveElement
<1>4. f \in Bijection(S, T)
  <2>1. \A i \in S : i \in Nat /\ i - 1 \in T
    BY <1>1 DEF In
  <2>2. \A i \in T : i + 1 \in S /\ (i + 1) - 1 = i
    BY <1>1 DEF In
  <2>3. f \in [S -> T]
    BY <2>1
  <2>4. \A i, j \in S : f[i] = f[j] => i = j
    BY <2>1
  <2>5. \A j \in T : \E i \in S : f[i] = j
    BY <2>2
  <2> QED BY <2>3, <2>4, <2>5 DEF Bijection, Injection, Surjection, IsInjective
<1>5. Cardinality(T) = Cardinality(S)
  BY <1>3, <1>4, FS_Bijection DEF ExistsBijection
<1>6. 1 \in In(n, q) <=> Head(q).n = n
  BY <1>1 DEF In
<1> HIDE DEF S, T
<1>7. Cardinality(In(n, q)) = Cardinality(T) + Is(Head(q), n)
  BY <1>2, <1>3, <1>5, <1>6 DEF Is
<1> QED BY <1>7 DEF T, r

-----------------------------------------------------------------------------
(* What every goroutine carries.                                           *)

\* A goroutine has an element in hand while it sends or fails, and a router is
\* on its way to downstreams only.
HandAt(w) ==
    /\ at[w] # "send" => todo[w] = {}
    /\ IF at[w] \in {"send", "fail"} THEN hold[w] \in Live ELSE hold[w] = None
    /\ Kind[w[1]] = "router" => todo[w] \subseteq {<<w[1], d>> : d \in Downs(w[1])}

CollectorAt(l) == IF collecting[l] = "send" THEN taken[l] \in Live ELSE taken[l] = None

Flags ==
    /\ exec \in {"idle", "checked", "running", "done", "refused"}
    /\ closer \in [Closers -> {"idle", "waiting", "clean", "timeout", "already"}]
    /\ {isShutdown, cancelled, panicked, overtaken} \subseteq BOOLEAN
    /\ closed \subseteq Channels /\ returned \subseteq Stages
    /\ failed \subseteq 1 .. MaxElements

ChannelsOK ==
    /\ chan \in [Channels -> Seq(Live)] /\ \A c \in Channels \ {Input} : Len(chan[c]) <= BufferSize
    /\ received \in Seq(Live)

HandsOK ==
    /\ hold \in [Workers -> Elements] /\ \A w \in Workers : HandAt(w)
    /\ taken \in [Leaves -> Elements] /\ \A l \in Leaves : CollectorAt(l)

\* Before Execute there is nothing anywhere.
IdleOK ==
    exec = "idle" =>
        /\ \A c \in Channels : chan[c] = <<>>
        /\ \A w \in Workers : at[w] = "recv"
        /\ \A l \in Leaves : collecting[l] # "send"
        /\ received = <<>>

\* The copies of an element are somewhere; some may be lost when the context is
\* done, and none is ever there twice.
Sum(n) == Cardinality(InChannels(n)) + Cardinality(InHand(n)) + Cardinality(Collected(n))
          + Cardinality(In(n, received))

AccountAt(n) ==
    /\ IsFiniteSet(InChannels(n)) /\ IsFiniteSet(InHand(n))
    /\ Sum(n) <= copies[n] /\ (~cancelled => Sum(n) = copies[n])

AccountInv == /\ copies \in [1 .. MaxElements -> Nat]
              /\ \A n \in 1 .. MaxElements : AccountAt(n)

LEMMA OutputsFinite ==
    ASSUME NEW s \in Stages, NEW D \in SUBSET StageOutputs(s)
    PROVE  IsFiniteSet(D)
<1> DEFINE T == {UpstreamChannel(s, d) : d \in Downs(s)}
           f == [d \in Downs(s) |-> UpstreamChannel(s, d)]
<1>1. IsFiniteSet(Downs(s))
  BY PipelineAssumption, FS_Subset DEF Downs
<1>2. f \in Surjection(Downs(s), T)
  BY DEF Surjection
<1>3. IsFiniteSet(T)
  BY <1>1, <1>2, FS_Surjection
<1>4. IsFiniteSet({Shared(s)}) /\ StageOutputs(s) = {Shared(s)} \cup T
  BY FS_Singleton DEF StageOutputs
<1>5. IsFiniteSet(StageOutputs(s))
  BY <1>3, <1>4, FS_Union
<1> QED BY <1>5, FS_Subset

LEMMA LeavesFinite == \A T \in SUBSET Leaves : IsFiniteSet(T) /\ Cardinality(T) \in Nat
BY PipelineAssumption, FS_Subset, FS_CardinalityType DEF Leaves

LEMMA CollectedNumber ==
    ASSUME NEW n
    PROVE  IsFiniteSet(Collected(n)) /\ Cardinality(Collected(n)) \in Nat
BY LeavesFinite DEF Collected

\* One element less in a channel, one more in a channel.
LEMMA TakeCounts ==
    ASSUME ChannelsOK, NEW c \in Channels, Takes(c), NEW n, IsFiniteSet(InChannels(n))
    PROVE  /\ IsFiniteSet(InChannels(n)') /\ Cardinality(InChannels(n)') \in Nat
           /\ Cardinality(InChannels(n)) = Cardinality(InChannels(n)') + Is(Head(chan[c]), n)
<1> DEFINE f == [d \in Channels |-> In(n, chan[d])]
           g == [d \in Channels |-> In(n, chan'[d])]
<1>1. /\ chan[c] \in Seq(Live) /\ chan[c] # <<>> /\ chan'[c] = Tail(chan[c]) /\ Tail(chan[c]) \in Seq(Live)
      /\ \A d \in Channels \ {c} : chan'[d] = chan[d]
  BY DEF ChannelsOK, Takes
<1>2. InChannels(n) = Spread(f) /\ InChannels(n)' = Spread(g)
  BY DEF InChannels, Spread, In
<1>3. /\ f[c] = In(n, chan[c]) /\ g[c] = In(n, Tail(chan[c]))
      /\ DOMAIN f = Channels /\ DOMAIN g = Channels /\ \A d \in Channels \ {c} : g[d] = f[d]
  BY <1>1
<1>4. /\ IsFiniteSet(f[c]) /\ Cardinality(f[c]) \in Nat
      /\ IsFiniteSet(g[c]) /\ Cardinality(g[c]) \in Nat
      /\ Cardinality(f[c]) = Cardinality(g[c]) + Is(Head(chan[c]), n)
  BY <1>1, <1>3, InFinite, InTail
<1>5. Is(Head(chan[c]), n) \in Nat
  BY DEF Is
<1> HIDE DEF f, g
<1> QED BY <1>2, <1>3, <1>4, <1>5, SpreadShrinks

LEMMA PutCounts ==
    ASSUME ChannelsOK, NEW c \in Channels, NEW e \in Live, chan' = [chan EXCEPT ![c] = Append(@, e)],
           NEW n, IsFiniteSet(InChannels(n))
    PROVE  /\ IsFiniteSet(InChannels(n)') /\ Cardinality(InChannels(n)) \in Nat
           /\ Cardinality(InChannels(n)') = Cardinality(InChannels(n)) + Is(e, n)
<1> DEFINE f == [d \in Channels |-> In(n, chan[d])]
           g == [d \in Channels |-> In(n, chan'[d])]
<1>1. /\ chan[c] \in Seq(Live) /\ chan'[c] = Append(chan[c], e) /\ Append(chan[c], e) \in Seq(Live)
      /\ \A d \in Channels \ {c} : chan'[d] = chan[d]
  BY DEF ChannelsOK
<1>2. InChannels(n) = Spread(f) /\ InChannels(n)' = Spread(g)
  BY DEF InChannels, Spread, In
<1>3. /\ f[c] = In(n, chan[c]) /\ g[c] = In(n, Append(chan[c], e))
      /\ DOMAIN f = Channels /\ DOMAIN g = Channels /\ \A d \in Channels \ {c} : g[d] = f[d]
  BY <1>1
<1>4. /\ IsFiniteSet(f[c]) /\ Cardinality(f[c]) \in Nat
      /\ IsFiniteSet(g[c]) /\ Cardinality(g[c]) \in Nat
      /\ Cardinality(g[c]) = Cardinality(f[c]) + Is(e, n)
  <2>1. Cardinality(In(n, Append(chan[c], e))) = Cardinality(In(n, chan[c])) + Is(e, n)
    BY <1>1, InAppend
  <2> QED BY <1>1, <1>3, <2>1, InFinite
<1>5. Is(e, n) \in Nat
  BY DEF Is
<1> HIDE DEF f, g
<1> QED BY <1>2, <1>3, <1>4, <1>5, SpreadGrows

\* A goroutine owes its element to other channels than before.
LEMMA OwesFinite ==
    ASSUME CloseInv, NEW w \in Workers, NEW n
    PROVE  IsFiniteSet(Owes(w, n)) /\ Cardinality(Owes(w, n)) \in Nat
<1>1. w[1] \in Stages /\ todo[w] \in SUBSET StageOutputs(w[1])
  BY WorkerHasStage DEF CloseInv, SendsToOwn
<1>2. Owes(w, n) \in SUBSET StageOutputs(w[1])
  BY <1>1, SharedIsOwn DEF Owes
<1> QED BY <1>1, <1>2, OutputsFinite, FS_CardinalityType

LEMMA HandCounts ==
    ASSUME CloseInv, NEW w \in Workers, NEW n, IsFiniteSet(InHand(n)), IsFiniteSet(Owes(w, n)'),
           \A v \in Workers \ {w} : at'[v] = at[v] /\ hold'[v] = hold[v] /\ todo'[v] = todo[v]
    PROVE  /\ IsFiniteSet(InHand(n)')
           /\ Cardinality(InHand(n)') + Cardinality(Owes(w, n)) = Cardinality(InHand(n)) + Cardinality(Owes(w, n)')
           /\ Cardinality(InHand(n)') \in Nat /\ Cardinality(InHand(n)) \in Nat
<1> DEFINE f == [v \in Workers |-> Owes(v, n)]
           g == [v \in Workers |-> Owes(v, n)']
<1>1. InHand(n) = Spread(f) /\ InHand(n)' = Spread(g)
  BY DEF InHand, Spread
<1>2. /\ f[w] = Owes(w, n) /\ g[w] = Owes(w, n)'
      /\ DOMAIN f = Workers /\ DOMAIN g = Workers /\ \A v \in Workers \ {w} : g[v] = f[v]
  BY DEF Owes
<1>3. IsFiniteSet(f[w]) /\ IsFiniteSet(g[w])
  BY <1>2, OwesFinite
<1> HIDE DEF f, g
<1> QED BY <1>1, <1>2, <1>3, SpreadChanges

\* A collector takes an element or hands it on.
LEMMA CollectorCounts ==
    ASSUME NEW l \in Leaves, NEW e \in Elements, NEW n \in 1 .. MaxElements,
           DOMAIN taken = Leaves, taken' = [taken EXCEPT ![l] = e]
    PROVE  Cardinality(Collected(n)') + Is(taken[l], n) = Cardinality(Collected(n)) + Is(e, n)
<1> DEFINE R == Collected(n) \ {l}
<1>1. IsFiniteSet(R) /\ Cardinality(R) \in Nat /\ l \notin R
  BY LeavesFinite DEF Collected
<1>2. /\ Collected(n) = IF taken[l].n = n THEN R \cup {l} ELSE R
      /\ Collected(n)' = IF e.n = n THEN R \cup {l} ELSE R
  BY DEF Collected
<1>3. Cardinality(R \cup {l}) = Cardinality(R) + 1
  BY <1>1, FS_AddElement
<1> HIDE DEF R
<1> QED BY <1>1, <1>2, <1>3 DEF Is

-----------------------------------------------------------------------------
(* The pieces of a step.                                                   *)

LEMMA InputIsChannel ==
    ASSUME NEW w \in Workers
    PROVE  w[2] \in Channels
<1>1. PICK s \in Stages : w \in {s} \X StageInputs(s)
  BY DEF Workers
<1>2. CASE Ups(s) = {}
  BY <1>1, <1>2 DEF StageInputs, Channels
<1>3. CASE Ups(s) # {}
  <2>1. PICK u \in Ups(s) : w[2] = UpstreamChannel(u, s)
    BY <1>1, <1>3 DEF StageInputs
  <2>2. u \in Stages /\ w[2] \in StageOutputs(u)
    BY <2>1 DEF Ups, Downs, StageOutputs
  <2> QED BY <2>2, OutputsAreTagged
<1> QED BY <1>2, <1>3

LEMMA LeafIsChannel ==
    ASSUME NEW l \in Leaves
    PROVE  Shared(l) \in Channels
BY SharedIsOwn, OutputsAreTagged DEF Leaves

LEMMA NoneIs == None \in Elements /\ None.n = 0 /\ None \notin Live
BY PipelineAssumption DEF None, Element, Elements, Live

LEMMA LiveIs == ASSUME NEW e \in Live
                PROVE  e \in Elements /\ e.n \in 1 .. MaxElements
BY PipelineAssumption DEF Live, Elements

LEMMA SendIs ==
    ASSUME CloseInv', NEW c, NEW e, Send(c, e)
    PROVE  chan' = [chan EXCEPT ![c] = Append(@, e)] /\ Len(chan[c]) < BufferSize
BY DEF CloseInv, NobodyPanics, Send

LEMMA TakesIs ==
    ASSUME ChannelsOK, NEW c \in Channels, Takes(c)
    PROVE  /\ Head(chan[c]) \in Live /\ chan[c] # <<>> /\ chan' \in [Channels -> Seq(Live)]
           /\ \A d \in Channels \ {Input} : Len(chan'[d]) <= BufferSize
<1>1. chan[c] \in Seq(Live) /\ chan[c] # <<>> /\ chan' = [chan EXCEPT ![c] = Tail(chan[c])]
      /\ chan \in [Channels -> Seq(Live)]
  BY DEF ChannelsOK, Takes
<1>2. Head(chan[c]) \in Live /\ Tail(chan[c]) \in Seq(Live) /\ Len(Tail(chan[c])) <= Len(chan[c])
      /\ Len(chan[c]) \in Nat /\ Len(Tail(chan[c])) \in Nat
  BY <1>1
<1>3. chan' \in [Channels -> Seq(Live)]
  BY <1>1, <1>2
<1>4. ASSUME NEW d \in Channels \ {Input} PROVE Len(chan'[d]) <= BufferSize
  <2>1. Len(chan[d]) <= BufferSize /\ BufferSize \in Nat
    BY PipelineAssumption DEF ChannelsOK
  <2>2. CASE d = c
    BY <1>1, <1>2, <2>1, <2>2
  <2>3. CASE d # c
    BY <1>1, <2>1, <2>3
  <2> QED BY <2>2, <2>3
<1> QED BY <1>1, <1>2, <1>3, <1>4

LEMMA PutsIs ==
    ASSUME ChannelsOK, NEW c \in Channels, NEW e \in Live, Len(chan[c]) < BufferSize,
           chan' = [chan EXCEPT ![c] = Append(@, e)]
    PROVE  /\ chan' \in [Channels -> Seq(Live)]
           /\ \A d \in Channels \ {Input} : Len(chan'[d]) <= BufferSize
<1>1. chan[c] \in Seq(Live) /\ chan \in [Channels -> Seq(Live)]
  BY DEF ChannelsOK
<1>2. Append(chan[c], e) \in Seq(Live) /\ Len(Append(chan[c], e)) = Len(chan[c]) + 1 /\ Len(chan[c]) \in Nat
  BY <1>1
<1>3. chan' \in [Channels -> Seq(Live)]
  BY <1>1, <1>2
<1>4. ASSUME NEW d \in Channels \ {Input} PROVE Len(chan'[d]) <= BufferSize
  <2>1. Len(chan[d]) <= BufferSize /\ BufferSize \in Nat
    BY PipelineAssumption DEF ChannelsOK
  <2>2. CASE d = c
    BY <1>1, <1>2, <2>1, <2>2
  <2>3. CASE d # c
    BY <1>1, <2>1, <2>3
  <2> QED BY <2>2, <2>3
<1> QED BY <1>3, <1>4

\* A step of one goroutine.
LEMMA HandStep ==
    ASSUME CloseInv, HandsOK, NEW w \in Workers, NEW a, NEW h \in Elements, NEW D,
           at' = [at EXCEPT ![w] = a], hold' = [hold EXCEPT ![w] = h], todo' = [todo EXCEPT ![w] = D],
           UNCHANGED collectVars,
           a # "send" => D = {},
           IF a \in {"send", "fail"} THEN h \in Live ELSE h = None,
           Kind[w[1]] = "router" => D \subseteq {<<w[1], d>> : d \in Downs(w[1])}
    PROVE  /\ HandsOK' /\ at'[w] = a /\ hold'[w] = h /\ todo'[w] = D
           /\ \A v \in Workers \ {w} : at'[v] = at[v] /\ hold'[v] = hold[v] /\ todo'[v] = todo[v]
<1>1. /\ at'[w] = a /\ hold'[w] = h /\ todo'[w] = D
      /\ \A v \in Workers \ {w} : at'[v] = at[v] /\ hold'[v] = hold[v] /\ todo'[v] = todo[v]
  BY DEF CloseInv, ControlsOK, HandsOK
<1>2. hold' \in [Workers -> Elements]
  BY DEF HandsOK
<1>3. HandAt(w)'
  BY <1>1 DEF HandAt
<1>4. ASSUME NEW v \in Workers \ {w} PROVE HandAt(v)'
  <2>1. HandAt(v)
    BY DEF HandsOK
  <2> QED BY <1>1, <2>1 DEF HandAt
<1>5. (taken \in [Leaves -> Elements] /\ \A l \in Leaves : CollectorAt(l))'
  BY DEF HandsOK, CollectorAt, collectVars
<1> QED BY <1>1, <1>2, <1>3, <1>4, <1>5 DEF HandsOK

\* The sum of the places.
LEMMA SumIs ==
    ASSUME ChannelsOK, NEW n \in 1 .. MaxElements, AccountAt(n)
    PROVE  /\ Cardinality(InChannels(n)) \in Nat /\ Cardinality(InHand(n)) \in Nat
           /\ Cardinality(Collected(n)) \in Nat /\ Cardinality(In(n, received)) \in Nat
BY FS_CardinalityType, CollectedNumber, InFinite DEF AccountAt, ChannelsOK

LEMMA IsNumber == \A e, n : Is(e, n) \in {0, 1}
BY DEF Is

-----------------------------------------------------------------------------
(* The steps, with what they do to the places of an element.               *)

Base == CloseInv /\ Flags /\ ChannelsOK /\ HandsOK /\ AccountInv

\* A goroutine takes an element and owes it k times; a router makes k of one.
LEMMA ReceiveCounts ==
    ASSUME Base, NEW w \in Workers, Takes(w[2]), at[w] = "recv", NEW n \in 1 .. MaxElements, NEW k \in Nat,
           IsFiniteSet(Owes(w, n)'), Cardinality(Owes(w, n)') = k,
           \A v \in Workers \ {w} : at'[v] = at[v] /\ hold'[v] = hold[v] /\ todo'[v] = todo[v],
           UNCHANGED <<taken, received, cancelled>>, copies'[n] = (copies[n] + k) - Is(Received(w), n)
    PROVE  AccountAt(n)'
<1>1. AccountAt(n) /\ ChannelsOK /\ copies[n] \in Nat /\ w[2] \in Channels
  BY InputIsChannel DEF Base, AccountInv
<1>2. Owes(w, n) = {} /\ Cardinality(Owes(w, n)) = 0
  BY FS_EmptySet DEF Base, HandsOK, HandAt, Owes
<1>3. /\ IsFiniteSet(InHand(n)') /\ Cardinality(InHand(n)') = Cardinality(InHand(n)) + k
  <2>1. /\ IsFiniteSet(InHand(n)')
        /\ Cardinality(InHand(n)') + Cardinality(Owes(w, n)) = Cardinality(InHand(n)) + Cardinality(Owes(w, n)')
        /\ Cardinality(InHand(n)') \in Nat /\ Cardinality(InHand(n)) \in Nat
    BY <1>1, HandCounts DEF Base, AccountAt
  <2> QED BY <1>2, <2>1
<1>4. /\ IsFiniteSet(InChannels(n)') /\ Cardinality(InChannels(n)') \in Nat
      /\ Cardinality(InChannels(n)) = Cardinality(InChannels(n)') + Is(Received(w), n)
  BY <1>1, TakeCounts DEF AccountAt, Received
<1>5. Collected(n)' = Collected(n) /\ In(n, received)' = In(n, received)
  BY DEF Collected, In
<1>6. Is(Received(w), n) \in Nat
  BY IsNumber
<1>7. Sum(n)' = (Sum(n) + k) - Is(Received(w), n)
  BY <1>1, <1>3, <1>4, <1>5, <1>6, SumIs DEF Sum
<1>8. Sum(n) \in Nat
  BY <1>1, SumIs DEF Sum
<1> QED BY <1>1, <1>3, <1>4, <1>6, <1>7, <1>8 DEF AccountAt

LEMMA ReceiveMoves ==
    ASSUME Base, NEW w \in Workers, WorkerReceives(w)
    PROVE  ChannelsOK' /\ HandsOK' /\ AccountInv'
<1> DEFINE e == Received(w)
<1>1. /\ at[w] = "recv" /\ Takes(w[2]) /\ UNCHANGED <<collecting, taken, received, cancelled>>
      /\ UNCHANGED collectVars
  BY DEF WorkerReceives, WorkerIdle, collectVars
<1>2. w[2] \in Channels /\ w[1] \in Stages
  BY InputIsChannel, WorkerHasStage
<1>3. e \in Live /\ e \in Elements /\ e.n \in 1 .. MaxElements /\ ChannelsOK'
  <2>1. e \in Live
    BY <1>1, <1>2, TakesIs DEF Base, Received
  <2> QED BY <1>1, <1>2, <2>1, TakesIs, LiveIs DEF Base, ChannelsOK
<1>4. todo[w] = {} /\ hold[w] = None
  BY <1>1 DEF Base, HandsOK, HandAt
<1>5. CASE Passes(w)
  <2>1. /\ at' = [at EXCEPT ![w] = "send"] /\ hold' = [hold EXCEPT ![w] = e]
        /\ todo' = [todo EXCEPT ![w] = {Shared(w[1])}] /\ Kind[w[1]] # "router" /\ copies' = copies
    BY <1>5 DEF Passes, Holds, ghostVars
  <2>2. /\ HandsOK' /\ at'[w] = "send" /\ hold'[w] = e /\ todo'[w] = {Shared(w[1])}
        /\ \A v \in Workers \ {w} : at'[v] = at[v] /\ hold'[v] = hold[v] /\ todo'[v] = todo[v]
    BY <1>1, <1>3, <2>1, HandStep DEF Base
  <2>3. ASSUME NEW n \in 1 .. MaxElements PROVE AccountAt(n)'
    <3>1. Owes(w, n)' = IF e.n = n THEN {Shared(w[1])} ELSE {}
      BY <2>2 DEF Owes
    <3>2. IsFiniteSet(Owes(w, n)') /\ Cardinality(Owes(w, n)') = Is(e, n)
      BY <3>1, FS_Singleton, FS_EmptySet DEF Is
    <3>3. Is(e, n) \in Nat /\ copies[n] \in Nat
      BY IsNumber DEF Base, AccountInv
    <3>4. copies'[n] = (copies[n] + Is(e, n)) - Is(Received(w), n)
      BY <2>1, <3>3
    <3> QED BY <1>1, <2>1, <2>2, <3>2, <3>3, <3>4, ReceiveCounts
  <2> QED BY <1>3, <2>1, <2>2, <2>3 DEF Base, AccountInv
<1>6. CASE Fails(w)
  <2> DEFINE h == [e EXCEPT !.error = TRUE]
  <2>1. /\ at' = [at EXCEPT ![w] = "fail"] /\ hold' = [hold EXCEPT ![w] = h]
        /\ todo' = todo /\ copies' = copies /\ Kind[w[1]] = "map"
    BY <1>6 DEF Fails
  <2>2. h \in Live /\ h \in Elements /\ h.n = e.n
    <3>1. h \in Live /\ h.n = e.n
      BY <1>3 DEF Live
    <3> QED BY <3>1, LiveIs
  <2>3. todo' = [todo EXCEPT ![w] = {}]
    BY <1>4, <2>1 DEF Base, CloseInv, ControlsOK
  <2> HIDE DEF h
  <2>4. /\ HandsOK' /\ at'[w] = "fail" /\ hold'[w] = h
        /\ \A v \in Workers \ {w} : at'[v] = at[v] /\ hold'[v] = hold[v] /\ todo'[v] = todo[v]
    <3> DEFINE a == "fail"
               D == {}
    <3>1. at' = [at EXCEPT ![w] = a] /\ hold' = [hold EXCEPT ![w] = h] /\ todo' = [todo EXCEPT ![w] = D]
      BY <2>1, <2>3
    <3>2. /\ a # "send" => D = {}
          /\ IF a \in {"send", "fail"} THEN h \in Live ELSE h = None
          /\ Kind[w[1]] = "router" => D \subseteq {<<w[1], d>> : d \in Downs(w[1])}
      BY <2>2
    <3>3. a = "fail" /\ CloseInv /\ HandsOK
      BY DEF Base
    <3> HIDE DEF a, D
    <3> QED BY <1>1, <2>2, <3>1, <3>2, <3>3, HandStep
  <2>5. ASSUME NEW n \in 1 .. MaxElements PROVE AccountAt(n)'
    <3>1. Owes(w, n)' = IF e.n = n THEN {Shared(w[1])} ELSE {}
      BY <2>2, <2>4 DEF Owes
    <3>2. IsFiniteSet(Owes(w, n)') /\ Cardinality(Owes(w, n)') = Is(e, n)
      BY <3>1, FS_Singleton, FS_EmptySet DEF Is
    <3>3. Is(e, n) \in Nat /\ copies[n] \in Nat
      BY IsNumber DEF Base, AccountInv
    <3>4. copies'[n] = (copies[n] + Is(e, n)) - Is(Received(w), n)
      BY <2>1, <3>3
    <3> QED BY <1>1, <2>1, <2>4, <3>2, <3>3, <3>4, ReceiveCounts
  <2> QED BY <1>3, <2>1, <2>4, <2>5 DEF Base, AccountInv
<1>7. CASE Routes(w)
  <2>1. PICK D \in SUBSET Downs(w[1]) :
           /\ Holds(w, e, {UpstreamChannel(w[1], d) : d \in D})
           /\ copies' = [copies EXCEPT ![e.n] = (@ + Cardinality(D)) - 1]
    BY <1>7 DEF Routes
  <2>2. Kind[w[1]] = "router"
    BY <1>7 DEF Routes
  <2> DEFINE T == {UpstreamChannel(w[1], d) : d \in D}
             a == IF T = {} THEN "recv" ELSE "send"
             h == IF T = {} THEN None ELSE e
             f == [d \in D |-> <<w[1], d>>]
  <2>3. IsFiniteSet(D) /\ Cardinality(D) \in Nat
    BY <1>2, PipelineAssumption, FS_Subset, FS_CardinalityType DEF Downs
  <2>4. T = {<<w[1], d>> : d \in D}
    BY <2>2 DEF UpstreamChannel
  <2>5. f \in Bijection(D, T)
    <3>1. f \in [D -> T] /\ (\A x, y \in D : f[x] = f[y] => x = y) /\ (\A y \in T : \E x \in D : f[x] = y)
      BY <2>4
    <3> QED BY <3>1 DEF Bijection, Injection, Surjection, IsInjective
  <2>6. IsFiniteSet(T) /\ Cardinality(T) = Cardinality(D)
    BY <2>3, <2>5, FS_Bijection DEF ExistsBijection
  <2>7. at' = [at EXCEPT ![w] = a] /\ hold' = [hold EXCEPT ![w] = h] /\ todo' = [todo EXCEPT ![w] = T]
    BY <2>1 DEF Holds
  <2>8. /\ h \in Elements /\ (a # "send" => T = {})
        /\ IF a \in {"send", "fail"} THEN h \in Live ELSE h = None
        /\ T \subseteq {<<w[1], d>> : d \in Downs(w[1])}
    BY <1>3, <2>4, NoneIs
  <2>9. /\ HandsOK' /\ at'[w] = a /\ hold'[w] = h /\ todo'[w] = T
        /\ \A v \in Workers \ {w} : at'[v] = at[v] /\ hold'[v] = hold[v] /\ todo'[v] = todo[v]
    <3> HIDE DEF a, h, T
    <3> QED BY <1>1, <2>7, <2>8, HandStep DEF Base
  <2>10. ASSUME NEW n \in 1 .. MaxElements PROVE AccountAt(n)' /\ copies'[n] \in Nat
    <3> DEFINE k == IF e.n = n THEN Cardinality(D) ELSE 0
    <3>1. a # "fail" /\ (T # {} => h = e) /\ (T = {} => h.n # n)
      BY NoneIs
    <3>2. Owes(w, n)' = IF e.n = n THEN T ELSE {}
      <4> HIDE DEF a, h, T
      <4> QED BY <2>9, <3>1 DEF Owes
    <3>3. IsFiniteSet(Owes(w, n)') /\ Cardinality(Owes(w, n)') = k /\ k \in Nat
      <4> HIDE DEF T
      <4> QED BY <2>3, <2>6, <3>2, FS_EmptySet
    <3>4. copies \in [1 .. MaxElements -> Nat] /\ copies[n] \in Nat
      BY DEF Base, AccountInv
    <3>5. copies'[n] = (copies[n] + k) - Is(Received(w), n)
      BY <1>3, <2>1, <2>3, <3>4 DEF Is
    <3>6. copies[n] >= Is(Received(w), n)
      <4>1. AccountAt(n) /\ ChannelsOK
        BY DEF Base, AccountInv
      <4>2. /\ Cardinality(InChannels(n)') \in Nat
            /\ Cardinality(InChannels(n)) = Cardinality(InChannels(n)') + Is(Received(w), n)
        BY <1>1, <1>2, <4>1, TakeCounts DEF AccountAt, Received
      <4>3. Cardinality(InChannels(n)) >= Is(Received(w), n)
        BY <4>2, IsNumber
      <4> QED BY <3>4, <4>1, <4>3, SumIs, IsNumber DEF AccountAt, Sum
    <3>7. copies'[n] \in Nat
      BY <3>3, <3>4, <3>5, <3>6, IsNumber
    <3> HIDE DEF k
    <3> QED BY <1>1, <2>9, <3>3, <3>5, <3>7, ReceiveCounts
  <2>11. copies' \in [1 .. MaxElements -> Nat]
    <3>1. DOMAIN copies' = 1 .. MaxElements /\ copies' = [m \in 1 .. MaxElements |-> copies'[m]]
      BY <2>1 DEF Base, AccountInv
    <3> QED BY <2>10, <3>1
  <2> QED BY <1>3, <2>9, <2>10, <2>11 DEF AccountInv
<1> QED BY <1>5, <1>6, <1>7 DEF WorkerReceives


\* A goroutine puts an element into a channel, and owes it once less.
LEMMA PutMoves ==
    ASSUME Base, NEW w \in Workers, NEW c \in Channels, NEW e \in Live,
           chan' = [chan EXCEPT ![c] = Append(@, e)], NEW n \in 1 .. MaxElements,
           IsFiniteSet(Owes(w, n)'), Cardinality(Owes(w, n)) = Cardinality(Owes(w, n)') + Is(e, n),
           \A v \in Workers \ {w} : at'[v] = at[v] /\ hold'[v] = hold[v] /\ todo'[v] = todo[v],
           UNCHANGED <<taken, received, cancelled, copies>>
    PROVE  AccountAt(n)'
<1>1. AccountAt(n) /\ ChannelsOK
  BY DEF Base, AccountInv
<1>2. /\ IsFiniteSet(InHand(n)') /\ Cardinality(InHand(n)') \in Nat
      /\ Cardinality(InHand(n)) = Cardinality(InHand(n)') + Is(e, n)
  <2>1. /\ IsFiniteSet(InHand(n)')
        /\ Cardinality(InHand(n)') + Cardinality(Owes(w, n)) = Cardinality(InHand(n)) + Cardinality(Owes(w, n)')
        /\ Cardinality(InHand(n)') \in Nat /\ Cardinality(InHand(n)) \in Nat
    BY <1>1, HandCounts DEF Base, AccountAt
  <2>2. Cardinality(Owes(w, n)') \in Nat /\ Is(e, n) \in Nat
    BY FS_CardinalityType, IsNumber
  <2> QED BY <2>1, <2>2
<1>3. /\ IsFiniteSet(InChannels(n)') /\ Cardinality(InChannels(n)) \in Nat
      /\ Cardinality(InChannels(n)') = Cardinality(InChannels(n)) + Is(e, n)
  BY <1>1, PutCounts DEF AccountAt
<1>4. Collected(n)' = Collected(n) /\ In(n, received)' = In(n, received) /\ Is(e, n) \in Nat
  BY IsNumber DEF Collected, In
<1>5. Sum(n)' = Sum(n)
  BY <1>1, <1>2, <1>3, <1>4, SumIs DEF Sum
<1> QED BY <1>1, <1>2, <1>3, <1>5 DEF AccountAt

\* What is left to a goroutine behind one of its destinations.
LEMMA SentIs ==
    ASSUME Base, NEW w \in Workers, NEW c \in todo[w], at[w] = "send", Sent(w, c), UNCHANGED collectVars
    PROVE  /\ HandsOK' /\ \A n \in 1 .. MaxElements : Owes(w, n)' = Owes(w, n) \ {c}
           /\ \A v \in Workers \ {w} : at'[v] = at[v] /\ hold'[v] = hold[v] /\ todo'[v] = todo[v]
<1> DEFINE last == todo[w] = {c}
           a == IF last THEN "recv" ELSE "send"
           h == IF last THEN None ELSE hold[w]
           D == todo[w] \ {c}
<1>1. at' = [at EXCEPT ![w] = a] /\ hold' = [hold EXCEPT ![w] = h] /\ todo' = [todo EXCEPT ![w] = D]
  BY DEF Sent, Base, CloseInv, ControlsOK, HandsOK
<1>2. hold[w] \in Live /\ hold[w] \in Elements /\ (Kind[w[1]] = "router" => todo[w] \subseteq {<<w[1], d>> : d \in Downs(w[1])})
  BY DEF Base, HandsOK, HandAt
<1>3. /\ h \in Elements /\ (a # "send" => D = {})
      /\ IF a \in {"send", "fail"} THEN h \in Live ELSE h = None
      /\ Kind[w[1]] = "router" => D \subseteq {<<w[1], d>> : d \in Downs(w[1])}
  BY <1>2, NoneIs
<1>4. a # "fail" /\ (D # {} => h = hold[w]) /\ (h = hold[w] \/ h.n = 0)
  BY NoneIs
<1>5. CloseInv /\ HandsOK
  BY DEF Base
<1>6. /\ HandsOK' /\ at'[w] = a /\ hold'[w] = h /\ todo'[w] = D
      /\ \A v \in Workers \ {w} : at'[v] = at[v] /\ hold'[v] = hold[v] /\ todo'[v] = todo[v]
  <2> HIDE DEF a, h, D
  <2> QED BY <1>1, <1>3, <1>5, HandStep
<1>7. ASSUME NEW n \in 1 .. MaxElements PROVE Owes(w, n)' = Owes(w, n) \ {c}
  <2>1. Owes(w, n) = IF hold[w].n = n THEN todo[w] ELSE {}
    BY DEF Owes
  <2>2. Owes(w, n)' = IF h.n = n THEN D ELSE {}
    <3> HIDE DEF a, h, D
    <3> QED BY <1>4, <1>6 DEF Owes
  <2>3. CASE D = {}
    BY <2>1, <2>2, <2>3
  <2>4. CASE D # {}
    BY <1>4, <2>1, <2>2, <2>4
  <2> QED BY <2>3, <2>4
<1> QED BY <1>6, <1>7

LEMMA StopsIs ==
    ASSUME Base, NEW w \in Workers, Stops(w), UNCHANGED collectVars
    PROVE  /\ HandsOK' /\ \A n \in 1 .. MaxElements : Owes(w, n)' = {}
           /\ \A v \in Workers \ {w} : at'[v] = at[v] /\ hold'[v] = hold[v] /\ todo'[v] = todo[v]
<1>1. /\ at' = [at EXCEPT ![w] = "done"] /\ hold' = [hold EXCEPT ![w] = None]
      /\ todo' = [todo EXCEPT ![w] = {}]
  BY DEF Stops
<1>2. CloseInv /\ HandsOK
  BY DEF Base
<1>3. /\ at'[w] = "done" /\ hold'[w] = None /\ todo'[w] = {}
      /\ \A v \in Workers \ {w} : at'[v] = at[v] /\ hold'[v] = hold[v] /\ todo'[v] = todo[v]
  BY <1>1, <1>2 DEF CloseInv, ControlsOK, HandsOK
<1>4. hold' \in [Workers -> Elements]
  BY <1>1, <1>2, NoneIs DEF HandsOK
<1>5. HandAt(w)'
  BY <1>3 DEF HandAt
<1>6. ASSUME NEW v \in Workers \ {w} PROVE HandAt(v)'
  <2>1. HandAt(v)
    BY <1>2 DEF HandsOK
  <2> QED BY <1>3, <2>1 DEF HandAt
<1>7. (taken \in [Leaves -> Elements] /\ \A l \in Leaves : CollectorAt(l))'
  BY <1>2 DEF HandsOK, CollectorAt, collectVars
<1>8. HandsOK'
  BY <1>3, <1>4, <1>5, <1>6, <1>7 DEF HandsOK
<1>9. \A n \in 1 .. MaxElements : Owes(w, n)' = {}
  BY <1>3, NoneIs DEF Owes
<1> QED BY <1>3, <1>8, <1>9

LEMMA WorkerSendsMoves ==
    ASSUME Base, CloseInv', NEW w \in Workers, NEW c, WorkerSends(w, c)
    PROVE  ChannelsOK' /\ HandsOK' /\ AccountInv'
<1> DEFINE e == Copy(w, c)
<1>1. /\ at[w] = "send" /\ c \in todo[w] /\ Send(c, e) /\ Sent(w, c)
      /\ UNCHANGED <<taken, received, cancelled, copies>> /\ UNCHANGED collectVars
  BY DEF WorkerSends, WorkerIdle, collectVars, ghostVars
<1>2. chan' = [chan EXCEPT ![c] = Append(@, e)] /\ Len(chan[c]) < BufferSize
  BY <1>1, SendIs
<1>3. w[1] \in Stages /\ c \in StageOutputs(w[1]) /\ c \in Channels /\ hold[w] \in Live
  BY <1>1, WorkerHasStage, OutputsAreTagged DEF Base, CloseInv, SendsToOwn, HandsOK, HandAt
<1>4. e \in Live /\ e.n = hold[w].n
  <2>1. CASE Kind[w[1]] = "router"
    <3>1. c[2] \in Stages
      <4>1. HandAt(w)
        BY DEF Base, HandsOK
      <4>2. PICK d \in Downs(w[1]) : c = <<w[1], d>>
        BY <1>1, <2>1, <4>1 DEF HandAt
      <4> QED BY <4>2 DEF Downs
    <3> QED BY <1>3, <2>1, <3>1 DEF Copy, Live
  <2>2. CASE Kind[w[1]] # "router"
    BY <1>3, <2>2 DEF Copy
  <2> QED BY <2>1, <2>2
<1>5. ChannelsOK'
  BY <1>1, <1>2, <1>3, <1>4, PutsIs DEF Base, ChannelsOK
<1>6. /\ HandsOK' /\ \A n \in 1 .. MaxElements : Owes(w, n)' = Owes(w, n) \ {c}
      /\ \A v \in Workers \ {w} : at'[v] = at[v] /\ hold'[v] = hold[v] /\ todo'[v] = todo[v]
  BY <1>1, SentIs
<1> HIDE DEF e
<1>7. ASSUME NEW n \in 1 .. MaxElements PROVE AccountAt(n)'
  <2>1. IsFiniteSet(Owes(w, n)) /\ Cardinality(Owes(w, n)) \in Nat
    BY OwesFinite DEF Base
  <2>2. c \in Owes(w, n) <=> e.n = n
    BY <1>1, <1>4 DEF Owes
  <2>3. /\ IsFiniteSet(Owes(w, n) \ {c})
        /\ Cardinality(Owes(w, n) \ {c}) = IF e.n = n THEN Cardinality(Owes(w, n)) - 1 ELSE Cardinality(Owes(w, n))
    <3>1. /\ IsFiniteSet(Owes(w, n) \ {c})
          /\ Cardinality(Owes(w, n) \ {c}) =
                IF c \in Owes(w, n) THEN Cardinality(Owes(w, n)) - 1 ELSE Cardinality(Owes(w, n))
      BY <2>1, FS_RemoveElement
    <3> QED BY <2>2, <3>1
  <2>4. IsFiniteSet(Owes(w, n)') /\ Cardinality(Owes(w, n)) = Cardinality(Owes(w, n)') + Is(e, n)
    <3>1. Owes(w, n)' = Owes(w, n) \ {c}
      BY <1>6
    <3>2. Cardinality(Owes(w, n)) = Cardinality(Owes(w, n) \ {c}) + Is(e, n)
      BY <2>1, <2>3 DEF Is
    <3> QED BY <2>3, <3>1, <3>2
  <2> QED BY <1>1, <1>2, <1>3, <1>4, <1>6, <2>4, PutMoves
<1> QED BY <1>1, <1>5, <1>6, <1>7 DEF Base, AccountInv

LEMMA FailSendsMoves ==
    ASSUME Base, CloseInv', NEW w \in Workers, FailSends(w)
    PROVE  ChannelsOK' /\ HandsOK' /\ AccountInv'
<1> DEFINE c == Shared(w[1])
           e == hold[w]
<1>1. /\ at[w] = "fail" /\ Send(c, e) /\ Stops(w)
      /\ UNCHANGED <<taken, received, cancelled, copies>> /\ UNCHANGED collectVars
  BY DEF FailSends, WorkerIdle, collectVars, ghostVars
<1>2. chan' = [chan EXCEPT ![c] = Append(@, e)] /\ Len(chan[c]) < BufferSize
  BY <1>1, SendIs
<1>3. w[1] \in Stages /\ c \in StageOutputs(w[1]) /\ c \in Channels /\ e \in Live
  BY <1>1, WorkerHasStage, SharedIsOwn, OutputsAreTagged DEF Base, HandsOK, HandAt
<1>4. ChannelsOK'
  BY <1>1, <1>2, <1>3, PutsIs DEF Base, ChannelsOK
<1>5. /\ HandsOK' /\ \A n \in 1 .. MaxElements : Owes(w, n)' = {}
      /\ \A v \in Workers \ {w} : at'[v] = at[v] /\ hold'[v] = hold[v] /\ todo'[v] = todo[v]
  BY <1>1, StopsIs
<1>6. ASSUME NEW n \in 1 .. MaxElements PROVE AccountAt(n)'
  <2>1. Owes(w, n) = IF e.n = n THEN {c} ELSE {}
    BY <1>1 DEF Owes
  <2>2. IsFiniteSet(Owes(w, n)') /\ Cardinality(Owes(w, n)') = 0 /\ Cardinality(Owes(w, n)) = Is(e, n)
    BY <1>5, <2>1, FS_Singleton, FS_EmptySet DEF Is
  <2>3. Cardinality(Owes(w, n)) = Cardinality(Owes(w, n)') + Is(e, n)
    BY <2>2, IsNumber
  <2> HIDE DEF c, e
  <2> QED BY <1>1, <1>2, <1>3, <1>5, <2>2, <2>3, PutMoves
<1> QED BY <1>1, <1>4, <1>5, <1>6 DEF Base, AccountInv

\* With the context done, elements in hand are given up.
LEMMA SendCancelledMoves ==
    ASSUME Base, NEW w \in Workers, NEW c, SendCancelled(w, c)
    PROVE  ChannelsOK' /\ HandsOK' /\ AccountInv'
<1>1. /\ at[w] = "send" /\ c \in todo[w] /\ cancelled /\ (Sent(w, c) \/ Stops(w))
      /\ UNCHANGED <<chan, taken, received, cancelled, copies>> /\ UNCHANGED collectVars
  BY DEF SendCancelled, WorkerIdle, collectVars, ghostVars
<1>2. /\ HandsOK' /\ \A n \in 1 .. MaxElements : Owes(w, n)' \subseteq Owes(w, n)
      /\ \A v \in Workers \ {w} : at'[v] = at[v] /\ hold'[v] = hold[v] /\ todo'[v] = todo[v]
  <2>1. CASE Sent(w, c)
    BY <1>1, <2>1, SentIs
  <2>2. CASE Stops(w)
    BY <1>1, <2>2, StopsIs
  <2> QED BY <1>1, <2>1, <2>2
<1>3. ASSUME NEW n \in 1 .. MaxElements PROVE AccountAt(n)'
  <2>1. AccountAt(n) /\ ChannelsOK /\ CloseInv /\ copies[n] \in Nat
    BY DEF Base, AccountInv
  <2>2. /\ IsFiniteSet(Owes(w, n)') /\ Cardinality(Owes(w, n)') <= Cardinality(Owes(w, n))
        /\ Cardinality(Owes(w, n)') \in Nat /\ Cardinality(Owes(w, n)) \in Nat
    BY <1>2, <2>1, OwesFinite, FS_Subset, FS_CardinalityType
  <2>3. /\ IsFiniteSet(InHand(n)')
        /\ Cardinality(InHand(n)') + Cardinality(Owes(w, n)) = Cardinality(InHand(n)) + Cardinality(Owes(w, n)')
        /\ Cardinality(InHand(n)') \in Nat /\ Cardinality(InHand(n)) \in Nat
    BY <1>2, <2>1, <2>2, HandCounts DEF AccountAt
  <2>4. Cardinality(InHand(n)') <= Cardinality(InHand(n))
    BY <2>2, <2>3
  <2>5. InChannels(n)' = InChannels(n) /\ Collected(n)' = Collected(n) /\ In(n, received)' = In(n, received)
    BY <1>1 DEF InChannels, Collected, In
  <2>6. Sum(n)' <= Sum(n) /\ Sum(n)' \in Nat /\ Sum(n) \in Nat
    BY <2>1, <2>3, <2>4, <2>5, SumIs DEF Sum
  <2> QED BY <1>1, <2>1, <2>3, <2>5, <2>6 DEF AccountAt
<1>4. ChannelsOK' /\ copies' = copies
  BY <1>1 DEF Base, ChannelsOK
<1> QED BY <1>2, <1>3, <1>4 DEF Base, AccountInv


\* The other steps of a goroutine move nothing.
LEMMA QuietMoves ==
    ASSUME Base, UNCHANGED <<chan, hold, todo, taken, received, cancelled, copies, collecting>>,
           \A w \in Workers : at'[w] = at[w] \/ (at[w] = "recv" /\ at'[w] = "done")
    PROVE  ChannelsOK' /\ HandsOK' /\ AccountInv'
<1>1. ChannelsOK' /\ copies' = copies
  BY DEF Base, ChannelsOK
<1>2. ASSUME NEW w \in Workers PROVE HandAt(w)'
  <2>1. HandAt(w)
    BY DEF Base, HandsOK
  <2> QED BY <2>1 DEF HandAt
<1>3. HandsOK'
  BY <1>2 DEF Base, HandsOK, CollectorAt
<1>4. ASSUME NEW n \in 1 .. MaxElements PROVE AccountAt(n)'
  <2>1. \A w \in Workers : Owes(w, n)' = Owes(w, n)
    BY DEF Owes
  <2>2. InHand(n)' = InHand(n)
    BY <2>1 DEF InHand
  <2>3. InChannels(n)' = InChannels(n) /\ Collected(n)' = Collected(n) /\ In(n, received)' = In(n, received)
    BY DEF InChannels, Collected, In
  <2>4. AccountAt(n)
    BY DEF Base, AccountInv
  <2> QED BY <2>2, <2>3, <2>4 DEF AccountAt, Sum
<1> QED BY <1>1, <1>3, <1>4 DEF Base, AccountInv

LEMMA CancelMoves ==
    ASSUME Base, Cancel
    PROVE  ChannelsOK' /\ HandsOK' /\ AccountInv'
<1>1. UNCHANGED <<chan, at, hold, todo, taken, received, copies, collecting>> /\ cancelled'
  BY DEF Cancel, workerVars, collectVars, ghostVars
<1>2. ChannelsOK' /\ HandsOK'
  BY <1>1 DEF Base, ChannelsOK, HandsOK, HandAt, CollectorAt
<1>3. ASSUME NEW n \in 1 .. MaxElements PROVE AccountAt(n)'
  <2>1. /\ InChannels(n)' = InChannels(n) /\ Collected(n)' = Collected(n) /\ In(n, received)' = In(n, received)
        /\ InHand(n)' = InHand(n)
    BY <1>1 DEF InChannels, Collected, In, InHand, Owes
  <2>2. AccountAt(n)
    BY DEF Base, AccountInv
  <2> QED BY <1>1, <2>1, <2>2 DEF AccountAt, Sum
<1> QED BY <1>1, <1>2, <1>3 DEF Base, AccountInv

\* The collectors and the reader.
LEMMA CollectorStep ==
    ASSUME Base, NEW l \in Leaves, NEW a, NEW e \in Elements, collecting' = [collecting EXCEPT ![l] = a],
           taken' = [taken EXCEPT ![l] = e], UNCHANGED workerVars,
           IF a = "send" THEN e \in Live ELSE e = None
    PROVE  HandsOK'
<1>1. \A w \in Workers : HandAt(w)'
  BY DEF Base, HandsOK, HandAt, workerVars
<1>2. taken' \in [Leaves -> Elements] /\ hold' \in [Workers -> Elements]
  BY DEF Base, HandsOK, workerVars
<1>3. \A m \in Leaves : CollectorAt(m)'
  BY DEF Base, HandsOK, CollectorAt, CloseInv, ControlsOK
<1> QED BY <1>1, <1>2, <1>3 DEF HandsOK

LEMMA CollectTakesMoves ==
    ASSUME Base, NEW l \in Leaves, CollectTakes(l)
    PROVE  ChannelsOK' /\ HandsOK' /\ AccountInv'
<1> DEFINE c == Shared(l)
           e == Head(chan[c])
<1>1. /\ collecting[l] = "recv" /\ Takes(c) /\ taken' = [taken EXCEPT ![l] = e]
      /\ collecting' = [collecting EXCEPT ![l] = "send"]
      /\ UNCHANGED <<hold, todo, at, received, cancelled, copies>> /\ UNCHANGED workerVars
  BY DEF CollectTakes, CollectIdle, workerVars, ghostVars
<1>2. c \in Channels
  BY LeafIsChannel
<1>3. e \in Live /\ e \in Elements /\ ChannelsOK'
  <2>1. e \in Live
    BY <1>1, <1>2, TakesIs DEF Base
  <2> QED BY <1>1, <1>2, <2>1, TakesIs, LiveIs DEF Base, ChannelsOK
<1>4. taken[l] = None /\ DOMAIN taken = Leaves
  BY <1>1 DEF Base, HandsOK, CollectorAt
<1> HIDE DEF e
<1>5. HandsOK'
  BY <1>1, <1>3, CollectorStep
<1>6. ASSUME NEW n \in 1 .. MaxElements PROVE AccountAt(n)'
  <2>1. AccountAt(n) /\ ChannelsOK
    BY DEF Base, AccountInv
  <2>2. /\ IsFiniteSet(InChannels(n)') /\ Cardinality(InChannels(n)') \in Nat
        /\ Cardinality(InChannels(n)) = Cardinality(InChannels(n)') + Is(e, n)
    BY <1>1, <1>2, <2>1, TakeCounts DEF AccountAt, e
  <2>3. Cardinality(Collected(n)') + Is(taken[l], n) = Cardinality(Collected(n)) + Is(e, n)
    BY <1>1, <1>3, <1>4, CollectorCounts
  <2>4. Is(taken[l], n) = 0 /\ Is(e, n) \in Nat
    BY <1>4, NoneIs, IsNumber DEF Is
  <2>5. InHand(n)' = InHand(n) /\ In(n, received)' = In(n, received)
    BY <1>1 DEF InHand, Owes, In
  <2>6. Cardinality(Collected(n)') \in Nat
    BY LeavesFinite DEF Collected
  <2>7. Cardinality(Collected(n)') = Cardinality(Collected(n)) + Is(e, n)
    <3>1. Cardinality(Collected(n)) \in Nat
      BY CollectedNumber
    <3>2. Cardinality(Collected(n)') + 0 = Cardinality(Collected(n)) + Is(e, n)
      BY <2>3, <2>4
    <3> QED BY <2>4, <2>6, <3>1, <3>2
  <2>8. Sum(n)' = Sum(n)
    BY <2>1, <2>2, <2>4, <2>5, <2>7, SumIs DEF Sum
  <2> QED BY <1>1, <2>1, <2>2, <2>5, <2>8 DEF AccountAt
<1> QED BY <1>1, <1>3, <1>5, <1>6 DEF Base, AccountInv

LEMMA CollectSendsMoves ==
    ASSUME Base, CloseInv', NEW l \in Leaves, CollectSends(l)
    PROVE  ChannelsOK' /\ HandsOK' /\ AccountInv'
<1> DEFINE e == taken[l]
<1>1. /\ collecting[l] = "send" /\ Send(Output, e) /\ taken' = [taken EXCEPT ![l] = None]
      /\ collecting' = [collecting EXCEPT ![l] = "recv"]
      /\ UNCHANGED <<hold, todo, at, received, cancelled, copies>> /\ UNCHANGED workerVars
  BY DEF CollectSends, CollectIdle, workerVars, ghostVars
<1>2. chan' = [chan EXCEPT ![Output] = Append(@, e)] /\ Len(chan[Output]) < BufferSize
  BY <1>1, SendIs
<1>3. e \in Live /\ DOMAIN taken = Leaves /\ Output \in Channels
  BY <1>1 DEF Base, HandsOK, CollectorAt, Channels
<1>4. ChannelsOK'
  BY <1>1, <1>2, <1>3, PutsIs DEF Base, ChannelsOK
<1>5. HandsOK'
  BY <1>1, NoneIs, CollectorStep
<1> HIDE DEF e
<1>6. ASSUME NEW n \in 1 .. MaxElements PROVE AccountAt(n)'
  <2>1. AccountAt(n) /\ ChannelsOK
    BY DEF Base, AccountInv
  <2>2. /\ IsFiniteSet(InChannels(n)') /\ Cardinality(InChannels(n)) \in Nat
        /\ Cardinality(InChannels(n)') = Cardinality(InChannels(n)) + Is(e, n)
    BY <1>2, <1>3, <2>1, PutCounts DEF AccountAt
  <2>3. Cardinality(Collected(n)') + Is(e, n) = Cardinality(Collected(n)) + Is(None, n)
    <3>1. DOMAIN taken = Leaves /\ taken' = [taken EXCEPT ![l] = None] /\ e = taken[l]
      BY <1>1, <1>3 DEF e
    <3>2. Cardinality(Collected(n)') + Is(taken[l], n) = Cardinality(Collected(n)) + Is(None, n)
      BY <3>1, NoneIs, CollectorCounts
    <3> QED BY <3>1, <3>2
  <2>4. Is(None, n) = 0 /\ Is(e, n) \in Nat
    BY NoneIs, IsNumber DEF Is
  <2>5. InHand(n)' = InHand(n) /\ In(n, received)' = In(n, received)
    BY <1>1 DEF InHand, Owes, In
  <2>6. Cardinality(Collected(n)') \in Nat
    BY LeavesFinite DEF Collected
  <2>7. Cardinality(Collected(n)) = Cardinality(Collected(n)') + Is(e, n)
    <3>1. Cardinality(Collected(n)) \in Nat
      BY CollectedNumber
    <3>2. Cardinality(Collected(n)') + Is(e, n) = Cardinality(Collected(n)) + 0
      BY <2>3, <2>4
    <3> QED BY <2>4, <2>6, <3>1, <3>2
  <2>8. Sum(n)' = Sum(n)
    BY <2>1, <2>2, <2>4, <2>5, <2>6, <2>7, SumIs DEF Sum
  <2> QED BY <1>1, <2>1, <2>2, <2>5, <2>8 DEF AccountAt
<1> QED BY <1>1, <1>4, <1>5, <1>6 DEF Base, AccountInv

LEMMA ReadsMoves ==
    ASSUME Base, Reads
    PROVE  ChannelsOK' /\ HandsOK' /\ AccountInv'
<1> DEFINE e == Head(chan[Output])
<1>1. /\ Takes(Output) /\ received' = Append(received, e)
      /\ UNCHANGED <<hold, todo, at, taken, collecting, cancelled, copies>>
  BY DEF Reads, workerVars, collectVars, ghostVars
<1>2. Output \in Channels
  BY DEF Channels
<1>3. e \in Live /\ received \in Seq(Live) /\ ChannelsOK'
  <2>1. e \in Live /\ received \in Seq(Live)
    BY <1>1, <1>2, TakesIs DEF Base, ChannelsOK
  <2>2. Append(received, e) \in Seq(Live)
    BY <2>1
  <2> QED BY <1>1, <1>2, <2>1, <2>2, TakesIs DEF Base, ChannelsOK
<1>4. HandsOK'
  BY <1>1 DEF Base, HandsOK, HandAt, CollectorAt
<1> HIDE DEF e
<1>5. ASSUME NEW n \in 1 .. MaxElements PROVE AccountAt(n)'
  <2>1. AccountAt(n) /\ ChannelsOK
    BY DEF Base, AccountInv
  <2>2. /\ IsFiniteSet(InChannels(n)') /\ Cardinality(InChannels(n)') \in Nat
        /\ Cardinality(InChannels(n)) = Cardinality(InChannels(n)') + Is(e, n)
    BY <1>1, <1>2, <2>1, TakeCounts DEF AccountAt, e
  <2>3. Cardinality(In(n, Append(received, e))) = Cardinality(In(n, received)) + Is(e, n)
    BY <1>3, InAppend
  <2>4. In(n, received)' = In(n, Append(received, e)) /\ Is(e, n) \in Nat
    BY <1>1, IsNumber DEF In
  <2>5. InHand(n)' = InHand(n) /\ Collected(n)' = Collected(n)
    BY <1>1 DEF InHand, Owes, Collected
  <2>6. Sum(n)' = Sum(n)
    BY <2>1, <2>2, <2>3, <2>4, <2>5, SumIs DEF Sum
  <2> QED BY <1>1, <2>1, <2>2, <2>5, <2>6 DEF AccountAt
<1> QED BY <1>1, <1>3, <1>4, <1>5 DEF Base, AccountInv


\* Execute puts one copy of each element into the input.
LEMMA ExecuteMoves ==
    ASSUME Base, IdleOK, Execute
    PROVE  ChannelsOK' /\ HandsOK' /\ AccountInv'
<1>1. /\ exec = "idle" /\ UNCHANGED <<at, hold, todo, taken, collecting, received, cancelled>>
  BY DEF Execute, workerVars, collectVars
<1>2. PICK m \in 1 .. MaxElements :
          /\ chan' = [chan EXCEPT ![Input] = Fed(m)]
          /\ copies' = [n \in 1 .. MaxElements |-> IF n <= m THEN 1 ELSE 0]
  BY DEF Execute
<1>3. /\ \A c \in Channels : chan[c] = <<>>
      /\ \A w \in Workers : at[w] = "recv"
      /\ \A l \in Leaves : collecting[l] # "send"
      /\ received = <<>>
  BY <1>1 DEF IdleOK
<1>4. MaxElements \in Nat /\ m \in Nat /\ Input \in Channels /\ chan \in [Channels -> Seq(Live)]
  BY PipelineAssumption DEF Base, ChannelsOK, Channels
<1>5. \A n \in 1 .. m : Element(n) \in Live /\ Element(n).n = n
  BY <1>4 DEF Element, Live
<1>6. Fed(m) \in Seq(Live) /\ DOMAIN Fed(m) = 1 .. m /\ \A n \in 1 .. m : Fed(m)[n] = Element(n)
  BY <1>4, <1>5 DEF Fed
<1>7. ChannelsOK'
  <2>1. chan' \in [Channels -> Seq(Live)]
    BY <1>2, <1>4, <1>6
  <2>2. \A c \in Channels \ {Input} : chan'[c] = chan[c]
    BY <1>2, <1>4
  <2> QED BY <1>1, <2>1, <2>2 DEF Base, ChannelsOK
<1>8. HandsOK'
  BY <1>1 DEF Base, HandsOK, HandAt, CollectorAt
<1>9. copies' \in [1 .. MaxElements -> Nat]
  BY <1>2
<1>10. ASSUME NEW n \in 1 .. MaxElements PROVE AccountAt(n)'
  <2>1. /\ chan'[Input] = Fed(m) /\ \A c \in Channels \ {Input} : chan'[c] = <<>>
    BY <1>2, <1>3, <1>4
  <2>2. In(n, Fed(m)) = IF n <= m THEN {n} ELSE {}
    BY <1>4, <1>5, <1>6 DEF In
  <2>3. In(n, <<>>) = {}
    BY DEF In
  <2>4. InChannels(n)' = IF n <= m THEN {<<Input, n>>} ELSE {}
    <3> DEFINE f == [c \in Channels |-> In(n, chan'[c])]
    <3>1. InChannels(n)' = Spread(f)
      BY DEF InChannels, Spread, In
    <3>2. DOMAIN f = Channels /\ f[Input] = In(n, Fed(m)) /\ \A c \in Channels \ {Input} : f[c] = {}
      BY <1>4, <2>1, <2>3
    <3> HIDE DEF f
    <3>3. Spread(f) = {Input} \X f[Input]
      BY <1>4, <3>2 DEF Spread
    <3> QED BY <2>2, <3>1, <3>2, <3>3
  <2>5. InHand(n)' = {}
    <3>1. \A w \in Workers : Owes(w, n)' = {}
      BY <1>1, <1>3 DEF Base, HandsOK, HandAt, Owes
    <3> QED BY <3>1 DEF InHand, Spread
  <2>6. Collected(n)' = {} /\ In(n, received)' = {}
    BY <1>1, <1>3, NoneIs DEF Base, HandsOK, CollectorAt, Collected, In
  <2>7. /\ IsFiniteSet(InChannels(n)') /\ Cardinality(InChannels(n)') = copies'[n]
    BY <1>2, <2>4, FS_Singleton, FS_EmptySet
  <2>8. /\ IsFiniteSet(InHand(n)') /\ Cardinality(InHand(n)') = 0
        /\ Cardinality(Collected(n)') = 0 /\ Cardinality(In(n, received)') = 0
    BY <2>5, <2>6, FS_EmptySet
  <2>9. Sum(n)' = copies'[n] /\ copies'[n] \in Nat
    BY <1>9, <2>7, <2>8 DEF Sum
  <2> QED BY <2>7, <2>8, <2>9 DEF AccountAt
<1> QED BY <1>7, <1>8, <1>9, <1>10 DEF AccountInv

\* The flags, and the elements that fail.
LEMMA FlagsKept ==
    ASSUME Base, [Next]_vars
    PROVE  Flags'
<1> USE DEF Base, Flags
<1>1. CASE UNCHANGED vars
  BY <1>1 DEF vars
<1>2. CASE Execute
  BY <1>2 DEF Execute, Alive, workerVars, Channels
<1>3. CASE ExecuteStarts \/ Reads \/ Cancel \/ ExecuteEnds
  BY <1>3 DEF ExecuteStarts, Reads, Cancel, ExecuteEnds, Alive, workerVars, ghostVars, ShutdownIdle,
              shutdownVars
<1>4. ASSUME NEW w \in Workers, WorkerStep(w) PROVE Flags'
  <2>1. /\ UNCHANGED <<exec, isShutdown, closer, overtaken, closed, returned, cancelled>>
        /\ panicked' \in BOOLEAN
    BY <1>4 DEF WorkerStep, WorkerReceives, InputEnds, FailSends, WorkerSends, SendCancelled,
                WorkerIdle, ShutdownIdle, shutdownVars, Alive, Send
  <2>2. failed' \subseteq 1 .. MaxElements
    <3>1. CASE WorkerReceives(w)
      <4>1. Received(w).n \in 1 .. MaxElements
        BY <3>1, InputIsChannel, TakesIs, LiveIs DEF WorkerReceives, Received
      <4> QED BY <3>1, <4>1 DEF WorkerReceives, Passes, Fails, Routes, ghostVars
    <3>2. CASE ~WorkerReceives(w)
      BY <1>4, <3>2 DEF WorkerStep, InputEnds, FailSends, WorkerSends, SendCancelled, ghostVars
    <3> QED BY <3>1, <3>2
  <2> QED BY <2>1, <2>2
<1>5. ASSUME NEW s \in Stages, StageReturns(s) PROVE Flags'
  <2>1. StageOutputs(s) \subseteq Channels
    BY OutputsAreTagged
  <2> QED BY <1>5, <2>1 DEF StageReturns, ClosesOutputs, WorkerIdle, ShutdownIdle, shutdownVars, Alive,
                            ghostVars
<1>6. ASSUME NEW l \in Leaves, CollectStep(l) PROVE Flags'
  BY <1>6 DEF CollectStep, CollectTakes, CollectSends, CollectEnds, CollectIdle, ShutdownIdle,
              shutdownVars, Alive, Send, workerVars, ghostVars
<1>7. CASE OutputCloses
  BY <1>7 DEF OutputCloses, CollectIdle, ShutdownIdle, shutdownVars, Alive, workerVars, ghostVars, Channels
<1>8. ASSUME NEW k \in Closers, Shutdown(k) \/ ShutdownReturns(k) PROVE Flags'
  BY <1>8 DEF Shutdown, ShutdownReturns, ExecutionIdle, Alive, workerVars, ghostVars
<1> QED BY <1>1, <1>2, <1>3, <1>4, <1>5, <1>6, <1>7, <1>8 DEF Next, Runs

\* Nothing moves before Execute.
LEMMA IdleKept ==
    ASSUME Base, IdleOK, [Next]_vars
    PROVE  IdleOK'
<1> SUFFICES ASSUME exec' = "idle" PROVE IdleOK'
  BY DEF IdleOK
<1>1. exec = "idle"
  BY DEF Next, Runs, vars, Execute, ExecuteStarts, Reads, Cancel, ExecuteEnds, WorkerStep, WorkerReceives,
         InputEnds, FailSends, WorkerSends, SendCancelled, StageReturns, CollectStep, CollectTakes,
         CollectSends, CollectEnds, OutputCloses, CollectIdle, WorkerIdle, ShutdownIdle, shutdownVars,
         Shutdown, ShutdownReturns, ExecutionIdle
<1>2. /\ \A c \in Channels : chan[c] = <<>>
      /\ \A w \in Workers : at[w] = "recv"
      /\ \A l \in Leaves : collecting[l] # "send"
      /\ received = <<>>
  BY <1>1 DEF IdleOK
<1>3. CASE UNCHANGED <<chan, at, collecting, received>>
  BY <1>2, <1>3 DEF IdleOK
<1>4. CASE \E l \in Leaves : CollectEnds(l)
  <2>1. PICK l \in Leaves : CollectEnds(l)
    BY <1>4
  <2>2. UNCHANGED <<chan, at, received>> /\ collecting' = [collecting EXCEPT ![l] = "done"]
    BY <2>1 DEF CollectEnds, CollectIdle, workerVars
  <2>3. \A k \in Leaves : collecting'[k] # "send"
    BY <1>2, <2>2 DEF Base, CloseInv, ControlsOK
  <2> QED BY <1>2, <2>2, <2>3 DEF IdleOK
<1>5. ~Execute /\ ~ExecuteStarts /\ ~Cancel /\ ~ExecuteEnds /\ \A s \in Stages : ~StageReturns(s)
  BY <1>1 DEF Execute, ExecuteStarts, Cancel, ExecuteEnds, StageReturns
<1>6. ~Reads
  BY <1>2 DEF Reads, Takes, Channels
<1>7. \A w \in Workers : ~WorkerStep(w)
  BY <1>1, <1>2 DEF WorkerStep, WorkerReceives, InputEnds, FailSends, WorkerSends, SendCancelled
<1>8. \A l \in Leaves : ~CollectTakes(l) /\ ~CollectSends(l)
  BY <1>2, LeafIsChannel DEF CollectTakes, CollectSends, Takes
<1>9. CASE OutputCloses \/ (\E k \in Closers : Shutdown(k) \/ ShutdownReturns(k)) \/ UNCHANGED vars
  <2>1. UNCHANGED <<chan, at, collecting, received>>
    BY <1>9 DEF OutputCloses, CollectIdle, Shutdown, ShutdownReturns, ExecutionIdle, workerVars, collectVars,
                vars
  <2> QED BY <1>3, <2>1
<1> QED BY <1>4, <1>5, <1>6, <1>7, <1>8, <1>9 DEF Next, Runs, CollectStep

ElementInv == Base /\ IdleOK

LEMMA InitElementInv == Init => ElementInv
<1> SUFFICES ASSUME Init PROVE ElementInv
  OBVIOUS
<1>1. CloseInv
  BY InitCloseInv
<1>2. Flags /\ IdleOK
  BY DEF Init, Flags, IdleOK
<1>3. ChannelsOK
  BY PipelineAssumption DEF Init, ChannelsOK
<1>4. HandsOK
  BY NoneIs DEF Init, HandsOK, HandAt, CollectorAt
<1>5. ASSUME NEW n \in 1 .. MaxElements PROVE AccountAt(n)
  <2>1. InChannels(n) = {} /\ InHand(n) = {} /\ Collected(n) = {} /\ In(n, received) = {}
    <3>1. In(n, <<>>) = {}
      BY DEF In
    <3>2. \A c \in Channels : In(n, chan[c]) = {}
      BY <3>1 DEF Init
    <3>3. \A w \in Workers : Owes(w, n) = {}
      BY DEF Init, Owes
    <3>4. Collected(n) = {}
      BY NoneIs DEF Init, Collected
    <3> QED BY <3>1, <3>2, <3>3, <3>4 DEF Init, InChannels, InHand, Spread
  <2>2. copies[n] = 0
    BY DEF Init
  <2> QED BY <2>1, <2>2, FS_EmptySet DEF AccountAt, Sum
<1>6. copies \in [1 .. MaxElements -> Nat]
  BY DEF Init
<1> QED BY <1>1, <1>2, <1>3, <1>4, <1>5, <1>6 DEF ElementInv, Base, AccountInv

LEMMA NextElementInv == ElementInv /\ [Next]_vars => ElementInv'
<1> SUFFICES ASSUME ElementInv, [Next]_vars PROVE ElementInv'
  OBVIOUS
<1> USE DEF ElementInv
<1>1. CloseInv' /\ Flags' /\ IdleOK'
  BY NextCloseInv, FlagsKept, IdleKept DEF Base
<1>2. ChannelsOK' /\ HandsOK' /\ AccountInv'
  <2>1. CASE UNCHANGED vars
    BY <2>1, QuietMoves DEF vars
  <2>2. CASE Execute
    BY <2>2, ExecuteMoves
  <2>3. CASE Reads
    BY <2>3, ReadsMoves
  <2>4. CASE Cancel
    BY <2>4, CancelMoves
  <2>5. CASE ExecuteStarts \/ ExecuteEnds \/ OutputCloses
    <3>1. UNCHANGED <<chan, hold, todo, taken, received, cancelled, copies, collecting, at>>
      BY <2>5 DEF ExecuteStarts, ExecuteEnds, OutputCloses, CollectIdle, workerVars, collectVars, ghostVars
    <3> QED BY <3>1, QuietMoves
  <2>6. CASE \E s \in Stages : StageReturns(s)
    <3>1. UNCHANGED <<chan, hold, todo, taken, received, cancelled, copies, collecting, at>>
      BY <2>6 DEF StageReturns, WorkerIdle, collectVars, ghostVars
    <3> QED BY <3>1, QuietMoves
  <2>7. CASE \E k \in Closers : Shutdown(k) \/ ShutdownReturns(k)
    <3>1. UNCHANGED <<chan, hold, todo, taken, received, cancelled, copies, collecting, at>>
      BY <2>7 DEF Shutdown, ShutdownReturns, ExecutionIdle, workerVars, collectVars, ghostVars
    <3> QED BY <3>1, QuietMoves
  <2>8. ASSUME NEW w \in Workers, WorkerStep(w) PROVE ChannelsOK' /\ HandsOK' /\ AccountInv'
    <3>1. CASE InputEnds(w)
      <4>1. /\ UNCHANGED <<chan, hold, todo, taken, received, cancelled, copies, collecting>>
            /\ at[w] = "recv" /\ at' = [at EXCEPT ![w] = "done"]
        BY <3>1 DEF InputEnds, WorkerIdle, collectVars, ghostVars
      <4>2. \A v \in Workers : at'[v] = at[v] \/ (at[v] = "recv" /\ at'[v] = "done")
        BY <4>1 DEF Base, CloseInv, ControlsOK
      <4> QED BY <4>1, <4>2, QuietMoves
    <3> QED BY <1>1, <2>8, <3>1, ReceiveMoves, FailSendsMoves, WorkerSendsMoves, SendCancelledMoves
            DEF WorkerStep
  <2>9. ASSUME NEW l \in Leaves, CollectStep(l) PROVE ChannelsOK' /\ HandsOK' /\ AccountInv'
    <3>1. CASE CollectEnds(l)
      <4>1. /\ UNCHANGED <<chan, hold, todo, taken, received, cancelled, copies, at>>
            /\ collecting[l] = "recv" /\ collecting' = [collecting EXCEPT ![l] = "done"]
        BY <3>1 DEF CollectEnds, CollectIdle, workerVars, ghostVars
      <4>2. ChannelsOK' /\ HandsOK'
        BY <4>1 DEF Base, ChannelsOK, HandsOK, HandAt, CollectorAt, CloseInv, ControlsOK
      <4>3. ASSUME NEW n \in 1 .. MaxElements PROVE AccountAt(n)'
        <5>1. /\ InChannels(n)' = InChannels(n) /\ InHand(n)' = InHand(n) /\ Collected(n)' = Collected(n)
              /\ In(n, received)' = In(n, received)
          BY <4>1 DEF InChannels, InHand, Owes, Collected, In
        <5>2. AccountAt(n)
          BY DEF Base, AccountInv
        <5> QED BY <4>1, <5>1, <5>2 DEF AccountAt, Sum
      <4> QED BY <4>1, <4>2, <4>3 DEF Base, AccountInv
    <3> QED BY <1>1, <2>9, <3>1, CollectTakesMoves, CollectSendsMoves DEF CollectStep
  <2> QED BY <2>1, <2>2, <2>3, <2>4, <2>5, <2>6, <2>7, <2>8, <2>9 DEF Next, Runs
<1> QED BY <1>1, <1>2 DEF Base

LEMMA ElementsTyped == ElementInv => TypeOK
<1> SUFFICES ASSUME ElementInv PROVE TypeOK
  OBVIOUS
<1> USE DEF ElementInv, Base
<1>1. Live \subseteq Elements
  BY LiveIs
<1>2. Seq(Live) \subseteq Seq(Elements)
  BY <1>1
<1>3. chan \in [Channels -> Seq(Elements)] /\ received \in Seq(Elements)
  BY <1>2 DEF ChannelsOK
<1> QED BY <1>3 DEF TypeOK, Flags, ChannelsOK, HandsOK, AccountInv, CloseInv, ControlsOK

(* Every variable has its type: no channel but the input is ever longer     *)
(* than its buffer, and no router makes less of an element than there is.   *)
THEOREM TypeIsCorrect == Spec => []TypeOK
BY InitElementInv, NextElementInv, ElementsTyped, PTL DEF Spec

(* As long as nobody cancels, every copy of every element is in exactly one *)
(* place: a channel, the hand of a stage or a collector, or with the caller *)
(* (pipeline.go collectOutput; stages_advanced.go route, forwardInput).     *)
THEOREM NothingIsLost == Spec => []NothingLost
<1>1. ElementInv => NothingLost
  BY DEF ElementInv, Base, AccountInv, AccountAt, Sum, NothingLost
<1> QED BY <1>1, InitElementInv, NextElementInv, PTL DEF Spec

-----------------------------------------------------------------------------
(* Order.  Where the copies of an element are on their ways: in hand and   *)
(* bound for a place (0), in a channel (1), read by the caller (2).        *)

\* The places where a goroutine goes with h: a router marks it on the way.
Aims(w, a, h, D) == {<<c, IF Kind[w[1]] = "router" THEN c[2] ELSE h.via>> :
                         c \in IF a = "fail" THEN {Shared(w[1])} ELSE D}
Bound(w) == Aims(w, at[w], hold[w], todo[w])

Carried(x, n) ==
    \/ \E w \in Workers : x \in Bound(w) /\ hold[w].n = n
    \/ \E l \in Leaves : collecting[l] = "send" /\ x = <<Output, taken[l].via>> /\ taken[l].n = n
Queued(x, n) ==
    \E c \in Channels : \E i \in DOMAIN chan[c] : x = <<c, chan[c][i].via>> /\ chan[c][i].n = n
Got(x, n) == \E i \in DOMAIN received : x = <<Output, received[i].via>> /\ received[i].n = n

There(x, k, n) == (k = 0 /\ Carried(x, n)) \/ (k = 1 /\ Queued(x, n)) \/ (k = 2 /\ Got(x, n))

\* At x, k an element is behind those at y, j.
Behind(way, x, k, y, j) == x \in way[y] \/ (x = y /\ k < j)

\* No element is behind a later one, neither between places nor in a row.
OrderAt(way) ==
    \A x, y \in DOMAIN way : \A k, j \in 0 .. 2 : \A n, m \in 1 .. MaxElements :
        Behind(way, x, k, y, j) /\ There(x, k, n) /\ There(y, j, m) => m < n

Ascends(q) == \A i, j \in DOMAIN q : i < j /\ q[i].via = q[j].via => q[i].n < q[j].n
RowsOK == Ascends(received) /\ \A c \in Channels : Ascends(chan[c])

\* Every element is at a place of the graph, or was taken from one.
PlacesOK(way) ==
    /\ \A c \in Channels : \A i \in DOMAIN chan[c] : <<c, chan[c][i].via>> \in DOMAIN way
    /\ \A w \in Workers : at[w] \in {"send", "fail"} => <<w[2], hold[w].via>> \in DOMAIN way
    /\ \A l \in Leaves : collecting[l] = "send" => <<Shared(l), taken[l].via>> \in DOMAIN way

MapsFail == \A w \in Workers : at[w] = "fail" => Kind[w[1]] = "map"

OrderInv(way) == OrderAt(way) /\ RowsOK /\ PlacesOK(way) /\ MapsFail

\* Where the graph leads.
LEMMA OnwardIs ==
    ASSUME NEW v
    PROVE  /\ \A w \in Workers : Kind[w[1]] # "router" => <<Shared(w[1]), v>> \in Onward(<<w[2], v>>)
           /\ \A w \in Workers : Kind[w[1]] = "router" =>
                 \A d \in Downs(w[1]) : <<<<w[1], d>>, d>> \in Onward(<<w[2], v>>)
           /\ \A l \in Leaves : <<Output, v>> \in Onward(<<Shared(l), v>>)
<1> DEFINE S(x, w) == IF Kind[w[1]] = "router" THEN {<<<<w[1], d>>, d>> : d \in Downs(w[1])}
                      ELSE {<<Shared(w[1]), x[2]>>}
<1>1. ASSUME NEW w \in Workers
      PROVE  S(<<w[2], v>>, w) \subseteq Onward(<<w[2], v>>)
  BY DEF Onward
<1>2. ASSUME NEW l \in Leaves
      PROVE  <<Output, v>> \in Onward(<<Shared(l), v>>)
  BY DEF Onward
<1> QED BY <1>1, <1>2

LEMMA WayIs ==
    ASSUME NEW way, OneWay(way), NEW x \in DOMAIN way, NEW t \in Onward(x)
    PROVE  t \in DOMAIN way /\ way[t] = way[x] \cup {x} /\ t \notin way[t]
BY DEF OneWay

\* A place has one place before it.
LEMMA OnePlaceBefore ==
    ASSUME NEW way, OneWay(way), NEW x \in DOMAIN way, NEW y \in DOMAIN way,
           NEW t \in Onward(x), t \in Onward(y)
    PROVE  x = y
<1>1. way[x] \cup {x} = way[y] \cup {y}
  BY WayIs
<1>2. CASE x # y
  <2>1. x \in way[y] /\ y \in way[x]
    BY <1>1, <1>2
  <2>2. x \in way[x]
    BY <2>1 DEF OneWay
  <2> QED BY <2>2 DEF OneWay
<1> QED BY <1>2

\* What is taken from a place and goes on to the next is behind what was ahead.
LEMMA TakesOnward ==
    ASSUME NEW way, OneWay(way), OrderAt(way), NEW x \in DOMAIN way, NEW e \in 1 .. MaxElements,
           NEW T \in SUBSET Onward(x), Queued(x, e),
           \A y, n : Carried(y, n)' => Carried(y, n) \/ (y \in T /\ n = e),
           \A y, n : Queued(y, n)' => Queued(y, n) /\ (y = x => e < n),
           \A y, n : Got(y, n)' => Got(y, n) /\ y # x
    PROVE  OrderAt(way)'
<1> SUFFICES ASSUME NEW y \in DOMAIN way, NEW z \in DOMAIN way, NEW k \in 0 .. 2, NEW j \in 0 .. 2,
                    NEW n \in 1 .. MaxElements, NEW m \in 1 .. MaxElements,
                    Behind(way, y, k, z, j), There(y, k, n)', There(z, j, m)'
             PROVE  m < n
  BY DEF OrderAt, Behind
<1>1. There(x, 1, e)
  BY DEF There
<1>2. There(y, k, n) \/ (y \in T /\ k = 0 /\ n = e)
  BY DEF There
<1>3. There(z, j, m) \/ (z \in T /\ j = 0 /\ m = e)
  BY DEF There
<1>4. CASE There(y, k, n) /\ There(z, j, m)
  BY <1>4 DEF OrderAt
<1>5. CASE y \in T /\ k = 0 /\ n = e
  <2>1. way[y] = way[x] \cup {x} /\ y \notin way[y]
    BY <1>5, WayIs
  <2>2. x \in way[z]
    <3>1. CASE y \in way[z]
      BY <2>1, <3>1 DEF OneWay
    <3> QED BY <2>1, <3>1 DEF Behind
  <2>3. ~(z \in T /\ j = 0)
    BY <1>5, <2>1, WayIs DEF Behind
  <2>4. There(z, j, m) /\ Behind(way, x, 1, z, j)
    BY <1>3, <2>2, <2>3 DEF Behind
  <2> QED BY <1>1, <1>5, <2>4 DEF OrderAt
<1>6. CASE ~(y \in T /\ k = 0 /\ n = e) /\ z \in T /\ j = 0 /\ m = e
  <2>1. There(y, k, n) /\ way[z] = way[x] \cup {x} /\ y \in way[z]
    BY <1>2, <1>6, WayIs DEF Behind
  <2>2. CASE y \in way[x]
    <3>1. Behind(way, y, k, x, 1)
      BY <2>2 DEF Behind
    <3> QED BY <1>1, <1>6, <2>1, <3>1 DEF OrderAt
  <2>3. CASE y = x /\ k = 0
    <3>1. Behind(way, y, k, x, 1)
      BY <2>3 DEF Behind
    <3> QED BY <1>1, <1>6, <2>1, <3>1 DEF OrderAt
  <2>4. CASE y = x /\ k # 0
    BY <1>6, <2>4 DEF There
  <2> QED BY <2>1, <2>2, <2>3, <2>4
<1> QED BY <1>2, <1>3, <1>4, <1>5, <1>6

\* What was in hand goes into the channel, behind what is there.
LEMMA PutsAtPlace ==
    ASSUME NEW way, OneWay(way), OrderAt(way), NEW x \in DOMAIN way, NEW e \in 1 .. MaxElements,
           Carried(x, e),
           \A y, n : Carried(y, n)' => Carried(y, n) /\ y # x,
           \A y, n : Queued(y, n)' => Queued(y, n) \/ (y = x /\ n = e),
           \A y, n : Got(y, n)' => Got(y, n)
    PROVE  OrderAt(way)'
<1> SUFFICES ASSUME NEW y \in DOMAIN way, NEW z \in DOMAIN way, NEW k \in 0 .. 2, NEW j \in 0 .. 2,
                    NEW n \in 1 .. MaxElements, NEW m \in 1 .. MaxElements,
                    Behind(way, y, k, z, j), There(y, k, n)', There(z, j, m)'
             PROVE  m < n
  BY DEF OrderAt, Behind
<1>1. There(x, 0, e)
  BY DEF There
<1>2. There(y, k, n) \/ (y = x /\ k = 1 /\ n = e)
  BY DEF There
<1>3. There(z, j, m) \/ (z = x /\ j = 1 /\ m = e)
  BY DEF There
<1>4. CASE There(y, k, n) /\ There(z, j, m)
  BY <1>4 DEF OrderAt
<1>5. CASE y = x /\ k = 1 /\ n = e
  <2>1. Behind(way, x, 0, z, j)
    BY <1>5 DEF Behind
  <2>2. x \notin way[x]
    BY DEF OneWay
  <2>3. ~(z = x /\ j = 1)
    BY <1>5, <2>2 DEF Behind
  <2> QED BY <1>1, <1>3, <1>5, <2>1, <2>3 DEF OrderAt
<1>6. CASE ~(y = x /\ k = 1 /\ n = e) /\ z = x /\ j = 1 /\ m = e
  <2>1. There(y, k, n)
    BY <1>2, <1>6
  <2>2. CASE y \in way[x]
    <3>1. Behind(way, y, k, x, 0)
      BY <2>2 DEF Behind
    <3> QED BY <1>1, <1>6, <2>1, <3>1 DEF OrderAt
  <2>3. CASE y = x /\ k = 0
    BY <2>3 DEF There
  <2> QED BY <1>6, <2>2, <2>3 DEF Behind
<1> QED BY <1>2, <1>3, <1>4, <1>5, <1>6

\* What the caller reads it reads behind what it has read.
LEMMA ReadsOn ==
    ASSUME NEW way, OneWay(way), OrderAt(way), NEW x \in DOMAIN way, NEW e \in 1 .. MaxElements,
           Queued(x, e),
           \A y, n : Carried(y, n)' => Carried(y, n),
           \A y, n : Queued(y, n)' => Queued(y, n) /\ (y = x => e < n),
           \A y, n : Got(y, n)' => Got(y, n) \/ (y = x /\ n = e)
    PROVE  OrderAt(way)'
<1> SUFFICES ASSUME NEW y \in DOMAIN way, NEW z \in DOMAIN way, NEW k \in 0 .. 2, NEW j \in 0 .. 2,
                    NEW n \in 1 .. MaxElements, NEW m \in 1 .. MaxElements,
                    Behind(way, y, k, z, j), There(y, k, n)', There(z, j, m)'
             PROVE  m < n
  BY DEF OrderAt, Behind
<1>1. There(x, 1, e)
  BY DEF There
<1>2. There(y, k, n) \/ (y = x /\ k = 2 /\ n = e)
  BY DEF There
<1>3. There(z, j, m) \/ (z = x /\ j = 2 /\ m = e)
  BY DEF There
<1>4. CASE There(y, k, n) /\ There(z, j, m)
  BY <1>4 DEF OrderAt
<1>5. CASE y = x /\ k = 2 /\ n = e
  <2>1. Behind(way, x, 1, z, j)
    BY <1>5 DEF Behind
  <2>2. x \notin way[x]
    BY DEF OneWay
  <2>3. ~(z = x /\ j = 2)
    BY <1>5, <2>2 DEF Behind
  <2> QED BY <1>1, <1>3, <1>5, <2>1, <2>3 DEF OrderAt
<1>6. CASE ~(y = x /\ k = 2 /\ n = e) /\ z = x /\ j = 2 /\ m = e
  <2>1. There(y, k, n)
    BY <1>2, <1>6
  <2>2. CASE y \in way[x] \/ (y = x /\ k = 0)
    <3>1. Behind(way, y, k, x, 1)
      BY <2>2 DEF Behind
    <3> QED BY <1>1, <1>6, <2>1, <3>1 DEF OrderAt
  <2>3. CASE y = x /\ k = 1
    BY <1>6, <2>3 DEF There
  <2> QED BY <1>6, <2>2, <2>3 DEF Behind
<1> QED BY <1>2, <1>3, <1>4, <1>5, <1>6

\* Nothing new is anywhere.
LEMMA FewerAreOrdered ==
    ASSUME NEW way, OrderAt(way),
           \A y, n : Carried(y, n)' => Carried(y, n),
           \A y, n : Queued(y, n)' => Queued(y, n),
           \A y, n : Got(y, n)' => Got(y, n)
    PROVE  OrderAt(way)'
<1> SUFFICES ASSUME NEW y \in DOMAIN way, NEW z \in DOMAIN way, NEW k \in 0 .. 2, NEW j \in 0 .. 2,
                    NEW n \in 1 .. MaxElements, NEW m \in 1 .. MaxElements,
                    Behind(way, y, k, z, j), There(y, k, n)', There(z, j, m)'
             PROVE  m < n
  BY DEF OrderAt, Behind
<1>1. There(y, k, n) /\ There(z, j, m)
  BY DEF There
<1> QED BY <1>1 DEF OrderAt

\* The head leaves a row.
LEMMA TakesFromRow ==
    ASSUME ChannelsOK, RowsOK, NEW c \in Channels, Takes(c), NEW e, e = Head(chan[c])
    PROVE  /\ Queued(<<c, e.via>>, e.n)
           /\ \A y, n : Queued(y, n)' => Queued(y, n) /\ (y = <<c, e.via>> => e.n < n)
           /\ \A d \in Channels : Ascends(chan'[d])
           /\ \A d \in Channels : \A i \in DOMAIN chan'[d] :
                 \E j \in DOMAIN chan[d] : chan'[d][i] = chan[d][j]
<1> DEFINE q == chan[c]
<1>1. /\ q \in Seq(Live) /\ q # <<>> /\ chan'[c] = Tail(q) /\ \A d \in Channels \ {c} : chan'[d] = chan[d]
      /\ Len(q) \in Nat
  BY DEF ChannelsOK, Takes
<1>2. e = q[1] /\ DOMAIN q = 1 .. Len(q) /\ 1 \in DOMAIN q
  BY <1>1
<1>3. \A i \in DOMAIN Tail(q) : i \in Nat \ {0} /\ i + 1 \in DOMAIN q /\ Tail(q)[i] = q[i + 1]
  BY <1>1
<1>4. Ascends(q)
  BY DEF RowsOK
<1> HIDE DEF q
<1>5. \A i \in DOMAIN Tail(q) : Tail(q)[i].via = e.via => e.n < Tail(q)[i].n
  BY <1>2, <1>3, <1>4 DEF Ascends
<1>6. Ascends(Tail(q))
  BY <1>3, <1>4 DEF Ascends
<1>7. Queued(<<c, e.via>>, e.n)
  BY <1>2 DEF Queued, q
<1>8. \A d \in Channels : \A i \in DOMAIN chan'[d] : \E j \in DOMAIN chan[d] : chan'[d][i] = chan[d][j]
  BY <1>1, <1>3 DEF q
<1>9. ASSUME NEW y, NEW n, Queued(y, n)'
      PROVE  Queued(y, n) /\ (y = <<c, e.via>> => e.n < n)
  <2>1. PICK d \in Channels : \E i \in DOMAIN chan'[d] : y = <<d, chan'[d][i].via>> /\ chan'[d][i].n = n
    BY <1>9 DEF Queued
  <2>2. PICK i \in DOMAIN chan'[d] : y = <<d, chan'[d][i].via>> /\ chan'[d][i].n = n
    BY <2>1
  <2>3. Queued(y, n)
    BY <1>8, <2>2 DEF Queued
  <2>4. y = <<c, e.via>> => d = c /\ chan'[d][i].via = e.via
    BY <2>2
  <2> QED BY <1>1, <1>5, <2>2, <2>3, <2>4
<1>10. \A d \in Channels : Ascends(chan'[d])
  BY <1>1, <1>6 DEF RowsOK
<1> QED BY <1>7, <1>8, <1>9, <1>10

\* An element joins a row.
LEMMA JoinsRow ==
    ASSUME NEW q \in Seq(Live), NEW e \in Live, Ascends(q),
           \A i \in DOMAIN q : q[i].via = e.via => q[i].n < e.n
    PROVE  Ascends(Append(q, e))
<1> DEFINE r == Append(q, e)
           k == Len(q) + 1
<1>1. /\ DOMAIN r = 1 .. k /\ r[k] = e /\ \A i \in DOMAIN q : r[i] = q[i]
      /\ DOMAIN q = 1 .. Len(q) /\ Len(q) \in Nat
  OBVIOUS
<1> SUFFICES ASSUME NEW i \in DOMAIN r, NEW j \in DOMAIN r, i < j, r[i].via = r[j].via
             PROVE  r[i].n < r[j].n
  BY DEF Ascends
<1>2. i \in DOMAIN q
  BY <1>1
<1>3. j \in DOMAIN q \/ j = k
  BY <1>1
<1> HIDE DEF r, k
<1>4. CASE j \in DOMAIN q
  BY <1>1, <1>2, <1>4 DEF Ascends
<1>5. CASE j = k
  BY <1>1, <1>2, <1>5
<1> QED BY <1>3, <1>4, <1>5

LEMMA PutsIntoRow ==
    ASSUME ChannelsOK, RowsOK, NEW c \in Channels, NEW e \in Live,
           chan' = [chan EXCEPT ![c] = Append(@, e)],
           \A m \in 1 .. MaxElements : Queued(<<c, e.via>>, m) => m < e.n
    PROVE  /\ \A y, n : Queued(y, n)' => Queued(y, n) \/ (y = <<c, e.via>> /\ n = e.n)
           /\ \A d \in Channels : Ascends(chan'[d])
           /\ \A d \in Channels : \A i \in DOMAIN chan'[d] :
                 \/ \E j \in DOMAIN chan[d] : chan'[d][i] = chan[d][j]
                 \/ d = c /\ chan'[d][i] = e
<1> DEFINE q == chan[c]
<1>1. /\ q \in Seq(Live) /\ chan'[c] = Append(q, e) /\ \A d \in Channels \ {c} : chan'[d] = chan[d]
  BY DEF ChannelsOK
<1>2. \A i \in DOMAIN Append(q, e) : (i \in DOMAIN q /\ Append(q, e)[i] = q[i]) \/ Append(q, e)[i] = e
  BY <1>1
<1>3. \A i \in DOMAIN q : q[i] \in Live
  BY <1>1
<1>4. \A i \in DOMAIN q : q[i].via = e.via => q[i].n < e.n
  BY <1>3, LiveIs DEF Queued
<1>5. Ascends(q)
  BY DEF RowsOK
<1> HIDE DEF q
<1>6. Ascends(Append(q, e))
  BY <1>1, <1>4, <1>5, JoinsRow
<1>7. \A d \in Channels : \A i \in DOMAIN chan'[d] :
          (\E j \in DOMAIN chan[d] : chan'[d][i] = chan[d][j]) \/ (d = c /\ chan'[d][i] = e)
  BY <1>1, <1>2 DEF q
<1>8. \A y, n : Queued(y, n)' => Queued(y, n) \/ (y = <<c, e.via>> /\ n = e.n)
  BY <1>7 DEF Queued
<1>9. \A d \in Channels : Ascends(chan'[d])
  BY <1>1, <1>6 DEF RowsOK
<1> QED BY <1>7, <1>8, <1>9

-----------------------------------------------------------------------------
(* What is in hand.                                                        *)

LEMMA PlainOutput ==
    ASSUME NEW s \in Stages, Kind[s] # "router"
    PROVE  StageOutputs(s) = {Shared(s)}
BY DEF StageOutputs, UpstreamChannel

\* What a goroutine has in hand is bound for the places behind its channel.
LEMMA AimsOnward ==
    ASSUME NEW w \in Workers, NEW a, NEW h, NEW D \in SUBSET StageOutputs(w[1]),
           a = "fail" => Kind[w[1]] = "map", a # "send" => D = {},
           Kind[w[1]] = "router" => D \subseteq {<<w[1], d>> : d \in Downs(w[1])},
           NEW x \in Aims(w, a, h, D)
    PROVE  a \in {"send", "fail"} /\ x \in Onward(<<w[2], h.via>>) /\ x[1] \in StageOutputs(w[1])
<1>1. PICK c \in IF a = "fail" THEN {Shared(w[1])} ELSE D :
          x = <<c, IF Kind[w[1]] = "router" THEN c[2] ELSE h.via>>
  BY DEF Aims
<1>2. w[1] \in Stages
  BY WorkerHasStage
<1>3. a \in {"send", "fail"}
  BY <1>1
<1>4. c \in StageOutputs(w[1])
  BY <1>1, <1>2, SharedIsOwn
<1>5. CASE Kind[w[1]] = "router"
  <2>1. PICK d \in Downs(w[1]) : c = <<w[1], d>>
    BY <1>1, <1>5
  <2>2. x = <<<<w[1], d>>, d>>
    BY <1>1, <1>5, <2>1
  <2>3. x \in Onward(<<w[2], h.via>>)
    BY <1>5, <2>2, OnwardIs
  <2>4. x[1] = c
    BY <2>1, <2>2
  <2> QED BY <1>3, <1>4, <2>3, <2>4
<1>6. CASE Kind[w[1]] # "router"
  <2>1. c = Shared(w[1])
    BY <1>2, <1>4, <1>6, PlainOutput
  <2>2. x = <<Shared(w[1]), h.via>>
    BY <1>1, <1>6, <2>1
  <2>3. x \in Onward(<<w[2], h.via>>)
    BY <1>6, <2>2, OnwardIs
  <2>4. x[1] = c
    BY <2>1, <2>2
  <2> QED BY <1>3, <1>4, <2>3, <2>4
<1> QED BY <1>5, <1>6

LEMMA BoundOnward ==
    ASSUME CloseInv, HandsOK, MapsFail, NEW w \in Workers, NEW x \in Bound(w)
    PROVE  /\ at[w] \in {"send", "fail"} /\ hold[w] \in Live
           /\ x \in Onward(<<w[2], hold[w].via>>) /\ x[1] \in StageOutputs(w[1])
<1>1. /\ todo[w] \in SUBSET StageOutputs(w[1]) /\ (at[w] = "fail" => Kind[w[1]] = "map")
      /\ at[w] # "send" => todo[w] = {}
      /\ Kind[w[1]] = "router" => todo[w] \subseteq {<<w[1], d>> : d \in Downs(w[1])}
  BY DEF CloseInv, SendsToOwn, MapsFail, HandsOK, HandAt
<1>2. at[w] \in {"send", "fail"} /\ x \in Onward(<<w[2], hold[w].via>>) /\ x[1] \in StageOutputs(w[1])
  BY <1>1, AimsOnward DEF Bound
<1> QED BY <1>2 DEF HandsOK, HandAt

LEMMA WorkerIsPair ==
    ASSUME NEW w \in Workers
    PROVE  w = <<w[1], w[2]>>
BY DEF Workers

\* One goroutine only has an element in hand for a place.
LEMMA OneHand ==
    ASSUME NEW way, OneWay(way), CloseInv, HandsOK, MapsFail, PlacesOK(way),
           NEW w \in Workers, NEW v \in Workers, NEW x \in Bound(w), x \in Bound(v)
    PROVE  w = v
<1>1. /\ x \in Onward(<<w[2], hold[w].via>>) /\ x \in Onward(<<v[2], hold[v].via>>)
      /\ <<w[2], hold[w].via>> \in DOMAIN way /\ <<v[2], hold[v].via>> \in DOMAIN way
  BY BoundOnward DEF PlacesOK
<1>2. <<w[2], hold[w].via>> = <<v[2], hold[v].via>>
  BY <1>1, OnePlaceBefore
<1>3. w[1] \in Stages /\ v[1] \in Stages /\ x[1] \in StageOutputs(w[1]) /\ x[1] \in StageOutputs(v[1])
  BY BoundOnward, WorkerHasStage
<1>4. w[1] = v[1] /\ w[2] = v[2]
  BY <1>2, <1>3, OneOwner
<1> QED BY <1>4, WorkerIsPair

\* And one collector, which is none of them.
LEMMA OneCollector ==
    ASSUME NEW way, OneWay(way), PlacesOK(way), NEW k \in Leaves, NEW l \in Leaves,
           collecting[k] = "send", collecting[l] = "send", taken[k].via = taken[l].via
    PROVE  k = l
<1>1. <<Shared(k), taken[k].via>> \in DOMAIN way /\ <<Shared(l), taken[l].via>> \in DOMAIN way
  BY DEF PlacesOK
<1>2. /\ <<Output, taken[k].via>> \in Onward(<<Shared(k), taken[k].via>>)
      /\ <<Output, taken[l].via>> \in Onward(<<Shared(l), taken[l].via>>)
  BY OnwardIs
<1>3. <<Shared(k), taken[k].via>> = <<Shared(l), taken[l].via>>
  BY <1>1, <1>2, OnePlaceBefore
<1> QED BY <1>3 DEF Shared

LEMMA NotBoundForOutput ==
    ASSUME CloseInv, HandsOK, MapsFail, NEW w \in Workers, NEW v
    PROVE  <<Output, v>> \notin Bound(w)
<1> SUFFICES ASSUME <<Output, v>> \in Bound(w) PROVE FALSE
  OBVIOUS
<1>1. <<Output, v>>[1] \in StageOutputs(w[1])
  BY BoundOnward
<1> QED BY <1>1, WorkerHasStage, PipelineChannelsApart

LEMMA InputNotOutput ==
    ASSUME NEW w \in Workers
    PROVE  w[2] # Output
<1>1. PICK s \in Stages : w \in {s} \X StageInputs(s)
  BY DEF Workers
<1>2. CASE Ups(s) = {}
  BY <1>1, <1>2 DEF StageInputs, Input, Output
<1>3. CASE Ups(s) # {}
  <2>1. PICK u \in Ups(s) : w[2] = UpstreamChannel(u, s)
    BY <1>1, <1>3 DEF StageInputs
  <2>2. u \in Stages /\ w[2] \in StageOutputs(u)
    BY <2>1 DEF Ups, Downs, StageOutputs
  <2> QED BY <2>2, PipelineChannelsApart
<1> QED BY <1>2, <1>3

\* A step of goroutine w: the others keep what they have.
OnlyMoves(w) ==
    /\ \A v \in Workers \ {w} : at'[v] = at[v] /\ hold'[v] = hold[v] /\ todo'[v] = todo[v]
    /\ UNCHANGED <<collecting, taken>>

LEMMA OthersStay ==
    ASSUME NEW w \in Workers, OnlyMoves(w), NEW y, NEW n, Carried(y, n)'
    PROVE  \/ y \in Bound(w)' /\ hold'[w].n = n
           \/ \E v \in Workers \ {w} : y \in Bound(v) /\ hold[v].n = n
           \/ \E l \in Leaves : collecting[l] = "send" /\ y = <<Output, taken[l].via>> /\ taken[l].n = n
<1>1. \A v \in Workers \ {w} : Bound(v)' = Bound(v) /\ hold'[v] = hold[v]
  BY DEF OnlyMoves, Bound, Aims
<1>2. UNCHANGED <<collecting, taken>>
  BY DEF OnlyMoves
<1>3. CASE \E v \in Workers : y \in Bound(v)' /\ hold'[v].n = n
  BY <1>1, <1>3
<1>4. CASE \E l \in Leaves : collecting'[l] = "send" /\ y = <<Output, taken'[l].via>> /\ taken'[l].n = n
  BY <1>2, <1>4
<1> QED BY <1>3, <1>4 DEF Carried

\* What a goroutine has in hand behind a receive.
LEMMA ReceivesIs ==
    ASSUME Base, NEW w \in Workers, WorkerReceives(w)
    PROVE  /\ at'[w] \in {"send", "fail"} => hold'[w].via = Received(w).via /\ hold'[w].n = Received(w).n
           /\ at'[w] = "fail" => Kind[w[1]] = "map"
           /\ OnlyMoves(w) /\ received' = received
<1> DEFINE e == Received(w)
<1>1. w[2] \in Channels /\ Takes(w[2])
  BY InputIsChannel DEF WorkerReceives
<1>2. e \in Live
  BY <1>1, TakesIs DEF Base, Received
<1>3. UNCHANGED <<collecting, taken, received>>
  BY DEF WorkerReceives, WorkerIdle, collectVars
<1>4. DOMAIN at = Workers /\ DOMAIN hold = Workers /\ DOMAIN todo = Workers
  BY DEF Base, CloseInv, ControlsOK, HandsOK
<1> HIDE DEF e
<1>5. ASSUME NEW D, Holds(w, e, D)
      PROVE  /\ at'[w] \in {"send", "fail"} => hold'[w] = e
             /\ at'[w] # "fail" /\ OnlyMoves(w)
  BY <1>3, <1>4, <1>5 DEF Holds, OnlyMoves
<1>6. CASE Passes(w)
  BY <1>3, <1>5, <1>6 DEF Passes, e
<1>7. CASE Routes(w)
  BY <1>3, <1>5, <1>7 DEF Routes, e
<1>8. CASE Fails(w)
  <2>1. /\ at' = [at EXCEPT ![w] = "fail"] /\ hold' = [hold EXCEPT ![w] = [e EXCEPT !.error = TRUE]]
        /\ todo' = todo /\ Kind[w[1]] = "map"
    BY <1>8 DEF Fails, e
  <2>2. OnlyMoves(w) /\ hold'[w] = [e EXCEPT !.error = TRUE]
    BY <1>3, <1>4, <2>1 DEF OnlyMoves
  <2>3. hold'[w].via = e.via /\ hold'[w].n = e.n
    BY <1>2, <2>2 DEF Live
  <2> QED BY <1>3, <2>1, <2>2, <2>3 DEF e
<1> QED BY <1>6, <1>7, <1>8 DEF WorkerReceives

LEMMA ReceiveOrdered ==
    ASSUME NEW way, OneWay(way), Base, CloseInv', HandsOK', OrderInv(way),
           NEW w \in Workers, WorkerReceives(w)
    PROVE  OrderInv(way)'
<1> DEFINE e == Received(w)
           x == <<w[2], e.via>>
<1>1. w[2] \in Channels /\ Takes(w[2]) /\ at[w] = "recv" /\ e = Head(chan[w[2]]) /\ chan[w[2]] # <<>>
  BY InputIsChannel DEF WorkerReceives, Received, Takes
<1>2. e \in Live /\ e.n \in 1 .. MaxElements
  BY <1>1, TakesIs, LiveIs DEF Base
<1>3. /\ at'[w] \in {"send", "fail"} => hold'[w].via = e.via /\ hold'[w].n = e.n
      /\ at'[w] = "fail" => Kind[w[1]] = "map"
      /\ OnlyMoves(w) /\ received' = received
  BY ReceivesIs
<1>4. x \in DOMAIN way
  <2>1. 1 \in DOMAIN chan[w[2]] /\ e = chan[w[2]][1]
    BY <1>1 DEF Base, ChannelsOK
  <2> QED BY <1>1, <2>1 DEF OrderInv, PlacesOK
<1> HIDE DEF e
<1>5. /\ Queued(x, e.n)
      /\ \A y, n : Queued(y, n)' => Queued(y, n) /\ (y = x => e.n < n)
      /\ \A d \in Channels : Ascends(chan'[d])
      /\ \A d \in Channels : \A i \in DOMAIN chan'[d] :
            \E j \in DOMAIN chan[d] : chan'[d][i] = chan[d][j]
  BY <1>1, TakesFromRow DEF Base, OrderInv
<1>6. MapsFail'
  BY <1>3 DEF OrderInv, MapsFail, OnlyMoves
<1>7. \A y \in Bound(w)' : y \in Onward(x) /\ hold'[w].n = e.n
  <2> SUFFICES ASSUME NEW y \in Bound(w)' PROVE y \in Onward(x) /\ hold'[w].n = e.n
    OBVIOUS
  <2>1. /\ todo'[w] \in SUBSET StageOutputs(w[1]) /\ (at'[w] = "fail" => Kind[w[1]] = "map")
        /\ at'[w] # "send" => todo'[w] = {}
        /\ Kind[w[1]] = "router" => todo'[w] \subseteq {<<w[1], d>> : d \in Downs(w[1])}
    BY <1>3 DEF CloseInv, SendsToOwn, HandsOK, HandAt
  <2>2. y \in Aims(w, at'[w], hold'[w], todo'[w])
    BY DEF Bound, Aims
  <2>3. at'[w] \in {"send", "fail"} /\ y \in Onward(<<w[2], hold'[w].via>>)
    BY <2>1, <2>2, AimsOnward
  <2> QED BY <1>3, <2>3
<1>8. \A y, n : Carried(y, n)' => Carried(y, n) \/ (y \in Bound(w)' /\ n = e.n)
  <2> SUFFICES ASSUME NEW y, NEW n, Carried(y, n)'
               PROVE  Carried(y, n) \/ (y \in Bound(w)' /\ n = e.n)
    OBVIOUS
  <2>1. \/ y \in Bound(w)' /\ hold'[w].n = n
        \/ \E v \in Workers \ {w} : y \in Bound(v) /\ hold[v].n = n
        \/ \E l \in Leaves : collecting[l] = "send" /\ y = <<Output, taken[l].via>> /\ taken[l].n = n
    BY <1>3, OthersStay
  <2>2. CASE y \in Bound(w)' /\ hold'[w].n = n
    BY <1>7, <2>2
  <2>3. CASE ~(y \in Bound(w)' /\ hold'[w].n = n)
    BY <2>1, <2>3 DEF Carried
  <2> QED BY <2>2, <2>3
<1>9. \A y, n : Got(y, n)' => Got(y, n) /\ y # x
  <2>1. \A v : <<Output, v>> # x
    BY InputNotOutput
  <2> QED BY <1>3, <2>1 DEF Got
<1>10. OrderAt(way)'
  <2> DEFINE T == Bound(w)'
  <2>1. T \in SUBSET Onward(x)
    BY <1>7
  <2>2. \A y, n : Carried(y, n)' => Carried(y, n) \/ (y \in T /\ n = e.n)
    BY <1>8
  <2>3. OrderAt(way)
    BY DEF OrderInv
  <2> HIDE DEF T, x
  <2> QED BY <1>2, <1>4, <1>5, <1>9, <2>1, <2>2, <2>3, TakesOnward
<1>11. RowsOK'
  BY <1>3, <1>5 DEF OrderInv, RowsOK
<1>12. PlacesOK(way)'
  <2>1. \A v \in Workers : at'[v] \in {"send", "fail"} => <<v[2], hold'[v].via>> \in DOMAIN way
    BY <1>3, <1>4 DEF OrderInv, PlacesOK, OnlyMoves
  <2>2. \A l \in Leaves : collecting'[l] = "send" => <<Shared(l), taken'[l].via>> \in DOMAIN way
    BY <1>3 DEF OrderInv, PlacesOK, OnlyMoves
  <2>3. \A d \in Channels : \A i \in DOMAIN chan'[d] : <<d, chan'[d][i].via>> \in DOMAIN way
    BY <1>5 DEF OrderInv, PlacesOK
  <2> QED BY <2>1, <2>2, <2>3 DEF PlacesOK
<1> QED BY <1>6, <1>10, <1>11, <1>12 DEF OrderInv

\* A goroutine puts what it has in hand into a channel.
LEMMA PutOrdered ==
    ASSUME NEW way, OneWay(way), Base, OrderInv(way), NEW w \in Workers, NEW c \in Channels, NEW e \in Live,
           <<c, e.via>> \in Bound(w), hold[w].n = e.n, chan' = [chan EXCEPT ![c] = Append(@, e)],
           OnlyMoves(w), received' = received,
           \A y \in Bound(w)' : y \in Bound(w) /\ y[1] # c /\ hold'[w].n = hold[w].n,
           at'[w] \in {"recv", "send", "done"}, at'[w] = "send" => at[w] = "send" /\ hold'[w] = hold[w]
    PROVE  OrderInv(way)'
<1> DEFINE x == <<c, e.via>>
<1> USE DEF OrderInv
<1>1. /\ at[w] \in {"send", "fail"} /\ x \in Onward(<<w[2], hold[w].via>>)
      /\ <<w[2], hold[w].via>> \in DOMAIN way
  BY BoundOnward DEF Base, PlacesOK
<1>2. x \in DOMAIN way /\ x[1] = c
  BY <1>1, WayIs
<1>3. e.n \in 1 .. MaxElements
  BY LiveIs
<1>4. Carried(x, e.n)
  BY DEF Carried
<1>5. \A m \in 1 .. MaxElements : Queued(x, m) => m < e.n
  <2> SUFFICES ASSUME NEW m \in 1 .. MaxElements, Queued(x, m) PROVE m < e.n
    OBVIOUS
  <2>1. There(x, 0, e.n) /\ There(x, 1, m) /\ Behind(way, x, 0, x, 1)
    BY <1>4 DEF There, Behind
  <2> HIDE DEF x
  <2> QED BY <1>2, <1>3, <2>1 DEF OrderAt
<1>6. /\ \A y, n : Queued(y, n)' => Queued(y, n) \/ (y = x /\ n = e.n)
      /\ \A d \in Channels : Ascends(chan'[d])
      /\ \A d \in Channels : \A i \in DOMAIN chan'[d] :
            \/ \E j \in DOMAIN chan[d] : chan'[d][i] = chan[d][j]
            \/ d = c /\ chan'[d][i] = e
  BY <1>5, PutsIntoRow DEF Base
<1>7. ASSUME NEW y, NEW n, Carried(y, n)' PROVE Carried(y, n) /\ y # x
  <2>1. \/ y \in Bound(w)' /\ hold'[w].n = n
        \/ \E v \in Workers \ {w} : y \in Bound(v) /\ hold[v].n = n
        \/ \E l \in Leaves : collecting[l] = "send" /\ y = <<Output, taken[l].via>> /\ taken[l].n = n
    BY <1>7, OthersStay
  <2>2. CASE y \in Bound(w)' /\ hold'[w].n = n
    BY <1>2, <2>2 DEF Carried
  <2>3. CASE \E v \in Workers \ {w} : y \in Bound(v) /\ hold[v].n = n
    <3>1. PICK v \in Workers \ {w} : y \in Bound(v) /\ hold[v].n = n
      BY <2>3
    <3>2. y # x
      BY <3>1, OneHand DEF Base
    <3> QED BY <3>1, <3>2 DEF Carried
  <2>4. CASE \E l \in Leaves : collecting[l] = "send" /\ y = <<Output, taken[l].via>> /\ taken[l].n = n
    <3>1. y # x
      BY <2>4, NotBoundForOutput DEF Base
    <3> QED BY <2>4, <3>1 DEF Carried
  <2> QED BY <2>1, <2>2, <2>3, <2>4
<1>8. \A y, n : Got(y, n)' => Got(y, n)
  BY DEF Got
<1>9. OrderAt(way)'
  <2>1. OrderAt(way)
    OBVIOUS
  <2> HIDE DEF x, OrderInv
  <2> QED BY <1>2, <1>3, <1>4, <1>6, <1>7, <1>8, <2>1, PutsAtPlace
<1>10. RowsOK'
  BY <1>6 DEF RowsOK
<1>11. PlacesOK(way)'
  <2>1. \A v \in Workers : at'[v] \in {"send", "fail"} => <<v[2], hold'[v].via>> \in DOMAIN way
    BY DEF PlacesOK, OnlyMoves
  <2>2. \A l \in Leaves : collecting'[l] = "send" => <<Shared(l), taken'[l].via>> \in DOMAIN way
    BY DEF PlacesOK, OnlyMoves
  <2>3. \A d \in Channels : \A i \in DOMAIN chan'[d] : <<d, chan'[d][i].via>> \in DOMAIN way
    <3> SUFFICES ASSUME NEW d \in Channels, NEW i \in DOMAIN chan'[d]
                 PROVE  <<d, chan'[d][i].via>> \in DOMAIN way
      OBVIOUS
    <3>1. CASE \E j \in DOMAIN chan[d] : chan'[d][i] = chan[d][j]
      BY <3>1 DEF PlacesOK
    <3>2. CASE d = c /\ chan'[d][i] = e
      BY <1>2, <3>2
    <3> QED BY <1>6, <3>1, <3>2
  <2> QED BY <2>1, <2>2, <2>3 DEF PlacesOK
<1>12. MapsFail'
  BY DEF MapsFail, OnlyMoves
<1> QED BY <1>9, <1>10, <1>11, <1>12

\* What is left in hand behind a send, or its cancellation.
LEMMA SentBound ==
    ASSUME Base, NEW w \in Workers, NEW c \in todo[w], at[w] = "send", Sent(w, c), UNCHANGED collectVars
    PROVE  /\ OnlyMoves(w) /\ at'[w] \in {"recv", "send"} /\ (at'[w] = "send" => hold'[w] = hold[w])
           /\ \A y \in Bound(w)' : y \in Bound(w) /\ y[1] # c /\ hold'[w].n = hold[w].n
<1>1. /\ DOMAIN at = Workers /\ DOMAIN hold = Workers /\ DOMAIN todo = Workers
      /\ UNCHANGED <<collecting, taken>>
  BY DEF Base, CloseInv, ControlsOK, HandsOK, collectVars
<1>2. OnlyMoves(w)
  BY <1>1 DEF Sent, OnlyMoves
<1>3. CASE todo[w] = {c}
  <2>1. at'[w] = "recv" /\ todo'[w] = {}
    BY <1>1, <1>3 DEF Sent
  <2>2. Bound(w)' = {}
    BY <2>1 DEF Bound, Aims
  <2> QED BY <1>2, <2>1, <2>2
<1>4. CASE todo[w] # {c}
  <2>1. at'[w] = "send" /\ todo'[w] = todo[w] \ {c} /\ hold'[w] = hold[w]
    BY <1>1, <1>4 DEF Sent
  <2>2. \A y \in Bound(w)' : y \in Bound(w) /\ y[1] # c
    BY <2>1 DEF Bound, Aims
  <2> QED BY <1>2, <2>1, <2>2
<1> QED BY <1>3, <1>4

LEMMA StopsBound ==
    ASSUME Base, NEW w \in Workers, Stops(w), UNCHANGED collectVars
    PROVE  OnlyMoves(w) /\ at'[w] = "done" /\ Bound(w)' = {}
<1>1. /\ DOMAIN at = Workers /\ DOMAIN hold = Workers /\ DOMAIN todo = Workers
      /\ UNCHANGED <<collecting, taken>>
  BY DEF Base, CloseInv, ControlsOK, HandsOK, collectVars
<1>2. OnlyMoves(w) /\ at'[w] = "done" /\ todo'[w] = {}
  BY <1>1 DEF Stops, OnlyMoves
<1> QED BY <1>2 DEF Bound, Aims

LEMMA WorkerSendsOrdered ==
    ASSUME NEW way, OneWay(way), Base, CloseInv', OrderInv(way), NEW w \in Workers, NEW c, WorkerSends(w, c)
    PROVE  OrderInv(way)'
<1> DEFINE e == Copy(w, c)
<1>1. /\ at[w] = "send" /\ c \in todo[w] /\ Send(c, e) /\ Sent(w, c)
      /\ UNCHANGED collectVars /\ received' = received
  BY DEF WorkerSends, WorkerIdle
<1>2. chan' = [chan EXCEPT ![c] = Append(@, e)]
  BY <1>1, SendIs
<1>3. w[1] \in Stages /\ c \in Channels /\ hold[w] \in Live /\ HandAt(w)
  BY <1>1, WorkerHasStage, OutputsAreTagged DEF Base, CloseInv, SendsToOwn, HandsOK, HandAt
<1>4. e \in Live /\ e.n = hold[w].n /\ e.via = IF Kind[w[1]] = "router" THEN c[2] ELSE hold[w].via
  <2>1. CASE Kind[w[1]] = "router"
    <3>1. PICK d \in Downs(w[1]) : c = <<w[1], d>>
      BY <1>1, <1>3, <2>1 DEF HandAt
    <3>2. c[2] \in Stages
      BY <3>1 DEF Downs
    <3>3. e = [hold[w] EXCEPT !.via = c[2]]
      BY <2>1 DEF Copy
    <3>4. e \in Live /\ e.n = hold[w].n /\ e.via = c[2]
      BY <1>3, <3>2, <3>3 DEF Live
    <3> QED BY <2>1, <3>4
  <2>2. CASE Kind[w[1]] # "router"
    BY <1>3, <2>2 DEF Copy
  <2> QED BY <2>1, <2>2
<1>5. <<c, e.via>> \in Bound(w)
  BY <1>1, <1>4 DEF Bound, Aims
<1>6. /\ OnlyMoves(w) /\ at'[w] \in {"recv", "send"} /\ (at'[w] = "send" => hold'[w] = hold[w])
      /\ \A y \in Bound(w)' : y \in Bound(w) /\ y[1] # c /\ hold'[w].n = hold[w].n
  BY <1>1, SentBound
<1> HIDE DEF e
<1> QED BY <1>1, <1>2, <1>3, <1>4, <1>5, <1>6, PutOrdered

LEMMA FailSendsOrdered ==
    ASSUME NEW way, OneWay(way), Base, CloseInv', OrderInv(way), NEW w \in Workers, FailSends(w)
    PROVE  OrderInv(way)'
<1> DEFINE c == Shared(w[1])
           e == hold[w]
<1>1. /\ at[w] = "fail" /\ Send(c, e) /\ Stops(w) /\ UNCHANGED collectVars /\ received' = received
  BY DEF FailSends, WorkerIdle
<1>2. chan' = [chan EXCEPT ![c] = Append(@, e)]
  BY <1>1, SendIs
<1>3. c \in Channels /\ e \in Live /\ Kind[w[1]] # "router"
  BY <1>1, WorkerHasStage, SharedIsOwn, OutputsAreTagged DEF Base, HandsOK, HandAt, OrderInv, MapsFail
<1>4. <<c, e.via>> \in Bound(w)
  BY <1>1, <1>3 DEF Bound, Aims
<1>5. OnlyMoves(w) /\ at'[w] = "done" /\ Bound(w)' = {}
  BY <1>1, StopsBound
<1> HIDE DEF c
<1> QED BY <1>1, <1>2, <1>3, <1>4, <1>5, PutOrdered

\* What is given up leaves the rest in order.
LEMMA SendCancelledOrdered ==
    ASSUME NEW way, Base, OrderInv(way), NEW w \in Workers, NEW c, SendCancelled(w, c)
    PROVE  OrderInv(way)'
<1>1. /\ at[w] = "send" /\ c \in todo[w] /\ (Sent(w, c) \/ Stops(w))
      /\ UNCHANGED collectVars /\ received' = received /\ chan' = chan
  BY DEF SendCancelled, WorkerIdle
<1>2. /\ OnlyMoves(w) /\ at'[w] \in {"recv", "send", "done"} /\ (at'[w] = "send" => hold'[w] = hold[w])
      /\ \A y \in Bound(w)' : y \in Bound(w) /\ hold'[w].n = hold[w].n
  <2>1. CASE Sent(w, c)
    BY <1>1, <2>1, SentBound
  <2>2. CASE Stops(w)
    BY <1>1, <2>2, StopsBound
  <2> QED BY <1>1, <2>1, <2>2
<1>3. \A y, n : Carried(y, n)' => Carried(y, n)
  <2> SUFFICES ASSUME NEW y, NEW n, Carried(y, n)' PROVE Carried(y, n)
    OBVIOUS
  <2>1. \/ y \in Bound(w)' /\ hold'[w].n = n
        \/ \E v \in Workers \ {w} : y \in Bound(v) /\ hold[v].n = n
        \/ \E l \in Leaves : collecting[l] = "send" /\ y = <<Output, taken[l].via>> /\ taken[l].n = n
    BY <1>2, OthersStay
  <2> QED BY <1>2, <2>1 DEF Carried
<1>4. (\A y, n : Queued(y, n)' => Queued(y, n)) /\ (\A y, n : Got(y, n)' => Got(y, n))
  BY <1>1 DEF Queued, Got
<1>5. OrderAt(way)'
  BY <1>3, <1>4, FewerAreOrdered DEF OrderInv
<1>6. RowsOK'
  BY <1>1 DEF OrderInv, RowsOK
<1>7. PlacesOK(way)'
  <2>1. \A v \in Workers : at'[v] \in {"send", "fail"} => <<v[2], hold'[v].via>> \in DOMAIN way
    BY <1>1, <1>2 DEF OrderInv, PlacesOK, OnlyMoves
  <2>2. \A l \in Leaves : collecting'[l] = "send" => <<Shared(l), taken'[l].via>> \in DOMAIN way
    BY <1>2 DEF OrderInv, PlacesOK, OnlyMoves
  <2>3. \A d \in Channels : \A i \in DOMAIN chan'[d] : <<d, chan'[d][i].via>> \in DOMAIN way
    BY <1>1 DEF OrderInv, PlacesOK
  <2> QED BY <2>1, <2>2, <2>3 DEF PlacesOK
<1>8. MapsFail'
  BY <1>2 DEF OrderInv, MapsFail, OnlyMoves
<1> QED BY <1>5, <1>6, <1>7, <1>8 DEF OrderInv

\* The collectors and the reader.
LEMMA CollectTakesOrdered ==
    ASSUME NEW way, OneWay(way), Base, OrderInv(way), NEW l \in Leaves, CollectTakes(l)
    PROVE  OrderInv(way)'
<1> DEFINE c == Shared(l)
           e == Head(chan[c])
           x == <<c, e.via>>
           t == <<Output, e.via>>
<1>1. /\ c \in Channels /\ Takes(c) /\ chan[c] # <<>> /\ taken' = [taken EXCEPT ![l] = e]
      /\ collecting' = [collecting EXCEPT ![l] = "send"] /\ UNCHANGED <<at, hold, todo, received>>
  BY LeafIsChannel DEF CollectTakes, CollectIdle, workerVars, Takes
<1>2. e \in Live /\ e.n \in 1 .. MaxElements
  BY <1>1, TakesIs, LiveIs DEF Base
<1>3. x \in DOMAIN way /\ t \in Onward(x)
  <2>1. 1 \in DOMAIN chan[c] /\ e = chan[c][1]
    BY <1>1 DEF Base, ChannelsOK
  <2> QED BY <1>1, <2>1, OnwardIs DEF OrderInv, PlacesOK
<1>4. /\ taken'[l] = e /\ collecting'[l] = "send"
      /\ \A k \in Leaves \ {l} : taken'[k] = taken[k] /\ collecting'[k] = collecting[k]
  BY <1>1 DEF Base, CloseInv, ControlsOK, HandsOK
<1>5. c # Output
  BY SharedIsOwn, PipelineChannelsApart DEF Leaves
<1> HIDE DEF c, e
<1>6. /\ Queued(x, e.n)
      /\ \A y, n : Queued(y, n)' => Queued(y, n) /\ (y = x => e.n < n)
      /\ \A d \in Channels : Ascends(chan'[d])
      /\ \A d \in Channels : \A i \in DOMAIN chan'[d] :
            \E j \in DOMAIN chan[d] : chan'[d][i] = chan[d][j]
  <2>1. e = Head(chan[c])
    BY DEF e
  <2> QED BY <1>1, <2>1, TakesFromRow DEF Base, OrderInv
<1>7. ASSUME NEW y, NEW n, Carried(y, n)' PROVE Carried(y, n) \/ (y \in {t} /\ n = e.n)
  <2>1. CASE \E w \in Workers : y \in Bound(w)' /\ hold'[w].n = n
    BY <1>1, <2>1 DEF Carried, Bound, Aims
  <2>2. CASE \E k \in Leaves : collecting'[k] = "send" /\ y = <<Output, taken'[k].via>> /\ taken'[k].n = n
    <3>1. PICK k \in Leaves : collecting'[k] = "send" /\ y = <<Output, taken'[k].via>> /\ taken'[k].n = n
      BY <2>2
    <3>2. CASE k = l
      BY <1>4, <3>1, <3>2
    <3>3. CASE k # l
      BY <1>4, <3>1, <3>3 DEF Carried
    <3> QED BY <3>2, <3>3
  <2> QED BY <1>7, <2>1, <2>2 DEF Carried
<1>8. \A y, n : Got(y, n)' => Got(y, n) /\ y # x
  BY <1>1, <1>5 DEF Got
<1>9. OrderAt(way)'
  <2>1. OrderAt(way) /\ {t} \in SUBSET Onward(x)
    BY <1>3 DEF OrderInv
  <2> HIDE DEF t, x
  <2> QED BY <1>2, <1>3, <1>6, <1>7, <1>8, <2>1, TakesOnward
<1>10. RowsOK'
  BY <1>1, <1>6 DEF OrderInv, RowsOK
<1>11. PlacesOK(way)'
  <2>1. \A v \in Workers : at'[v] \in {"send", "fail"} => <<v[2], hold'[v].via>> \in DOMAIN way
    BY <1>1 DEF OrderInv, PlacesOK
  <2>2. ASSUME NEW k \in Leaves, collecting'[k] = "send" PROVE <<Shared(k), taken'[k].via>> \in DOMAIN way
    <3>1. CASE k = l
      BY <1>3, <1>4, <3>1 DEF c
    <3>2. CASE k # l
      BY <1>4, <2>2, <3>2 DEF OrderInv, PlacesOK
    <3> QED BY <3>1, <3>2
  <2>3. \A d \in Channels : \A i \in DOMAIN chan'[d] : <<d, chan'[d][i].via>> \in DOMAIN way
    BY <1>6 DEF OrderInv, PlacesOK
  <2> QED BY <2>1, <2>2, <2>3 DEF PlacesOK
<1>12. MapsFail'
  BY <1>1 DEF OrderInv, MapsFail
<1> QED BY <1>9, <1>10, <1>11, <1>12 DEF OrderInv

LEMMA CollectSendsOrdered ==
    ASSUME NEW way, OneWay(way), Base, CloseInv', OrderInv(way), NEW l \in Leaves, CollectSends(l)
    PROVE  OrderInv(way)'
<1> DEFINE e == taken[l]
           x == <<Output, e.via>>
<1>1. /\ collecting[l] = "send" /\ Send(Output, e) /\ taken' = [taken EXCEPT ![l] = None]
      /\ collecting' = [collecting EXCEPT ![l] = "recv"] /\ UNCHANGED <<at, hold, todo, received>>
  BY DEF CollectSends, CollectIdle, workerVars
<1>2. chan' = [chan EXCEPT ![Output] = Append(@, e)] /\ Output \in Channels
  BY <1>1, SendIs DEF Channels
<1>3. e \in Live /\ e.n \in 1 .. MaxElements
  BY <1>1, LiveIs DEF Base, HandsOK, CollectorAt
<1>4. x \in DOMAIN way
  <2>1. <<Shared(l), e.via>> \in DOMAIN way
    BY <1>1 DEF OrderInv, PlacesOK
  <2> QED BY <2>1, OnwardIs, WayIs
<1>5. /\ collecting'[l] = "recv"
      /\ \A k \in Leaves \ {l} : taken'[k] = taken[k] /\ collecting'[k] = collecting[k]
  BY <1>1 DEF Base, CloseInv, ControlsOK, HandsOK
<1>6. Carried(x, e.n)
  BY <1>1 DEF Carried
<1>7. \A m \in 1 .. MaxElements : Queued(x, m) => m < e.n
  <2> SUFFICES ASSUME NEW m \in 1 .. MaxElements, Queued(x, m) PROVE m < e.n
    OBVIOUS
  <2>1. There(x, 0, e.n) /\ There(x, 1, m) /\ Behind(way, x, 0, x, 1)
    BY <1>6 DEF There, Behind
  <2> HIDE DEF x, e
  <2> QED BY <1>3, <1>4, <2>1 DEF OrderInv, OrderAt
<1>8. ASSUME NEW y, NEW n, Carried(y, n)' PROVE Carried(y, n) /\ y # x
  <2>1. CASE \E w \in Workers : y \in Bound(w)' /\ hold'[w].n = n
    <3>1. PICK w \in Workers : y \in Bound(w) /\ hold[w].n = n
      BY <1>1, <2>1 DEF Bound, Aims
    <3>2. y # x
      BY <3>1, NotBoundForOutput DEF Base, OrderInv
    <3> QED BY <3>1, <3>2 DEF Carried
  <2>2. CASE \E k \in Leaves : collecting'[k] = "send" /\ y = <<Output, taken'[k].via>> /\ taken'[k].n = n
    <3>1. PICK k \in Leaves : collecting'[k] = "send" /\ y = <<Output, taken'[k].via>> /\ taken'[k].n = n
      BY <2>2
    <3>2. k # l /\ collecting[k] = "send" /\ taken'[k] = taken[k]
      BY <1>5, <3>1
    <3>3. taken[k].via # e.via
      BY <1>1, <3>2, OneCollector DEF OrderInv
    <3> QED BY <3>1, <3>2, <3>3 DEF Carried
  <2> QED BY <1>8, <2>1, <2>2 DEF Carried
<1> HIDE DEF e
<1>9. /\ \A y, n : Queued(y, n)' => Queued(y, n) \/ (y = x /\ n = e.n)
      /\ \A d \in Channels : Ascends(chan'[d])
      /\ \A d \in Channels : \A i \in DOMAIN chan'[d] :
            \/ \E j \in DOMAIN chan[d] : chan'[d][i] = chan[d][j]
            \/ d = Output /\ chan'[d][i] = e
  BY <1>2, <1>3, <1>7, PutsIntoRow DEF Base, OrderInv
<1>10. \A y, n : Got(y, n)' => Got(y, n)
  BY <1>1 DEF Got
<1>11. OrderAt(way)'
  <2>1. OrderAt(way)
    BY DEF OrderInv
  <2> HIDE DEF x
  <2> QED BY <1>3, <1>4, <1>6, <1>8, <1>9, <1>10, <2>1, PutsAtPlace
<1>12. RowsOK'
  BY <1>1, <1>9 DEF OrderInv, RowsOK
<1>13. PlacesOK(way)'
  <2>1. \A v \in Workers : at'[v] \in {"send", "fail"} => <<v[2], hold'[v].via>> \in DOMAIN way
    BY <1>1 DEF OrderInv, PlacesOK
  <2>2. \A k \in Leaves : collecting'[k] = "send" => <<Shared(k), taken'[k].via>> \in DOMAIN way
    BY <1>5 DEF OrderInv, PlacesOK
  <2>3. \A d \in Channels : \A i \in DOMAIN chan'[d] : <<d, chan'[d][i].via>> \in DOMAIN way
    <3> SUFFICES ASSUME NEW d \in Channels, NEW i \in DOMAIN chan'[d]
                 PROVE  <<d, chan'[d][i].via>> \in DOMAIN way
      OBVIOUS
    <3>1. CASE \E j \in DOMAIN chan[d] : chan'[d][i] = chan[d][j]
      BY <3>1 DEF OrderInv, PlacesOK
    <3>2. CASE d = Output /\ chan'[d][i] = e
      BY <1>4, <3>2
    <3> QED BY <1>9, <3>1, <3>2
  <2> QED BY <2>1, <2>2, <2>3 DEF PlacesOK
<1>14. MapsFail'
  BY <1>1 DEF OrderInv, MapsFail
<1> QED BY <1>11, <1>12, <1>13, <1>14 DEF OrderInv

LEMMA ReadsOrdered ==
    ASSUME NEW way, OneWay(way), Base, OrderInv(way), Reads
    PROVE  OrderInv(way)'
<1> DEFINE e == Head(chan[Output])
           x == <<Output, e.via>>
<1>1. /\ Output \in Channels /\ Takes(Output) /\ chan[Output] # <<>> /\ received' = Append(received, e)
      /\ UNCHANGED <<at, hold, todo, taken, collecting>>
  BY DEF Reads, workerVars, collectVars, Takes, Channels
<1>2. e \in Live /\ e.n \in 1 .. MaxElements /\ received \in Seq(Live)
  BY <1>1, TakesIs, LiveIs DEF Base, ChannelsOK
<1>3. x \in DOMAIN way
  <2>1. 1 \in DOMAIN chan[Output] /\ e = chan[Output][1]
    BY <1>1 DEF Base, ChannelsOK
  <2> QED BY <1>1, <2>1 DEF OrderInv, PlacesOK
<1>4. /\ Queued(x, e.n)
      /\ \A y, n : Queued(y, n)' => Queued(y, n) /\ (y = x => e.n < n)
      /\ \A d \in Channels : Ascends(chan'[d])
      /\ \A d \in Channels : \A i \in DOMAIN chan'[d] :
            \E j \in DOMAIN chan[d] : chan'[d][i] = chan[d][j]
  BY <1>1, TakesFromRow DEF Base, OrderInv
<1> HIDE DEF e
<1>5. \A y, n : Got(y, n)' => Got(y, n) \/ (y = x /\ n = e.n)
  <2>1. \A i \in DOMAIN received' : (i \in DOMAIN received /\ received'[i] = received[i]) \/ received'[i] = e
    BY <1>1, <1>2
  <2> QED BY <2>1 DEF Got
<1>6. \A y, n : Carried(y, n)' => Carried(y, n)
  BY <1>1 DEF Carried, Bound, Aims
<1>7. OrderAt(way)'
  <2>1. OrderAt(way)
    BY DEF OrderInv
  <2> HIDE DEF x
  <2> QED BY <1>2, <1>3, <1>4, <1>5, <1>6, <2>1, ReadsOn
<1>8. Ascends(Append(received, e))
  <2>1. ASSUME NEW i \in DOMAIN received, received[i].via = e.via PROVE received[i].n < e.n
    <3>1. received[i].n \in 1 .. MaxElements
      BY <1>2, LiveIs
    <3>2. There(x, 1, e.n) /\ There(x, 2, received[i].n) /\ Behind(way, x, 1, x, 2)
      BY <1>4, <2>1 DEF There, Got, Behind
    <3> HIDE DEF x
    <3> QED BY <1>2, <1>3, <3>1, <3>2 DEF OrderInv, OrderAt
  <2> QED BY <1>2, <2>1, JoinsRow DEF OrderInv, RowsOK
<1>9. RowsOK'
  BY <1>1, <1>4, <1>8 DEF RowsOK
<1>10. PlacesOK(way)' /\ MapsFail'
  BY <1>1, <1>4 DEF OrderInv, PlacesOK, MapsFail
<1> QED BY <1>7, <1>9, <1>10 DEF OrderInv

LEMMA ExecuteOrdered ==
    ASSUME NEW way, OneWay(way), Base, IdleOK, OrderInv(way), Execute
    PROVE  OrderInv(way)'
<1> DEFINE x == <<Input, "input">>
<1>1. exec = "idle" /\ UNCHANGED <<at, hold, todo, taken, collecting, received>>
  BY DEF Execute, workerVars, collectVars
<1>2. PICK m \in 1 .. MaxElements : chan' = [chan EXCEPT ![Input] = Fed(m)]
  BY DEF Execute
<1>3. /\ \A c \in Channels : chan[c] = <<>>
      /\ \A w \in Workers : at[w] = "recv"
      /\ \A l \in Leaves : collecting[l] # "send"
      /\ received = <<>>
  BY <1>1 DEF IdleOK
<1>4. Input \in Channels /\ DOMAIN chan = Channels /\ m \in Nat
  BY PipelineAssumption DEF Base, ChannelsOK, Channels
<1>5. /\ chan'[Input] = Fed(m) /\ \A c \in Channels \ {Input} : chan'[c] = <<>>
  BY <1>2, <1>3, <1>4
<1>6. DOMAIN Fed(m) = 1 .. m /\ \A n \in 1 .. m : Fed(m)[n].n = n /\ Fed(m)[n].via = "input"
  BY <1>4 DEF Fed, Element
<1>7. x \in DOMAIN way /\ x \notin way[x]
  BY DEF OneWay
<1>8. \A c \in Channels : \A i \in DOMAIN chan'[c] : c = Input /\ chan'[c][i].via = "input"
  BY <1>5, <1>6
<1>9. \A y, n : ~Carried(y, n)' /\ ~Got(y, n)' /\ (Queued(y, n)' => y = x)
  <2>1. \A w \in Workers : Bound(w)' = {}
    BY <1>1, <1>3 DEF Bound, Aims, Base, HandsOK, HandAt
  <2>2. \A y, n : ~Carried(y, n)'
    BY <1>1, <1>3, <2>1 DEF Carried
  <2>3. \A y, n : ~Got(y, n)'
    BY <1>1, <1>3 DEF Got
  <2>4. \A y, n : Queued(y, n)' => y = x
    BY <1>8 DEF Queued
  <2> QED BY <2>2, <2>3, <2>4
<1>10. OrderAt(way)'
  <2> SUFFICES ASSUME NEW y \in DOMAIN way, NEW z \in DOMAIN way, NEW k \in 0 .. 2, NEW j \in 0 .. 2,
                      NEW n \in 1 .. MaxElements, NEW i \in 1 .. MaxElements,
                      Behind(way, y, k, z, j), There(y, k, n)', There(z, j, i)'
               PROVE  FALSE
    BY DEF OrderAt, Behind
  <2>1. y = x /\ z = x /\ k = 1 /\ j = 1
    BY <1>9 DEF There
  <2> QED BY <1>7, <2>1 DEF Behind
<1>11. RowsOK'
  <2>1. Ascends(Fed(m))
    BY <1>4, <1>6 DEF Ascends
  <2>2. Ascends(<<>>)
    BY DEF Ascends
  <2> QED BY <1>1, <1>3, <1>5, <2>1, <2>2 DEF RowsOK
<1>12. PlacesOK(way)' /\ MapsFail'
  BY <1>1, <1>3, <1>7, <1>8 DEF PlacesOK, MapsFail
<1> QED BY <1>10, <1>11, <1>12 DEF OrderInv

\* The other steps move nothing.
LEMMA QuietOrdered ==
    ASSUME NEW way, Base, OrderInv(way), UNCHANGED <<chan, hold, todo, taken, received>>,
           \A w \in Workers : at'[w] = at[w] \/ (at[w] = "recv" /\ at'[w] = "done"),
           \A l \in Leaves : collecting'[l] = "send" => collecting[l] = "send"
    PROVE  OrderInv(way)'
<1>1. \A w \in Workers : Bound(w)' = Bound(w)
  BY DEF Bound, Aims
<1>2. /\ \A y, n : Carried(y, n)' => Carried(y, n)
      /\ \A y, n : Queued(y, n)' => Queued(y, n)
      /\ \A y, n : Got(y, n)' => Got(y, n)
  BY <1>1 DEF Carried, Queued, Got
<1>3. OrderAt(way)'
  BY <1>2, FewerAreOrdered DEF OrderInv
<1>4. RowsOK' /\ PlacesOK(way)' /\ MapsFail'
  BY DEF OrderInv, RowsOK, PlacesOK, MapsFail
<1> QED BY <1>3, <1>4 DEF OrderInv

LEMMA InitOrderInv ==
    ASSUME NEW way
    PROVE  Init => OrderInv(way)
<1> SUFFICES ASSUME Init PROVE OrderInv(way)
  OBVIOUS
<1>1. \A y, n : ~Carried(y, n) /\ ~Queued(y, n) /\ ~Got(y, n)
  BY DEF Init, Carried, Bound, Aims, Queued, Got
<1>2. OrderAt(way)
  BY <1>1 DEF OrderAt, There
<1>3. RowsOK /\ PlacesOK(way) /\ MapsFail
  BY DEF Init, RowsOK, Ascends, PlacesOK, MapsFail
<1> QED BY <1>2, <1>3 DEF OrderInv

LEMMA NextOrderInv ==
    ASSUME NEW way, OneWay(way)
    PROVE  ElementInv /\ OrderInv(way) /\ [Next]_vars => OrderInv(way)'
<1> SUFFICES ASSUME ElementInv, OrderInv(way), [Next]_vars PROVE OrderInv(way)'
  OBVIOUS
<1>1. Base /\ IdleOK /\ CloseInv' /\ HandsOK'
  BY NextElementInv DEF ElementInv, Base
<1>2. CASE UNCHANGED <<chan, hold, todo, taken, received, at, collecting>>
  BY <1>1, <1>2, QuietOrdered
<1>3. CASE Execute
  BY <1>1, <1>3, ExecuteOrdered
<1>4. CASE Reads
  BY <1>1, <1>4, ReadsOrdered
<1>5. CASE \/ ExecuteStarts \/ Cancel \/ ExecuteEnds \/ OutputCloses \/ UNCHANGED vars
           \/ \E s \in Stages : StageReturns(s)
           \/ \E k \in Closers : Shutdown(k) \/ ShutdownReturns(k)
  <2>1. UNCHANGED <<chan, hold, todo, taken, received, at, collecting>>
    BY <1>5 DEF ExecuteStarts, Cancel, ExecuteEnds, OutputCloses, StageReturns, Shutdown, ShutdownReturns,
                ExecutionIdle, CollectIdle, WorkerIdle, workerVars, collectVars, vars
  <2> QED BY <1>2, <2>1
<1>6. ASSUME NEW w \in Workers, WorkerStep(w) PROVE OrderInv(way)'
  <2>1. CASE InputEnds(w)
    <3>1. /\ UNCHANGED <<chan, hold, todo, taken, received, collecting>>
          /\ at[w] = "recv" /\ at' = [at EXCEPT ![w] = "done"]
      BY <2>1 DEF InputEnds, WorkerIdle, collectVars
    <3>2. \A v \in Workers : at'[v] = at[v] \/ (at[v] = "recv" /\ at'[v] = "done")
      BY <1>1, <3>1 DEF Base, CloseInv, ControlsOK
    <3> QED BY <1>1, <3>1, <3>2, QuietOrdered
  <2> QED BY <1>1, <1>6, <2>1, ReceiveOrdered, FailSendsOrdered, WorkerSendsOrdered, SendCancelledOrdered
          DEF WorkerStep
<1>7. ASSUME NEW l \in Leaves, CollectStep(l) PROVE OrderInv(way)'
  <2>1. CASE CollectEnds(l)
    <3>1. /\ UNCHANGED <<chan, hold, todo, taken, received, at>>
          /\ collecting' = [collecting EXCEPT ![l] = "done"]
      BY <2>1 DEF CollectEnds, CollectIdle, workerVars
    <3>2. \A k \in Leaves : collecting'[k] = "send" => collecting[k] = "send"
      BY <1>1, <3>1 DEF Base, CloseInv, ControlsOK
    <3> QED BY <1>1, <3>1, <3>2, QuietOrdered
  <2> QED BY <1>1, <1>7, <2>1, CollectTakesOrdered, CollectSendsOrdered DEF CollectStep
<1> QED BY <1>3, <1>4, <1>5, <1>6, <1>7 DEF Next, Runs

LEMMA TracksOrdered ==
    ASSUME NEW way
    PROVE  OrderInv(way) => TracksKeepOrder
BY DEF OrderInv, RowsOK, Ascends, TracksKeepOrder

(* What the routers sent the same way is read in the order in which it was  *)
(* fed, on every graph in which no track meets itself: merges mix tracks    *)
(* and keep each in order, cancelled or not (stages_advanced.go             *)
(* forwardInput, pipeline.go collectOutput).                                *)
THEOREM TracksStayInOrder ==
    ASSUME NEW way, OneWay(way)
    PROVE  Spec => []TracksKeepOrder
<1>1. Init => ElementInv /\ OrderInv(way)
  BY InitElementInv, InitOrderInv
<1>2. ElementInv /\ OrderInv(way) /\ [Next]_vars => (ElementInv /\ OrderInv(way))'
  BY NextElementInv, NextOrderInv
<1>3. OrderInv(way) => TracksKeepOrder
  BY TracksOrdered
<1> QED BY <1>1, <1>2, <1>3, PTL DEF Spec

-----------------------------------------------------------------------------
(* Failures.  An error in the place of element n, on its way to the caller *)
(* through stages of B.                                                    *)

Tells(e, n) == e.n = n /\ e.error
Behinds(B) == {Shared(s) : s \in B} \cup {Output}

ErrorQueued(B, n) == \E c \in Behinds(B) : \E i \in DOMAIN chan[c] : Tells(chan[c][i], n)
ErrorInHand(B, n) == \E w \in Workers : w[1] \in B /\ at[w] \in {"send", "fail"} /\ Tells(hold[w], n)
ErrorCollected(n) == \E l \in Leaves : collecting[l] = "send" /\ Tells(taken[l], n)
ErrorRead(n)      == \E i \in DOMAIN received : Tells(received[i], n)
OnTheWay(B, n) == ErrorQueued(B, n) \/ ErrorInHand(B, n) \/ ErrorCollected(n) \/ ErrorRead(n)

\* Nothing is left in a channel and nothing will come.
Drained(c) == chan[c] = <<>> /\ c \in closed

\* Who is over has drained what it reads, but for a MapStage that failed and
\* for what was cancelled.
ReadersDrain ==
    /\ \A l \in Leaves : collecting[l] = "done" => Drained(Shared(l))
    /\ ~cancelled => \A w \in Workers : at[w] = "done" /\ Kind[w[1]] # "map" => Drained(w[2])

EndsLast ==
    /\ exec = "done" => returned = Stages /\ Output \in closed
    /\ exec = "idle" => failed = {} /\ \A l \in Leaves : collecting[l] # "done"

ToldInv(B) == ReadersDrain /\ EndsLast /\ MapsFail /\ (~cancelled => \A n \in failed : OnTheWay(B, n))

LEMMA MapsFailKept == ElementInv /\ MapsFail /\ [Next]_vars => MapsFail'
<1> SUFFICES ASSUME ElementInv, MapsFail, [Next]_vars PROVE MapsFail'
  OBVIOUS
<1>1. Base
  BY DEF ElementInv
<1>2. CASE \E w \in Workers : WorkerStep(w)
  <2>1. PICK w \in Workers : WorkerStep(w)
    BY <1>2
  <2>2. CASE WorkerReceives(w)
    BY <1>1, <2>2, ReceivesIs DEF MapsFail, OnlyMoves
  <2>3. CASE InputEnds(w)
    BY <1>1, <2>3 DEF InputEnds, MapsFail, Base, CloseInv, ControlsOK
  <2>4. CASE FailSends(w)
    BY <1>1, <2>4 DEF FailSends, Stops, MapsFail, Base, CloseInv, ControlsOK
  <2>5. CASE \E c \in Channels : WorkerSends(w, c) \/ SendCancelled(w, c)
    <3>1. at[w] = "send" /\ \E a \in {"recv", "send", "done"} : at' = [at EXCEPT ![w] = a]
      BY <2>5 DEF WorkerSends, SendCancelled, Sent, Stops
    <3> QED BY <1>1, <3>1 DEF MapsFail, Base, CloseInv, ControlsOK
  <2> QED BY <2>1, <2>2, <2>3, <2>4, <2>5 DEF WorkerStep
<1>3. CASE at' = at
  BY <1>3 DEF MapsFail
<1>4. CASE ~(\E w \in Workers : WorkerStep(w))
  <2>1. at' = at
    BY <1>4 DEF Next, Runs, vars, Execute, ExecuteStarts, Reads, Cancel, ExecuteEnds, StageReturns, CollectStep,
                CollectTakes, CollectSends, CollectEnds, OutputCloses, CollectIdle, Shutdown,
                ShutdownReturns, ExecutionIdle, workerVars
  <2> QED BY <1>3, <2>1
<1> QED BY <1>2, <1>4

\* Behind Execute a drained channel stays drained: nobody sends on a closed one.
LEMMA StaysDrained ==
    ASSUME ElementInv, [Next]_vars, ~Execute, NEW c \in Channels, Drained(c)
    PROVE  Drained(c)'
<1>1. CloseInv' /\ Base
  BY NextElementInv DEF ElementInv, Base
<1>2. DOMAIN chan = Channels
  BY <1>1 DEF Base, ChannelsOK
<1>3. closed \subseteq closed'
  BY DEF Next, Runs, vars, ExecuteStarts, Reads, Cancel, ExecuteEnds, WorkerStep, WorkerReceives,
         InputEnds, FailSends, WorkerSends, SendCancelled, StageReturns, ClosesOutputs, CollectStep,
         CollectTakes, CollectSends, CollectEnds, OutputCloses, Shutdown, ShutdownReturns, ExecutionIdle
<1>4. ASSUME NEW d, NEW e, Send(d, e) PROVE chan'[c] = chan[c]
  <2>1. chan' = [chan EXCEPT ![d] = Append(@, e)] /\ (d \in closed => panicked')
    BY <1>1, <1>4, SendIs DEF Send
  <2>2. d # c
    BY <1>1, <2>1 DEF Drained, CloseInv, NobodyPanics
  <2> QED BY <1>2, <2>1, <2>2
<1>5. ASSUME NEW d, Takes(d) PROVE chan'[c] = chan[c]
  BY <1>2, <1>5 DEF Takes, Drained
<1>6. chan'[c] = chan[c]
  <2>1. CASE chan' = chan
    BY <2>1
  <2>2. CASE \E w \in Workers : WorkerStep(w)
    BY <1>4, <1>5, <2>1, <2>2 DEF WorkerStep, WorkerReceives, InputEnds, FailSends, WorkerSends, SendCancelled
  <2>3. CASE Reads \/ \E l \in Leaves : CollectStep(l)
    BY <1>4, <1>5, <2>1, <2>3 DEF Reads, CollectStep, CollectTakes, CollectSends, CollectEnds
  <2>4. CASE \/ ExecuteStarts \/ Cancel \/ ExecuteEnds \/ OutputCloses \/ UNCHANGED vars
             \/ \E s \in Stages : StageReturns(s)
             \/ \E k \in Closers : Shutdown(k) \/ ShutdownReturns(k)
    BY <2>1, <2>4 DEF ExecuteStarts, Cancel, ExecuteEnds, OutputCloses, StageReturns, Shutdown,
                      ShutdownReturns, ExecutionIdle, vars
  <2> QED BY <2>2, <2>3, <2>4 DEF Next, Runs
<1> QED BY <1>3, <1>6 DEF Drained

LEMMA StageHasWorker ==
    ASSUME NEW s \in Stages
    PROVE  \E w \in Workers : w[1] = s
<1>1. PICK c : c \in StageInputs(s)
  <2>1. CASE Ups(s) = {}
    BY <2>1 DEF StageInputs
  <2>2. CASE Ups(s) # {}
    <3>1. PICK u : u \in Ups(s)
      BY <2>2
    <3>2. UpstreamChannel(u, s) \in StageInputs(s)
      BY <2>2, <3>1 DEF StageInputs
    <3> QED BY <3>2
  <2> QED BY <2>1, <2>2
<1>2. <<s, c>> \in Workers
  BY <1>1 DEF Workers
<1> QED BY <1>2

\* Before Execute no stage has closed anything.
LEMMA NothingClosedYet ==
    ASSUME ElementInv, exec = "idle", NEW l \in Leaves
    PROVE  Shared(l) \notin closed
<1>1. l \in Stages /\ CloseInv /\ IdleOK
  BY DEF Leaves, ElementInv, Base
<1>2. Shared(l) \in closed => AllWorkersDone(l)
  BY <1>1, SharedIsOwn DEF CloseInv, ClosedByOwner, ReturnedAreDone
<1>3. PICK w \in Workers : w[1] = l
  BY <1>1, StageHasWorker
<1>4. at[w] = "recv" /\ w \in WorkersOf(l)
  BY <1>1, <1>3 DEF IdleOK, WorkersOf
<1> QED BY <1>2, <1>4 DEF AllWorkersDone

LEMMA ReadersDrainKept == ElementInv /\ ReadersDrain /\ EndsLast /\ MapsFail /\ [Next]_vars => ReadersDrain'
<1> SUFFICES ASSUME ElementInv, ReadersDrain, EndsLast, MapsFail, [Next]_vars PROVE ReadersDrain'
  OBVIOUS
<1>1. Base /\ IdleOK
  BY DEF ElementInv
<1>2. CASE Execute
  <2>1. exec = "idle" /\ UNCHANGED <<at, collecting, cancelled>>
    BY <1>2 DEF Execute, workerVars, collectVars
  <2>2. /\ \A w \in Workers : at'[w] # "done"
        /\ \A l \in Leaves : collecting'[l] # "done"
    BY <1>1, <2>1 DEF IdleOK, EndsLast
  <2> QED BY <2>2 DEF ReadersDrain
<1>3. CASE ~Execute
  <2>1. ASSUME NEW l \in Leaves, collecting'[l] = "done" PROVE Drained(Shared(l))
    <3>1. CASE collecting[l] = "done"
      BY <3>1 DEF ReadersDrain
    <3>2. CASE collecting[l] # "done"
      <4>1. PICK k \in Leaves : CollectStep(k)
        BY <1>3, <2>1, <3>2 DEF Next, Runs, vars, ExecuteStarts, Reads, Cancel, ExecuteEnds, WorkerStep,
              WorkerReceives, InputEnds, FailSends, WorkerSends, SendCancelled, StageReturns, OutputCloses,
              WorkerIdle, Shutdown, ShutdownReturns, ExecutionIdle, collectVars
      <4>2. CollectEnds(k) /\ k = l
        BY <1>1, <2>1, <3>2, <4>1 DEF CollectStep, CollectTakes, CollectSends, CollectEnds, Base, CloseInv,
              ControlsOK
      <4> QED BY <4>2 DEF CollectEnds, Drained
    <3> QED BY <3>1, <3>2
  <2>2. ASSUME NEW w \in Workers, ~cancelled', at'[w] = "done", Kind[w[1]] # "map" PROVE Drained(w[2])
    <3>1. ~cancelled
      BY <1>3, <2>2 DEF Next, Runs, vars, ExecuteStarts, Reads, Cancel, ExecuteEnds, WorkerStep, WorkerReceives,
            InputEnds, FailSends, WorkerSends, SendCancelled, StageReturns, CollectStep, CollectTakes,
            CollectSends, CollectEnds, OutputCloses, CollectIdle, WorkerIdle, Shutdown, ShutdownReturns,
            ExecutionIdle
    <3>2. CASE at[w] = "done"
      BY <2>2, <3>1, <3>2 DEF ReadersDrain
    <3>3. CASE at[w] # "done"
      <4>1. PICK v \in Workers : WorkerStep(v)
        BY <1>3, <2>2, <3>3 DEF Next, Runs, vars, ExecuteStarts, Reads, Cancel, ExecuteEnds, StageReturns,
              CollectStep, CollectTakes, CollectSends, CollectEnds, OutputCloses, CollectIdle, Shutdown,
              ShutdownReturns, ExecutionIdle, workerVars
      <4>2. DOMAIN at = Workers
        BY <1>1 DEF Base, CloseInv, ControlsOK
      <4>3. ~WorkerReceives(v)
        BY <2>2, <3>3, <4>2 DEF WorkerReceives, Passes, Fails, Routes, Holds
      <4>4. ~FailSends(v)
        BY <2>2, <3>3, <4>2 DEF FailSends, Stops, MapsFail
      <4>5. \A c \in Channels : ~WorkerSends(v, c) /\ ~SendCancelled(v, c)
        BY <2>2, <3>1, <3>3, <4>2 DEF WorkerSends, SendCancelled, Sent
      <4>6. InputEnds(v)
        BY <4>1, <4>3, <4>4, <4>5 DEF WorkerStep
      <4>7. v = w
        BY <2>2, <3>3, <4>2, <4>6 DEF InputEnds
      <4> QED BY <4>6, <4>7 DEF InputEnds, Drained
    <3> QED BY <3>2, <3>3
  <2>3. \A l \in Leaves : collecting'[l] = "done" => Drained(Shared(l))'
    BY <1>3, <2>1, StaysDrained, LeafIsChannel
  <2>4. ~cancelled' => \A w \in Workers : at'[w] = "done" /\ Kind[w[1]] # "map" => Drained(w[2])'
    BY <1>3, <2>2, StaysDrained, InputIsChannel
  <2> QED BY <2>3, <2>4 DEF ReadersDrain
<1> QED BY <1>2, <1>3

LEMMA EndsLastKept == ElementInv /\ EndsLast /\ [Next]_vars => EndsLast'
<1> SUFFICES ASSUME ElementInv, EndsLast, [Next]_vars PROVE EndsLast'
  OBVIOUS
<1>1. Base /\ IdleOK
  BY DEF ElementInv
<1>2. ASSUME exec' = "done" PROVE returned' = Stages /\ Output \in closed'
  <2>1. CASE ExecuteEnds
    BY <2>1 DEF ExecuteEnds, workerVars
  <2>2. CASE ~ExecuteEnds
    <3>1. exec = "done" /\ ~Execute
      BY <1>2, <2>2 DEF Next, Runs, vars, Execute, ExecuteStarts, Reads, Cancel, WorkerStep, WorkerReceives,
         InputEnds, FailSends, WorkerSends, SendCancelled, StageReturns, CollectStep, CollectTakes,
         CollectSends, CollectEnds, OutputCloses, CollectIdle, WorkerIdle, ShutdownIdle, shutdownVars,
         Shutdown, ShutdownReturns, ExecutionIdle
    <3>2. /\ closed \subseteq closed'
          /\ returned \subseteq returned' /\ \A s \in returned' : s \in returned \/ s \in Stages
      BY <3>1 DEF Next, Runs, vars, ExecuteStarts, Reads, Cancel, ExecuteEnds, WorkerStep, WorkerReceives,
         InputEnds, FailSends, WorkerSends, SendCancelled, StageReturns, ClosesOutputs, CollectStep,
         CollectTakes, CollectSends, CollectEnds, OutputCloses, CollectIdle, Shutdown, ShutdownReturns,
         ExecutionIdle, workerVars
    <3> QED BY <3>1, <3>2 DEF EndsLast
  <2> QED BY <2>1, <2>2
<1>3. ASSUME exec' = "idle" PROVE failed' = {} /\ \A l \in Leaves : collecting'[l] # "done"
  <2>1. exec = "idle" /\ ~Execute
    BY <1>3 DEF Next, Runs, vars, Execute, ExecuteStarts, ExecuteEnds, Reads, Cancel, WorkerStep, WorkerReceives,
       InputEnds, FailSends, WorkerSends, SendCancelled, StageReturns, CollectStep, CollectTakes,
       CollectSends, CollectEnds, OutputCloses, CollectIdle, WorkerIdle, ShutdownIdle, shutdownVars,
       Shutdown, ShutdownReturns, ExecutionIdle
  <2>2. \A w \in Workers : ~WorkerStep(w)
    BY <1>1, <2>1 DEF IdleOK, WorkerStep, WorkerReceives, InputEnds, FailSends, WorkerSends, SendCancelled
  <2>3. \A l \in Leaves : ~CollectEnds(l)
    BY <2>1, NothingClosedYet DEF CollectEnds
  <2>4. failed' = failed
    BY <2>1, <2>2 DEF Next, Runs, vars, ExecuteStarts, Reads, Cancel, ExecuteEnds, StageReturns, CollectStep,
          CollectTakes, CollectSends, CollectEnds, OutputCloses, CollectIdle, Shutdown, ShutdownReturns,
          ExecutionIdle, ghostVars
  <2>5. CASE \E l \in Leaves : CollectStep(l)
    <3>1. PICK l \in Leaves : CollectTakes(l) \/ CollectSends(l)
      BY <2>3, <2>5 DEF CollectStep
    <3>2. \E a \in {"send", "recv"} : collecting' = [collecting EXCEPT ![l] = a]
      BY <3>1 DEF CollectTakes, CollectSends
    <3> QED BY <1>1, <2>1, <2>4, <3>2 DEF EndsLast, Base, CloseInv, ControlsOK
  <2>6. CASE ~(\E l \in Leaves : CollectStep(l))
    <3>1. collecting' = collecting
      BY <2>1, <2>2, <2>6 DEF Next, Runs, vars, ExecuteStarts, Reads, Cancel, ExecuteEnds, StageReturns,
            OutputCloses, WorkerIdle, Shutdown, ShutdownReturns, ExecutionIdle, collectVars
    <3> QED BY <2>1, <2>4, <3>1 DEF EndsLast
  <2> QED BY <2>5, <2>6
<1> QED BY <1>2, <1>3 DEF EndsLast

\* What is in a channel stays there, or was its head.
LEMMA TakeKeeps ==
    ASSUME ChannelsOK, NEW c \in Channels, Takes(c), NEW d \in Channels, NEW i \in DOMAIN chan[d]
    PROVE  \/ \E j \in DOMAIN chan'[d] : chan'[d][j] = chan[d][i]
           \/ d = c /\ chan[d][i] = Head(chan[c])
<1> DEFINE q == chan[c]
<1>1. /\ q \in Seq(Live) /\ q # <<>> /\ chan'[c] = Tail(q) /\ \A b \in Channels \ {c} : chan'[b] = chan[b]
  BY DEF ChannelsOK, Takes
<1>2. CASE d # c
  BY <1>1, <1>2
<1>3. CASE d = c
  <2>1. i \in DOMAIN q /\ DOMAIN q = 1 .. Len(q) /\ Len(q) \in Nat
    BY <1>1, <1>3
  <2>2. CASE i = 1
    BY <1>1, <1>3, <2>2
  <2>3. CASE i # 1
    <3>1. i - 1 \in DOMAIN Tail(q) /\ Tail(q)[i - 1] = q[i]
      BY <1>1, <2>1, <2>3
    <3> QED BY <1>1, <1>3, <3>1
  <2> QED BY <2>2, <2>3
<1> QED BY <1>2, <1>3

LEMMA PutKeeps ==
    ASSUME ChannelsOK, NEW c \in Channels, NEW e, chan' = [chan EXCEPT ![c] = Append(@, e)]
    PROVE  /\ \E j \in DOMAIN chan'[c] : chan'[c][j] = e
           /\ \A d \in Channels : \A i \in DOMAIN chan[d] : \E j \in DOMAIN chan'[d] : chan'[d][j] = chan[d][i]
<1> DEFINE q == chan[c]
<1>1. /\ q \in Seq(Live) /\ chan'[c] = Append(q, e) /\ \A b \in Channels \ {c} : chan'[b] = chan[b]
  BY DEF ChannelsOK
<1>2. Len(q) + 1 \in DOMAIN Append(q, e) /\ Append(q, e)[Len(q) + 1] = e
  BY <1>1
<1>3. \A i \in DOMAIN q : i \in DOMAIN Append(q, e) /\ Append(q, e)[i] = q[i]
  BY <1>1
<1> QED BY <1>1, <1>2, <1>3

LEMMA BehindsAreChannels ==
    ASSUME NEW B, OnlyMergesBehind(B)
    PROVE  /\ Behinds(B) \subseteq Channels /\ Output \in Behinds(B)
           /\ \A s \in B : s \in Stages /\ Kind[s] # "router" /\ Shared(s) \in Behinds(B)
BY SharedIsOwn, OutputsAreTagged DEF Behinds, OnlyMergesBehind, Channels

\* What reads the channel of a stage is one of its downstreams.
LEMMA ReaderIsDown ==
    ASSUME NEW w \in Workers, NEW s \in Stages, w[2] = Shared(s)
    PROVE  w[1] \in Downs(s)
<1>1. PICK d \in Stages : w \in {d} \X StageInputs(d)
  BY DEF Workers
<1>2. Input # Shared(s)
  BY SharedIsOwn, PipelineChannelsApart
<1>3. PICK u \in Ups(d) : w[2] = UpstreamChannel(u, d)
  BY <1>1, <1>2 DEF StageInputs
<1>4. u \in Stages /\ d \in Downs(u) /\ w[2] \in StageOutputs(u)
  BY <1>3 DEF Ups, Downs, StageOutputs
<1>5. u = s
  BY <1>4, SharedIsOwn, OneOwner
<1> QED BY <1>1, <1>4, <1>5

LEMMA ReceiveTells ==
    ASSUME NEW B, OnlyMergesBehind(B), Base, NEW w \in Workers, WorkerReceives(w), NEW n,
           OnTheWay(B, n) \/ n \in failed' \ failed
    PROVE  OnTheWay(B, n)'
<1> DEFINE e == Received(w)
<1>1. w[2] \in Channels /\ Takes(w[2]) /\ at[w] = "recv" /\ e = Head(chan[w[2]]) /\ ChannelsOK
  BY InputIsChannel DEF WorkerReceives, Received, Base
<1>2. OnlyMoves(w) /\ received' = received
  BY ReceivesIs
<1>3. DOMAIN at = Workers /\ DOMAIN hold = Workers
  BY DEF Base, CloseInv, ControlsOK, HandsOK
<1>4. e \in Live
  BY <1>1, TakesIs
<1> HIDE DEF e
<1>5. CASE ErrorQueued(B, n)
  <2>1. PICK c \in Behinds(B) : \E i \in DOMAIN chan[c] : Tells(chan[c][i], n)
    BY <1>5 DEF ErrorQueued
  <2>2. PICK i \in DOMAIN chan[c] : Tells(chan[c][i], n)
    BY <2>1
  <2>3. c \in Channels
    BY BehindsAreChannels
  <2>4. CASE \E j \in DOMAIN chan'[c] : chan'[c][j] = chan[c][i]
    BY <2>2, <2>4 DEF OnTheWay, ErrorQueued
  <2>5. CASE c = w[2] /\ chan[c][i] = e
    <3>1. PICK s \in B : w[2] = Shared(s)
      BY <2>5, InputNotOutput DEF Behinds
    <3>2. s \in Stages /\ w[1] \in Downs(s)
      BY <3>1, ReaderIsDown, BehindsAreChannels
    <3>3. w[1] \in B /\ Kind[w[1]] = "merge"
      BY <3>2 DEF OnlyMergesBehind
    <3>4. Passes(w)
      BY <3>3 DEF WorkerReceives, Fails, Routes
    <3>5. at'[w] = "send" /\ hold'[w] = e
      BY <1>3, <3>4 DEF Passes, Holds, e
    <3> QED BY <2>2, <2>5, <3>3, <3>5 DEF OnTheWay, ErrorInHand
  <2> QED BY <1>1, <2>3, <2>4, <2>5, TakeKeeps
<1>6. CASE ErrorInHand(B, n)
  <2>1. PICK v \in Workers : v[1] \in B /\ at[v] \in {"send", "fail"} /\ Tells(hold[v], n)
    BY <1>6 DEF ErrorInHand
  <2>2. at'[v] = at[v] /\ hold'[v] = hold[v]
    BY <1>1, <1>2, <2>1 DEF OnlyMoves
  <2> QED BY <2>1, <2>2 DEF OnTheWay, ErrorInHand
<1>7. CASE ErrorCollected(n) \/ ErrorRead(n)
  BY <1>2, <1>7 DEF OnTheWay, ErrorCollected, ErrorRead, OnlyMoves
<1>8. CASE n \in failed' \ failed
  <2>1. Fails(w)
    BY <1>8 DEF WorkerReceives, Passes, Routes, ghostVars
  <2>2. /\ Kind[w[1]] = "map" /\ n = e.n
        /\ at'[w] = "fail" /\ hold'[w] = [e EXCEPT !.error = TRUE]
    BY <1>3, <1>8, <2>1 DEF Fails, e
  <2>3. hold'[w].n = n /\ hold'[w].error
    BY <1>4, <2>2 DEF Live
  <2>4. w[1] \in B
    BY <2>2, WorkerHasStage DEF OnlyMergesBehind
  <2> QED BY <2>2, <2>3, <2>4 DEF OnTheWay, ErrorInHand, Tells
<1> QED BY <1>5, <1>6, <1>7, <1>8 DEF OnTheWay

\* An error in hand goes into the channel of the stage.
LEMMA PutTells ==
    ASSUME NEW B, OnlyMergesBehind(B), Base, NEW w \in Workers, NEW c \in Channels, NEW e,
           chan' = [chan EXCEPT ![c] = Append(@, e)], OnlyMoves(w), received' = received,
           w[1] \in B => c = Shared(w[1]) /\ e = hold[w], NEW n, OnTheWay(B, n)
    PROVE  OnTheWay(B, n)'
<1>1. /\ \E j \in DOMAIN chan'[c] : chan'[c][j] = e
      /\ \A d \in Channels : \A i \in DOMAIN chan[d] : \E j \in DOMAIN chan'[d] : chan'[d][j] = chan[d][i]
  BY PutKeeps DEF Base
<1>2. CASE ErrorQueued(B, n)
  <2>1. Behinds(B) \subseteq Channels
    BY BehindsAreChannels
  <2> QED BY <1>1, <1>2, <2>1 DEF OnTheWay, ErrorQueued
<1>3. CASE ErrorInHand(B, n)
  <2>1. PICK v \in Workers : v[1] \in B /\ at[v] \in {"send", "fail"} /\ Tells(hold[v], n)
    BY <1>3 DEF ErrorInHand
  <2>2. CASE v = w
    BY <1>1, <2>1, <2>2, BehindsAreChannels DEF OnTheWay, ErrorQueued
  <2>3. CASE v # w
    BY <2>1, <2>3 DEF OnTheWay, ErrorInHand, OnlyMoves
  <2> QED BY <2>2, <2>3
<1>4. CASE ErrorCollected(n) \/ ErrorRead(n)
  BY <1>4 DEF OnTheWay, ErrorCollected, ErrorRead, OnlyMoves
<1> QED BY <1>2, <1>3, <1>4 DEF OnTheWay

LEMMA WorkerSendsTells ==
    ASSUME NEW B, OnlyMergesBehind(B), Base, CloseInv', NEW w \in Workers, NEW c, WorkerSends(w, c),
           NEW n, OnTheWay(B, n)
    PROVE  OnTheWay(B, n)'
<1>1. /\ at[w] = "send" /\ c \in todo[w] /\ Send(c, Copy(w, c)) /\ Sent(w, c)
      /\ UNCHANGED collectVars /\ received' = received
  BY DEF WorkerSends, WorkerIdle
<1>2. chan' = [chan EXCEPT ![c] = Append(@, Copy(w, c))]
  BY <1>1, SendIs
<1>3. w[1] \in Stages /\ c \in StageOutputs(w[1]) /\ c \in Channels
  BY <1>1, WorkerHasStage, OutputsAreTagged DEF Base, CloseInv, SendsToOwn
<1>4. OnlyMoves(w)
  BY <1>1, SentBound
<1>5. w[1] \in B => c = Shared(w[1]) /\ Copy(w, c) = hold[w]
  BY <1>3, PlainOutput, BehindsAreChannels DEF Copy
<1> QED BY <1>1, <1>2, <1>3, <1>4, <1>5, PutTells

LEMMA FailSendsTells ==
    ASSUME NEW B, OnlyMergesBehind(B), Base, CloseInv', NEW w \in Workers, FailSends(w),
           NEW n, OnTheWay(B, n)
    PROVE  OnTheWay(B, n)'
<1>1. /\ Send(Shared(w[1]), hold[w]) /\ Stops(w) /\ UNCHANGED collectVars /\ received' = received
  BY DEF FailSends, WorkerIdle
<1>2. chan' = [chan EXCEPT ![Shared(w[1])] = Append(@, hold[w])]
  BY <1>1, SendIs
<1>3. Shared(w[1]) \in Channels
  BY WorkerHasStage, SharedIsOwn, OutputsAreTagged
<1>4. OnlyMoves(w)
  BY <1>1, StopsBound
<1> QED BY <1>1, <1>2, <1>3, <1>4, PutTells

LEMMA CollectTakesTells ==
    ASSUME NEW B, OnlyMergesBehind(B), Base, NEW l \in Leaves, CollectTakes(l), NEW n, OnTheWay(B, n)
    PROVE  OnTheWay(B, n)'
<1> DEFINE e == Head(chan[Shared(l)])
<1>1. /\ collecting[l] = "recv" /\ Takes(Shared(l)) /\ UNCHANGED <<at, hold, received>>
      /\ Shared(l) \in Channels /\ ChannelsOK
  BY LeafIsChannel DEF CollectTakes, CollectIdle, workerVars, Base
<1>2. /\ collecting'[l] = "send" /\ taken'[l] = e
      /\ \A k \in Leaves \ {l} : collecting'[k] = collecting[k] /\ taken'[k] = taken[k]
  BY DEF CollectTakes, Base, CloseInv, ControlsOK, HandsOK
<1> HIDE DEF e
<1>3. CASE ErrorQueued(B, n)
  <2>1. PICK c \in Behinds(B) : \E i \in DOMAIN chan[c] : Tells(chan[c][i], n)
    BY <1>3 DEF ErrorQueued
  <2>2. PICK i \in DOMAIN chan[c] : Tells(chan[c][i], n)
    BY <2>1
  <2>3. c \in Channels
    BY BehindsAreChannels
  <2>4. CASE \E j \in DOMAIN chan'[c] : chan'[c][j] = chan[c][i]
    BY <2>2, <2>4 DEF OnTheWay, ErrorQueued
  <2>5. CASE chan[c][i] = e
    BY <1>2, <2>2, <2>5 DEF OnTheWay, ErrorCollected
  <2> QED BY <1>1, <2>3, <2>4, <2>5, TakeKeeps DEF e
<1>4. CASE ErrorInHand(B, n) \/ ErrorRead(n)
  BY <1>1, <1>4 DEF OnTheWay, ErrorInHand, ErrorRead
<1>5. CASE ErrorCollected(n)
  BY <1>1, <1>2, <1>5 DEF OnTheWay, ErrorCollected
<1> QED BY <1>3, <1>4, <1>5 DEF OnTheWay

LEMMA CollectSendsTells ==
    ASSUME NEW B, OnlyMergesBehind(B), Base, CloseInv', NEW l \in Leaves, CollectSends(l),
           NEW n, OnTheWay(B, n)
    PROVE  OnTheWay(B, n)'
<1>1. collecting[l] = "send" /\ Send(Output, taken[l]) /\ UNCHANGED <<at, hold, received>> /\ ChannelsOK
  BY DEF CollectSends, CollectIdle, workerVars, Base
<1>2. \A k \in Leaves \ {l} : collecting'[k] = collecting[k] /\ taken'[k] = taken[k]
  BY DEF CollectSends, Base, CloseInv, ControlsOK, HandsOK
<1>3. chan' = [chan EXCEPT ![Output] = Append(@, taken[l])] /\ Output \in Channels
  BY <1>1, SendIs DEF Channels
<1>4. /\ \E j \in DOMAIN chan'[Output] : chan'[Output][j] = taken[l]
      /\ \A d \in Channels : \A i \in DOMAIN chan[d] : \E j \in DOMAIN chan'[d] : chan'[d][j] = chan[d][i]
  BY <1>1, <1>3, PutKeeps
<1>5. Behinds(B) \subseteq Channels /\ Output \in Behinds(B)
  BY BehindsAreChannels
<1>6. CASE ErrorQueued(B, n)
  BY <1>4, <1>5, <1>6 DEF OnTheWay, ErrorQueued
<1>7. CASE ErrorInHand(B, n) \/ ErrorRead(n)
  BY <1>1, <1>7 DEF OnTheWay, ErrorInHand, ErrorRead
<1>8. CASE ErrorCollected(n)
  <2>1. PICK k \in Leaves : collecting[k] = "send" /\ Tells(taken[k], n)
    BY <1>8 DEF ErrorCollected
  <2>2. CASE k = l
    BY <1>4, <1>5, <2>1, <2>2 DEF OnTheWay, ErrorQueued
  <2>3. CASE k # l
    BY <1>2, <2>1, <2>3 DEF OnTheWay, ErrorCollected
  <2> QED BY <2>2, <2>3
<1> QED BY <1>6, <1>7, <1>8 DEF OnTheWay

LEMMA ReadsTells ==
    ASSUME NEW B, OnlyMergesBehind(B), Base, Reads, NEW n, OnTheWay(B, n)
    PROVE  OnTheWay(B, n)'
<1> DEFINE e == Head(chan[Output])
<1>1. /\ Output \in Channels /\ Takes(Output) /\ received' = Append(received, e)
      /\ UNCHANGED <<at, hold, taken, collecting>> /\ ChannelsOK
  BY DEF Reads, workerVars, collectVars, Channels, Base
<1>2. e \in Live /\ received \in Seq(Live)
  BY <1>1, TakesIs DEF ChannelsOK
<1> HIDE DEF e
<1>3. /\ \E j \in DOMAIN received' : received'[j] = e
      /\ \A i \in DOMAIN received : i \in DOMAIN received' /\ received'[i] = received[i]
  <2>1. Len(received) + 1 \in DOMAIN Append(received, e) /\ Append(received, e)[Len(received) + 1] = e
    BY <1>2
  <2>2. \A i \in DOMAIN received : i \in DOMAIN Append(received, e) /\ Append(received, e)[i] = received[i]
    BY <1>2
  <2> QED BY <1>1, <2>1, <2>2
<1>4. CASE ErrorQueued(B, n)
  <2>1. PICK c \in Behinds(B) : \E i \in DOMAIN chan[c] : Tells(chan[c][i], n)
    BY <1>4 DEF ErrorQueued
  <2>2. PICK i \in DOMAIN chan[c] : Tells(chan[c][i], n)
    BY <2>1
  <2>3. c \in Channels
    BY BehindsAreChannels
  <2>4. CASE \E j \in DOMAIN chan'[c] : chan'[c][j] = chan[c][i]
    BY <2>2, <2>4 DEF OnTheWay, ErrorQueued
  <2>5. CASE chan[c][i] = e
    BY <1>3, <2>2, <2>5 DEF OnTheWay, ErrorRead
  <2> QED BY <1>1, <2>3, <2>4, <2>5, TakeKeeps DEF e
<1>5. CASE ErrorInHand(B, n) \/ ErrorCollected(n)
  BY <1>1, <1>5 DEF OnTheWay, ErrorInHand, ErrorCollected
<1>6. CASE ErrorRead(n)
  BY <1>3, <1>6 DEF OnTheWay, ErrorRead
<1> QED BY <1>4, <1>5, <1>6 DEF OnTheWay

LEMMA QuietTells ==
    ASSUME NEW B, UNCHANGED <<chan, hold, taken, received>>,
           \A w \in Workers : at'[w] = at[w] \/ at[w] = "recv",
           \A l \in Leaves : collecting'[l] = collecting[l] \/ collecting[l] = "recv",
           NEW n, OnTheWay(B, n)
    PROVE  OnTheWay(B, n)'
BY DEF OnTheWay, ErrorQueued, ErrorInHand, ErrorCollected, ErrorRead

LEMMA InitToldInv ==
    ASSUME NEW B
    PROVE  Init => ToldInv(B)
BY DEF Init, ToldInv, ReadersDrain, EndsLast, MapsFail

LEMMA NextToldInv ==
    ASSUME NEW B, OnlyMergesBehind(B)
    PROVE  ElementInv /\ ToldInv(B) /\ [Next]_vars => ToldInv(B)'
<1> SUFFICES ASSUME ElementInv, ToldInv(B), [Next]_vars PROVE ToldInv(B)'
  OBVIOUS
<1>1. ReadersDrain' /\ EndsLast' /\ MapsFail'
  BY ReadersDrainKept, EndsLastKept, MapsFailKept DEF ToldInv
<1>2. Base /\ IdleOK /\ CloseInv'
  BY NextElementInv DEF ElementInv, Base
<1>3. ASSUME ~cancelled', NEW n \in failed' PROVE OnTheWay(B, n)'
  <2>1. CASE Execute
    BY <1>3, <2>1 DEF Execute, ToldInv, EndsLast
  <2>2. CASE ~Execute
    <3>1. ~cancelled /\ ~Cancel
      BY <1>3, <2>2 DEF Next, Runs, vars, ExecuteStarts, Reads, Cancel, ExecuteEnds, WorkerStep, WorkerReceives,
            InputEnds, FailSends, WorkerSends, SendCancelled, StageReturns, CollectStep, CollectTakes,
            CollectSends, CollectEnds, OutputCloses, CollectIdle, WorkerIdle, Shutdown, ShutdownReturns,
            ExecutionIdle
    <3>2. \A m \in failed : OnTheWay(B, m)
      BY <3>1 DEF ToldInv
    <3>3. CASE \E w \in Workers : WorkerReceives(w)
      BY <1>2, <1>3, <3>2, <3>3, ReceiveTells
    <3>4. CASE ~(\E w \in Workers : WorkerReceives(w))
      <4>1. n \in failed
        BY <1>3, <2>2, <3>4 DEF Next, Runs, vars, ExecuteStarts, Reads, Cancel, ExecuteEnds, WorkerStep,
              InputEnds, FailSends, WorkerSends, SendCancelled, StageReturns, CollectStep, CollectTakes,
              CollectSends, CollectEnds, OutputCloses, CollectIdle, Shutdown, ShutdownReturns,
              ExecutionIdle, ghostVars
      <4>2. OnTheWay(B, n)
        BY <3>2, <4>1
      <4>3. CASE Reads
        BY <1>2, <4>2, <4>3, ReadsTells
      <4>4. ASSUME NEW w \in Workers, WorkerStep(w) PROVE OnTheWay(B, n)'
        <5>1. CASE InputEnds(w)
          <6>1. UNCHANGED <<chan, hold, taken, received, collecting>>
            BY <5>1 DEF InputEnds, WorkerIdle, collectVars
          <6>2. \A v \in Workers : at'[v] = at[v] \/ at[v] = "recv"
            BY <1>2, <5>1 DEF InputEnds, Base, CloseInv, ControlsOK
          <6> QED BY <4>2, <6>1, <6>2, QuietTells
        <5>2. \A c \in Channels : ~SendCancelled(w, c)
          BY <3>1 DEF SendCancelled
        <5> QED BY <1>2, <3>4, <4>2, <4>4, <5>1, <5>2, WorkerSendsTells, FailSendsTells DEF WorkerStep
      <4>5. ASSUME NEW l \in Leaves, CollectStep(l) PROVE OnTheWay(B, n)'
        <5>1. CASE CollectEnds(l)
          <6>1. UNCHANGED <<chan, hold, taken, received, at>>
            BY <5>1 DEF CollectEnds, CollectIdle, workerVars
          <6>2. \A k \in Leaves : collecting'[k] = collecting[k] \/ collecting[k] = "recv"
            BY <1>2, <5>1 DEF CollectEnds, Base, CloseInv, ControlsOK
          <6> QED BY <4>2, <6>1, <6>2, QuietTells
        <5> QED BY <1>2, <4>2, <4>5, <5>1, CollectTakesTells, CollectSendsTells DEF CollectStep
      <4>6. CASE \/ ExecuteStarts \/ ExecuteEnds \/ OutputCloses \/ UNCHANGED vars
                 \/ \E s \in Stages : StageReturns(s)
                 \/ \E k \in Closers : Shutdown(k) \/ ShutdownReturns(k)
        <5>1. UNCHANGED <<chan, hold, taken, received, at, collecting>>
          BY <4>6 DEF ExecuteStarts, ExecuteEnds, OutputCloses, StageReturns, Shutdown, ShutdownReturns,
                      ExecutionIdle, CollectIdle, WorkerIdle, workerVars, collectVars, vars
        <5> QED BY <4>2, <5>1, QuietTells
      <4> QED BY <2>2, <3>1, <4>3, <4>4, <4>5, <4>6 DEF Next, Runs
    <3> QED BY <3>3, <3>4
  <2> QED BY <2>1, <2>2
<1> QED BY <1>1, <1>3 DEF ToldInv

\* When all are over and have drained their channels, it was read.
LEMMA FailuresTold ==
    ASSUME NEW B, OnlyMergesBehind(B), ElementInv, ToldInv(B)
    PROVE  FailuresAreTold
<1> SUFFICES ASSUME exec = "done", ~cancelled, chan[Output] = <<>>, NEW n \in failed PROVE ErrorRead(n)
  BY DEF FailuresAreTold, ErrorRead, Tells
<1>1. returned = Stages /\ Output \in closed /\ CloseInv /\ OnTheWay(B, n)
  BY DEF ToldInv, EndsLast, ElementInv, Base
<1>2. \A w \in Workers : at[w] = "done"
  BY <1>1, WorkerHasStage DEF CloseInv, ReturnedAreDone, AllWorkersDone
<1>3. \A l \in Leaves : collecting[l] = "done"
  BY <1>1 DEF CloseInv, OutputClosedLast
<1>4. ~ErrorInHand(B, n) /\ ~ErrorCollected(n)
  BY <1>2, <1>3 DEF ErrorInHand, ErrorCollected
<1>5. ASSUME NEW s \in B PROVE chan[Shared(s)] = <<>>
  <2>1. s \in Stages /\ Kind[s] # "router"
    BY BehindsAreChannels
  <2>2. CASE s \in Leaves
    BY <1>3, <2>2 DEF ToldInv, ReadersDrain, Drained
  <2>3. CASE s \notin Leaves
    <3>1. PICK d \in Downs(s) : TRUE
      BY <2>1, <2>3 DEF Leaves
    <3>2. d \in Stages /\ Kind[d] = "merge" /\ s \in Ups(d)
      BY <2>1 DEF OnlyMergesBehind, Downs, Ups
    <3>3. Shared(s) \in StageInputs(d)
      BY <2>1, <3>2 DEF StageInputs, UpstreamChannel
    <3>4. <<d, Shared(s)>> \in Workers
      BY <3>2, <3>3 DEF Workers
    <3>5. Drained(<<d, Shared(s)>>[2])
      BY <1>2, <3>2, <3>4 DEF ToldInv, ReadersDrain
    <3> QED BY <3>5 DEF Drained
  <2> QED BY <2>2, <2>3
<1>6. ~ErrorQueued(B, n)
  BY <1>5 DEF ErrorQueued, Behinds
<1> QED BY <1>1, <1>4, <1>6 DEF OnTheWay

(* A failed element is told to a caller that reads an uncancelled execution *)
(* to its end, on every graph in which only merges are behind a stage that  *)
(* can fail: a router may drop it, and a second MapStage that fails leaves  *)
(* what it has not read (stage.go MapStage, stages_advanced.go).            *)
THEOREM FailuresReachTheCaller ==
    ASSUME NEW B, OnlyMergesBehind(B)
    PROVE  Spec => []FailuresAreTold
<1>1. Init => ElementInv /\ ToldInv(B)
  BY InitElementInv, InitToldInv
<1>2. ElementInv /\ ToldInv(B) /\ [Next]_vars => (ElementInv /\ ToldInv(B))'
  BY NextElementInv, NextToldInv
<1>3. ElementInv /\ ToldInv(B) => FailuresAreTold
  BY FailuresTold
<1> QED BY <1>1, <1>2, <1>3, PTL DEF Spec

(* Every element is accounted for on the graphs that meet both conditions:  *)
(* nothing is lost on the way, tracks keep their order, a failure is told.  *)
THEOREM EveryElementAccounted ==
    ASSUME NEW way, OneWay(way), NEW B, OnlyMergesBehind(B)
    PROVE  Spec => []ElementsAccounted
<1>1. Spec => []TypeOK
  BY TypeIsCorrect
<1>2. Spec => []NothingLost
  BY NothingIsLost
<1>3. Spec => []TracksKeepOrder
  BY TracksStayInOrder
<1>4. Spec => []FailuresAreTold
  BY FailuresReachTheCaller
<1>5. TypeOK /\ NothingLost /\ TracksKeepOrder /\ FailuresAreTold => ElementsAccounted
  BY DEF ElementsAccounted
<1> QED BY <1>1, <1>2, <1>3, <1>4, <1>5, PTL
=============================================================================
