------------------------ MODULE ProviderStreamProofs ------------------------
(***************************************************************************)
(* Proofs about the two ways a provider streams: StreamBackpressure, for   *)
(* any finite set of requests and any limit, burst, retry policy and       *)
(* buffer size, and VoiceSession, for any number of utterances, responses  *)
(* and deltas and any size of its channels.                                *)
(***************************************************************************)
EXTENDS StreamBackpressure, VoiceSession, FiniteSetTheorems, SequenceTheorems, TLAPS

LEMMA CurrentInStreams ==
    ASSUME TypeOK, NEW r \in Reqs
    PROVE  Current(r) \in Streams
BY DEF TypeOK, Current, Streams

LEMMA StreamIsPair ==
    ASSUME NEW s \in Streams
    PROVE  s[1] \in Reqs /\ s[2] \in {1, 2} /\ s = <<s[1], s[2]>>
BY DEF Streams

LEMMA OpenFailsType ==
    ASSUME TypeOK, NEW r \in Reqs, OpenFails(r)
    PROVE  /\ pc' \in [Reqs -> {"idle", "acquire", "attempt", "do", "peek",
                                "budget", "backoff", "open", "failed"}]
           /\ relay' \in [Reqs -> {"none", "forward", "midstream", "reset",
                                   "opening", "refused", "closing", "done"}]
           /\ inUse' \in Int
<1>1. pc' \in [Reqs -> {"idle", "acquire", "attempt", "do", "peek",
                        "budget", "backoff", "open", "failed"}]
    BY DEF OpenFails, TypeOK
<1>2. relay' \in [Reqs -> {"none", "forward", "midstream", "reset",
                           "opening", "refused", "closing", "done"}]
    BY DEF OpenFails, TypeOK
<1>3. inUse' \in Int
    BY DEF OpenFails, ReleaseStreamSlot, TypeOK
<1> QED BY <1>1, <1>2, <1>3

LEMMA TypeInit == Init => TypeOK
BY ConstantsAssumption DEF Init, TypeOK, Streams, Chunks

LEMMA TypeNext == TypeOK /\ [Next]_vars => TypeOK'
<1> SUFFICES ASSUME TypeOK, [Next]_vars PROVE TypeOK'
    OBVIOUS
<1> USE DEF openVars, budgetVars, streamVars, relayVars, callerVars
<1>1. CASE UNCHANGED vars
    BY <1>1 DEF vars, TypeOK
<1>2. CASE Refill
    BY <1>2 DEF Refill, TypeOK
<1>3. ASSUME NEW r \in Reqs, Call(r) PROVE TypeOK'
    BY <1>3 DEF Call, TypeOK
<1>4. ASSUME NEW r \in Reqs, CancelContext(r) PROVE TypeOK'
    BY <1>4 DEF CancelContext, TypeOK
<1>5. ASSUME NEW r \in Reqs, AcquireStreamSlot(r) PROVE TypeOK'
    BY <1>5 DEF AcquireStreamSlot, TakeSlot, TypeOK
<1>6. ASSUME NEW r \in Reqs, LoopStep(r) PROVE TypeOK'
  <2>1. CASE AcquireRejected(r)
    BY <2>1 DEF AcquireRejected, TypeOK
  <2>2. CASE AttemptAborted(r)
    BY <2>2, OpenFailsType DEF AttemptAborted, TypeOK
  <2>3. CASE Dial(r)
    BY <2>3, CurrentInStreams DEF Dial, TypeOK
  <2>4. CASE PeekIdleFires(r)
    BY <2>4 DEF PeekIdleFires, TypeOK
  <2>5. CASE RetryGranted(r)
    BY <2>5 DEF RetryGranted, TryAcquire, TypeOK
  <2>6. CASE RetryDenied(r)
    BY <2>6, OpenFailsType DEF RetryDenied, TypeOK
  <2>7. CASE BackoffElapsed(r)
    BY <2>7 DEF BackoffElapsed, TypeOK
  <2>8. CASE BackoffCancelled(r)
    BY <2>8, OpenFailsType DEF BackoffCancelled, TypeOK
  <2> QED BY <1>6, <2>1, <2>2, <2>3, <2>4, <2>5, <2>6, <2>7, <2>8 DEF LoopStep
<1>7. ASSUME NEW r \in Reqs, NEW t \in BOOLEAN, AttemptFails(r, t) PROVE TypeOK'
  <2>1. CASE OpenFails(r)
    BY <1>7, <2>1, OpenFailsType, CurrentInStreams DEF AttemptFails, TypeOK
  <2>2. CASE pc' = [pc EXCEPT ![r] = "budget"] /\ UNCHANGED <<inUse, relay>>
    BY <1>7, <2>2, CurrentInStreams DEF AttemptFails, TypeOK
  <2> QED BY <1>7, <2>1, <2>2 DEF AttemptFails
<1>8. ASSUME NEW r \in Reqs, DialStep(r) PROVE TypeOK'
  <2>1. CASE ResponseOK(r)
    BY <2>1, CurrentInStreams DEF ResponseOK, TypeOK
  <2>2. CASE ResponseFails(r)
    BY <2>2, <1>7 DEF ResponseFails
  <2> QED BY <1>8, <2>1, <2>2 DEF DialStep
<1>9. ASSUME NEW r \in Reqs, PeekStep(r) PROVE TypeOK'
  <2>1. CASE PeekOK(r)
    BY <2>1, CurrentInStreams DEF PeekOK, OpenSucceeds, TypeOK
  <2>2. CASE PeekFails(r)
    BY <2>2, <1>7 DEF PeekFails
  <2> QED BY <1>9, <2>1, <2>2 DEF PeekStep
<1>10. ASSUME NEW r \in Reqs, RelayStep(r) PROVE TypeOK'
  <2>1. CASE ForwardChunk(r)
    <3> DEFINE s == Current(r)
    <3>1. s \in Streams /\ inner[s] \in Seq(Chunks) /\ inner[s] # << >>
      BY <2>1, CurrentInStreams DEF ForwardChunk, TypeOK
    <3>2. Head(inner[s]) \in Chunks /\ Tail(inner[s]) \in Seq(Chunks)
      BY <3>1
    <3>3. sent' \in [Reqs -> Seq(Chunks)]
      BY <2>1, <3>2 DEF ForwardChunk, TypeOK
    <3>4. inner' \in [Streams -> Seq(Chunks)]
      BY <2>1, <3>1, <3>2 DEF ForwardChunk, TypeOK
    <3>5. content' \in [Reqs -> BOOLEAN]
      BY <2>1 DEF ForwardChunk, TypeOK
    <3>6. relay' \in [Reqs -> {"none", "forward", "midstream", "reset",
                               "opening", "refused", "closing", "done"}]
      BY <2>1 DEF ForwardChunk, TypeOK
    <3> QED BY <2>1, <3>3, <3>4, <3>5, <3>6 DEF ForwardChunk, TypeOK
  <2>2. CASE SourceClosed(r)
    BY <2>2 DEF SourceClosed, TypeOK
  <2>3. CASE MidStreamGranted(r)
    BY <2>3 DEF MidStreamGranted, TryAcquire, TypeOK
  <2>4. CASE MidStreamDenied(r)
    BY <2>4 DEF MidStreamDenied, TypeOK
  <2>5. CASE EmitReset(r)
    BY <2>5 DEF EmitReset, TypeOK, Chunks
  <2>6. CASE EmitRetryError(r)
    BY <2>6 DEF EmitRetryError, TypeOK, Chunks
  <2>7. CASE CloseOut(r)
    BY <2>7 DEF CloseOut, TypeOK
  <2> QED BY <1>10, <2>1, <2>2, <2>3, <2>4, <2>5, <2>6, <2>7 DEF RelayStep
<1>11. ASSUME NEW r \in Reqs, CallerStep(r) PROVE TypeOK'
  <2>1. CASE CallerReceives(r)
    BY <2>1 DEF CallerReceives, TypeOK
  <2>2. CASE CallerStops(r)
    BY <2>2 DEF CallerStops, TypeOK
  <2>3. CASE CallerSeesEOF(r)
    BY <2>3 DEF CallerSeesEOF, TypeOK
  <2> QED BY <1>11, <2>1, <2>2, <2>3 DEF CallerStep
<1>12. ASSUME NEW s \in Streams, ConsumerStep(s) PROVE TypeOK'
  <2>1. CASE ConsumerReads(s)
    BY <2>1 DEF ConsumerReads, ConsumerParses, TypeOK, Chunks
  <2>u. CASE ConsumerUsage(s)
    BY <2>u DEF ConsumerUsage, ConsumerParses, TypeOK, Chunks
  <2>2. CASE ConsumerFinishes(s)
    BY <2>2 DEF ConsumerFinishes, ConsumerParses, TypeOK, Chunks
  <2>3. CASE ConsumerErrors(s)
    BY <2>3 DEF ConsumerErrors, ConsumerParses, TypeOK, Chunks
  <2>4. CASE ConsumerEOF(s)
    BY <2>4 DEF ConsumerEOF, TypeOK
  <2>5. CASE ConsumerSends(s)
    BY <2>5 DEF ConsumerSends, TypeOK
  <2>6. CASE ContextClosesBody(s)
    BY <2>6 DEF ContextClosesBody, TypeOK
  <2>7. CASE ConsumerCloses(s)
    BY <2>7 DEF ConsumerCloses, TypeOK
  <2>8. CASE ConsumerEnds(s)
    <3>1. inUse' \in Int
      BY <2>8 DEF ConsumerEnds, ReleaseStreamSlot, TypeOK
    <3> QED BY <2>8, <3>1 DEF ConsumerEnds, TypeOK
  <2> QED BY <1>12, <2>1, <2>u, <2>2, <2>3, <2>4, <2>5, <2>6, <2>7, <2>8 DEF ConsumerStep
<1> QED BY <1>1, <1>2, <1>3, <1>4, <1>5, <1>6, <1>8, <1>9, <1>10, <1>11, <1>12
        DEF Next, OpenStep

(***************************************************************************)
(* Type correctness of the streaming request path.                         *)
(***************************************************************************)
THEOREM TypeCorrect == Spec => []TypeOK
<1>1. TypeOK /\ [Next]_vars => TypeOK'
    BY TypeNext
<1> QED BY TypeInit, <1>1, PTL DEF Spec

-----------------------------------------------------------------------------
(***************************************************************************)
(* Where a request's goroutines can be.  The open loop of                  *)
(* RunStreamingRequest runs before any consumer or relay exists, the relay *)
(* forwards only when the loop has ended in success, and a request that    *)
(* has not yet been admitted has dialed nothing.                           *)
(***************************************************************************)
Control(r) ==
    /\ pc[r] \in {"idle", "acquire"} => phase[r] = 1 /\ attempt[r] = 0
    /\ phase[r] = 1 /\ pc[r] # "open" =>
           consumer[<<r, 1>>] = "none" /\ relay[r] = "none"
    /\ relay[r] \in {"forward", "midstream", "reset"} => pc[r] = "open"

ControlInv == \A r \in Reqs : Control(r)

LEMMA ControlInit == Init => ControlInv
BY DEF Init, ControlInv, Control, Streams

(* What ending the open loop in an error does to the control state. *)
LEMMA OpenFailsControl ==
    ASSUME TypeOK, NEW r \in Reqs, OpenFails(r), Opening(r),
           UNCHANGED <<phase, attempt, consumer>>,
           NEW q \in Reqs, Control(q)
    PROVE  Control(q)'
BY DEF OpenFails, Opening, TypeOK, Control

LEMMA ControlNext == TypeOK /\ ControlInv /\ [Next]_vars => ControlInv'
<1> SUFFICES ASSUME TypeOK, [Next]_vars, NEW q \in Reqs, Control(q)
             PROVE  Control(q)'
    BY DEF ControlInv
<1> USE DEF openVars, budgetVars, streamVars, relayVars, callerVars
<1>1. CASE UNCHANGED vars
    BY <1>1 DEF vars, Control
<1>2. CASE Refill
    BY <1>2 DEF Refill, Control
<1>3. ASSUME NEW r \in Reqs, Call(r) PROVE Control(q)'
    BY <1>3 DEF Call, TypeOK, Control
<1>4. ASSUME NEW r \in Reqs, CancelContext(r) PROVE Control(q)'
    BY <1>4 DEF CancelContext, Control
<1>5. ASSUME NEW r \in Reqs, AcquireStreamSlot(r) PROVE Control(q)'
    BY <1>5 DEF AcquireStreamSlot, TypeOK, Control
<1>6. ASSUME NEW r \in Reqs, LoopStep(r) PROVE Control(q)'
  <2>1. CASE AcquireRejected(r)
    BY <2>1 DEF AcquireRejected, TypeOK, Control
  <2>2. CASE AttemptAborted(r)
    BY <2>2, OpenFailsControl DEF AttemptAborted, Opening
  <2>3. CASE Dial(r)
    BY <2>3 DEF Dial, TypeOK, Control
  <2>4. CASE PeekIdleFires(r)
    BY <2>4 DEF PeekIdleFires, Control
  <2>5. CASE RetryGranted(r)
    BY <2>5 DEF RetryGranted, TypeOK, Control
  <2>6. CASE RetryDenied(r)
    BY <2>6, OpenFailsControl DEF RetryDenied, Opening
  <2>7. CASE BackoffElapsed(r)
    BY <2>7 DEF BackoffElapsed, TypeOK, Control
  <2>8. CASE BackoffCancelled(r)
    BY <2>8, OpenFailsControl DEF BackoffCancelled, Opening
  <2> QED BY <1>6, <2>1, <2>2, <2>3, <2>4, <2>5, <2>6, <2>7, <2>8 DEF LoopStep
<1>7. ASSUME NEW r \in Reqs, NEW t \in BOOLEAN, AttemptFails(r, t),
             pc[r] \in {"do", "peek"}
      PROVE Control(q)'
  <2>1. CASE OpenFails(r)
    BY <1>7, <2>1, OpenFailsControl DEF AttemptFails, Opening
  <2>2. CASE pc' = [pc EXCEPT ![r] = "budget"] /\ UNCHANGED <<inUse, relay>>
    BY <1>7, <2>2 DEF AttemptFails, TypeOK, Control
  <2> QED BY <1>7, <2>1, <2>2 DEF AttemptFails
<1>8. ASSUME NEW r \in Reqs, DialStep(r) PROVE Control(q)'
  <2>1. CASE ResponseOK(r)
    BY <2>1 DEF ResponseOK, TypeOK, Control
  <2>2. CASE ResponseFails(r)
    BY <2>2, <1>7 DEF ResponseFails
  <2> QED BY <1>8, <2>1, <2>2 DEF DialStep
<1>9. ASSUME NEW r \in Reqs, PeekStep(r) PROVE Control(q)'
  <2>1. CASE PeekOK(r)
    BY <2>1 DEF PeekOK, OpenSucceeds, Current, Streams, TypeOK, Control
  <2>2. CASE PeekFails(r)
    BY <2>2, <1>7 DEF PeekFails
  <2> QED BY <1>9, <2>1, <2>2 DEF PeekStep
<1>10. ASSUME NEW r \in Reqs, RelayStep(r) PROVE Control(q)'
  <2>1. CASE ForwardChunk(r)
    BY <2>1 DEF ForwardChunk, TypeOK, Control
  <2>2. CASE SourceClosed(r)
    BY <2>2 DEF SourceClosed, TypeOK, Control
  <2>3. CASE MidStreamGranted(r)
    BY <2>3 DEF MidStreamGranted, TypeOK, Control
  <2>4. CASE MidStreamDenied(r)
    BY <2>4 DEF MidStreamDenied, TypeOK, Control
  <2>5. CASE EmitReset(r)
    BY <2>5 DEF EmitReset, TypeOK, Control
  <2>6. CASE EmitRetryError(r)
    BY <2>6 DEF EmitRetryError, TypeOK, Control
  <2>7. CASE CloseOut(r)
    BY <2>7 DEF CloseOut, TypeOK, Control
  <2> QED BY <1>10, <2>1, <2>2, <2>3, <2>4, <2>5, <2>6, <2>7 DEF RelayStep
<1>11. ASSUME NEW r \in Reqs, CallerStep(r) PROVE Control(q)'
    BY <1>11 DEF CallerStep, CallerReceives, CallerStops, CallerSeesEOF, Control
<1>12. ASSUME NEW s \in Streams, ConsumerStep(s) PROVE Control(q)'
  <2> USE DEF Control, TypeOK, Streams
  <2>1. CASE ConsumerReads(s)
    BY <2>1 DEF ConsumerReads, ConsumerParses
  <2>u. CASE ConsumerUsage(s)
    BY <2>u DEF ConsumerUsage, ConsumerParses
  <2>2. CASE ConsumerFinishes(s)
    BY <2>2 DEF ConsumerFinishes, ConsumerParses
  <2>3. CASE ConsumerErrors(s)
    BY <2>3 DEF ConsumerErrors, ConsumerParses
  <2>4. CASE ConsumerEOF(s)
    BY <2>4 DEF ConsumerEOF
  <2>5. CASE ConsumerSends(s)
    BY <2>5 DEF ConsumerSends
  <2>6. CASE ContextClosesBody(s)
    BY <2>6 DEF ContextClosesBody
  <2>7. CASE ConsumerCloses(s)
    BY <2>7 DEF ConsumerCloses
  <2>8. CASE ConsumerEnds(s)
    BY <2>8 DEF ConsumerEnds
  <2> QED BY <1>12, <2>1, <2>u, <2>2, <2>3, <2>4, <2>5, <2>6, <2>7, <2>8 DEF ConsumerStep
<1> QED BY <1>1, <1>2, <1>3, <1>4, <1>5, <1>6, <1>8, <1>9, <1>10, <1>11, <1>12
        DEF Next, OpenStep

-----------------------------------------------------------------------------
(***************************************************************************)
(* The slots.  Each step leaves the set of owners alone, or adds one owner *)
(* and takes a slot that was available, or removes one owner and releases  *)
(* its slot.                                                               *)
(***************************************************************************)
SlotInv == Limit > 0 => inUse = Cardinality(Holders) /\ inUse <= Limit

LEMMA HoldersFinite == IsFiniteSet(Holders) /\ IsFiniteSet(Holders')
BY ConstantsAssumption, FS_Subset DEF Holders

LEMMA SlotKept ==
    ASSUME SlotInv, UNCHANGED inUse,
           \A q \in Reqs : HoldsSlot(q)' <=> HoldsSlot(q)
    PROVE  SlotInv'
<1>1. Holders' = Holders
    BY DEF Holders
<1> QED BY <1>1 DEF SlotInv

LEMMA SlotTaken ==
    ASSUME TypeOK, SlotInv, SlotAvailable, TakeSlot,
           NEW r \in Reqs, ~HoldsSlot(r), HoldsSlot(r)',
           \A q \in Reqs \ {r} : HoldsSlot(q)' <=> HoldsSlot(q)
    PROVE  SlotInv'
<1>1. Holders' = Holders \cup {r} /\ r \notin Holders
    BY DEF Holders
<1>2. Cardinality(Holders') = Cardinality(Holders) + 1
    BY <1>1, HoldersFinite, FS_AddElement
<1> QED BY <1>2, ConstantsAssumption DEF SlotInv, SlotAvailable, TakeSlot, TypeOK

LEMMA SlotReleased ==
    ASSUME TypeOK, SlotInv, ReleaseStreamSlot,
           NEW r \in Reqs, HoldsSlot(r), ~HoldsSlot(r)',
           \A q \in Reqs \ {r} : HoldsSlot(q)' <=> HoldsSlot(q)
    PROVE  SlotInv'
<1>1. Holders' = Holders \ {r} /\ r \in Holders
    BY DEF Holders
<1>2. Cardinality(Holders') = Cardinality(Holders) - 1
    BY <1>1, HoldersFinite, FS_RemoveElement
<1> QED BY <1>2, ConstantsAssumption DEF SlotInv, ReleaseStreamSlot, TypeOK

LEMMA OpenFailsSlot ==
    ASSUME TypeOK, ControlInv, SlotInv, NEW r \in Reqs, OpenFails(r), Opening(r),
           UNCHANGED <<phase, consumer>>
    PROVE  SlotInv'
<1> USE DEF HoldsSlot, Opening, ConsumerOwnsSlot
<1>1. Control(r)
    BY DEF ControlInv
<1>2. \A q \in Reqs \ {r} : HoldsSlot(q)' <=> HoldsSlot(q)
    BY DEF OpenFails, TypeOK
<1>3. CASE phase[r] = 1
  <2>1. HoldsSlot(r) /\ ~HoldsSlot(r)' /\ ReleaseStreamSlot
    BY <1>1, <1>3 DEF OpenFails, TypeOK, Control
  <2> QED BY <1>2, <2>1, SlotReleased
<1>4. CASE phase[r] = 2
  <2>1. (HoldsSlot(r)' <=> HoldsSlot(r)) /\ UNCHANGED inUse
    BY <1>4 DEF OpenFails, TypeOK
  <2> QED BY <1>2, <2>1, SlotKept
<1> QED BY <1>3, <1>4 DEF TypeOK

LEMMA SlotInit == Init => SlotInv
<1> SUFFICES ASSUME Init PROVE SlotInv
    OBVIOUS
<1>1. Holders = {}
    BY DEF Init, Holders, HoldsSlot, Opening, ConsumerOwnsSlot, Streams
<1> QED BY <1>1, FS_EmptySet, ConstantsAssumption DEF SlotInv, Init

LEMMA SlotNext == TypeOK /\ ControlInv /\ SlotInv /\ [Next]_vars => SlotInv'
<1> SUFFICES ASSUME TypeOK, ControlInv, SlotInv, [Next]_vars PROVE SlotInv'
    OBVIOUS
<1>a. \A q \in Reqs : Control(q)
    BY DEF ControlInv
<1> USE DEF openVars, budgetVars, streamVars, relayVars, callerVars,
            HoldsSlot, Opening, ConsumerOwnsSlot
<1>1. CASE UNCHANGED vars
    BY <1>1, SlotKept DEF vars
<1>2. CASE Refill
    BY <1>2, SlotKept DEF Refill
<1>3. ASSUME NEW r \in Reqs, Call(r) PROVE SlotInv'
  <2>1. \A q \in Reqs : HoldsSlot(q)' <=> HoldsSlot(q)
    BY <1>3 DEF Call, TypeOK
  <2> QED BY <1>3, <2>1, SlotKept DEF Call
<1>4. ASSUME NEW r \in Reqs, CancelContext(r) PROVE SlotInv'
    BY <1>4, SlotKept DEF CancelContext
<1>5. ASSUME NEW r \in Reqs, AcquireStreamSlot(r) PROVE SlotInv'
  <2>1. \A q \in Reqs \ {r} : HoldsSlot(q)' <=> HoldsSlot(q)
    BY <1>5 DEF AcquireStreamSlot, TypeOK
  <2>2. ~HoldsSlot(r) /\ HoldsSlot(r)'
    <3>1. phase[r] = 1 /\ consumer[<<r, 1>>] = "none"
      BY <1>5, <1>a DEF AcquireStreamSlot, Control
    <3> QED BY <1>5, <3>1 DEF AcquireStreamSlot, TypeOK
  <2> QED BY <1>5, <2>1, <2>2, SlotTaken DEF AcquireStreamSlot
<1>6. ASSUME NEW r \in Reqs, LoopStep(r) PROVE SlotInv'
  <2>1. CASE AcquireRejected(r)
    <3>1. \A q \in Reqs : HoldsSlot(q)' <=> HoldsSlot(q)
      BY <2>1 DEF AcquireRejected, TypeOK
    <3> QED BY <2>1, <3>1, SlotKept DEF AcquireRejected
  <2>2. CASE AttemptAborted(r)
    BY <2>2, OpenFailsSlot DEF AttemptAborted
  <2>3. CASE Dial(r)
    <3>1. \A q \in Reqs : HoldsSlot(q)' <=> HoldsSlot(q)
      BY <2>3 DEF Dial, TypeOK
    <3> QED BY <2>3, <3>1, SlotKept DEF Dial
  <2>4. CASE PeekIdleFires(r)
    BY <2>4, SlotKept DEF PeekIdleFires
  <2>5. CASE RetryGranted(r)
    <3>1. \A q \in Reqs : HoldsSlot(q)' <=> HoldsSlot(q)
      BY <2>5 DEF RetryGranted, TypeOK
    <3> QED BY <2>5, <3>1, SlotKept DEF RetryGranted
  <2>6. CASE RetryDenied(r)
    BY <2>6, OpenFailsSlot DEF RetryDenied
  <2>7. CASE BackoffElapsed(r)
    <3>1. \A q \in Reqs : HoldsSlot(q)' <=> HoldsSlot(q)
      BY <2>7 DEF BackoffElapsed, TypeOK
    <3> QED BY <2>7, <3>1, SlotKept DEF BackoffElapsed
  <2>8. CASE BackoffCancelled(r)
    BY <2>8, OpenFailsSlot DEF BackoffCancelled
  <2> QED BY <1>6, <2>1, <2>2, <2>3, <2>4, <2>5, <2>6, <2>7, <2>8 DEF LoopStep
<1>7. ASSUME NEW r \in Reqs, NEW t \in BOOLEAN, AttemptFails(r, t),
             pc[r] \in {"do", "peek"}
      PROVE SlotInv'
  <2>1. CASE OpenFails(r)
    BY <1>7, <2>1, OpenFailsSlot DEF AttemptFails
  <2>2. CASE pc' = [pc EXCEPT ![r] = "budget"] /\ UNCHANGED <<inUse, relay>>
    <3>1. \A q \in Reqs : HoldsSlot(q)' <=> HoldsSlot(q)
      BY <1>7, <2>2 DEF AttemptFails, TypeOK
    <3> QED BY <2>2, <3>1, SlotKept
  <2> QED BY <1>7, <2>1, <2>2 DEF AttemptFails
<1>8. ASSUME NEW r \in Reqs, DialStep(r) PROVE SlotInv'
  <2>1. CASE ResponseOK(r)
    <3>1. \A q \in Reqs : HoldsSlot(q)' <=> HoldsSlot(q)
      BY <2>1 DEF ResponseOK, TypeOK
    <3> QED BY <2>1, <3>1, SlotKept DEF ResponseOK
  <2>2. CASE ResponseFails(r)
    BY <2>2, <1>7 DEF ResponseFails
  <2> QED BY <1>8, <2>1, <2>2 DEF DialStep
<1>9. ASSUME NEW r \in Reqs, PeekStep(r) PROVE SlotInv'
  <2>1. CASE PeekOK(r)
    <3>1. ASSUME NEW q \in Reqs PROVE HoldsSlot(q)' <=> HoldsSlot(q)
      BY <2>1, <1>a DEF PeekOK, OpenSucceeds, Current, Streams, TypeOK
    <3> QED BY <2>1, <3>1, SlotKept DEF PeekOK, OpenSucceeds
  <2>2. CASE PeekFails(r)
    BY <2>2, <1>7 DEF PeekFails
  <2> QED BY <1>9, <2>1, <2>2 DEF PeekStep
<1>10. ASSUME NEW r \in Reqs, RelayStep(r) PROVE SlotInv'
  <2>1. CASE EmitReset(r)
    <3>1. ASSUME NEW q \in Reqs PROVE HoldsSlot(q)' <=> HoldsSlot(q)
      BY <2>1, <1>a DEF EmitReset, TypeOK, Control
    <3> QED BY <2>1, <3>1, SlotKept DEF EmitReset
  <2>2. CASE ~EmitReset(r)
    <3>1. UNCHANGED <<pc, phase, consumer, inUse>>
      BY <1>10, <2>2 DEF RelayStep, ForwardChunk, SourceClosed, MidStreamGranted,
            MidStreamDenied, EmitRetryError, CloseOut
    <3> QED BY <3>1, SlotKept
  <2> QED BY <2>1, <2>2
<1>11. ASSUME NEW r \in Reqs, CallerStep(r) PROVE SlotInv'
    BY <1>11, SlotKept DEF CallerStep, CallerReceives, CallerStops, CallerSeesEOF
<1>12. ASSUME NEW s \in Streams, ConsumerStep(s) PROVE SlotInv'
  <2>1. CASE ConsumerReads(s) \/ ConsumerUsage(s) \/ ConsumerFinishes(s) \/ ConsumerErrors(s)
             \/ ContextClosesBody(s)
    <3>1. UNCHANGED <<pc, phase, consumer, inUse>>
      BY <2>1 DEF ConsumerReads, ConsumerUsage, ConsumerFinishes, ConsumerErrors, ConsumerParses,
            ContextClosesBody
    <3> QED BY <3>1, SlotKept
  <2>2. CASE ConsumerEOF(s)
    <3>1. ASSUME NEW q \in Reqs PROVE HoldsSlot(q)' <=> HoldsSlot(q)
      BY <2>2 DEF ConsumerEOF, TypeOK, Streams
    <3> QED BY <2>2, <3>1, SlotKept DEF ConsumerEOF
  <2>3. CASE ConsumerSends(s)
    <3>1. ASSUME NEW q \in Reqs PROVE HoldsSlot(q)' <=> HoldsSlot(q)
      BY <2>3 DEF ConsumerSends, TypeOK, Streams
    <3> QED BY <2>3, <3>1, SlotKept DEF ConsumerSends
  <2>4. CASE ConsumerCloses(s)
    <3>1. ASSUME NEW q \in Reqs PROVE HoldsSlot(q)' <=> HoldsSlot(q)
      BY <2>4 DEF ConsumerCloses, TypeOK, Streams
    <3> QED BY <2>4, <3>1, SlotKept DEF ConsumerCloses
  <2>5. CASE ConsumerEnds(s)
    <3>1. PICK r \in Reqs, k \in {1, 2} : s = <<r, k>>
      BY DEF Streams
    <3>2. \A q \in Reqs \ {r} : HoldsSlot(q)' <=> HoldsSlot(q)
      BY <2>5, <3>1 DEF ConsumerEnds, TypeOK, Streams
    <3>3. CASE k = 1
      <4>1. HoldsSlot(r) /\ ~HoldsSlot(r)' /\ ReleaseStreamSlot
        BY <2>5, <3>1, <3>3, <1>a DEF ConsumerEnds, TypeOK, Streams, Control
      <4> QED BY <3>2, <4>1, SlotReleased
    <3>4. CASE k = 2
      <4>1. (HoldsSlot(r)' <=> HoldsSlot(r)) /\ UNCHANGED inUse
        BY <2>5, <3>1, <3>4 DEF ConsumerEnds, TypeOK, Streams
      <4> QED BY <3>2, <4>1, SlotKept
    <3> QED BY <3>3, <3>4
  <2> QED BY <1>12, <2>1, <2>2, <2>3, <2>4, <2>5 DEF ConsumerStep
<1> QED BY <1>1, <1>2, <1>3, <1>4, <1>5, <1>6, <1>8, <1>9, <1>10, <1>11, <1>12
        DEF Next, OpenStep

(***************************************************************************)
(* Every slot taken from the semaphore has exactly one owner, so no exit   *)
(* path of RunStreamingRequest or of its consumer loses or double-releases *)
(* one, for every limit, policy and number of requests.                    *)
(***************************************************************************)
THEOREM SlotsConserved == Spec => []SlotConservation
<1>1. Init => TypeOK /\ ControlInv /\ SlotInv
    BY TypeInit, ControlInit, SlotInit
<1>2. TypeOK /\ ControlInv /\ SlotInv /\ [Next]_vars
        => (TypeOK /\ ControlInv /\ SlotInv)'
    BY TypeNext, ControlNext, SlotNext
<1>3. SlotInv => SlotConservation
    BY DEF SlotInv, SlotConservation
<1> QED BY <1>1, <1>2, <1>3, PTL DEF Spec

-----------------------------------------------------------------------------
(***************************************************************************)
(* The budget.  A token taken is either spent on a re-dial, or held by a   *)
(* request on its way to one (waiting out its back-off, about to dial, or  *)
(* about to emit Reset), or lost when that request gives up.               *)
(***************************************************************************)
Paid(r) ==
    \/ pc[r] = "backoff"
    \/ pc[r] = "attempt" /\ (attempt[r] > 0 \/ phase[r] = 2)
    \/ relay[r] = "reset"

PaidReqs == {r \in Reqs : Paid(r)}

BudgetInv ==
    Burst > 0 => redials + tokens + Cardinality(PaidReqs) <= Burst + refills

LEMMA PaidFinite ==
    /\ IsFiniteSet(PaidReqs) /\ Cardinality(PaidReqs) \in Nat
    /\ IsFiniteSet(PaidReqs') /\ Cardinality(PaidReqs') \in Nat
BY ConstantsAssumption, FS_Subset, FS_CardinalityType DEF PaidReqs

LEMMA BudgetKept ==
    ASSUME TypeOK, BudgetInv, UNCHANGED <<redials, tokens, refills>>,
           \A q \in Reqs : Paid(q)' => Paid(q)
    PROVE  BudgetInv'
<1>1. PaidReqs' \subseteq PaidReqs
    BY DEF PaidReqs
<1>2. Cardinality(PaidReqs') <= Cardinality(PaidReqs)
    BY <1>1, PaidFinite, FS_Subset
<1> QED BY <1>2, PaidFinite, ConstantsAssumption DEF BudgetInv, TypeOK

LEMMA BudgetTaken ==
    ASSUME TypeOK, BudgetInv, TryAcquire, UNCHANGED redials, NEW r \in Reqs,
           \A q \in Reqs \ {r} : Paid(q)' => Paid(q)
    PROVE  BudgetInv'
<1>1. PaidReqs' \subseteq PaidReqs \cup {r}
    BY DEF PaidReqs
<1>2. /\ IsFiniteSet(PaidReqs \cup {r})
      /\ Cardinality(PaidReqs \cup {r}) <= Cardinality(PaidReqs) + 1
  <2>1. /\ IsFiniteSet(PaidReqs \cup {r})
        /\ Cardinality(PaidReqs \cup {r}) =
             IF r \in PaidReqs THEN Cardinality(PaidReqs)
                               ELSE Cardinality(PaidReqs) + 1
    BY PaidFinite, FS_AddElement
  <2> QED BY <2>1, PaidFinite
<1>3. Cardinality(PaidReqs') <= Cardinality(PaidReqs \cup {r})
    BY <1>1, <1>2, FS_Subset
<1>4. Cardinality(PaidReqs \cup {r}) \in Nat
    BY <1>2, FS_CardinalityType
<1> QED BY <1>2, <1>3, <1>4, PaidFinite, ConstantsAssumption
        DEF BudgetInv, TryAcquire, TypeOK

LEMMA BudgetSpent ==
    ASSUME TypeOK, BudgetInv, UNCHANGED <<tokens, refills>>,
           redials' = redials + 1,
           NEW r \in Reqs, Paid(r), ~Paid(r)',
           \A q \in Reqs \ {r} : Paid(q)' => Paid(q)
    PROVE  BudgetInv'
<1>1. PaidReqs' \subseteq PaidReqs \ {r} /\ r \in PaidReqs
    BY DEF PaidReqs
<1>2. /\ IsFiniteSet(PaidReqs \ {r})
      /\ Cardinality(PaidReqs \ {r}) = Cardinality(PaidReqs) - 1
    BY <1>1, PaidFinite, FS_RemoveElement
<1>3. Cardinality(PaidReqs') <= Cardinality(PaidReqs \ {r})
    BY <1>1, <1>2, FS_Subset
<1> QED BY <1>2, <1>3, PaidFinite, ConstantsAssumption DEF BudgetInv, TypeOK

LEMMA BudgetInit == Init => BudgetInv
<1> SUFFICES ASSUME Init PROVE BudgetInv
    OBVIOUS
<1>1. PaidReqs = {}
    BY DEF Init, PaidReqs, Paid
<1> QED BY <1>1, FS_EmptySet, ConstantsAssumption DEF BudgetInv, Init

LEMMA BudgetNext == TypeOK /\ ControlInv /\ BudgetInv /\ [Next]_vars => BudgetInv'
<1> SUFFICES ASSUME TypeOK, ControlInv, BudgetInv, [Next]_vars PROVE BudgetInv'
    OBVIOUS
<1>a. \A q \in Reqs : Control(q)
    BY DEF ControlInv
<1> USE DEF openVars, budgetVars, streamVars, relayVars, callerVars, Paid
<1>1. CASE UNCHANGED vars
    BY <1>1, BudgetKept DEF vars
<1>2. CASE Refill
  <2>1. PaidReqs' = PaidReqs
    BY <1>2 DEF Refill, PaidReqs
  <2> QED BY <1>2, <2>1, PaidFinite, ConstantsAssumption DEF Refill, BudgetInv, TypeOK
<1>3. ASSUME NEW r \in Reqs, Call(r) PROVE BudgetInv'
  <2>1. \A q \in Reqs : Paid(q)' => Paid(q)
    BY <1>3 DEF Call, TypeOK
  <2> QED BY <1>3, <2>1, BudgetKept DEF Call
<1>4. ASSUME NEW r \in Reqs, CancelContext(r) PROVE BudgetInv'
    BY <1>4, BudgetKept DEF CancelContext
<1>5. ASSUME NEW r \in Reqs, AcquireStreamSlot(r) PROVE BudgetInv'
  <2>1. phase[r] = 1 /\ attempt[r] = 0
    BY <1>5, <1>a DEF AcquireStreamSlot, Control
  <2>2. \A q \in Reqs : Paid(q)' => Paid(q)
    BY <1>5, <2>1 DEF AcquireStreamSlot, TypeOK
  <2> QED BY <1>5, <2>2, BudgetKept DEF AcquireStreamSlot
<1>b. ASSUME NEW r \in Reqs, OpenFails(r), UNCHANGED <<phase, attempt, redials, tokens, refills>>
      PROVE BudgetInv'
  <2>1. \A q \in Reqs : Paid(q)' => Paid(q)
    BY <1>b DEF OpenFails, TypeOK
  <2> QED BY <1>b, <2>1, BudgetKept
<1>6. ASSUME NEW r \in Reqs, LoopStep(r) PROVE BudgetInv'
  <2>1. CASE AcquireRejected(r)
    <3>1. \A q \in Reqs : Paid(q)' => Paid(q)
      BY <2>1 DEF AcquireRejected, TypeOK
    <3> QED BY <2>1, <3>1, BudgetKept DEF AcquireRejected
  <2>2. CASE AttemptAborted(r)
    BY <2>2, <1>b DEF AttemptAborted
  <2>3. CASE Dial(r)
    <3>1. \A q \in Reqs \ {r} : Paid(q)' => Paid(q)
      BY <2>3 DEF Dial, TypeOK
    <3>2. ~Paid(r)'
      <4>1. pc'[r] = "do" /\ pc[r] = "attempt" /\ relay' = relay
        BY <2>3 DEF Dial, TypeOK
      <4>2. relay[r] # "reset"
        BY <4>1, <1>a DEF Control
      <4> QED BY <4>1, <4>2
    <3>3. CASE phase[r] = 1 /\ attempt[r] = 0
      BY <2>3, <3>1, <3>2, <3>3, BudgetKept DEF Dial
    <3>4. CASE ~(phase[r] = 1 /\ attempt[r] = 0)
      <4>1. Paid(r) /\ redials' = redials + 1
        BY <2>3, <3>4 DEF Dial, TypeOK
      <4> QED BY <2>3, <3>1, <3>2, <4>1, BudgetSpent DEF Dial
    <3> QED BY <3>3, <3>4
  <2>4. CASE PeekIdleFires(r)
    BY <2>4, BudgetKept DEF PeekIdleFires
  <2>5. CASE RetryGranted(r)
    <3>1. \A q \in Reqs \ {r} : Paid(q)' => Paid(q)
      BY <2>5 DEF RetryGranted, TypeOK
    <3> QED BY <2>5, <3>1, BudgetTaken DEF RetryGranted
  <2>6. CASE RetryDenied(r)
    BY <2>6, <1>b DEF RetryDenied
  <2>7. CASE BackoffElapsed(r)
    <3>1. \A q \in Reqs : Paid(q)' => Paid(q)
      BY <2>7 DEF BackoffElapsed, TypeOK
    <3> QED BY <2>7, <3>1, BudgetKept DEF BackoffElapsed
  <2>8. CASE BackoffCancelled(r)
    BY <2>8, <1>b DEF BackoffCancelled
  <2> QED BY <1>6, <2>1, <2>2, <2>3, <2>4, <2>5, <2>6, <2>7, <2>8 DEF LoopStep
<1>7. ASSUME NEW r \in Reqs, NEW t \in BOOLEAN, AttemptFails(r, t) PROVE BudgetInv'
  <2>1. CASE OpenFails(r)
    BY <1>7, <2>1, <1>b DEF AttemptFails
  <2>2. CASE pc' = [pc EXCEPT ![r] = "budget"] /\ UNCHANGED <<inUse, relay>>
    <3>1. \A q \in Reqs : Paid(q)' => Paid(q)
      BY <1>7, <2>2 DEF AttemptFails, TypeOK
    <3> QED BY <1>7, <3>1, BudgetKept DEF AttemptFails
  <2> QED BY <1>7, <2>1, <2>2 DEF AttemptFails
<1>8. ASSUME NEW r \in Reqs, DialStep(r) PROVE BudgetInv'
  <2>1. CASE ResponseOK(r)
    <3>1. \A q \in Reqs : Paid(q)' => Paid(q)
      BY <2>1 DEF ResponseOK, TypeOK
    <3> QED BY <2>1, <3>1, BudgetKept DEF ResponseOK
  <2>2. CASE ResponseFails(r)
    BY <2>2, <1>7 DEF ResponseFails
  <2> QED BY <1>8, <2>1, <2>2 DEF DialStep
<1>9. ASSUME NEW r \in Reqs, PeekStep(r) PROVE BudgetInv'
  <2>1. CASE PeekOK(r)
    <3>1. \A q \in Reqs : Paid(q)' => Paid(q)
      BY <2>1 DEF PeekOK, OpenSucceeds, TypeOK
    <3> QED BY <2>1, <3>1, BudgetKept DEF PeekOK
  <2>2. CASE PeekFails(r)
    BY <2>2, <1>7 DEF PeekFails
  <2> QED BY <1>9, <2>1, <2>2 DEF PeekStep
<1>10. ASSUME NEW r \in Reqs, RelayStep(r) PROVE BudgetInv'
  <2>1. CASE ForwardChunk(r)
    <3>1. \A q \in Reqs : Paid(q)' => Paid(q)
      BY <2>1 DEF ForwardChunk, TypeOK
    <3> QED BY <2>1, <3>1, BudgetKept DEF ForwardChunk
  <2>2. CASE SourceClosed(r)
    <3>1. \A q \in Reqs : Paid(q)' => Paid(q)
      BY <2>2 DEF SourceClosed, TypeOK
    <3> QED BY <2>2, <3>1, BudgetKept DEF SourceClosed
  <2>3. CASE MidStreamGranted(r)
    <3>1. \A q \in Reqs \ {r} : Paid(q)' => Paid(q)
      BY <2>3 DEF MidStreamGranted, TypeOK
    <3> QED BY <2>3, <3>1, BudgetTaken DEF MidStreamGranted
  <2>4. CASE MidStreamDenied(r)
    <3>1. \A q \in Reqs : Paid(q)' => Paid(q)
      BY <2>4 DEF MidStreamDenied, TypeOK
    <3> QED BY <2>4, <3>1, BudgetKept DEF MidStreamDenied
  <2>5. CASE EmitReset(r)
    <3>1. \A q \in Reqs : Paid(q)' => Paid(q)
      BY <2>5 DEF EmitReset, TypeOK
    <3> QED BY <2>5, <3>1, BudgetKept DEF EmitReset
  <2>6. CASE EmitRetryError(r)
    <3>1. \A q \in Reqs : Paid(q)' => Paid(q)
      BY <2>6 DEF EmitRetryError, TypeOK
    <3> QED BY <2>6, <3>1, BudgetKept DEF EmitRetryError
  <2>7. CASE CloseOut(r)
    <3>1. \A q \in Reqs : Paid(q)' => Paid(q)
      BY <2>7 DEF CloseOut, TypeOK
    <3> QED BY <2>7, <3>1, BudgetKept DEF CloseOut
  <2> QED BY <1>10, <2>1, <2>2, <2>3, <2>4, <2>5, <2>6, <2>7 DEF RelayStep
<1>11. ASSUME NEW r \in Reqs, CallerStep(r) PROVE BudgetInv'
  <2>1. UNCHANGED <<pc, phase, attempt, relay, redials, tokens, refills>>
    BY <1>11 DEF CallerStep, CallerReceives, CallerStops, CallerSeesEOF
  <2> QED BY <2>1, BudgetKept
<1>12. ASSUME NEW s \in Streams, ConsumerStep(s) PROVE BudgetInv'
  <2>1. UNCHANGED <<pc, phase, attempt, relay, redials, tokens, refills>>
    BY <1>12 DEF ConsumerStep, ConsumerReads, ConsumerUsage, ConsumerFinishes, ConsumerErrors,
          ConsumerParses, ConsumerEOF, ConsumerSends, ContextClosesBody,
          ConsumerCloses, ConsumerEnds
  <2> QED BY <2>1, BudgetKept
<1> QED BY <1>1, <1>2, <1>3, <1>4, <1>5, <1>6, <1>8, <1>9, <1>10, <1>11, <1>12
        DEF Next, OpenStep

(***************************************************************************)
(* Every re-dial, before the first chunk or mid-stream, is covered by a    *)
(* token of its own: a storm of failing streams re-dials at most burst     *)
(* times plus what the bucket accrues meanwhile.                           *)
(***************************************************************************)
THEOREM RedialsPaid == Spec => []RedialsWithinBudget
<1>1. Init => TypeOK /\ ControlInv /\ BudgetInv
    BY TypeInit, ControlInit, BudgetInit
<1>2. TypeOK /\ ControlInv /\ BudgetInv /\ [Next]_vars
        => (TypeOK /\ ControlInv /\ BudgetInv)'
    BY TypeNext, ControlNext, BudgetNext
<1>3. TypeOK /\ BudgetInv => RedialsWithinBudget
    BY PaidFinite, ConstantsAssumption DEF BudgetInv, RedialsWithinBudget, TypeOK
<1> QED BY <1>1, <1>2, <1>3, PTL DEF Spec

-----------------------------------------------------------------------------
(***************************************************************************)
(* The upstream limit, in the default retry window: there a request never  *)
(* gets to its second stream, and whatever it has in flight is in flight   *)
(* while it owns a slot.                                                   *)
(***************************************************************************)
SlotCovers(r) ==
    /\ phase[r] = 1
    /\ relay[r] \notin {"midstream", "reset"}
    /\ upstream[<<r, 2>>] \notin {"dialing", "open"}
    /\ upstream[<<r, 1>>] = "dialing" => pc[r] = "do"
    /\ upstream[<<r, 1>>] = "open" =>
           pc[r] = "peek" \/ consumer[<<r, 1>>] \in {"reading", "returning"}

CoverInv == \A r \in Reqs : SlotCovers(r)

LEMMA CoverInit == Init => CoverInv
BY DEF Init, CoverInv, SlotCovers, Streams

LEMMA CoverNext ==
    ASSUME Window = "pre_first_chunk"
    PROVE  TypeOK /\ CoverInv /\ [Next]_vars => CoverInv'
<1> SUFFICES ASSUME TypeOK, CoverInv, [Next]_vars, NEW q \in Reqs
             PROVE  SlotCovers(q)'
    BY DEF CoverInv
<1>a. SlotCovers(q)
    BY DEF CoverInv
<1>b. ~CanMidStreamRetry
    BY DEF CanMidStreamRetry
<1> USE DEF openVars, budgetVars, streamVars, relayVars, callerVars
<1>1. CASE UNCHANGED vars
    BY <1>1, <1>a DEF vars, SlotCovers
<1>2. CASE Refill
    BY <1>2, <1>a DEF Refill, SlotCovers
<1>3. ASSUME NEW r \in Reqs, Call(r) PROVE SlotCovers(q)'
    BY <1>3, <1>a DEF Call, TypeOK, SlotCovers
<1>4. ASSUME NEW r \in Reqs, CancelContext(r) PROVE SlotCovers(q)'
    BY <1>4, <1>a DEF CancelContext, SlotCovers
<1>5. ASSUME NEW r \in Reqs, AcquireStreamSlot(r) PROVE SlotCovers(q)'
    BY <1>5, <1>a DEF AcquireStreamSlot, TypeOK, SlotCovers
<1>6. ASSUME NEW r \in Reqs, LoopStep(r) PROVE SlotCovers(q)'
  <2> USE <1>a DEF TypeOK, SlotCovers
  <2>1. CASE AcquireRejected(r)
    BY <2>1 DEF AcquireRejected
  <2>2. CASE AttemptAborted(r)
    BY <2>2 DEF AttemptAborted, OpenFails
  <2>3. CASE Dial(r)
    BY <2>3 DEF Dial, Current, Streams, CoverInv
  <2>4. CASE PeekIdleFires(r)
    BY <2>4 DEF PeekIdleFires
  <2>5. CASE RetryGranted(r)
    BY <2>5 DEF RetryGranted
  <2>6. CASE RetryDenied(r)
    BY <2>6 DEF RetryDenied, OpenFails
  <2>7. CASE BackoffElapsed(r)
    BY <2>7 DEF BackoffElapsed
  <2>8. CASE BackoffCancelled(r)
    BY <2>8 DEF BackoffCancelled, OpenFails
  <2> QED BY <1>6, <2>1, <2>2, <2>3, <2>4, <2>5, <2>6, <2>7, <2>8 DEF LoopStep
<1>7. ASSUME NEW r \in Reqs, NEW t \in BOOLEAN, AttemptFails(r, t)
      PROVE SlotCovers(q)'
  <2>1. phase[r] = 1 /\ Current(r) = <<r, 1>>
    BY DEF CoverInv, SlotCovers, Current
  <2>2. /\ pc' \in {[pc EXCEPT ![r] = "failed"], [pc EXCEPT ![r] = "budget"]}
        /\ relay' = relay
    BY <1>7, <2>1 DEF AttemptFails, OpenFails
  <2>3. upstream' = [upstream EXCEPT ![<<r, 1>>] = "none"] /\ UNCHANGED <<phase, consumer>>
    BY <1>7, <2>1 DEF AttemptFails
  <2>4. CASE q = r
    BY <2>2, <2>3, <2>4, <1>a DEF TypeOK, SlotCovers, Streams
  <2>5. CASE q # r
    BY <2>2, <2>3, <2>5, <1>a DEF TypeOK, SlotCovers, Streams
  <2> QED BY <2>4, <2>5
<1>8. ASSUME NEW r \in Reqs, DialStep(r) PROVE SlotCovers(q)'
  <2>1. CASE ResponseOK(r)
    BY <2>1, <1>a DEF ResponseOK, Current, Streams, TypeOK, SlotCovers
  <2>2. CASE ResponseFails(r)
    BY <2>2, <1>7 DEF ResponseFails
  <2> QED BY <1>8, <2>1, <2>2 DEF DialStep
<1>9. ASSUME NEW r \in Reqs, PeekStep(r) PROVE SlotCovers(q)'
  <2>1. CASE PeekOK(r)
    BY <2>1, <1>a DEF PeekOK, OpenSucceeds, Current, Streams, TypeOK, SlotCovers
  <2>2. CASE PeekFails(r)
    BY <2>2, <1>7 DEF PeekFails
  <2> QED BY <1>9, <2>1, <2>2 DEF PeekStep
<1>10. ASSUME NEW r \in Reqs, RelayStep(r) PROVE SlotCovers(q)'
  <2>0. relay[r] \notin {"midstream", "reset"}
    BY DEF CoverInv, SlotCovers
  <2> USE <1>a, <1>b, <2>0 DEF TypeOK, SlotCovers
  <2>1. CASE ForwardChunk(r)
    BY <2>1 DEF ForwardChunk
  <2>2. CASE SourceClosed(r)
    BY <2>2 DEF SourceClosed
  <2>3. CASE EmitRetryError(r)
    BY <2>3 DEF EmitRetryError
  <2>4. CASE CloseOut(r)
    BY <2>4 DEF CloseOut
  <2>5. ~MidStreamGranted(r) /\ ~MidStreamDenied(r) /\ ~EmitReset(r)
    BY DEF MidStreamGranted, MidStreamDenied, EmitReset
  <2> QED BY <1>10, <2>1, <2>2, <2>3, <2>4, <2>5 DEF RelayStep
<1>11. ASSUME NEW r \in Reqs, CallerStep(r) PROVE SlotCovers(q)'
    BY <1>11, <1>a DEF CallerStep, CallerReceives, CallerStops, CallerSeesEOF, SlotCovers
<1>12. ASSUME NEW s \in Streams, ConsumerStep(s) PROVE SlotCovers(q)'
  <2> USE <1>a DEF TypeOK, SlotCovers, Streams
  <2>1. CASE ConsumerReads(s) \/ ConsumerUsage(s) \/ ConsumerFinishes(s) \/ ConsumerErrors(s)
    <3>1. UNCHANGED <<pc, phase, relay, upstream, consumer>>
      BY <2>1 DEF ConsumerReads, ConsumerUsage, ConsumerFinishes, ConsumerErrors, ConsumerParses
    <3> QED BY <3>1
  <2>2. CASE ConsumerEOF(s)
    BY <2>2 DEF ConsumerEOF
  <2>3. CASE ConsumerSends(s)
    BY <2>3 DEF ConsumerSends
  <2>4. CASE ContextClosesBody(s)
    BY <2>4 DEF ContextClosesBody
  <2>5. CASE ConsumerCloses(s)
    BY <2>5 DEF ConsumerCloses
  <2>6. CASE ConsumerEnds(s)
    BY <2>6 DEF ConsumerEnds
  <2> QED BY <1>12, <2>1, <2>2, <2>3, <2>4, <2>5, <2>6 DEF ConsumerStep
<1> QED BY <1>1, <1>2, <1>3, <1>4, <1>5, <1>6, <1>8, <1>9, <1>10, <1>11, <1>12
        DEF Next, OpenStep

LEMMA CoveredWithinLimit ==
    TypeOK /\ SlotInv /\ CoverInv => UpstreamWithinLimit
<1> SUFFICES ASSUME TypeOK, SlotInv, CoverInv, Limit > 0
             PROVE  Cardinality(InFlight) <= Limit
    BY DEF UpstreamWithinLimit
<1>1. InFlight \subseteq Holders
    BY DEF InFlight, Holders, HoldsSlot, Opening, ConsumerOwnsSlot, CoverInv,
           SlotCovers, TypeOK
<1>2. Cardinality(InFlight) <= Cardinality(Holders)
    BY <1>1, HoldersFinite, FS_Subset
<1>3. Cardinality(InFlight) \in Nat /\ Cardinality(Holders) \in Nat
    BY <1>1, HoldersFinite, FS_Subset, FS_CardinalityType
<1> QED BY <1>2, <1>3, ConstantsAssumption DEF SlotInv, TypeOK

(***************************************************************************)
(* In the default retry window the semaphore really caps what the upstream *)
(* sees: at most Limit requests have an exchange in flight.                *)
(***************************************************************************)
THEOREM UpstreamLimited ==
    ASSUME Window = "pre_first_chunk"
    PROVE  Spec => []UpstreamWithinLimit
<1> DEFINE IInv == TypeOK /\ ControlInv /\ SlotInv /\ CoverInv
<1>1. Init => IInv
    BY TypeInit, ControlInit, SlotInit, CoverInit
<1>2. IInv /\ [Next]_vars => IInv'
    BY TypeNext, ControlNext, SlotNext, CoverNext
<1>3. IInv => UpstreamWithinLimit
    BY CoveredWithinLimit
<1> QED BY <1>1, <1>2, <1>3, PTL DEF Spec
-----------------------------------------------------------------------------
(***************************************************************************)
(* The chunks of the first stream.  Those the relay has sent and those     *)
(* still in innerChan are together what the consumer put there, in order:  *)
(* forwarding moves a chunk along this pipe and the consumer appends to it. *)
(***************************************************************************)
Pipe(r) == sent[r] \o inner[<<r, 1>>]

Contents(q) == {i \in 1 .. Len(q) : q[i] \in ReadsOn}

LEMMA MoveHead ==
    ASSUME NEW S, NEW s \in Seq(S), NEW q \in Seq(S), q # << >>
    PROVE  Append(s, Head(q)) \o Tail(q) = s \o q
<1> DEFINE a == Append(s, Head(q)) \o Tail(q)
           b == s \o q
<1>1. Head(q) \in S /\ Tail(q) \in Seq(S) /\ Len(Tail(q)) = Len(q) - 1 /\ Len(q) > 0
    BY HeadTailProperties, EmptySeq
<1>2. a \in Seq(S) /\ b \in Seq(S) /\ Len(a) = Len(b)
    BY <1>1, ConcatProperties, AppendProperties
<1>3. ASSUME NEW i \in 1 .. Len(b) PROVE a[i] = b[i]
    BY <1>1
<1> QED BY <1>2, <1>3, SeqEqual

LEMMA ConcatAppend ==
    ASSUME NEW S, NEW s \in Seq(S), NEW q \in Seq(S), NEW x \in S
    PROVE  s \o Append(q, x) = Append(s \o q, x)
<1>1. /\ s \o Append(q, x) \in Seq(S) /\ Append(s \o q, x) \in Seq(S)
      /\ Len(s \o Append(q, x)) = Len(Append(s \o q, x))
    BY ConcatProperties, AppendProperties
<1>2. ASSUME NEW i \in 1 .. Len(Append(s \o q, x))
      PROVE  (s \o Append(q, x))[i] = Append(s \o q, x)[i]
    OBVIOUS
<1> QED BY <1>1, <1>2, SeqEqual

LEMMA ConcatPrefix ==
    ASSUME NEW S, NEW s \in Seq(S), NEW q \in Seq(S), NEW i \in 1 .. Len(s)
    PROVE  (s \o q)[i] = s[i]
OBVIOUS

LEMMA ConcatNext ==
    ASSUME NEW S, NEW s \in Seq(S), NEW q \in Seq(S), q # << >>
    PROVE  (s \o q)[Len(s) + 1] = Head(q)
<1>1. Len(s) \in Nat /\ Len(q) \in Nat /\ Len(q) > 0 /\ Head(q) = q[1]
    BY LenProperties, EmptySeq, HeadTailProperties
<1> QED BY <1>1

LEMMA ContentsFinite ==
    ASSUME NEW q \in Seq(Chunks)
    PROVE  IsFiniteSet(Contents(q)) /\ Cardinality(Contents(q)) \in Nat
<1>1. Len(q) \in Nat
    BY LenProperties
<1>2. IsFiniteSet(1 .. Len(q))
    BY <1>1, FS_Interval
<1> QED BY <1>2, FS_Subset, FS_CardinalityType DEF Contents

LEMMA ContentsAppend ==
    ASSUME NEW q \in Seq(Chunks), NEW x \in Chunks
    PROVE  Cardinality(Contents(Append(q, x))) =
               IF x \in ReadsOn THEN Cardinality(Contents(q)) + 1
                                ELSE Cardinality(Contents(q))
<1>1. /\ Len(q) \in Nat /\ Len(Append(q, x)) = Len(q) + 1
      /\ \A i \in 1 .. Len(q) : Append(q, x)[i] = q[i]
      /\ Append(q, x)[Len(q) + 1] = x
    BY AppendProperties, LenProperties
<1>2. CASE x \in ReadsOn
  <2>1. /\ Contents(Append(q, x)) = Contents(q) \cup {Len(q) + 1}
        /\ Len(q) + 1 \notin Contents(q)
    BY <1>1, <1>2 DEF Contents
  <2> QED BY <1>2, <2>1, ContentsFinite, FS_AddElement
<1>3. CASE x \notin ReadsOn
  <2>1. Contents(Append(q, x)) = Contents(q)
    BY <1>1, <1>3 DEF Contents
  <2> QED BY <1>3, <2>1
<1> QED BY <1>2, <1>3

(***************************************************************************)
(* While a request is on its first stream, the content chunks in the pipe  *)
(* and the one in the consumer's hand are those it has parsed.  The relay  *)
(* leaves that stream either with an error forwarded, or with innerChan    *)
(* drained and closed.                                                     *)
(***************************************************************************)
HasError(r) == \E i \in 1 .. Len(sent[r]) : sent[r][i] = "error"

InHand(r) == IF hand[<<r, 1>>] \in ReadsOn THEN 1 ELSE 0

PipeHolds(r) ==
    /\ hand[<<r, 1>>] # "none" => consumer[<<r, 1>>] = "reading"
    /\ relay[r] = "refused" => phase[r] = 2
    /\ phase[r] = 2 \/ relay[r] \in {"midstream", "reset"} => HasError(r)
    /\ phase[r] = 1 =>
           Cardinality(Contents(Pipe(r))) + InHand(r) = produced[<<r, 1>>]
    /\ phase[r] = 1 /\ relay[r] \in {"closing", "done"} /\ ~HasError(r) =>
           inner[<<r, 1>>] = << >> /\ InnerClosed(<<r, 1>>)

PipeInv == \A r \in Reqs : PipeHolds(r)

LEMMA PipeType ==
    ASSUME TypeOK, NEW r \in Reqs
    PROVE  /\ <<r, 1>> \in Streams /\ sent[r] \in Seq(Chunks)
           /\ inner[<<r, 1>>] \in Seq(Chunks) /\ Pipe(r) \in Seq(Chunks)
           /\ Len(Pipe(r)) = Len(sent[r]) + Len(inner[<<r, 1>>])
           /\ Len(sent[r]) \in Nat /\ Len(inner[<<r, 1>>]) \in Nat
           /\ \A i \in 1 .. Len(sent[r]) : Pipe(r)[i] = sent[r][i]
<1>1. <<r, 1>> \in Streams /\ sent[r] \in Seq(Chunks) /\ inner[<<r, 1>>] \in Seq(Chunks)
    BY DEF TypeOK, Streams
<1>2. /\ Pipe(r) \in Seq(Chunks)
      /\ Len(Pipe(r)) = Len(sent[r]) + Len(inner[<<r, 1>>])
    BY <1>1, ConcatProperties DEF Pipe
<1>3. Len(sent[r]) \in Nat /\ Len(inner[<<r, 1>>]) \in Nat
    BY <1>1, LenProperties
<1>4. \A i \in 1 .. Len(sent[r]) : Pipe(r)[i] = sent[r][i]
    BY <1>1, ConcatPrefix DEF Pipe
<1> QED BY <1>1, <1>2, <1>3, <1>4

LEMMA PipeInit == Init => PipeInv
<1> SUFFICES ASSUME Init, NEW r \in Reqs PROVE PipeHolds(r)
    BY DEF PipeInv
<1>1. /\ hand[<<r, 1>>] = "none" /\ phase[r] = 1 /\ relay[r] = "none"
      /\ produced[<<r, 1>>] = 0 /\ sent[r] = << >> /\ inner[<<r, 1>>] = << >>
    BY DEF Init, Streams
<1>2. Pipe(r) = << >>
    BY <1>1, ConcatEmptySeq, EmptySeq DEF Pipe
<1>3. Contents(Pipe(r)) = {}
    BY <1>2 DEF Contents
<1>4. Cardinality(Contents(Pipe(r))) = 0
    BY <1>3, FS_EmptySet
<1> QED BY <1>1, <1>4 DEF PipeHolds, InHand, ReadsOn

(* A step that touches nothing of r's first stream but, at most, its relay. *)
LEMMA PipeKept ==
    ASSUME NEW r \in Reqs, PipeHolds(r),
           hand'[<<r, 1>>] = hand[<<r, 1>>],
           consumer'[<<r, 1>>] = consumer[<<r, 1>>],
           produced'[<<r, 1>>] = produced[<<r, 1>>],
           inner'[<<r, 1>>] = inner[<<r, 1>>],
           phase'[r] = phase[r], sent'[r] = sent[r], relay'[r] = relay[r]
    PROVE  PipeHolds(r)'
<1>1. Pipe(r)' = Pipe(r) /\ InHand(r)' = InHand(r)
    BY DEF Pipe, InHand
<1>2. HasError(r)' = HasError(r)
    BY DEF HasError
<1> QED BY <1>1, <1>2 DEF PipeHolds, InnerClosed

(* A chunk sent to the caller leaves the errors sent before it in place. *)
LEMMA ErrorStays ==
    ASSUME TypeOK, NEW r \in Reqs, NEW x \in Chunks,
           sent' = [sent EXCEPT ![r] = Append(@, x)]
    PROVE  /\ HasError(r) => HasError(r)'
           /\ x = "error" => HasError(r)'
<1>1. sent[r] \in Seq(Chunks) /\ sent'[r] = Append(sent[r], x)
    BY DEF TypeOK
<1>2. /\ Len(sent[r]) \in Nat /\ Len(sent'[r]) = Len(sent[r]) + 1
      /\ \A i \in 1 .. Len(sent[r]) : sent'[r][i] = sent[r][i]
      /\ sent'[r][Len(sent[r]) + 1] = x
    BY <1>1, AppendProperties, LenProperties
<1> QED BY <1>2 DEF HasError

LEMMA OpenFailsPipe ==
    ASSUME TypeOK, NEW r \in Reqs, OpenFails(r),
           UNCHANGED <<phase, consumer, produced, hand, inner, sent>>,
           NEW q \in Reqs, PipeHolds(q), Control(q)
    PROVE  PipeHolds(q)'
<1>1. CASE relay'[q] = relay[q]
    BY <1>1, PipeKept
<1>2. CASE relay'[q] # relay[q]
  <2>1. phase[q] = 2
    BY <1>2 DEF OpenFails, TypeOK
  <2>2. HasError(q)' = HasError(q)
    BY DEF HasError
  <2> QED BY <2>1, <2>2 DEF PipeHolds
<1> QED BY <1>1, <1>2

LEMMA PipeNext == TypeOK /\ ControlInv /\ PipeInv /\ [Next]_vars => PipeInv'
<1> SUFFICES ASSUME TypeOK, ControlInv, PipeInv, [Next]_vars, NEW q \in Reqs
             PROVE  PipeHolds(q)'
    BY DEF PipeInv
<1>a. PipeHolds(q) /\ Control(q)
    BY DEF PipeInv, ControlInv
<1>b. <<q, 1>> \in Streams
    BY PipeType
<1> USE DEF openVars, budgetVars, streamVars, relayVars, callerVars
<1>1. CASE UNCHANGED vars
    BY <1>1, <1>a, PipeKept DEF vars
<1>2. CASE Refill
    BY <1>2, <1>a, PipeKept DEF Refill
<1>3. ASSUME NEW r \in Reqs, Call(r) \/ CancelContext(r) \/ AcquireStreamSlot(r)
      PROVE  PipeHolds(q)'
    BY <1>3, <1>a, PipeKept DEF Call, CancelContext, AcquireStreamSlot
<1>6. ASSUME NEW r \in Reqs, LoopStep(r) PROVE PipeHolds(q)'
  <2>1. CASE AttemptAborted(r)
    BY <2>1, <1>a, OpenFailsPipe DEF AttemptAborted
  <2>2. CASE RetryDenied(r)
    BY <2>2, <1>a, OpenFailsPipe DEF RetryDenied
  <2>3. CASE BackoffCancelled(r)
    BY <2>3, <1>a, OpenFailsPipe DEF BackoffCancelled
  <2>4. CASE AcquireRejected(r) \/ Dial(r) \/ PeekIdleFires(r) \/ RetryGranted(r)
             \/ BackoffElapsed(r)
    BY <2>4, <1>a, PipeKept DEF AcquireRejected, Dial, PeekIdleFires,
       RetryGranted, BackoffElapsed
  <2> QED BY <1>6, <2>1, <2>2, <2>3, <2>4 DEF LoopStep
<1>7. ASSUME NEW r \in Reqs, NEW t \in BOOLEAN, AttemptFails(r, t)
      PROVE  PipeHolds(q)'
  <2>1. CASE OpenFails(r)
    BY <1>7, <2>1, <1>a, OpenFailsPipe DEF AttemptFails
  <2>2. CASE pc' = [pc EXCEPT ![r] = "budget"] /\ UNCHANGED <<inUse, relay>>
    BY <1>7, <2>2, <1>a, PipeKept DEF AttemptFails
  <2> QED BY <1>7, <2>1, <2>2 DEF AttemptFails
<1>8. ASSUME NEW r \in Reqs, DialStep(r) PROVE PipeHolds(q)'
  <2>1. CASE ResponseOK(r)
    BY <2>1, <1>a, PipeKept DEF ResponseOK
  <2>2. CASE ResponseFails(r)
    BY <2>2, <1>7 DEF ResponseFails
  <2> QED BY <1>8, <2>1, <2>2 DEF DialStep
<1>9. ASSUME NEW r \in Reqs, PeekStep(r) PROVE PipeHolds(q)'
  <2>1. CASE PeekOK(r)
    <3>1. UNCHANGED <<phase, produced, hand, inner, sent>>
      BY <2>1 DEF PeekOK
    <3>2. CASE q # r
      BY <2>1, <3>1, <3>2, <1>a, <1>b, PipeKept, CurrentInStreams
         DEF PeekOK, OpenSucceeds, Current, TypeOK, Streams
    <3>3. CASE q = r
      <4>1. relay'[q] = "forward" /\ consumer'[<<q, phase[q]>>] = "reading"
        BY <2>1, <3>3, CurrentInStreams DEF PeekOK, OpenSucceeds, TypeOK, Current
      <4>2. Pipe(q)' = Pipe(q) /\ InHand(q)' = InHand(q)
        BY <3>1 DEF Pipe, InHand
      <4>3. HasError(q)' = HasError(q)
        BY <3>1 DEF HasError
      <4>4. CASE phase[q] = 1
        BY <4>1, <4>2, <4>3, <4>4, <3>1, <1>a DEF PipeHolds
      <4>5. CASE phase[q] = 2
        <5>1. consumer'[<<q, 1>>] = consumer[<<q, 1>>]
          BY <2>1, <3>3, <4>5, <1>b DEF PeekOK, OpenSucceeds, Current, TypeOK, Streams
        <5> QED BY <4>1, <4>2, <4>3, <4>5, <5>1, <3>1, <1>a DEF PipeHolds
      <4> QED BY <4>4, <4>5 DEF TypeOK
    <3> QED BY <3>2, <3>3
  <2>2. CASE PeekFails(r)
    BY <2>2, <1>7 DEF PeekFails
  <2> QED BY <1>9, <2>1, <2>2 DEF PeekStep
<1>10. ASSUME NEW r \in Reqs, RelayStep(r), q # r PROVE PipeHolds(q)'
  <2>1. Current(r) # <<q, 1>> /\ Current(r) \in Streams
    BY <1>10, CurrentInStreams DEF Current
  <2>2. /\ phase'[q] = phase[q] /\ sent'[q] = sent[q] /\ relay'[q] = relay[q]
        /\ inner'[<<q, 1>>] = inner[<<q, 1>>]
        /\ UNCHANGED <<hand, consumer, produced>>
    <3>0. /\ phase \in [Reqs -> {1, 2}] /\ sent \in [Reqs -> Seq(Chunks)]
          /\ inner \in [Streams -> Seq(Chunks)] /\ DOMAIN relay = Reqs
      BY DEF TypeOK
    <3>1. CASE ForwardChunk(r)
      BY <1>10, <2>1, <3>0, <3>1 DEF ForwardChunk
    <3>2. CASE SourceClosed(r)
      BY <1>10, <3>0, <3>2 DEF SourceClosed
    <3>3. CASE MidStreamGranted(r)
      BY <1>10, <3>0, <3>3 DEF MidStreamGranted
    <3>4. CASE MidStreamDenied(r)
      BY <1>10, <3>0, <3>4 DEF MidStreamDenied
    <3>5. CASE EmitReset(r)
      BY <1>10, <3>0, <3>5 DEF EmitReset
    <3>6. CASE EmitRetryError(r)
      BY <1>10, <3>0, <3>6 DEF EmitRetryError
    <3>7. CASE CloseOut(r)
      BY <1>10, <3>0, <3>7 DEF CloseOut
    <3> QED BY <1>10, <3>1, <3>2, <3>3, <3>4, <3>5, <3>6, <3>7 DEF RelayStep
  <2> QED BY <2>2, <1>a, PipeKept
<1>11. ASSUME RelayStep(q) PROVE PipeHolds(q)'
  <2>1. CASE ForwardChunk(q)
    <3> DEFINE s == Current(q)
               x == Head(inner[s])
    <3>1. s \in Streams /\ inner[s] \in Seq(Chunks) /\ inner[s] # << >>
      BY <2>1, CurrentInStreams DEF ForwardChunk, TypeOK
    <3>2. x \in Chunks
      BY <3>1, HeadTailProperties
    <3>3. /\ sent' = [sent EXCEPT ![q] = Append(@, x)]
          /\ inner' = [inner EXCEPT ![s] = Tail(@)]
          /\ UNCHANGED <<phase, hand, consumer, produced>>
      BY <2>1 DEF ForwardChunk
    <3>4. (HasError(q) => HasError(q)') /\ (x = "error" => HasError(q)')
      BY <3>2, <3>3, ErrorStays
    <3>5. relay'[q] \in {"forward", "midstream", "closing"}
          /\ (relay'[q] # "forward" => x = "error")
      BY <2>1 DEF ForwardChunk, TypeOK
    <3>6. CASE phase[q] = 1
      <4>1. s = <<q, 1>>
        BY <3>6 DEF Current
      <4>2. sent'[q] = Append(sent[q], x) /\ inner'[s] = Tail(inner[s])
        BY <3>1, <3>3 DEF TypeOK
      <4>3. Pipe(q)' = Pipe(q)
        <5>1. Append(sent[q], x) \o Tail(inner[s]) = sent[q] \o inner[s]
          BY <3>1, PipeType, MoveHead
        <5> QED BY <4>1, <4>2, <5>1 DEF Pipe
      <4>4. InHand(q)' = InHand(q)
        BY <3>3 DEF InHand
      <4> HIDE DEF x, s
      <4> QED BY <3>3, <3>4, <3>5, <3>6, <4>3, <4>4, <1>a DEF PipeHolds
    <3>7. CASE phase[q] = 2
      BY <3>3, <3>4, <3>7, <1>a DEF PipeHolds
    <3> QED BY <3>6, <3>7 DEF TypeOK
  <2>2. CASE SourceClosed(q)
    <3>1. /\ UNCHANGED <<phase, hand, consumer, produced, inner, sent>>
          /\ relay'[q] = "closing" /\ inner[Current(q)] = << >> /\ InnerClosed(Current(q))
      BY <2>2 DEF SourceClosed, TypeOK
    <3>2. Pipe(q)' = Pipe(q) /\ InHand(q)' = InHand(q)
      BY <3>1 DEF Pipe, InHand
    <3>3. HasError(q)' = HasError(q) /\ InnerClosed(<<q, 1>>)' = InnerClosed(<<q, 1>>)
      BY <3>1 DEF HasError, InnerClosed
    <3> QED BY <3>1, <3>2, <3>3, <1>a DEF PipeHolds, Current
  <2>3. CASE MidStreamGranted(q) \/ MidStreamDenied(q) \/ CloseOut(q)
    <3>1. /\ UNCHANGED <<phase, hand, consumer, produced, inner, sent>>
          /\ relay'[q] \in {"reset", "closing", "done"}
          /\ relay[q] \in {"midstream", "closing"}
          /\ relay'[q] = "reset" => relay[q] = "midstream"
      BY <2>3 DEF MidStreamGranted, MidStreamDenied, CloseOut, TypeOK
    <3>2. Pipe(q)' = Pipe(q) /\ InHand(q)' = InHand(q)
      BY <3>1 DEF Pipe, InHand
    <3>3. HasError(q)' = HasError(q) /\ InnerClosed(<<q, 1>>)' = InnerClosed(<<q, 1>>)
      BY <3>1 DEF HasError, InnerClosed
    <3> QED BY <3>1, <3>2, <3>3, <1>a DEF PipeHolds
  <2>4. CASE EmitReset(q)
    <3>1. HasError(q)'
      BY <2>4, <1>a, ErrorStays DEF EmitReset, PipeHolds, Chunks
    <3> QED BY <2>4, <3>1, <1>a DEF EmitReset, PipeHolds, TypeOK
  <2>5. CASE EmitRetryError(q)
    <3>1. HasError(q)'
      BY <2>5, ErrorStays DEF EmitRetryError, Chunks
    <3> QED BY <2>5, <3>1, <1>a DEF EmitRetryError, PipeHolds, TypeOK
  <2> QED BY <1>11, <2>1, <2>2, <2>3, <2>4, <2>5 DEF RelayStep
<1>12. ASSUME NEW r \in Reqs, CallerStep(r) PROVE PipeHolds(q)'
  <2>1. UNCHANGED <<phase, hand, consumer, produced, inner, sent, relay>>
    BY <1>12 DEF CallerStep, CallerReceives, CallerStops, CallerSeesEOF
  <2> QED BY <2>1, <1>a, PipeKept
<1>13. ASSUME NEW s \in Streams, ConsumerStep(s) PROVE PipeHolds(q)'
  <2>0. UNCHANGED <<phase, sent, relay>>
    BY <1>13 DEF ConsumerStep, ConsumerReads, ConsumerUsage, ConsumerFinishes, ConsumerErrors,
          ConsumerParses, ConsumerEOF, ConsumerSends, ContextClosesBody,
          ConsumerCloses, ConsumerEnds
  <2>1. CASE s # <<q, 1>>
    <3>1. /\ hand'[<<q, 1>>] = hand[<<q, 1>>]
          /\ consumer'[<<q, 1>>] = consumer[<<q, 1>>]
          /\ produced'[<<q, 1>>] = produced[<<q, 1>>]
          /\ inner'[<<q, 1>>] = inner[<<q, 1>>]
      BY <1>13, <2>1, <1>b DEF ConsumerStep, ConsumerReads, ConsumerUsage, ConsumerFinishes,
         ConsumerErrors, ConsumerParses, ConsumerEOF, ConsumerSends,
         ContextClosesBody, ConsumerCloses, ConsumerEnds, TypeOK
    <3> QED BY <2>0, <3>1, <1>a, PipeKept
  <2>2. CASE s = <<q, 1>>
    <3>1. HasError(q)' = HasError(q)
      BY <2>0 DEF HasError
    <3>2. Pipe(q) \in Seq(Chunks) /\ Cardinality(Contents(Pipe(q))) \in Nat
      BY PipeType, ContentsFinite
    <3>3. CASE ConsumerReads(s) \/ ConsumerUsage(s)
      <4>1. /\ hand[s] = "none" /\ hand'[s] \in ReadsOn /\ consumer[s] = "reading"
            /\ produced'[s] = produced[s] + 1 /\ UNCHANGED <<consumer, inner>>
        BY <3>3 DEF ConsumerReads, ConsumerUsage, ConsumerParses, TypeOK, ReadsOn
      <4>2. Pipe(q)' = Pipe(q) /\ InHand(q)' = 1 /\ InHand(q) = 0
        BY <4>1, <2>0, <2>2 DEF Pipe, InHand, ReadsOn
      <4> QED BY <2>0, <2>2, <3>1, <3>2, <4>1, <4>2, <1>a DEF PipeHolds, InnerClosed
    <3>4. CASE ConsumerFinishes(s) \/ ConsumerErrors(s)
      <4>1. /\ hand[s] = "none" /\ hand'[s] \in {"final", "error"}
            /\ consumer[s] = "reading" /\ UNCHANGED <<consumer, inner, produced>>
        BY <3>4 DEF ConsumerFinishes, ConsumerErrors, ConsumerParses, TypeOK
      <4>2. Pipe(q)' = Pipe(q) /\ InHand(q)' = InHand(q)
        BY <4>1, <2>0, <2>2 DEF Pipe, InHand, ReadsOn
      <4> QED BY <2>0, <2>2, <3>1, <4>1, <4>2, <1>a DEF PipeHolds, InnerClosed
    <3>5. CASE ConsumerSends(s)
      <4>1. /\ hand[s] # "none" /\ hand'[s] = "none" /\ consumer[s] = "reading"
            /\ inner'[s] = Append(inner[s], hand[s]) /\ UNCHANGED produced
            /\ hand[s] \in Chunks
        BY <3>5 DEF ConsumerSends, TypeOK
      <4>2. Pipe(q)' = Append(Pipe(q), hand[s])
        <5>1. sent[q] \o Append(inner[s], hand[s]) = Append(sent[q] \o inner[s], hand[s])
          <6> DEFINE a == sent[q]
                     b == inner[s]
                     x == hand[s]
          <6>1. a \in Seq(Chunks) /\ b \in Seq(Chunks) /\ x \in Chunks
            BY <4>1, <2>2, PipeType
          <6> HIDE DEF a, b, x
          <6>2. a \o Append(b, x) = Append(a \o b, x)
            BY <6>1, ConcatAppend
          <6> QED BY <6>2 DEF a, b, x
        <5> QED BY <4>1, <2>0, <2>2, <5>1 DEF Pipe
      <4>3. Cardinality(Contents(Pipe(q)')) + 0 = Cardinality(Contents(Pipe(q))) + InHand(q)
        BY <3>2, <4>1, <4>2, <2>2, ContentsAppend DEF InHand
      <4>4. InHand(q)' = 0
        BY <4>1, <2>2 DEF InHand, ReadsOn
      <4>5. ~(relay[q] \in {"closing", "done"} /\ ~HasError(q) /\ phase[q] = 1)
        BY <4>1, <2>2, <1>a DEF PipeHolds, InnerClosed
      <4> QED BY <2>0, <2>2, <3>1, <4>1, <4>3, <4>4, <4>5, <1>a DEF PipeHolds, Contents
    <3>6. CASE ConsumerEOF(s) \/ ContextClosesBody(s) \/ ConsumerCloses(s)
               \/ ConsumerEnds(s)
      <4>1. /\ UNCHANGED <<hand, inner, produced>>
            /\ consumer[s] # "reading" \/ hand[s] = "none" \/ UNCHANGED consumer
            /\ InnerClosed(s) => InnerClosed(s)'
        BY <3>6 DEF ConsumerEOF, ContextClosesBody, ConsumerCloses, ConsumerEnds,
           TypeOK, InnerClosed
      <4>2. Pipe(q)' = Pipe(q) /\ InHand(q)' = InHand(q)
        BY <4>1, <2>0 DEF Pipe, InHand
      <4> QED BY <2>0, <2>2, <3>1, <4>1, <4>2, <1>a DEF PipeHolds
    <3> QED BY <1>13, <3>3, <3>4, <3>5, <3>6 DEF ConsumerStep
  <2> QED BY <2>1, <2>2
<1> QED BY <1>1, <1>2, <1>3, <1>6, <1>8, <1>9, <1>10, <1>11, <1>12, <1>13
        DEF Next, OpenStep

LEMMA PipeLosesNothing == TypeOK /\ PipeInv => NoChunkLost
<1> SUFFICES ASSUME TypeOK, PipeInv, NEW r \in Reqs,
                    relay[r] \in {"closing", "done"},
                    \A i \in 1 .. Len(sent[r]) : sent[r][i] # "error"
             PROVE  Cardinality(SentParsed(r)) = produced[<<r, 1>>]
    BY DEF NoChunkLost
<1>1. PipeHolds(r) /\ ~HasError(r)
    BY DEF PipeInv, HasError
<1>2. phase[r] = 1 /\ inner[<<r, 1>>] = << >> /\ hand[<<r, 1>>] = "none"
    BY <1>1 DEF PipeHolds, InnerClosed, TypeOK
<1>3. Pipe(r) = sent[r]
    BY <1>2, PipeType, ConcatEmptySeq DEF Pipe
<1>4. Contents(Pipe(r)) = SentParsed(r)
    BY <1>3 DEF Contents, SentParsed
<1>5. Cardinality(Contents(Pipe(r))) \in Nat
    BY PipeType, ContentsFinite
<1> QED BY <1>1, <1>2, <1>4, <1>5 DEF PipeHolds, InHand, ReadsOn

(***************************************************************************)
(* No chunk is lost between the parser and the caller: a relay that ends   *)
(* without forwarding an error has sent every content chunk the consumer   *)
(* ever parsed, for every retry policy, buffer size and number of chunks.  *)
(***************************************************************************)
THEOREM ChunksAreDelivered == Spec => []NoChunkLost
<1> DEFINE IInv == TypeOK /\ ControlInv /\ PipeInv
<1>1. Init => IInv
    BY TypeInit, ControlInit, PipeInit
<1>2. IInv /\ [Next]_vars => IInv'
    BY TypeNext, ControlNext, PipeNext
<1>3. IInv => NoChunkLost
    BY PipeLosesNothing
<1> QED BY <1>1, <1>2, <1>3, PTL DEF Spec

-----------------------------------------------------------------------------
(***************************************************************************)
(* The chunks that close a stream.  What has been sent to the caller and   *)
(* what waits in the channel of the stream the relay is on form one line;  *)
(* the consumer appends to it only while nothing has closed it, and only   *)
(* the Reset of the one mid-stream retry opens it again.                   *)
(***************************************************************************)
Line(r) == sent[r] \o inner[Current(r)]

Closing == {"final", "error"}

Unclosed(p) == p = << >> \/ p[Len(p)] \notin Closing

NoReset(p) == \A i \in 1 .. Len(p) : p[i] # "reset"

WellClosed(p) ==
    /\ \A i \in 1 .. Len(p) - 1 :
           p[i] # "final" /\ (p[i] = "error" <=> p[i + 1] = "reset")
    /\ \A i, j \in 1 .. Len(p) : p[i] = "reset" /\ p[j] = "reset" => i = j

\* The relay is between the Reset and the second stream.
Restarting(r) == phase[r] = 2 /\ (Opening(r) \/ relay[r] \in {"opening", "refused"})

CloseHolds(r) ==
    /\ hand[<<r, 1>>] # "reset" /\ hand[<<r, 2>>] # "reset"
    /\ WellClosed(Line(r))
    /\ phase[r] = 1 =>
           NoReset(Line(r)) /\ inner[<<r, 2>>] = << >> /\ consumer[<<r, 2>>] = "none"
    /\ phase[r] = 1 /\ pc[r] # "open" => Line(r) = << >>
    /\ consumer[Current(r)] = "reading" => Unclosed(Line(r))
    /\ relay[r] \in {"midstream", "reset"} =>
           /\ phase[r] = 1 /\ inner[<<r, 1>>] = << >>
           /\ sent[r] # << >> /\ sent[r][Len(sent[r])] = "error"
    /\ Restarting(r) =>
           /\ Unclosed(Line(r)) /\ inner[<<r, 2>>] = << >>
           /\ consumer[<<r, 2>>] = "none"
    /\ relay[r] \in {"opening", "refused"} => phase[r] = 2
    /\ relay[r] = "refused" => pc[r] = "failed"

CloseInv == \A r \in Reqs : CloseHolds(r)

LEMMA AppendIsLast ==
    ASSUME NEW p \in Seq(Chunks), NEW x \in Chunks
    PROVE  /\ Len(p) \in Nat /\ Len(Append(p, x)) = Len(p) + 1
           /\ Append(p, x) \in Seq(Chunks) /\ Append(p, x) # << >>
           /\ \A i \in 1 .. Len(p) : Append(p, x)[i] = p[i]
           /\ Append(p, x)[Len(p) + 1] = x
<1>1. Append(p, x) \in Seq(Chunks) /\ Len(p) \in Nat /\ Len(Append(p, x)) = Len(p) + 1
    BY AppendProperties, LenProperties
<1>2. Append(p, x) # << >>
    BY <1>1, EmptySeq
<1> QED BY <1>1, <1>2, AppendProperties

(* A chunk appended to a line that nothing has closed. *)
LEMMA WellClosedAppend ==
    ASSUME NEW p \in Seq(Chunks), NEW x \in Chunks, WellClosed(p), Unclosed(p),
           x # "reset"
    PROVE  WellClosed(Append(p, x))
<1> DEFINE a == Append(p, x)
           n == Len(p)
<1>1. /\ n \in Nat /\ Len(a) = n + 1
      /\ \A i \in 1 .. n : a[i] = p[i]
      /\ a[n + 1] = x
    BY AppendIsLast
<1>2. n > 0 => p[n] \notin Closing
    BY EmptySeq DEF Unclosed
<1> HIDE DEF a
<1>3. ASSUME NEW i \in 1 .. Len(a) - 1
      PROVE  a[i] # "final" /\ (a[i] = "error" <=> a[i + 1] = "reset")
  <2>1. i \in 1 .. n
    BY <1>1, <1>3
  <2>2. CASE i = n
    BY <1>1, <1>2, <2>1, <2>2 DEF Closing
  <2>3. CASE i < n
    BY <1>1, <2>1, <2>3 DEF WellClosed
  <2> QED BY <2>1, <2>2, <2>3, <1>1
<1>4. ASSUME NEW i \in 1 .. Len(a), NEW j \in 1 .. Len(a), a[i] = "reset", a[j] = "reset"
      PROVE  i = j
  <2>1. i \in 1 .. n /\ j \in 1 .. n
    BY <1>1, <1>4
  <2> QED BY <1>1, <1>4, <2>1 DEF WellClosed
<1> QED BY <1>3, <1>4 DEF WellClosed, a

(* The Reset behind the error of a stream that had none. *)
LEMMA WellClosedReset ==
    ASSUME NEW p \in Seq(Chunks), WellClosed(p), NoReset(p), p # << >>,
           p[Len(p)] = "error"
    PROVE  WellClosed(Append(p, "reset")) /\ Unclosed(Append(p, "reset"))
<1> DEFINE a == Append(p, "reset")
           n == Len(p)
<1>0. "reset" \in Chunks
    BY DEF Chunks
<1>1. /\ n \in Nat /\ Len(a) = n + 1 /\ a # << >>
      /\ \A i \in 1 .. n : a[i] = p[i]
      /\ a[n + 1] = "reset"
    BY <1>0, AppendIsLast
<1> HIDE DEF a
<1>3. ASSUME NEW i \in 1 .. Len(a) - 1
      PROVE  a[i] # "final" /\ (a[i] = "error" <=> a[i + 1] = "reset")
  <2>1. i \in 1 .. n
    BY <1>1, <1>3
  <2>2. CASE i = n
    BY <1>1, <2>1, <2>2
  <2>3. CASE i < n
    BY <1>1, <2>1, <2>3 DEF WellClosed
  <2> QED BY <2>1, <2>2, <2>3, <1>1
<1>4. ASSUME NEW i \in 1 .. Len(a), a[i] = "reset"
      PROVE  i = n + 1
  <2>1. CASE i \in 1 .. n
    BY <1>1, <1>4, <2>1 DEF NoReset
  <2> QED BY <1>1, <1>4, <2>1
<1> QED BY <1>1, <1>3, <1>4 DEF WellClosed, Unclosed, Closing, a

LEMMA LineType ==
    ASSUME TypeOK, NEW r \in Reqs
    PROVE  /\ Current(r) \in Streams /\ <<r, 1>> \in Streams /\ <<r, 2>> \in Streams
           /\ sent[r] \in Seq(Chunks) /\ inner[Current(r)] \in Seq(Chunks)
           /\ Line(r) \in Seq(Chunks)
           /\ Len(Line(r)) = Len(sent[r]) + Len(inner[Current(r)])
           /\ Len(sent[r]) \in Nat /\ Len(inner[Current(r)]) \in Nat
           /\ \A i \in 1 .. Len(sent[r]) : Line(r)[i] = sent[r][i]
<1>1. /\ Current(r) \in Streams /\ <<r, 1>> \in Streams /\ <<r, 2>> \in Streams
      /\ sent[r] \in Seq(Chunks) /\ inner[Current(r)] \in Seq(Chunks)
    BY CurrentInStreams DEF TypeOK, Streams
<1>2. Line(r) \in Seq(Chunks) /\ Len(Line(r)) = Len(sent[r]) + Len(inner[Current(r)])
    BY <1>1, ConcatProperties DEF Line
<1>3. Len(sent[r]) \in Nat /\ Len(inner[Current(r)]) \in Nat
    BY <1>1, LenProperties
<1>4. \A i \in 1 .. Len(sent[r]) : Line(r)[i] = sent[r][i]
    BY <1>1, ConcatPrefix DEF Line
<1> QED BY <1>1, <1>2, <1>3, <1>4

LEMMA CloseInit == Init => CloseInv
<1> SUFFICES ASSUME Init, NEW r \in Reqs PROVE CloseHolds(r)
    BY DEF CloseInv
<1>1. /\ hand[<<r, 1>>] = "none" /\ hand[<<r, 2>>] = "none" /\ phase[r] = 1
      /\ relay[r] = "none" /\ sent[r] = << >> /\ inner[<<r, 1>>] = << >>
      /\ inner[<<r, 2>>] = << >> /\ consumer[<<r, 2>>] = "none"
      /\ Current(r) = <<r, 1>>
    BY DEF Init, Streams, Current
<1>2. Line(r) = << >>
    BY <1>1, ConcatEmptySeq, EmptySeq DEF Line
<1>3. WellClosed(Line(r)) /\ NoReset(Line(r)) /\ Unclosed(Line(r))
    BY <1>2 DEF WellClosed, NoReset, Unclosed
<1> QED BY <1>1, <1>2, <1>3 DEF CloseHolds, Restarting

(* A step that leaves r's line as it is and restarts nothing. *)
LEMMA CloseKept ==
    ASSUME NEW r \in Reqs, CloseHolds(r),
           hand'[<<r, 1>>] # "reset", hand'[<<r, 2>>] # "reset",
           phase[r] = 1 => inner'[<<r, 1>>] = inner[<<r, 1>>],
           inner'[<<r, 2>>] = inner[<<r, 2>>],
           sent'[r] = sent[r], phase'[r] = phase[r], phase[r] \in {1, 2},
           relay'[r] = relay[r] \/ relay'[r] \in {"closing", "done"}
                \/ (relay'[r] = "reset" /\ relay[r] = "midstream"),
           consumer[<<r, 2>>] = "none" => consumer'[<<r, 2>>] = "none",
           consumer'[Current(r)] = "reading" => consumer[Current(r)] = "reading",
           pc[r] \in {"open", "failed"} => pc'[r] = pc[r],
           phase[r] = 2 /\ Opening(r)' => Opening(r)
    PROVE  CloseHolds(r)'
<1>1. Current(r)' = Current(r) /\ Line(r)' = Line(r)
    BY DEF Current, Line
<1>2. Restarting(r)' => Restarting(r)
    BY DEF Restarting
<1>3. /\ WellClosed(Line(r))' = WellClosed(Line(r))
      /\ NoReset(Line(r))' = NoReset(Line(r))
      /\ Unclosed(Line(r))' = Unclosed(Line(r))
    BY <1>1 DEF WellClosed, NoReset, Unclosed
<1> QED BY <1>1, <1>2, <1>3 DEF CloseHolds

LEMMA OpenFailsClose ==
    ASSUME TypeOK, NEW r \in Reqs, OpenFails(r), Opening(r),
           UNCHANGED <<phase, consumer, hand, inner, sent>>,
           NEW q \in Reqs, CloseHolds(q)
    PROVE  CloseHolds(q)'
<1>1. /\ Line(q)' = Line(q) /\ Current(q)' = Current(q) /\ phase[q] \in {1, 2}
    BY DEF Line, Current, TypeOK
<1>2. CASE q # r
  <2>1. pc'[q] = pc[q] /\ relay'[q] = relay[q]
    BY <1>2 DEF OpenFails, TypeOK
  <2> QED BY <1>1, <2>1, CloseKept DEF Opening, CloseHolds
<1>3. CASE q = r /\ phase[q] = 1
  <2>1. pc'[q] = "failed" /\ relay'[q] = relay[q] /\ pc[q] # "open"
    BY <1>3 DEF OpenFails, TypeOK, Opening
  <2> QED BY <1>1, <1>3, <2>1, CloseKept DEF CloseHolds
<1>4. CASE q = r /\ phase[q] = 2
  <2>1. relay'[q] = "refused" /\ pc'[q] = "failed" /\ Restarting(q)
    BY <1>4 DEF OpenFails, TypeOK, Restarting
  <2>2. /\ WellClosed(Line(q))' = WellClosed(Line(q))
        /\ Unclosed(Line(q))' = Unclosed(Line(q))
    BY <1>1 DEF WellClosed, Unclosed
  <2> QED BY <1>1, <1>4, <2>1, <2>2 DEF CloseHolds
<1> QED BY <1>1, <1>2, <1>3, <1>4

LEMMA CloseNext == TypeOK /\ ControlInv /\ CloseInv /\ [Next]_vars => CloseInv'
<1> SUFFICES ASSUME TypeOK, ControlInv, CloseInv, [Next]_vars, NEW q \in Reqs
             PROVE  CloseHolds(q)'
    BY DEF CloseInv
<1>a. CloseHolds(q) /\ Control(q)
    BY DEF CloseInv, ControlInv
<1>b. /\ <<q, 1>> \in Streams /\ <<q, 2>> \in Streams /\ phase[q] \in {1, 2}
      /\ Current(q) \in Streams /\ DOMAIN pc = Reqs
      /\ hand[<<q, 1>>] # "reset" /\ hand[<<q, 2>>] # "reset"
    BY <1>a, LineType DEF TypeOK, CloseHolds
<1> USE DEF openVars, budgetVars, streamVars, relayVars, callerVars
<1>1. CASE UNCHANGED vars
    BY <1>1, <1>a, <1>b, CloseKept DEF vars, Opening
<1>2. CASE Refill
    BY <1>2, <1>a, <1>b, CloseKept DEF Refill, Opening
<1>3. ASSUME NEW r \in Reqs, UNCHANGED <<phase, consumer, hand, inner, sent, relay>>,
             NEW l, pc' = [pc EXCEPT ![r] = l], pc[r] \notin {"open", "failed"},
             phase[r] = 2 /\ Opening(r)' => Opening(r)
      PROVE  CloseHolds(q)'
  <2>1. pc[q] \in {"open", "failed"} => pc'[q] = pc[q]
    BY <1>3, <1>b
  <2>2. phase[q] = 2 /\ Opening(q)' => Opening(q)
    BY <1>3, <1>b DEF Opening
  <2> QED BY <1>3, <1>a, <1>b, <2>1, <2>2, CloseKept
<1>4. ASSUME NEW r \in Reqs, Call(r) \/ CancelContext(r) \/ AcquireStreamSlot(r)
      PROVE  CloseHolds(q)'
  <2>1. CASE CancelContext(r)
    BY <2>1, <1>a, <1>b, CloseKept DEF CancelContext, Opening
  <2>2. CASE Call(r)
    <3>1. pc' = [pc EXCEPT ![r] = "acquire"] /\ pc[r] = "idle"
      BY <2>2 DEF Call
    <3> QED BY <2>2, <3>1, <1>b, <1>3 DEF Call, Opening
  <2>3. CASE AcquireStreamSlot(r)
    <3>1. pc' = [pc EXCEPT ![r] = "attempt"] /\ pc[r] = "acquire" /\ phase[r] = 1
      BY <2>3 DEF AcquireStreamSlot, ControlInv, Control
    <3>2. phase[r] = 2 /\ Opening(r)' => Opening(r)
      BY <3>1
    <3>3. UNCHANGED <<phase, consumer, hand, inner, sent, relay>>
      BY <2>3 DEF AcquireStreamSlot
    <3> QED BY <3>1, <3>2, <3>3, <1>3
  <2> QED BY <1>4, <2>1, <2>2, <2>3
<1>6. ASSUME NEW r \in Reqs, LoopStep(r) PROVE CloseHolds(q)'
  <2>1. CASE AttemptAborted(r)
    BY <2>1, <1>a, OpenFailsClose DEF AttemptAborted, Opening
  <2>2. CASE RetryDenied(r)
    BY <2>2, <1>a, OpenFailsClose DEF RetryDenied, Opening
  <2>3. CASE BackoffCancelled(r)
    BY <2>3, <1>a, OpenFailsClose DEF BackoffCancelled, Opening
  <2>4. CASE AcquireRejected(r)
    <3>1. pc' = [pc EXCEPT ![r] = "failed"] /\ pc[r] = "acquire" /\ phase[r] = 1
      BY <2>4 DEF AcquireRejected, ControlInv, Control
    <3>2. phase[r] = 2 /\ Opening(r)' => Opening(r)
      BY <3>1
    <3>3. UNCHANGED <<phase, consumer, hand, inner, sent, relay>>
      BY <2>4 DEF AcquireRejected
    <3> QED BY <3>1, <3>2, <3>3, <1>3
  <2>5. CASE Dial(r)
    <3>1. pc' = [pc EXCEPT ![r] = "do"] /\ pc[r] = "attempt"
      BY <2>5 DEF Dial
    <3> QED BY <2>5, <3>1, <1>b, <1>3 DEF Dial, Opening
  <2>6. CASE PeekIdleFires(r)
    BY <2>6, <1>a, <1>b, CloseKept DEF PeekIdleFires, Opening
  <2>7. CASE RetryGranted(r)
    <3>1. pc' = [pc EXCEPT ![r] = "backoff"] /\ pc[r] = "budget"
      BY <2>7 DEF RetryGranted
    <3> QED BY <2>7, <3>1, <1>b, <1>3 DEF RetryGranted, Opening
  <2>8. CASE BackoffElapsed(r)
    <3>1. pc' = [pc EXCEPT ![r] = "attempt"] /\ pc[r] = "backoff"
      BY <2>8 DEF BackoffElapsed
    <3> QED BY <2>8, <3>1, <1>b, <1>3 DEF BackoffElapsed, Opening
  <2> QED BY <1>6, <2>1, <2>2, <2>3, <2>4, <2>5, <2>6, <2>7, <2>8 DEF LoopStep
<1>7. ASSUME NEW r \in Reqs, NEW t \in BOOLEAN, AttemptFails(r, t),
             pc[r] \in {"do", "peek"}
      PROVE  CloseHolds(q)'
  <2>1. CASE OpenFails(r)
    BY <1>7, <2>1, <1>a, OpenFailsClose DEF AttemptFails, Opening
  <2>2. CASE pc' = [pc EXCEPT ![r] = "budget"] /\ UNCHANGED <<inUse, relay>>
    BY <1>7, <2>2, <1>b, <1>3 DEF AttemptFails, Opening
  <2> QED BY <1>7, <2>1, <2>2 DEF AttemptFails
<1>8. ASSUME NEW r \in Reqs, DialStep(r) PROVE CloseHolds(q)'
  <2>1. CASE ResponseOK(r)
    <3>1. pc' = [pc EXCEPT ![r] = "peek"] /\ pc[r] = "do"
      BY <2>1 DEF ResponseOK
    <3> QED BY <2>1, <3>1, <1>b, <1>3 DEF ResponseOK, Opening
  <2>2. CASE ResponseFails(r)
    BY <2>2, <1>7 DEF ResponseFails
  <2> QED BY <1>8, <2>1, <2>2 DEF DialStep
<1>9. ASSUME NEW r \in Reqs, PeekStep(r) PROVE CloseHolds(q)'
  <2>1. CASE PeekOK(r)
    <3>1. /\ UNCHANGED <<phase, hand, inner, sent>> /\ pc[r] = "peek"
          /\ pc' = [pc EXCEPT ![r] = "open"]
          /\ consumer' = [consumer EXCEPT ![Current(r)] = "reading"]
          /\ relay' = [relay EXCEPT ![r] = "forward"]
      BY <2>1 DEF PeekOK, OpenSucceeds
    <3>2. /\ DOMAIN relay = Reqs /\ DOMAIN consumer = Streams
          /\ Current(r) \in Streams
      BY LineType DEF TypeOK
    <3>3. Line(q)' = Line(q) /\ Current(q)' = Current(q)
      BY <3>1 DEF Line, Current
    <3>4. CASE q # r
      <4>1. /\ relay'[q] = relay[q] /\ consumer'[<<q, 2>>] = consumer[<<q, 2>>]
            /\ consumer'[Current(q)] = consumer[Current(q)] /\ pc'[q] = pc[q]
        BY <3>1, <3>2, <3>4, <1>b DEF Current
      <4> QED BY <3>1, <4>1, <1>a, <1>b, CloseKept DEF Opening
    <3>5. CASE q = r
      <4>1. /\ relay'[q] = "forward" /\ pc'[q] = "open"
            /\ phase[q] = 1 => consumer'[<<q, 2>>] = consumer[<<q, 2>>]
        BY <3>1, <3>2, <3>5, <1>b DEF Current
      <4>2. Unclosed(Line(q))
        <5>1. CASE phase[q] = 1
          <6>1. Line(q) = << >>
            BY <5>1, <3>1, <3>5, <1>a DEF CloseHolds
          <6> QED BY <6>1 DEF Unclosed
        <5>2. CASE phase[q] = 2
          BY <5>2, <3>1, <3>5, <1>a DEF CloseHolds, Restarting, Opening
        <5> QED BY <5>1, <5>2, <1>b
      <4>3. /\ WellClosed(Line(q))' = WellClosed(Line(q))
            /\ NoReset(Line(q))' = NoReset(Line(q))
            /\ Unclosed(Line(q))' = Unclosed(Line(q))
        BY <3>3 DEF WellClosed, NoReset, Unclosed
      <4>4. ~Restarting(q)'
        BY <4>1 DEF Restarting, Opening
      <4> QED BY <3>1, <3>3, <4>1, <4>2, <4>3, <4>4, <1>a DEF CloseHolds
    <3> QED BY <3>4, <3>5
  <2>2. CASE PeekFails(r)
    BY <2>2, <1>7 DEF PeekFails
  <2> QED BY <1>9, <2>1, <2>2 DEF PeekStep
<1>10. ASSUME NEW r \in Reqs, RelayStep(r), q # r PROVE CloseHolds(q)'
  <2>1. Current(r) # <<q, 1>> /\ Current(r) # <<q, 2>> /\ Current(r) \in Streams
    BY <1>10, CurrentInStreams DEF Current
  <2>2. /\ phase'[q] = phase[q] /\ sent'[q] = sent[q] /\ relay'[q] = relay[q]
        /\ inner'[<<q, 1>>] = inner[<<q, 1>>] /\ inner'[<<q, 2>>] = inner[<<q, 2>>]
        /\ UNCHANGED <<hand, consumer>> /\ pc'[q] = pc[q]
    <3>0. /\ phase \in [Reqs -> {1, 2}] /\ sent \in [Reqs -> Seq(Chunks)]
          /\ inner \in [Streams -> Seq(Chunks)] /\ DOMAIN relay = Reqs
      BY DEF TypeOK
    <3>1. CASE ForwardChunk(r)
      BY <1>10, <1>b, <2>1, <3>0, <3>1 DEF ForwardChunk
    <3>2. CASE SourceClosed(r)
      BY <1>10, <1>b, <3>0, <3>2 DEF SourceClosed
    <3>3. CASE MidStreamGranted(r)
      BY <1>10, <1>b, <3>0, <3>3 DEF MidStreamGranted
    <3>4. CASE MidStreamDenied(r)
      BY <1>10, <1>b, <3>0, <3>4 DEF MidStreamDenied
    <3>5. CASE EmitReset(r)
      BY <1>10, <1>b, <3>0, <3>5 DEF EmitReset
    <3>6. CASE EmitRetryError(r)
      BY <1>10, <1>b, <3>0, <3>6 DEF EmitRetryError
    <3>7. CASE CloseOut(r)
      BY <1>10, <1>b, <3>0, <3>7 DEF CloseOut
    <3> QED BY <1>10, <3>1, <3>2, <3>3, <3>4, <3>5, <3>6, <3>7 DEF RelayStep
  <2> QED BY <2>2, <1>a, <1>b, CloseKept DEF Opening
<1>11. ASSUME RelayStep(q) PROVE CloseHolds(q)'
  <2>1. CASE ForwardChunk(q)
    <3> DEFINE s == Current(q)
               x == Head(inner[s])
    <3>1. /\ s \in Streams /\ sent[q] \in Seq(Chunks)
          /\ inner[s] \in Seq(Chunks) /\ inner[s] # << >>
      BY <2>1, LineType DEF ForwardChunk
    <3>2. /\ sent'[q] = Append(sent[q], x) /\ inner' = [inner EXCEPT ![s] = Tail(@)]
          /\ UNCHANGED <<phase, hand, consumer, pc>> /\ relay[q] = "forward"
      BY <2>1 DEF ForwardChunk, TypeOK
    <3>3. x \in Chunks
      BY <3>1, HeadTailProperties
    <3>4. inner'[s] = Tail(inner[s]) /\ Current(q)' = s
      BY <3>1, <3>2 DEF TypeOK, Current
    <3>5. Line(q)' = Line(q)
      <4>1. Append(sent[q], x) \o Tail(inner[s]) = sent[q] \o inner[s]
        BY <3>1, MoveHead
      <4> QED BY <3>2, <3>4, <4>1 DEF Line
    <3>6. /\ relay'[q] \in {"forward", "midstream", "closing"}
          /\ relay'[q] = "midstream" => x = "error" /\ phase[q] = 1
      BY <2>1 DEF ForwardChunk, TypeOK
    <3>7. ASSUME relay'[q] = "midstream"
          PROVE  /\ phase[q] = 1 /\ inner'[<<q, 1>>] = << >>
                 /\ sent'[q] # << >> /\ sent'[q][Len(sent'[q])] = "error"
      <4>1. x = "error" /\ phase[q] = 1 /\ s = <<q, 1>>
        BY <3>6, <3>7 DEF Current
      <4>2. /\ sent'[q] # << >> /\ Len(sent'[q]) = Len(sent[q]) + 1
            /\ sent'[q][Len(sent[q]) + 1] = x /\ Len(sent[q]) \in Nat
        BY <3>1, <3>2, <3>3, AppendIsLast
      <4>3. Tail(inner[s]) = << >>
        <5> DEFINE n == Len(sent[q])
                   p == Line(q)
                   m == Len(inner[s])
        <5>1. /\ p \in Seq(Chunks) /\ Len(p) = n + m /\ n \in Nat /\ m \in Nat
          BY LineType
        <5>2. m # 0 /\ Len(Tail(inner[s])) = m - 1 /\ Tail(inner[s]) \in Seq(Chunks)
          BY <3>1, HeadTailProperties, EmptySeq
        <5>3. p[n + 1] = "error"
          <6>1. (sent[q] \o inner[s])[n + 1] = x
            BY <3>1, ConcatNext
          <6> QED BY <6>1, <4>1 DEF Line
        <5>4. WellClosed(p) /\ NoReset(p)
          BY <4>1, <1>a DEF CloseHolds
        <5> HIDE DEF p, n, m
        <5>5. ASSUME m # 1 PROVE FALSE
          <6>1. n + 1 \in 1 .. Len(p) - 1 /\ (n + 1) + 1 \in 1 .. Len(p)
            BY <5>1, <5>2, <5>5
          <6>2. p[(n + 1) + 1] = "reset"
            BY <5>3, <5>4, <6>1 DEF WellClosed
          <6> QED BY <5>4, <6>1, <6>2 DEF NoReset
        <5> QED BY <5>2, <5>5, EmptySeq
      <4> QED BY <4>1, <4>2, <4>3, <3>4
    <3>8. /\ WellClosed(Line(q))' = WellClosed(Line(q))
          /\ NoReset(Line(q))' = NoReset(Line(q))
          /\ Unclosed(Line(q))' = Unclosed(Line(q))
      BY <3>5 DEF WellClosed, NoReset, Unclosed
    <3>9. ~Restarting(q)' /\ pc[q] = "open" /\ pc'[q] = "open"
      BY <3>2, <3>6, <1>a DEF Restarting, Opening, Control
    <3>10. phase[q] = 1 => inner'[<<q, 2>>] = inner[<<q, 2>>]
      BY <3>2, <1>b DEF Current, TypeOK
    <3> HIDE DEF s, x
    <3> QED BY <3>2, <3>4, <3>6, <3>7, <3>8, <3>9, <3>10, <1>a DEF CloseHolds, s
  <2>2. CASE SourceClosed(q) \/ MidStreamGranted(q) \/ MidStreamDenied(q) \/ CloseOut(q)
    <3>1. /\ UNCHANGED <<phase, hand, consumer, inner, sent, pc>>
          /\ relay'[q] \in {"reset", "closing", "done"}
          /\ relay'[q] = "reset" => relay[q] = "midstream"
      BY <2>2 DEF SourceClosed, MidStreamGranted, MidStreamDenied, CloseOut, TypeOK
    <3> QED BY <3>1, <1>a, <1>b, CloseKept DEF Opening
  <2>3. CASE EmitReset(q)
    <3>1. /\ sent'[q] = Append(sent[q], "reset") /\ phase'[q] = 2
          /\ relay'[q] = "opening" /\ UNCHANGED <<hand, consumer, inner>>
          /\ relay[q] = "reset"
      BY <2>3 DEF EmitReset, TypeOK
    <3>2. /\ phase[q] = 1 /\ inner[<<q, 1>>] = << >> /\ inner[<<q, 2>>] = << >>
          /\ sent[q] # << >> /\ sent[q][Len(sent[q])] = "error"
          /\ consumer[<<q, 2>>] = "none" /\ WellClosed(Line(q)) /\ NoReset(Line(q))
      BY <3>1, <1>a DEF CloseHolds
    <3>3. sent[q] \in Seq(Chunks) /\ Line(q) = sent[q]
      <4>1. sent[q] \in Seq(Chunks) /\ inner[Current(q)] = << >>
        BY <3>2, LineType DEF Current
      <4>2. sent[q] \o << >> = sent[q]
        BY <4>1, ConcatEmptySeq
      <4> QED BY <4>1, <4>2 DEF Line
    <3>4. Append(sent[q], "reset") \in Seq(Chunks)
      BY <3>3, AppendIsLast DEF Chunks
    <3>5. Line(q)' = Append(sent[q], "reset") /\ Current(q)' = <<q, 2>>
      BY <3>1, <3>2, <3>4, ConcatEmptySeq DEF Line, Current
    <3>6. WellClosed(Append(sent[q], "reset")) /\ Unclosed(Append(sent[q], "reset"))
      BY <3>2, <3>3, WellClosedReset
    <3>7. WellClosed(Line(q))' /\ Unclosed(Line(q))'
      BY <3>5, <3>6 DEF WellClosed, Unclosed
    <3> QED BY <3>1, <3>2, <3>5, <3>7, <1>b DEF CloseHolds
  <2>4. CASE EmitRetryError(q)
    <3>1. /\ sent'[q] = Append(sent[q], "error") /\ UNCHANGED phase
          /\ relay'[q] = "closing" /\ UNCHANGED <<hand, consumer, inner, pc>>
          /\ relay[q] = "refused"
      BY <2>4 DEF EmitRetryError, TypeOK
    <3>2. /\ phase[q] = 2 /\ inner[<<q, 2>>] = << >> /\ consumer[<<q, 2>>] = "none"
          /\ WellClosed(Line(q)) /\ Unclosed(Line(q))
      BY <3>1, <1>a DEF CloseHolds, Restarting
    <3>3. sent[q] \in Seq(Chunks) /\ Line(q) = sent[q]
      <4>1. sent[q] \in Seq(Chunks) /\ inner[Current(q)] = << >>
        BY <3>2, LineType DEF Current
      <4>2. sent[q] \o << >> = sent[q]
        BY <4>1, ConcatEmptySeq
      <4> QED BY <4>1, <4>2 DEF Line
    <3>4. "error" \in Chunks /\ Append(sent[q], "error") \in Seq(Chunks)
      BY <3>3, AppendIsLast DEF Chunks
    <3>5. Line(q)' = Append(sent[q], "error") /\ Current(q)' = <<q, 2>>
      BY <3>1, <3>2, <3>4, ConcatEmptySeq DEF Line, Current
    <3>6. WellClosed(Append(sent[q], "error"))
      BY <3>2, <3>3, <3>4, WellClosedAppend
    <3>7. WellClosed(Line(q))'
      BY <3>5, <3>6 DEF WellClosed
    <3>8. ~Opening(q)
      BY <3>1, <1>a DEF CloseHolds, Opening
    <3> QED BY <3>1, <3>2, <3>5, <3>7, <3>8, <1>b DEF CloseHolds, Restarting, Opening
  <2> QED BY <1>11, <2>1, <2>2, <2>3, <2>4 DEF RelayStep
<1>12. ASSUME NEW r \in Reqs, CallerStep(r) PROVE CloseHolds(q)'
  <2>1. UNCHANGED <<phase, hand, consumer, inner, sent, relay, pc>>
    BY <1>12 DEF CallerStep, CallerReceives, CallerStops, CallerSeesEOF
  <2> QED BY <2>1, <1>a, <1>b, CloseKept DEF Opening
<1>13. ASSUME NEW s \in Streams, ConsumerStep(s) PROVE CloseHolds(q)'
  <2>0. UNCHANGED <<sent, relay, phase, pc>>
    BY <1>13 DEF ConsumerStep, ConsumerReads, ConsumerUsage, ConsumerFinishes,
       ConsumerErrors, ConsumerParses, ConsumerEOF, ConsumerSends,
       ContextClosesBody, ConsumerCloses, ConsumerEnds
  <2>1. hand'[<<q, 1>>] # "reset" /\ hand'[<<q, 2>>] # "reset"
    BY SMTT(40), <1>13, <1>b DEF ConsumerStep, ConsumerReads, ConsumerUsage,
       ConsumerFinishes, ConsumerErrors, ConsumerParses, ConsumerEOF, ConsumerSends,
       ContextClosesBody, ConsumerCloses, ConsumerEnds, TypeOK
  <2>2. /\ consumer[<<q, 2>>] = "none" => consumer'[<<q, 2>>] = "none"
        /\ consumer'[Current(q)] = "reading" => consumer[Current(q)] = "reading"
    BY SMTT(40), <1>13, <1>b DEF ConsumerStep, ConsumerReads, ConsumerUsage,
       ConsumerFinishes, ConsumerErrors, ConsumerParses, ConsumerEOF, ConsumerSends,
       ContextClosesBody, ConsumerCloses, ConsumerEnds, TypeOK
  <2>3. CASE ConsumerSends(s) /\ s = Current(q)
    <3>1. /\ consumer[s] = "reading" /\ hand[s] \in Chunks
          /\ inner' = [inner EXCEPT ![s] = Append(@, hand[s])]
          /\ consumer'[s] = IF hand[s] \in ReadsOn THEN "reading" ELSE "returning"
      BY <2>3 DEF ConsumerSends, TypeOK
    <3> DEFINE a == sent[q]
               b == inner[s]
               x == hand[s]
               p == Line(q)
    <3>2. /\ a \in Seq(Chunks) /\ b \in Seq(Chunks) /\ x \in Chunks
          /\ p \in Seq(Chunks) /\ p = a \o b
      BY <3>1, <2>3, LineType DEF Line
    <3>3. inner'[s] = Append(b, x) /\ Current(q)' = s
      BY <3>1, <2>0, <2>3 DEF TypeOK, Current
    <3>4. Line(q)' = a \o Append(b, x)
      BY <3>3, <2>0 DEF Line
    <3>5. WellClosed(p) /\ Unclosed(p) /\ x # "reset"
      BY <3>1, <2>3, <1>a, <1>b DEF CloseHolds, Current
    <3>6. phase[q] = 1 => /\ NoReset(p) /\ inner'[<<q, 2>>] = << >>
                          /\ consumer'[<<q, 2>>] = "none" /\ pc[q] = "open"
      <4>1. ASSUME phase[q] = 1
            PROVE  s = <<q, 1>> /\ NoReset(p) /\ inner[<<q, 2>>] = << >>
                   /\ consumer[<<q, 2>>] = "none" /\ pc[q] = "open"
        BY <4>1, <2>3, <3>1, <1>a DEF CloseHolds, Current, Control
      <4>2. s = <<q, 1>> => inner'[<<q, 2>>] = inner[<<q, 2>>]
        BY <3>1, <1>b DEF TypeOK
      <4> QED BY <4>1, <4>2, <2>2
    <3>7. ~Restarting(q) /\ relay[q] \notin {"midstream", "reset"}
      <4>1. ~Restarting(q)
        BY <3>1, <2>3, <1>a DEF CloseHolds, Restarting, Current
      <4>2. ASSUME relay[q] \in {"midstream", "reset"} PROVE FALSE
        <5>1. /\ phase[q] = 1 /\ inner[<<q, 1>>] = << >> /\ s = <<q, 1>>
              /\ sent[q] # << >> /\ sent[q][Len(sent[q])] = "error"
          BY <4>2, <2>3, <1>a DEF CloseHolds, Current
        <5>2. p = sent[q]
          BY <5>1, <3>2, ConcatEmptySeq
        <5> QED BY <5>1, <5>2, <3>5 DEF Unclosed, Closing
      <4> QED BY <4>1, <4>2
    <3> HIDE DEF a, b, x, p
    <3>8. Line(q)' = Append(p, x)
      BY <3>2, <3>4, ConcatAppend
    <3>9. WellClosed(Append(p, x)) /\ (NoReset(p) => NoReset(Append(p, x)))
          /\ (x \in ReadsOn => Unclosed(Append(p, x)))
      <4>1. WellClosed(Append(p, x))
        BY <3>2, <3>5, WellClosedAppend
      <4>2. /\ Len(p) \in Nat /\ Len(Append(p, x)) = Len(p) + 1
            /\ \A i \in 1 .. Len(p) : Append(p, x)[i] = p[i]
            /\ Append(p, x)[Len(p) + 1] = x
        BY <3>2, AppendIsLast
      <4>3. NoReset(p) => NoReset(Append(p, x))
        BY <4>2, <3>5 DEF NoReset
      <4>4. x \in ReadsOn => Unclosed(Append(p, x))
        BY <4>2 DEF Unclosed, ReadsOn, Closing
      <4> QED BY <4>1, <4>3, <4>4
    <3>10. /\ WellClosed(Line(q))' /\ (NoReset(p) => NoReset(Line(q))')
           /\ (x \in ReadsOn => Unclosed(Line(q))')
      BY <3>8, <3>9 DEF WellClosed, NoReset, Unclosed
    <3>11. consumer'[s] = "reading" => x \in ReadsOn
      BY <3>1 DEF x
    <3>12. ~Restarting(q)'
      BY <3>7, <2>0 DEF Restarting, Opening
    <3> QED BY <2>0, <2>1, <3>3, <3>6, <3>7, <3>10, <3>11, <3>12, <1>a DEF CloseHolds
  <2>4. CASE ~(ConsumerSends(s) /\ s = Current(q))
    <3>1. inner'[Current(q)] = inner[Current(q)]
      BY SMTT(40), <1>13, <2>4, <1>b DEF ConsumerStep, ConsumerReads, ConsumerUsage,
         ConsumerFinishes, ConsumerErrors, ConsumerParses, ConsumerEOF, ConsumerSends,
         ContextClosesBody, ConsumerCloses, ConsumerEnds, TypeOK
    <3>2. consumer[<<q, 2>>] = "none" => inner'[<<q, 2>>] = inner[<<q, 2>>]
      BY SMTT(40), <1>13, <1>b DEF ConsumerStep, ConsumerReads, ConsumerUsage,
         ConsumerFinishes, ConsumerErrors, ConsumerParses, ConsumerEOF, ConsumerSends,
         ContextClosesBody, ConsumerCloses, ConsumerEnds, TypeOK
    <3>3. phase[q] = 1 => /\ inner'[<<q, 1>>] = inner[<<q, 1>>]
                          /\ inner'[<<q, 2>>] = inner[<<q, 2>>]
      BY <3>1, <3>2, <1>a DEF Current, CloseHolds
    <3>4. phase[q] = 2 => inner'[<<q, 2>>] = inner[<<q, 2>>]
      BY <3>1 DEF Current
    <3> QED BY <2>0, <2>1, <2>2, <3>3, <3>4, <1>a, <1>b, CloseKept DEF Opening
  <2> QED BY <2>3, <2>4
<1> QED BY <1>1, <1>2, <1>4, <1>6, <1>8, <1>9, <1>10, <1>11, <1>12, <1>13
        DEF Next, OpenStep

LEMMA CloseIsLast == TypeOK /\ CloseInv => ClosingChunkIsLast
<1> SUFFICES ASSUME TypeOK, CloseInv, NEW r \in Reqs
             PROVE  WellClosed(sent[r])
    BY DEF ClosingChunkIsLast, WellClosed
<1> DEFINE p == Line(r)
           l == Len(sent[r])
           m == Len(inner[Current(r)])
<1>1. /\ WellClosed(p) /\ Len(p) = l + m /\ l \in Nat /\ m \in Nat
      /\ \A i \in 1 .. l : p[i] = sent[r][i]
    BY LineType DEF CloseInv, CloseHolds
<1> HIDE DEF p, l, m
<1>2. ASSUME NEW i \in 1 .. l - 1
      PROVE  sent[r][i] # "final" /\ (sent[r][i] = "error" <=> sent[r][i + 1] = "reset")
  <2>1. i \in 1 .. Len(p) - 1 /\ i \in 1 .. l /\ i + 1 \in 1 .. l
    BY <1>1, <1>2
  <2> QED BY <1>1, <2>1 DEF WellClosed
<1>3. ASSUME NEW i \in 1 .. l, NEW j \in 1 .. l,
             sent[r][i] = "reset", sent[r][j] = "reset"
      PROVE  i = j
  <2>1. i \in 1 .. Len(p) /\ j \in 1 .. Len(p)
    BY <1>1, <1>3
  <2> QED BY <1>1, <1>3, <2>1 DEF WellClosed
<1> QED BY <1>2, <1>3 DEF WellClosed, l

(***************************************************************************)
(* For every retry window, limit, budget and buffer size: the chunk that   *)
(* closes a stream is the last one the caller is sent, but for an error    *)
(* that the one mid-stream retry takes back with a Reset.                  *)
(***************************************************************************)
THEOREM StreamsEndOnce == Spec => []ClosingChunkIsLast
<1> DEFINE IInv == TypeOK /\ ControlInv /\ CloseInv
<1>1. Init => IInv
    BY TypeInit, ControlInit, CloseInit
<1>2. IInv /\ [Next]_vars => IInv'
    BY TypeNext, ControlNext, CloseNext
<1>3. IInv => ClosingChunkIsLast
    BY CloseIsLast
<1> QED BY <1>1, <1>2, <1>3, PTL DEF Spec

-----------------------------------------------------------------------------
(* The invariant of a spoken conversation.                                 *)

\* The number of a chunk that has one.
Num(e) == CHOOSE n \in e.of : TRUE

Singles(kinds) == {Chunk(k, n) : k \in kinds, n \in 0 .. (Utterances + MaxResponses)}

Kinds == {"text", "audio", "end", "transcript", "user", "empty", "error", "placeholder"}

Things == Of(Kinds)

\* What the channels hold: everything has one number but a placeholder.
Sent      == Singles({"text", "audio", "end", "transcript", "error"})
Forwarded == Singles({"text", "audio", "end", "user", "empty", "error"})
Shown     == Singles({"text", "end", "user", "error"}) \cup Of({"placeholder"})

LinesOK ==
    /\ emitCh \in Seq(Sent) /\ Len(emitCh) <= EmitSize
    /\ queue \in Seq(Sent)
    /\ respCh \in Seq(Sent) /\ Len(respCh) <= ResponseSize
    /\ wire \in Seq(Forwarded) /\ Len(wire) <= WireSize
    /\ buffered \in Seq(Singles({"text"}))
    /\ pendingEnd \in Seq(Singles({"end"})) /\ Len(pendingEnd) <= 1
    /\ out \in Seq(Shown)
    /\ replaced \in Seq(Singles({"end"})) /\ said \in Seq(Singles({"text", "end"}))

FlagsOK ==
    /\ {emitClosed, respClosed, dropCh, dropping, wireClosed, userEmitted, guessed, responseActive,
        captured, hasContent} \subseteq BOOLEAN
    /\ reordering \in {"running", "done"}
    /\ heard \in 0 .. spoke /\ spoke \in 0 .. Utterances /\ responses \in 0 .. MaxResponses
    /\ owner \in [1 .. MaxResponses -> 0 .. Utterances] /\ deltas \in 0 .. MaxDeltas
    /\ barged \subseteq 1 .. MaxResponses

\* A closed session is not answering, and a closed channel has nothing before it.
ClosedOK ==
    /\ responseActive => ~emitClosed /\ responses > 0
    /\ respClosed => emitClosed /\ emitCh = <<>> /\ queue = <<>>

\* Nothing waits behind a user's turn that was sent.
TurnOK == userEmitted => buffered = <<>> /\ pendingEnd = <<>>

Base == LinesOK /\ FlagsOK /\ ClosedOK /\ TurnOK

\* The response that is spoken after an element, and after all of them.
Follow(e) == IF e.kind = "end" THEN Num(e) + 1 ELSE Num(e)
Turn(s)   == IF s = <<>> THEN 1 ELSE Follow(s[Len(s)])

\* The server speaks response after response, each with one end.
Chain(s)    == \A i \in DOMAIN s : Num(s[i]) = IF i = 1 THEN 1 ELSE Follow(s[i - 1])
EndsOnce(s) == \A i, j \in DOMAIN s : s[i] = s[j] /\ s[i].kind = "end" => i = j

SaidOK ==
    /\ Chain(said) /\ EndsOnce(said)
    /\ \A i \in DOMAIN said : Num(said[i]) \in 1 .. responses /\ Follow(said[i]) <= Turn(said)
    /\ Turn(said) \in {responses, responses + 1}
    /\ ~emitClosed => (responseActive <=> Turn(said) = responses)

ReplacedOK == \A i \in DOMAIN replaced : \E j \in DOMAIN said : said[j] = replaced[i]

\* What is on its way from the session to the stage.
Carried == respCh \o queue \o emitCh

\* When the latest response has ended, its end is the last that comes of it, so
\* that the stage makes no second one when the channel closes.
Spoken  == Of({"text", "audio", "end"})
Transit == Filter(Carried, Spoken)
Closed(s, more) == IF s = <<>> THEN ~more ELSE s[Len(s)].kind = "end"
EndOK == Turn(said) = responses + 1 => Closed(Transit, hasContent)

\* Audio of an interrupted response is not produced any more.
AudioOK ==
    /\ InterruptedAudioStops
    /\ \A r \in barged : r <= responses /\ (responseActive /\ r = responses => dropping)

\* The user's turns, sent or on their way, are in the order they were spoken.
Picks(s, K) == Filter(s, Of(K))
Users == (Picks(out, {"user"}) \o Picks(wire, {"user"})) \o Picks(Carried, {"transcript"})
Ascends(s, n) ==
    /\ \A i, j \in DOMAIN s : i < j => Num(s[i]) < Num(s[j])
    /\ \A i \in DOMAIN s : Num(s[i]) \in 1 .. n
UsersOK == Ascends(Users, heard)

\* A placeholder, or a user's turn that is over, has a turn-end behind it.
PlaceholdersOK ==
    /\ PlaceholderStandsAlone
    /\ reordering = "running" =>
          \A i \in DOMAIN out :
              out[i].kind = "placeholder" \/ (~userEmitted /\ out[i].kind = "user") =>
                  \E k \in DOMAIN out : i <= k /\ out[k].kind = "end"

\* The response that is being told, and a user's turn among the first i of s
\* that is not before the nth.
Now == Turn(Words(out))
Answers(s, i, n) == \E j \in 1 .. i : s[j].kind = "user" /\ n <= Num(s[j])

\* As long as nothing was guessed and no turn-end gave way, what waits is of the
\* response that is told, and the nth response is told behind n users' turns.
Calm == ~guessed /\ replaced = <<>>
CalmOK ==
    Calm =>
        /\ \A i \in DOMAIN buffered : Num(buffered[i]) = Now
        /\ \A i \in DOMAIN pendingEnd : Num(pendingEnd[i]) = Now
        /\ \A i \in DOMAIN out : out[i].kind \in {"text", "end"} => Answers(out, i - 1, Num(out[i]))
        /\ userEmitted => Answers(out, Len(out), Now)

\* If every utterance is answered, the nth response answers none after the nth.
OwnersOK ==
    /\ \A r \in 1 .. MaxResponses : owner[r] \in IF r <= responses THEN 1 .. spoke ELSE {0}
    /\ Unanswered \/ \A r \in 1 .. responses : owner[r] <= r

VoiceInv ==
    /\ Base /\ SaidOK /\ ReplacedOK /\ EndOK /\ WordsArrive /\ AudioOK
    /\ UsersOK /\ PlaceholdersOK /\ CalmOK /\ OwnersOK

-----------------------------------------------------------------------------
(* Filter.                                                                 *)

LEMMA KeptIs ==
    ASSUME NEW T, NEW s \in Seq(T), NEW S
    PROVE  /\ Kept(s, S) \subseteq 1 .. Len(s) /\ Kept(s, S) \in SUBSET Nat /\ Len(s) \in Nat
           /\ IsFiniteSet(Kept(s, S)) /\ Cardinality(Kept(s, S)) \in Nat
           /\ Cardinality(Kept(s, S)) <= Len(s)
<1>1. Kept(s, S) \subseteq 1 .. Len(s) /\ Len(s) \in Nat /\ Kept(s, S) \in SUBSET Nat
  BY DEF Kept
<1>2. IsFiniteSet(1 .. Len(s)) /\ Cardinality(1 .. Len(s)) = Len(s)
  <2> DEFINE n == Len(s)
  <2>1. n \in Int /\ 1 \in Int /\ n \in Nat
    BY <1>1
  <2> HIDE DEF n
  <2>2. IsFiniteSet(1 .. n) /\ Cardinality(1 .. n) = IF 1 > n THEN 0 ELSE n - 1 + 1
    BY <2>1, FS_Interval
  <2>3. Cardinality(1 .. n) = n
    BY <2>1, <2>2
  <2> QED BY <2>2, <2>3 DEF n
<1>3. IsFiniteSet(Kept(s, S)) /\ Cardinality(Kept(s, S)) <= Len(s)
  BY <1>1, <1>2, FS_Subset
<1> QED BY <1>1, <1>3, FS_CardinalityType

LEMMA RankIs ==
    ASSUME NEW I \in SUBSET Nat, IsFiniteSet(I)
    PROVE  /\ Cardinality(I) \in Nat
           /\ \A i \in I : Rank(I, i) \in 1 .. Cardinality(I)
           /\ \A i, j \in I : i < j => Rank(I, i) < Rank(I, j)
           /\ \A n \in 1 .. Cardinality(I) : \E i \in I : Rank(I, i) = n
<1> DEFINE Upto(i) == {k \in I : k <= i}
<1>1. Cardinality(I) \in Nat
  BY FS_CardinalityType
<1>2. \A i \in I : IsFiniteSet(Upto(i)) /\ Cardinality(Upto(i)) \in Nat /\ Cardinality(Upto(i)) <= Cardinality(I)
  <2> TAKE i \in I
  <2>1. Upto(i) \in SUBSET I
    OBVIOUS
  <2>2. IsFiniteSet(Upto(i)) /\ Cardinality(Upto(i)) <= Cardinality(I)
    BY <2>1, FS_Subset
  <2> QED BY <2>2, FS_CardinalityType
<1>3. \A i, j \in I : i < j => Rank(I, i) < Rank(I, j)
  <2> SUFFICES ASSUME NEW i \in I, NEW j \in I, i < j PROVE Rank(I, i) < Rank(I, j)
    OBVIOUS
  <2>0. i \in Nat /\ j \in Nat /\ \A k \in I : k \in Nat
    OBVIOUS
  <2>1. Upto(i) \in SUBSET Upto(j)
    <3> SUFFICES ASSUME NEW k \in I, k <= i PROVE k <= j
      OBVIOUS
    <3> QED BY <2>0
  <2>3. j \in Upto(j) /\ j \notin Upto(i)
    BY <2>0
  <2>2. Cardinality(Upto(i)) <= Cardinality(Upto(j)) /\ Cardinality(Upto(i)) # Cardinality(Upto(j))
    BY <1>2, <2>1, <2>3, FS_Subset
  <2> QED BY <1>2, <2>2 DEF Rank
<1>4. \A i \in I : Rank(I, i) \in 1 .. Cardinality(I)
  <2> TAKE i \in I
  <2>1. Cardinality(Upto(i)) # 0
    <3>1. i \in Upto(i)
      OBVIOUS
    <3> QED BY <1>2, <3>1, FS_EmptySet
  <2> QED BY <1>1, <1>2, <2>1 DEF Rank
<1>5. \A n \in 1 .. Cardinality(I) : \E i \in I : Rank(I, i) = n
  <2> DEFINE f == [i \in I |-> Rank(I, i)]
             C == 1 .. Cardinality(I)
  <2>1. f \in [I -> C]
    BY <1>4
  <2>2. \A i, j \in I : f[i] = f[j] => i = j
    <3> SUFFICES ASSUME NEW i \in I, NEW j \in I, i # j PROVE f[i] # f[j]
      OBVIOUS
    <3>1. i \in Nat /\ j \in Nat /\ f[i] \in Nat /\ f[j] \in Nat /\ f[i] = Rank(I, i) /\ f[j] = Rank(I, j)
      BY <1>1, <1>4
    <3>2. i < j \/ j < i
      BY <3>1
    <3> QED BY <1>3, <3>1, <3>2
  <2>3. IsFiniteSet(C) /\ Cardinality(C) = Cardinality(I)
    BY <1>1, FS_Interval
  <2>4. f \in Injection(I, C)
    BY <2>1, <2>2 DEF Injection, IsInjective
  <2>5. f \in Surjection(I, C)
    BY <2>3, <2>4, FS_Injection
  <2>6. \A n \in C : \E i \in I : f[i] = n
    BY <2>5 DEF Surjection
  <2> QED BY <2>6
<1> QED BY <1>1, <1>3, <1>4, <1>5

LEMMA FilterIs ==
    ASSUME NEW T, NEW s \in Seq(T), NEW S
    PROVE  /\ Filter(s, S) \in Seq(T) /\ Len(Filter(s, S)) = Cardinality(Kept(s, S))
           /\ Len(Filter(s, S)) <= Len(s)
           /\ DOMAIN Filter(s, S) = 1 .. Cardinality(Kept(s, S))
           /\ \A i \in Kept(s, S) : /\ Rank(Kept(s, S), i) \in DOMAIN Filter(s, S)
                                    /\ Filter(s, S)[Rank(Kept(s, S), i)] = s[i]
           /\ \A n \in DOMAIN Filter(s, S) : \E i \in Kept(s, S) : Rank(Kept(s, S), i) = n /\ Filter(s, S)[n] = s[i]
<1> DEFINE I == Kept(s, S)
           F == Filter(s, S)
           At(n) == CHOOSE i \in I : Rank(I, i) = n
<1>1. /\ I \subseteq 1 .. Len(s) /\ I \in SUBSET Nat /\ IsFiniteSet(I) /\ Cardinality(I) \in Nat
      /\ Cardinality(I) <= Len(s)
  BY KeptIs
<1>2. /\ \A i \in I : Rank(I, i) \in 1 .. Cardinality(I)
      /\ \A i, j \in I : i < j => Rank(I, i) < Rank(I, j)
      /\ \A n \in 1 .. Cardinality(I) : \E i \in I : Rank(I, i) = n
  BY <1>1, RankIs
<1>3. F = [n \in 1 .. Cardinality(I) |-> s[At(n)]]
  BY DEF Filter
<1> HIDE DEF I, F
<1>4. \A n \in 1 .. Cardinality(I) : At(n) \in I /\ Rank(I, At(n)) = n
  BY <1>2
<1>5. \A i \in I : At(Rank(I, i)) = i
  <2> TAKE i \in I
  <2> DEFINE j == At(Rank(I, i))
  <2>1. j \in I /\ Rank(I, j) = Rank(I, i)
    BY <1>2, <1>4
  <2> HIDE DEF j
  <2>2. i \in Nat /\ j \in Nat /\ Rank(I, i) \in Nat /\ Rank(I, j) \in Nat
    BY <1>1, <1>2, <2>1
  <2>3. ~(i < j) /\ ~(j < i)
    BY <1>2, <2>1, <2>2
  <2>4. j = i
    BY <2>2, <2>3
  <2> QED BY <2>4 DEF j
<1> HIDE DEF At
<1>6. F \in [1 .. Cardinality(I) -> T]
  <2>1. \A n \in 1 .. Cardinality(I) : s[At(n)] \in T
    <3>1. \A i \in 1 .. Len(s) : s[i] \in T
      OBVIOUS
    <3> QED BY <1>1, <1>4, <3>1
  <2> QED BY <1>3, <2>1
<1>7. F \in Seq(T) /\ Len(F) = Cardinality(I) /\ DOMAIN F = 1 .. Cardinality(I)
  BY <1>1, <1>6
<1>8. \A i \in I : Rank(I, i) \in DOMAIN F /\ F[Rank(I, i)] = s[i]
  BY <1>2, <1>3, <1>5, <1>7
<1>9. \A n \in DOMAIN F : \E i \in I : Rank(I, i) = n /\ F[n] = s[i]
  BY <1>3, <1>4, <1>7
<1> QED BY <1>1, <1>7, <1>8, <1>9 DEF F, I

LEMMA SameSize ==
    ASSUME NEW J, IsFiniteSet(J), NEW K, NEW f \in [J -> K],
           \A i, j \in J : f[i] = f[j] => i = j, \A k \in K : \E j \in J : f[j] = k
    PROVE  IsFiniteSet(K) /\ Cardinality(K) = Cardinality(J)
<1>1. f \in Injection(J, K) /\ f \in Surjection(J, K)
  BY DEF Injection, IsInjective, Surjection
<1>2. ExistsBijection(J, K)
  BY <1>1 DEF ExistsBijection, Bijection
<1> QED BY <1>2, FS_Bijection

LEMMA DisjointUnion ==
    ASSUME NEW A, NEW B, IsFiniteSet(A), IsFiniteSet(B), B \cap A = {}
    PROVE  Cardinality(A \cup B) = Cardinality(A) + Cardinality(B)
<1>1. Cardinality(A \cap B) = 0 /\ Cardinality(A) \in Nat /\ Cardinality(B) \in Nat
  <2>1. A \cap B = {}
    OBVIOUS
  <2> QED BY <2>1, FS_EmptySet, FS_CardinalityType
<1>2. Cardinality(A \cup B) = Cardinality(A) + Cardinality(B) - Cardinality(A \cap B)
  BY FS_Union
<1> QED BY <1>1, <1>2

LEMMA FilterUnique ==
    ASSUME NEW T, NEW s \in Seq(T), NEW S, NEW G \in Seq(T), Len(G) = Cardinality(Kept(s, S)),
           \A i \in Kept(s, S) : G[Rank(Kept(s, S), i)] = s[i]
    PROVE  Filter(s, S) = G
<1> DEFINE I == Kept(s, S)
           F == Filter(s, S)
<1>1. /\ F \in Seq(T) /\ Len(F) = Cardinality(I)
      /\ \A n \in DOMAIN F : \E i \in I : Rank(I, i) = n /\ F[n] = s[i]
  BY FilterIs
<1>2. \A i \in I : G[Rank(I, i)] = s[i]
  OBVIOUS
<1> HIDE DEF F, I
<1>3. \A n \in DOMAIN F : F[n] = G[n]
  BY <1>1, <1>2
<1>4. Len(G) = Len(F)
  BY <1>1 DEF I
<1>5. F = G
  BY <1>1, <1>3, <1>4
<1> QED BY <1>5 DEF F

LEMMA FilterExt ==
    ASSUME NEW s, NEW S, NEW R, \A i \in DOMAIN s : s[i] \in S <=> s[i] \in R
    PROVE  Filter(s, S) = Filter(s, R)
<1>1. Kept(s, S) = Kept(s, R)
  BY DEF Kept
<1> QED BY <1>1 DEF Filter

LEMMA FilterNone ==
    ASSUME NEW T, NEW s \in Seq(T), NEW S, \A i \in DOMAIN s : s[i] \notin S
    PROVE  Filter(s, S) = << >>
<1>1. Kept(s, S) = {}
  BY DEF Kept
<1>2. Len(Filter(s, S)) = 0 /\ Filter(s, S) \in Seq(T)
  BY <1>1, FilterIs, FS_EmptySet
<1> QED BY <1>2

LEMMA FilterAll ==
    ASSUME NEW T, NEW s \in Seq(T), NEW S, \A i \in DOMAIN s : s[i] \in S
    PROVE  Filter(s, S) = s
<1>1. Kept(s, S) = 1 .. Len(s) /\ Len(s) \in Nat
  BY DEF Kept
<1>2. \A n \in Nat : Cardinality(1 .. n) = n
  <2> TAKE n \in Nat
  <2>1. n \in Int /\ 1 \in Int
    OBVIOUS
  <2>2. Cardinality(1 .. n) = IF 1 > n THEN 0 ELSE n - 1 + 1
    BY <2>1, FS_Interval
  <2> QED BY <2>2
<1>3. \A i \in Kept(s, S) : Rank(Kept(s, S), i) = i
  <2> SUFFICES ASSUME NEW i \in 1 .. Len(s) PROVE Rank(1 .. Len(s), i) = i
    BY <1>1
  <2>1. {k \in 1 .. Len(s) : k <= i} = 1 .. i /\ i \in Nat
    BY <1>1
  <2> QED BY <1>2, <2>1 DEF Rank
<1>4. Len(s) = Cardinality(Kept(s, S)) /\ \A i \in Kept(s, S) : s[Rank(Kept(s, S), i)] = s[i]
  BY <1>1, <1>2, <1>3
<1> QED BY <1>4, FilterUnique

LEMMA FilterConcat ==
    ASSUME NEW T, NEW s \in Seq(T), NEW t \in Seq(T), NEW S
    PROVE  Filter(s \o t, S) = Filter(s, S) \o Filter(t, S)
<1> DEFINE u == s \o t
           I == Kept(s, S)
           J == Kept(t, S)
           L == Len(s)
           M == {L + j : j \in J}
           F == Filter(s, S)
           G == Filter(t, S)
<1>1. /\ u \in Seq(T) /\ L \in Nat /\ Len(t) \in Nat /\ DOMAIN u = 1 .. (L + Len(t))
      /\ DOMAIN s = 1 .. L /\ DOMAIN t = 1 .. Len(t)
      /\ \A i \in 1 .. L : u[i] = s[i]
      /\ \A j \in 1 .. Len(t) : u[L + j] = t[j]
  OBVIOUS
<1>2. /\ I \subseteq 1 .. L /\ IsFiniteSet(I) /\ Cardinality(I) \in Nat
      /\ J \subseteq 1 .. Len(t) /\ IsFiniteSet(J) /\ Cardinality(J) \in Nat
  BY KeptIs
<1>3. Kept(u, S) = I \cup M
  <2> HIDE DEF u
  <2>1. \A k \in DOMAIN u : k \in 1 .. L \/ \E j \in 1 .. Len(t) : k = L + j
    <3> TAKE k \in DOMAIN u
    <3>1. k \in Nat /\ (k <= L \/ (k - L \in 1 .. Len(t) /\ k = L + (k - L)))
      BY <1>1
    <3> QED BY <1>1, <3>1
  <2>2. \A k \in Kept(u, S) : k \in I \cup M
    BY <1>1, <2>1 DEF Kept
  <2>3. \A i \in I : i \in Kept(u, S)
    BY <1>1 DEF Kept
  <2>4. \A j \in J : L + j \in Kept(u, S)
    BY <1>1 DEF Kept
  <2> QED BY <2>2, <2>3, <2>4
<1> HIDE DEF u, I, J, L
<1>4. \A N \in SUBSET J : LET P == {L + j : j \in N}
                          IN  /\ IsFiniteSet(P) /\ Cardinality(P) = Cardinality(N) /\ P \cap I = {}
                              /\ IsFiniteSet(N) /\ Cardinality(N) \in Nat
  <2> TAKE N \in SUBSET J
  <2> DEFINE P == {L + j : j \in N}
             f == [j \in N |-> L + j]
  <2>1. IsFiniteSet(N) /\ Cardinality(N) \in Nat
    BY <1>2, FS_Subset, FS_CardinalityType
  <2>2. f \in [N -> P] /\ \A k \in P : \E j \in N : f[j] = k
    OBVIOUS
  <2>3. \A i, j \in N : f[i] = f[j] => i = j
    <3> SUFFICES ASSUME NEW i \in N, NEW j \in N, f[i] = f[j] PROVE i = j
      OBVIOUS
    <3>1. L + i = L + j /\ i \in Nat /\ j \in Nat
      BY <1>2
    <3> QED BY <1>1, <3>1
  <2>4. IsFiniteSet(P) /\ Cardinality(P) = Cardinality(N)
    BY <2>1, <2>2, <2>3, SameSize
  <2>5. P \cap I = {}
    BY <1>1, <1>2
  <2> QED BY <2>1, <2>4, <2>5
<1>5. IsFiniteSet(M) /\ Cardinality(M) = Cardinality(J) /\ M \cap I = {}
  BY <1>4
<1>6. Cardinality(I \cup M) = Cardinality(I) + Cardinality(J)
  <2> HIDE DEF M
  <2> QED BY <1>2, <1>5, DisjointUnion
<1>7. /\ F \in Seq(T) /\ Len(F) = Cardinality(I) /\ G \in Seq(T) /\ Len(G) = Cardinality(J)
      /\ \A i \in I : Rank(I, i) \in DOMAIN F /\ F[Rank(I, i)] = s[i]
      /\ \A j \in J : Rank(J, j) \in DOMAIN G /\ G[Rank(J, j)] = t[j]
  BY FilterIs DEF I, J
<1> HIDE DEF F, G
<1>8. F \o G \in Seq(T) /\ Len(F \o G) = Cardinality(I \cup M)
  <2>1. F \o G \in Seq(T) /\ Len(F \o G) = Len(F) + Len(G)
    BY <1>7
  <2> QED BY <1>6, <1>7, <2>1
<1>9. \A i \in I : (F \o G)[Rank(I \cup M, i)] = u[i]
  <2> TAKE i \in I
  <2>1. {k \in I \cup M : k <= i} = {k \in I : k <= i}
    BY <1>1, <1>2
  <2>2. Rank(I \cup M, i) = Rank(I, i)
    BY <2>1 DEF Rank
  <2>3. (F \o G)[Rank(I, i)] = s[i]
    BY <1>7
  <2> QED BY <1>1, <1>2, <2>2, <2>3
<1>10. \A j \in J : (F \o G)[Rank(I \cup M, L + j)] = u[L + j]
  <2> TAKE j \in J
  <2> DEFINE N == {k \in J : k <= j}
             P == {L + k : k \in N}
  <2>0. j \in Nat /\ \A k \in J : k \in Nat
    BY <1>2
  <2>1. {k \in I \cup M : k <= L + j} = I \cup P
    <3>1. \A k \in I : k <= L + j
      BY <1>1, <1>2, <2>0
    <3>2. \A k \in J : L + k <= L + j <=> k <= j
      BY <1>1, <2>0
    <3> QED BY <3>1, <3>2
  <2>2. IsFiniteSet(P) /\ Cardinality(P) = Cardinality(N) /\ P \cap I = {} /\ Cardinality(N) \in Nat
    <3>1. N \in SUBSET J
      OBVIOUS
    <3> QED BY <1>4, <3>1
  <2>3. Cardinality(I \cup P) = Cardinality(I) + Rank(J, j)
    <3> HIDE DEF P
    <3>1. Cardinality(I \cup P) = Cardinality(I) + Cardinality(P)
      BY <1>2, <2>2, DisjointUnion
    <3> QED BY <2>2, <3>1 DEF Rank
  <2>4. Rank(I \cup M, L + j) = Len(F) + Rank(J, j)
    BY <1>7, <2>1, <2>3 DEF Rank
  <2>5. (F \o G)[Len(F) + Rank(J, j)] = t[j]
    BY <1>7
  <2> QED BY <1>1, <1>2, <2>4, <2>5
<1>11. \A k \in Kept(u, S) : (F \o G)[Rank(Kept(u, S), k)] = u[k]
  BY <1>3, <1>9, <1>10
<1>12. Filter(u, S) = F \o G
  <2> DEFINE H == F \o G
  <2>1. H \in Seq(T) /\ Len(H) = Cardinality(Kept(u, S)) /\ \A k \in Kept(u, S) : H[Rank(Kept(u, S), k)] = u[k]
    BY <1>3, <1>8, <1>11
  <2> HIDE DEF H
  <2>2. Filter(u, S) = H
    BY <1>1, <2>1, FilterUnique
  <2> QED BY <2>2 DEF H
<1> QED BY <1>12 DEF F, G, u

LEMMA FilterOne ==
    ASSUME NEW e, NEW S
    PROVE  Filter(<<e>>, S) = IF e \in S THEN <<e>> ELSE << >>
<1> DEFINE s == <<e>>
           T == {e}
<1>1. s \in Seq(T) /\ \A i \in DOMAIN s : s[i] = e
  OBVIOUS
<1> HIDE DEF s, T
<1>2. CASE e \in S
  <2>1. \A i \in DOMAIN s : s[i] \in S
    BY <1>1, <1>2
  <2>2. Filter(s, S) = s
    BY <1>1, <2>1, FilterAll
  <2> QED BY <1>2, <2>2 DEF s
<1>3. CASE e \notin S
  <2>1. \A i \in DOMAIN s : s[i] \notin S
    BY <1>1, <1>3
  <2>2. Filter(s, S) = << >>
    BY <1>1, <2>1, FilterNone
  <2> QED BY <1>3, <2>2 DEF s
<1> QED BY <1>2, <1>3

LEMMA FilterEmpty ==
    ASSUME NEW S
    PROVE  Filter(<< >>, S) = << >>
<1> DEFINE s == << >>
           T == {1}
<1>1. s \in Seq(T) /\ \A i \in DOMAIN s : s[i] \notin S
  OBVIOUS
<1>2. Filter(s, S) = << >>
  <2> HIDE DEF s, T
  <2>1. Filter(s, S) = << >>
    BY <1>1, FilterNone
  <2> QED BY <2>1
<1> QED BY <1>2

LEMMA FilterAppend ==
    ASSUME NEW T, NEW s \in Seq(T), NEW e \in T, NEW S
    PROVE  Filter(Append(s, e), S) = IF e \in S THEN Append(Filter(s, S), e) ELSE Filter(s, S)
<1> DEFINE o == <<e>>
           F == Filter(s, S)
<1>1. Append(s, e) = s \o o /\ o \in Seq(T) /\ F \in Seq(T)
  BY FilterIs
<1>2. Filter(s \o o, S) = F \o Filter(o, S)
  <2> HIDE DEF o
  <2> QED BY <1>1, FilterConcat
<1>3. Filter(o, S) = IF e \in S THEN <<e>> ELSE << >>
  BY FilterOne
<1> HIDE DEF F
<1>4. F \o <<e>> = Append(F, e) /\ F \o << >> = F
  BY <1>1
<1> QED BY <1>1, <1>2, <1>3, <1>4 DEF F

\* The order of the elements, in both directions.
LEMMA FilterOrder ==
    ASSUME NEW T, NEW s \in Seq(T), NEW S
    PROVE  /\ \A n \in DOMAIN Filter(s, S) : \E i \in DOMAIN s : s[i] \in S /\ Filter(s, S)[n] = s[i]
           /\ \A m, n \in DOMAIN Filter(s, S) : m < n =>
                 \E i, j \in DOMAIN s : i < j /\ Filter(s, S)[m] = s[i] /\ Filter(s, S)[n] = s[j]
           /\ \A i \in DOMAIN s : s[i] \in S => \E n \in DOMAIN Filter(s, S) : Filter(s, S)[n] = s[i]
           /\ \A i, j \in DOMAIN s : i < j /\ s[i] \in S /\ s[j] \in S =>
                 \E m, n \in DOMAIN Filter(s, S) : m < n /\ Filter(s, S)[m] = s[i] /\ Filter(s, S)[n] = s[j]
<1> DEFINE I == Kept(s, S)
           F == Filter(s, S)
<1>1. /\ \A i \in I : Rank(I, i) \in DOMAIN F /\ F[Rank(I, i)] = s[i]
      /\ \A n \in DOMAIN F : \E i \in I : Rank(I, i) = n /\ F[n] = s[i]
      /\ DOMAIN F = 1 .. Cardinality(I)
  BY FilterIs
<1>2. I \in SUBSET Nat /\ IsFiniteSet(I) /\ Cardinality(I) \in Nat
  BY KeptIs
<1>3. /\ \A i \in I : Rank(I, i) \in 1 .. Cardinality(I)
      /\ \A i, j \in I : i < j => Rank(I, i) < Rank(I, j)
  BY <1>2, RankIs
<1>4. \A i : i \in I <=> i \in DOMAIN s /\ s[i] \in S
  BY DEF Kept
<1> HIDE DEF I, F
<1>5. \A n \in DOMAIN F : \E i \in DOMAIN s : s[i] \in S /\ F[n] = s[i]
  BY <1>1, <1>4
<1>6. \A m, n \in DOMAIN F : m < n => \E i, j \in DOMAIN s : i < j /\ F[m] = s[i] /\ F[n] = s[j]
  <2> SUFFICES ASSUME NEW m \in DOMAIN F, NEW n \in DOMAIN F, m < n
               PROVE  \E i, j \in DOMAIN s : i < j /\ F[m] = s[i] /\ F[n] = s[j]
    OBVIOUS
  <2>1. PICK i \in I : Rank(I, i) = m /\ F[m] = s[i]
    BY <1>1
  <2>2. PICK j \in I : Rank(I, j) = n /\ F[n] = s[j]
    BY <1>1
  <2>3. i \in Nat /\ j \in Nat /\ m \in Nat /\ n \in Nat
    BY <1>1, <1>2
  <2>4. i # j
    BY <2>1, <2>2, <2>3
  <2>5. ~(j < i)
    BY <1>3, <2>1, <2>2, <2>3
  <2>6. i < j
    BY <2>3, <2>4, <2>5
  <2> QED BY <1>4, <2>1, <2>2, <2>6
<1>7. \A i \in DOMAIN s : s[i] \in S => \E n \in DOMAIN F : F[n] = s[i]
  BY <1>1, <1>4
<1>8. \A i, j \in DOMAIN s : i < j /\ s[i] \in S /\ s[j] \in S =>
          \E m, n \in DOMAIN F : m < n /\ F[m] = s[i] /\ F[n] = s[j]
  BY <1>1, <1>3, <1>4
<1> QED BY <1>5, <1>6, <1>7, <1>8 DEF F

LEMMA FilterFilter ==
    ASSUME NEW T, NEW s \in Seq(T), NEW S, NEW R
    PROVE  Filter(Filter(s, S), R) = Filter(s, S \cap R)
<1> DEFINE I == Kept(s, S)
           F == Filter(s, S)
           H == Kept(s, S \cap R)
           K == Kept(F, R)
           G == Filter(s, S \cap R)
<1>1. /\ F \in Seq(T)
      /\ \A i \in I : Rank(I, i) \in DOMAIN F /\ F[Rank(I, i)] = s[i]
      /\ \A n \in DOMAIN F : \E i \in I : Rank(I, i) = n /\ F[n] = s[i]
  BY FilterIs
<1>2. I \in SUBSET Nat /\ IsFiniteSet(I) /\ Cardinality(I) \in Nat /\ IsFiniteSet(H) /\ H \in SUBSET I
  <2>1. H \in SUBSET I
    BY DEF Kept
  <2> QED BY <2>1, KeptIs
<1>3. /\ \A i \in I : Rank(I, i) \in 1 .. Cardinality(I)
      /\ \A i, j \in I : i < j => Rank(I, i) < Rank(I, j)
  BY <1>2, RankIs
<1>4. \A i \in I : i \in H <=> s[i] \in R
  BY DEF Kept
<1>5. /\ G \in Seq(T) /\ Len(G) = Cardinality(H)
      /\ \A i \in H : G[Rank(H, i)] = s[i]
  BY FilterIs
<1>6. \A n : n \in K <=> n \in DOMAIN F /\ F[n] \in R
  BY DEF Kept
<1> HIDE DEF I, F, H, K, G
<1>7. \A i \in I : Rank(I, i) \in K <=> i \in H
  BY <1>1, <1>4, <1>6
<1>8. \A n \in K : \E i \in H : Rank(I, i) = n /\ F[n] = s[i]
  BY <1>1, <1>4, <1>6
<1>9. \A i, j \in I : i <= j <=> Rank(I, i) <= Rank(I, j)
  <2> SUFFICES ASSUME NEW i \in I, NEW j \in I PROVE i <= j <=> Rank(I, i) <= Rank(I, j)
    OBVIOUS
  <2>1. i \in Nat /\ j \in Nat /\ Rank(I, i) \in Nat /\ Rank(I, j) \in Nat
    BY <1>2, <1>3
  <2>2. (i < j => Rank(I, i) < Rank(I, j)) /\ (j < i => Rank(I, j) < Rank(I, i))
    BY <1>3
  <2>3. i = j => Rank(I, i) = Rank(I, j)
    OBVIOUS
  <2> QED BY <2>1, <2>2, <2>3
<1>10. \A i, j \in I : Rank(I, i) = Rank(I, j) => i = j
  <2> SUFFICES ASSUME NEW i \in I, NEW j \in I, Rank(I, i) = Rank(I, j) PROVE i = j
    OBVIOUS
  <2>1. i \in Nat /\ j \in Nat /\ Rank(I, i) \in Nat
    BY <1>2, <1>3
  <2>2. i <= j /\ j <= i
    BY <1>9, <2>1
  <2> QED BY <2>1, <2>2
<1>11. \A A \in SUBSET H, B \in SUBSET K :
          /\ \A i \in A : Rank(I, i) \in B
          /\ \A n \in B : \E i \in A : Rank(I, i) = n
          => Cardinality(A) = Cardinality(B)
  <2> SUFFICES ASSUME NEW A \in SUBSET H, NEW B \in SUBSET K, \A i \in A : Rank(I, i) \in B,
                      \A n \in B : \E i \in A : Rank(I, i) = n
               PROVE  Cardinality(A) = Cardinality(B)
    OBVIOUS
  <2> DEFINE f == [i \in A |-> Rank(I, i)]
  <2>1. IsFiniteSet(A)
    BY <1>2, FS_Subset
  <2>2. f \in [A -> B] /\ \A n \in B : \E i \in A : f[i] = n
    OBVIOUS
  <2>3. \A i, j \in A : f[i] = f[j] => i = j
    BY <1>2, <1>10
  <2> HIDE DEF f
  <2> QED BY <2>1, <2>2, <2>3, SameSize
<1>12. Cardinality(H) = Cardinality(K)
  <2>1. \A i \in H : Rank(I, i) \in K
    BY <1>2, <1>7
  <2>2. \A n \in K : \E i \in H : Rank(I, i) = n
    BY <1>8
  <2> QED BY <1>11, <2>1, <2>2
<1>13. \A n \in K : G[Rank(K, n)] = F[n]
  <2> TAKE n \in K
  <2>1. PICK i \in H : Rank(I, i) = n /\ F[n] = s[i]
    BY <1>8
  <2> DEFINE A == {k \in H : k <= i}
             B == {m \in K : m <= n}
  <2>2. A \in SUBSET H /\ B \in SUBSET K
    OBVIOUS
  <2>3. \A k \in A : Rank(I, k) \in B
    BY <1>2, <1>7, <1>9, <2>1
  <2>4. \A m \in B : \E k \in A : Rank(I, k) = m
    BY <1>2, <1>8, <1>9, <2>1
  <2>5. Cardinality(A) = Cardinality(B)
    <3> HIDE DEF A, B
    <3> QED BY <1>11, <2>2, <2>3, <2>4
  <2>6. Rank(H, i) = Rank(K, n)
    BY <2>5 DEF Rank
  <2> QED BY <1>5, <2>1, <2>6
<1>14. Filter(F, R) = G
  BY <1>1, <1>5, <1>12, <1>13, FilterUnique DEF K
<1> QED BY <1>14 DEF F, G

-----------------------------------------------------------------------------
(* The elements and the channels of a spoken conversation.                 *)

LEMMA ChunkIs ==
    ASSUME NEW k, NEW n
    PROVE  Chunk(k, n).kind = k /\ Chunk(k, n).of = {n} /\ Num(Chunk(k, n)) = n
BY DEF Chunk, Num

LEMMA NumberIs ==
    0 .. (Utterances + MaxResponses) \subseteq Nat /\ Utterances \in Nat /\ MaxResponses \in Nat
BY VoiceAssumption

LEMMA SingleIs ==
    ASSUME NEW K, NEW e \in Singles(K)
    PROVE  /\ e.kind \in K /\ Num(e) \in 0 .. (Utterances + MaxResponses) /\ Num(e) \in Nat
           /\ e = Chunk(e.kind, Num(e)) /\ e.of = {Num(e)} /\ e \in Of(K)
<1>1. PICK k \in K, n \in 0 .. (Utterances + MaxResponses) : e = Chunk(k, n)
  BY DEF Singles
<1>2. e.kind = k /\ e.of = {n} /\ Num(e) = n
  BY <1>1, ChunkIs
<1>3. n \in Nat
  BY NumberIs
<1>4. e \in Of(K)
  BY <1>1 DEF Of, Chunk, Numbers
<1> QED BY <1>1, <1>2, <1>3, <1>4

LEMMA OfKinds ==
    ASSUME NEW e \in Things, NEW K
    PROVE  e \in Of(K) <=> e.kind \in K
BY DEF Things, Of

LEMMA KindsAreThings ==
    ASSUME NEW K \in SUBSET Kinds
    PROVE  Singles(K) \subseteq Things /\ Of(K) \subseteq Things /\ Singles(K) \subseteq Of(K)
<1>1. Of(K) \subseteq Things
  BY DEF Of, Things
<1>2. Singles(K) \subseteq Of(K)
  BY SingleIs
<1> QED BY <1>1, <1>2

LEMMA LinesAreThings ==
    ASSUME LinesOK
    PROVE  /\ emitCh \in Seq(Things) /\ queue \in Seq(Things) /\ respCh \in Seq(Things)
           /\ wire \in Seq(Things) /\ buffered \in Seq(Things) /\ pendingEnd \in Seq(Things)
           /\ out \in Seq(Things) /\ replaced \in Seq(Things) /\ said \in Seq(Things)
<1>1. /\ Sent \subseteq Things /\ Forwarded \subseteq Things /\ Shown \subseteq Things
      /\ Singles({"text"}) \subseteq Things /\ Singles({"end"}) \subseteq Things
      /\ Singles({"text", "end"}) \subseteq Things
  <2>1. /\ {"text", "audio", "end", "transcript", "error"} \in SUBSET Kinds
        /\ {"text", "audio", "end", "user", "empty", "error"} \in SUBSET Kinds
        /\ {"text", "end", "user", "error"} \in SUBSET Kinds /\ {"placeholder"} \in SUBSET Kinds
        /\ {"text"} \in SUBSET Kinds /\ {"end"} \in SUBSET Kinds /\ {"text", "end"} \in SUBSET Kinds
    BY DEF Kinds
  <2> QED BY <2>1, KindsAreThings DEF Sent, Forwarded, Shown
<1>2. \A S, q : S \subseteq Things /\ q \in Seq(S) => q \in Seq(Things)
  OBVIOUS
<1> QED BY <1>1, <1>2 DEF LinesOK

\* Sequences.
LEMMA Assoc ==
    ASSUME NEW T, NEW s \in Seq(T), NEW t \in Seq(T), NEW u \in Seq(T)
    PROVE  (s \o t) \o u = s \o (t \o u) /\ s \o t \in Seq(T) /\ t \o u \in Seq(T)
OBVIOUS

LEMMA AppendIs ==
    ASSUME NEW T, NEW s \in Seq(T), NEW t \in Seq(T), NEW e \in T
    PROVE  /\ Append(s, e) = s \o <<e>> /\ <<e>> \in Seq(T) /\ Append(s, e) \in Seq(T)
           /\ s \o Append(t, e) = Append(s \o t, e)
           /\ s \o << >> = s /\ << >> \o s = s
OBVIOUS

LEMMA HeadIs ==
    ASSUME NEW T, NEW t \in Seq(T), t # << >>
    PROVE  /\ Head(t) \in T /\ Tail(t) \in Seq(T) /\ Len(Tail(t)) = Len(t) - 1 /\ Len(t) \in Nat \ {0}
           /\ t = <<Head(t)>> \o Tail(t) /\ 1 \in DOMAIN t /\ Head(t) = t[1]
           /\ \A i \in DOMAIN Tail(t) : i + 1 \in DOMAIN t /\ Tail(t)[i] = t[i + 1]
OBVIOUS

LEMMA FilterThree ==
    ASSUME NEW S
    PROVE  \A x, y, z \in Seq(Things) : Filter((x \o y) \o z, S) = (Filter(x, S) \o Filter(y, S)) \o Filter(z, S)
<1> SUFFICES ASSUME NEW x \in Seq(Things), NEW y \in Seq(Things), NEW z \in Seq(Things)
             PROVE  Filter((x \o y) \o z, S) = (Filter(x, S) \o Filter(y, S)) \o Filter(z, S)
  OBVIOUS
<1> DEFINE v == x \o y
<1>1. v \in Seq(Things)
  OBVIOUS
<1>2. Filter(v, S) = Filter(x, S) \o Filter(y, S)
  BY FilterConcat
<1> HIDE DEF v
<1>3. Filter(v \o z, S) = Filter(v, S) \o Filter(z, S)
  BY <1>1, FilterConcat
<1> QED BY <1>2, <1>3 DEF v

-----------------------------------------------------------------------------
(* The pipe from the session to the stage.                                 *)

LEMMA CarriedIs ==
    ASSUME LinesOK
    PROVE  Carried \in Seq(Sent) /\ Carried \in Seq(Things)
<1>1. emitCh \in Seq(Things) /\ queue \in Seq(Things) /\ respCh \in Seq(Things)
  BY LinesAreThings
<1>2. emitCh \in Seq(Sent) /\ queue \in Seq(Sent) /\ respCh \in Seq(Sent)
  BY DEF LinesOK
<1> QED BY <1>1, <1>2 DEF Carried

LEMMA EmitCarried ==
    ASSUME LinesOK, NEW c \in Sent, Emit(c), UNCHANGED <<queue, respCh>>
    PROVE  Carried' = Append(Carried, c) /\ emitCh' \in Seq(Sent) /\ Len(emitCh)' <= EmitSize
<1>1. emitCh' = Append(emitCh, c) /\ Len(emitCh) < EmitSize
  BY DEF Emit
<1>2. emitCh \in Seq(Sent) /\ queue \in Seq(Sent) /\ respCh \in Seq(Sent)
  BY DEF LinesOK
<1>3. respCh \o queue \in Seq(Sent)
  BY <1>2
<1>4. (respCh \o queue) \o Append(emitCh, c) = Append((respCh \o queue) \o emitCh, c)
  BY <1>2, <1>3, AppendIs
<1>5. Len(Append(emitCh, c)) <= EmitSize
  BY <1>1, <1>2, PumpAssumption
<1>6. Append(emitCh, c) \in Seq(Sent)
  BY <1>2
<1> QED BY <1>1, <1>4, <1>5, <1>6 DEF Carried

LEMMA MoveCarried ==
    ASSUME LinesOK, PumpReceives \/ PumpForwards
    PROVE  /\ Carried' = Carried
           /\ emitCh' \in Seq(Sent) /\ queue' \in Seq(Sent) /\ respCh' \in Seq(Sent)
           /\ Len(emitCh)' <= EmitSize /\ Len(respCh)' <= ResponseSize
<1>1. /\ emitCh \in Seq(Sent) /\ queue \in Seq(Sent) /\ respCh \in Seq(Sent)
      /\ Len(emitCh) <= EmitSize /\ Len(respCh) <= ResponseSize /\ EmitSize \in Nat /\ ResponseSize \in Nat
  BY PumpAssumption DEF LinesOK
<1>2. CASE PumpReceives
  <2>1. emitCh # << >> /\ queue' = Append(queue, Head(emitCh)) /\ emitCh' = Tail(emitCh) /\ respCh' = respCh
    BY <1>2 DEF PumpReceives
  <2>2. Append(queue, Head(emitCh)) \o Tail(emitCh) = queue \o emitCh
    BY <1>1, <2>1, MoveHead
  <2>3. Head(emitCh) \in Sent /\ Tail(emitCh) \in Seq(Sent) /\ Len(Tail(emitCh)) <= EmitSize
    BY <1>1, <2>1, HeadIs
  <2>4. Append(queue, Head(emitCh)) \in Seq(Sent)
    BY <1>1, <2>3
  <2>5. (respCh \o Append(queue, Head(emitCh))) \o Tail(emitCh) = (respCh \o queue) \o emitCh
    <3> DEFINE a == Append(queue, Head(emitCh))
               b == Tail(emitCh)
    <3>0. a \o b = queue \o emitCh
      BY <2>2
    <3>1. a \in Seq(Sent) /\ b \in Seq(Sent) /\ respCh \in Seq(Sent)
      BY <1>1, <2>3, <2>4
    <3> HIDE DEF a, b
    <3>2. (respCh \o a) \o b = respCh \o (a \o b)
      BY <3>1, Assoc
    <3>3. (respCh \o queue) \o emitCh = respCh \o (queue \o emitCh)
      BY <1>1, Assoc
    <3> QED BY <3>0, <3>2, <3>3 DEF a, b
  <2> QED BY <1>1, <2>1, <2>3, <2>4, <2>5 DEF Carried
<1>3. CASE PumpForwards
  <2>1. /\ queue # << >> /\ respCh' = Append(respCh, Head(queue)) /\ queue' = Tail(queue) /\ emitCh' = emitCh
        /\ Len(respCh) < ResponseSize
    BY <1>3 DEF PumpForwards
  <2>2. Append(respCh, Head(queue)) \o Tail(queue) = respCh \o queue
    BY <1>1, <2>1, MoveHead
  <2>3. Head(queue) \in Sent /\ Tail(queue) \in Seq(Sent)
    BY <1>1, <2>1, HeadIs
  <2>4. Append(respCh, Head(queue)) \in Seq(Sent) /\ Len(Append(respCh, Head(queue))) <= ResponseSize
    BY <1>1, <2>1, <2>3
  <2> QED BY <1>1, <2>1, <2>2, <2>3, <2>4 DEF Carried
<1> QED BY <1>2, <1>3

LEMMA TakeCarried ==
    ASSUME LinesOK, NEW c, Response(c), UNCHANGED <<queue, emitCh>>
    PROVE  /\ c \in Sent /\ Carried = <<c>> \o Carried' /\ Carried' \in Seq(Sent)
           /\ respCh' \in Seq(Sent) /\ Len(respCh)' <= ResponseSize
<1>1. /\ emitCh \in Seq(Sent) /\ queue \in Seq(Sent) /\ respCh \in Seq(Sent)
      /\ Len(respCh) <= ResponseSize /\ ResponseSize \in Nat
  BY PumpAssumption DEF LinesOK
<1>2. respCh # << >> /\ c = Head(respCh) /\ respCh' = Tail(respCh)
  BY DEF Response
<1>3. /\ c \in Sent /\ Tail(respCh) \in Seq(Sent) /\ Len(Tail(respCh)) <= ResponseSize
      /\ respCh = <<c>> \o Tail(respCh)
  BY <1>1, <1>2, HeadIs
<1> DEFINE t == Tail(respCh)
<1>4. <<c>> \in Seq(Sent)
  BY <1>3
<1>5. ((<<c>> \o t) \o queue) \o emitCh = <<c>> \o ((t \o queue) \o emitCh) /\ (t \o queue) \o emitCh \in Seq(Sent)
  <2> DEFINE o == <<c>>
  <2>0. o \in Seq(Sent) /\ t \in Seq(Sent)
    BY <1>3, <1>4
  <2> HIDE DEF t, o
  <2>1. (o \o t) \o queue = o \o (t \o queue) /\ t \o queue \in Seq(Sent)
    BY <1>1, <2>0, Assoc
  <2>2. (o \o (t \o queue)) \o emitCh = o \o ((t \o queue) \o emitCh) /\ (t \o queue) \o emitCh \in Seq(Sent)
    <3> DEFINE u == t \o queue
    <3>1. u \in Seq(Sent) /\ o \in Seq(Sent) /\ emitCh \in Seq(Sent)
      BY <1>1, <2>0, <2>1
    <3> HIDE DEF u
    <3>2. (o \o u) \o emitCh = o \o (u \o emitCh) /\ u \o emitCh \in Seq(Sent)
      BY <3>1, Assoc
    <3> QED BY <3>2 DEF u
  <2> QED BY <2>1, <2>2 DEF o
<1> QED BY <1>2, <1>3, <1>5 DEF Carried

LEMMA DropQueue ==
    ASSUME LinesOK, PumpDrops
    PROVE  /\ queue' = Filter(queue, Of(Kinds \ {"audio"})) /\ queue' \in Seq(Sent)
           /\ emitCh' = emitCh /\ respCh' = respCh
<1>1. queue \in Seq(Sent) /\ queue \in Seq(Things)
  BY LinesAreThings DEF LinesOK
<1>2. \A i \in DOMAIN queue : queue[i] \in {c \in ToSet(queue) : c.kind # "audio"}
                              <=> queue[i] \in Of(Kinds \ {"audio"})
  <2> TAKE i \in DOMAIN queue
  <2>1. queue[i] \in Things
    BY <1>1
  <2>2. queue[i].kind \in Kinds
    BY <2>1 DEF Things, Of
  <2>3. queue[i] \in Of(Kinds \ {"audio"}) <=> queue[i].kind \in Kinds \ {"audio"}
    BY <2>1, OfKinds
  <2> QED BY <2>2, <2>3 DEF ToSet
<1>3. DropAudioChunks(queue) = Filter(queue, Of(Kinds \ {"audio"}))
  BY <1>2, FilterExt DEF DropAudioChunks
<1>4. Filter(queue, Of(Kinds \ {"audio"})) \in Seq(Sent)
  BY <1>1, FilterIs
<1> QED BY <1>3, <1>4 DEF PumpDrops

\* The parts of the pipe.
LEMMA FilterCarried ==
    ASSUME LinesOK, NEW S
    PROVE  /\ Filter(Carried, S) = (Filter(respCh, S) \o Filter(queue, S)) \o Filter(emitCh, S)
           /\ Filter(Carried, S) \in Seq(Things)
<1>1. emitCh \in Seq(Things) /\ queue \in Seq(Things) /\ respCh \in Seq(Things) /\ Carried \in Seq(Things)
  BY LinesAreThings, CarriedIs
<1>2. emitCh \in Seq(Things) /\ queue \in Seq(Things) /\ respCh \in Seq(Things)
  BY <1>1
<1>3. Filter((respCh \o queue) \o emitCh, S) = (Filter(respCh, S) \o Filter(queue, S)) \o Filter(emitCh, S)
  BY <1>2, FilterThree
<1>5. Filter(Carried, S) \in Seq(Things)
  BY <1>1, FilterIs
<1> QED BY <1>3, <1>5 DEF Carried

LEMMA DropCarried ==
    ASSUME LinesOK, PumpDrops, NEW K \in SUBSET (Kinds \ {"audio"})
    PROVE  Filter(Carried, Of(K))' = Filter(Carried, Of(K))
<1>1. /\ queue' = Filter(queue, Of(Kinds \ {"audio"})) /\ emitCh' = emitCh /\ respCh' = respCh
      /\ queue \in Seq(Things)
  BY DropQueue, LinesAreThings
<1>2. Of(Kinds \ {"audio"}) \cap Of(K) = Of(K)
  BY DEF Of
<1>3. Filter(Filter(queue, Of(Kinds \ {"audio"})), Of(K)) = Filter(queue, Of(K))
  <2> DEFINE N == Of(Kinds \ {"audio"})
             S == Of(K)
  <2>1. N \cap S = S
    BY <1>2
  <2> HIDE DEF N, S
  <2>2. Filter(Filter(queue, N), S) = Filter(queue, N \cap S)
    BY <1>1, FilterFilter
  <2> QED BY <2>1, <2>2 DEF N, S
<1> DEFINE S == Of(K)
<1>4. Filter(Carried, S) = (Filter(respCh, S) \o Filter(queue, S)) \o Filter(emitCh, S)
  BY FilterCarried
<1>5. Filter(Carried', S) = (Filter(respCh', S) \o Filter(queue', S)) \o Filter(emitCh', S)
  <2>1. emitCh' \in Seq(Things) /\ queue' \in Seq(Things) /\ respCh' \in Seq(Things)
    BY <1>1, LinesAreThings, FilterIs
  <2>2. Filter((respCh' \o queue') \o emitCh', S) = (Filter(respCh', S) \o Filter(queue', S)) \o Filter(emitCh', S)
    <3> HIDE DEF S
    <3> QED BY <2>1, FilterThree
  <2> QED BY <2>2 DEF Carried
<1>6. Filter(Carried, Of(K))' = Filter(Carried', S)
  BY DEF Filter, Kept, Rank, Of, Numbers
<1> QED BY <1>1, <1>3, <1>4, <1>5, <1>6

-----------------------------------------------------------------------------
(* Types.                                                                  *)

LEMMA InSingles ==
    ASSUME NEW K, NEW k \in K, NEW n \in 0 .. (Utterances + MaxResponses)
    PROVE  Chunk(k, n) \in Singles(K)
BY DEF Singles

LEMMA NumbersFit ==
    ASSUME FlagsOK
    PROVE  /\ responses \in 0 .. (Utterances + MaxResponses)
           /\ heard < spoke => heard + 1 \in 0 .. (Utterances + MaxResponses)
           /\ heard \in Nat /\ spoke \in Nat /\ responses \in Nat /\ deltas \in Nat
BY VoiceAssumption DEF FlagsOK

\* The variables that the provider stage and the reorder stage own.
stageSide == <<wire, wireClosed, captured, hasContent>>
reorderSide == <<buffered, userEmitted, pendingEnd, reordering, out, replaced, guessed>>

\* The steps of the session, and those of the pump.
LEMMA BaseReceives ==
    ASSUME Base, Receives
    PROVE  Base'
<1> USE DEF Base
<1>0. /\ responses \in 0 .. (Utterances + MaxResponses)
      /\ heard < spoke => heard + 1 \in 0 .. (Utterances + MaxResponses)
      /\ {Utterances, MaxResponses, MaxDeltas, WireSize} \subseteq Nat \ {0}
      /\ {heard, spoke, responses, deltas} \subseteq Nat
  BY NumbersFit, VoiceAssumption
<1>1. UNCHANGED <<reorderSide, wire, wireClosed, stageSide>> /\ UNCHANGED <<queue, respCh, respClosed>>
  BY DEF Receives, SpeechStarted, ResponseCreated, HandleTranscriptDelta, HandleAudioDelta, HandleResponseDone,
         HandleInputTranscription, TranscriptionFails, HandleError, Disconnects, PumpIdle, reorderVars,
         stageVars, pumpVars, reorderSide, stageSide
<1>2. TurnOK'
  BY <1>1 DEF TurnOK, reorderSide
<1>3. ClosedOK'
  <2>1. CASE SpeechStarted
    BY <2>1, <1>1 DEF SpeechStarted, ClosedOK
  <2>2. CASE ResponseCreated
    BY <2>2, <1>0, <1>1 DEF ResponseCreated, ClosedOK
  <2>3. CASE HandleTranscriptDelta
    BY <2>3, <1>1 DEF HandleTranscriptDelta, ClosedOK, Emit
  <2>4. CASE HandleAudioDelta
    BY <2>4, <1>1 DEF HandleAudioDelta, ClosedOK, Emit
  <2>5. CASE HandleResponseDone
    BY <2>5, <1>1 DEF HandleResponseDone, ClosedOK, Emit
  <2>6. CASE HandleInputTranscription
    BY <2>6, <1>1 DEF HandleInputTranscription, ClosedOK, Emit
  <2>7. CASE TranscriptionFails
    BY <2>7, <1>1 DEF TranscriptionFails, ClosedOK, pumpVars
  <2>8. CASE Disconnects
    BY <2>8, <1>1 DEF Disconnects, ClosedOK, Emit
  <2>9. CASE HandleError
    BY <2>9, <1>1 DEF HandleError, ClosedOK, Emit
  <2> QED BY <2>1, <2>2, <2>3, <2>4, <2>5, <2>6, <2>7, <2>8, <2>9 DEF Receives
<1>4. FlagsOK'
  <2>0. UNCHANGED <<queue, respCh, respClosed, wireClosed, userEmitted, guessed, captured, hasContent, reordering>>
    BY <1>1 DEF reorderSide, stageSide
  <2>1. CASE SpeechStarted
    <3>1. spoke' \in 0 .. Utterances /\ heard' \in 0 .. spoke'
      BY <2>1, <1>0 DEF SpeechStarted, FlagsOK
    <3>2. barged' \subseteq 1 .. MaxResponses
      <4>1. barged' = barged \/ (responseActive /\ barged' = barged \cup {responses})
        BY <2>1 DEF SpeechStarted
      <4>2. responseActive => responses \in 1 .. MaxResponses
        BY <1>0 DEF FlagsOK, ClosedOK
      <4> QED BY <4>1, <4>2 DEF FlagsOK
    <3>3. dropping' \in BOOLEAN /\ dropCh' \in BOOLEAN
      BY <2>1 DEF SpeechStarted, FlagsOK, Barge
    <3>4. UNCHANGED <<emitClosed, responses, owner, responseActive, deltas>>
      BY <2>1 DEF SpeechStarted
    <3> QED BY <2>0, <3>1, <3>2, <3>3, <3>4 DEF FlagsOK
  <2>2. CASE ResponseCreated
    <3>1. responses' \in 0 .. MaxResponses /\ owner' \in [1 .. MaxResponses -> 0 .. Utterances]
      BY <2>2, <1>0 DEF ResponseCreated, FlagsOK
    <3>2. responseActive' = TRUE /\ dropping' = FALSE /\ UNCHANGED <<emitClosed, dropCh, spoke, heard, deltas, barged>>
      BY <2>2 DEF ResponseCreated, ClearDrop, ghostVars
    <3> QED BY <2>0, <3>1, <3>2 DEF FlagsOK
  <2>3. CASE HandleTranscriptDelta
    <3>1. deltas' \in 0 .. MaxDeltas
      BY <2>3, <1>0 DEF HandleTranscriptDelta, FlagsOK
    <3>2. UNCHANGED <<emitClosed, dropCh, dropping, spoke, heard, responses, owner, responseActive, barged>>
      BY <2>3 DEF HandleTranscriptDelta
    <3> QED BY <2>0, <3>1, <3>2 DEF FlagsOK
  <2>4. CASE HandleAudioDelta
    <3>1. deltas' \in 0 .. MaxDeltas
      BY <2>4, <1>0 DEF HandleAudioDelta, FlagsOK
    <3>2. UNCHANGED <<emitClosed, dropCh, dropping, spoke, heard, responses, owner, responseActive, barged>>
      BY <2>4 DEF HandleAudioDelta, ghostVars
    <3> QED BY <2>0, <3>1, <3>2 DEF FlagsOK
  <2>5. CASE HandleResponseDone
    <3>2. /\ UNCHANGED <<emitClosed, dropCh, spoke, heard, responses, owner, deltas, barged>>
          /\ responseActive' = FALSE /\ dropping' = FALSE
      BY <2>5 DEF HandleResponseDone, ClearDrop
    <3> QED BY <2>0, <3>2 DEF FlagsOK
  <2>6. CASE HandleInputTranscription
    <3>1. heard' \in 0 .. spoke'
      BY <2>6, <1>0 DEF HandleInputTranscription, FlagsOK
    <3>2. UNCHANGED <<emitClosed, dropCh, dropping, spoke, responses, owner, responseActive, deltas, barged>>
      BY <2>6 DEF HandleInputTranscription, ghostVars
    <3> QED BY <2>0, <3>1, <3>2 DEF FlagsOK
  <2>7. CASE TranscriptionFails
    <3>1. heard' \in 0 .. spoke'
      BY <2>7, <1>0 DEF TranscriptionFails, FlagsOK
    <3>2. UNCHANGED <<emitClosed, dropCh, dropping, spoke, responses, owner, responseActive, deltas, barged>>
      BY <2>7 DEF TranscriptionFails, ghostVars, pumpVars
    <3> QED BY <2>0, <3>1, <3>2 DEF FlagsOK
  <2>8. CASE Disconnects
    <3>2. /\ UNCHANGED <<dropCh, dropping, spoke, heard, responses, owner, deltas, barged>>
          /\ responseActive' = FALSE /\ emitClosed' = TRUE
      BY <2>8 DEF Disconnects, ghostVars
    <3> QED BY <2>0, <3>2 DEF FlagsOK
  <2>9. CASE HandleError
    <3>1. deltas' \in 0 .. MaxDeltas
      BY <2>9, <1>0 DEF HandleError
    <3>2. UNCHANGED <<emitClosed, dropCh, dropping, spoke, heard, responses, owner, responseActive, barged>>
      BY <2>9 DEF HandleError, ghostVars
    <3> QED BY <2>0, <3>1, <3>2 DEF FlagsOK
  <2> QED BY <2>1, <2>2, <2>3, <2>4, <2>5, <2>6, <2>7, <2>8, <2>9 DEF Receives
<1>5. /\ Chunk("text", responses) \in Sent /\ Chunk("audio", responses) \in Sent
      /\ Chunk("end", responses) \in Sent /\ Chunk("error", responses) \in Sent
      /\ heard < spoke => Chunk("transcript", heard + 1) \in Sent
      /\ Chunk("text", responses) \in Singles({"text", "end"}) /\ Chunk("end", responses) \in Singles({"text", "end"})
  BY <1>0, InSingles DEF Sent
<1>6. LinesOK'
  <2>0. UNCHANGED <<queue, respCh, wire, buffered, pendingEnd, out, replaced>>
    BY <1>1 DEF reorderSide, stageSide
  <2>1. emitCh' \in Seq(Sent) /\ Len(emitCh)' <= EmitSize
    <3>0. emitCh' = emitCh \/ \E c \in Sent : Emit(c)
      <4>1. CASE SpeechStarted
        BY <4>1 DEF SpeechStarted
      <4>2. CASE ResponseCreated
        BY <4>2 DEF ResponseCreated
      <4>3. CASE HandleTranscriptDelta
        BY <4>3, <1>5 DEF HandleTranscriptDelta
      <4>4. CASE HandleAudioDelta
        BY <4>4, <1>5 DEF HandleAudioDelta
      <4>5. CASE HandleResponseDone
        BY <4>5, <1>5 DEF HandleResponseDone
      <4>6. CASE HandleInputTranscription
        BY <4>6, <1>5 DEF HandleInputTranscription
      <4>7. CASE TranscriptionFails
        BY <4>7 DEF TranscriptionFails, pumpVars
      <4>8. CASE Disconnects
        BY <4>8, <1>5 DEF Disconnects
      <4>9. CASE HandleError
        BY <4>9, <1>5 DEF HandleError
      <4> QED BY <4>1, <4>2, <4>3, <4>4, <4>5, <4>6, <4>7, <4>8, <4>9 DEF Receives
    <3>1. CASE emitCh' = emitCh
      BY <3>1 DEF LinesOK
    <3>2. CASE \E c \in Sent : Emit(c)
      BY <3>2, <2>0, EmitCarried
    <3> QED BY <3>0, <3>1, <3>2
  <2>2. said' \in Seq(Singles({"text", "end"}))
    <3>1. \/ said' = said
          \/ said' = Append(said, Chunk("text", responses))
          \/ said' = Append(said, Chunk("end", responses))
      BY DEF Receives, SpeechStarted, ResponseCreated, HandleTranscriptDelta, HandleAudioDelta, HandleResponseDone,
             HandleInputTranscription, TranscriptionFails, HandleError, Disconnects, ghostVars
    <3>2. said \in Seq(Singles({"text", "end"}))
      BY DEF LinesOK
    <3> QED BY <1>5, <3>1, <3>2
  <2>3. \A K : Singles(K)' = Singles(K)
    BY DEF Singles, Chunk
  <2> QED BY <2>0, <2>1, <2>2 DEF LinesOK
<1> QED BY <1>2, <1>3, <1>4, <1>6

LEMMA BasePumps ==
    ASSUME Base, Pumps
    PROVE  Base'
<1> USE DEF Base
<1>1. UNCHANGED <<wire, wireClosed, buffered, userEmitted, pendingEnd, reordering, out, replaced, guessed,
                  spoke, heard, responses, owner, responseActive, deltas, captured, hasContent, said, barged>>
  BY DEF Pumps, reorderVars, sessionVars, stageVars, ghostVars
<1>2. TurnOK'
  BY <1>1 DEF TurnOK
<1>3. emitClosed' = emitClosed /\ dropping' = dropping
  BY DEF Pumps, PumpStep, PumpReceives, PumpForwards, PumpDrops, PumpEnds
<1>4. respClosed' \in BOOLEAN /\ dropCh' \in BOOLEAN
  BY DEF Pumps, PumpStep, PumpReceives, PumpForwards, PumpDrops, PumpEnds, FlagsOK
<1>5. FlagsOK'
  BY <1>1, <1>3, <1>4 DEF FlagsOK
<1>6. CASE PumpReceives \/ PumpForwards
  <2>1. LinesOK'
    BY <1>1, <1>6, MoveCarried DEF LinesOK
  <2>2. ~respClosed'
    <3>1. emitCh # << >> \/ queue # << >>
      BY <1>6 DEF PumpReceives, PumpForwards
    <3>2. respClosed' = respClosed
      BY <1>6 DEF PumpReceives, PumpForwards
    <3> QED BY <3>1, <3>2 DEF ClosedOK
  <2>3. ClosedOK'
    BY <1>1, <1>3, <2>2 DEF ClosedOK
  <2> QED BY <1>2, <1>5, <2>1, <2>3
<1>7. CASE PumpDrops
  <2>1. LinesOK'
    BY <1>1, <1>7, DropQueue DEF LinesOK
  <2>2. ~respClosed'
    BY <1>7 DEF PumpDrops
  <2>3. ClosedOK'
    BY <1>1, <1>3, <2>2 DEF ClosedOK
  <2> QED BY <1>2, <1>5, <2>1, <2>3
<1>8. CASE PumpEnds
  <2>1. UNCHANGED <<emitCh, queue, respCh>> /\ emitClosed /\ emitCh = << >> /\ queue = << >>
    BY <1>8 DEF PumpEnds
  <2>2. LinesOK'
    BY <1>1, <2>1 DEF LinesOK
  <2>3. ClosedOK'
    BY <1>1, <1>3, <2>1 DEF ClosedOK
  <2> QED BY <1>2, <1>5, <2>2, <2>3
<1> QED BY <1>6, <1>7, <1>8 DEF Pumps, PumpStep

\* What handleResponseChunk makes of a chunk.
Becomes(c, e) ==
    \/ c.kind \in {"text", "audio", "end", "error"} /\ e = c
    \/ c.kind = "transcript" /\ e.kind \in {"user", "empty"} /\ Num(e) = Num(c)

LEMMA ChunkBecomes ==
    ASSUME Base, HandleResponseChunk
    PROVE  \E c \in Sent, e \in Forwarded :
              /\ Response(c) /\ Becomes(c, e) /\ ForwardsElement(e)
              /\ c.kind \in {"text", "audio"} => hasContent' = TRUE
              /\ c.kind = "end" => hasContent' = FALSE
              /\ c.kind \in {"transcript", "error"} => hasContent' = hasContent
              /\ UNCHANGED <<emitCh, queue>>
<1>1. PICK c \in ToSet(respCh) : /\ Response(c)
                                 /\ \/ TranscriptChunk(c) \/ ContentChunk(c) \/ FinalChunk(c)
                                    \/ ErrorChunk(c)
  BY DEF HandleResponseChunk
<1>2. UNCHANGED <<emitCh, queue>>
  BY DEF HandleResponseChunk
<1>3. c \in Sent
  BY <1>1, <1>2, TakeCarried DEF Base
<1>4. /\ c.kind \in {"text", "audio", "end", "transcript", "error"}
      /\ Num(c) \in 0 .. (Utterances + MaxResponses) /\ c = Chunk(c.kind, Num(c))
  BY <1>3, SingleIs DEF Sent
<1>5. CASE TranscriptChunk(c)
  <2> DEFINE k == IF captured THEN "empty" ELSE "user"
             e == [c EXCEPT !.kind = k]
  <2>1. c.kind = "transcript" /\ ForwardsElement(e) /\ hasContent' = hasContent
    BY <1>5 DEF TranscriptChunk
  <2>2. e = Chunk(k, Num(c))
    BY <1>4 DEF Chunk
  <2>3. k \in {"user", "empty"} /\ k \in {"text", "audio", "end", "user", "empty", "error"}
    OBVIOUS
  <2> HIDE DEF k
  <2>4. e.kind = k /\ Num(e) = Num(c)
    BY <2>2, ChunkIs
  <2>5. e \in Forwarded
    BY <1>4, <2>2, <2>3, InSingles DEF Forwarded
  <2> HIDE DEF e
  <2> QED BY <1>1, <1>2, <1>3, <2>1, <2>3, <2>4, <2>5 DEF Becomes
<1>6. CASE ContentChunk(c) \/ FinalChunk(c) \/ ErrorChunk(c)
  <2>1. /\ c.kind \in {"text", "audio", "end", "error"} /\ ForwardsElement(c)
        /\ c.kind \in {"text", "audio"} => hasContent' = TRUE
        /\ c.kind = "end" => hasContent' = FALSE
        /\ c.kind = "error" => hasContent' = hasContent
    BY <1>6 DEF ContentChunk, FinalChunk, ErrorChunk
  <2>2. c \in Forwarded
    <3>1. c.kind \in {"text", "audio", "end", "user", "empty", "error"}
      BY <2>1
    <3> QED BY <1>4, <3>1, InSingles DEF Forwarded
  <2> QED BY <1>1, <1>2, <1>3, <2>1, <2>2 DEF Becomes
<1> QED BY <1>1, <1>5, <1>6

LEMMA Forwards ==
    ASSUME LinesOK, NEW e \in Forwarded, ForwardsElement(e)
    PROVE  wire' = Append(wire, e) /\ wire' \in Seq(Forwarded) /\ Len(wire)' <= WireSize
<1>1. wire \in Seq(Forwarded) /\ WireSize \in Nat /\ Len(wire) < WireSize /\ wire' = Append(wire, e)
  BY VoiceAssumption DEF LinesOK, ForwardsElement
<1> QED BY <1>1

LEMMA BaseStage ==
    ASSUME Base, HandleResponseChunk \/ ResponsesEnd \/ MicrophoneAudio
    PROVE  Base'
<1> USE DEF Base
<1>0. /\ UNCHANGED <<emitCh, emitClosed, queue, respClosed, dropCh, dropping, spoke, heard, responses, owner,
                     responseActive, deltas, barged>>
      /\ UNCHANGED <<buffered, userEmitted, pendingEnd, reordering, out, replaced, guessed>>
  BY DEF HandleResponseChunk, ResponsesEnd, MicrophoneAudio, ReorderIdle, sessionVars, pumpVars, reorderVars, ghostVars
<1>1. TurnOK' /\ ClosedOK'
  BY <1>0 DEF TurnOK, ClosedOK
<1>2. FlagsOK'
  <2>1. wireClosed' \in BOOLEAN /\ captured' \in BOOLEAN /\ hasContent' \in BOOLEAN
    BY DEF HandleResponseChunk, ResponsesEnd, MicrophoneAudio, TranscriptChunk, ContentChunk, FinalChunk, ErrorChunk,
           FlagsOK, reorderVars
  <2> QED BY <1>0, <2>1 DEF FlagsOK
<1>3. CASE HandleResponseChunk
  <2>1. PICK c \in Sent, e \in Forwarded : Response(c) /\ ForwardsElement(e)
    BY <1>3, ChunkBecomes
  <2>2. wire' \in Seq(Forwarded) /\ Len(wire)' <= WireSize
    BY <2>1, Forwards
  <2>3. respCh' \in Seq(Sent) /\ Len(respCh)' <= ResponseSize
    BY <1>0, <2>1, TakeCarried
  <2>4. said' = said
    BY <1>3 DEF HandleResponseChunk
  <2>5. LinesOK'
    BY <1>0, <2>2, <2>3, <2>4 DEF LinesOK
  <2> QED BY <1>1, <1>2, <2>5
<1>4. CASE ResponsesEnd
  <2>1. respCh' = respCh
    BY <1>4 DEF ResponsesEnd, pumpVars
  <2>2. CASE hasContent
    <3> DEFINE e == Chunk("end", responses)
    <3>1. e \in Forwarded /\ e \in Singles({"text", "end"})
      BY NumbersFit, InSingles DEF Forwarded
    <3>2. ForwardsElement(e) /\ said' = Append(said, e)
      BY <1>4, <2>2 DEF ResponsesEnd
    <3> HIDE DEF e
    <3>3. wire' \in Seq(Forwarded) /\ Len(wire)' <= WireSize
      BY <3>1, <3>2, Forwards
    <3>4. said' \in Seq(Singles({"text", "end"}))
      BY <3>1, <3>2 DEF LinesOK
    <3>5. LinesOK'
      BY <1>0, <2>1, <3>3, <3>4 DEF LinesOK
    <3> QED BY <1>1, <1>2, <3>5
  <2>3. CASE ~hasContent
    <3>1. wire' = wire /\ said' = said
      BY <1>4, <2>3 DEF ResponsesEnd
    <3>2. LinesOK'
      BY <1>0, <2>1, <3>1 DEF LinesOK
    <3> QED BY <1>1, <1>2, <3>2
  <2> QED BY <2>2, <2>3
<1>5. CASE MicrophoneAudio
  <2>1. UNCHANGED <<respCh, wire, said>>
    BY <1>5 DEF MicrophoneAudio, pumpVars, reorderVars, ghostVars
  <2>2. LinesOK'
    BY <1>0, <2>1 DEF LinesOK
  <2> QED BY <1>1, <1>2, <2>2
<1> QED BY <1>3, <1>4, <1>5

-----------------------------------------------------------------------------
(* The steps of TranscriptReorderStage, by what they do to the turn.       *)

Reads(h) ==
    /\ h \in Forwarded /\ wire' \in Seq(Forwarded) /\ wire = <<h>> \o wire' /\ Len(wire)' <= WireSize
    /\ reordering = "running" /\ reordering' = "running"

Resolves(p) ==
    /\ p \in Seq(Of({"placeholder"})) /\ Len(p) <= 1
    /\ ~userEmitted /\ userEmitted' = FALSE /\ guessed' = TRUE /\ replaced' = replaced
    /\ out' = ((out \o p) \o buffered) \o pendingEnd /\ pendingEnd' = << >>

ReadsUser(h) ==
    /\ Reads(h) /\ h.kind = "user"
    /\ out' = ((out \o <<h>>) \o buffered) \o pendingEnd
    /\ buffered' = << >> /\ pendingEnd' = << >> /\ userEmitted' = (pendingEnd = << >>)
    /\ UNCHANGED <<replaced, guessed>>

Passes(h) ==
    /\ Reads(h) /\ h.kind \in {"text", "end"}
    /\ userEmitted /\ buffered = << >> /\ pendingEnd = << >>
    /\ out' = Append(out, h) /\ userEmitted' = (h.kind = "text")
    /\ UNCHANGED <<buffered, pendingEnd, replaced, guessed>>

Holds(h) ==
    /\ Reads(h) /\ h.kind = "end" /\ ~userEmitted
    /\ pendingEnd' = <<h>> /\ replaced' = replaced \o pendingEnd
    /\ UNCHANGED <<buffered, userEmitted, out, guessed>>

Buffers(h) ==
    /\ Reads(h) /\ h.kind = "text" /\ ~userEmitted /\ pendingEnd = << >>
    /\ buffered' = Append(buffered, h)
    /\ UNCHANGED <<userEmitted, pendingEnd, out, replaced, guessed>>

ReadsText(h) ==
    /\ Reads(h) /\ h.kind = "text" /\ pendingEnd # << >> /\ buffered' = <<h>>
    /\ \E p \in Seq(Of({"placeholder"})) : Resolves(p)

ReadsOther(h) ==
    /\ Reads(h) /\ h.kind \in {"audio", "empty", "error"}
    /\ out' = IF h.kind = "error" THEN Append(out, h) ELSE out
    /\ UNCHANGED <<buffered, userEmitted, pendingEnd, replaced, guessed>>

GivesUp ==
    /\ wire' = wire /\ buffered' = << >>
    /\ \E p \in Seq(Of({"placeholder"})) : Resolves(p)
    /\ reordering = "running" /\ reordering' \in {"running", "done"}
    /\ reordering' = "running" => pendingEnd # << >>

Stops == reordering' = "done" /\ UNCHANGED <<wire, buffered, userEmitted, pendingEnd, out, replaced, guessed>>

ReorderStep == Reorders(Handle) \/ Reorders(HoldTimeout) \/ Reorders(InputClosed)

\* The numbers of a placeholder are those of the elements that it speaks for.
LEMMA PlaceholderIs ==
    ASSUME LinesOK
    PROVE  Placeholder \in Of({"placeholder"})
<1>1. \A i \in DOMAIN buffered : buffered[i].of \subseteq 0 .. (Utterances + MaxResponses)
  <2> TAKE i \in DOMAIN buffered
  <2>1. buffered[i] \in Singles({"text"})
    BY DEF LinesOK
  <2> QED BY <2>1, SingleIs
<1>2. \A e \in ToSet(pendingEnd) : e.of \subseteq 0 .. (Utterances + MaxResponses)
  <2> TAKE e \in ToSet(pendingEnd)
  <2>1. e \in Singles({"end"})
    BY DEF LinesOK, ToSet
  <2> QED BY <2>1, SingleIs
<1>3. Held \subseteq 0 .. (Utterances + MaxResponses)
  <2> SUFFICES ASSUME NEW n \in Held PROVE n \in 0 .. (Utterances + MaxResponses)
    OBVIOUS
  <2>1. (\E i \in DOMAIN buffered : n \in buffered[i].of) \/ (\E e \in ToSet(pendingEnd) : n \in e.of)
    <3> DEFINE A == {buffered[i].of : i \in DOMAIN buffered}
               B == {e.of : e \in ToSet(pendingEnd)}
    <3>1. n \in UNION A \/ n \in UNION B
      BY DEF Held
    <3>2. (\E x \in A : n \in x) \/ (\E x \in B : n \in x)
      BY <3>1
    <3> QED BY <3>2
  <2> QED BY <1>1, <1>2, <2>1
<1> QED BY <1>3 DEF Placeholder, Of, Numbers

LEMMA JoinOut ==
    ASSUME LinesOK, NEW p \in Seq(Things)
    PROVE  out \o ((p \o buffered) \o pendingEnd) = ((out \o p) \o buffered) \o pendingEnd
<1>1. out \in Seq(Things) /\ buffered \in Seq(Things) /\ pendingEnd \in Seq(Things)
  BY LinesAreThings
<1> DEFINE w == p \o buffered
<1>2. out \o w = (out \o p) \o buffered
  BY <1>1
<1>3. w \in Seq(Things)
  BY <1>1
<1> HIDE DEF w
<1>4. out \o (w \o pendingEnd) = (out \o w) \o pendingEnd
  BY <1>1, <1>3
<1> QED BY <1>2, <1>4 DEF w

LEMMA ResolvedIs ==
    ASSUME LinesOK, ~userEmitted, userEmitted' = FALSE, out' = out \o Resolved, guessed' = (guessed \/ ~userEmitted),
           replaced' = replaced, pendingEnd' = << >>
    PROVE  \E p \in Seq(Of({"placeholder"})) : Resolves(p)
<1> DEFINE p == IF HasPlaceholder /\ ~userEmitted THEN <<Placeholder>> ELSE << >>
<1>1. Placeholder \in Of({"placeholder"})
  BY PlaceholderIs
<1>2. p \in Seq(Of({"placeholder"})) /\ Len(p) <= 1
  <2> DEFINE S == Of({"placeholder"})
             e == Placeholder
  <2>1. e \in S
    BY <1>1
  <2> HIDE DEF S, e
  <2>2. <<e>> \in Seq(S) /\ Len(<<e>>) = 1 /\ << >> \in Seq(S) /\ Len(<< >>) = 0
    BY <2>1
  <2>3. p = <<e>> \/ p = << >>
    BY DEF e
  <2> HIDE DEF p
  <2>4. p \in Seq(S) /\ Len(p) <= 1
    <3> DEFINE o == <<e>>
               z == << >>
    <3>1. o \in Seq(S) /\ z \in Seq(S) /\ Len(o) <= 1 /\ Len(z) <= 1 /\ (p = o \/ p = z)
      BY <2>2, <2>3
    <3> HIDE DEF o, z
    <3> QED BY <3>1
  <2> QED BY <2>4 DEF S
<1>3. p \in Seq(Things)
  <2>1. Of({"placeholder"}) \subseteq Things
    BY DEF Of, Things, Kinds
  <2> QED BY <1>2, <2>1
<1>4. Resolved = (p \o buffered) \o pendingEnd
  BY DEF Resolved
<1> HIDE DEF p
<1>5. out \in Seq(Things) /\ buffered \in Seq(Things) /\ pendingEnd \in Seq(Things)
  BY LinesAreThings
<1>6. out' = ((out \o p) \o buffered) \o pendingEnd
  BY <1>3, <1>4, JoinOut
<1> QED BY <1>2, <1>6 DEF Resolves

LEMMA ReorderShapes ==
    ASSUME Base, ReorderStep
    PROVE  \/ \E h \in Forwarded : \/ ReadsUser(h) \/ Passes(h) \/ Holds(h) \/ Buffers(h) \/ ReadsText(h)
                                   \/ ReadsOther(h)
           \/ GivesUp
           \/ Stops
<1> USE DEF Base
<1>1. LinesOK /\ TurnOK
  OBVIOUS
<1>2. CASE Handle
  <2> DEFINE h == Head(wire)
  <2>1. wire # << >> /\ wire' = Tail(wire) /\ reordering = "running" /\ reordering' = reordering
    BY <1>2 DEF Handle
  <2>2. Reads(h) /\ h \in Forwarded
    <3>1. wire \in Seq(Forwarded) /\ Len(wire) <= WireSize /\ WireSize \in Nat
      BY VoiceAssumption DEF LinesOK
    <3>2. /\ h \in Forwarded /\ Tail(wire) \in Seq(Forwarded) /\ Len(Tail(wire)) <= WireSize
          /\ wire = <<h>> \o Tail(wire)
      BY <2>1, <3>1, HeadIs
    <3> QED BY <2>1, <3>2 DEF Reads
  <2>3. h.kind \in {"text", "audio", "end", "user", "empty", "error"}
    BY <2>2, SingleIs DEF Forwarded
  <2>4. HandleUserTurn(h) \/ HandleTurnEnd(h) \/ HandleText(h) \/ HandleOther(h)
    BY <1>2 DEF Handle
  <2> HIDE DEF h
  <2>5. out \in Seq(Things) /\ h \in Things /\ buffered \in Seq(Things) /\ pendingEnd \in Seq(Things)
    <3>2. h \in Things
      <4>1. {"text", "audio", "end", "user", "empty", "error"} \in SUBSET Kinds
        BY DEF Kinds
      <4> QED BY <2>2, <4>1, KindsAreThings DEF Forwarded
    <3> QED BY <3>2, LinesAreThings
  <2>6. CASE HandleUserTurn(h)
    <3>1. ReadsUser(h)
      BY <2>2, <2>6 DEF HandleUserTurn, ReadsUser, ResetTurn
    <3> QED BY <2>2, <3>1
  <2>7. CASE HandleTurnEnd(h)
    <3>1. CASE userEmitted
      <4>1. buffered = << >> /\ pendingEnd = << >>
        BY <1>1, <3>1 DEF TurnOK
      <4>2. out' = (out \o << >>) \o <<h>> /\ ResetTurn /\ replaced' = replaced /\ guessed' = guessed /\ h.kind = "end"
        BY <2>7, <3>1, <4>1 DEF HandleTurnEnd
      <4>3. (out \o << >>) \o <<h>> = Append(out, h)
        BY <2>5
      <4>4. Passes(h)
        BY <2>2, <3>1, <4>1, <4>2, <4>3 DEF Passes, ResetTurn
      <4> QED BY <2>2, <4>4
    <3>2. CASE ~userEmitted
      <4>1. Holds(h)
        BY <2>2, <2>7, <3>2 DEF HandleTurnEnd, Holds
      <4> QED BY <2>2, <4>1
    <3> QED BY <3>1, <3>2
  <2>8. CASE HandleText(h)
    <3>1. CASE pendingEnd # << >>
      <4>1. ~userEmitted
        BY <1>1, <3>1 DEF TurnOK
      <4>2. /\ out' = out \o Resolved /\ guessed' = (guessed \/ ~userEmitted) /\ replaced' = replaced
            /\ userEmitted' = FALSE /\ buffered' = <<h>> /\ pendingEnd' = << >> /\ h.kind = "text"
        BY <2>8, <3>1 DEF HandleText
      <4>3. \E p \in Seq(Of({"placeholder"})) : Resolves(p)
        BY <1>1, <4>1, <4>2, ResolvedIs
      <4>4. ReadsText(h)
        BY <2>2, <3>1, <4>2, <4>3 DEF ReadsText
      <4> QED BY <2>2, <4>4
    <3>2. CASE pendingEnd = << >>
      <4>1. CASE userEmitted
        <5>1. buffered = << >> /\ pendingEnd = << >>
          BY <1>1, <4>1 DEF TurnOK
        <5>2. Passes(h)
          BY <2>2, <2>8, <4>1, <5>1 DEF Passes, HandleText
        <5> QED BY <2>2, <5>2
      <4>2. CASE ~userEmitted
        <5>1. Buffers(h)
          BY <2>2, <2>8, <3>2, <4>2 DEF Buffers, HandleText
        <5> QED BY <2>2, <5>1
      <4> QED BY <4>1, <4>2
    <3> QED BY <3>1, <3>2
  <2>9. CASE HandleOther(h)
    <3>1. ReadsOther(h)
      BY <2>2, <2>3, <2>9 DEF HandleOther, ReadsOther, TurnUnchanged
    <3> QED BY <2>2, <3>1
  <2> QED BY <2>4, <2>6, <2>7, <2>8, <2>9
<1>3. CASE HoldTimeout
  <2>1. /\ out' = out \o Resolved /\ guessed' = (guessed \/ ~userEmitted) /\ replaced' = replaced
        /\ userEmitted' = FALSE /\ buffered' = << >> /\ pendingEnd' = << >> /\ wire' = wire
        /\ pendingEnd # << >> /\ reordering = "running" /\ reordering' = reordering
    BY <1>3 DEF HoldTimeout, Resolve, ResetTurn
  <2>2. ~userEmitted
    BY <1>1, <2>1 DEF TurnOK
  <2>3. \E p \in Seq(Of({"placeholder"})) : Resolves(p)
    BY <1>1, <2>1, <2>2, ResolvedIs
  <2> QED BY <2>1, <2>3 DEF GivesUp
<1>4. CASE InputClosed
  <2>1. CASE pendingEnd # << >> \/ buffered # << >>
    <3>1. /\ out' = out \o Resolved /\ guessed' = (guessed \/ ~userEmitted) /\ replaced' = replaced
          /\ userEmitted' = FALSE /\ buffered' = << >> /\ pendingEnd' = << >> /\ wire' = wire
          /\ reordering = "running" /\ reordering' = "done"
      BY <1>4, <2>1 DEF InputClosed, Resolve, ResetTurn
    <3>2. ~userEmitted
      BY <1>1, <2>1 DEF TurnOK
    <3>3. \E p \in Seq(Of({"placeholder"})) : Resolves(p)
      BY <1>1, <3>1, <3>2, ResolvedIs
    <3> QED BY <3>1, <3>3 DEF GivesUp
  <2>2. CASE ~(pendingEnd # << >> \/ buffered # << >>)
    BY <1>4, <2>2 DEF InputClosed, Stops, TurnUnchanged
  <2> QED BY <2>1, <2>2
<1> QED BY <1>2, <1>3, <1>4 DEF ReorderStep, Reorders

LEMMA ShownAre ==
    /\ Singles({"text"}) \subseteq Shown /\ Singles({"end"}) \subseteq Shown /\ Of({"placeholder"}) \subseteq Shown
    /\ \A h \in Forwarded : /\ h \in Things
                            /\ h.kind \in {"text", "end", "user", "error"} => h \in Shown
                            /\ h.kind = "text" => h \in Singles({"text"})
                            /\ h.kind = "end" => h \in Singles({"end"})
<1>1. Singles({"text"}) \subseteq Shown /\ Singles({"end"}) \subseteq Shown /\ Of({"placeholder"}) \subseteq Shown
  BY DEF Shown, Singles
<1>2. ASSUME NEW h \in Forwarded
      PROVE  /\ h \in Things
             /\ h.kind \in {"text", "end", "user", "error"} => h \in Shown
             /\ h.kind = "text" => h \in Singles({"text"})
             /\ h.kind = "end" => h \in Singles({"end"})
  <2>1. Num(h) \in 0 .. (Utterances + MaxResponses) /\ h = Chunk(h.kind, Num(h))
    BY SingleIs DEF Forwarded
  <2>2. \A K : h.kind \in K => h \in Singles(K)
    BY <2>1, InSingles
  <2>3. h \in Things
    <3>1. {"text", "audio", "end", "user", "empty", "error"} \in SUBSET Kinds
      BY DEF Kinds
    <3> QED BY <3>1, KindsAreThings DEF Forwarded
  <2> QED BY <2>2, <2>3 DEF Shown
<1> QED BY <1>1, <1>2

LEMMA Joined ==
    ASSUME NEW T, NEW s \in Seq(T), NEW t \in Seq(T), NEW u \in Seq(T), NEW v \in Seq(T)
    PROVE  ((s \o t) \o u) \o v \in Seq(T)
<1> DEFINE w == s \o t
<1>1. w \in Seq(T)
  OBVIOUS
<1> HIDE DEF w
<1>2. (w \o u) \o v \in Seq(T)
  BY <1>1
<1> QED BY <1>2 DEF w

LEMMA BaseReorders ==
    ASSUME Base, ReorderStep
    PROVE  Base'
<1> USE DEF Base
<1>0. UNCHANGED <<emitCh, emitClosed, queue, respCh, respClosed, dropCh, dropping, spoke, heard, responses, owner,
                  responseActive, deltas, captured, hasContent, said, barged>> /\ wireClosed' = wireClosed
  BY DEF ReorderStep, Reorders, Handle, HoldTimeout, InputClosed, pumpVars, sessionVars, stageVars, ghostVars
<1>1. ClosedOK'
  BY <1>0 DEF ClosedOK
<1>2. \/ \E h \in Forwarded : \/ ReadsUser(h) \/ Passes(h) \/ Holds(h) \/ Buffers(h) \/ ReadsText(h)
                              \/ ReadsOther(h)
      \/ GivesUp \/ Stops
  BY ReorderShapes
<1>3. /\ buffered \in Seq(Singles({"text"})) /\ pendingEnd \in Seq(Singles({"end"})) /\ Len(pendingEnd) <= 1
      /\ out \in Seq(Shown) /\ replaced \in Seq(Singles({"end"})) /\ wire \in Seq(Forwarded) /\ Len(wire) <= WireSize
  BY DEF LinesOK
<1>4. FlagsOK'
  <2>1. reordering' \in {"running", "done"} /\ userEmitted' \in BOOLEAN /\ guessed' \in BOOLEAN
    <3>1. reordering' \in {"running", "done"}
      BY <1>2 DEF ReadsUser, Passes, Holds, Buffers, ReadsText, ReadsOther, Reads, GivesUp, Stops
    <3>2. userEmitted' \in BOOLEAN /\ guessed' \in BOOLEAN
      <4>0. userEmitted \in BOOLEAN /\ guessed \in BOOLEAN
        BY DEF FlagsOK
      <4>1. \A h : ReadsUser(h) => userEmitted' \in BOOLEAN /\ guessed' = guessed
        BY DEF ReadsUser
      <4>2. \A h : Passes(h) => userEmitted' \in BOOLEAN /\ guessed' = guessed
        BY DEF Passes
      <4>3. \A h : Holds(h) \/ Buffers(h) \/ ReadsOther(h) => userEmitted' = userEmitted /\ guessed' = guessed
        BY DEF Holds, Buffers, ReadsOther
      <4>4. (\A h : ReadsText(h) => guessed' = TRUE /\ userEmitted' = FALSE) /\ (GivesUp => guessed' = TRUE /\ userEmitted' = FALSE)
        BY DEF ReadsText, GivesUp, Resolves
      <4>5. Stops => userEmitted' = userEmitted /\ guessed' = guessed
        BY DEF Stops
      <4> QED BY <1>2, <4>0, <4>1, <4>2, <4>3, <4>4, <4>5
    <3> QED BY <3>1, <3>2
  <2> QED BY <1>0, <2>1 DEF FlagsOK
<1>5. TurnOK'
  <2>1. CASE GivesUp \/ \E h \in Forwarded : ReadsText(h)
    BY <2>1 DEF TurnOK, GivesUp, ReadsText, Resolves
  <2>2. CASE Stops \/ \E h \in Forwarded : \/ ReadsUser(h) \/ Passes(h) \/ Holds(h) \/ Buffers(h) \/ ReadsOther(h)
    BY <2>2 DEF TurnOK, Stops, ReadsUser, Passes, Holds, Buffers, ReadsOther
  <2> QED BY <1>2, <2>1, <2>2
<1>6. wire' \in Seq(Forwarded) /\ Len(wire)' <= WireSize
  BY <1>2, <1>3 DEF Stops, ReadsUser, Passes, Holds, Buffers, ReadsText, ReadsOther, Reads, GivesUp
<1>7. buffered \in Seq(Shown) /\ pendingEnd \in Seq(Shown)
  BY <1>3, ShownAre
<1>8. \A p : Resolves(p) => out' \in Seq(Shown) /\ pendingEnd' = << >> /\ replaced' = replaced
  <2> SUFFICES ASSUME NEW p, Resolves(p) PROVE out' \in Seq(Shown) /\ pendingEnd' = << >> /\ replaced' = replaced
    OBVIOUS
  <2>1. p \in Seq(Shown)
    BY ShownAre DEF Resolves
  <2>2. ((out \o p) \o buffered) \o pendingEnd \in Seq(Shown)
    BY <1>3, <1>7, <2>1, Joined
  <2> QED BY <2>2 DEF Resolves
<1>9. LinesOK'
  <2>0. \A e, S : e \in S => <<e>> \in Seq(S)
    OBVIOUS
  <2>z. << >> \in Seq(Singles({"text"})) /\ << >> \in Seq(Singles({"end"})) /\ Len(<< >>) <= 1
    OBVIOUS
  <2>1. CASE \E h \in Forwarded : ReadsUser(h)
    <3>1. PICK h \in Forwarded : ReadsUser(h)
      BY <2>1
    <3>2. h \in Shown
      BY <3>1, ShownAre DEF ReadsUser
    <3>3. <<h>> \in Seq(Shown)
      BY <2>0, <3>2
    <3>4. ((out \o <<h>>) \o buffered) \o pendingEnd \in Seq(Shown)
      BY <1>3, <1>7, <3>3, Joined
    <3>5. out' \in Seq(Shown) /\ buffered' = << >> /\ pendingEnd' = << >> /\ replaced' = replaced
      BY <3>1, <3>4 DEF ReadsUser
    <3> QED BY <1>0, <1>3, <1>6, <2>z, <3>5 DEF LinesOK
  <2>2. CASE \E h \in Forwarded : Passes(h)
    <3>1. PICK h \in Forwarded : Passes(h)
      BY <2>2
    <3>2. h \in Shown
      BY <3>1, ShownAre DEF Passes
    <3>3. Append(out, h) \in Seq(Shown)
      BY <1>3, <3>2
    <3>5. out' \in Seq(Shown) /\ UNCHANGED <<buffered, pendingEnd, replaced>>
      BY <3>1, <3>3 DEF Passes
    <3> QED BY <1>0, <1>3, <1>6, <3>5 DEF LinesOK
  <2>3. CASE \E h \in Forwarded : Holds(h)
    <3>1. PICK h \in Forwarded : Holds(h)
      BY <2>3
    <3>2. h \in Singles({"end"})
      BY <3>1, ShownAre DEF Holds
    <3>3. <<h>> \in Seq(Singles({"end"})) /\ Len(<<h>>) <= 1
      BY <3>2
    <3>4. replaced \o pendingEnd \in Seq(Singles({"end"}))
      BY <1>3
    <3>5. /\ pendingEnd' \in Seq(Singles({"end"})) /\ Len(pendingEnd)' <= 1 /\ replaced' \in Seq(Singles({"end"}))
          /\ UNCHANGED <<out, buffered>>
      BY <3>1, <3>3, <3>4 DEF Holds
    <3> QED BY <1>0, <1>3, <1>6, <3>5 DEF LinesOK
  <2>4. CASE \E h \in Forwarded : Buffers(h)
    <3>1. PICK h \in Forwarded : Buffers(h)
      BY <2>4
    <3>2. h \in Singles({"text"})
      BY <3>1, ShownAre DEF Buffers
    <3>3. Append(buffered, h) \in Seq(Singles({"text"}))
      BY <1>3, <3>2
    <3>5. buffered' \in Seq(Singles({"text"})) /\ UNCHANGED <<out, pendingEnd, replaced>>
      BY <3>1, <3>3 DEF Buffers
    <3> QED BY <1>0, <1>3, <1>6, <3>5 DEF LinesOK
  <2>5. CASE \E h \in Forwarded : ReadsText(h)
    <3>1. PICK h \in Forwarded : ReadsText(h)
      BY <2>5
    <3>2. h \in Singles({"text"})
      BY <3>1, ShownAre DEF ReadsText
    <3>3. buffered' \in Seq(Singles({"text"}))
      BY <2>0, <3>1, <3>2 DEF ReadsText
    <3>5. out' \in Seq(Shown) /\ pendingEnd' = << >> /\ replaced' = replaced
      BY <1>8, <3>1 DEF ReadsText
    <3> QED BY <1>0, <1>3, <1>6, <2>z, <3>3, <3>5 DEF LinesOK
  <2>6. CASE \E h \in Forwarded : ReadsOther(h)
    <3>1. PICK h \in Forwarded : ReadsOther(h)
      BY <2>6
    <3>2. h.kind = "error" => h \in Shown
      BY <3>1, ShownAre
    <3>3. h.kind = "error" => Append(out, h) \in Seq(Shown)
      BY <1>3, <3>2
    <3>5. out' \in Seq(Shown) /\ UNCHANGED <<buffered, pendingEnd, replaced>>
      BY <1>3, <3>1, <3>3 DEF ReadsOther
    <3> QED BY <1>0, <1>3, <1>6, <3>5 DEF LinesOK
  <2>7. CASE GivesUp
    <3>1. out' \in Seq(Shown) /\ pendingEnd' = << >> /\ replaced' = replaced /\ buffered' = << >>
      BY <1>8, <2>7 DEF GivesUp
    <3> QED BY <1>0, <1>3, <1>6, <2>z, <3>1 DEF LinesOK
  <2>8. CASE Stops
    BY <1>0, <1>3, <1>6, <2>8 DEF LinesOK, Stops
  <2> QED BY <1>2, <2>1, <2>2, <2>3, <2>4, <2>5, <2>6, <2>7, <2>8
<1> QED BY <1>1, <1>4, <1>5, <1>9

LEMMA BaseInit ==
    ASSUME VoiceInit
    PROVE  Base
<1>1. \A S : << >> \in Seq(S) /\ Len(<< >>) = 0
  OBVIOUS
<1>2. {EmitSize, ResponseSize, WireSize, Utterances, MaxResponses, MaxDeltas} \subseteq Nat
  BY VoiceAssumption, PumpAssumption
<1>3. LinesOK
  <2>1. 0 <= EmitSize /\ 0 <= ResponseSize /\ 0 <= WireSize
    BY <1>2
  <2>2. /\ emitCh = << >> /\ queue = << >> /\ respCh = << >> /\ wire = << >> /\ buffered = << >>
        /\ pendingEnd = << >> /\ out = << >> /\ replaced = << >> /\ said = << >>
    BY DEF VoiceInit, PumpInit, ReorderInit
  <2> QED BY <1>1, <2>1, <2>2 DEF LinesOK
<1>4. FlagsOK
  <2>1. /\ emitClosed = FALSE /\ respClosed = FALSE /\ dropCh = FALSE /\ dropping = FALSE /\ wireClosed = FALSE
        /\ userEmitted = FALSE /\ guessed = FALSE /\ responseActive = FALSE /\ captured = FALSE /\ hasContent = FALSE
    BY DEF VoiceInit, PumpInit, ReorderInit
  <2>2. /\ reordering = "running" /\ spoke = 0 /\ heard = 0 /\ responses = 0 /\ deltas = 0 /\ barged = {}
        /\ owner = [r \in 1 .. MaxResponses |-> 0]
    BY DEF VoiceInit, ReorderInit
  <2>3. heard \in 0 .. spoke /\ spoke \in 0 .. Utterances /\ responses \in 0 .. MaxResponses /\ deltas \in 0 .. MaxDeltas
    BY <1>2, <2>2
  <2>4. owner \in [1 .. MaxResponses -> 0 .. Utterances]
    BY <1>2, <2>2
  <2> QED BY <2>1, <2>2, <2>3, <2>4 DEF FlagsOK
<1>5. ClosedOK /\ TurnOK
  BY DEF VoiceInit, PumpInit, ReorderInit, ClosedOK, TurnOK
<1> QED BY <1>3, <1>4, <1>5 DEF Base

LEMMA BaseStays ==
    ASSUME Base, UNCHANGED voiceVars
    PROVE  Base'
<1>1. UNCHANGED <<emitCh, emitClosed, queue, respCh, respClosed, dropCh, dropping, wire, wireClosed, buffered,
                  userEmitted, pendingEnd, reordering, out, replaced, guessed, spoke, heard, responses, owner,
                  responseActive, deltas, captured, hasContent, said, barged>>
  BY DEF voiceVars, pumpVars, reorderVars, sessionVars, stageVars, ghostVars
<1> QED BY <1>1 DEF Base, LinesOK, FlagsOK, ClosedOK, TurnOK

LEMMA BaseNext ==
    ASSUME Base, [VoiceNext]_voiceVars
    PROVE  Base'
BY BaseReceives, BasePumps, BaseStage, BaseReorders, BaseStays DEF VoiceNext, ReorderStep

-----------------------------------------------------------------------------
(* What the server said.                                                   *)

LEMMA FollowIs ==
    ASSUME NEW K, NEW e \in Singles(K)
    PROVE  Follow(e) \in Nat /\ Num(e) \in Nat /\ (e.kind = "end" => Follow(e) = Num(e) + 1)
           /\ (e.kind # "end" => Follow(e) = Num(e))
BY SingleIs DEF Follow

LEMMA SaidGrows ==
    ASSUME NEW T, NEW s \in Seq(T), NEW e \in T, NEW R \in Nat, R >= 1, e.kind \in {"text", "end"},
           Num(e) = R, Turn(s) = R, Chain(s), EndsOnce(s),
           \A i \in DOMAIN s : Num(s[i]) \in 1 .. R /\ Follow(s[i]) \in Nat /\ Follow(s[i]) <= R
    PROVE  LET t == Append(s, e)
           IN  /\ Chain(t) /\ EndsOnce(t) /\ Turn(t) = Follow(e)
               /\ \A i \in DOMAIN t : Num(t[i]) \in 1 .. R /\ Follow(t[i]) <= Turn(t)
<1> DEFINE t == Append(s, e)
           L == Len(s)
<1>1. /\ L \in Nat /\ Len(t) = L + 1 /\ t[L + 1] = e /\ DOMAIN t = 1 .. (L + 1) /\ DOMAIN s = 1 .. L /\ t # << >>
      /\ \A i \in 1 .. L : t[i] = s[i]
  OBVIOUS
<1>2. s = << >> <=> L = 0
  OBVIOUS
<1> HIDE DEF t, L
<1>3. Turn(t) = Follow(e) /\ Follow(e) \in {R, R + 1} /\ (e.kind = "end" => Follow(e) = R + 1)
  BY <1>1 DEF Turn, Follow
<1>4. Turn(s) = IF L = 0 THEN 1 ELSE Follow(s[L])
  BY <1>2 DEF Turn, L
<1>5. Chain(t)
  <2> SUFFICES ASSUME NEW i \in 1 .. (L + 1) PROVE Num(t[i]) = IF i = 1 THEN 1 ELSE Follow(t[i - 1])
    BY <1>1 DEF Chain
  <2>1. CASE i = L + 1
    <3>1. CASE L = 0
      BY <1>1, <1>4, <2>1, <3>1
    <3>2. CASE L # 0
      <4>1. i - 1 = L /\ L \in 1 .. L /\ i # 1
        BY <1>1, <2>1, <3>2
      <4> QED BY <1>1, <1>4, <2>1, <3>2, <4>1
    <3> QED BY <3>1, <3>2
  <2>2. CASE i # L + 1
    <3>1. i \in 1 .. L /\ (i # 1 => i - 1 \in 1 .. L)
      BY <1>1, <2>2
    <3>2. Num(s[i]) = IF i = 1 THEN 1 ELSE Follow(s[i - 1])
      BY <1>1, <3>1 DEF Chain
    <3> QED BY <1>1, <3>1, <3>2
  <2> QED BY <2>1, <2>2
<1>6. EndsOnce(t)
  <2> SUFFICES ASSUME NEW i \in 1 .. (L + 1), NEW j \in 1 .. (L + 1), t[i] = t[j], t[i].kind = "end" PROVE i = j
    BY <1>1 DEF EndsOnce
  <2>1. \A k \in 1 .. L : ~(s[k] = e /\ e.kind = "end")
    BY <1>1, <1>3
  <2>2. CASE i \in 1 .. L /\ j \in 1 .. L
    BY <1>1, <2>2 DEF EndsOnce
  <2>3. CASE i = L + 1 /\ j \in 1 .. L
    BY <1>1, <2>1, <2>3
  <2>4. CASE i \in 1 .. L /\ j = L + 1
    BY <1>1, <2>1, <2>4
  <2>5. (i \in 1 .. L \/ i = L + 1) /\ (j \in 1 .. L \/ j = L + 1)
    BY <1>1
  <2> QED BY <2>2, <2>3, <2>4, <2>5
<1>7. \A i \in DOMAIN t : Num(t[i]) \in 1 .. R /\ Follow(t[i]) <= Turn(t)
  <2> SUFFICES ASSUME NEW i \in 1 .. (L + 1) PROVE Num(t[i]) \in 1 .. R /\ Follow(t[i]) <= Turn(t)
    BY <1>1
  <2>1. CASE i = L + 1
    BY <1>1, <1>3, <2>1
  <2>2. CASE i # L + 1
    <3>1. i \in 1 .. L
      BY <1>1, <2>2
    <3> QED BY <1>1, <1>3, <3>1
  <2> QED BY <2>1, <2>2
<1> QED BY <1>3, <1>5, <1>6, <1>7 DEF t

LEMMA TurnIs ==
    ASSUME Base, SaidOK
    PROVE  /\ \A i \in DOMAIN said : Follow(said[i]) \in Nat /\ said[i] \in Singles({"text", "end"})
           /\ Turn(said) \in Nat /\ Turn(said) >= 1
<1>1. said \in Seq(Singles({"text", "end"}))
  BY DEF Base, LinesOK
<1>2. \A i \in DOMAIN said : Follow(said[i]) \in Nat /\ said[i] \in Singles({"text", "end"}) /\ Num(said[i]) >= 1
                             /\ Follow(said[i]) >= Num(said[i]) /\ Num(said[i]) \in Nat
  <2> TAKE i \in DOMAIN said
  <2>1. said[i] \in Singles({"text", "end"})
    BY <1>1
  <2>2. Num(said[i]) \in 1 .. responses /\ responses \in Nat
    BY NumbersFit DEF SaidOK, Base
  <2> QED BY <2>1, <2>2, FollowIs
<1>3. said # << >> => Len(said) \in DOMAIN said
  BY <1>1
<1> QED BY <1>2, <1>3 DEF Turn

LEMMA SaidAppends ==
    ASSUME Base, SaidOK, NEW k \in {"text", "end"}, Turn(said) = responses,
           said' = Append(said, Chunk(k, responses)), responses' = responses
    PROVE  /\ Chain(said)' /\ EndsOnce(said)'
           /\ \A i \in DOMAIN said' : Num(said'[i]) \in 1 .. responses /\ Follow(said'[i]) <= Turn(said')
           /\ Turn(said') = IF k = "end" THEN responses + 1 ELSE responses
<1> DEFINE e == Chunk(k, responses)
           T == Singles({"text", "end"})
<1>1. /\ said \in Seq(T) /\ Turn(said) >= 1 /\ responses \in Nat /\ Chain(said) /\ EndsOnce(said)
      /\ \A i \in DOMAIN said : Num(said[i]) \in 1 .. responses /\ Follow(said[i]) \in Nat /\ Follow(said[i]) <= responses
  BY TurnIs, NumbersFit DEF Base, LinesOK, SaidOK
<1>2. e \in T /\ e.kind = k /\ Num(e) = responses
  BY NumbersFit, InSingles, ChunkIs DEF Base
<1>3. Follow(e) = IF k = "end" THEN responses + 1 ELSE responses
  BY <1>2 DEF Follow
<1>4. responses >= 1 /\ e.kind \in {"text", "end"}
  BY <1>1, <1>2
<1>5. said' = Append(said, e)
  OBVIOUS
<1> HIDE DEF e, T
<1> DEFINE t == Append(said, e)
<1>6. /\ Chain(t) /\ EndsOnce(t) /\ Turn(t) = Follow(e)
      /\ \A i \in DOMAIN t : Num(t[i]) \in 1 .. responses /\ Follow(t[i]) <= Turn(t)
  BY <1>1, <1>2, <1>4, SaidGrows
<1> QED BY <1>3, <1>5, <1>6

LEMMA SaidStays ==
    ASSUME SaidOK, UNCHANGED <<said, responses, responseActive>>, emitClosed => emitClosed'
    PROVE  SaidOK'
BY DEF SaidOK

\* A held answer of which nothing was told ends when the session does.
LEMMA ContentOpen ==
    ASSUME Base, SaidOK, EndOK, ResponsesEnd, hasContent
    PROVE  Turn(said) = responses
<1>1. respCh = << >> /\ queue = << >> /\ emitCh = << >>
  BY DEF ResponsesEnd, Base, ClosedOK
<1>2. Carried = << >>
  BY <1>1 DEF Carried
<1>3. Transit = << >>
  BY <1>2, FilterEmpty DEF Transit
<1> QED BY <1>3 DEF EndOK, SaidOK, Closed

LEMMA SaidNext ==
    ASSUME Base, SaidOK, EndOK, VoiceNext
    PROVE  SaidOK'
<1>0. Turn(said) \in Nat /\ Turn(said) >= 1 /\ responses \in Nat /\ heard \in Nat
  BY TurnIs, NumbersFit DEF Base
<1>1. CASE SpeechStarted
  BY <1>1, SaidStays DEF SpeechStarted
<1>2. CASE ResponseCreated
  <2>1. responses' = responses + 1 /\ said' = said /\ responseActive' = TRUE /\ ~emitClosed /\ ~responseActive
    BY <1>2 DEF ResponseCreated, ghostVars
  <2>2. Turn(said) = responses'
    BY <1>0, <2>1 DEF SaidOK
  <2>3. \A i \in DOMAIN said : Num(said[i]) \in 1 .. responses' /\ Follow(said[i]) <= Turn(said)
    BY <1>0, <2>1 DEF SaidOK
  <2> QED BY <2>1, <2>2, <2>3 DEF SaidOK
<1>3. CASE HandleTranscriptDelta
  <2>1. /\ said' = Append(said, Chunk("text", responses)) /\ responses' = responses /\ responseActive
        /\ UNCHANGED <<responseActive, emitClosed>>
    BY <1>3 DEF HandleTranscriptDelta
  <2>2. Turn(said) = responses
    BY <2>1 DEF Base, ClosedOK, SaidOK
  <2>3. /\ Chain(said)' /\ EndsOnce(said)' /\ Turn(said') = responses
        /\ \A i \in DOMAIN said' : Num(said'[i]) \in 1 .. responses /\ Follow(said'[i]) <= Turn(said')
    BY <2>1, <2>2, SaidAppends
  <2> QED BY <2>1, <2>3 DEF SaidOK
<1>4. CASE HandleAudioDelta
  BY <1>4, SaidStays DEF HandleAudioDelta, ghostVars
<1>5. CASE HandleResponseDone
  <2>1. /\ said' = Append(said, Chunk("end", responses)) /\ responses' = responses /\ responseActive
        /\ UNCHANGED <<emitClosed>> /\ responseActive' = FALSE
    BY <1>5 DEF HandleResponseDone
  <2>2. Turn(said) = responses
    BY <2>1 DEF Base, ClosedOK, SaidOK
  <2>3. /\ Chain(said)' /\ EndsOnce(said)' /\ Turn(said') = responses + 1
        /\ \A i \in DOMAIN said' : Num(said'[i]) \in 1 .. responses /\ Follow(said'[i]) <= Turn(said')
    BY <2>1, <2>2, SaidAppends
  <2>4. responses + 1 # responses
    BY <1>0
  <2> QED BY <2>1, <2>3, <2>4 DEF SaidOK
<1>6. CASE HandleInputTranscription
  BY <1>6, SaidStays DEF HandleInputTranscription, ghostVars
<1>7. CASE TranscriptionFails
  BY <1>7, SaidStays DEF TranscriptionFails, ghostVars, pumpVars
<1>8. CASE Disconnects
  <2>1. said' = said /\ responses' = responses /\ emitClosed' = TRUE
    BY <1>8 DEF Disconnects, ghostVars
  <2> QED BY <2>1 DEF SaidOK
<1>e. CASE HandleError
  BY <1>e, SaidStays DEF HandleError, ghostVars
<1>9. CASE Pumps
  <2>1. UNCHANGED <<said, responses, responseActive>>
    BY <1>9 DEF Pumps, sessionVars, ghostVars
  <2>2. emitClosed' = emitClosed
    BY <1>9 DEF Pumps, PumpStep, PumpReceives, PumpForwards, PumpDrops, PumpEnds
  <2> QED BY <2>1, <2>2, SaidStays
<1>10. CASE MicrophoneAudio \/ HandleResponseChunk
  BY <1>10, SaidStays DEF MicrophoneAudio, HandleResponseChunk, sessionVars, ghostVars, pumpVars
<1>11. CASE ResponsesEnd
  <2>1. UNCHANGED <<responses, responseActive, emitClosed>> /\ emitClosed
    BY <1>11 DEF ResponsesEnd, sessionVars, pumpVars, Base, ClosedOK
  <2>2. CASE hasContent
    <3>1. said' = Append(said, Chunk("end", responses))
      BY <1>11, <2>2 DEF ResponsesEnd
    <3>2. Turn(said) = responses
      BY <1>11, <2>2, ContentOpen
    <3>3. /\ Chain(said)' /\ EndsOnce(said)' /\ Turn(said') = responses + 1
          /\ \A i \in DOMAIN said' : Num(said'[i]) \in 1 .. responses /\ Follow(said'[i]) <= Turn(said')
      BY <2>1, <3>1, <3>2, SaidAppends
    <3> QED BY <2>1, <3>3 DEF SaidOK
  <2>3. CASE ~hasContent
    <3>1. said' = said
      BY <1>11, <2>3 DEF ResponsesEnd
    <3> QED BY <2>1, <3>1, SaidStays
  <2> QED BY <2>2, <2>3
<1>12. CASE ReorderStep
  <2>1. UNCHANGED <<said, responses, responseActive, emitClosed>>
    BY <1>12 DEF ReorderStep, Reorders, sessionVars, ghostVars, pumpVars
  <2> QED BY <2>1, SaidStays
<1> QED BY <1>1, <1>2, <1>3, <1>4, <1>5, <1>6, <1>7, <1>8, <1>e, <1>9, <1>10, <1>11, <1>12
        DEF VoiceNext, Receives, ReorderStep

-----------------------------------------------------------------------------
(* The turn-end behind the content of a finished response.                 *)

LEMMA LastKept ==
    ASSUME NEW T, NEW s \in Seq(T), NEW S, s # << >>, s[Len(s)] \in S
    PROVE  Filter(s, S) # << >> /\ Filter(s, S)[Len(Filter(s, S))] = s[Len(s)]
<1> DEFINE I == Kept(s, S)
           F == Filter(s, S)
<1>0. Len(s) \in I
  BY DEF Kept
<1>1. I \subseteq 1 .. Len(s) /\ Len(s) \in I /\ Len(s) \in Nat /\ Cardinality(I) \in Nat
  BY <1>0, KeptIs
<1>2. {k \in I : k <= Len(s)} = I
  BY <1>1
<1>3. Rank(I, Len(s)) = Cardinality(I)
  BY <1>2 DEF Rank
<1>4. F \in Seq(T) /\ Len(F) = Cardinality(I) /\ F[Cardinality(I)] = s[Len(s)] /\ Cardinality(I) \in DOMAIN F
  BY <1>1, <1>3, FilterIs
<1> QED BY <1>4

LEMMA CloseLast ==
    ASSUME NEW T, NEW s \in Seq(T), NEW e \in T, e.kind = "end", NEW b
    PROVE  Closed(Append(s, e), b)
<1> DEFINE t == Append(s, e)
<1>1. t # << >> /\ t[Len(t)] = e
  OBVIOUS
<1> HIDE DEF t
<1>2. Closed(t, b)
  BY <1>1 DEF Closed
<1> QED BY <1>2 DEF t

LEMMA CloseTail ==
    ASSUME NEW T, NEW s \in Seq(T), NEW c \in T, NEW a, NEW b \in BOOLEAN, Closed(<<c>> \o s, a), c.kind = "end" => ~b
    PROVE  Closed(s, b)
<1> DEFINE t == <<c>> \o s
<1>1. t # << >> /\ (s # << >> => t[Len(t)] = s[Len(s)]) /\ (s = << >> => t[Len(t)] = c)
  OBVIOUS
<1>2. t[Len(t)].kind = "end"
  BY <1>1 DEF Closed
<1> HIDE DEF t
<1> QED BY <1>1, <1>2 DEF Closed

LEMMA CloseDrop ==
    ASSUME NEW x \in Seq(Things), NEW y \in Seq(Things), NEW z \in Seq(Things), NEW b, Closed((x \o y) \o z, b)
    PROVE  Closed((x \o Filter(y, Of(Kinds \ {"audio"}))) \o z, b)
<1> DEFINE N == Of(Kinds \ {"audio"})
           w == Filter(y, N)
<1>1. w \in Seq(Things) /\ Len(w) <= Len(y)
  BY FilterIs
<1>2. y # << >> /\ y[Len(y)].kind = "end" => w # << >> /\ w[Len(w)] = y[Len(y)]
  <2> SUFFICES ASSUME y # << >>, y[Len(y)].kind = "end" PROVE w # << >> /\ w[Len(w)] = y[Len(y)]
    OBVIOUS
  <2>1. y[Len(y)] \in Things
    OBVIOUS
  <2>2. y[Len(y)] \in N
    BY <2>1, OfKinds DEF Kinds
  <2> HIDE DEF N
  <2> QED BY <2>2, LastKept
<1>3. y = << >> => w = << >>
  BY <1>1
<1> HIDE DEF w
<1> DEFINE s == (x \o y) \o z
           t == (x \o w) \o z
<1>4. CASE z # << >>
  <2>1. s # << >> /\ t # << >> /\ s[Len(s)] = z[Len(z)] /\ t[Len(t)] = z[Len(z)]
    BY <1>1, <1>4
  <2> HIDE DEF s, t
  <2>2. Closed(s, b) => Closed(t, b)
    BY <2>1 DEF Closed
  <2> QED BY <2>2 DEF s, t, w
<1>5. CASE z = << >> /\ y # << >>
  <2>1. s # << >> /\ s[Len(s)] = y[Len(y)]
    BY <1>5
  <2>2. y[Len(y)].kind = "end"
    BY <2>1 DEF Closed
  <2>3. w # << >> /\ w[Len(w)] = y[Len(y)]
    BY <1>2, <1>5, <2>2
  <2>4. t # << >> /\ t[Len(t)] = w[Len(w)]
    BY <1>1, <1>5, <2>3
  <2> HIDE DEF t
  <2>5. Closed(t, b)
    BY <2>2, <2>3, <2>4 DEF Closed
  <2> QED BY <2>5 DEF t, w
<1>6. CASE y = << >>
  <2>1. w = y
    BY <1>3, <1>6
  <2> QED BY <2>1 DEF w
<1> QED BY <1>4, <1>5, <1>6

LEMMA EndNext ==
    ASSUME Base, SaidOK, EndOK, SaidOK', VoiceNext
    PROVE  EndOK'
<1>0. /\ Turn(said) \in Nat /\ responses \in Nat /\ heard \in Nat /\ LinesOK /\ FlagsOK
      /\ Carried \in Seq(Things) /\ Transit = Filter(Carried, Spoken) /\ Transit \in Seq(Things)
  BY TurnIs, NumbersFit, CarriedIs, FilterIs DEF Base, Transit, Spoken
<1>a. Transit' = Filter(Carried', Spoken)
  BY DEF Transit, Spoken
<1>u. ASSUME UNCHANGED <<said, responses, hasContent>>, Transit' = Transit PROVE EndOK'
  BY <1>u DEF EndOK
<1>v. ASSUME responseActive', ~emitClosed' PROVE EndOK'
  <2>1. Turn(said)' = responses' /\ (responses' = responses \/ responses' = responses + 1)
    <3>1. responses' = responses \/ responses' = responses + 1
      BY DEF VoiceNext, Receives, SpeechStarted, ResponseCreated, HandleTranscriptDelta, HandleAudioDelta,
             HandleResponseDone, HandleInputTranscription, TranscriptionFails, HandleError, Disconnects, Pumps, MicrophoneAudio,
             HandleResponseChunk, ResponsesEnd, Reorders, sessionVars
    <3> QED BY <1>v, <3>1 DEF SaidOK
  <2>2. responses' # responses' + 1
    BY <1>0, <2>1
  <2> QED BY <2>1, <2>2 DEF EndOK
<1>w. ASSUME NEW c \in Sent, Carried' = Append(Carried, c)
      PROVE  Transit' = IF c.kind \in {"text", "audio", "end"} THEN Append(Transit, c) ELSE Transit
  <2>1. c \in Things
    <3>1. {"text", "audio", "end", "transcript", "error"} \in SUBSET Kinds
      BY DEF Kinds
    <3> QED BY <3>1, KindsAreThings DEF Sent
  <2>2. c \in Spoken <=> c.kind \in {"text", "audio", "end"}
    BY <2>1, OfKinds DEF Spoken
  <2>3. Filter(Append(Carried, c), Spoken) = IF c \in Spoken THEN Append(Filter(Carried, Spoken), c) ELSE Filter(Carried, Spoken)
    BY <1>0, <2>1, FilterAppend
  <2> QED BY <1>0, <1>a, <1>w, <2>2, <2>3
<1>p. ASSUME UNCHANGED <<respCh, queue, emitCh>> PROVE Transit' = Transit
  BY <1>p DEF Transit, Carried
<1>1. CASE SpeechStarted \/ TranscriptionFails
  <2>1. UNCHANGED <<said, responses, hasContent, respCh, queue, emitCh>>
    BY <1>1 DEF SpeechStarted, TranscriptionFails, PumpIdle, stageVars, ghostVars, pumpVars
  <2> QED BY <1>u, <1>p, <2>1
<1>2. CASE ResponseCreated
  BY <1>2, <1>v DEF ResponseCreated
<1>3. CASE HandleTranscriptDelta \/ HandleAudioDelta
  <2>1. responseActive' = responseActive /\ emitClosed' = emitClosed /\ responseActive
    BY <1>3 DEF HandleTranscriptDelta, HandleAudioDelta
  <2> QED BY <1>v, <2>1 DEF Base, ClosedOK
<1>5. CASE HandleResponseDone
  <2> DEFINE c == Chunk("end", responses)
  <2>1. Emit(c) /\ UNCHANGED <<queue, respCh>>
    BY <1>5 DEF HandleResponseDone, PumpIdle
  <2>2. c \in Sent /\ c.kind = "end"
    BY <1>0, NumbersFit, InSingles, ChunkIs DEF Sent
  <2>3. c \in Things
    <3>1. {"text", "audio", "end", "transcript", "error"} \in SUBSET Kinds
      BY DEF Kinds
    <3> QED BY <2>2, <3>1, KindsAreThings DEF Sent
  <2> HIDE DEF c
  <2>4. Carried' = Append(Carried, c)
    BY <1>0, <2>1, <2>2, EmitCarried
  <2>5. Transit' = Append(Transit, c)
    BY <1>w, <2>2, <2>4
  <2>6. Closed(Append(Transit, c), hasContent')
    BY <1>0, <2>2, <2>3, CloseLast
  <2> QED BY <2>5, <2>6 DEF EndOK
<1>6. CASE HandleInputTranscription
  <2> DEFINE c == Chunk("transcript", heard + 1)
  <2>1. Emit(c) /\ UNCHANGED <<queue, respCh, said, responses, hasContent>> /\ heard < spoke
    BY <1>6 DEF HandleInputTranscription, PumpIdle, stageVars, ghostVars
  <2>2. c \in Sent /\ c.kind = "transcript"
    BY <1>0, <2>1, NumbersFit, InSingles, ChunkIs DEF Sent
  <2> HIDE DEF c
  <2>4. Carried' = Append(Carried, c)
    BY <1>0, <2>1, <2>2, EmitCarried
  <2>5. Transit' = Transit
    BY <1>w, <2>2, <2>4
  <2> QED BY <1>u, <2>1, <2>5
<1>8. CASE HandleError \/ Disconnects
  <2> DEFINE c == Chunk("error", responses)
  <2>1. (Emit(c) \/ emitCh' = emitCh) /\ UNCHANGED <<queue, respCh, said, responses, hasContent>>
    BY <1>8 DEF HandleError, Disconnects, PumpIdle, stageVars, ghostVars
  <2>2. c \in Sent /\ c.kind = "error"
    BY <1>0, NumbersFit, InSingles, ChunkIs DEF Sent
  <2> HIDE DEF c
  <2>3. CASE emitCh' = emitCh
    BY <1>u, <1>p, <2>1, <2>3
  <2>4. CASE Emit(c)
    <3>4. Carried' = Append(Carried, c)
      BY <1>0, <2>1, <2>2, <2>4, EmitCarried
    <3>5. Transit' = Transit
      BY <1>w, <2>2, <3>4
    <3> QED BY <1>u, <2>1, <3>5
  <2> QED BY <2>1, <2>3, <2>4
<1>9. CASE Pumps
  <2>1. UNCHANGED <<said, responses, hasContent>>
    BY <1>9 DEF Pumps, sessionVars, ghostVars, stageVars
  <2>2. CASE PumpReceives \/ PumpForwards
    <3>1. Carried' = Carried
      BY <1>0, <2>2, MoveCarried
    <3> QED BY <1>0, <1>a, <1>u, <2>1, <3>1
  <2>3. CASE PumpEnds
    <3>1. UNCHANGED <<respCh, queue, emitCh>>
      BY <2>3 DEF PumpEnds
    <3> QED BY <1>u, <1>p, <2>1, <3>1
  <2>4. CASE PumpDrops
    <3> DEFINE N == Of(Kinds \ {"audio"})
               x == Filter(respCh, Spoken)
               y == Filter(queue, Spoken)
               z == Filter(emitCh, Spoken)
    <3>1. /\ queue' = Filter(queue, N) /\ emitCh' = emitCh /\ respCh' = respCh
      BY <1>0, <2>4, DropQueue
    <3>2. emitCh \in Seq(Things) /\ queue \in Seq(Things) /\ respCh \in Seq(Things)
      BY <1>0, LinesAreThings
    <3>3. x \in Seq(Things) /\ y \in Seq(Things) /\ z \in Seq(Things)
      BY <3>2, FilterIs
    <3>4. Transit = (x \o y) \o z
      BY <1>0, FilterCarried
    <3>5. Filter(Filter(queue, N), Spoken) = Filter(y, N)
      <4> HIDE DEF N
      <4>1. Filter(Filter(queue, N), Spoken) = Filter(queue, N \cap Spoken)
        BY <3>2, FilterFilter
      <4>2. Filter(Filter(queue, Spoken), N) = Filter(queue, Spoken \cap N)
        BY <3>2, FilterFilter
      <4>3. Spoken \cap N = N \cap Spoken
        OBVIOUS
      <4> QED BY <4>1, <4>2, <4>3
    <3>6. Transit' = (x \o Filter(y, N)) \o z
      <4>1. Filter(queue, N) \in Seq(Things)
        BY <3>2, FilterIs
      <4> DEFINE q == Filter(queue, N)
      <4> HIDE DEF q, N
      <4>2. q \in Seq(Things)
        BY <4>1 DEF q
      <4>3. Filter((respCh \o q) \o emitCh, Spoken) = (x \o Filter(q, Spoken)) \o z
        BY <3>2, <4>2, FilterThree
      <4>4. Carried' = (respCh \o q) \o emitCh
        BY <3>1 DEF q, Carried
      <4>5. Filter(q, Spoken) = Filter(y, N)
        BY <3>5 DEF q
      <4> QED BY <1>a, <4>3, <4>4, <4>5
    <3> HIDE DEF x, y, z
    <3>7. Closed(Transit, hasContent) => Closed(Transit', hasContent)
      BY <3>3, <3>4, <3>6, CloseDrop
    <3> QED BY <2>1, <3>7 DEF EndOK
  <2> QED BY <1>9, <2>2, <2>3, <2>4 DEF Pumps, PumpStep
<1>10. CASE MicrophoneAudio
  <2>1. UNCHANGED <<said, responses, hasContent, respCh, queue, emitCh>>
    BY <1>10 DEF MicrophoneAudio, sessionVars, ghostVars, pumpVars
  <2> QED BY <1>u, <1>p, <2>1
<1>11. CASE HandleResponseChunk
  <2>1. PICK c \in Sent, e \in Forwarded :
              /\ Response(c) /\ Becomes(c, e)
              /\ c.kind \in {"text", "audio"} => hasContent' = TRUE
              /\ c.kind = "end" => hasContent' = FALSE
              /\ c.kind \in {"transcript", "error"} => hasContent' = hasContent
              /\ UNCHANGED <<emitCh, queue>>
    BY <1>11, ChunkBecomes
  <2>2. UNCHANGED <<said, responses>>
    BY <1>11 DEF HandleResponseChunk, sessionVars
  <2>3. Carried = <<c>> \o Carried' /\ Carried' \in Seq(Sent)
    BY <1>0, <2>1, TakeCarried
  <2>4. Sent \subseteq Things
    <3>1. {"text", "audio", "end", "transcript", "error"} \in SUBSET Kinds
      BY DEF Kinds
    <3> QED BY <3>1, KindsAreThings DEF Sent
  <2>5. c \in Things /\ Carried' \in Seq(Things) /\ <<c>> \in Seq(Things)
    BY <2>3, <2>4
  <2>6. Transit = Filter(<<c>>, Spoken) \o Transit' /\ Transit' \in Seq(Things)
    <3> DEFINE o == <<c>>
               q == Carried'
    <3>1. o \in Seq(Things) /\ q \in Seq(Things) /\ Carried = o \o q
      BY <2>3, <2>5
    <3> HIDE DEF o, q
    <3>2. Filter(o \o q, Spoken) = Filter(o, Spoken) \o Filter(q, Spoken)
      BY <3>1, FilterConcat
    <3>3. Filter(q, Spoken) \in Seq(Things)
      BY <3>1, FilterIs
    <3> QED BY <1>0, <1>a, <3>1, <3>2, <3>3 DEF o, q
  <2>7. c.kind \in {"text", "audio", "end", "transcript", "error"} /\ (c \in Spoken <=> c.kind \in {"text", "audio", "end"})
    BY <2>5, OfKinds, SingleIs DEF Spoken, Sent
  <2>8. Filter(<<c>>, Spoken) = IF c \in Spoken THEN <<c>> ELSE << >>
    BY FilterOne
  <2>9. CASE c \in Spoken
    <3>1. Transit = <<c>> \o Transit'
      BY <2>6, <2>8, <2>9
    <3>2. (c.kind = "end" => ~hasContent') /\ hasContent' \in BOOLEAN
      BY <2>1, <2>7, <2>9
    <3>3. Closed(Transit, hasContent) => Closed(Transit', hasContent')
      <4> DEFINE t == Transit'
                 b == hasContent'
      <4>1. t \in Seq(Things) /\ Transit = <<c>> \o t /\ (c.kind = "end" => ~b) /\ b \in BOOLEAN
        BY <2>6, <3>1, <3>2
      <4> HIDE DEF t, b
      <4>2. Closed(<<c>> \o t, hasContent) => Closed(t, b)
        BY <2>5, <4>1, CloseTail
      <4> QED BY <4>1, <4>2 DEF t, b
    <3> QED BY <2>2, <3>3 DEF EndOK
  <2>10. CASE c \notin Spoken
    <3>1. Transit = << >> \o Transit'
      BY <2>6, <2>8, <2>10
    <3>2. Transit' = Transit
      <4> DEFINE t == Transit'
      <4>1. t \in Seq(Things) /\ Transit = << >> \o t
        BY <2>6, <3>1
      <4> HIDE DEF t
      <4>2. t = Transit
        BY <4>1
      <4> QED BY <4>2 DEF t
    <3>3. hasContent' = hasContent
      BY <2>1, <2>7, <2>10
    <3> QED BY <1>u, <2>2, <3>2, <3>3
  <2> QED BY <2>9, <2>10
<1>12. CASE ResponsesEnd
  <2>1. respCh = << >> /\ queue = << >> /\ emitCh = << >> /\ UNCHANGED <<respCh, queue, emitCh>>
    BY <1>12 DEF ResponsesEnd, Base, ClosedOK, pumpVars
  <2>2. Carried' = << >>
    BY <2>1 DEF Carried
  <2>3. Transit' = << >>
    BY <1>a, <2>2, FilterEmpty
  <2>4. ~hasContent'
    BY <1>12 DEF ResponsesEnd
  <2> QED BY <2>3, <2>4 DEF EndOK, Closed
<1>13. CASE ReorderStep
  <2>1. UNCHANGED <<said, responses, hasContent, respCh, queue, emitCh>>
    BY <1>13 DEF ReorderStep, Reorders, sessionVars, ghostVars, stageVars, pumpVars
  <2> QED BY <1>u, <1>p, <2>1
<1> QED BY <1>1, <1>2, <1>3, <1>5, <1>6, <1>8, <1>9, <1>10, <1>11, <1>12, <1>13
        DEF VoiceNext, Receives, ReorderStep

-----------------------------------------------------------------------------
(* The words on their way.                                                 *)

Ahead  == (Words(out) \o buffered) \o pendingEnd
Behind == Words(wire) \o Words(Carried)
Left   == Filter(said, Things \ ToSet(replaced))

LEMMA PicksOf ==
    ASSUME NEW K
    PROVE  /\ \A s \in Seq(Things) : Picks(s, K) \in Seq(Things)
           /\ \A s, t \in Seq(Things) : Picks(s \o t, K) = Picks(s, K) \o Picks(t, K)
           /\ \A e \in Things : Picks(<<e>>, K) = IF e.kind \in K THEN <<e>> ELSE << >>
           /\ \A s \in Seq(Things), e \in Things :
                 Picks(Append(s, e), K) = IF e.kind \in K THEN Append(Picks(s, K), e) ELSE Picks(s, K)
           /\ Picks(<< >>, K) = << >>
           /\ \A s \in Seq(Things) : (\A i \in DOMAIN s : s[i].kind \notin K) => Picks(s, K) = << >>
<1> DEFINE V == Of(K)
<1>1. \A s : Picks(s, K) = Filter(s, V)
  BY DEF Picks
<1>2. \A e \in Things : e \in V <=> e.kind \in K
  BY OfKinds
<1> HIDE DEF V
<1>3. \A s \in Seq(Things) : Picks(s, K) \in Seq(Things)
  BY <1>1, FilterIs
<1>4. \A s, t \in Seq(Things) : Picks(s \o t, K) = Picks(s, K) \o Picks(t, K)
  <2> TAKE s, t \in Seq(Things)
  <2>1. Filter(s \o t, V) = Filter(s, V) \o Filter(t, V)
    BY FilterConcat
  <2>2. Picks(s \o t, K) = Filter(s \o t, V) /\ Picks(s, K) = Filter(s, V) /\ Picks(t, K) = Filter(t, V)
    BY <1>1
  <2> QED BY <2>1, <2>2
<1>5. \A e \in Things : Picks(<<e>>, K) = IF e.kind \in K THEN <<e>> ELSE << >>
  <2> TAKE e \in Things
  <2>1. Filter(<<e>>, V) = IF e \in V THEN <<e>> ELSE << >>
    BY FilterOne
  <2> QED BY <1>1, <1>2, <2>1
<1>6. \A s \in Seq(Things), e \in Things :
          Picks(Append(s, e), K) = IF e.kind \in K THEN Append(Picks(s, K), e) ELSE Picks(s, K)
  <2> TAKE s \in Seq(Things), e \in Things
  <2>1. Filter(Append(s, e), V) = IF e \in V THEN Append(Filter(s, V), e) ELSE Filter(s, V)
    BY FilterAppend
  <2> QED BY <1>1, <1>2, <2>1
<1>7. Picks(<< >>, K) = << >>
  BY <1>1, FilterEmpty
<1>8. \A s \in Seq(Things) : (\A i \in DOMAIN s : s[i].kind \notin K) => Picks(s, K) = << >>
  <2> SUFFICES ASSUME NEW s \in Seq(Things), \A i \in DOMAIN s : s[i].kind \notin K PROVE Filter(s, V) = << >>
    BY <1>1
  <2>1. \A i \in DOMAIN s : s[i] \notin V
    BY <1>2
  <2> QED BY <2>1, FilterNone
<1> QED BY <1>3, <1>4, <1>5, <1>6, <1>7, <1>8

LEMMA PicksConcat ==
    ASSUME NEW K, NEW s \in Seq(Things), NEW t \in Seq(Things)
    PROVE  Picks(s \o t, K) = Picks(s, K) \o Picks(t, K)
<1> DEFINE V == Of(K)
<1>1. Picks(s \o t, K) = Filter(s \o t, V) /\ Picks(s, K) = Filter(s, V) /\ Picks(t, K) = Filter(t, V)
  BY DEF Picks
<1> HIDE DEF V
<1>2. Filter(s \o t, V) = Filter(s, V) \o Filter(t, V)
  BY FilterConcat
<1> QED BY <1>1, <1>2

LEMMA PicksType ==
    ASSUME NEW K, NEW s \in Seq(Things)
    PROVE  Picks(s, K) \in Seq(Things)
BY PicksOf

LEMMA PicksOne ==
    ASSUME NEW K, NEW e \in Things
    PROVE  Picks(<<e>>, K) = IF e.kind \in K THEN <<e>> ELSE << >>
BY PicksOf

LEMMA PicksAppend ==
    ASSUME NEW K, NEW s \in Seq(Things), NEW e \in Things
    PROVE  Picks(Append(s, e), K) = IF e.kind \in K THEN Append(Picks(s, K), e) ELSE Picks(s, K)
BY PicksOf

LEMMA PicksNone ==
    ASSUME NEW K, NEW s \in Seq(Things), \A i \in DOMAIN s : s[i].kind \notin K
    PROVE  Picks(s, K) = << >>
BY PicksOf

LEMMA WordsOf ==
    /\ \A s \in Seq(Things) : Words(s) \in Seq(Things)
    /\ \A s, t \in Seq(Things) : Words(s \o t) = Words(s) \o Words(t)
    /\ \A e \in Things : Words(<<e>>) = IF e.kind \in {"text", "end"} THEN <<e>> ELSE << >>
    /\ \A s \in Seq(Things), e \in Things :
          Words(Append(s, e)) = IF e.kind \in {"text", "end"} THEN Append(Words(s), e) ELSE Words(s)
    /\ Words(<< >>) = << >>
<1>1. \A s : Words(s) = Picks(s, {"text", "end"})
  BY DEF Words, Picks
<1> QED BY <1>1, PicksOf

LEMMA WordsAll ==
    ASSUME LinesOK
    PROVE  Words(buffered) = buffered /\ Words(pendingEnd) = pendingEnd
<1>1. buffered \in Seq(Singles({"text"})) /\ pendingEnd \in Seq(Singles({"end"}))
  BY DEF LinesOK
<1>2. \A i \in DOMAIN buffered : buffered[i] \in Of({"text", "end"})
  <2> TAKE i \in DOMAIN buffered
  <2>1. buffered[i] \in Of({"text"})
    BY <1>1, SingleIs
  <2> QED BY <2>1 DEF Of
<1>3. \A i \in DOMAIN pendingEnd : pendingEnd[i] \in Of({"text", "end"})
  <2> TAKE i \in DOMAIN pendingEnd
  <2>1. pendingEnd[i] \in Of({"end"})
    BY <1>1, SingleIs
  <2> QED BY <2>1 DEF Of
<1> QED BY <1>1, <1>2, <1>3, FilterAll DEF Words

LEMMA LineIs ==
    ASSUME LinesOK
    PROVE  /\ Ahead \in Seq(Things) /\ Behind \in Seq(Things) /\ Left \in Seq(Things)
           /\ WordsArrive <=> Ahead \o Behind = Left
<1>1. /\ emitCh \in Seq(Things) /\ queue \in Seq(Things) /\ respCh \in Seq(Things)
      /\ wire \in Seq(Things) /\ buffered \in Seq(Things) /\ pendingEnd \in Seq(Things)
      /\ out \in Seq(Things) /\ said \in Seq(Things) /\ Carried \in Seq(Things)
  BY LinesAreThings, CarriedIs
<1> DEFINE a == out \o buffered
           b == a \o pendingEnd
           c == b \o wire
<1>2. a \in Seq(Things) /\ b \in Seq(Things) /\ c \in Seq(Things)
  BY <1>1
<1>3. ((c \o respCh) \o queue) \o emitCh = c \o Carried
  <2> HIDE DEF c
  <2> DEFINE w == respCh \o queue
  <2>0. c \in Seq(Things) /\ respCh \in Seq(Things) /\ queue \in Seq(Things) /\ emitCh \in Seq(Things)
    BY <1>1, <1>2
  <2>1. c \o w = (c \o respCh) \o queue
    BY <2>0
  <2>2. w \in Seq(Things)
    BY <2>0
  <2> HIDE DEF w
  <2>3. c \o (w \o emitCh) = (c \o w) \o emitCh
    BY <2>0, <2>2
  <2> QED BY <2>1, <2>3 DEF w, Carried
<1>4. Words(a) = Words(out) \o buffered
  <2>1. Words(out \o buffered) = Words(out) \o Words(buffered)
    BY <1>1, WordsOf
  <2> QED BY <2>1, WordsAll
<1>5. Words(b) = Ahead
  <2> HIDE DEF a
  <2>1. Words(b) = Words(a) \o Words(pendingEnd)
    BY <1>1, <1>2, WordsOf
  <2> QED BY <1>4, <2>1, WordsAll DEF Ahead
<1>6. Words(c \o Carried) = (Ahead \o Words(wire)) \o Words(Carried)
  <2> HIDE DEF b
  <2>1. Words(c) = Words(b) \o Words(wire)
    BY <1>1, <1>2, WordsOf
  <2> HIDE DEF c
  <2>2. Words(c \o Carried) = Words(c) \o Words(Carried)
    BY <1>1, <1>2, WordsOf
  <2> QED BY <1>5, <2>1, <2>2
<1>7. Ahead \in Seq(Things) /\ Words(wire) \in Seq(Things) /\ Words(Carried) \in Seq(Things)
  BY <1>1, <1>2, <1>5, WordsOf
<1>8. (Ahead \o Words(wire)) \o Words(Carried) = Ahead \o Behind /\ Behind \in Seq(Things)
  <2> DEFINE w == Words(wire)
             p == Words(Carried)
  <2>1. w \in Seq(Things) /\ p \in Seq(Things) /\ Behind = w \o p
    BY <1>7 DEF Behind
  <2> HIDE DEF w, p
  <2>2. (Ahead \o w) \o p = Ahead \o (w \o p) /\ w \o p \in Seq(Things)
    BY <1>7, <2>1
  <2> QED BY <2>1, <2>2 DEF w, p
<1>9. Left = Filter(said, ToSet(said) \ ToSet(replaced))
  <2>1. \A i \in DOMAIN said : said[i] \in Things \ ToSet(replaced) <=> said[i] \in ToSet(said) \ ToSet(replaced)
    BY <1>1 DEF ToSet
  <2> QED BY <2>1, FilterExt DEF Left
<1>10. Left \in Seq(Things)
  BY <1>1, FilterIs DEF Left
<1>11. WordsArrive <=> Words(c \o Carried) = Left
  BY <1>3, <1>9 DEF WordsArrive
<1> HIDE DEF c
<1> QED BY <1>6, <1>7, <1>8, <1>10, <1>11

LEMMA LineIsNext ==
    LinesOK' => (Ahead' \in Seq(Things) /\ Behind' \in Seq(Things) /\ (WordsArrive' <=> Ahead' \o Behind' = Left'))
<1>1. LinesOK => (Ahead \in Seq(Things) /\ Behind \in Seq(Things) /\ (WordsArrive <=> Ahead \o Behind = Left))
  BY LineIs
<1>2. (LinesOK => (Ahead \in Seq(Things) /\ Behind \in Seq(Things) /\ (WordsArrive <=> Ahead \o Behind = Left)))'
  BY <1>1, PTL
<1> QED BY <1>2

LEMMA ReadsBehind ==
    ASSUME LinesOK, NEW h \in Forwarded, Reads(h), Carried' = Carried
    PROVE  /\ Behind = IF h.kind \in {"text", "end"} THEN <<h>> \o Behind' ELSE Behind'
           /\ Behind' \in Seq(Things)
<1> DEFINE v == wire'
           a == Words(<<h>>)
           b == Words(v)
           c == Words(Carried)
<1>1. h \in Things
  BY ShownAre
<1>2. v \in Seq(Things) /\ <<h>> \in Seq(Things) /\ wire = <<h>> \o v /\ Carried \in Seq(Things)
  <2>1. Forwarded \subseteq Things
    BY ShownAre
  <2> QED BY <1>1, <2>1, CarriedIs DEF Reads
<1>3. Words(wire) = a \o b
  <2> HIDE DEF v
  <2> QED BY <1>2, WordsOf
<1>4. a = IF h.kind \in {"text", "end"} THEN <<h>> ELSE << >>
  BY <1>1, WordsOf
<1>5. a \in Seq(Things) /\ b \in Seq(Things) /\ c \in Seq(Things)
  BY <1>2, WordsOf
<1>6. Behind = (a \o b) \o c /\ Behind' = b \o c
  BY <1>3 DEF Behind
<1> HIDE DEF a, b, c
<1>7. (a \o b) \o c = a \o (b \o c) /\ b \o c \in Seq(Things) /\ << >> \o (b \o c) = b \o c
  BY <1>5
<1> QED BY <1>4, <1>6, <1>7

LEMMA TellsAhead ==
    ASSUME LinesOK, NEW x \in Seq(Things), Words(x) = << >>
    PROVE  Words(((out \o x) \o buffered) \o pendingEnd) = Ahead
<1>1. out \in Seq(Things) /\ buffered \in Seq(Things) /\ pendingEnd \in Seq(Things)
  BY LinesAreThings
<1> DEFINE u == out \o x
           v == u \o buffered
<1>2. u \in Seq(Things) /\ Words(u) = Words(out)
  <2>1. Words(u) = Words(out) \o << >> /\ Words(out) \in Seq(Things)
    <3>1. Words(out \o x) = Words(out) \o Words(x)
      BY <1>1, WordsOf
    <3> QED BY <1>1, <3>1, WordsOf
  <2>2. Words(out) \o << >> = Words(out)
    BY <2>1
  <2> QED BY <1>1, <2>1, <2>2
<1> HIDE DEF u
<1>3. v \in Seq(Things) /\ Words(v) = Words(out) \o buffered
  <2>1. Words(v) = Words(u) \o Words(buffered)
    BY <1>1, <1>2, WordsOf
  <2> QED BY <1>1, <1>2, <2>1, WordsAll
<1> HIDE DEF v
<1>4. Words(v \o pendingEnd) = Words(v) \o Words(pendingEnd)
  BY <1>1, <1>3, WordsOf
<1> QED BY <1>3, <1>4, WordsAll DEF u, v, Ahead

\* Nothing else is a word.
LEMMA NoWords ==
    /\ \A h \in Forwarded : h.kind \notin {"text", "end"} => Words(<<h>>) = << >> /\ <<h>> \in Seq(Things)
    /\ \A p \in Seq(Of({"placeholder"})) : Words(p) = << >> /\ p \in Seq(Things)
<1>1. \A h \in Forwarded : h.kind \notin {"text", "end"} => Words(<<h>>) = << >> /\ <<h>> \in Seq(Things)
  <2> SUFFICES ASSUME NEW h \in Forwarded, h.kind \notin {"text", "end"}
               PROVE  Words(<<h>>) = << >> /\ <<h>> \in Seq(Things)
    OBVIOUS
  <2>1. h \in Things
    BY ShownAre
  <2>2. Words(<<h>>) = << >>
    BY <2>1, WordsOf
  <2> QED BY <2>1, <2>2
<1>2. \A p \in Seq(Of({"placeholder"})) : Words(p) = << >> /\ p \in Seq(Things)
  <2> TAKE p \in Seq(Of({"placeholder"}))
  <2>1. Of({"placeholder"}) \subseteq Things
    BY DEF Of, Things, Kinds
  <2>2. p \in Seq(Things)
    BY <2>1
  <2>3. \A i \in DOMAIN p : p[i] \notin Of({"text", "end"})
    <3> TAKE i \in DOMAIN p
    <3>1. p[i] \in Of({"placeholder"})
      OBVIOUS
    <3> QED BY <3>1 DEF Of
  <2>4. Words(p) = << >>
    BY <2>2, <2>3, FilterNone DEF Words
  <2> QED BY <2>2, <2>4
<1> QED BY <1>1, <1>2

Takes(h) == h.kind \in {"text", "end"} /\ Ahead' = Append(Ahead, h) /\ Behind = <<h>> \o Behind'
            /\ UNCHANGED <<replaced, said>>

LEMMA ReorderWords ==
    ASSUME Base, UNCHANGED <<emitCh, queue, respCh, said>>
    PROVE  /\ \A h \in Forwarded : ReadsUser(h) \/ ReadsOther(h) => Ahead' = Ahead /\ Behind' = Behind
           /\ GivesUp \/ Stops => Ahead' = Ahead /\ Behind' = Behind
           /\ \A h \in Forwarded : \/ Passes(h) \/ Buffers(h) \/ ReadsText(h)
                                   \/ Holds(h) /\ pendingEnd = << >>
                                   => Takes(h)
           /\ \A h \in Forwarded : Holds(h) => /\ Ahead' = (Words(out) \o buffered) \o <<h>>
                                               /\ Behind = <<h>> \o Behind'
<1>0. /\ LinesOK /\ out \in Seq(Things) /\ buffered \in Seq(Things) /\ pendingEnd \in Seq(Things)
      /\ Words(out) \in Seq(Things) /\ Carried' = Carried /\ Ahead \in Seq(Things)
  <2>1. LinesOK /\ Carried' = Carried
    BY DEF Base, Carried
  <2> QED BY <2>1, LinesAreThings, WordsOf, LineIs
<1>e. ASSUME NEW a \in Seq(Things) PROVE a \o << >> = a
  OBVIOUS
<1>1. ASSUME NEW p, Resolves(p) PROVE Words(out)' = Ahead
  <2>1. Words(p) = << >> /\ p \in Seq(Things)
    BY <1>1, NoWords DEF Resolves
  <2>2. Words(((out \o p) \o buffered) \o pendingEnd) = Ahead
    BY <1>0, <2>1, TellsAhead
  <2> QED BY <1>1, <2>2 DEF Resolves
<1>2. ASSUME NEW h \in Forwarded, ReadsUser(h) \/ ReadsOther(h) PROVE Ahead' = Ahead /\ Behind' = Behind
  <2>1. h.kind \notin {"text", "end"} /\ Reads(h)
    BY <1>2 DEF ReadsUser, ReadsOther
  <2>2. Behind' = Behind
    BY <1>0, <2>1, ReadsBehind
  <2>3. CASE ReadsUser(h)
    <3>1. Words(<<h>>) = << >> /\ <<h>> \in Seq(Things)
      BY <2>1, NoWords
    <3>2. Words(((out \o <<h>>) \o buffered) \o pendingEnd) = Ahead
      BY <1>0, <3>1, TellsAhead
    <3>3. Words(out)' = Ahead /\ buffered' = << >> /\ pendingEnd' = << >>
      BY <2>3, <3>2 DEF ReadsUser
    <3>4. Ahead' = (Ahead \o << >>) \o << >>
      BY <3>3 DEF Ahead
    <3> QED BY <1>0, <1>e, <2>2, <3>4
  <2>4. CASE ReadsOther(h)
    <3>1. h \in Things
      BY ShownAre
    <3>2. Words(Append(out, h)) = Words(out)
      BY <1>0, <2>1, <3>1, WordsOf
    <3>3. Words(out)' = Words(out) /\ UNCHANGED <<buffered, pendingEnd>>
      BY <2>4, <3>2 DEF ReadsOther
    <3> QED BY <2>2, <3>3 DEF Ahead
  <2> QED BY <1>2, <2>3, <2>4
<1>3. GivesUp => Ahead' = Ahead /\ Behind' = Behind
  <2> HAVE GivesUp
  <2>1. Words(out)' = Ahead /\ buffered' = << >> /\ pendingEnd' = << >> /\ wire' = wire
    BY <1>1 DEF GivesUp, Resolves
  <2>2. Ahead' = (Ahead \o << >>) \o << >>
    BY <2>1 DEF Ahead
  <2>3. Behind' = Behind
    BY <1>0, <2>1 DEF Behind
  <2> QED BY <1>0, <1>e, <2>2, <2>3
<1>4. Stops => Ahead' = Ahead /\ Behind' = Behind
  BY <1>0 DEF Stops, Ahead, Behind
<1>5. \A h \in Forwarded : Holds(h) => /\ Ahead' = (Words(out) \o buffered) \o <<h>>
                                       /\ Behind = <<h>> \o Behind'
  <2> SUFFICES ASSUME NEW h \in Forwarded, Holds(h)
               PROVE  Ahead' = (Words(out) \o buffered) \o <<h>> /\ Behind = <<h>> \o Behind'
    OBVIOUS
  <2>1. h.kind \in {"text", "end"} /\ Reads(h)
    BY DEF Holds
  <2>2. Behind = <<h>> \o Behind'
    BY <1>0, <2>1, ReadsBehind
  <2> QED BY <2>2 DEF Holds, Ahead
<1>6. ASSUME NEW h \in Forwarded,
             Passes(h) \/ Buffers(h) \/ ReadsText(h) \/ (Holds(h) /\ pendingEnd = << >>)
      PROVE  Takes(h)
  <2>1. h.kind \in {"text", "end"} /\ Reads(h) /\ h \in Things
    BY <1>6, ShownAre DEF Passes, Buffers, ReadsText, Holds
  <2>2. Behind = <<h>> \o Behind'
    BY <1>0, <2>1, ReadsBehind
  <2>3. CASE Passes(h)
    <3>0. Words(Append(out, h)) = Append(Words(out), h)
      BY <1>0, <2>1, WordsOf
    <3>1. Words(Append(out, h)) = Append(Words(out), h) /\ Append(Words(out), h) \in Seq(Things)
      BY <1>0, <2>1, <3>0
    <3>2. Words(out)' = Append(Words(out), h) /\ UNCHANGED <<buffered, pendingEnd, replaced>>
          /\ buffered = << >> /\ pendingEnd = << >>
      BY <2>3, <3>1 DEF Passes
    <3>3. Ahead = (Words(out) \o << >>) \o << >> /\ Ahead' = (Append(Words(out), h) \o << >>) \o << >>
      BY <3>2 DEF Ahead
    <3>4. Ahead' = Append(Ahead, h)
      <4>1. Words(out) \o << >> = Words(out)
        BY <1>0, <1>e
      <4>2. Append(Words(out), h) \o << >> = Append(Words(out), h)
        BY <1>e, <3>1
      <4> QED BY <3>3, <4>1, <4>2
    <3> QED BY <2>1, <2>2, <3>2, <3>4 DEF Takes
  <2>4. CASE Buffers(h)
    <3>1. Ahead' = (Words(out) \o Append(buffered, h)) \o << >> /\ Ahead = (Words(out) \o buffered) \o << >>
      BY <2>4 DEF Buffers, Ahead
    <3>2. Words(out) \o Append(buffered, h) = Append(Words(out) \o buffered, h)
      BY <1>0, <2>1, AppendIs
    <3>3. Words(out) \o buffered \in Seq(Things) /\ Append(Words(out) \o buffered, h) \in Seq(Things)
      BY <1>0, <2>1
    <3>4. Ahead' = Append(Ahead, h)
      BY <1>e, <3>1, <3>2, <3>3
    <3> QED BY <2>1, <2>2, <2>4, <3>4 DEF Takes, Buffers
  <2>5. CASE ReadsText(h)
    <3>1. Words(out)' = Ahead /\ buffered' = <<h>> /\ pendingEnd' = << >> /\ replaced' = replaced
      BY <1>1, <2>5 DEF ReadsText, Resolves
    <3>2. Ahead' = (Ahead \o <<h>>) \o << >>
      BY <3>1 DEF Ahead
    <3>3. Ahead \o <<h>> = Append(Ahead, h) /\ Ahead \o <<h>> \in Seq(Things)
      BY <1>0, <2>1
    <3> QED BY <1>e, <2>1, <2>2, <3>1, <3>2, <3>3 DEF Takes
  <2>6. CASE Holds(h) /\ pendingEnd = << >>
    <3>1. Ahead' = (Words(out) \o buffered) \o <<h>> /\ Ahead = (Words(out) \o buffered) \o << >>
      BY <1>5, <2>6 DEF Ahead
    <3>2. Words(out) \o buffered \in Seq(Things)
      BY <1>0
    <3>3. (Words(out) \o buffered) \o <<h>> = Append(Words(out) \o buffered, h)
      <4> DEFINE a == Words(out) \o buffered
      <4>1. a \in Seq(Things)
        BY <3>2
      <4> HIDE DEF a
      <4>2. a \o <<h>> = Append(a, h)
        BY <2>1, <4>1
      <4> QED BY <4>2 DEF a
    <3>4. Ahead' = Append(Ahead, h)
      BY <1>e, <3>1, <3>2, <3>3
    <3>5. replaced' = replaced
      <4>1. replaced' = replaced \o << >> /\ replaced \in Seq(Things)
        BY <1>0, <2>6, LinesAreThings DEF Holds
      <4> QED BY <1>e, <4>1
    <3> QED BY <2>1, <2>2, <3>4, <3>5 DEF Takes
  <2> QED BY <1>6, <2>3, <2>4, <2>5, <2>6
<1> QED BY <1>2, <1>3, <1>4, <1>5, <1>6


LEMMA WordsStay ==
    ASSUME LinesOK, LinesOK', WordsArrive, UNCHANGED <<said, replaced>>, Ahead' \o Behind' = Ahead \o Behind
    PROVE  WordsArrive'
<1>1. Ahead \o Behind = Left
  BY LineIs
<1>2. Left' = Left
  BY DEF Left
<1>3. WordsArrive' <=> Ahead' \o Behind' = Left'
  BY LineIsNext
<1> QED BY <1>1, <1>2, <1>3

\* A new word is behind all the others.
LEMMA WordsEmit ==
    ASSUME Base, Base', SaidOK, ReplacedOK, WordsArrive, NEW k \in {"text", "end"}, Turn(said) = responses,
           said' = Append(said, Chunk(k, responses)), Behind' = Append(Behind, Chunk(k, responses)),
           UNCHANGED <<Ahead, replaced>>
    PROVE  WordsArrive' /\ ReplacedOK'
<1> DEFINE c == Chunk(k, responses)
           S == Things \ ToSet(replaced)
<1>0. /\ LinesOK /\ LinesOK' /\ said \in Seq(Things) /\ Ahead \in Seq(Things) /\ Behind \in Seq(Things)
      /\ responses \in Nat /\ replaced \in Seq(Singles({"end"}))
  BY LinesAreThings, LineIs, NumbersFit DEF Base, LinesOK
<1>1. c.kind = k /\ Num(c) = responses /\ c \in Things
  <2>1. c \in Singles({"text", "end"})
    BY NumbersFit, InSingles DEF Base
  <2>2. {"text", "end"} \in SUBSET Kinds
    BY DEF Kinds
  <2> QED BY <2>1, <2>2, KindsAreThings, ChunkIs
<1>2. said' = Append(said, c) /\ Behind' = Append(Behind, c)
  OBVIOUS
<1> HIDE DEF c
<1>3. c \notin ToSet(replaced)
  <2> SUFFICES ASSUME NEW i \in DOMAIN replaced, replaced[i] = c PROVE FALSE
    BY DEF ToSet
  <2>1. c.kind = "end"
    BY <1>0, SingleIs
  <2>2. PICK j \in DOMAIN said : said[j] = c
    BY DEF ReplacedOK
  <2>3. Follow(c) = responses + 1
    BY <1>1, <2>1 DEF Follow
  <2>4. Follow(c) <= Turn(said)
    BY <2>2 DEF SaidOK
  <2> QED BY <1>0, <2>3, <2>4
<1>4. Left' = Append(Left, c)
  <2>1. c \in S
    BY <1>1, <1>3
  <2>2. Left' = Filter(Append(said, c), S) /\ Left = Filter(said, S)
    BY <1>2 DEF Left
  <2> HIDE DEF S
  <2>3. Filter(Append(said, c), S) = Append(Filter(said, S), c)
    BY <1>0, <1>1, <2>1, FilterAppend
  <2> QED BY <2>2, <2>3
<1>5. Ahead \o Append(Behind, c) = Append(Ahead \o Behind, c)
  BY <1>0, <1>1, AppendIs
<1>6. Ahead \o Behind = Left
  BY <1>0, LineIs
<1>7. Ahead' \o Behind' = Left'
  BY <1>2, <1>4, <1>5, <1>6
<1>8. WordsArrive'
  BY <1>0, <1>7, LineIsNext
<1>9. ReplacedOK'
  <2> SUFFICES ASSUME NEW i \in DOMAIN replaced PROVE \E j \in DOMAIN Append(said, c) : Append(said, c)[j] = replaced[i]
    BY <1>2 DEF ReplacedOK
  <2>1. PICK j \in DOMAIN said : said[j] = replaced[i]
    BY DEF ReplacedOK
  <2>2. j \in DOMAIN Append(said, c) /\ Append(said, c)[j] = said[j]
    BY <1>0, <1>1
  <2> QED BY <2>1, <2>2
<1> QED BY <1>8, <1>9

LEMMA FilterOut ==
    ASSUME NEW T, NEW x \in Seq(T), NEW y \in Seq(T), NEW p \in T,
           \A i \in DOMAIN x : x[i] # p, \A i \in DOMAIN y : y[i] # p
    PROVE  Filter((x \o <<p>>) \o y, T \ {p}) = x \o y
<1> DEFINE S == T \ {p}
           u == x \o <<p>>
<1>1. u = Append(x, p)
  OBVIOUS
<1>u. u \in Seq(T)
  OBVIOUS
<1>2. \A i \in DOMAIN x : x[i] \in S
  OBVIOUS
<1>3. \A i \in DOMAIN y : y[i] \in S
  OBVIOUS
<1>4. p \notin S
  OBVIOUS
<1> HIDE DEF S
<1>5. Filter(x, S) = x /\ Filter(y, S) = y
  BY <1>2, <1>3, FilterAll
<1>6. Filter(u, S) = x
  <2>1. Filter(Append(x, p), S) = Filter(x, S)
    BY <1>4, FilterAppend
  <2> QED BY <1>1, <1>5, <2>1
<1> HIDE DEF u
<1>7. Filter(u \o y, S) = Filter(u, S) \o Filter(y, S)
  BY <1>u, FilterConcat
<1> QED BY <1>5, <1>6, <1>7 DEF S, u

LEMMA LeftOnce ==
    ASSUME LinesOK, SaidOK
    PROVE  /\ EndsOnce(Left)
           /\ \A n \in DOMAIN Left : \E i \in DOMAIN said : said[i] = Left[n]
<1>1. said \in Seq(Things) /\ Left \in Seq(Things)
  BY LinesAreThings, LineIs
<1> DEFINE S == Things \ ToSet(replaced)
<1>2. Left = Filter(said, S)
  BY DEF Left
<1> HIDE DEF S
<1>3. /\ \A n \in DOMAIN Left : \E i \in DOMAIN said : said[i] \in S /\ Left[n] = said[i]
      /\ \A m, n \in DOMAIN Left : m < n => \E i, j \in DOMAIN said : i < j /\ Left[m] = said[i] /\ Left[n] = said[j]
  BY <1>1, <1>2, FilterOrder
<1>4. ASSUME NEW m \in DOMAIN Left, NEW n \in DOMAIN Left, m < n, Left[m] = Left[n], Left[m].kind = "end"
      PROVE  FALSE
  <2>1. PICK i \in DOMAIN said, j \in DOMAIN said : i < j /\ Left[m] = said[i] /\ Left[n] = said[j]
    BY <1>3, <1>4
  <2>2. i = j
    BY <1>4, <2>1 DEF SaidOK, EndsOnce
  <2>3. i \in Nat /\ j \in Nat
    BY <1>1
  <2> QED BY <2>1, <2>2, <2>3
<1>5. EndsOnce(Left)
  <2> SUFFICES ASSUME NEW m \in DOMAIN Left, NEW n \in DOMAIN Left, Left[m] = Left[n], Left[m].kind = "end"
               PROVE  m = n
    BY DEF EndsOnce
  <2>1. m \in Nat /\ n \in Nat
    BY <1>1
  <2>2. ~(m < n) /\ ~(n < m)
    BY <1>4
  <2> QED BY <2>1, <2>2
<1> QED BY <1>3, <1>5

LEMMA OneEnd ==
    ASSUME LinesOK, pendingEnd # << >>
    PROVE  pendingEnd[1] \in Singles({"end"}) /\ pendingEnd = <<pendingEnd[1]>>
<1>1. pendingEnd \in Seq(Singles({"end"})) /\ Len(pendingEnd) <= 1
  BY DEF LinesOK
<1> DEFINE T == Singles({"end"})
<1> HIDE DEF T
<1>2. pendingEnd \in Seq(T)
  BY <1>1 DEF T
<1>3. Len(pendingEnd) \in Nat /\ Len(pendingEnd) # 0
  BY <1>2
<1>4. Len(pendingEnd) = 1
  <2> DEFINE n == Len(pendingEnd)
  <2>1. n \in Nat /\ n # 0 /\ n <= 1
    BY <1>1, <1>3
  <2> HIDE DEF n
  <2>2. n = 1
    BY <2>1
  <2> QED BY <2>2 DEF n
<1>5. pendingEnd[1] \in T
  BY <1>2, <1>4
<1>6. pendingEnd = <<pendingEnd[1]>>
  BY <1>2, <1>4
<1> QED BY <1>5, <1>6 DEF T

\* A held turn-end gives way.
LEMMA WordsHold ==
    ASSUME Base, Base', SaidOK, ReplacedOK, WordsArrive, NEW h \in Forwarded, Holds(h), pendingEnd # << >>,
           UNCHANGED <<emitCh, queue, respCh, said>>
    PROVE  WordsArrive' /\ ReplacedOK'
<1> DEFINE p == pendingEnd[1]
           x == Words(out) \o buffered
           y == Behind
           S == Things \ ToSet(replaced)
<1>0. /\ LinesOK /\ LinesOK' /\ said \in Seq(Things) /\ replaced \in Seq(Things) /\ Behind \in Seq(Things)
      /\ out \in Seq(Things) /\ buffered \in Seq(Things) /\ pendingEnd \in Seq(Things) /\ Behind' \in Seq(Things)
  <2>1. LinesOK /\ LinesOK'
    BY DEF Base
  <2>2. Behind' \in Seq(Things)
    BY <2>1, LineIsNext
  <2> QED BY <2>1, <2>2, LinesAreThings, LineIs
<1>1. p \in Things /\ p.kind = "end" /\ pendingEnd = <<p>>
  <2>1. p \in Singles({"end"}) /\ pendingEnd = <<p>>
    BY <1>0, OneEnd
  <2>2. p \in Things
    <3>1. {"end"} \in SUBSET Kinds
      BY DEF Kinds
    <3> QED BY <2>1, <3>1, KindsAreThings
  <2> QED BY <2>1, <2>2, SingleIs
<1>2. x \in Seq(Things)
  <2>1. Words(out) \in Seq(Things)
    BY <1>0, WordsOf
  <2> QED BY <1>0, <2>1
<1>3. Ahead = x \o <<p>> /\ Ahead' = x \o <<h>> /\ y = <<h>> \o Behind'
  BY <1>1, ReorderWords DEF Ahead
<1>h. h \in Things
  BY ShownAre
<1>4. Left = (x \o <<p>>) \o y
  BY <1>0, <1>3, LineIs
<1>5. replaced' = Append(replaced, p)
  <2>1. replaced' = replaced \o <<p>>
    BY <1>1 DEF Holds
  <2> HIDE DEF p
  <2>2. replaced \o <<p>> = Append(replaced, p)
    BY <1>0, <1>1
  <2> QED BY <2>1, <2>2
<1> HIDE DEF p, x, y
<1>6. y \in Seq(Things)
  BY <1>0 DEF y
<1> DEFINE L == (x \o <<p>>) \o y
           n == Len(x) + 1
<1>7. /\ n \in DOMAIN L /\ L[n] = p
      /\ \A i \in DOMAIN x : i \in DOMAIN L /\ L[i] = x[i] /\ i # n
      /\ \A i \in DOMAIN y : n + i \in DOMAIN L /\ L[n + i] = y[i] /\ n + i # n
  BY <1>1, <1>2, <1>6
<1>8. EndsOnce(L) /\ \A m \in DOMAIN L : \E i \in DOMAIN said : said[i] = L[m]
  BY <1>0, <1>4, LeftOnce
<1>9. (\A i \in DOMAIN x : x[i] # p) /\ (\A i \in DOMAIN y : y[i] # p)
  <2> HIDE DEF L, n
  <2> QED BY <1>1, <1>7, <1>8 DEF EndsOnce
<1>10. Filter(L, Things \ {p}) = x \o y
  <2>1. p \in Things /\ x \in Seq(Things)
    BY <1>1, <1>2
  <2> QED BY <1>6, <1>9, <2>1, FilterOut
<1>11. Left' = Filter(Left, Things \ {p})
  <2>1. ToSet(replaced') = ToSet(replaced) \cup {p}
    <3> DEFINE r == Append(replaced, p)
    <3>1. DOMAIN r = DOMAIN replaced \cup {Len(replaced) + 1} /\ r[Len(replaced) + 1] = p
          /\ \A i \in DOMAIN replaced : r[i] = replaced[i]
      BY <1>0, <1>1
    <3>2. replaced' = r
      BY <1>5
    <3> HIDE DEF r
    <3>3. ToSet(r) = ToSet(replaced) \cup {p}
      BY <3>1 DEF ToSet
    <3> QED BY <3>2, <3>3
  <2>2. Things \ ToSet(replaced') = S \cap (Things \ {p})
    BY <2>1
  <2>3. Left' = Filter(said, S \cap (Things \ {p})) /\ Left = Filter(said, S)
    BY <2>2 DEF Left
  <2> DEFINE R == Things \ {p}
  <2> HIDE DEF S, R
  <2>4. Filter(Filter(said, S), R) = Filter(said, S \cap R)
    BY <1>0, FilterFilter
  <2> QED BY <2>3, <2>4 DEF R
<1>12. (x \o <<h>>) \o Behind' = x \o y
  <2> DEFINE b == Behind'
             o == <<h>>
  <2>1. b \in Seq(Things) /\ o \in Seq(Things)
    BY <1>0, <1>h
  <2>2. y = o \o b
    BY <1>3
  <2> HIDE DEF b, o
  <2>3. (x \o o) \o b = x \o (o \o b)
    BY <1>2, <2>1
  <2> QED BY <2>2, <2>3 DEF b, o
<1>13. Ahead' \o Behind' = Left'
  BY <1>3, <1>4, <1>10, <1>11, <1>12
<1>14. WordsArrive'
  BY <1>0, <1>13, LineIsNext
<1>15. \E j \in DOMAIN said : said[j] = p
  <2> HIDE DEF L, n
  <2> QED BY <1>7, <1>8
<1>16. ReplacedOK'
  <2> DEFINE r == Append(replaced, p)
  <2> SUFFICES ASSUME NEW i \in DOMAIN r PROVE \E j \in DOMAIN said : said[j] = r[i]
    BY <1>5 DEF ReplacedOK
  <2>1. (i \in DOMAIN replaced /\ r[i] = replaced[i]) \/ r[i] = p
    BY <1>0, <1>1
  <2> HIDE DEF r
  <2> QED BY <1>15, <2>1 DEF ReplacedOK
<1> QED BY <1>14, <1>16

LEMMA WordsNext ==
    ASSUME Base, Base', SaidOK, EndOK, ReplacedOK, WordsArrive, VoiceNext
    PROVE  WordsArrive' /\ ReplacedOK'
<1>0. /\ LinesOK /\ LinesOK' /\ FlagsOK /\ Carried \in Seq(Things) /\ wire \in Seq(Things)
      /\ Words(Carried) \in Seq(Things) /\ Words(wire) \in Seq(Things)
  BY CarriedIs, LinesAreThings, WordsOf DEF Base
<1>m. ASSUME UNCHANGED <<said, replaced>>, Ahead' \o Behind' = Ahead \o Behind PROVE WordsArrive' /\ ReplacedOK'
  <2>1. ReplacedOK'
    BY <1>m DEF ReplacedOK
  <2> QED BY <1>0, <1>m, <2>1, WordsStay
<1>q. ASSUME UNCHANGED <<said, replaced, out, buffered, pendingEnd, wire>>, Words(Carried)' = Words(Carried)
      PROVE  WordsArrive' /\ ReplacedOK'
  <2>1. Ahead' = Ahead /\ Behind' = Behind
    BY <1>q DEF Ahead, Behind
  <2> QED BY <1>m, <1>q, <2>1
<1>p. ASSUME UNCHANGED <<said, replaced, out, buffered, pendingEnd, wire, respCh, queue, emitCh>>
      PROVE  WordsArrive' /\ ReplacedOK'
  <2>1. Words(Carried)' = Words(Carried)
    BY <1>p DEF Carried
  <2> QED BY <1>q, <1>p, <2>1
<1>w. ASSUME NEW c \in Sent, Emit(c), UNCHANGED <<queue, respCh>>
      PROVE  Words(Carried)' = IF c.kind \in {"text", "end"} THEN Append(Words(Carried), c) ELSE Words(Carried)
  <2>1. c \in Things
    <3>1. {"text", "audio", "end", "transcript", "error"} \in SUBSET Kinds
      BY DEF Kinds
    <3> QED BY <3>1, KindsAreThings DEF Sent
  <2>2. Carried' = Append(Carried, c)
    BY <1>0, <1>w, EmitCarried
  <2>3. Words(Append(Carried, c)) = IF c.kind \in {"text", "end"} THEN Append(Words(Carried), c) ELSE Words(Carried)
    BY <1>0, <2>1, WordsOf
  <2> QED BY <2>2, <2>3
<1>x. ASSUME NEW k \in {"text", "end"}, Emit(Chunk(k, responses)), said' = Append(said, Chunk(k, responses)),
             Turn(said) = responses, UNCHANGED <<queue, respCh, replaced, out, buffered, pendingEnd, wire>>
      PROVE  WordsArrive' /\ ReplacedOK'
  <2> DEFINE c == Chunk(k, responses)
  <2>1. c \in Sent /\ c.kind = k
    BY <1>0, NumbersFit, InSingles, ChunkIs DEF Sent
  <2>2. c \in Things
    <3>1. {"text", "audio", "end", "transcript", "error"} \in SUBSET Kinds
      BY DEF Kinds
    <3> QED BY <2>1, <3>1, KindsAreThings DEF Sent
  <2>3. Emit(c) /\ said' = Append(said, c)
    BY <1>x
  <2> HIDE DEF c
  <2>4. Words(Carried)' = Append(Words(Carried), c)
    BY <1>x, <1>w, <2>1, <2>3
  <2>5. Words(wire) \o Append(Words(Carried), c) = Append(Words(wire) \o Words(Carried), c)
    BY <1>0, <2>2, AppendIs
  <2>6. Behind' = Append(Behind, c) /\ Ahead' = Ahead
    BY <1>x, <2>4, <2>5 DEF Ahead, Behind
  <2> QED BY <1>x, <2>6, WordsEmit DEF c
<1>1. CASE SpeechStarted \/ TranscriptionFails \/ ResponseCreated
  <2>1. UNCHANGED <<said, replaced, out, buffered, pendingEnd, wire, respCh, queue, emitCh>>
    BY <1>1 DEF SpeechStarted, TranscriptionFails, ResponseCreated, PumpIdle, ghostVars, pumpVars, reorderVars
  <2> QED BY <1>p, <2>1
<1>2. CASE HandleTranscriptDelta
  <2>1. /\ Emit(Chunk("text", responses)) /\ said' = Append(said, Chunk("text", responses)) /\ responseActive
        /\ UNCHANGED <<queue, respCh, replaced, out, buffered, pendingEnd, wire>>
    BY <1>2 DEF HandleTranscriptDelta, PumpIdle, reorderVars
  <2>2. Turn(said) = responses
    BY <2>1 DEF Base, ClosedOK, SaidOK
  <2> QED BY <1>x, <2>1, <2>2
<1>3. CASE HandleResponseDone
  <2>1. /\ Emit(Chunk("end", responses)) /\ said' = Append(said, Chunk("end", responses)) /\ responseActive
        /\ UNCHANGED <<queue, respCh, replaced, out, buffered, pendingEnd, wire>>
    BY <1>3 DEF HandleResponseDone, PumpIdle, reorderVars
  <2>2. Turn(said) = responses
    BY <2>1 DEF Base, ClosedOK, SaidOK
  <2> QED BY <1>x, <2>1, <2>2
<1>4. CASE HandleAudioDelta \/ HandleInputTranscription \/ HandleError \/ Disconnects
  <2>1. UNCHANGED <<said, replaced, out, buffered, pendingEnd, wire, respCh, queue>>
    BY <1>4 DEF HandleAudioDelta, HandleInputTranscription, HandleError, Disconnects, PumpIdle, ghostVars,
                reorderVars
  <2>2. emitCh' = emitCh \/ \E c \in Sent : c.kind \notin {"text", "end"} /\ Emit(c)
    <3>1. /\ Chunk("audio", responses) \in Sent /\ Chunk("error", responses) \in Sent
          /\ heard < spoke => Chunk("transcript", heard + 1) \in Sent
      BY <1>0, NumbersFit, InSingles DEF Sent
    <3>2. /\ Chunk("audio", responses).kind = "audio" /\ Chunk("error", responses).kind = "error"
          /\ Chunk("transcript", heard + 1).kind = "transcript"
      BY ChunkIs
    <3>3. CASE HandleAudioDelta
      <4>1. emitCh' = emitCh \/ Emit(Chunk("audio", responses))
        BY <3>3 DEF HandleAudioDelta
      <4> QED BY <3>1, <3>2, <4>1
    <3>4. CASE HandleInputTranscription
      <4>1. heard < spoke /\ Emit(Chunk("transcript", heard + 1))
        BY <3>4 DEF HandleInputTranscription
      <4> QED BY <3>1, <3>2, <4>1
    <3>5. CASE HandleError \/ Disconnects
      <4>1. emitCh' = emitCh \/ Emit(Chunk("error", responses))
        BY <3>5 DEF HandleError, Disconnects
      <4> QED BY <3>1, <3>2, <4>1
    <3> QED BY <1>4, <3>3, <3>4, <3>5
  <2>3. CASE emitCh' = emitCh
    BY <1>p, <2>1, <2>3
  <2>4. CASE \E c \in Sent : c.kind \notin {"text", "end"} /\ Emit(c)
    <3>1. Words(Carried)' = Words(Carried)
      BY <1>w, <2>1, <2>4
    <3> QED BY <1>q, <2>1, <3>1
  <2> QED BY <2>2, <2>3, <2>4
<1>5. CASE Pumps
  <2>1. UNCHANGED <<said, replaced, out, buffered, pendingEnd, wire>>
    BY <1>5 DEF Pumps, ghostVars, reorderVars
  <2>2. CASE PumpReceives \/ PumpForwards
    <3>1. Carried' = Carried
      BY <1>0, <2>2, MoveCarried
    <3>2. Words(Carried)' = Words(Carried)
      BY <3>1
    <3> QED BY <1>q, <2>1, <3>2
  <2>3. CASE PumpEnds
    <3>1. UNCHANGED <<respCh, queue, emitCh>>
      BY <2>3 DEF PumpEnds
    <3> QED BY <1>p, <2>1, <3>1
  <2>4. CASE PumpDrops
    <3>1. {"text", "end"} \in SUBSET (Kinds \ {"audio"})
      BY DEF Kinds
    <3>2. Filter(Carried, Of({"text", "end"}))' = Filter(Carried, Of({"text", "end"}))
      BY <1>0, <2>4, <3>1, DropCarried
    <3>3. Words(Carried)' = Words(Carried)
      BY <3>2 DEF Words
    <3> QED BY <1>q, <2>1, <3>3
  <2> QED BY <1>5, <2>2, <2>3, <2>4 DEF Pumps, PumpStep
<1>6. CASE MicrophoneAudio
  <2>1. UNCHANGED <<said, replaced, out, buffered, pendingEnd, wire, respCh, queue, emitCh>>
    BY <1>6 DEF MicrophoneAudio, ghostVars, reorderVars, pumpVars
  <2> QED BY <1>p, <2>1
<1>7. CASE HandleResponseChunk
  <2>1. PICK c \in Sent, e \in Forwarded : Response(c) /\ Becomes(c, e) /\ ForwardsElement(e) /\ UNCHANGED <<emitCh, queue>>
    BY <1>7, ChunkBecomes
  <2>2. UNCHANGED <<said, replaced, out, buffered, pendingEnd>>
    BY <1>7 DEF HandleResponseChunk, ReorderIdle
  <2>3. wire' = Append(wire, e) /\ e \in Things
    BY <1>0, <2>1, Forwards, ShownAre
  <2>4. Carried = <<c>> \o Carried' /\ Carried' \in Seq(Sent)
    BY <1>0, <2>1, TakeCarried
  <2>5. Sent \subseteq Things
    <3>1. {"text", "audio", "end", "transcript", "error"} \in SUBSET Kinds
      BY DEF Kinds
    <3> QED BY <3>1, KindsAreThings DEF Sent
  <2> DEFINE q == Carried'
             W == {"text", "end"}
  <2>6. q \in Seq(Things) /\ <<c>> \in Seq(Things) /\ c \in Things
    BY <2>4, <2>5
  <2>7. Words(Carried) = Words(<<c>>) \o Words(q) /\ Words(q) \in Seq(Things)
    <3> HIDE DEF q
    <3>1. Words(<<c>> \o q) = Words(<<c>>) \o Words(q)
      BY <2>6, WordsOf
    <3>2. Carried = <<c>> \o q
      BY <2>4 DEF q
    <3> QED BY <2>6, <3>1, <3>2, WordsOf
  <2>8. Words(<<c>>) = IF c.kind \in W THEN <<c>> ELSE << >>
    BY <2>6, WordsOf
  <2>9. Words(wire)' = IF e.kind \in W THEN Append(Words(wire), e) ELSE Words(wire)
    <3>1. Words(Append(wire, e)) = IF e.kind \in W THEN Append(Words(wire), e) ELSE Words(wire)
      BY <1>0, <2>3, WordsOf
    <3> QED BY <2>3, <3>1
  <2>10. Words(q) = Words(Carried)'
    OBVIOUS
  <2> HIDE DEF q
  <2>11. CASE c.kind \in W
    <3>1. e = c
      BY <2>1, <2>11 DEF Becomes
    <3>2. Behind = Words(wire) \o (<<c>> \o Words(q)) /\ Behind' = Append(Words(wire), c) \o Words(q)
      BY <2>7, <2>8, <2>9, <2>10, <2>11, <3>1 DEF Behind
    <3> DEFINE a == Words(wire)
               b == Words(q)
    <3>3. a \in Seq(Things) /\ b \in Seq(Things)
      BY <1>0, <2>7
    <3> HIDE DEF a, b
    <3>4. Append(a, c) \o b = a \o (<<c>> \o b)
      BY <2>6, <3>3
    <3>5. Behind' = Behind
      BY <3>2, <3>4 DEF a, b
    <3>6. Ahead' = Ahead
      BY <2>2 DEF Ahead
    <3> QED BY <1>m, <2>2, <3>5, <3>6
  <2>12. CASE c.kind \notin W
    <3>1. e.kind \notin W
      BY <2>1, <2>12 DEF Becomes
    <3>2. << >> \o Words(q) = Words(q)
      BY <2>7
    <3>3. Behind' = Behind
      BY <2>7, <2>8, <2>9, <2>10, <2>12, <3>1, <3>2 DEF Behind
    <3>4. Ahead' = Ahead
      BY <2>2 DEF Ahead
    <3> QED BY <1>m, <2>2, <3>3, <3>4
  <2> QED BY <2>11, <2>12
<1>8. CASE ResponsesEnd
  <2>1. UNCHANGED <<replaced, out, buffered, pendingEnd, respCh, queue, emitCh>>
    BY <1>8 DEF ResponsesEnd, ReorderIdle, pumpVars
  <2>2. CASE ~hasContent
    <3>1. UNCHANGED <<said, wire>>
      BY <1>8, <2>2 DEF ResponsesEnd
    <3> QED BY <1>p, <2>1, <3>1
  <2>3. CASE hasContent
    <3> DEFINE c == Chunk("end", responses)
    <3>1. c \in Forwarded /\ c.kind = "end"
      BY <1>0, NumbersFit, InSingles, ChunkIs DEF Forwarded
    <3>2. said' = Append(said, c) /\ ForwardsElement(c)
      BY <1>8, <2>3 DEF ResponsesEnd
    <3>3. Turn(said) = responses
      BY <1>8, <2>3, ContentOpen
    <3> HIDE DEF c
    <3>4. wire' = Append(wire, c) /\ c \in Things
      BY <1>0, <3>1, <3>2, Forwards, ShownAre
    <3>5. Words(wire)' = Append(Words(wire), c)
      <4>1. Words(Append(wire, c)) = Append(Words(wire), c)
        BY <1>0, <3>1, <3>4, WordsOf
      <4> QED BY <3>4, <4>1
    <3>6. Words(Carried) = << >> /\ Words(Carried)' = << >>
      <4>1. respCh = << >> /\ queue = << >> /\ emitCh = << >>
        BY <1>8 DEF ResponsesEnd, Base, ClosedOK
      <4>2. Carried = << >> /\ Carried' = << >>
        BY <2>1, <4>1 DEF Carried
      <4> QED BY <4>2, WordsOf
    <3>7. Behind' = Append(Behind, c) /\ Ahead' = Ahead
      <4>1. Behind = Words(wire) \o << >> /\ Behind' = Append(Words(wire), c) \o << >>
        BY <3>5, <3>6 DEF Behind
      <4>2. Words(wire) \o << >> = Words(wire)
        BY <1>0
      <4>3. Append(Words(wire), c) \o << >> = Append(Words(wire), c)
        BY <1>0, <3>4
      <4> QED BY <2>1, <4>1, <4>2, <4>3 DEF Ahead
    <3> QED BY <2>1, <3>2, <3>3, <3>7, WordsEmit DEF c
  <2> QED BY <2>2, <2>3
<1>9. CASE ReorderStep
  <2>1. UNCHANGED <<said, respCh, queue, emitCh>>
    BY <1>9 DEF ReorderStep, Reorders, ghostVars, pumpVars
  <2>2. \/ \E h \in Forwarded : \/ ReadsUser(h) \/ Passes(h) \/ Holds(h) \/ Buffers(h) \/ ReadsText(h)
                                \/ ReadsOther(h)
        \/ GivesUp \/ Stops
    BY <1>9, ReorderShapes
  <2>3. CASE GivesUp \/ Stops \/ \E h \in Forwarded : ReadsUser(h) \/ ReadsOther(h)
    <3>1. Ahead' = Ahead /\ Behind' = Behind
      BY <2>1, <2>3, ReorderWords
    <3>2. replaced' = replaced
      BY <2>3 DEF GivesUp, Stops, ReadsUser, ReadsOther, Resolves
    <3> QED BY <1>m, <2>1, <3>1, <3>2
  <2>4. CASE \E h \in Forwarded : \/ Passes(h) \/ Buffers(h) \/ ReadsText(h)
                                  \/ Holds(h) /\ pendingEnd = << >>
    <3>1. PICK h \in Forwarded : Takes(h)
      BY <2>1, <2>4, ReorderWords
    <3>2. Ahead' = Append(Ahead, h) /\ Behind = <<h>> \o Behind' /\ replaced' = replaced
      BY <3>1 DEF Takes
    <3> DEFINE a == Ahead
               b == Behind'
    <3>3. a \in Seq(Things) /\ b \in Seq(Things) /\ h \in Things
      BY <1>0, LineIs, LineIsNext, ShownAre
    <3> HIDE DEF a, b
    <3>4. Append(a, h) \o b = a \o (<<h>> \o b)
      BY <3>3
    <3>5. Ahead' \o Behind' = Ahead \o Behind
      BY <3>2, <3>4 DEF a, b
    <3> QED BY <1>m, <2>1, <3>2, <3>5
  <2>5. CASE \E h \in Forwarded : Holds(h) /\ pendingEnd # << >>
    BY <2>1, <2>5, WordsHold
  <2> QED BY <2>2, <2>3, <2>4, <2>5
<1> QED BY <1>1, <1>2, <1>3, <1>4, <1>5, <1>6, <1>7, <1>8, <1>9 DEF VoiceNext, Receives, ReorderStep

-----------------------------------------------------------------------------
(* The audio of an interrupted response.                                   *)

Loud(r) == Len(Filter(queue \o emitCh, {Chunk("audio", r)}))

LEMMA LoudStays ==
    ASSUME LinesOK, NEW r, UNCHANGED queue,
           emitCh' = emitCh \/ \E c \in Sent : c # Chunk("audio", r) /\ Emit(c)
    PROVE  Loud(r)' = Loud(r)
<1>1. queue \in Seq(Sent) /\ emitCh \in Seq(Sent)
  BY DEF LinesOK
<1>2. CASE emitCh' = emitCh
  BY <1>2 DEF Loud
<1>3. CASE \E c \in Sent : c # Chunk("audio", r) /\ Emit(c)
  <2>1. PICK c \in Sent : c # Chunk("audio", r) /\ Emit(c)
    BY <1>3
  <2> DEFINE w == queue \o emitCh
             S == {Chunk("audio", r)}
  <2>2. w \in Seq(Sent)
    BY <1>1
  <2>3. queue \o Append(emitCh, c) = Append(w, c)
    BY <1>1, AppendIs
  <2>4. c \notin S
    BY <2>1
  <2> HIDE DEF w, S
  <2>5. Filter(Append(w, c), S) = Filter(w, S)
    BY <2>2, <2>4, FilterAppend
  <2>6. emitCh' = Append(emitCh, c)
    BY <2>1 DEF Emit
  <2> QED BY <2>3, <2>5, <2>6 DEF Loud, w, S
<1> QED BY <1>2, <1>3

LEMMA LoudForwards ==
    ASSUME LinesOK, NEW r, PumpForwards
    PROVE  Loud(r)' <= Loud(r) /\ Loud(r)' \in Nat /\ Loud(r) \in Nat
<1> DEFINE w == queue \o emitCh
           v == Tail(queue) \o emitCh
           S == {Chunk("audio", r)}
           o == <<Head(queue)>>
<1>1. queue \in Seq(Sent) /\ emitCh \in Seq(Sent) /\ queue # << >> /\ queue' = Tail(queue) /\ emitCh' = emitCh
  BY DEF LinesOK, PumpForwards
<1>2. Tail(queue) \in Seq(Sent) /\ Head(queue) \in Sent /\ queue = o \o Tail(queue)
  BY <1>1, HeadIs
<1>3. o \in Seq(Sent) /\ v \in Seq(Sent)
  BY <1>1, <1>2
<1>4. w = o \o v
  <2> DEFINE t == Tail(queue)
  <2>1. t \in Seq(Sent)
    BY <1>2
  <2> HIDE DEF t, o
  <2>2. (o \o t) \o emitCh = o \o (t \o emitCh)
    BY <1>1, <1>3, <2>1
  <2>3. queue = o \o t
    BY <1>2 DEF t
  <2> QED BY <2>2, <2>3 DEF t
<1> HIDE DEF w, v, S, o
<1>5. Filter(o \o v, S) = Filter(o, S) \o Filter(v, S)
  BY <1>3, FilterConcat
<1>6. Filter(o, S) \in Seq(Sent) /\ Filter(v, S) \in Seq(Sent)
  BY <1>3, FilterIs
<1>7. Len(Filter(v, S)) <= Len(Filter(o, S) \o Filter(v, S)) /\ Len(Filter(v, S)) \in Nat
      /\ Len(Filter(o, S) \o Filter(v, S)) \in Nat
  BY <1>6
<1>8. Loud(r) = Len(Filter(w, S)) /\ Loud(r)' = Len(Filter(v, S))
  BY <1>1 DEF Loud, w, v, S
<1> QED BY <1>4, <1>5, <1>7, <1>8

LEMMA LoudDrops ==
    ASSUME LinesOK, NEW r, PumpDrops
    PROVE  Loud(r)' <= EmitSize
<1> DEFINE N == Of(Kinds \ {"audio"})
           S == {Chunk("audio", r)}
           q == Filter(queue, N)
<1>1. /\ emitCh \in Seq(Things) /\ Len(emitCh) <= EmitSize /\ EmitSize \in Nat /\ queue \in Seq(Things)
      /\ queue' = q /\ emitCh' = emitCh
  BY DropQueue, LinesAreThings, PumpAssumption DEF LinesOK
<1>2. q \in Seq(Things)
  BY <1>1, FilterIs
<1>3. \A i \in DOMAIN q : q[i] \notin S
  <2> SUFFICES ASSUME NEW i \in DOMAIN q, q[i] = Chunk("audio", r) PROVE FALSE
    OBVIOUS
  <2>1. q[i] \in N
    <3> HIDE DEF N
    <3> QED BY <1>1, FilterOrder
  <2>2. q[i].kind = "audio"
    BY ChunkIs
  <2> QED BY <2>1, <2>2 DEF Of
<1> HIDE DEF q, S
<1>4. Filter(q, S) = << >>
  BY <1>2, <1>3, FilterNone
<1>5. Filter(q \o emitCh, S) = Filter(q, S) \o Filter(emitCh, S)
  <2>1. emitCh \in Seq(Things) /\ q \in Seq(Things)
    BY <1>1, <1>2
  <2> QED BY <2>1, FilterConcat
<1>6. Filter(emitCh, S) \in Seq(Things) /\ Len(Filter(emitCh, S)) <= Len(emitCh) /\ Len(emitCh) \in Nat
  <2>1. emitCh \in Seq(Things)
    BY <1>1
  <2>2. Len(emitCh) \in Nat
    BY <2>1
  <2>3. Filter(emitCh, S) \in Seq(Things) /\ Len(Filter(emitCh, S)) <= Len(emitCh)
    BY <2>1, FilterIs
  <2> QED BY <2>2, <2>3
<1>7. Filter(q \o emitCh, S) = Filter(emitCh, S)
  <2>1. Filter(emitCh, S) \in Seq(Things)
    BY <1>6
  <2>2. << >> \o Filter(emitCh, S) = Filter(emitCh, S)
    BY <2>1
  <2> QED BY <1>4, <1>5, <2>2
<1>8. Loud(r)' = Len(Filter(q \o emitCh, S))
  BY <1>1 DEF Loud, S
<1> QED BY <1>1, <1>6, <1>7, <1>8

LEMMA AudioNext ==
    ASSUME Base, AudioOK, VoiceNext
    PROVE  AudioOK'
<1>0. LinesOK /\ FlagsOK /\ responses \in Nat /\ heard \in Nat /\ barged \subseteq Nat /\ EmitSize \in Nat
  <2>1. barged \subseteq 1 .. MaxResponses /\ MaxResponses \in Nat
    BY VoiceAssumption DEF Base, FlagsOK
  <2> QED BY <2>1, NumbersFit, PumpAssumption DEF Base
<1>a. \A r \in barged : r <= responses /\ (responseActive /\ r = responses => dropping)
  BY DEF AudioOK
<1>b. ~dropCh => \A r \in barged : Loud(r) <= EmitSize
  BY DEF AudioOK, InterruptedAudioStops, Loud
<1>c. ASSUME ~dropCh' => \A r \in barged' : Loud(r)' <= EmitSize,
             \A r \in barged' : r <= responses' /\ (responseActive' /\ r = responses' => dropping')
      PROVE  AudioOK'
  BY <1>c DEF AudioOK, InterruptedAudioStops, Loud
<1>k. /\ Chunk("text", responses) \in Sent /\ Chunk("audio", responses) \in Sent
      /\ Chunk("end", responses) \in Sent /\ Chunk("error", responses) \in Sent
      /\ heard < spoke => Chunk("transcript", heard + 1) \in Sent
  BY <1>0, NumbersFit, InSingles DEF Sent
<1>l. \A r, k, n : k # "audio" \/ n # r => Chunk(k, n) # Chunk("audio", r)
  <2> SUFFICES ASSUME NEW r, NEW k, NEW n, Chunk(k, n) = Chunk("audio", r) PROVE k = "audio" /\ n = r
    OBVIOUS
  <2>1. Chunk(k, n).kind = k /\ Num(Chunk(k, n)) = n /\ Chunk("audio", r).kind = "audio" /\ Num(Chunk("audio", r)) = r
    BY ChunkIs
  <2> QED BY <2>1
<1>1. CASE SpeechStarted
  <2>1. UNCHANGED <<queue, emitCh, responses, responseActive>>
    BY <1>1 DEF SpeechStarted, PumpIdle
  <2>2. CASE responseActive
    <3>1. dropCh' = TRUE /\ dropping' = TRUE /\ barged' = barged \cup {responses}
      BY <1>1, <2>2 DEF SpeechStarted, Barge
    <3> QED BY <1>0, <1>a, <1>c, <2>1, <3>1
  <2>3. CASE ~responseActive
    <3>1. UNCHANGED <<dropCh, dropping, barged>>
      BY <1>1, <2>3 DEF SpeechStarted
    <3>2. \A r : Loud(r)' = Loud(r)
      BY <2>1 DEF Loud
    <3> QED BY <1>a, <1>b, <1>c, <2>1, <3>1, <3>2
  <2> QED BY <2>2, <2>3
<1>2. CASE ResponseCreated
  <2>1. UNCHANGED <<queue, emitCh, dropCh, barged>> /\ responses' = responses + 1
    BY <1>2 DEF ResponseCreated, PumpIdle, ghostVars
  <2>2. \A r : Loud(r)' = Loud(r)
    BY <2>1 DEF Loud
  <2>3. \A r \in barged : r <= responses' /\ r # responses'
    BY <1>0, <1>a, <2>1
  <2> QED BY <1>b, <1>c, <2>1, <2>2, <2>3
<1>3. CASE HandleTranscriptDelta \/ HandleAudioDelta \/ HandleResponseDone \/ HandleInputTranscription
           \/ TranscriptionFails \/ HandleError \/ Disconnects
  <2>1. UNCHANGED <<queue, dropCh, barged, responses>>
    BY <1>3 DEF HandleTranscriptDelta, HandleAudioDelta, HandleResponseDone, HandleInputTranscription,
                TranscriptionFails, HandleError, Disconnects, PumpIdle, ghostVars, pumpVars
  <2>2. (responseActive' = responseActive /\ dropping' = dropping) \/ responseActive' = FALSE
    BY <1>3 DEF HandleTranscriptDelta, HandleAudioDelta, HandleResponseDone, HandleInputTranscription,
                TranscriptionFails, HandleError, Disconnects, pumpVars
  <2>3. \A r \in barged : emitCh' = emitCh \/ \E c \in Sent : c # Chunk("audio", r) /\ Emit(c)
    <3> TAKE r \in barged
    <3>1. CASE HandleTranscriptDelta
      BY <1>k, <1>l, <3>1 DEF HandleTranscriptDelta
    <3>2. CASE HandleAudioDelta
      <4>1. responseActive /\ (emitCh' = emitCh \/ (~dropping /\ Emit(Chunk("audio", responses))))
        BY <3>2 DEF HandleAudioDelta, Dropping
      <4>2. ~dropping => r # responses
        BY <1>a, <4>1
      <4> QED BY <1>k, <1>l, <4>1, <4>2
    <3>3. CASE HandleResponseDone
      BY <1>k, <1>l, <3>3 DEF HandleResponseDone
    <3>4. CASE HandleInputTranscription
      BY <1>k, <1>l, <3>4 DEF HandleInputTranscription
    <3>5. CASE TranscriptionFails
      BY <3>5 DEF TranscriptionFails, pumpVars
    <3>6. CASE Disconnects
      BY <1>k, <1>l, <3>6 DEF Disconnects
    <3>7. CASE HandleError
      BY <1>k, <1>l, <3>7 DEF HandleError
    <3> QED BY <1>3, <3>1, <3>2, <3>3, <3>4, <3>5, <3>6, <3>7
  <2>4. \A r \in barged : Loud(r)' = Loud(r)
    BY <1>0, <2>1, <2>3, LoudStays
  <2> QED BY <1>a, <1>b, <1>c, <2>1, <2>2, <2>4
<1>4. CASE Pumps
  <2>1. UNCHANGED <<barged, responses, responseActive>>
    BY <1>4 DEF Pumps, sessionVars, ghostVars
  <2>2. dropping' = dropping
    BY <1>4 DEF Pumps, PumpStep, PumpReceives, PumpForwards, PumpDrops, PumpEnds
  <2>3. CASE PumpReceives
    <3>1. /\ emitCh # << >> /\ queue' = Append(queue, Head(emitCh)) /\ emitCh' = Tail(emitCh) /\ dropCh' = dropCh
      BY <2>3 DEF PumpReceives
    <3>2. emitCh \in Seq(Sent) /\ queue \in Seq(Sent)
      BY <1>0 DEF LinesOK
    <3>3. Append(queue, Head(emitCh)) \o Tail(emitCh) = queue \o emitCh
      BY <3>1, <3>2, MoveHead
    <3>4. \A r : Loud(r)' = Loud(r)
      BY <3>1, <3>3 DEF Loud
    <3> QED BY <1>a, <1>b, <1>c, <2>1, <2>2, <3>1, <3>4
  <2>4. CASE PumpForwards
    <3>1. dropCh' = dropCh
      BY <2>4 DEF PumpForwards
    <3>2. \A r : Loud(r)' <= Loud(r) /\ Loud(r)' \in Nat /\ Loud(r) \in Nat
      BY <1>0, <2>4, LoudForwards
    <3>3. ~dropCh => \A r \in barged : Loud(r)' <= EmitSize
      BY <1>0, <1>b, <3>2
    <3> QED BY <1>a, <1>c, <2>1, <2>2, <3>1, <3>3
  <2>5. CASE PumpDrops
    <3>1. \A r : Loud(r)' <= EmitSize
      BY <1>0, <2>5, LoudDrops
    <3> QED BY <1>a, <1>c, <2>1, <2>2, <3>1
  <2>6. CASE PumpEnds
    <3>1. UNCHANGED <<queue, emitCh, dropCh>>
      BY <2>6 DEF PumpEnds
    <3>2. \A r : Loud(r)' = Loud(r)
      BY <3>1 DEF Loud
    <3> QED BY <1>a, <1>b, <1>c, <2>1, <2>2, <3>1, <3>2
  <2> QED BY <1>4, <2>3, <2>4, <2>5, <2>6 DEF Pumps, PumpStep
<1>5. CASE MicrophoneAudio \/ HandleResponseChunk \/ ResponsesEnd \/ ReorderStep
  <2>1. UNCHANGED <<queue, emitCh, dropCh, dropping, barged, responses, responseActive>>
    BY <1>5 DEF MicrophoneAudio, HandleResponseChunk, ResponsesEnd, ReorderStep, Reorders, pumpVars, sessionVars, ghostVars
  <2>2. \A r : Loud(r)' = Loud(r)
    BY <2>1 DEF Loud
  <2> QED BY <1>a, <1>b, <1>c, <2>1, <2>2
<1> QED BY <1>1, <1>2, <1>3, <1>4, <1>5 DEF VoiceNext, Receives, ReorderStep

-----------------------------------------------------------------------------
(* The users' turns.                                                       *)

LEMMA AscendsMore ==
    ASSUME NEW T, NEW s \in Seq(T), NEW n \in Nat, Ascends(s, n), NEW e \in T, Num(e) = n + 1
    PROVE  Ascends(Append(s, e), n + 1)
<1> DEFINE t == Append(s, e)
<1>1. /\ DOMAIN t = 1 .. (Len(s) + 1) /\ DOMAIN s = 1 .. Len(s) /\ Len(s) \in Nat /\ t[Len(s) + 1] = e
      /\ \A i \in 1 .. Len(s) : t[i] = s[i]
  OBVIOUS
<1> HIDE DEF t
<1>2. \A i \in 1 .. Len(s) : Num(s[i]) \in 1 .. n
  BY <1>1 DEF Ascends
<1>3. \A i, j \in DOMAIN t : i < j => Num(t[i]) < Num(t[j])
  <2> SUFFICES ASSUME NEW i \in DOMAIN t, NEW j \in DOMAIN t, i < j PROVE Num(t[i]) < Num(t[j])
    OBVIOUS
  <2>1. i \in 1 .. Len(s) /\ (j \in 1 .. Len(s) \/ j = Len(s) + 1)
    BY <1>1
  <2>2. CASE j \in 1 .. Len(s)
    BY <1>1, <2>1, <2>2 DEF Ascends
  <2>3. CASE j = Len(s) + 1
    BY <1>1, <1>2, <2>1, <2>3
  <2> QED BY <2>1, <2>2, <2>3
<1>4. \A i \in DOMAIN t : Num(t[i]) \in 1 .. (n + 1)
  <2> TAKE i \in DOMAIN t
  <2>1. i \in 1 .. Len(s) \/ i = Len(s) + 1
    BY <1>1
  <2> QED BY <1>1, <1>2, <2>1
<1> QED BY <1>3, <1>4 DEF Ascends, t

LEMMA AscendsUp ==
    ASSUME NEW s, NEW n \in Nat, Ascends(s, n)
    PROVE  Ascends(s, n + 1)
BY DEF Ascends

LEMMA AscendsLess ==
    ASSUME NEW T, NEW x \in Seq(T), NEW y \in Seq(T), NEW c \in T, NEW e \in T, Num(e) = Num(c), NEW n \in Nat,
           Ascends((x \o <<c>>) \o y, n)
    PROVE  Ascends((x \o <<e>>) \o y, n) /\ Ascends(x \o y, n)
<1> DEFINE s == (x \o <<c>>) \o y
           t == (x \o <<e>>) \o y
           u == x \o y
           L == Len(x)
           M == Len(y)
<1>1. /\ L \in Nat /\ M \in Nat /\ DOMAIN s = 1 .. (L + 1 + M) /\ DOMAIN t = 1 .. (L + 1 + M) /\ DOMAIN u = 1 .. (L + M)
  OBVIOUS
<1>2. /\ \A i \in 1 .. L : s[i] = x[i] /\ t[i] = x[i] /\ u[i] = x[i]
      /\ s[L + 1] = c /\ t[L + 1] = e
      /\ \A i \in 1 .. M : s[L + 1 + i] = y[i] /\ t[L + 1 + i] = y[i] /\ u[L + i] = y[i]
  OBVIOUS
<1> HIDE DEF s, t, u, L, M
<1>3. \A i \in DOMAIN t : Num(t[i]) = Num(s[i])
  <2> TAKE i \in DOMAIN t
  <2>1. i \in 1 .. L \/ i = L + 1 \/ (i - (L + 1) \in 1 .. M /\ i = L + 1 + (i - (L + 1)))
    BY <1>1
  <2> QED BY <1>1, <1>2, <2>1
<1>4. Ascends(t, n)
  BY <1>1, <1>3 DEF Ascends, s
<1> DEFINE At(i) == IF i <= L THEN i ELSE i + 1
<1>5. \A i \in DOMAIN u : At(i) \in DOMAIN s /\ u[i] = s[At(i)]
  <2> TAKE i \in DOMAIN u
  <2>1. CASE i <= L
    BY <1>1, <1>2, <2>1
  <2>2. CASE ~(i <= L)
    <3>1. i - L \in 1 .. M /\ i = L + (i - L) /\ At(i) = L + 1 + (i - L) /\ At(i) \in DOMAIN s
      BY <1>1, <2>2
    <3>2. u[L + (i - L)] = y[i - L] /\ s[L + 1 + (i - L)] = y[i - L]
      BY <1>2, <3>1
    <3> QED BY <3>1, <3>2
  <2> QED BY <2>1, <2>2
<1>6. \A i, j \in DOMAIN u : i < j => At(i) < At(j)
  BY <1>1
<1> HIDE DEF At
<1>7. Ascends(u, n)
  <2>1. Ascends(s, n)
    BY DEF s
  <2> QED BY <1>5, <1>6, <2>1 DEF Ascends
<1> QED BY <1>4, <1>7 DEF t, u

Came == Picks(out, {"user"}) \o Picks(wire, {"user"})

LEMMA UsersAre ==
    ASSUME LinesOK
    PROVE  /\ Users = Came \o Picks(Carried, {"transcript"}) /\ Users \in Seq(Things)
           /\ Came \in Seq(Things) /\ Picks(Carried, {"transcript"}) \in Seq(Things)
           /\ Picks(out, {"user"}) \in Seq(Things) /\ Picks(wire, {"user"}) \in Seq(Things)
<1>1. out \in Seq(Things) /\ wire \in Seq(Things) /\ Carried \in Seq(Things)
  BY LinesAreThings, CarriedIs
<1>2. /\ Picks(Carried, {"transcript"}) \in Seq(Things)
      /\ Picks(out, {"user"}) \in Seq(Things) /\ Picks(wire, {"user"}) \in Seq(Things)
  BY <1>1, PicksType
<1>3. Came \in Seq(Things)
  BY <1>2 DEF Came
<1>4. Came \o Picks(Carried, {"transcript"}) \in Seq(Things)
  BY <1>2, <1>3
<1> QED BY <1>2, <1>3, <1>4 DEF Users, Came

\* Sending what waits adds no turn of the user.
LEMMA TellsUsers ==
    ASSUME LinesOK, NEW x \in Seq(Things)
    PROVE  Picks(((out \o x) \o buffered) \o pendingEnd, {"user"}) = Picks(out, {"user"}) \o Picks(x, {"user"})
<1> DEFINE U == {"user"}
           u == out \o x
           v == u \o buffered
<1>1. out \in Seq(Things) /\ buffered \in Seq(Things) /\ pendingEnd \in Seq(Things)
  BY LinesAreThings
<1>2. Picks(buffered, U) = << >> /\ Picks(pendingEnd, U) = << >>
  <2>1. \A i \in DOMAIN buffered : buffered[i].kind \notin U
    <3> TAKE i \in DOMAIN buffered
    <3>1. buffered[i] \in Singles({"text"})
      BY DEF LinesOK
    <3> QED BY <3>1, SingleIs
  <2>2. \A i \in DOMAIN pendingEnd : pendingEnd[i].kind \notin U
    <3> TAKE i \in DOMAIN pendingEnd
    <3>1. pendingEnd[i] \in Singles({"end"})
      BY DEF LinesOK
    <3> QED BY <3>1, SingleIs
  <2> HIDE DEF U
  <2> QED BY <1>1, <2>1, <2>2, PicksNone
<1> HIDE DEF U
<1>3. u \in Seq(Things) /\ Picks(u, U) = Picks(out, U) \o Picks(x, U)
  <2>1. Picks(out \o x, U) = Picks(out, U) \o Picks(x, U)
    BY <1>1, PicksConcat
  <2> QED BY <1>1, <2>1
<1> HIDE DEF u
<1>e. ASSUME NEW a \in Seq(Things) PROVE a \o << >> = a
  OBVIOUS
<1>4. v \in Seq(Things) /\ Picks(v, U) = Picks(u, U)
  <2>0. u \in Seq(Things) /\ buffered \in Seq(Things)
    BY <1>1, <1>3
  <2>1. Picks(u \o buffered, U) = Picks(u, U) \o Picks(buffered, U)
    BY <2>0, PicksConcat
  <2>2. Picks(u, U) \in Seq(Things)
    BY <2>0, PicksType
  <2>3. Picks(v, U) = Picks(u, U)
    BY <1>2, <1>e, <2>1, <2>2
  <2> QED BY <2>0, <2>3
<1> HIDE DEF v
<1>5. Picks(v \o pendingEnd, U) = Picks(v, U)
  <2>0. v \in Seq(Things) /\ pendingEnd \in Seq(Things)
    BY <1>1, <1>4
  <2>1. Picks(v \o pendingEnd, U) = Picks(v, U) \o Picks(pendingEnd, U)
    BY <2>0, PicksConcat
  <2>2. Picks(v, U) \in Seq(Things)
    BY <2>0, PicksType
  <2> QED BY <1>2, <1>e, <2>1, <2>2
<1> QED BY <1>3, <1>4, <1>5 DEF u, v, U

LEMMA ReadsUsers ==
    ASSUME LinesOK, NEW h \in Forwarded, Reads(h)
    PROVE  /\ Picks(wire, {"user"}) = Picks(<<h>>, {"user"}) \o Picks(wire, {"user"})'
           /\ Picks(wire, {"user"})' \in Seq(Things) /\ h \in Things
<1> DEFINE v == wire'
           U == {"user"}
<1>1. h \in Things /\ Forwarded \subseteq Things
  BY ShownAre
<1>2. v \in Seq(Things) /\ <<h>> \in Seq(Things) /\ wire = <<h>> \o v
  BY <1>1 DEF Reads
<1> HIDE DEF v, U
<1> DEFINE o == <<h>>
<1>o. o \in Seq(Things) /\ v \in Seq(Things)
  BY <1>2
<1> HIDE DEF o
<1>3. Picks(o \o v, U) = Picks(o, U) \o Picks(v, U)
  BY <1>o, PicksConcat
<1>4. Picks(v, U) \in Seq(Things)
  BY <1>o, PicksType
<1> QED BY <1>1, <1>2, <1>3, <1>4 DEF o, v, U

LEMMA ReorderUsers ==
    ASSUME Base, ReorderStep
    PROVE  Came' = Came
<1> DEFINE U == {"user"}
           O == Picks(out, U)
           W == Picks(wire, U)
<1>0. LinesOK /\ out \in Seq(Things) /\ O \in Seq(Things) /\ W \in Seq(Things)
  BY UsersAre, LinesAreThings DEF Base
<1>c. Came = O \o W /\ Came' = O' \o W'
  BY DEF Came
<1>1. \/ \E h \in Forwarded : \/ ReadsUser(h) \/ Passes(h) \/ Holds(h) \/ Buffers(h) \/ ReadsText(h)
                              \/ ReadsOther(h)
      \/ GivesUp \/ Stops
  BY ReorderShapes
<1>e. ASSUME NEW a \in Seq(Things) PROVE a \o << >> = a /\ << >> \o a = a
  OBVIOUS
<1>2. ASSUME NEW p, Resolves(p) PROVE O' = O
  <2>1. p \in Seq(Things)
    BY <1>2, NoWords DEF Resolves
  <2>2. Picks(p, U) = << >>
    <3>1. \A i \in DOMAIN p : p[i].kind \notin U
      <4> TAKE i \in DOMAIN p
      <4>1. p[i] \in Of({"placeholder"})
        BY <1>2 DEF Resolves
      <4> QED BY <4>1 DEF Of
    <3> HIDE DEF U
    <3> QED BY <2>1, <3>1, PicksNone
  <2>3. Picks(((out \o p) \o buffered) \o pendingEnd, U) = O \o Picks(p, U)
    BY <1>0, <2>1, TellsUsers
  <2> QED BY <1>0, <1>2, <1>e, <2>2, <2>3 DEF Resolves
<1>3. ASSUME NEW h \in Forwarded, Reads(h), h.kind # "user" PROVE W' = W
  <2>1. W = Picks(<<h>>, U) \o W' /\ W' \in Seq(Things) /\ h \in Things
    BY <1>0, <1>3, ReadsUsers
  <2>2. Picks(<<h>>, U) = << >>
    BY <1>3, <2>1, PicksOne
  <2> QED BY <1>e, <2>1, <2>2
<1>4. ASSUME NEW h \in Things, h.kind # "user" PROVE Picks(Append(out, h), U) = O
  BY <1>0, <1>4, PicksAppend
<1>5. CASE \E h \in Forwarded : ReadsUser(h)
  <2>1. PICK h \in Forwarded : ReadsUser(h)
    BY <1>5
  <2>2. W = Picks(<<h>>, U) \o W' /\ W' \in Seq(Things) /\ h \in Things
    BY <1>0, <2>1, ReadsUsers DEF ReadsUser
  <2>3. Picks(<<h>>, U) = <<h>> /\ <<h>> \in Seq(Things)
    BY <2>1, <2>2, PicksOne DEF ReadsUser
  <2>4. Picks(((out \o <<h>>) \o buffered) \o pendingEnd, U) = O \o <<h>>
    BY <1>0, <2>3, TellsUsers
  <2>5. O' = O \o <<h>>
    BY <2>1, <2>4 DEF ReadsUser
  <2> DEFINE w == W'
             o == <<h>>
  <2>6. w \in Seq(Things) /\ o \in Seq(Things)
    BY <2>2, <2>3
  <2>7. W = o \o w /\ O' = O \o o
    BY <2>2, <2>3, <2>5
  <2> HIDE DEF w, o, O, W
  <2>8. (O \o o) \o w = O \o (o \o w)
    BY <1>0, <2>6
  <2> QED BY <1>c, <2>7, <2>8 DEF w
<1>6. CASE \E h \in Forwarded : Passes(h) \/ Holds(h) \/ Buffers(h) \/ ReadsOther(h)
  <2>1. PICK h \in Forwarded : Passes(h) \/ Holds(h) \/ Buffers(h) \/ ReadsOther(h)
    BY <1>6
  <2>2. Reads(h) /\ h.kind # "user" /\ (out' = out \/ out' = Append(out, h))
    BY <2>1 DEF Passes, Holds, Buffers, ReadsOther
  <2>3. W' = W /\ h \in Things
    BY <1>3, <2>2, ShownAre
  <2>4. O' = O
    BY <1>4, <2>2, <2>3
  <2> QED BY <1>c, <2>3, <2>4
<1>7. CASE \E h \in Forwarded : ReadsText(h)
  <2>1. PICK h \in Forwarded : ReadsText(h)
    BY <1>7
  <2>2. Reads(h) /\ h.kind # "user" /\ O' = O
    BY <1>2, <2>1 DEF ReadsText
  <2> QED BY <1>3, <1>c, <2>2
<1>8. CASE GivesUp
  <2>1. O' = O /\ wire' = wire
    BY <1>2, <1>8 DEF GivesUp
  <2> QED BY <1>c, <2>1
<1>9. CASE Stops
  BY <1>9 DEF Stops, Came
<1> QED BY <1>1, <1>5, <1>6, <1>7, <1>8, <1>9

LEMMA UsersNext ==
    ASSUME Base, Base', UsersOK, VoiceNext
    PROVE  UsersOK'
<1> DEFINE T == {"transcript"}
           C == Picks(Carried, T)
<1>0. /\ LinesOK /\ FlagsOK /\ heard \in Nat /\ Came \in Seq(Things) /\ C \in Seq(Things) /\ Carried \in Seq(Things)
      /\ Users = Came \o C /\ Users \in Seq(Things)
  BY UsersAre, NumbersFit, CarriedIs DEF Base
<1>a. Ascends(Users, heard)
  BY DEF UsersOK
<1>b. Users' = Came' \o C'
  BY DEF Users, Came
<1>c. ASSUME heard' = heard, Came' = Came, C' = C PROVE UsersOK'
  BY <1>0, <1>a, <1>b, <1>c DEF UsersOK
<1>d. ASSUME UNCHANGED <<out, wire>> PROVE Came' = Came
  BY <1>d DEF Came
<1>e. ASSUME UNCHANGED <<respCh, queue, emitCh>> PROVE C' = C
  BY <1>e DEF Carried
<1>w. ASSUME NEW c \in Sent, Emit(c), UNCHANGED <<queue, respCh>>
      PROVE  C' = (IF c.kind \in T THEN Append(C, c) ELSE C) /\ c \in Things
  <2>1. c \in Things
    <3>1. {"text", "audio", "end", "transcript", "error"} \in SUBSET Kinds
      BY DEF Kinds
    <3> QED BY <3>1, KindsAreThings DEF Sent
  <2>2. Carried' = Append(Carried, c)
    BY <1>0, <1>w, EmitCarried
  <2> HIDE DEF T
  <2>3. Picks(Append(Carried, c), T) = IF c.kind \in T THEN Append(C, c) ELSE C
    BY <1>0, <2>1, PicksAppend
  <2> QED BY <2>1, <2>2, <2>3 DEF T
<1>k. /\ Chunk("text", responses) \in Sent /\ Chunk("audio", responses) \in Sent
      /\ Chunk("end", responses) \in Sent /\ Chunk("error", responses) \in Sent
      /\ heard < spoke => Chunk("transcript", heard + 1) \in Sent
  BY <1>0, NumbersFit, InSingles DEF Sent
<1>l. \A k, n : Chunk(k, n).kind = k /\ Num(Chunk(k, n)) = n
  BY ChunkIs
<1>1. CASE SpeechStarted \/ ResponseCreated
  <2>1. UNCHANGED <<out, wire, respCh, queue, emitCh, heard>>
    BY <1>1 DEF SpeechStarted, ResponseCreated, PumpIdle, reorderVars
  <2> QED BY <1>c, <1>d, <1>e, <2>1
<1>2. CASE HandleTranscriptDelta \/ HandleAudioDelta \/ HandleResponseDone \/ HandleError \/ Disconnects
  <2>1. UNCHANGED <<out, wire, respCh, queue, heard>>
    BY <1>2 DEF HandleTranscriptDelta, HandleAudioDelta, HandleResponseDone, HandleError, Disconnects, PumpIdle,
                reorderVars
  <2>2. emitCh' = emitCh \/ \E c \in Sent : c.kind \notin T /\ Emit(c)
    <3>1. CASE HandleTranscriptDelta
      BY <1>k, <1>l, <3>1 DEF HandleTranscriptDelta
    <3>2. CASE HandleAudioDelta
      BY <1>k, <1>l, <3>2 DEF HandleAudioDelta
    <3>3. CASE HandleResponseDone
      BY <1>k, <1>l, <3>3 DEF HandleResponseDone
    <3>4. CASE Disconnects
      BY <1>k, <1>l, <3>4 DEF Disconnects
    <3>5. CASE HandleError
      BY <1>k, <1>l, <3>5 DEF HandleError
    <3> QED BY <1>2, <3>1, <3>2, <3>3, <3>4, <3>5
  <2>3. C' = C
    BY <1>e, <1>w, <2>1, <2>2
  <2> QED BY <1>c, <1>d, <2>1, <2>3
<1>3. CASE HandleInputTranscription
  <2> DEFINE c == Chunk("transcript", heard + 1)
  <2>1. UNCHANGED <<out, wire, respCh, queue>> /\ heard' = heard + 1 /\ Emit(c) /\ heard < spoke
    BY <1>3 DEF HandleInputTranscription, PumpIdle, reorderVars
  <2>2. c \in Sent /\ c.kind \in T /\ Num(c) = heard + 1
    BY <1>k, <1>l, <2>1
  <2> HIDE DEF c
  <2>3. C' = Append(C, c) /\ c \in Things
    BY <1>w, <2>1, <2>2
  <2>4. Came \o Append(C, c) = Append(Came \o C, c)
    <3>1. c \in Things
      BY <2>3
    <3> HIDE DEF C
    <3> QED BY <1>0, <3>1, AppendIs
  <2>5. Users' = Append(Users, c)
    BY <1>0, <1>b, <1>d, <2>1, <2>3, <2>4
  <2>6. Ascends(Append(Users, c), heard + 1)
    BY <1>0, <1>a, <2>2, <2>3, AscendsMore
  <2> QED BY <2>1, <2>5, <2>6 DEF UsersOK
<1>4. CASE TranscriptionFails
  <2>1. UNCHANGED <<out, wire, respCh, queue, emitCh>> /\ heard' = heard + 1
    BY <1>4 DEF TranscriptionFails, pumpVars, reorderVars
  <2>2. Users' = Users
    BY <1>0, <1>b, <1>d, <1>e, <2>1
  <2>3. Ascends(Users, heard + 1)
    BY <1>0, <1>a, AscendsUp
  <2> QED BY <2>1, <2>2, <2>3 DEF UsersOK
<1>5. CASE Pumps
  <2>1. UNCHANGED <<out, wire, heard>>
    BY <1>5 DEF Pumps, reorderVars, sessionVars
  <2>2. C' = C
    <3>1. CASE PumpReceives \/ PumpForwards
      BY <1>0, <3>1, MoveCarried
    <3>2. CASE PumpDrops
      <4>1. T \in SUBSET (Kinds \ {"audio"})
        BY DEF Kinds
      <4> QED BY <1>0, <3>2, <4>1, DropCarried DEF Picks
    <3>3. CASE PumpEnds
      BY <1>e, <3>3 DEF PumpEnds
    <3> QED BY <1>5, <3>1, <3>2, <3>3 DEF Pumps, PumpStep
  <2> QED BY <1>c, <1>d, <2>1, <2>2
<1>6. CASE MicrophoneAudio
  <2>1. UNCHANGED <<out, wire, respCh, queue, emitCh, heard>>
    BY <1>6 DEF MicrophoneAudio, pumpVars, reorderVars, sessionVars
  <2> QED BY <1>c, <1>d, <1>e, <2>1
<1>7. CASE HandleResponseChunk
  <2>1. PICK c \in Sent, e \in Forwarded :
            Response(c) /\ Becomes(c, e) /\ ForwardsElement(e) /\ UNCHANGED <<emitCh, queue>>
    BY <1>7, ChunkBecomes
  <2>2. out' = out /\ heard' = heard
    BY <1>7 DEF HandleResponseChunk, ReorderIdle, sessionVars
  <2>3. wire' = Append(wire, e)
    BY <1>0, <2>1, Forwards
  <2>4. Carried = <<c>> \o Carried' /\ Carried' \in Seq(Sent)
    BY <1>0, <2>1, TakeCarried
  <2>5. c \in Things /\ e \in Things /\ Sent \subseteq Things
    <3>1. {"text", "audio", "end", "transcript", "error"} \in SUBSET Kinds
      BY DEF Kinds
    <3> QED BY <3>1, ShownAre, KindsAreThings DEF Sent
  <2>6. wire \in Seq(Things) /\ Carried' \in Seq(Things) /\ <<c>> \in Seq(Things) /\ <<e>> \in Seq(Things)
    BY <1>0, <2>4, <2>5, LinesAreThings
  <2> DEFINE O == Picks(out, {"user"})
             W == Picks(wire, {"user"})
             D == C'
             p == Carried'
             o == <<c>>
             f == <<e>>
  <2>7. O \in Seq(Things) /\ W \in Seq(Things) /\ D \in Seq(Things) /\ Came = O \o W /\ Came' = O \o Picks(wire', {"user"})
    <3>1. O \in Seq(Things) /\ W \in Seq(Things)
      BY <1>0, UsersAre
    <3>2. D \in Seq(Things)
      BY <2>6, PicksType
    <3> QED BY <2>2, <3>1, <3>2 DEF Came
  <2>8. C = Picks(o, T) \o D
    <3>1. o \in Seq(Things) /\ p \in Seq(Things)
      BY <2>6
    <3> HIDE DEF o, p
    <3>2. Picks(o \o p, T) = Picks(o, T) \o Picks(p, T)
      BY <3>1, PicksConcat
    <3> QED BY <2>4, <3>2 DEF o, p
  <2>9. Picks(wire', {"user"}) = IF e.kind = "user" THEN Append(W, e) ELSE W
    <3>1. Picks(Append(wire, e), {"user"}) = IF e.kind \in {"user"} THEN Append(W, e) ELSE W
      BY <2>5, <2>6, PicksAppend
    <3> QED BY <2>3, <3>1
  <2>10. CASE c.kind # "transcript"
    <3>1. e = c /\ e.kind # "user"
      BY <2>1, <2>10 DEF Becomes
    <3>2. Picks(o, T) = << >>
      BY <2>5, <2>10, PicksOne
    <3>3. C = D
      <4> HIDE DEF D
      <4>1. << >> \o D = D
        BY <2>7
      <4> QED BY <2>8, <3>2, <4>1
    <3> QED BY <1>c, <2>2, <2>7, <2>9, <3>1, <3>3
  <2>11. CASE c.kind = "transcript"
    <3>1. e.kind \in {"user", "empty"} /\ Num(e) = Num(c)
      BY <2>1, <2>11 DEF Becomes
    <3>2. Picks(o, T) = o
      BY <2>5, <2>11, PicksOne
    <3>3. o \in Seq(Things) /\ f \in Seq(Things) /\ Came \in Seq(Things)
      BY <1>0, <2>6
    <3>4. Users = (Came \o o) \o D
      <4> HIDE DEF D, o
      <4>1. (Came \o o) \o D = Came \o (o \o D)
        BY <2>7, <3>3
      <4> QED BY <1>0, <2>8, <3>2, <4>1
    <3>5. Ascends((Came \o f) \o D, heard) /\ Ascends(Came \o D, heard)
      <4>0. D \in Seq(Things) /\ heard \in Nat
        BY <1>0, <2>7
      <4> HIDE DEF D
      <4>1. Ascends((Came \o <<c>>) \o D, heard)
        BY <1>a, <3>4
      <4> QED BY <2>5, <3>1, <3>3, <4>0, <4>1, AscendsLess
    <3>6. CASE e.kind = "user"
      <4>1. Came' = O \o Append(W, e)
        BY <2>7, <2>9, <3>6
      <4>2. O \o Append(W, e) = (O \o W) \o f
        <5>1. O \in Seq(Things) /\ W \in Seq(Things)
          BY <2>7
        <5> HIDE DEF O, W
        <5>2. O \o Append(W, e) = Append(O \o W, e) /\ Append(O \o W, e) = (O \o W) \o f
          BY <2>5, <5>1
        <5> QED BY <5>2
      <4>3. Users' = (Came \o f) \o D
        BY <1>b, <2>7, <4>1, <4>2
      <4> QED BY <2>2, <3>5, <4>3 DEF UsersOK
    <3>7. CASE e.kind # "user"
      <4>1. Users' = Came \o D
        BY <1>b, <2>7, <2>9, <3>7
      <4> QED BY <2>2, <3>5, <4>1 DEF UsersOK
    <3> QED BY <3>6, <3>7
  <2> QED BY <2>10, <2>11
<1>8. CASE ResponsesEnd
  <2>1. UNCHANGED <<out, respCh, queue, emitCh, heard>>
    BY <1>8 DEF ResponsesEnd, ReorderIdle, pumpVars, sessionVars
  <2>2. Came' = Came
    <3>1. CASE hasContent
      <4> DEFINE e == Chunk("end", responses)
      <4>1. wire' = Append(wire, e) /\ e.kind = "end" /\ e \in Things /\ wire \in Seq(Things)
        <5>1. e \in Forwarded
          BY <1>0, NumbersFit, InSingles DEF Forwarded
        <5>2. ForwardsElement(e)
          BY <1>8, <3>1 DEF ResponsesEnd
        <5> QED BY <1>0, <1>l, <5>1, <5>2, ShownAre, LinesAreThings DEF ForwardsElement
      <4> HIDE DEF e
      <4>2. Picks(Append(wire, e), {"user"}) = IF e.kind \in {"user"} THEN Append(Picks(wire, {"user"}), e) ELSE Picks(wire, {"user"})
        BY <4>1, PicksAppend
      <4> QED BY <2>1, <4>1, <4>2 DEF Came
    <3>2. CASE ~hasContent
      BY <1>8, <1>d, <2>1, <3>2 DEF ResponsesEnd
    <3> QED BY <3>1, <3>2
  <2> QED BY <1>c, <1>e, <2>1, <2>2
<1>9. CASE ReorderStep
  <2>1. UNCHANGED <<respCh, queue, emitCh, heard>>
    BY <1>9 DEF ReorderStep, Reorders, pumpVars, sessionVars
  <2>2. Came' = Came
    BY <1>9, ReorderUsers
  <2> QED BY <1>c, <1>e, <2>1, <2>2
<1> QED BY <1>1, <1>2, <1>3, <1>4, <1>5, <1>6, <1>7, <1>8, <1>9 DEF VoiceNext, Receives, ReorderStep

-----------------------------------------------------------------------------
(* Placeholders.                                                           *)

EndsBehind(i) == \E k \in DOMAIN out : i <= k /\ out[k].kind = "end"

LEMMA AloneGrows ==
    ASSUME out \in Seq(Things), NEW x \in Seq(Things), out' = out \o x, PlaceholderStandsAlone,
           \A n \in DOMAIN x : x[n].kind \in {"user", "placeholder"} => n = 1,
           \A n \in DOMAIN x : x[n].kind = "user" =>
               \A i \in DOMAIN out : out[i].kind = "placeholder" => EndsBehind(i),
           \A n \in DOMAIN x : x[n].kind = "placeholder" =>
               \A i \in DOMAIN out : out[i].kind \in {"user", "placeholder"} => EndsBehind(i)
    PROVE  PlaceholderStandsAlone'
<1> DEFINE w == out'
           L == Len(out)
<1>1. /\ L \in Nat /\ DOMAIN out = 1 .. L /\ DOMAIN w = 1 .. (L + Len(x)) /\ Len(x) \in Nat /\ DOMAIN x = 1 .. Len(x)
      /\ \A i \in 1 .. L : w[i] = out[i]
      /\ \A n \in 1 .. Len(x) : w[L + n] = x[n]
  OBVIOUS
<1> HIDE DEF w, L
<1> SUFFICES ASSUME NEW i \in DOMAIN w, NEW j \in DOMAIN w, i < j,
                    ~\E k \in i .. j - 1 : w[k].kind = "end"
             PROVE  /\ {w[i].kind, w[j].kind} # {"user", "placeholder"}
                    /\ ~(w[i].kind = "placeholder" /\ w[j].kind = "placeholder")
  BY DEF PlaceholderStandsAlone, SameTurn, w
<1>2. CASE j \in 1 .. L
  <2>1. i \in DOMAIN out /\ j \in DOMAIN out /\ w[i] = out[i] /\ w[j] = out[j]
    BY <1>1, <1>2
  <2>2. SameTurn(i, j)
    <3> SUFFICES ASSUME NEW k \in i .. j - 1, out[k].kind = "end" PROVE FALSE
      BY DEF SameTurn
    <3>1. w[k] = out[k]
      BY <1>1, <1>2
    <3> QED BY <3>1
  <2> QED BY <2>1, <2>2 DEF PlaceholderStandsAlone
<1>3. CASE j \notin 1 .. L
  <2>1. j - L \in DOMAIN x /\ w[j] = x[j - L]
    <3>1. j - L \in 1 .. Len(x) /\ j = L + (j - L)
      BY <1>1, <1>3
    <3> QED BY <1>1, <3>1
  <2>2. CASE i \in 1 .. L
    <3>1. ~EndsBehind(i)
      <4> SUFFICES ASSUME NEW k \in DOMAIN out, i <= k, out[k].kind = "end" PROVE FALSE
        BY DEF EndsBehind
      <4>1. k \in i .. j - 1 /\ w[k] = out[k]
        BY <1>1, <1>3, <2>2
      <4> QED BY <4>1
    <3>2. i \in DOMAIN out /\ w[i] = out[i]
      BY <1>1, <2>2
    <3> QED BY <2>1, <3>1, <3>2
  <2>3. CASE i \notin 1 .. L
    <3>1. i - L \in DOMAIN x /\ w[i] = x[i - L] /\ j - L # 1
      <4>1. i - L \in 1 .. Len(x) /\ i = L + (i - L) /\ j - L # 1
        BY <1>1, <2>3
      <4> QED BY <1>1, <4>1
    <3>2. w[j].kind \notin {"user", "placeholder"}
      BY <2>1, <3>1
    <3> QED BY <3>2
  <2> QED BY <2>2, <2>3
<1> QED BY <1>2, <1>3

\* What is sent when a turn is resolved: its head, the text, the turn-end.
LEMMA SentTurn ==
    ASSUME LinesOK, NEW p \in Seq(Things), Len(p) <= 1
    PROVE  LET x == (p \o buffered) \o pendingEnd
           IN  /\ x \in Seq(Things)
               /\ \A n \in DOMAIN x : \/ n = 1 /\ p # << >> /\ x[n] = p[1]
                                      \/ \E i \in DOMAIN buffered : x[n] = buffered[i] /\ x[n].kind = "text"
                                      \/ \E i \in DOMAIN pendingEnd : x[n] = pendingEnd[i] /\ x[n].kind = "end"
               /\ pendingEnd # << >> => x # << >> /\ x[Len(x)].kind = "end"
<1>1. buffered \in Seq(Things) /\ pendingEnd \in Seq(Things) /\ Len(pendingEnd) <= 1
  BY LinesAreThings DEF LinesOK
<1>2. \A i \in DOMAIN buffered : buffered[i].kind = "text"
  <2> TAKE i \in DOMAIN buffered
  <2>1. buffered[i] \in Singles({"text"})
    BY DEF LinesOK
  <2> QED BY <2>1, SingleIs
<1>3. \A i \in DOMAIN pendingEnd : pendingEnd[i].kind = "end"
  <2> TAKE i \in DOMAIN pendingEnd
  <2>1. pendingEnd[i] \in Singles({"end"})
    BY DEF LinesOK
  <2> QED BY <2>1, SingleIs
<1> DEFINE x == (p \o buffered) \o pendingEnd
           P == Len(p)
           B == Len(buffered)
           E == Len(pendingEnd)
<1>4. /\ P \in Nat /\ P <= 1 /\ B \in Nat /\ E \in Nat /\ DOMAIN x = 1 .. (P + B + E) /\ Len(x) = P + B + E
      /\ x \in Seq(Things) /\ DOMAIN p = 1 .. P /\ DOMAIN buffered = 1 .. B /\ DOMAIN pendingEnd = 1 .. E
      /\ (p # << >> <=> P # 0) /\ (pendingEnd # << >> <=> E # 0) /\ (x # << >> <=> P + B + E # 0)
  BY <1>1
<1>5. /\ \A n \in 1 .. P : x[n] = p[n]
      /\ \A n \in 1 .. B : x[P + n] = buffered[n]
      /\ \A n \in 1 .. E : x[P + B + n] = pendingEnd[n]
  BY <1>1
<1> HIDE DEF x, P, B, E
<1>6. ASSUME NEW n \in DOMAIN x
      PROVE  \/ n = 1 /\ p # << >> /\ x[n] = p[1]
             \/ \E i \in DOMAIN buffered : x[n] = buffered[i] /\ x[n].kind = "text"
             \/ \E i \in DOMAIN pendingEnd : x[n] = pendingEnd[i] /\ x[n].kind = "end"
  <2>1. CASE n <= P
    BY <1>4, <1>5, <2>1
  <2>2. CASE P < n /\ n <= P + B
    <3>1. n - P \in 1 .. B /\ n = P + (n - P)
      BY <1>4, <2>2
    <3>2. x[n] = buffered[n - P] /\ n - P \in DOMAIN buffered
      BY <1>4, <1>5, <3>1
    <3> QED BY <1>2, <3>2
  <2>3. CASE P + B < n
    <3>1. n - (P + B) \in 1 .. E /\ n = P + B + (n - (P + B))
      BY <1>4, <2>3
    <3>2. x[n] = pendingEnd[n - (P + B)] /\ n - (P + B) \in DOMAIN pendingEnd
      BY <1>4, <1>5, <3>1
    <3> QED BY <1>3, <3>2
  <2> QED BY <1>4, <2>1, <2>2, <2>3
<1>7. pendingEnd # << >> => x # << >> /\ x[Len(x)].kind = "end"
  <2> SUFFICES ASSUME pendingEnd # << >> PROVE x # << >> /\ x[Len(x)].kind = "end"
    OBVIOUS
  <2>1. E \in 1 .. E /\ P + B + E # 0
    BY <1>4
  <2>2. x[Len(x)] = pendingEnd[E] /\ E \in DOMAIN pendingEnd
    BY <1>4, <1>5, <2>1
  <2> QED BY <1>3, <1>4, <2>1, <2>2
<1> QED BY <1>4, <1>6, <1>7 DEF x

LEMMA EndsStay ==
    ASSUME out \in Seq(Things), NEW x \in Seq(Things), out' = out \o x
    PROVE  /\ DOMAIN out \subseteq DOMAIN out' /\ \A i \in DOMAIN out : out'[i] = out[i]
           /\ \A i \in DOMAIN out : EndsBehind(i) => EndsBehind(i)'
           /\ x # << >> /\ x[Len(x)].kind = "end" => \A i \in DOMAIN out' : EndsBehind(i)'
<1>1. DOMAIN out \subseteq DOMAIN out' /\ \A i \in DOMAIN out : out'[i] = out[i]
  OBVIOUS
<1>2. \A i \in DOMAIN out : EndsBehind(i) => EndsBehind(i)'
  BY <1>1 DEF EndsBehind
<1>3. ASSUME x # << >>, x[Len(x)].kind = "end" PROVE \A i \in DOMAIN out' : EndsBehind(i)'
  <2>1. /\ Len(out) + Len(x) \in DOMAIN out' /\ out'[Len(out) + Len(x)] = x[Len(x)]
        /\ \A i \in DOMAIN out' : i <= Len(out) + Len(x)
    BY <1>3
  <2> QED BY <1>3, <2>1 DEF EndsBehind
<1> QED BY <1>1, <1>2, <1>3

LEMMA PlaceholdersNext ==
    ASSUME Base, PlaceholdersOK, VoiceNext
    PROVE  PlaceholdersOK'
<1>0. LinesOK /\ out \in Seq(Things) /\ PlaceholderStandsAlone
  BY LinesAreThings DEF Base, PlaceholdersOK
<1>a. reordering = "running" =>
          \A i \in DOMAIN out :
              out[i].kind = "placeholder" \/ (~userEmitted /\ out[i].kind = "user") => EndsBehind(i)
  BY DEF PlaceholdersOK, EndsBehind
<1>b. ASSUME PlaceholderStandsAlone',
             reordering' = "running" =>
                 \A i \in DOMAIN out' :
                     out'[i].kind = "placeholder" \/ (~userEmitted' /\ out'[i].kind = "user") => EndsBehind(i)'
      PROVE  PlaceholdersOK'
  BY <1>b DEF PlaceholdersOK, EndsBehind
<1>c. ASSUME UNCHANGED out, UNCHANGED userEmitted, reordering' \in {reordering, "done"} PROVE PlaceholdersOK'
  <2>1. PlaceholderStandsAlone'
    BY <1>0, <1>c DEF PlaceholderStandsAlone, SameTurn
  <2>2. reordering' = "running" => reordering = "running"
    BY <1>c
  <2>3. \A i : EndsBehind(i)' <=> EndsBehind(i)
    BY <1>c DEF EndsBehind
  <2> QED BY <1>a, <1>b, <1>c, <2>1, <2>2, <2>3
<1>d. ASSUME NEW e \in Things, out' = Append(out, e), e.kind \notin {"user", "placeholder"}, reordering = "running",
             e.kind = "end" \/ (~userEmitted' => ~userEmitted)
      PROVE  PlaceholdersOK'
  <2> DEFINE x == <<e>>
  <2>1. x \in Seq(Things) /\ x # << >> /\ x[Len(x)] = e /\ \A n \in DOMAIN x : x[n] = e
    OBVIOUS
  <2>2. out' = out \o x
    BY <1>0, <1>d
  <2>d. DOMAIN out' = DOMAIN out \cup {Len(out) + 1} /\ out'[Len(out) + 1] = e
    BY <1>0, <1>d
  <2> HIDE DEF x
  <2>3. PlaceholderStandsAlone'
    BY <1>0, <1>d, <2>1, <2>2, AloneGrows
  <2>4. /\ DOMAIN out \subseteq DOMAIN out' /\ \A i \in DOMAIN out : out'[i] = out[i]
        /\ \A i \in DOMAIN out : EndsBehind(i) => EndsBehind(i)'
        /\ e.kind = "end" => \A i \in DOMAIN out' : EndsBehind(i)'
    BY <1>0, <2>1, <2>2, EndsStay
  <2> QED BY <1>a, <1>b, <1>d, <2>d, <2>3, <2>4
<1>e. ASSUME NEW p \in Seq(Things), Len(p) <= 1, out' = ((out \o p) \o buffered) \o pendingEnd,
             reordering = "running", ~userEmitted' /\ reordering' = "running" => pendingEnd # << >>,
             p # << >> => p[1].kind = "user" \/ (p[1].kind = "placeholder" /\ ~userEmitted),
             reordering' = "running" /\ p # << >> /\ p[1].kind = "placeholder" => pendingEnd # << >>
      PROVE  PlaceholdersOK'
  <2> DEFINE x == (p \o buffered) \o pendingEnd
  <2>1. /\ x \in Seq(Things)
        /\ \A n \in DOMAIN x : \/ n = 1 /\ p # << >> /\ x[n] = p[1]
                               \/ \E i \in DOMAIN buffered : x[n] = buffered[i] /\ x[n].kind = "text"
                               \/ \E i \in DOMAIN pendingEnd : x[n] = pendingEnd[i] /\ x[n].kind = "end"
        /\ pendingEnd # << >> => x # << >> /\ x[Len(x)].kind = "end"
    BY <1>0, <1>e, SentTurn
  <2>2. out' = out \o x
    BY <1>0, <1>e, JoinOut
  <2> HIDE DEF x
  <2>3. \A n \in DOMAIN x : x[n].kind \in {"user", "placeholder"} => n = 1 /\ p # << >> /\ x[n] = p[1]
    BY <2>1
  <2>4. PlaceholderStandsAlone'
    <3>1. \A n \in DOMAIN x : x[n].kind = "user" =>
              \A i \in DOMAIN out : out[i].kind = "placeholder" => EndsBehind(i)
      BY <1>a, <1>e
    <3>2. \A n \in DOMAIN x : x[n].kind = "placeholder" =>
              \A i \in DOMAIN out : out[i].kind \in {"user", "placeholder"} => EndsBehind(i)
      BY <1>a, <1>e, <2>3
    <3> QED BY <1>0, <2>1, <2>2, <2>3, <3>1, <3>2, AloneGrows
  <2>5. /\ \A i \in DOMAIN out : out'[i] = out[i]
        /\ \A i \in DOMAIN out : EndsBehind(i) => EndsBehind(i)'
        /\ pendingEnd # << >> => \A i \in DOMAIN out' : EndsBehind(i)'
    BY <1>0, <2>1, <2>2, EndsStay
  <2>6. \A i \in DOMAIN out' : i \in DOMAIN out \/ \E n \in DOMAIN x : out'[i] = x[n]
    <3> TAKE i \in DOMAIN out'
    <3>1. i \in DOMAIN out \/ (i - Len(out) \in DOMAIN x /\ out'[i] = x[i - Len(out)])
      BY <1>0, <2>1, <2>2
    <3> QED BY <3>1
  <2>7. ASSUME reordering' = "running", NEW i \in DOMAIN out',
               out'[i].kind = "placeholder" \/ (~userEmitted' /\ out'[i].kind = "user")
        PROVE  EndsBehind(i)'
    <3>1. CASE pendingEnd # << >>
      BY <2>5, <3>1
    <3>2. CASE pendingEnd = << >>
      <4>1. userEmitted' /\ out'[i].kind = "placeholder"
        BY <1>e, <2>7, <3>2
      <4>2. i \in DOMAIN out
        BY <1>e, <2>3, <2>6, <2>7, <3>2, <4>1
      <4> QED BY <1>a, <1>e, <2>5, <4>1, <4>2
    <3> QED BY <3>1, <3>2
  <2> QED BY <1>b, <2>4, <2>7
<1>1. CASE Receives \/ Pumps \/ MicrophoneAudio \/ HandleResponseChunk \/ ResponsesEnd
  <2>1. UNCHANGED <<out, userEmitted, reordering>>
    BY <1>1 DEF Receives, SpeechStarted, ResponseCreated, HandleTranscriptDelta, HandleAudioDelta,
                HandleResponseDone, HandleInputTranscription, TranscriptionFails, HandleError, Disconnects, Pumps, MicrophoneAudio,
                HandleResponseChunk, ResponsesEnd, ReorderIdle, reorderVars
  <2> QED BY <1>c, <2>1
<1>2. CASE ReorderStep
  <2>1. \/ \E h \in Forwarded : \/ ReadsUser(h) \/ Passes(h) \/ Holds(h) \/ Buffers(h) \/ ReadsText(h)
                                \/ ReadsOther(h)
        \/ GivesUp \/ Stops
    BY <1>2, ReorderShapes
  <2>2. CASE Stops
    BY <1>c, <2>2 DEF Stops
  <2>r. ASSUME NEW p, Resolves(p), reordering = "running", reordering' = "running" => pendingEnd # << >>
        PROVE  PlaceholdersOK'
    <3>1. p \in Seq(Things) /\ Len(p) <= 1
      BY <2>r, NoWords DEF Resolves
    <3>2. p # << >> => p[1].kind = "placeholder" /\ ~userEmitted
      <4> SUFFICES ASSUME p # << >> PROVE p[1].kind = "placeholder" /\ ~userEmitted
        OBVIOUS
      <4>1. p[1] \in Of({"placeholder"})
        BY <2>r DEF Resolves
      <4> QED BY <2>r, <4>1 DEF Of, Resolves
    <3>3. out' = ((out \o p) \o buffered) \o pendingEnd
      BY <2>r DEF Resolves
    <3> QED BY <1>e, <2>r, <3>1, <3>2, <3>3
  <2>3. CASE GivesUp
    BY <2>3, <2>r DEF GivesUp
  <2>4. CASE \E h \in Forwarded : ReadsText(h)
    BY <2>4, <2>r DEF ReadsText, Reads
  <2>5. CASE \E h \in Forwarded : Holds(h) \/ Buffers(h)
    BY <1>c, <2>5 DEF Holds, Buffers, Reads
  <2>6. CASE \E h \in Forwarded : Passes(h)
    <3>1. PICK h \in Forwarded : Passes(h)
      BY <2>6
    <3>2. /\ h \in Things /\ out' = Append(out, h) /\ h.kind \notin {"user", "placeholder"} /\ reordering = "running"
          /\ h.kind = "end" \/ (~userEmitted' => ~userEmitted)
      BY <3>1, ShownAre DEF Passes, Reads
    <3> QED BY <1>d, <3>2
  <2>7. CASE \E h \in Forwarded : ReadsOther(h)
    <3>1. PICK h \in Forwarded : ReadsOther(h)
      BY <2>7
    <3>2. CASE h.kind = "error"
      <4>1. /\ h \in Things /\ out' = Append(out, h) /\ h.kind \notin {"user", "placeholder"} /\ reordering = "running"
            /\ (~userEmitted' => ~userEmitted)
        BY <3>1, <3>2, ShownAre DEF ReadsOther, Reads
      <4> QED BY <1>d, <4>1
    <3>3. CASE h.kind # "error"
      BY <1>c, <3>1, <3>3 DEF ReadsOther, Reads
    <3> QED BY <3>2, <3>3
  <2>8. CASE \E h \in Forwarded : ReadsUser(h)
    <3>1. PICK h \in Forwarded : ReadsUser(h)
      BY <2>8
    <3> DEFINE p == <<h>>
    <3>2. p \in Seq(Things) /\ Len(p) <= 1 /\ p[1] = h
      BY ShownAre
    <3>3. /\ out' = ((out \o p) \o buffered) \o pendingEnd /\ reordering = "running" /\ h.kind = "user"
          /\ (~userEmitted' => pendingEnd # << >>)
      BY <3>1 DEF ReadsUser, Reads
    <3> HIDE DEF p
    <3> QED BY <1>e, <3>2, <3>3
  <2> QED BY <2>1, <2>2, <2>3, <2>4, <2>5, <2>6, <2>7, <2>8
<1> QED BY <1>1, <1>2 DEF VoiceNext, ReorderStep

-----------------------------------------------------------------------------
(* The words of the user and the answer to them.                           *)

\* While no turn-end gave way, the next word is of the turn that is told.
LEMMA HeadFits ==
    ASSUME Base, SaidOK, WordsArrive, replaced = << >>, NEW h \in Things, NEW b \in Seq(Things), Behind = <<h>> \o b
    PROVE  Num(h) = Turn(Ahead)
<1>1. LinesOK /\ Ahead \in Seq(Things) /\ said \in Seq(Things) /\ Chain(said)
  BY LineIs, LinesAreThings DEF Base, SaidOK
<1>2. Ahead \o Behind = Left
  BY LineIs DEF Base
<1>3. Left = said
  <2>1. \A i \in DOMAIN said : said[i] \in Things \ ToSet(replaced)
    BY <1>1 DEF ToSet
  <2> QED BY <1>1, <2>1, FilterAll DEF Left
<1> DEFINE a == Ahead
           s == a \o (<<h>> \o b)
           L == Len(a)
<1>4. s = said
  BY <1>2, <1>3
<1>5. a \in Seq(Things)
  BY <1>1
<1> HIDE DEF a
<1>6. /\ L \in Nat /\ L + 1 \in DOMAIN s /\ s[L + 1] = h /\ (L # 0 => s[L] = a[L]) /\ (a = << >> <=> L = 0)
  BY <1>5
<1> HIDE DEF s
<1>7. Num(s[L + 1]) = IF L + 1 = 1 THEN 1 ELSE Follow(s[(L + 1) - 1])
  BY <1>1, <1>4, <1>6 DEF Chain
<1>8. (L + 1) - 1 = L /\ (L + 1 = 1 <=> L = 0)
  BY <1>6
<1> HIDE DEF L
<1>9. Num(h) = Turn(a)
  BY <1>6, <1>7, <1>8 DEF Turn, L
<1> QED BY <1>9 DEF a

\* While no turn-end is held, that is the turn of what was sent.
LEMMA AheadTurn ==
    ASSUME LinesOK, pendingEnd = << >>, \A i \in DOMAIN buffered : Num(buffered[i]) = Now
    PROVE  Turn(Ahead) = Now
<1> DEFINE w == Words(out)
<1>1. w \in Seq(Things) /\ buffered \in Seq(Things)
  BY LinesAreThings, WordsOf
<1>2. Ahead = (w \o buffered) \o << >>
  BY DEF Ahead
<1>3. Now = Turn(w)
  BY DEF Now
<1> HIDE DEF w
<1>4. w \o buffered \in Seq(Things)
  BY <1>1
<1> DEFINE a == w \o buffered
<1>5. Ahead = a
  <2>1. a \in Seq(Things)
    BY <1>4
  <2> HIDE DEF a
  <2>2. a \o << >> = a
    BY <2>1
  <2> QED BY <1>2, <2>2 DEF a
<1>6. CASE buffered = << >>
  <2>1. w \o << >> = w
    BY <1>1
  <2> QED BY <1>3, <1>5, <1>6, <2>1
<1>7. CASE buffered # << >>
  <2>1. a # << >> /\ a[Len(a)] = buffered[Len(buffered)] /\ Len(buffered) \in DOMAIN buffered
    BY <1>1, <1>7
  <2>2. buffered[Len(buffered)].kind = "text" /\ Num(buffered[Len(buffered)]) = Now
    <3>1. buffered[Len(buffered)] \in Singles({"text"})
      BY <2>1 DEF LinesOK
    <3> QED BY <2>1, <3>1, SingleIs
  <2> HIDE DEF a
  <2>3. Turn(a) = Now
    BY <2>1, <2>2 DEF Turn, Follow
  <2> QED BY <1>5, <2>3
<1> QED BY <1>6, <1>7

\* The user's turns in what was sent are in order.
LEMMA OutAscends ==
    ASSUME LinesOK, UsersOK
    PROVE  /\ \A i \in DOMAIN out : out[i].kind = "user" => Num(out[i]) \in Nat
           /\ \A i, j \in DOMAIN out : i < j /\ out[i].kind = "user" /\ out[j].kind = "user" => Num(out[i]) < Num(out[j])
           /\ \A i \in DOMAIN out, n \in DOMAIN wire :
                 out[i].kind = "user" /\ wire[n].kind = "user" => Num(out[i]) < Num(wire[n])
           /\ \A n \in DOMAIN wire : wire[n].kind = "user" => Num(wire[n]) \in Nat /\ Num(wire[n]) >= 1
<1> DEFINE U == Of({"user"})
           O == Filter(out, U)
           W == Filter(wire, U)
           C == Picks(Carried, {"transcript"})
           s == (O \o W) \o C
<1>1. out \in Seq(Things) /\ wire \in Seq(Things) /\ O \in Seq(Things) /\ W \in Seq(Things) /\ C \in Seq(Things)
  BY UsersAre, LinesAreThings DEF Picks
<1>2. Users = s
  BY DEF Users, Picks
<1>3. /\ \A i \in DOMAIN out : out[i] \in U <=> out[i].kind = "user"
      /\ \A i \in DOMAIN wire : wire[i] \in U <=> wire[i].kind = "user"
  <2>1. \A e \in Things : e \in U <=> e.kind \in {"user"}
    BY OfKinds
  <2> QED BY <1>1, <2>1
<1>4. /\ \A i, j \in DOMAIN s : i < j => Num(s[i]) < Num(s[j])
      /\ \A i \in DOMAIN s : Num(s[i]) \in 1 .. heard
  BY <1>2 DEF UsersOK, Ascends
<1> HIDE DEF U
<1>5. /\ \A i \in DOMAIN out : out[i] \in U => \E n \in DOMAIN O : O[n] = out[i]
      /\ \A i, j \in DOMAIN out : i < j /\ out[i] \in U /\ out[j] \in U =>
            \E m, n \in DOMAIN O : m < n /\ O[m] = out[i] /\ O[n] = out[j]
  BY <1>1, FilterOrder
<1>6. \A i \in DOMAIN wire : wire[i] \in U => \E n \in DOMAIN W : W[n] = wire[i]
  BY <1>1, FilterOrder
<1> HIDE DEF O, W, C
<1>7. /\ \A m \in DOMAIN O : m \in DOMAIN s /\ s[m] = O[m] /\ m <= Len(O) /\ m \in Nat /\ Len(O) \in Nat
      /\ \A m \in DOMAIN W : Len(O) + m \in DOMAIN s /\ s[Len(O) + m] = W[m] /\ m \in Nat /\ m >= 1
  BY <1>1
<1> HIDE DEF s
<1>8. \A m \in DOMAIN O, n \in DOMAIN W : Num(O[m]) < Num(W[n])
  <2> TAKE m \in DOMAIN O, n \in DOMAIN W
  <2>1. m < Len(O) + n
    BY <1>7
  <2> QED BY <1>4, <1>7, <2>1
<1>9. \A m \in DOMAIN O : Num(O[m]) \in Nat
  BY <1>4, <1>7
<1>10. \A m \in DOMAIN W : Num(W[m]) \in Nat /\ Num(W[m]) >= 1
  BY <1>4, <1>7
<1>11. \A m, n \in DOMAIN O : m < n => Num(O[m]) < Num(O[n])
  BY <1>4, <1>7
<1> QED BY <1>3, <1>5, <1>6, <1>8, <1>9, <1>10, <1>11

LEMMA NowIs ==
    ASSUME LinesOK
    PROVE  /\ \A i \in DOMAIN out : out[i].kind \in {"text", "end"} =>
                  Num(out[i]) \in Nat /\ Follow(out[i]) \in Nat /\ Follow(out[i]) <= Num(out[i]) + 1
           /\ Now = 1 \/ \E i \in DOMAIN out : out[i].kind \in {"text", "end"} /\ Now = Follow(out[i])
<1>1. \A i \in DOMAIN out : out[i].kind \in {"text", "end"} => Num(out[i]) \in Nat /\ Follow(out[i]) \in Nat
                                                              /\ Follow(out[i]) <= Num(out[i]) + 1
  <2> SUFFICES ASSUME NEW i \in DOMAIN out, out[i].kind \in {"text", "end"} 
               PROVE  Num(out[i]) \in Nat /\ Follow(out[i]) \in Nat /\ Follow(out[i]) <= Num(out[i]) + 1
    OBVIOUS
  <2>1. out[i] \in Shown
    BY DEF LinesOK
  <2>2. out[i] \notin Of({"placeholder"})
    BY DEF Of
  <2>3. out[i] \in Singles({"text", "end", "user", "error"})
    BY <2>1, <2>2 DEF Shown
  <2>4. Num(out[i]) \in Nat
    BY <2>3, SingleIs
  <2> QED BY <2>4 DEF Follow
<1>2. CASE Words(out) = << >>
  BY <1>1, <1>2 DEF Now, Turn
<1>3. CASE Words(out) # << >>
  <2> DEFINE w == Words(out)
             S == Of({"text", "end"})
  <2>1. out \in Seq(Things) /\ w \in Seq(Things) /\ w = Filter(out, S)
    BY LinesAreThings, WordsOf DEF Words
  <2>2. Now = Follow(w[Len(w)])
    BY <1>3 DEF Now, Turn
  <2>3. Len(w) \in DOMAIN w
    <3>1. w \in Seq(Things) /\ w # << >>
      BY <1>3, <2>1
    <3> HIDE DEF w
    <3> QED BY <3>1
  <2> HIDE DEF w, S
  <2>4. \E i \in DOMAIN out : out[i] \in S /\ w[Len(w)] = out[i]
    BY <2>1, <2>3, FilterOrder
  <2>5. \A e \in S : e.kind \in {"text", "end"}
    BY DEF S, Of
  <2> QED BY <1>1, <2>2, <2>4, <2>5
<1> QED BY <1>2, <1>3

\* The user's turn that comes next is not behind the answer that waits for it.
LEMMA UserInTime ==
    ASSUME LinesOK, UsersOK, NEW h \in Forwarded, Reads(h), h.kind = "user",
           \A i \in DOMAIN out : out[i].kind \in {"text", "end"} => Answers(out, i - 1, Num(out[i]))
    PROVE  Now \in Nat /\ Num(h) \in Nat /\ Now <= Num(h)
<1>1. 1 \in DOMAIN wire /\ wire[1] = h
  <2> DEFINE v == wire'
  <2>1. v \in Seq(Forwarded) /\ wire = <<h>> \o v
    BY DEF Reads
  <2> HIDE DEF v
  <2> QED BY <2>1
<1>2. /\ \A i \in DOMAIN out : out[i].kind = "user" => Num(out[i]) \in Nat /\ Num(out[i]) < Num(h)
      /\ Num(h) \in Nat /\ Num(h) >= 1
  BY <1>1, OutAscends
<1>3. CASE \E i \in DOMAIN out : out[i].kind \in {"text", "end"} /\ Now = Follow(out[i])
  <2>1. PICK i \in DOMAIN out : out[i].kind \in {"text", "end"} /\ Now = Follow(out[i])
    BY <1>3
  <2>2. PICK j \in 1 .. (i - 1) : out[j].kind = "user" /\ Num(out[i]) <= Num(out[j])
    BY <2>1 DEF Answers
  <2>3. j \in DOMAIN out
    <3>1. out \in Seq(Things)
      BY LinesAreThings
    <3> QED BY <3>1
  <2>4. Num(out[i]) \in Nat /\ Follow(out[i]) \in Nat /\ Follow(out[i]) <= Num(out[i]) + 1
    BY <2>1, NowIs
  <2>5. Num(out[j]) \in Nat /\ Num(out[j]) < Num(h)
    BY <1>2, <2>2, <2>3
  <2> QED BY <1>2, <2>1, <2>2, <2>4, <2>5
<1>4. CASE Now = 1
  BY <1>2, <1>4
<1>5. Now = 1 \/ \E i \in DOMAIN out : out[i].kind \in {"text", "end"} /\ Now = Follow(out[i])
  BY NowIs
<1> QED BY <1>3, <1>4, <1>5

LEMMA AnswersStay ==
    ASSUME out \in Seq(Things), NEW x \in Seq(Things), out' = out \o x
    PROVE  /\ \A n : \A i \in 0 .. Len(out) : Answers(out, i, n) => Answers(out', i, n)
           /\ \A i \in DOMAIN out : i - 1 \in 0 .. Len(out) /\ out'[i] = out[i]
           /\ Len(out) \in Nat /\ DOMAIN out = 1 .. Len(out) /\ DOMAIN out' = 1 .. (Len(out) + Len(x))
           /\ Len(x) \in Nat /\ DOMAIN x = 1 .. Len(x) /\ Len(out)' = Len(out) + Len(x)
           /\ \A n \in DOMAIN x : out'[Len(out) + n] = x[n]
           /\ \A n : \A i, j \in Nat : i <= j /\ Answers(out', i, n) => Answers(out', j, n)
<1>1. /\ Len(out) \in Nat /\ DOMAIN out = 1 .. Len(out) /\ DOMAIN out' = 1 .. (Len(out) + Len(x))
      /\ Len(x) \in Nat /\ DOMAIN x = 1 .. Len(x) /\ Len(out)' = Len(out) + Len(x)
      /\ \A n \in DOMAIN x : out'[Len(out) + n] = x[n]
      /\ \A i \in DOMAIN out : out'[i] = out[i]
  OBVIOUS
<1>2. \A n : \A i \in 0 .. Len(out) : Answers(out, i, n) => Answers(out', i, n)
  <2> SUFFICES ASSUME NEW i \in 0 .. Len(out), NEW n, Answers(out, i, n) PROVE Answers(out', i, n)
    OBVIOUS
  <2>1. PICK j \in 1 .. i : out[j].kind = "user" /\ n <= Num(out[j])
    BY DEF Answers
  <2>2. j \in DOMAIN out
    BY <1>1
  <2> QED BY <1>1, <2>1, <2>2 DEF Answers
<1>3. \A i \in DOMAIN out : i - 1 \in 0 .. Len(out)
  BY <1>1
<1>4. ASSUME NEW i \in Nat, NEW j \in Nat, NEW n, i <= j, Answers(out', i, n) PROVE Answers(out', j, n)
  <2>1. PICK k \in 1 .. i : out'[k].kind = "user" /\ n <= Num(out'[k])
    BY <1>4 DEF Answers
  <2>2. k \in 1 .. j
    BY <1>4
  <2> QED BY <2>1, <2>2 DEF Answers
<1> QED BY <1>1, <1>2, <1>3, <1>4

\* What is sent in the end of a step, by the words in it.
LEMMA CalmSends ==
    ASSUME LinesOK, LinesOK', Calm, CalmOK, NEW x \in Seq(Things), out' = out \o x,
           \A n \in DOMAIN x : x[n].kind \in {"text", "end"} => Answers(out', Len(out) + n - 1, Num(x[n])),
           userEmitted' => Answers(out', Len(out'), Now'),
           \A i \in DOMAIN buffered' : Num(buffered'[i]) = Now',
           \A i \in DOMAIN pendingEnd' : Num(pendingEnd'[i]) = Now'
    PROVE  CalmOK'
<1>1. out \in Seq(Things)
  BY LinesAreThings
<1>2. /\ \A n : \A i \in 0 .. Len(out) : Answers(out, i, n) => Answers(out', i, n)
      /\ \A i \in DOMAIN out : i - 1 \in 0 .. Len(out) /\ out'[i] = out[i]
      /\ Len(out) \in Nat /\ DOMAIN out = 1 .. Len(out) /\ DOMAIN out' = 1 .. (Len(out) + Len(x))
      /\ Len(x) \in Nat /\ DOMAIN x = 1 .. Len(x)
      /\ \A n \in DOMAIN x : out'[Len(out) + n] = x[n]
  BY <1>1, AnswersStay
<1>3. ASSUME NEW i \in DOMAIN out', out'[i].kind \in {"text", "end"} PROVE Answers(out', i - 1, Num(out'[i]))
  <2>1. CASE i <= Len(out)
    <3>1. i \in DOMAIN out
      BY <1>2, <2>1
    <3>2. Answers(out, i - 1, Num(out[i]))
      BY <1>2, <1>3, <3>1 DEF CalmOK, Calm
    <3>3. Answers(out', i - 1, Num(out[i]))
      BY <1>2, <3>1, <3>2
    <3> QED BY <1>2, <3>1, <3>3
  <2>2. CASE ~(i <= Len(out))
    <3>1. i - Len(out) \in DOMAIN x /\ i = Len(out) + (i - Len(out)) /\ Len(out) + (i - Len(out)) - 1 = i - 1
      BY <1>2, <2>2
    <3>2. out'[i] = x[i - Len(out)]
      BY <1>2, <3>1
    <3> QED BY <1>3, <3>1, <3>2
  <2> QED BY <2>1, <2>2
<1> QED BY <1>3 DEF CalmOK, Calm

LEMMA CalmReorders ==
    ASSUME Base, Base', SaidOK, WordsArrive, UsersOK, CalmOK, ReorderStep
    PROVE  CalmOK'
<1>0. /\ LinesOK /\ LinesOK' /\ out \in Seq(Things) /\ buffered \in Seq(Things) /\ pendingEnd \in Seq(Things)
      /\ Words(out) \in Seq(Things)
  <2>1. out \in Seq(Things)
    BY LinesAreThings DEF Base
  <2> QED BY <2>1, WordsOf, LinesAreThings DEF Base
<1>u. UNCHANGED <<emitCh, queue, respCh, said>>
  BY DEF ReorderStep, Reorders, pumpVars, ghostVars
<1>1. \/ \E h \in Forwarded : \/ ReadsUser(h) \/ Passes(h) \/ Holds(h) \/ Buffers(h) \/ ReadsText(h)
                              \/ ReadsOther(h)
      \/ GivesUp \/ Stops
  BY ReorderShapes
<1> SUFFICES ASSUME Calm' PROVE CalmOK'
  BY DEF CalmOK, Calm
<1>2. Calm
  <2>1. guessed => guessed'
    BY <1>1 DEF ReadsUser, Passes, Holds, Buffers, ReadsText, ReadsOther, GivesUp, Stops, Resolves
  <2>2. replaced' = replaced \/ replaced' = replaced \o pendingEnd
    BY <1>1 DEF ReadsUser, Passes, Holds, Buffers, ReadsText, ReadsOther, GivesUp, Stops, Resolves
  <2>3. replaced \in Seq(Things)
    BY <1>0, LinesAreThings
  <2>4. replaced \o pendingEnd = << >> => replaced = << >>
    BY <1>0, <2>3
  <2> QED BY <2>1, <2>2, <2>4 DEF Calm
<1>3. /\ \A i \in DOMAIN buffered : Num(buffered[i]) = Now
      /\ \A i \in DOMAIN pendingEnd : Num(pendingEnd[i]) = Now
      /\ \A i \in DOMAIN out : out[i].kind \in {"text", "end"} => Answers(out, i - 1, Num(out[i]))
      /\ userEmitted => Answers(out, Len(out), Now)
  BY <1>2 DEF CalmOK, Calm
<1>4. ~GivesUp /\ \A h : ~ReadsText(h)
  BY DEF GivesUp, ReadsText, Resolves, Calm
<1>z. DOMAIN << >> = {} /\ << >> \in Seq(Things)
  OBVIOUS
<1>s. ASSUME UNCHANGED <<out, userEmitted>>,
             \A i \in DOMAIN buffered' : Num(buffered'[i]) = Now, \A i \in DOMAIN pendingEnd' : Num(pendingEnd'[i]) = Now
      PROVE  CalmOK'
  <2>1. Now' = Now
    BY <1>s DEF Now
  <2> QED BY <1>3, <1>s, <2>1 DEF CalmOK
\* The next word is of the turn that is told.
<1>f. ASSUME NEW h \in Forwarded, h.kind \in {"text", "end"}, Passes(h) \/ Holds(h) \/ Buffers(h) PROVE Num(h) = Now /\ h \in Things
  <2>1. pendingEnd = << >>
    <3>1. CASE Passes(h) \/ Buffers(h)
      BY <3>1 DEF Passes, Buffers
    <3>2. CASE Holds(h)
      <4>1. replaced \o pendingEnd = << >> /\ replaced \in Seq(Things)
        BY <1>0, <3>2, LinesAreThings DEF Holds, Calm
      <4> QED BY <1>0, <4>1
    <3> QED BY <1>f, <3>1, <3>2
  <2>2. Takes(h) /\ h \in Things
    BY <1>f, <1>u, <2>1, ReorderWords, ShownAre
  <2>3. Behind' \in Seq(Things)
    BY <1>0, LineIsNext
  <2>4. Num(h) = Turn(Ahead)
    <3> DEFINE b == Behind'
    <3>1. b \in Seq(Things) /\ Behind = <<h>> \o b /\ replaced = << >> /\ h \in Things
      BY <1>2, <2>2, <2>3 DEF Takes, Calm
    <3> HIDE DEF b
    <3> QED BY <3>1, HeadFits
  <2>5. Turn(Ahead) = Now
    BY <1>0, <1>3, <2>1, AheadTurn
  <2> QED BY <2>2, <2>4, <2>5
<1>5. CASE \E h \in Forwarded : ReadsUser(h)
  <2>1. PICK h \in Forwarded : ReadsUser(h)
    BY <1>5
  <2>2. /\ Reads(h) /\ h.kind = "user" /\ out' = ((out \o <<h>>) \o buffered) \o pendingEnd
        /\ buffered' = << >> /\ pendingEnd' = << >> /\ userEmitted' = (pendingEnd = << >>)
    BY <2>1 DEF ReadsUser
  <2>3. Now \in Nat /\ Num(h) \in Nat /\ Now <= Num(h)
    BY <1>0, <1>3, <2>2, UserInTime
  <2> DEFINE p == <<h>>
             x == (p \o buffered) \o pendingEnd
  <2>4. p \in Seq(Things) /\ Len(p) <= 1 /\ p[1] = h /\ p # << >>
    BY ShownAre
  <2>5. out' = out \o x
    BY <1>0, <2>2, <2>4, JoinOut
  <2> HIDE DEF p
  <2>6. /\ x \in Seq(Things)
        /\ \A n \in DOMAIN x : \/ n = 1 /\ p # << >> /\ x[n] = p[1]
                               \/ \E i \in DOMAIN buffered : x[n] = buffered[i] /\ x[n].kind = "text"
                               \/ \E i \in DOMAIN pendingEnd : x[n] = pendingEnd[i] /\ x[n].kind = "end"
    BY <1>0, <2>4, SentTurn
  <2>7. 1 \in DOMAIN x /\ x[1] = h
    BY <1>0, <2>4
  <2> HIDE DEF x
  <2>8. /\ Len(out) \in Nat /\ Len(x) \in Nat /\ DOMAIN x = 1 .. Len(x) /\ Len(out)' = Len(out) + Len(x)
        /\ out'[Len(out) + 1] = h
    BY <1>0, <2>5, <2>6, <2>7, AnswersStay
  <2>9. \A i \in Nat : i >= Len(out) + 1 => Answers(out', i, Now)
    <3> TAKE i \in Nat
    <3> HAVE i >= Len(out) + 1
    <3>1. Len(out) + 1 \in 1 .. i
      BY <2>8
    <3> QED BY <2>2, <2>3, <2>8, <3>1 DEF Answers
  <2>10. \A n \in DOMAIN x : x[n].kind \in {"text", "end"} => Answers(out', Len(out) + n - 1, Num(x[n]))
    <3> SUFFICES ASSUME NEW n \in DOMAIN x, x[n].kind \in {"text", "end"} PROVE Answers(out', Len(out) + n - 1, Num(x[n]))
      OBVIOUS
    <3>1. n # 1
      BY <2>2, <2>7
    <3>2. Num(x[n]) = Now
      BY <1>3, <2>6, <3>1
    <3>3. Len(out) + n - 1 \in Nat /\ Len(out) + n - 1 >= Len(out) + 1
      BY <2>8, <3>1
    <3> QED BY <2>9, <3>2, <3>3
  <2>11. userEmitted' => Answers(out', Len(out'), Now')
    <3> SUFFICES ASSUME userEmitted' PROVE Answers(out', Len(out'), Now')
      OBVIOUS
    <3>1. pendingEnd = << >>
      BY <2>2
    <3>2. Turn(Ahead) = Now
      BY <1>0, <1>3, <3>1, AheadTurn
    <3>3. Words(out)' = Ahead
      <4>1. Words(<<h>>) = << >> /\ <<h>> \in Seq(Things)
        BY <2>2, NoWords
      <4>2. Words(((out \o <<h>>) \o buffered) \o pendingEnd) = Ahead
        BY <1>0, <4>1, TellsAhead
      <4> QED BY <2>2, <4>2
    <3>4. Now' = Now
      BY <3>2, <3>3 DEF Now
    <3>5. Len(out') \in Nat /\ Len(out') >= Len(out) + 1
      BY <2>7, <2>8
    <3> QED BY <2>9, <3>4, <3>5
  <2>12. (\A i \in DOMAIN buffered' : Num(buffered'[i]) = Now') /\ (\A i \in DOMAIN pendingEnd' : Num(pendingEnd'[i]) = Now')
    BY <1>z, <2>2
  <2> QED BY <1>0, <1>2, <2>5, <2>6, <2>10, <2>11, <2>12, CalmSends
<1>6. CASE \E h \in Forwarded : Passes(h)
  <2>1. PICK h \in Forwarded : Passes(h)
    BY <1>6
  <2>2. /\ h.kind \in {"text", "end"} /\ out' = Append(out, h) /\ userEmitted /\ buffered' = << >> /\ pendingEnd' = << >>
        /\ userEmitted' = (h.kind = "text")
    BY <2>1 DEF Passes
  <2>3. Num(h) = Now /\ h \in Things
    BY <1>f, <2>1, <2>2
  <2> DEFINE x == <<h>>
  <2>4. x \in Seq(Things) /\ out' = out \o x /\ DOMAIN x = {1} /\ x[1] = h
    BY <1>0, <2>2, <2>3
  <2> HIDE DEF x
  <2>5. /\ \A n : \A i \in 0 .. Len(out) : Answers(out, i, n) => Answers(out', i, n)
        /\ \A n : \A i, j \in Nat : i <= j /\ Answers(out', i, n) => Answers(out', j, n)
        /\ Len(out) \in Nat /\ Len(out)' = Len(out) + Len(x) /\ Len(x) \in Nat
    BY <1>0, <2>4, AnswersStay
  <2>6. Answers(out', Len(out), Now)
    BY <1>3, <2>2, <2>5
  <2>7. \A n \in DOMAIN x : x[n].kind \in {"text", "end"} => Answers(out', Len(out) + n - 1, Num(x[n]))
    <3>1. Len(out) + 1 - 1 = Len(out)
      BY <2>5
    <3> QED BY <2>3, <2>4, <2>6, <3>1
  <2>8. userEmitted' => Answers(out', Len(out'), Now')
    <3> SUFFICES ASSUME userEmitted' PROVE Answers(out', Len(out'), Now')
      OBVIOUS
    <3>1. Now' = Now
      <4> DEFINE w == Words(out)
                 v == Append(w, h)
      <4>1. Words(out)' = v
        <5>1. Words(Append(out, h)) = IF h.kind \in {"text", "end"} THEN Append(Words(out), h) ELSE Words(out)
          BY <1>0, <2>3, WordsOf
        <5> QED BY <2>2, <5>1
      <4>2. v # << >> /\ v[Len(v)] = h
        <5>1. w \in Seq(Things)
          BY <1>0
        <5> HIDE DEF w
        <5> QED BY <2>3, <5>1
      <4> HIDE DEF v
      <4>3. Turn(v) = Now
        BY <2>2, <2>3, <4>2 DEF Turn, Follow
      <4> QED BY <4>1, <4>3 DEF Now
    <3>2. Len(out) <= Len(out') /\ Len(out') \in Nat
      BY <2>5
    <3> QED BY <2>5, <2>6, <3>1, <3>2
  <2>9. (\A i \in DOMAIN buffered' : Num(buffered'[i]) = Now') /\ (\A i \in DOMAIN pendingEnd' : Num(pendingEnd'[i]) = Now')
    BY <1>z, <2>2
  <2> QED BY <1>0, <1>2, <2>4, <2>7, <2>8, <2>9, CalmSends
<1>7. CASE \E h \in Forwarded : Holds(h)
  <2>1. PICK h \in Forwarded : Holds(h)
    BY <1>7
  <2>2. h.kind = "end" /\ pendingEnd' = <<h>> /\ UNCHANGED <<buffered, userEmitted, out>>
    BY <2>1 DEF Holds
  <2>3. Num(h) = Now
    BY <1>f, <2>1, <2>2
  <2>4. \A i \in DOMAIN pendingEnd' : pendingEnd'[i] = h
    BY <2>2
  <2> QED BY <1>3, <1>s, <2>2, <2>3, <2>4
<1>8. CASE \E h \in Forwarded : Buffers(h)
  <2>1. PICK h \in Forwarded : Buffers(h)
    BY <1>8
  <2>2. h.kind = "text" /\ buffered' = Append(buffered, h) /\ UNCHANGED <<pendingEnd, userEmitted, out>>
    BY <2>1 DEF Buffers
  <2>3. Num(h) = Now
    BY <1>f, <2>1, <2>2
  <2>4. \A i \in DOMAIN buffered' : (i \in DOMAIN buffered /\ buffered'[i] = buffered[i]) \/ buffered'[i] = h
    BY <1>0, <2>2
  <2> QED BY <1>3, <1>s, <2>2, <2>3, <2>4
<1>9. CASE \E h \in Forwarded : ReadsOther(h)
  <2>1. PICK h \in Forwarded : ReadsOther(h)
    BY <1>9
  <2>2. h.kind \in {"audio", "empty", "error"} /\ h \in Things /\ UNCHANGED <<buffered, userEmitted, pendingEnd>>
        /\ out' = IF h.kind = "error" THEN Append(out, h) ELSE out
    BY <2>1, ShownAre DEF ReadsOther
  <2>3. CASE out' = out
    BY <1>3, <1>s, <2>2, <2>3
  <2>4. CASE out' = Append(out, h)
    <3> DEFINE x == <<h>>
    <3>0. h \in Things /\ out \in Seq(Things)
      BY <1>0, <2>2
    <3>1. x \in Seq(Things) /\ out' = out \o x /\ DOMAIN x = {1} /\ x[1] = h
      BY <2>4, <3>0
    <3> HIDE DEF x
    <3>2. Now' = Now
      <4>1. Words(Append(out, h)) = Words(out)
        BY <1>0, <2>2, WordsOf
      <4> QED BY <2>4, <4>1 DEF Now
    <3>3. /\ \A n : \A i \in 0 .. Len(out) : Answers(out, i, n) => Answers(out', i, n)
          /\ \A n : \A i, j \in Nat : i <= j /\ Answers(out', i, n) => Answers(out', j, n)
          /\ Len(out) \in Nat /\ Len(out)' = Len(out) + Len(x) /\ Len(x) \in Nat
      BY <1>0, <3>1, AnswersStay
    <3>4. userEmitted' => Answers(out', Len(out'), Now')
      <4>1. Len(out) <= Len(out') /\ Len(out') \in Nat /\ Len(out) \in 0 .. Len(out)
        BY <3>3
      <4>2. userEmitted => Answers(out', Len(out), Now)
        BY <1>3, <3>3, <4>1
      <4> QED BY <2>2, <3>2, <3>3, <4>1, <4>2
    <3>5. \A n \in DOMAIN x : x[n].kind \notin {"text", "end"}
      BY <2>2, <3>1
    <3>6. (\A i \in DOMAIN buffered' : Num(buffered'[i]) = Now') /\ (\A i \in DOMAIN pendingEnd' : Num(pendingEnd'[i]) = Now')
      BY <1>3, <2>2, <3>2
    <3> QED BY <1>0, <1>2, <3>1, <3>4, <3>5, <3>6, CalmSends
  <2> QED BY <2>2, <2>3, <2>4
<1>10. CASE Stops
  BY <1>3, <1>s, <1>10 DEF Stops
<1> QED BY <1>1, <1>4, <1>5, <1>6, <1>7, <1>8, <1>9, <1>10

LEMMA CalmNext ==
    ASSUME Base, Base', SaidOK, WordsArrive, UsersOK, CalmOK, VoiceNext
    PROVE  CalmOK'
<1>1. CASE Receives \/ Pumps \/ MicrophoneAudio \/ HandleResponseChunk \/ ResponsesEnd
  <2>1. UNCHANGED <<buffered, pendingEnd, out, userEmitted, replaced, guessed>>
    BY <1>1 DEF Receives, SpeechStarted, ResponseCreated, HandleTranscriptDelta, HandleAudioDelta,
                HandleResponseDone, HandleInputTranscription, TranscriptionFails, HandleError, Disconnects, Pumps, MicrophoneAudio,
                HandleResponseChunk, ResponsesEnd, ReorderIdle, reorderVars
  <2> QED BY <2>1 DEF CalmOK, Calm, Now
<1>2. CASE ReorderStep
  BY <1>2, CalmReorders
<1> QED BY <1>1, <1>2 DEF VoiceNext, ReorderStep

-----------------------------------------------------------------------------
(* The utterances that are answered.                                       *)

\* Answers to all of m utterances are at least m.
AllAnswered(f, R, m) == \A u \in 1 .. m : \E q \in 1 .. R : f[q] = u

LEMMA EnoughAnswers ==
    ASSUME NEW m \in Nat, NEW R \in Nat, NEW f, AllAnswered(f, R, m)
    PROVE  m <= R
<1>0. \A u \in 1 .. m : \E q \in 1 .. R : f[q] = u
  BY DEF AllAnswered
<1> SUFFICES ASSUME R < m PROVE FALSE
  OBVIOUS
<1> DEFINE g == [u \in 1 .. m |-> CHOOSE q \in 1 .. R : f[q] = u]
<1>1. g \in [1 .. m -> 1 .. R] /\ \A u \in 1 .. m : f[g[u]] = u
  BY <1>0
<1> HIDE DEF g
<1>2. ASSUME NEW n \in Nat PROVE IsFiniteSet(1 .. n) /\ Cardinality(1 .. n) = n
  <2>1. 1 \in Int /\ n \in Int
    OBVIOUS
  <2>2. IsFiniteSet(1 .. n) /\ Cardinality(1 .. n) = IF 1 > n THEN 0 ELSE n - 1 + 1
    BY <2>1, FS_Interval
  <2>3. Cardinality(1 .. n) = n
    BY <2>2
  <2> QED BY <2>2, <2>3
<1>3. \E u, v \in 1 .. m : u # v /\ g[u] = g[v]
  BY <1>1, <1>2, FS_PigeonHole
<1> QED BY <1>1, <1>3

LEMMA OwnersNext ==
    ASSUME Base, OwnersOK, VoiceNext
    PROVE  OwnersOK'
<1>0. /\ spoke \in Nat /\ responses \in Nat /\ owner \in [1 .. MaxResponses -> 0 .. Utterances] /\ MaxResponses \in Nat
      /\ Utterances \in Nat /\ spoke <= Utterances /\ responses <= MaxResponses
  BY NumbersFit, NumberIs DEF Base, FlagsOK
<1>a. /\ \A r \in 1 .. MaxResponses : owner[r] \in IF r <= responses THEN 1 .. spoke ELSE {0}
      /\ Unanswered \/ \A r \in 1 .. responses : owner[r] <= r
  BY DEF OwnersOK
<1>1. CASE SpeechStarted
  <2>1. spoke' = spoke + 1 /\ UNCHANGED <<owner, responses>>
    BY <1>1 DEF SpeechStarted
  <2>2. Unanswered' <=> Unanswered
    BY <2>1 DEF Unanswered
  <2>3. \A r \in 1 .. MaxResponses : owner[r] \in IF r <= responses THEN 1 .. (spoke + 1) ELSE {0}
    BY <1>0, <1>a
  <2> QED BY <1>a, <2>1, <2>2, <2>3 DEF OwnersOK
<1>2. CASE ResponseCreated
  <2> DEFINE R == responses + 1
             f == [owner EXCEPT ![R] = spoke]
  <2>1. responses' = R /\ owner' = f /\ spoke' = spoke /\ spoke > 0 /\ responses < MaxResponses
    BY <1>2 DEF ResponseCreated
  <2>2. /\ R \in 1 .. MaxResponses /\ R \in Nat /\ f[R] = spoke /\ DOMAIN f = 1 .. MaxResponses
        /\ \A r \in 1 .. MaxResponses : r # R => f[r] = owner[r]
    BY <1>0, <2>1
  <2> HIDE DEF f
  <2>3. \A r \in 1 .. MaxResponses : f[r] \in IF r <= R THEN 1 .. spoke ELSE {0}
    <3> TAKE r \in 1 .. MaxResponses
    <3>1. CASE r = R
      BY <1>0, <2>1, <2>2, <3>1
    <3>2. CASE r # R
      <4>1. f[r] = owner[r] /\ (r <= R <=> r <= responses)
        BY <1>0, <2>2, <3>2
      <4> QED BY <1>a, <4>1
    <3> QED BY <3>1, <3>2
  <2>4. ASSUME ~Unanswered' PROVE \A r \in 1 .. R : f[r] <= r
    <3>1. \A r \in 1 .. R : \A u \in 1 .. f[r] - 1 : \E q \in 1 .. MaxResponses : f[q] = u
      BY <2>1, <2>2, <2>4 DEF Unanswered, ToSet
    \* an utterance before the last is not the one that is answered now
    <3>2. \A u \in 1 .. spoke - 1 : \E q \in 1 .. responses : owner[q] = u
      <4> TAKE u \in 1 .. spoke - 1
      <4>1. PICK q \in 1 .. MaxResponses : f[q] = u
        <5>1. R \in 1 .. R /\ u \in 1 .. f[R] - 1
          BY <1>0, <2>2
        <5> QED BY <3>1, <5>1
      <4>2. q # R /\ q <= R
        <5>1. u # spoke /\ u # 0
          BY <1>0
        <5>2. q # R
          BY <2>2, <4>1, <5>1
        <5>3. CASE ~(q <= R)
          <6>1. f[q] \in {0}
            BY <2>3, <5>3
          <6> QED BY <4>1, <5>1, <6>1
        <5> QED BY <5>2, <5>3
      <4>3. q \in 1 .. responses /\ owner[q] = u
        BY <1>0, <2>2, <4>1, <4>2
      <4> QED BY <4>3
    <3>3. spoke - 1 <= responses
      <4> DEFINE m == spoke - 1
      <4>1. m \in Nat
        BY <1>0, <2>1
      <4>2. AllAnswered(owner, responses, m)
        BY <3>2 DEF AllAnswered
      <4> HIDE DEF m
      <4>3. m <= responses
        BY <1>0, <4>1, <4>2, EnoughAnswers
      <4> QED BY <4>3 DEF m
    <3>4. ~Unanswered
      <4> SUFFICES ASSUME NEW r \in 1 .. responses, NEW u \in 1 .. owner[r] - 1, u \notin ToSet(owner) PROVE FALSE
        BY DEF Unanswered
      <4>1. r \in 1 .. MaxResponses /\ owner[r] \in 1 .. spoke
        BY <1>0, <1>a
      <4>2. u \in 1 .. spoke - 1
        BY <1>0, <4>1
      <4>3. PICK q \in 1 .. responses : owner[q] = u
        BY <3>2, <4>2
      <4>4. q \in DOMAIN owner
        BY <1>0
      <4> QED BY <4>3, <4>4 DEF ToSet
    <3> TAKE r \in 1 .. R
    <3>5. CASE r = R
      BY <1>0, <2>2, <3>3, <3>5
    <3>6. CASE r # R
      <4>1. r \in 1 .. responses /\ r \in 1 .. MaxResponses
        BY <1>0, <3>6
      <4> QED BY <1>a, <2>2, <3>4, <3>6, <4>1
    <3> QED BY <3>5, <3>6
  <2> HIDE DEF R
  <2> QED BY <2>1, <2>3, <2>4 DEF OwnersOK
<1>3. CASE ~SpeechStarted /\ ~ResponseCreated
  <2>1. UNCHANGED <<owner, responses, spoke>>
    BY <1>3 DEF VoiceNext, Receives, HandleTranscriptDelta, HandleAudioDelta,
             HandleResponseDone, HandleInputTranscription, TranscriptionFails, HandleError, Disconnects, Pumps, MicrophoneAudio,
             HandleResponseChunk, ResponsesEnd, Reorders, sessionVars
  <2> QED BY <2>1 DEF OwnersOK, Unanswered
<1> QED BY <1>1, <1>2, <1>3

\* Every word that was sent was said.
LEMMA OutWasSaid ==
    ASSUME Base, WordsArrive, NEW i \in DOMAIN out, out[i].kind \in {"text", "end"}
    PROVE  \E k \in DOMAIN said : said[k] = out[i]
<1> DEFINE S == Of({"text", "end"})
           w == Words(out)
           a == Ahead
           b == Behind
           M == Things \ ToSet(replaced)
<1>1. LinesOK /\ out \in Seq(Things) /\ said \in Seq(Things) /\ buffered \in Seq(Things) /\ pendingEnd \in Seq(Things)
  BY LinesAreThings DEF Base
<1>2. w = Filter(out, S) /\ out[i] \in S /\ w \in Seq(Things)
  <2>1. out[i] \in Things
    BY <1>1
  <2>2. out[i] \in S
    BY <2>1, OfKinds
  <2> QED BY <1>1, <2>2, WordsOf DEF Words
<1>3. a \in Seq(Things) /\ b \in Seq(Things) /\ a \o b = Filter(said, M)
  BY <1>1, LineIs DEF Left
<1>4. a = (w \o buffered) \o pendingEnd
  BY DEF Ahead
<1> HIDE DEF S, w
<1>5. PICK n \in DOMAIN w : w[n] = out[i]
  BY <1>1, <1>2, FilterOrder
<1>6. n \in DOMAIN a /\ a[n] = w[n]
  <2> HIDE DEF a
  <2> QED BY <1>1, <1>2, <1>4
<1> HIDE DEF a, b, M
<1>7. n \in DOMAIN (a \o b) /\ (a \o b)[n] = a[n]
  BY <1>3, <1>6
<1>8. n \in DOMAIN Filter(said, M) /\ Filter(said, M)[n] = out[i]
  BY <1>3, <1>5, <1>6, <1>7
<1>9. \E k \in DOMAIN said : said[k] \in M /\ Filter(said, M)[n] = said[k]
  BY <1>1, <1>8, FilterOrder
<1> QED BY <1>8, <1>9

LEMMA BeforeText ==
    ASSUME Base, SaidOK, WordsArrive, UsersOK, CalmOK, OwnersOK
    PROVE  UserBeforeText
<1> SUFFICES ASSUME NEW i \in DOMAIN out, NEW j \in DOMAIN out, out[i].kind = "text", out[j].kind = "user",
                    ~guessed, ~Unanswered, replaced = << >>, NEW r \in out[i].of, owner[r] \in out[j].of
             PROVE  j < i
  BY DEF UserBeforeText
<1>1. LinesOK /\ out \in Seq(Things)
  BY LinesAreThings DEF Base
<1>2. i \in Nat /\ j \in Nat /\ DOMAIN out = 1 .. Len(out) /\ Len(out) \in Nat
  BY <1>1
<1>3. \A k \in DOMAIN out : out[k].kind \in {"text", "user"} => out[k].of = {Num(out[k])} /\ Num(out[k]) \in Nat
  <2> SUFFICES ASSUME NEW k \in DOMAIN out, out[k].kind \in {"text", "user"}
               PROVE  out[k].of = {Num(out[k])} /\ Num(out[k]) \in Nat
    OBVIOUS
  <2>1. out[k] \in Shown
    BY <1>1 DEF LinesOK
  <2>2. out[k] \notin Of({"placeholder"})
    BY DEF Of
  <2>3. out[k] \in Singles({"text", "end", "user", "error"})
    BY <2>1, <2>2 DEF Shown
  <2> QED BY <2>3, SingleIs
<1>4. r = Num(out[i]) /\ r \in Nat /\ Num(out[j]) = owner[r] /\ Num(out[j]) \in Nat
  BY <1>3
<1>5. r \in 1 .. responses
  <2>1. PICK k \in DOMAIN said : said[k] = out[i]
    BY OutWasSaid
  <2> QED BY <1>4, <2>1 DEF SaidOK
<1>6. owner[r] <= r
  BY <1>5 DEF OwnersOK
<1>7. PICK k \in 1 .. (i - 1) : out[k].kind = "user" /\ r <= Num(out[k])
  BY <1>4 DEF CalmOK, Calm, Answers
<1>8. k \in DOMAIN out /\ k < i /\ Num(out[k]) \in Nat
  <2>1. k \in DOMAIN out /\ k < i
    BY <1>2
  <2> QED BY <1>3, <1>7, <2>1
<1>9. ~(k < j)
  <2>1. k < j => Num(out[k]) < Num(out[j])
    BY <1>1, <1>7, <1>8, OutAscends
  <2> QED BY <1>4, <1>6, <1>7, <1>8, <2>1
<1> QED BY <1>2, <1>8, <1>9

-----------------------------------------------------------------------------
(* The theorems.                                                           *)

LEMMA VoiceInvInit ==
    ASSUME VoiceInit
    PROVE  VoiceInv
<1>1. Base
  BY BaseInit
<1>2. /\ emitCh = << >> /\ queue = << >> /\ respCh = << >> /\ wire = << >> /\ buffered = << >>
      /\ pendingEnd = << >> /\ out = << >> /\ replaced = << >> /\ said = << >>
      /\ responses = 0 /\ spoke = 0 /\ heard = 0 /\ barged = {} /\ responseActive = FALSE /\ hasContent = FALSE
      /\ userEmitted = FALSE /\ owner = [r \in 1 .. MaxResponses |-> 0]
  BY DEF VoiceInit, PumpInit, ReorderInit
<1>z. DOMAIN << >> = {} /\ << >> \in Seq(Things) /\ \A s \in Seq(Things) : << >> \o s = s /\ s \o << >> = s
  OBVIOUS
<1>3. Turn(said) = 1
  BY <1>2 DEF Turn
<1>4. SaidOK
  BY <1>2, <1>3, <1>z DEF SaidOK, Chain, EndsOnce
<1>5. ReplacedOK
  BY <1>2, <1>z DEF ReplacedOK
<1>6. Carried = << >>
  BY <1>2 DEF Carried
<1>7. EndOK
  BY <1>2, <1>6, FilterEmpty DEF EndOK, Transit, Closed
<1>8. WordsArrive
  <2>1. Words(<< >>) = << >>
    BY WordsOf
  <2>2. Ahead = << >> /\ Behind = << >>
    BY <1>2, <1>6, <1>z, <2>1 DEF Ahead, Behind
  <2>3. Left = << >>
    BY <1>2, FilterEmpty DEF Left
  <2>4. Ahead \o Behind = Left
    BY <1>z, <2>2, <2>3
  <2> QED BY <1>1, <2>4, LineIs DEF Base
<1>9. AudioOK
  BY <1>2 DEF AudioOK, InterruptedAudioStops
<1>10. UsersOK
  <2>1. Picks(<< >>, {"user"}) = << >> /\ Picks(<< >>, {"transcript"}) = << >>
    BY PicksOf
  <2>2. Users = << >>
    BY <1>2, <1>6, <1>z, <2>1 DEF Users
  <2> QED BY <1>z, <2>2 DEF UsersOK, Ascends
<1>11. PlaceholdersOK
  BY <1>2, <1>z DEF PlaceholdersOK, PlaceholderStandsAlone
<1>12. CalmOK
  BY <1>2, <1>z DEF CalmOK
<1>13. OwnersOK
  BY <1>2, NumberIs DEF OwnersOK
<1> QED BY <1>1, <1>4, <1>5, <1>7, <1>8, <1>9, <1>10, <1>11, <1>12, <1>13 DEF VoiceInv, Base

LEMMA VoiceInvNext ==
    ASSUME VoiceInv, [VoiceNext]_voiceVars
    PROVE  VoiceInv'
<1> USE DEF VoiceInv
<1>1. Base
  BY DEF Base
<1>2. CASE VoiceNext
  <2>1. Base'
    BY <1>1, <1>2, BaseNext
  <2>2. SaidOK'
    BY <1>1, <1>2, SaidNext
  <2>3. EndOK'
    BY <1>1, <1>2, <2>2, EndNext
  <2>4. WordsArrive' /\ ReplacedOK'
    BY <1>1, <1>2, <2>1, WordsNext
  <2>5. AudioOK' /\ UsersOK' /\ PlaceholdersOK' /\ OwnersOK'
    BY <1>1, <1>2, <2>1, AudioNext, UsersNext, PlaceholdersNext, OwnersNext
  <2>6. CalmOK'
    BY <1>1, <1>2, <2>1, CalmNext
  <2> QED BY <2>1, <2>2, <2>3, <2>4, <2>5, <2>6 DEF Base
<1>3. CASE UNCHANGED voiceVars
  <2>1. UNCHANGED <<emitCh, emitClosed, queue, respCh, respClosed, dropCh, dropping, wire, wireClosed, buffered,
                    userEmitted, pendingEnd, reordering, out, replaced, guessed, spoke, heard, responses, owner,
                    responseActive, deltas, captured, hasContent, said, barged>>
    BY <1>3 DEF voiceVars, pumpVars, reorderVars, sessionVars, stageVars, ghostVars
  <2>2. Base'
    BY <1>1, <1>3, BaseNext
  <2>3. SaidOK' /\ ReplacedOK' /\ WordsArrive' /\ AudioOK'
    BY <2>1 DEF SaidOK, ReplacedOK, WordsArrive, AudioOK, InterruptedAudioStops
  <2>4. EndOK' /\ UsersOK'
    BY <2>1 DEF EndOK, Transit, Carried, UsersOK, Users
  <2>5. PlaceholdersOK' /\ OwnersOK'
    <3>1. PlaceholderStandsAlone'
      BY <2>1 DEF PlaceholdersOK, PlaceholderStandsAlone, SameTurn
    <3>2. PlaceholdersOK'
      BY <2>1, <3>1 DEF PlaceholdersOK
    <3>3. OwnersOK'
      BY <2>1 DEF OwnersOK, Unanswered
    <3> QED BY <3>2, <3>3
  <2>6. CalmOK'
    BY <2>1 DEF CalmOK, Calm, Now
  <2> QED BY <2>2, <2>3, <2>4, <2>5, <2>6 DEF Base
<1> QED BY <1>2, <1>3

LEMMA VoiceInvTypes ==
    ASSUME VoiceInv
    PROVE  VoiceTypeOK
<1>1. LinesOK /\ FlagsOK
  BY DEF VoiceInv, Base
<1>2. \A K : Singles(K) \subseteq Of(K)
  BY SingleIs
<1>3. Shown \subseteq Elements \cup Of({"placeholder"})
  <2>1. Of({"text", "end", "user", "error"}) \subseteq Elements
    BY DEF Of, Elements
  <2> QED BY <1>2, <2>1 DEF Shown
<1>4. Sent \subseteq SessionChunks /\ Forwarded \subseteq Elements
  BY <1>2 DEF Sent, Forwarded, SessionChunks, Elements
<1>5. \A S, T, q : S \subseteq T /\ q \in Seq(S) => q \in Seq(T)
  OBVIOUS
<1>6. emitCh \in Seq(SessionChunks) /\ queue \in Seq(SessionChunks) /\ respCh \in Seq(SessionChunks)
  BY <1>1, <1>4, <1>5 DEF LinesOK
<1>7. wire \in Seq(Elements) /\ out \in Seq(Elements \cup Of({"placeholder"}))
  BY <1>1, <1>3, <1>4, <1>5 DEF LinesOK
<1>8. /\ buffered \in Seq(Of({"text"})) /\ pendingEnd \in Seq(Of({"end"}))
      /\ replaced \in Seq(Of({"end"})) /\ said \in Seq(Of({"text", "end"}))
  BY <1>1, <1>2, <1>5 DEF LinesOK
<1>9. heard <= spoke
  BY <1>1 DEF FlagsOK
<1> QED BY <1>1, <1>6, <1>7, <1>8, <1>9 DEF VoiceTypeOK, LinesOK, FlagsOK

LEMMA VoiceInvGives ==
    ASSUME VoiceInv
    PROVE  WordsArrive /\ TranscriptsInPlace /\ InterruptedAudioStops
<1>1. VoiceTypeOK
  BY VoiceInvTypes
<1>2. UserBeforeText
  BY BeforeText DEF VoiceInv, Base
<1>3. PlaceholderStandsAlone
  BY DEF VoiceInv, PlaceholdersOK
<1> QED BY <1>1, <1>2, <1>3 DEF VoiceInv, TranscriptsInPlace, AudioOK

(***************************************************************************)
(* The invariant of a spoken conversation holds in every state, for every  *)
(* number of utterances, responses and deltas and every size of the        *)
(* session's, the pump's and the stage's channels: the channels between    *)
(* handleAudioDelta, StreamPump.run and TranscriptReorderStage carry the   *)
(* responses one after the other and the user's turns in order.            *)
(***************************************************************************)
THEOREM VoiceInvariance == VoiceSpec => []VoiceInv
<1>1. VoiceInit => VoiceInv
  BY VoiceInvInit
<1>2. VoiceInv /\ [VoiceNext]_voiceVars => VoiceInv'
  BY VoiceInvNext
<1> QED BY <1>1, <1>2, PTL DEF VoiceSpec

(***************************************************************************)
(* What the assistant said comes out whole, once and in order, however     *)
(* handleText, handleTurnEnd, the hold timer and a barge-in interleave,    *)
(* but for the turn-ends that handleTurnEnd replaced.                      *)
(***************************************************************************)
THEOREM WordsAlwaysArrive == VoiceSpec => []WordsArrive
<1>1. VoiceInv => WordsArrive
  BY VoiceInvGives
<1> QED BY <1>1, VoiceInvariance, PTL

(***************************************************************************)
(* The reorder stage sends the user's words before the answer to them, as  *)
(* long as no turn was resolved without words, no turn-end was replaced    *)
(* and every utterance was answered; and never both the words and the      *)
(* placeholder in one turn (handleUserTurn, resolvePending).               *)
(***************************************************************************)
THEOREM TranscriptsStandInPlace == VoiceSpec => []TranscriptsInPlace
<1>1. VoiceInv => TranscriptsInPlace
  BY VoiceInvGives
<1> QED BY <1>1, VoiceInvariance, PTL

(***************************************************************************)
(* Once the pump has dropped what it queued (dropAudioChunks), no more of  *)
(* an interrupted response's audio is on its way than the emit channel     *)
(* holds: handleAudioDelta produces none until the response is over.       *)
(***************************************************************************)
THEOREM InterruptedAudioIsStopped == VoiceSpec => []InterruptedAudioStops
<1>1. VoiceInv => InterruptedAudioStops
  BY VoiceInvGives
<1> QED BY <1>1, VoiceInvariance, PTL
=============================================================================
