------------------------------ MODULE StreamPump ------------------------------
(***************************************************************************)
(* The pump between the receive loop of a realtime session and its         *)
(* consumer (runtime/providers/stream_pump.go): a channel in, a queue      *)
(* without a bound, a channel out, and the signal of a barge-in.           *)
(* Cancellation is left out.                                               *)
(***************************************************************************)
EXTENDS Naturals, Sequences, FiniteSets, SequencesExt

CONSTANTS EmitSize, ResponseSize    \* the sizes of the two channels

ASSUME PumpAssumption == {EmitSize, ResponseSize} \subseteq Nat \ {0}

VARIABLES emitCh, emitClosed,
          queue,
          respCh, respClosed,
          dropCh,               \* a signal waits
          dropping

pumpVars == <<emitCh, emitClosed, queue, respCh, respClosed, dropCh, dropping>>

PumpInit ==
    /\ emitCh = <<>> /\ emitClosed = FALSE /\ queue = <<>>
    /\ respCh = <<>> /\ respClosed = FALSE
    /\ dropCh = FALSE /\ dropping = FALSE

\* The session's side.
Emit(chunk) == /\ Len(emitCh) < EmitSize /\ ~emitClosed
               /\ emitCh' = Append(emitCh, chunk)

Barge == dropping' = TRUE /\ dropCh' = TRUE

ClearDrop == dropping' = FALSE

PumpReceives ==
    /\ emitCh # <<>>
    /\ queue' = Append(queue, Head(emitCh)) /\ emitCh' = Tail(emitCh)
    /\ UNCHANGED <<emitClosed, respCh, respClosed, dropCh, dropping>>

PumpForwards ==
    /\ queue # <<>> /\ Len(respCh) < ResponseSize
    /\ respCh' = Append(respCh, Head(queue)) /\ queue' = Tail(queue)
    /\ UNCHANGED <<emitCh, emitClosed, respClosed, dropCh, dropping>>

\* The elements of s that are in S, in their order: the nth of them stands where
\* n of them have been counted.
Kept(s, S) == {i \in DOMAIN s : s[i] \in S}
Rank(I, i) == Cardinality({k \in I : k <= i})
Filter(s, S) ==
    LET I == Kept(s, S)
    IN  [n \in 1 .. Cardinality(I) |-> s[CHOOSE i \in I : Rank(I, i) = n]]

DropAudioChunks(q) == Filter(q, {chunk \in ToSet(q) : chunk.kind # "audio"})

PumpDrops ==
    /\ dropCh /\ ~respClosed
    /\ dropCh' = FALSE /\ queue' = DropAudioChunks(queue)
    /\ UNCHANGED <<emitCh, emitClosed, respCh, respClosed, dropping>>

\* The loop ends when the input is closed and everything forwarded.
PumpEnds ==
    /\ emitClosed /\ emitCh = <<>> /\ queue = <<>> /\ ~respClosed
    /\ respClosed' = TRUE
    /\ UNCHANGED <<emitCh, emitClosed, queue, respCh, dropCh, dropping>>

PumpStep == PumpReceives \/ PumpForwards \/ PumpDrops \/ PumpEnds

\* The consumer's side.
Response(chunk) == respCh # <<>> /\ chunk = Head(respCh) /\ respCh' = Tail(respCh)
=============================================================================
