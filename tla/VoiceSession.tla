----------------------------- MODULE VoiceSession -----------------------------
(***************************************************************************)
(* A spoken conversation with OpenAI Realtime, from the socket to the      *)
(* elements that the later stages see: the receive loop of the session     *)
(* (runtime/providers/openai/realtime_session_integration.go), its pump,   *)
(* the response side of DuplexProviderStage                                *)
(* (runtime/pipeline/stage/stages_duplex_provider_session.go,              *)
(* stages_duplex_provider.go) and TranscriptReorderStage.                  *)
(*                                                                         *)
(* The server speaks to an utterance in one response, or in several when   *)
(* the model calls tools; it sends the transcript of an utterance at any   *)
(* time after the user began to speak, in order, or never.  Its            *)
(* transcripts are final, so no transcript is ever collected from parts.   *)
(* The user's microphone is the other goroutine of the stage.              *)
(***************************************************************************)
EXTENDS StreamPump, TranscriptReorder

CONSTANTS Utterances,      \* how often the user speaks
          MaxResponses,    \* how often the model answers
          MaxDeltas,       \* bound: deltas of all its answers, or an error event
          WireSize         \* the size of the channel between the two stages

ASSUME VoiceAssumption == {Utterances, MaxResponses, MaxDeltas, WireSize} \subseteq Nat \ {0}

VARIABLES
    spoke,            \* how often speech_started came
    heard,            \* how many utterances the server has transcribed, or failed to
    responses,        \* the number of the latest response
    owner,            \* owner[r]: the utterance that response r answers
    responseActive,
    deltas,           \* deltas and error events so far
    captured,         \* transcriptionCaptured
    hasContent,       \* accumulatedText or accumulatedMedia is not empty
    said,             \* every text and turn-end that the server sent, in order
    barged            \* the responses that the user interrupted

sessionVars == <<spoke, heard, responses, owner, responseActive, deltas>>
stageVars   == <<captured, hasContent>>
ghostVars   == <<said, barged>>
voiceVars   == <<pumpVars, reorderVars, sessionVars, stageVars, ghostVars>>

VoiceInit ==
    /\ PumpInit /\ ReorderInit
    /\ spoke = 0 /\ heard = 0 /\ responses = 0 /\ owner = [r \in 1 .. MaxResponses |-> 0]
    /\ responseActive = FALSE /\ deltas = 0
    /\ captured = FALSE /\ hasContent = FALSE
    /\ said = <<>> /\ barged = {}

PumpIdle == UNCHANGED <<queue, respCh, respClosed>>

Chunk(kind, n) == [kind |-> kind, of |-> {n}]

-----------------------------------------------------------------------------
(* The receive loop: handleMessage.                                        *)

\* speech_started, a barge-in if the model is speaking.
SpeechStarted ==
    /\ ~emitClosed /\ spoke < Utterances
    /\ spoke' = spoke + 1
    /\ IF responseActive THEN Barge /\ barged' = barged \cup {responses}
       ELSE UNCHANGED <<dropping, dropCh, barged>>
    /\ PumpIdle
    /\ UNCHANGED <<emitCh, emitClosed, reorderVars, heard, responses, owner, responseActive, deltas,
                   stageVars, said>>

ResponseCreated ==
    /\ ~emitClosed /\ ~responseActive /\ spoke > 0 /\ responses < MaxResponses
    /\ responses' = responses + 1 /\ owner' = [owner EXCEPT ![responses + 1] = spoke]
    /\ responseActive' = TRUE
    /\ ClearDrop
    /\ PumpIdle
    /\ UNCHANGED <<emitCh, emitClosed, dropCh, reorderVars, spoke, heard, deltas,
                   stageVars, ghostVars>>

\* A delta of the words that are spoken.
HandleTranscriptDelta ==
    /\ responseActive /\ deltas < MaxDeltas
    /\ deltas' = deltas + 1
    /\ Emit(Chunk("text", responses)) /\ said' = Append(said, Chunk("text", responses))
    /\ PumpIdle
    /\ UNCHANGED <<emitClosed, dropCh, dropping, reorderVars, spoke, heard, responses, owner,
                   responseActive, stageVars, barged>>

\* Mutant: what still comes of an interrupted response is played.
DroppingNever == FALSE

Dropping == dropping

\* A delta of the audio, skipped after a barge-in.
HandleAudioDelta ==
    /\ responseActive /\ deltas < MaxDeltas /\ ~emitClosed
    /\ deltas' = deltas + 1
    /\ IF Dropping THEN UNCHANGED emitCh ELSE Emit(Chunk("audio", responses))
    /\ PumpIdle
    /\ UNCHANGED <<emitClosed, dropCh, dropping, reorderVars, spoke, heard, responses, owner,
                   responseActive, stageVars, ghostVars>>

\* The response is complete, or was cancelled.
HandleResponseDone ==
    /\ responseActive
    /\ responseActive' = FALSE /\ ClearDrop
    /\ Emit(Chunk("end", responses)) /\ said' = Append(said, Chunk("end", responses))
    /\ PumpIdle
    /\ UNCHANGED <<emitClosed, dropCh, reorderVars, spoke, heard, responses, owner, deltas, stageVars,
                   barged>>

HandleInputTranscription ==
    /\ heard < spoke
    /\ heard' = heard + 1
    /\ Emit(Chunk("transcript", heard + 1))
    /\ PumpIdle
    /\ UNCHANGED <<emitClosed, dropCh, dropping, reorderVars, spoke, responses, owner,
                   responseActive, deltas, stageVars, ghostVars>>

\* The server could not transcribe: an event that nobody handles.
TranscriptionFails ==
    /\ ~emitClosed /\ heard < spoke
    /\ heard' = heard + 1
    /\ UNCHANGED <<pumpVars, reorderVars, spoke, responses, owner, responseActive, deltas, stageVars,
                   ghostVars>>

\* An error event of the server: the error goes the way of every chunk, and the
\* loop reads on.  Bound: it takes the place of all deltas.
HandleError ==
    /\ deltas = 0
    /\ deltas' = MaxDeltas
    /\ Emit(Chunk("error", responses))
    /\ PumpIdle
    /\ UNCHANGED <<emitClosed, dropCh, dropping, reorderVars, spoke, heard, responses, owner,
                   responseActive, stageVars, ghostVars>>

\* The connection is lost, which is told in a last chunk, or closed.
Disconnects ==
    /\ ~emitClosed
    /\ emitClosed' = TRUE /\ responseActive' = FALSE
    /\ \/ Emit(Chunk("error", responses)) \/ UNCHANGED emitCh
    /\ PumpIdle
    /\ UNCHANGED <<dropCh, dropping, reorderVars, spoke, heard, responses, owner, deltas, stageVars,
                   ghostVars>>

Receives == SpeechStarted \/ ResponseCreated \/ HandleTranscriptDelta \/ HandleAudioDelta
            \/ HandleResponseDone \/ HandleInputTranscription \/ TranscriptionFails
            \/ HandleError \/ Disconnects

Pumps == PumpStep /\ UNCHANGED <<reorderVars, sessionVars, stageVars, ghostVars>>

-----------------------------------------------------------------------------
(* DuplexProviderStage.                                                    *)

\* sendAudioElement, of the input side: the user speaks again.
MicrophoneAudio ==
    /\ captured /\ ~wireClosed
    /\ captured' = FALSE
    /\ UNCHANGED <<pumpVars, reorderVars, sessionVars, hasContent, ghostVars>>

ForwardsElement(elem) == Len(wire) < WireSize /\ wire' = Append(wire, elem)

\* handleResponseChunk: a transcript that is not late is the user's turn; what
\* is left of a late one is an element without content.
TranscriptChunk(chunk) ==
    /\ chunk.kind = "transcript"
    /\ ForwardsElement([chunk EXCEPT !.kind = IF captured THEN "empty" ELSE "user"])
    /\ UNCHANGED <<captured, hasContent, wireClosed>>

ContentChunk(chunk) ==
    /\ chunk.kind \in {"text", "audio"}
    /\ ForwardsElement(chunk)
    /\ hasContent' = TRUE
    /\ UNCHANGED <<captured, wireClosed>>

\* chunkToElement with a finish reason.
FinalChunk(chunk) ==
    /\ chunk.kind = "end"
    /\ ForwardsElement(chunk)
    /\ hasContent' = FALSE /\ captured' = TRUE
    /\ UNCHANGED <<wireClosed>>

\* An error ends the stage.
ErrorChunk(chunk) ==
    /\ chunk.kind = "error"
    /\ ForwardsElement(chunk)
    /\ wireClosed' = TRUE
    /\ UNCHANGED <<captured, hasContent>>

ReorderIdle == UNCHANGED <<buffered, userEmitted, pendingEnd, reordering, out, replaced,
                           guessed>>

HandleResponseChunk ==
    /\ ~wireClosed
    /\ \E chunk \in ToSet(respCh) :
          /\ Response(chunk)
          /\ \/ TranscriptChunk(chunk) \/ ContentChunk(chunk) \/ FinalChunk(chunk)
             \/ ErrorChunk(chunk)
    /\ ReorderIdle
    /\ UNCHANGED <<emitCh, emitClosed, queue, respClosed, dropCh, dropping, sessionVars, said, barged>>

\* The response channel is closed: what was said of an answer becomes a turn.
ResponsesEnd ==
    /\ ~wireClosed /\ respClosed /\ respCh = <<>>
    /\ wireClosed' = TRUE
    /\ IF hasContent
       THEN /\ ForwardsElement(Chunk("end", responses)) /\ hasContent' = FALSE
            /\ said' = Append(said, Chunk("end", responses))
       ELSE UNCHANGED <<wire, hasContent, said>>
    /\ ReorderIdle
    /\ UNCHANGED <<pumpVars, sessionVars, captured, barged>>

Reorders(step) == step /\ UNCHANGED <<pumpVars, sessionVars, stageVars, ghostVars>>

VoiceNext == \/ Receives \/ Pumps \/ MicrophoneAudio \/ HandleResponseChunk \/ ResponsesEnd
             \/ Reorders(Handle) \/ Reorders(HoldTimeout) \/ Reorders(InputClosed)

VoiceSpec == VoiceInit /\ [][VoiceNext]_voiceVars

\* Each goroutine that can take a step takes one; that of the reorder stage
\* selects between its input and the hold timer.  The server and the user owe
\* nothing.
FairVoiceSpec ==
    /\ VoiceSpec
    /\ WF_voiceVars(Pumps) /\ WF_voiceVars(HandleResponseChunk \/ ResponsesEnd)
    /\ WF_voiceVars(Reorders(Handle) \/ Reorders(HoldTimeout) \/ Reorders(InputClosed))

-----------------------------------------------------------------------------
(* Properties.                                                             *)
Numbers == SUBSET (0 .. (Utterances + MaxResponses))
Of(kinds) == [kind : kinds, of : Numbers]
SessionChunks == Of({"text", "audio", "end", "transcript", "error"})
Elements      == Of({"text", "audio", "end", "user", "empty", "error"})

\* Every variable holds what the code can put there.
VoiceTypeOK ==
    /\ emitCh \in Seq(SessionChunks) /\ queue \in Seq(SessionChunks) /\ respCh \in Seq(SessionChunks)
    /\ Len(emitCh) <= EmitSize /\ Len(respCh) <= ResponseSize /\ Len(wire) <= WireSize
    /\ wire \in Seq(Elements) /\ buffered \in Seq(Of({"text"}))
    /\ pendingEnd \in Seq(Of({"end"})) /\ Len(pendingEnd) <= 1
    /\ {emitClosed, respClosed, dropCh, dropping, wireClosed, userEmitted, guessed, responseActive,
        captured, hasContent} \subseteq BOOLEAN
    /\ out \in Seq(Elements \cup Of({"placeholder"}))
    /\ reordering \in {"running", "done"}
    /\ replaced \in Seq(Of({"end"})) /\ said \in Seq(Of({"text", "end"}))
    /\ heard <= spoke /\ spoke \in 0 .. Utterances /\ responses \in 0 .. MaxResponses
    /\ owner \in [1 .. MaxResponses -> 0 .. Utterances] /\ deltas \in 0 .. MaxDeltas
    /\ barged \subseteq 1 .. MaxResponses

Words(s) == Filter(s, Of({"text", "end"}))

\* What the assistant said comes out whole, once and in the order it was said,
\* and every turn-end where it was, whatever waits for a transcript, times out
\* or is interrupted; only a turn-end that was held when the next one came is
\* missing (stream_pump.go, transcript_reorder.go).
WordsArrive ==
    Words(out \o buffered \o pendingEnd \o wire \o respCh \o queue \o emitCh)
        = Filter(said, ToSet(said) \ ToSet(replaced))

\* The model let an utterance pass and answered a later one.
Unanswered == \E r \in 1 .. responses : \E u \in 1 .. owner[r] - 1 : u \notin ToSet(owner)

\* The words of the user stand before the answer to them, as long as every
\* utterance is answered, no turn had to be resolved without words and no
\* turn-end gave way to the next (transcript_reorder.go, the comment of the
\* stage).
UserBeforeText ==
    \A i, j \in DOMAIN out :
        /\ out[i].kind = "text" /\ out[j].kind = "user"
        /\ ~guessed /\ ~Unanswered /\ replaced = <<>>
        /\ \E r \in out[i].of : owner[r] \in out[j].of
        => j < i

\* The elements at i and j stand in the same turn of the output.
SameTurn(i, j) == ~\E k \in i .. j - 1 : out[k].kind = "end"

\* A turn has the words of the user or the placeholder for them, never both: not
\* when the transcript and the timer race, and not when the input closes under a
\* turn (transcript_reorder.go resolvePending, handleUserTurn).
PlaceholderStandsAlone ==
    \A i, j \in DOMAIN out :
        i < j /\ SameTurn(i, j) =>
            /\ {out[i].kind, out[j].kind} # {"user", "placeholder"}
            /\ ~(out[i].kind = "placeholder" /\ out[j].kind = "placeholder")

\* The audio of an interrupted response that is yet to come through is what one
\* channel holds (stream_pump.go Barge, realtime_session_integration.go
\* handleAudioDelta).
InterruptedAudioStops ==
    ~dropCh => \A r \in barged :
        Len(Filter(queue \o emitCh, {Chunk("audio", r)})) <= EmitSize

\* The stage has ended on an error, with the end of r's answer behind it: the
\* receive loop reads on after an error event and nobody reads what it sends
\* (realtime_session_integration.go handleError, handleResponseChunk).
CutOff(r) ==
    /\ \E elem \in ToSet(out \o wire) : elem.kind = "error"
    /\ Chunk("end", r) \in ToSet(respCh \o queue \o emitCh)

\* Every turn-end comes out, or gave way to the next, or came behind an error
\* that ended the stage: what has been said and what has come out only grow, so
\* a moment when none is owed comes after each (transcript_reorder.go, the hold
\* timer).
Owed == {r \in 1 .. MaxResponses : /\ Chunk("end", r) \in ToSet(said)
                                   /\ Chunk("end", r) \notin ToSet(out) \cup ToSet(replaced)
                                   /\ ~CutOff(r)}
EveryTurnEnds == []<>(Owed = {})

\* Transcripts stand in their place: the user's words before the answer, and a
\* placeholder only where none came (transcript_reorder.go).
TranscriptsInPlace == VoiceTypeOK /\ UserBeforeText /\ PlaceholderStandsAlone
=============================================================================
