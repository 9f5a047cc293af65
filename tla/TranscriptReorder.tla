-------------------------- MODULE TranscriptReorder --------------------------
(***************************************************************************)
(* The stage that puts the user's words before the answer to them          *)
(* (runtime/pipeline/stage/transcript_reorder.go).  An element has a kind  *)
(* and a set of numbers: the utterances of a user's turn, the response of  *)
(* everything else.  The stage handles one element at a time and sends     *)
(* what comes of it before it takes the next; the sends of one element are *)
(* one step, since nobody else touches the turn or the output and a slow   *)
(* reader only delays them.  The stage's timer runs exactly while a        *)
(* turn-end is held: it is started with the first one, stopped             *)
(* when none is left, and one that replaces another does not restart it.   *)
(* Cancellation, which only ends the stage, is left out.                   *)
(***************************************************************************)
EXTENDS Naturals, Sequences, SequencesExt

CONSTANT HasPlaceholder    \* placeholder # ""

VARIABLES wire,         \* the input channel
          wireClosed,   \* and whether it is closed
          buffered,     \* assistant text that waits for the user's turn
          userEmitted,
          pendingEnd,   \* the turn-end that is held, as a sequence of at most one
          reordering,   \* "running" or "done"
          out,          \* what was sent that is part of the transcript or an error
          replaced,     \* the turn-ends that another one replaced
          guessed       \* a turn was resolved without the user's words

reorderVars == <<wire, wireClosed, buffered, userEmitted, pendingEnd, reordering, out,
                 replaced, guessed>>

ReorderInit ==
    /\ wire = <<>> /\ wireClosed = FALSE
    /\ buffered = <<>> /\ userEmitted = FALSE /\ pendingEnd = <<>>
    /\ reordering = "running" /\ out = <<>>
    /\ replaced = <<>> /\ guessed = FALSE

ResetTurn == userEmitted' = FALSE /\ buffered' = <<>> /\ pendingEnd' = <<>>

TurnUnchanged == UNCHANGED <<userEmitted, buffered, pendingEnd>>

\* The user's turn, the text that waited for it, and the turn-end if it is held.
HandleUserTurn(elem) ==
    /\ elem.kind = "user"
    /\ out' = out \o <<elem>> \o buffered \o pendingEnd
    /\ IF pendingEnd # <<>> THEN ResetTurn
       ELSE userEmitted' = TRUE /\ buffered' = <<>> /\ UNCHANGED pendingEnd
    /\ UNCHANGED <<replaced, guessed>>

\* A turn-end is held until the user's turn was sent; one that is held already
\* gives way.
HandleTurnEnd(elem) ==
    /\ elem.kind = "end"
    /\ IF userEmitted
       THEN out' = out \o buffered \o <<elem>> /\ ResetTurn /\ UNCHANGED replaced
       ELSE /\ pendingEnd' = <<elem>> /\ replaced' = replaced \o pendingEnd
            /\ UNCHANGED <<out, buffered, userEmitted>>
    /\ UNCHANGED guessed

\* The responses that the held turn speaks for.
Held == (UNION {buffered[i].of : i \in DOMAIN buffered}) \cup (UNION {e.of : e \in ToSet(pendingEnd)})

Placeholder == [kind |-> "placeholder", of |-> Held]

\* Mutant: the text is forgotten.
ResolvedWithoutText ==
    (IF HasPlaceholder /\ ~userEmitted THEN <<Placeholder>> ELSE <<>>) \o pendingEnd

\* What resolvePending sends.
Resolved ==
    (IF HasPlaceholder /\ ~userEmitted THEN <<Placeholder>> ELSE <<>>) \o buffered \o pendingEnd

\* Mutant: text is never held back.
HandleTextLive(elem) ==
    /\ elem.kind = "text"
    /\ out' = Append(out, elem)
    /\ TurnUnchanged /\ UNCHANGED <<replaced, guessed>>

\* Text of a new turn resolves the one that is held.
HandleText(elem) ==
    /\ elem.kind = "text"
    /\ IF pendingEnd # <<>>
       THEN /\ out' = out \o Resolved /\ guessed' = (guessed \/ ~userEmitted)
            /\ userEmitted' = FALSE /\ buffered' = <<elem>> /\ pendingEnd' = <<>>
       ELSE /\ IF userEmitted THEN out' = Append(out, elem) /\ UNCHANGED buffered
               ELSE buffered' = Append(buffered, elem) /\ UNCHANGED out
            /\ UNCHANGED <<userEmitted, pendingEnd, guessed>>
    /\ UNCHANGED replaced

\* Audio, errors and the rest.
HandleOther(elem) ==
    /\ elem.kind \notin {"user", "end", "text"}
    /\ out' = IF elem.kind \in {"audio", "empty"} THEN out ELSE Append(out, elem)
    /\ TurnUnchanged /\ UNCHANGED <<replaced, guessed>>

Handle ==
    /\ reordering = "running" /\ wire # <<>>
    /\ wire' = Tail(wire)
    /\ \/ HandleUserTurn(Head(wire)) \/ HandleTurnEnd(Head(wire))
       \/ HandleText(Head(wire)) \/ HandleOther(Head(wire))
    /\ UNCHANGED <<wireClosed, reordering>>

Resolve ==
    /\ out' = out \o Resolved /\ guessed' = (guessed \/ ~userEmitted)
    /\ ResetTurn

\* Mutant: the timer fires once only.
HoldTimeoutOnce ==
    /\ reordering = "running" /\ pendingEnd # <<>> /\ ~guessed
    /\ Resolve
    /\ UNCHANGED <<wire, wireClosed, reordering, replaced>>

\* The timer fires.
HoldTimeout ==
    /\ reordering = "running" /\ pendingEnd # <<>>
    /\ Resolve
    /\ UNCHANGED <<wire, wireClosed, reordering, replaced>>

\* The input is closed and read.
InputClosed ==
    /\ reordering = "running" /\ wire = <<>> /\ wireClosed
    /\ reordering' = "done"
    /\ IF pendingEnd # <<>> \/ buffered # <<>> THEN Resolve
       ELSE UNCHANGED <<out, guessed>> /\ TurnUnchanged
    /\ UNCHANGED <<wire, wireClosed, replaced>>
=============================================================================
