--------------------------- MODULE TurnPersistence ---------------------------
(***************************************************************************)
(* What a conversation keeps of its turns.  A Send runs the unary pipeline *)
(* once: the load stage puts the stored history before the user's message  *)
(* (stages_core.go, stages_context.go), the provider stage runs the tool   *)
(* loop and, with a MessageLog, writes every round through to the store    *)
(* (stages_provider.go), and the save stage appends what is new            *)
(* (stages_save.go).  The store (statestore/memory.go, redis.go, file/)    *)
(* outlives the process, and forgets a conversation that expires.          *)
(*                                                                         *)
(* A stage that returns an error closes its output and tells nobody else:  *)
(* the stages after it go on with what has reached them, and Send returns  *)
(* the result it finds (pipeline.go, runStage and accumulateResult).       *)
(*                                                                         *)
(* A message is named by the turn it is of and its number in that turn.    *)
(* Workflow handoffs, summaries, retrieval and the message index, and the  *)
(* pipeline's continuous mode are left out.                                *)
(***************************************************************************)
EXTENDS Integers, Sequences, FiniteSets

CONSTANTS Turns,        \* the calls of Send and Resume
          MaxRounds,    \* toolPolicy.MaxRounds
          Modes,        \* how the conversation may be stored: see mode
          Windows,      \* the values of WithContextWindow, 0 for none
          Pinned,       \* PinRecentCount of a compactor that removes messages
          MaxFaults     \* how often something goes wrong

ASSUME PersistenceAssumption ==
    /\ MaxRounds \in Nat \ {0} /\ Pinned \in Nat
    /\ Modes \subseteq {"log", "append", "bulk"}
    /\ Windows \subseteq Nat /\ MaxFaults \in Nat

VARIABLES
    mode,       \* "log": a MessageLog; else a MessageAppender, or a BulkWriter only
    window,     \* ContextWindow, 0 for the whole history
    store,      \* the stored messages of the conversation
    at,         \* at[t]: the control of a turn
    then,       \* then[t]: where it goes once a round is persisted
    msgs,       \* msgs[t]: acc.messages, later toolLoop.messages
    persisted,  \* persisted[t]: lastPersistedSeq
    round,      \* round[t]
    said,       \* said[t]: how many messages the turn has made
    new,        \* new[t]: what the save stage has collected
    snapshot,   \* snapshot[t]: the state fullSave has loaded
    spoilt,     \* spoilt[t]: what went wrong for the turn
    faults      \* how often something went wrong

config == <<mode, window>>
vars   == <<config, store, at, then, msgs, persisted, round, said, new, snapshot, spoilt, faults>>

Init ==
    /\ mode \in Modes /\ window \in Windows
    /\ store = <<>>
    /\ at = [t \in Turns |-> "idle"] /\ then = [t \in Turns |-> "next"]
    /\ msgs = [t \in Turns |-> <<>>] /\ persisted = [t \in Turns |-> 0]
    /\ round = [t \in Turns |-> 0] /\ said = [t \in Turns |-> 0]
    /\ new = [t \in Turns |-> <<>>] /\ snapshot = [t \in Turns |-> <<>>]
    /\ spoilt = [t \in Turns |-> {}] /\ faults = 0

Over      == {"idle", "done", "suspended", "failed", "lost", "panic"}
Active    == {t \in Turns : at[t] \notin Over}
Goes(t, label)   == at' = [at EXCEPT ![t] = label]
Spoil(t, fs)     == spoilt' = [spoilt EXCEPT ![t] = @ \cup fs]
Fault            == faults < MaxFaults /\ faults' = faults + 1

\* The turn's next message.
Message(t, kind) == [of |-> t, n |-> said[t] + 1, kind |-> kind]
Says(t, kind) ==
    /\ msgs' = [msgs EXCEPT ![t] = Append(@, Message(t, kind))]
    /\ said' = [said EXCEPT ![t] = @ + 1]

-----------------------------------------------------------------------------
(* The call, and the load stage.                                           *)

\* Send and Resume lock nothing against each other: turns may overlap.
Starts(t, kind) ==
    /\ at[t] = "idle"
    /\ IF Active = {} THEN UNCHANGED <<spoilt, faults>>
       ELSE /\ Fault
            /\ spoilt' = [u \in Turns |-> IF u \in Active \cup {t} THEN spoilt[u] \cup {"overlap"}
                                          ELSE spoilt[u]]
    /\ Says(t, kind)
    /\ UNCHANGED <<config, store, then, persisted, round, new, snapshot>>

Send(t) == Starts(t, "user") /\ Goes(t, "load")

\* ResumeWithToolResults: the input is the results the suspended turn waits for.
Resume(t, u) ==
    /\ at[u] = "suspended"
    /\ Starts(t, "results")
    /\ at' = [at EXCEPT ![t] = "load", ![u] = "done"]

\* The history in the context: all of it, or the last messages.
History == IF window = 0 \/ Len(store) <= window THEN store
           ELSE SubSeq(store, Len(store) - window + 1, Len(store))

Load(t) ==
    /\ at[t] = "load"
    /\ msgs' = [msgs EXCEPT ![t] = History \o @]
    /\ persisted' = [persisted EXCEPT ![t] = Len(msgs'[t])]
    /\ Spoil(t, IF Len(History) = Len(store) THEN {} ELSE {"window"})
    /\ Goes(t, "seed")
    /\ UNCHANGED <<config, store, then, round, said, new, snapshot, faults>>

\* The load stage returns an error: the provider stage finds no input at all,
\* and calls the model with it.
LoadFails(t) ==
    /\ at[t] = "load" /\ Fault
    /\ msgs' = [msgs EXCEPT ![t] = <<>>]
    /\ Spoil(t, {"load"})
    /\ Goes(t, "seed")
    /\ UNCHANGED <<config, store, then, persisted, round, said, new, snapshot>>

-----------------------------------------------------------------------------
(* The tool loop and its write-through.                                    *)

\* Mutant: what the store already has is appended again.
LogAppendAgain(start, ms) == store \o ms

\* MessageLog.LogAppend: a start past the end is clamped, what the store
\* already has is skipped.
LogAppend(start, ms) ==
    LET skip == IF start > Len(store) THEN 0 ELSE Len(store) - start
    IN  IF skip >= Len(ms) THEN store ELSE store \o SubSeq(ms, skip + 1, Len(ms))

\* The total that LogAppend returns.
NewTotal(start, ms) == Len(LogAppend(start, ms))

Seeds(t) == mode = "log" /\ persisted[t] > 0

\* preSeedLog.
PreSeedLog(t) ==
    /\ at[t] = "seed"
    /\ IF Seeds(t)
       THEN LET total == NewTotal(0, msgs[t])
            IN  /\ store' = LogAppend(0, msgs[t])
                /\ persisted' = [persisted EXCEPT ![t] = IF total > @ THEN total ELSE @]
       ELSE UNCHANGED <<store, persisted>>
    /\ round' = [round EXCEPT ![t] = 1]
    /\ Goes(t, "round")
    /\ UNCHANGED <<config, then, msgs, said, new, snapshot, spoilt, faults>>

\* A failure is only logged, and lastPersistedSeq stays as if it were none.  The
\* store may have taken the messages all the same: the answer was lost.
PreSeedFails(t) ==
    /\ at[t] = "seed" /\ Seeds(t) /\ Fault
    /\ store' \in {store, LogAppend(0, msgs[t])}
    /\ Spoil(t, {"seed"})
    /\ round' = [round EXCEPT ![t] = 1]
    /\ Goes(t, "round")
    /\ UNCHANGED <<config, then, msgs, persisted, said, new, snapshot>>

\* executeRound fails: the error is sent downstream, and nothing else.
RoundFails(t) ==
    /\ at[t] = "round"
    /\ Goes(t, "failed")
    /\ UNCHANGED <<config, store, then, msgs, persisted, round, said, new, snapshot, spoilt, faults>>

\* The model answers: the loop ends, in an error if the cost is over budget.
ModelAnswers(t) ==
    /\ at[t] = "round"
    /\ Says(t, "answer")
    /\ Goes(t, "persist")
    /\ then' \in {[then EXCEPT ![t] = label] : label \in {"emit", "abort"}}
    /\ UNCHANGED <<config, store, persisted, round, new, snapshot, spoilt, faults>>

\* Mutant: the calls are persisted, and not run.
ModelCallsPersisted(t) ==
    /\ at[t] = "round"
    /\ Says(t, "calls")
    /\ Goes(t, "persist") /\ then' = [then EXCEPT ![t] = "next"]
    /\ UNCHANGED <<config, store, persisted, round, new, snapshot, spoilt, faults>>

\* The model calls tools.  Over budget, or in a loop of identical calls, they
\* are not run, and the turn ends in an error.
ModelCalls(t) ==
    /\ at[t] = "round"
    /\ Says(t, "calls")
    /\ \/ Goes(t, "tools") /\ UNCHANGED then
       \/ Goes(t, "persist") /\ then' = [then EXCEPT ![t] = "abort"]
    /\ UNCHANGED <<config, store, persisted, round, new, snapshot, spoilt, faults>>

\* executeToolCalls: results, which may end the loop (StopOnTool); calls that
\* wait for somebody; an error, which persists nothing.
ExecuteToolCalls(t) ==
    /\ at[t] = "tools"
    /\ \/ /\ Says(t, "results") /\ Goes(t, "persist")
          /\ then' \in {[then EXCEPT ![t] = label] : label \in {"next", "emit"}}
       \/ /\ Goes(t, "persist") /\ then' = [then EXCEPT ![t] = "suspend"]
          /\ UNCHANGED <<msgs, said>>
       \/ Goes(t, "failed") /\ UNCHANGED <<then, msgs, said>>
    /\ UNCHANGED <<config, store, persisted, round, new, snapshot, spoilt, faults>>

\* Where the loop goes on after persistMessages.
Persisted(t) == Goes(t, CASE then[t] = "next"  -> "next"
                          [] then[t] = "abort" -> "failed"
                          [] OTHER             -> "emit")

\* tl.messages[tl.lastPersistedSeq:]
Unsaved(t) == SubSeq(msgs[t], persisted[t] + 1, Len(msgs[t]))

\* persistMessages: the messages from lastPersistedSeq on.
PersistMessages(t) ==
    /\ at[t] = "persist"
    /\ mode = "log" => persisted[t] <= Len(msgs[t])
    /\ IF mode = "log" /\ persisted[t] < Len(msgs[t])
       THEN /\ store' = LogAppend(persisted[t], Unsaved(t))
            /\ persisted' = [persisted EXCEPT ![t] = NewTotal(@, Unsaved(t))]
            /\ spoilt' = [spoilt EXCEPT ![t] = @ \ {"append"}]
       ELSE UNCHANGED <<store, persisted, spoilt>>
    /\ Persisted(t)
    /\ UNCHANGED <<config, then, msgs, round, said, new, snapshot, faults>>

\* A failure is only logged: the next round sends the messages again, stored or
\* not.
PersistFails(t) ==
    /\ at[t] = "persist" /\ mode = "log" /\ persisted[t] < Len(msgs[t]) /\ Fault
    /\ store' \in {store, LogAppend(persisted[t], Unsaved(t))}
    /\ Spoil(t, {"append"})
    /\ Persisted(t)
    /\ UNCHANGED <<config, then, msgs, persisted, round, said, new, snapshot>>

\* tl.messages[tl.lastPersistedSeq:] is out of range: the process dies.
PersistPanics(t) ==
    /\ at[t] = "persist" /\ mode = "log" /\ persisted[t] > Len(msgs[t])
    /\ at' = [u \in Turns |-> IF u = t THEN "panic" ELSE IF u \in Active THEN "lost" ELSE at[u]]
    /\ UNCHANGED <<config, store, then, msgs, persisted, round, said, new, snapshot, spoilt, faults>>

LastRound(t) == round[t] = MaxRounds

\* After a round of tools: compaction may remove messages that are not recent;
\* then the next round, unless it was the last.
NextRound(t) ==
    /\ at[t] = "next"
    /\ \/ UNCHANGED <<msgs, spoilt, faults>>
       \/ /\ Fault
          /\ \E k \in 1 .. Len(msgs[t]) - Pinned :
                msgs' = [msgs EXCEPT ![t] = SubSeq(@, k + 1, Len(@))]
          /\ Spoil(t, {"compact"})
    /\ IF LastRound(t) THEN Goes(t, "failed") /\ UNCHANGED round
       ELSE Goes(t, "round") /\ round' = [round EXCEPT ![t] = @ + 1]
    /\ UNCHANGED <<config, store, then, persisted, said, new, snapshot>>

-----------------------------------------------------------------------------
(* The save stage.                                                         *)

\* The messages from the store stand before those of the turn: without them,
\* the rest is left.
Without(t, loaded) == SubSeq(msgs[t], Cardinality(loaded) + 1, Len(msgs[t]))

\* Mutant: the user's message counts as history.
OwnReplies(t) ==
    Without(t, {i \in DOMAIN msgs[t] : msgs[t][i].of # t \/ msgs[t][i].kind = "user"})

\* isNewMessage: the source of a message is not the store.
Own(t) == Without(t, {i \in DOMAIN msgs[t] : msgs[t][i].of # t})

\* emitResponseMessages and collectAndForward.  When the context ends in
\* between, what has been sent is collected.
Emit(t) ==
    /\ at[t] = "emit"
    /\ \/ new' = [new EXCEPT ![t] = Own(t)] /\ UNCHANGED <<spoilt, faults>>
       \/ /\ Fault
          /\ \E k \in 0 .. Len(Own(t)) : new' = [new EXCEPT ![t] = SubSeq(Own(t), 1, k)]
          /\ Spoil(t, {"cancel"})
    /\ Goes(t, "save")
    /\ UNCHANGED <<config, store, then, msgs, persisted, round, said, snapshot>>

\* Send returns.
Ends(t) == Goes(t, IF then[t] = "suspend" THEN "suspended" ELSE "done")

\* IncrementalSaveStage: nothing to do with a MessageLog, one append with a
\* MessageAppender, the load of fullSave otherwise.
Save(t) ==
    /\ at[t] = "save"
    /\ IF new[t] = <<>> \/ mode = "log" THEN Ends(t) /\ UNCHANGED <<store, snapshot>>
       ELSE IF mode = "append" THEN Ends(t) /\ store' = store \o new[t] /\ UNCHANGED snapshot
       ELSE /\ Goes(t, "write") /\ snapshot' = [snapshot EXCEPT ![t] = store]
            /\ UNCHANGED store
    /\ UNCHANGED <<config, then, msgs, persisted, round, said, new, spoilt, faults>>

\* Mutant: the new messages are put before the loaded ones.
WrittenFirst(t) == new[t] \o snapshot[t]

\* The state that fullSave writes back.
Written(t) == snapshot[t] \o new[t]

\* The rest of fullSave.
FullSave(t) ==
    /\ at[t] = "write"
    /\ store' = Written(t)
    /\ Ends(t)
    /\ UNCHANGED <<config, then, msgs, persisted, round, said, new, snapshot, spoilt, faults>>

\* The store fails: the save stage returns the error, Send does not.
SaveFails(t) ==
    /\ Fault
    /\ at[t] \in {"save", "write"} /\ new[t] # <<>> /\ mode # "log"
    /\ Spoil(t, {"save"})
    /\ Ends(t)
    /\ UNCHANGED <<config, store, then, msgs, persisted, round, said, new, snapshot>>

-----------------------------------------------------------------------------
(* The process and the store.                                              *)

\* The process dies and is started again; the store is not.
Crash ==
    /\ Fault /\ Active # {}
    /\ at' = [t \in Turns |-> IF t \in Active THEN "lost" ELSE at[t]]
    /\ UNCHANGED <<config, store, then, msgs, persisted, round, said, new, snapshot, spoilt>>

\* The conversation expires or is evicted, between turns or under one.
Expires ==
    /\ Fault /\ store # <<>>
    /\ store' = <<>>
    /\ spoilt' = [t \in Turns |-> IF at[t] \in {"idle", "load"} THEN spoilt[t]
                                  ELSE spoilt[t] \cup {"expired"}]
    /\ UNCHANGED <<config, at, then, msgs, persisted, round, said, new, snapshot>>

TurnStep(t) ==
    \/ Load(t) \/ LoadFails(t) \/ PreSeedLog(t) \/ PreSeedFails(t)
    \/ RoundFails(t) \/ ModelAnswers(t) \/ ModelCalls(t) \/ ExecuteToolCalls(t)
    \/ PersistMessages(t) \/ PersistFails(t) \/ PersistPanics(t) \/ NextRound(t)
    \/ Emit(t) \/ Save(t) \/ FullSave(t) \/ SaveFails(t)

Next == \/ \E t \in Turns : Send(t) \/ TurnStep(t) \/ \E u \in Turns : Resume(t, u)
        \/ Crash \/ Expires

Spec == Init /\ [][Next]_vars

-----------------------------------------------------------------------------
(* Properties.                                                             *)

Kinds    == {"user", "calls", "results", "answer"}
Messages == [of : Turns, n : Nat \ {0}, kind : Kinds]

\* Every variable holds what the code can put there; the rounds of a turn stay
\* within the policy (toolPolicy.MaxRounds), and its messages with them.
TypeOK ==
    /\ mode \in Modes /\ window \in Windows
    /\ store \in Seq(Messages)
    /\ at \in [Turns -> Over \cup {"load", "seed", "round", "tools", "persist", "next", "emit",
                                   "save", "write"}]
    /\ then \in [Turns -> {"next", "emit", "suspend", "abort"}]
    /\ msgs \in [Turns -> Seq(Messages)] /\ new \in [Turns -> Seq(Messages)]
    /\ snapshot \in [Turns -> Seq(Messages)]
    /\ persisted \in [Turns -> Nat] /\ round \in [Turns -> 0 .. MaxRounds]
    /\ said \in [Turns -> 0 .. 2 * MaxRounds + 1]
    /\ faults \in 0 .. MaxFaults
    /\ spoilt \in [Turns -> SUBSET {"overlap", "window", "load", "seed", "append", "compact",
                                    "cancel", "save", "expired"}]

\* The numbers of the messages of a turn that are stored.
Stored(t) == {store[i].n : i \in {j \in DOMAIN store : store[j].of = t}}

\* What excuses a message that is missing, in each mode: with a log everything
\* that can go wrong with it; otherwise only what the save stage sees.
Excuses == CASE mode = "log"    -> {"overlap", "window", "load", "seed", "append", "compact", "expired"}
             [] mode = "append" -> {"load", "compact", "cancel", "save", "expired"}
             [] mode = "bulk"   -> {"overlap", "load", "compact", "cancel", "save", "expired"}

\* A turn that Send has returned is stored whole, whatever other turns do, and
\* whatever failed and crashed before it (stages_save.go persistMessages,
\* stages_provider.go persistMessages).
ReturnedIsStored ==
    \A t \in Turns :
        at[t] \in {"done", "suspended"} /\ spoilt[t] \cap Excuses = {} => Stored(t) = 1 .. said[t]

\* No message is stored twice or out of order, although rounds are sent again
\* after a failure, history is sent with every turn, and turns overlap
\* (memory.go LogAppend), except after a pre-seed that failed and in a
\* conversation that expired under a turn: there the position that LogAppend
\* returns and the tool loop's own differ.
NothingTwice ==
    \A i, j \in DOMAIN store :
        i < j /\ store[i].of = store[j].of /\ spoilt[store[i].of] \cap {"seed", "expired"} = {}
        => store[i].n < store[j].n

\* With a message log, all that a turn has said is stored before the model is
\* called again (options.go WithMessageLog: "appended to the log after each
\* tool-loop round completes").
RoundsAreLogged ==
    \A t \in Turns :
        mode = "log" /\ at[t] = "round" /\ spoilt[t] \cap Excuses = {} => Stored(t) = 1 .. said[t]

\* The same without an excuse: what the documentation of the option says.
EveryRoundIsLogged ==
    \A t \in Turns : mode = "log" /\ at[t] = "round" => Stored(t) = 1 .. said[t]

\* A crash leaves whole rounds in the log: the last message of a lost turn is
\* not a tool call without its results, unless the loop gave up or waits for them.
CrashLeavesWholeRounds ==
    \A t \in Turns :
        /\ mode = "log" /\ at[t] = "lost" /\ then[t] \in {"next", "emit"}
        /\ spoilt[t] \cap (Excuses \ {"append"}) = {}
        => \A i \in DOMAIN store :
              store[i].of = t /\ store[i].kind = "calls" =>
                  \E j \in DOMAIN store : store[j].of = t /\ store[j].n = store[i].n + 1

\* The tool loop slices its messages out of range only when they are fewer than
\* those stored: the context was cut, or another turn stored in between
\* (stages_provider.go persistMessages).
PanicsExplained ==
    \A t \in Turns : at[t] = "panic" => spoilt[t] \cap {"overlap", "window", "load", "compact"} # {}

\* What is stored stays, at its place, until the conversation expires; only two
\* overlapping turns on a store without append lose each other's messages
\* (stages_save.go fullSave).
StoreOnlyGrows ==
    [][ \/ store' = <<>>
        \/ Len(store) <= Len(store') /\ SubSeq(store', 1, Len(store)) = store
        \/ mode = "bulk" /\ \E t \in Turns : "overlap" \in spoilt[t] ]_store

\* The message log is sound: rounds are in it before the next begins, a crash
\* leaves whole rounds, and the slice behind it is in range (stages_provider.go
\* preSeedLog, persistMessages).
LogIsWhole == TypeOK /\ RoundsAreLogged /\ CrashLeavesWholeRounds /\ PanicsExplained
=============================================================================
