------------------------ MODULE WorkflowConversation ------------------------
(***************************************************************************)
(* A workflow of the SDK (sdk/workflow.go, workflow_transition.go,         *)
(* workflow_state_resolver.go, runtime/workflow/transition_executor.go):   *)
(* the conversation of the current state, the transitions that the model   *)
(* schedules with a tool and the tool loop applies between its rounds, the *)
(* transitions that the application makes itself, and the context that is  *)
(* persisted for ResumeWorkflow.                                           *)
(*                                                                         *)
(* A call is a Send, a Transition or a Close.  wc.mu is held by Transition *)
(* and by the two ends of Send, not by the pipeline that runs in between:  *)
(* the commits of a running turn hold the lock of their executor only, and *)
(* their hook writes to the store without wc.mu.  Every conversation has   *)
(* an executor of its own, and both have the number of the conversation.   *)
(* The store is one that encodes what it is given (Redis).                 *)
(***************************************************************************)
EXTENDS WorkflowMachine

CONSTANTS Transient,    \* states whose persistence is "transient"
          External,     \* states whose orchestration is "external"
          Paused,       \* states a turn does not run on into: these and composition
          Calls,        \* the calls of the application
          Convs,        \* 1 .. n, enough for every conversation that is opened
          MaxRounds,    \* toolPolicy.MaxRounds
          MaxFaults     \* how often something goes wrong

ASSUME WorkflowAssumption ==
    /\ Transient \subseteq States /\ External \subseteq Paused /\ Paused \subseteq States
    /\ Convs \subseteq Nat /\ 1 \in Convs /\ None \notin Calls \cup Convs
    /\ MaxRounds \in Nat \ {0} /\ MaxFaults \in Nat

VARIABLES
    mu,         \* who holds wc.mu
    closed,     \* wc.closed
    active,     \* activeConv, and with it transExec
    stateName,  \* activeStateName
    opened,     \* opened[k]: the state whose prompt conversation k was opened with, or None
    live,       \* the conversations that are not closed
    offered,    \* offered[k]: the events that the transition tool of k takes
    pending,    \* pending[k]: the event of the executor, with its call and its state
    holder,     \* holder[k]: who holds the lock of the executor
    appended,   \* historyAppended
    stored,     \* the store: workflow.current, and the list workflow.history
    at,         \* at[u]: the control of a call
    then,       \* then[u]: where it goes after a conversation is opened or the context saved
    conv,       \* conv[u]: the conversation it runs in
    round,      \* round[u]
    snap,       \* snap[u]: the context it is saving, and the length of the list then
    entered,    \* entered[s]: how often the state was entered since OpenWorkflow
    crashes,    \* how often the process died with calls in flight
    spoilt,     \* what went wrong
    faults      \* how often

convVars  == <<closed, active, stateName, opened, live, offered>>
execVars  == <<pending, holder>>
storeVars == <<appended, stored>>
callVars  == <<at, then, conv, round, snap>>
ghostVars == <<crashes, spoilt, faults>>
machineVars == <<machine, clock, entered>>
vars == <<machineVars, mu, convVars, execVars, storeVars, callVars, ghostVars>>

\* The transition tool of conversation k takes the events of state s; it is left
\* alone where somebody outside drives the workflow.  The registry refuses a
\* call with another event.
RegisterForState(k, s, tools) ==
    IF s \in External THEN tools ELSE [tools EXCEPT ![k] = EventsOf(s)]

\* OpenWorkflow, with a store that has nothing of this workflow.
Init ==
    /\ MachineInit
    /\ entered = NewContext.visits
    /\ mu = None /\ closed = FALSE
    /\ active = 1 /\ stateName = Entry /\ live = {1}
    /\ opened = [k \in Convs |-> IF k = 1 THEN Entry ELSE None]
    /\ offered = RegisterForState(1, Entry, [k \in Convs |-> {}])
    /\ pending = [k \in Convs |-> None] /\ holder = [k \in Convs |-> None]
    /\ appended = 0 /\ stored = [current |-> None, history |-> <<>>]
    /\ at = [u \in Calls |-> "idle"] /\ then = [u \in Calls |-> "done"]
    /\ conv = [u \in Calls |-> None] /\ round = [u \in Calls |-> 0]
    /\ snap = [u \in Calls |-> None]
    /\ crashes = 0 /\ spoilt = {} /\ faults = 0

Over == {"idle", "done", "failed", "lost"}
Active == {u \in Calls : at[u] \notin Over}

Goes(u, label) == at' = [at EXCEPT ![u] = label]
GoesThen(u, label, after) == Goes(u, label) /\ then' = [then EXCEPT ![u] = after]

\* Mutant: a call that fails keeps wc.mu.
ReturnsLocked(u, label) ==
    /\ at' = [at EXCEPT ![u] = label]
    /\ mu' = IF mu = u /\ label # "failed" THEN None ELSE mu

\* The call returns, and lets go of wc.mu.
Returns(u, label) ==
    /\ at' = [at EXCEPT ![u] = label]
    /\ mu' = IF mu = u THEN None ELSE mu

Fault(what) == faults < MaxFaults /\ faults' = faults + 1 /\ spoilt' = spoilt \cup {what}
NoFault == UNCHANGED <<spoilt, faults>>

\* Another call is in flight.
Overlaps == /\ spoilt' = IF Active = {} THEN spoilt ELSE spoilt \cup {"overlap"}
            /\ UNCHANGED faults

\* A transition of the machine, counted.
Moves(event) ==
    /\ ProcessEvent(event)
    /\ entered' = [entered EXCEPT ![machine'.state] = @ + 1]

-----------------------------------------------------------------------------
(* openConvForCurrentState.                                                *)

\* The conversation has fallen behind the machine.  A closed one is left
\* alone.
Drifted == active \in live /\ stateName # machine.state

Fresh == CHOOSE k \in Convs : opened[k] = None /\ \A j \in Convs : opened[j] = None => k <= j

\* The prompt of the machine's state is looked up, the old conversation closed
\* and the new one opened, as far as the bound on conversations allows.
Replaces(u, state) ==
    /\ \E k \in Convs : opened[k] = None
    /\ live' = live \ {active}
    /\ opened' = [opened EXCEPT ![Fresh] = state]
    /\ conv' = [conv EXCEPT ![u] = Fresh]
    /\ UNCHANGED <<closed, active, stateName, offered>>

\* Open has returned: the state is read again, and the tools are registered
\* with a new executor.
Opens(u) ==
    /\ at[u] = "open"
    /\ active' = conv[u] /\ live' = live \cup {conv[u]}
    /\ stateName' = machine.state
    /\ offered' = RegisterForState(conv[u], machine.state, offered)
    /\ CASE then[u] = "start" -> Goes(u, "start") /\ mu' = None
         [] then[u] = "save"  -> Goes(u, "save") /\ UNCHANGED mu
         [] OTHER             -> Returns(u, "done")
    /\ UNCHANGED <<machineVars, closed, opened, execVars, storeVars, then, conv, round, snap, ghostVars>>

\* Open fails: the conversation that was closed stays the active one.
OpenFails(u) ==
    /\ at[u] = "open" /\ Fault("open")
    /\ Returns(u, "failed")
    /\ UNCHANGED <<machineVars, convVars, execVars, storeVars, then, conv, round, snap, crashes>>

-----------------------------------------------------------------------------
(* persistWorkflowContext.                                                 *)

\* The context is copied, unless the state is transient.
Saves(u) ==
    /\ at[u] = "save"
    /\ IF machine.state \in Transient THEN Goes(u, "saved") /\ UNCHANGED snap
       ELSE Goes(u, "current") /\ snap' = [snap EXCEPT ![u] = [context |-> machine, base |-> 0]]
    /\ UNCHANGED <<machineVars, mu, convVars, execVars, storeVars, then, conv, round, ghostVars>>

\* appendWorkflowListDelta has nothing to send.
NothingNew(h) == appended >= Len(h)

\* MergeMetadata of workflow.current, without the history; a failure is logged.
\* Then historyAppended is read.
WritesCurrent(u) ==
    /\ at[u] = "current"
    /\ \/ stored' = [stored EXCEPT !.current = [snap[u].context EXCEPT !.history = <<>>]] /\ NoFault
       \/ Fault("store") /\ UNCHANGED stored
    /\ IF NothingNew(snap[u].context.history)
       THEN Goes(u, "saved") /\ snap' = [snap EXCEPT ![u] = None]
       ELSE Goes(u, "append") /\ snap' = [snap EXCEPT ![u].base = appended]
    /\ UNCHANGED <<machineVars, mu, convVars, execVars, appended, then, conv, round, crashes>>

\* AppendList of the new tail; after a failure, which may only be that of the
\* answer, the next save sends the tail again.
AppendsDelta(u) ==
    /\ at[u] = "append"
    /\ LET h    == snap[u].context.history
           more == [stored EXCEPT !.history = @ \o SubSeq(h, snap[u].base + 1, Len(h))]
       IN  \/ stored' = more /\ appended' = Len(h) /\ NoFault
           \/ Fault("store") /\ stored' \in {stored, more} /\ UNCHANGED appended
    /\ snap' = [snap EXCEPT ![u] = None]
    /\ Goes(u, "saved")
    /\ UNCHANGED <<machineVars, mu, convVars, execVars, then, conv, round, crashes>>

\* The hook has returned: the executor's lock is released, the turn goes on.
Saved(u) ==
    /\ at[u] = "saved"
    /\ holder' = [k \in Convs |-> IF holder[k] = u THEN None ELSE holder[k]]
    /\ IF then[u] = "save" THEN Returns(u, "done") ELSE Goes(u, then[u]) /\ UNCHANGED mu
    /\ UNCHANGED <<machineVars, convVars, pending, storeVars, then, conv, round, snap, ghostVars>>

-----------------------------------------------------------------------------
(* Send.                                                                   *)

\* ClearPending, of the active conversation's executor.
ClearPending == [pending EXCEPT ![active] = None]

\* The first section under wc.mu: what an earlier Send left pending is dropped,
\* and a conversation that fell behind is replaced.
SendBegins(u) ==
    /\ at[u] = "idle" /\ mu = None /\ ~closed /\ holder[active] = None
    /\ pending' = ClearPending
    /\ IF Drifted THEN Replaces(u, machine.state) /\ mu' = u /\ GoesThen(u, "open", "start")
       ELSE /\ GoesThen(u, "start", "start") /\ conv' = [conv EXCEPT ![u] = active]
            /\ UNCHANGED <<convVars, mu>>
    /\ Overlaps
    /\ UNCHANGED <<machineVars, holder, storeVars, round, snap, crashes>>

\* validateSendState.
Validates(u) ==
    /\ at[u] = "start"
    /\ Goes(u, IF conv[u] \in live THEN "handoff" ELSE "failed")
    /\ UNCHANGED <<machineVars, mu, convVars, execVars, storeVars, then, conv, round, snap, ghostVars>>

\* ResolveCurrentState: a transition that is pending is committed before the
\* next round.
Handoff(u) ==
    /\ at[u] = "handoff" /\ holder[conv[u]] = None
    /\ IF pending[conv[u]] = None THEN Goes(u, "round") /\ UNCHANGED then
       ELSE GoesThen(u, "commit", "arrived")
    /\ UNCHANGED <<machineVars, mu, convVars, execVars, storeVars, conv, round, snap, ghostVars>>

\* CommitPending.  The hook runs under the lock of the executor; it registers
\* the tool anew, with the active conversation, before it saves.
CommitPending(u) ==
    /\ at[u] = "commit" /\ holder[conv[u]] = None
    /\ LET k == conv[u]
       IN  /\ pending' = [pending EXCEPT ![k] = None]
           /\ IF pending[k] = None
              THEN Goes(u, then[u]) /\ UNCHANGED <<machineVars, holder, mu, offered>>
              ELSE \/ /\ Moves(pending[k].event)
                      /\ holder' = [holder EXCEPT ![k] = u]
                      /\ offered' = RegisterForState(active, machine'.state, offered)
                      /\ Goes(u, "save") /\ UNCHANGED mu
                   \/ /\ Refused(pending[k].event) /\ UNCHANGED <<entered, holder, offered>>
                      /\ Returns(u, "failed")
    /\ UNCHANGED <<closed, active, stateName, opened, live, storeVars, then, conv, round, snap, ghostVars>>

\* The turn goes on as the new state, unless that is one to wait in.
Arrives(u) ==
    /\ at[u] = "arrived"
    /\ Goes(u, IF machine.state \in Paused THEN "end" ELSE "round")
    /\ UNCHANGED <<machineVars, mu, convVars, execVars, storeVars, then, conv, round, snap, ghostVars>>

\* A round ends the turn, or fails.
RoundEnds(u) ==
    /\ at[u] = "round"
    /\ Goes(u, "end") \/ Goes(u, "failed")
    /\ UNCHANGED <<machineVars, mu, convVars, execVars, storeVars, then, conv, round, snap, ghostVars>>

LastRound(u) == round[u] + 1 = MaxRounds

\* A round calls tools, the transition tool perhaps: Execute.  Then comes the
\* handoff, unless the round was the last or the loop ends with it (StopOnTool,
\* a call that waits for somebody).
RoundCalls(u, event) ==
    /\ at[u] = "round" /\ holder[conv[u]] = None
    /\ event \in offered[conv[u]] \cup {None}
    /\ IncrementToolCalls /\ UNCHANGED <<clock, entered>>
    /\ pending' = IF event = None THEN pending
                  ELSE [pending EXCEPT ![conv[u]] = [event |-> event, by |-> u, in |-> machine.state]]
    /\ round' = [round EXCEPT ![u] = @ + 1]
    /\ \/ Goes(u, IF LastRound(u) THEN "failed" ELSE "handoff")
       \/ Goes(u, "end")
    /\ UNCHANGED <<mu, convVars, holder, storeVars, then, conv, snap, ghostVars>>

\* Mutant: what the last round scheduled is not committed.
SendJustEnds(u) ==
    /\ at[u] = "end" /\ mu = None
    /\ IF closed THEN Goes(u, "failed") /\ UNCHANGED <<mu, then, conv>>
       ELSE mu' = u /\ GoesThen(u, "reconcile", "reconcile") /\ conv' = [conv EXCEPT ![u] = active]
    /\ UNCHANGED <<machineVars, convVars, execVars, storeVars, round, snap, ghostVars>>

\* The last section under wc.mu: what is pending in the executor of the active
\* conversation is committed.
SendEnds(u) ==
    /\ at[u] = "end" /\ mu = None
    /\ IF closed THEN Goes(u, "failed") /\ UNCHANGED <<mu, then, conv>>
       ELSE mu' = u /\ GoesThen(u, "commit", "reconcile") /\ conv' = [conv EXCEPT ![u] = active]
    /\ UNCHANGED <<machineVars, convVars, execVars, storeVars, round, snap, ghostVars>>

\* reconcileActiveConv.
Reconciles(u) ==
    /\ at[u] = "reconcile"
    /\ IF Drifted THEN Replaces(u, machine.state) /\ GoesThen(u, "open", "done") /\ UNCHANGED mu
       ELSE Returns(u, "done") /\ UNCHANGED <<convVars, then, conv>>
    /\ UNCHANGED <<machineVars, execVars, storeVars, round, snap, ghostVars>>

-----------------------------------------------------------------------------
(* The other calls, and the process.                                       *)

Transition(u, event) ==
    /\ at[u] = "idle" /\ mu = None /\ ~closed
    /\ \/ Moves(event) /\ Replaces(u, machine'.state) /\ mu' = u /\ GoesThen(u, "open", "save")
       \/ Refused(event) /\ Goes(u, "failed") /\ UNCHANGED <<entered, mu, convVars, then, conv>>
    /\ Overlaps
    /\ UNCHANGED <<execVars, storeVars, round, snap, crashes>>

Close(u) ==
    /\ at[u] = "idle" /\ mu = None
    /\ closed' = TRUE /\ live' = live \ {active}
    /\ Goes(u, "done")
    /\ Overlaps
    /\ UNCHANGED <<machineVars, mu, active, stateName, opened, offered, execVars, storeVars, then,
                   conv, round, snap, crashes>>

\* Mutant: the resumed workflow believes that it has stored nothing.
SeededFromZero == 0

\* hydrateWorkflowContextLists: what of the history is stored already.
Seeded == Len(stored.history)

\* The process dies and another one takes the workflow up: ResumeWorkflow, or
\* OpenWorkflow when nothing is stored.
Restart ==
    /\ faults < MaxFaults /\ faults' = faults + 1
    /\ \E k \in Convs : opened[k] = None
    /\ crashes' = IF Active = {} THEN crashes ELSE crashes + 1
    /\ spoilt' = spoilt \cup {w \in {"torn"} : \E u \in Calls : at[u] = "append"}
    /\ at' = [u \in Calls |-> IF u \in Active THEN "lost" ELSE at[u]]
    /\ IF stored.current = None
       THEN machine' = NewContext /\ entered' = NewContext.visits /\ appended' = 0
       ELSE /\ machine' = [stored.current EXCEPT !.history = stored.history]
            /\ appended' = Seeded /\ UNCHANGED entered
    /\ mu' = None /\ closed' = FALSE /\ active' = Fresh /\ live' = {Fresh}
    /\ stateName' = machine'.state /\ opened' = [opened EXCEPT ![Fresh] = machine'.state]
    /\ offered' = RegisterForState(Fresh, machine'.state, [k \in Convs |-> {}])
    /\ holder' = [k \in Convs |-> None] /\ pending' = [k \in Convs |-> None]
    /\ snap' = [u \in Calls |-> None]
    /\ UNCHANGED <<clock, stored, then, conv, round>>

CallStep(u) ==
    \/ Opens(u) \/ Saves(u) \/ WritesCurrent(u) \/ AppendsDelta(u) \/ Saved(u)
    \/ Validates(u) \/ Handoff(u) \/ CommitPending(u) \/ Arrives(u) \/ RoundEnds(u)
    \/ \E event \in Events \cup {None} : RoundCalls(u, event)
    \/ SendEnds(u) \/ Reconciles(u)

Next == \/ \E u \in Calls : \/ SendBegins(u) \/ CallStep(u) \/ OpenFails(u) \/ Close(u)
                            \/ \E event \in Events : Transition(u, event)
        \/ Restart

Spec == Init /\ [][Next]_vars

\* Every goroutine runs on; providers, tools and stores answer.
FairSpec == Spec /\ \A u \in Calls : WF_vars(CallStep(u))

-----------------------------------------------------------------------------
(* Properties.                                                             *)
Transitions == [from : States, to : States, time : Nat]
Contexts == [state : States, visits : [States -> Nat], toolCalls : Nat, history : Seq(Transitions)]

\* The value of a store that has nothing is no context.
ASSUME NothingStored == None \notin Contexts

Labels == {"open", "save", "current", "append", "saved", "start", "handoff", "commit", "arrived",
           "round", "end", "reconcile"}

\* Every variable holds what the code can put there.
TypeOK ==
    /\ machine \in Contexts /\ clock \in Nat /\ entered \in [States -> Nat]
    /\ mu \in Calls \cup {None} /\ closed \in BOOLEAN
    /\ active \in Convs /\ stateName \in States /\ live \subseteq Convs
    /\ opened \in [Convs -> States \cup {None}] /\ offered \in [Convs -> SUBSET Events]
    /\ pending \in [Convs -> [event : Events, by : Calls, in : States] \cup {None}]
    /\ holder \in [Convs -> Calls \cup {None}]
    /\ appended \in Nat
    /\ stored \in [current : Contexts \cup {None}, history : Seq(Transitions)]
    /\ at \in [Calls -> Over \cup Labels]
    /\ then \in [Calls -> {"done", "start", "save", "arrived", "reconcile"}]
    /\ conv \in [Calls -> Convs \cup {None}] /\ round \in [Calls -> 0 .. MaxRounds]
    /\ snap \in [Calls -> [context : Contexts, base : Nat] \cup {None}]
    /\ crashes \in Nat /\ faults \in 0 .. MaxFaults
    /\ spoilt \subseteq {"overlap", "open", "store", "torn"}

Fine(excuses) == spoilt \cap excuses = {}

Fallbacks == {OnMaxVisits[s] : s \in States}

\* The limit on the visits of a state holds over the whole workflow, restarts
\* included, but for one visit in each crash; not of a state that is another's
\* fallback (machine.go ProcessEvent, workflow.go persistWorkflowContext).
LoopGuardHolds ==
    \A s \in States \ (Transient \cup Fallbacks) :
        MaxVisits[s] > 0 /\ Fine({"store", "open", "overlap"}) => entered[s] <= MaxVisits[s] + crashes

\* At rest the store has the workflow as it is: a restart goes on where it
\* stopped, and the history has every transition, as long as it was not trimmed
\* (workflow.go persistWorkflowContext).
StoreIsCurrent ==
    /\ Active = {} /\ machine.history # <<>> /\ machine.state \notin Transient
    /\ Fine({"store", "open", "overlap"})
    => /\ stored.current = [machine EXCEPT !.history = <<>>, !.toolCalls = stored.current.toolCalls]
       /\ clock <= MaxHistory => stored.history = machine.history

\* The stored history is a chain: no transition twice, none out of order, none
\* missing in the middle, whatever crashed between two saves, as long as it was
\* not trimmed: the trimmed transitions shift the tail that is appended
\* (workflow.go appendWorkflowListDelta, hydrateWorkflowContextLists).
HistoryChains ==
    Fine({"store", "overlap", "torn"}) /\ clock <= MaxHistory =>
        \A i \in 1 .. Len(stored.history) - 1 :
            /\ stored.history[i].to = stored.history[i + 1].from
            /\ stored.history[i].time < stored.history[i + 1].time

\* A turn starts in the conversation of the state that the workflow is in, also
\* after a turn that failed half-way (workflow.go Send, the comment on healing).
TurnStartsInState ==
    \A u \in Calls : at[u] = "start" /\ conv[u] \in live /\ Fine({"overlap"})
                        => opened[conv[u]] = machine.state

InTurn == {"handoff", "commit", "round", "arrived", "end"}

\* A turn commits only what its own model scheduled, in the state it scheduled
\* it in; what a failed turn left behind is never applied (workflow.go Send,
\* ClearPending).
PendingIsOwn ==
    \A u \in Calls : at[u] \in InTurn /\ pending[conv[u]] # None /\ Fine({"overlap"})
        => pending[conv[u]].by = u /\ pending[conv[u]].in = machine.state

\* The transition tool takes the events of the state that speaks, also after the
\* turn has moved on, and none in a terminal state (transition_executor.go
\* RegisterForState).
ToolFitsState ==
    \A u \in Calls : at[u] = "round" /\ Fine({"overlap"})
        => offered[conv[u]] \subseteq EventsOf(machine.state)

\* A transition that the model was told is scheduled has been committed when
\* Send returns (workflow.go commitDeferredTransition).
ScheduledIsCommitted ==
    \A u \in Calls : at[u] = "done" /\ Fine({"overlap"}) =>
        \A k \in Convs : pending[k] # None => pending[k].by # u

\* Every call returns: every path out of Send, Transition and Close lets go of
\* wc.mu, that of a conversation which cannot be opened included, and a commit,
\* whose hook saves under the executor's lock, lets go of that one (workflow.go
\* Send, transition_executor.go CommitPending).  The two are taken in one order,
\* wc.mu first.
EveryCallReturns == \A u \in Calls : at[u] # "idle" ~> at[u] \in Over

\* The machine and its tool agree: visit limits hold, and the transition tool
\* offers what the state allows (machine.go, transition_executor.go).
MachineConsistent == TypeOK /\ LoopGuardHolds /\ ToolFitsState

\* The store and the machine agree: workflow.current and workflow.history
\* together are the workflow (workflow.go persistContext).
StoreConsistent == StoreIsCurrent /\ HistoryChains

\* Turns and the machine agree: a turn begins in the state the workflow is in
\* and what it schedules is committed, once and for no other turn (workflow.go
\* Send, commitDeferredTransition).
TurnsConsistent == TurnStartsInState /\ PendingIsOwn /\ ScheduledIsCommitted
=============================================================================
