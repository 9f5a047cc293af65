--------------------------- MODULE WorkflowMachine ---------------------------
(***************************************************************************)
(* The state machine of a workflow (runtime/workflow/machine.go,           *)
(* context.go): states, events, the limits on visits, the budget, and the  *)
(* context that is persisted.  One lock around every operation, so every   *)
(* operation is atomic.  The wall-time budget, metadata and artifacts are  *)
(* left out; ArtifactHistory is kept the way History is, without its       *)
(* limit.                                                                  *)
(***************************************************************************)
EXTENDS Integers, Sequences, Functions

CONSTANTS States, Events,
          Entry,           \* spec.Entry
          Edges,           \* OnEvent of every state, as records [from, on, to]
          Terminal,        \* states marked terminal
          MaxVisits,       \* MaxVisits[s], 0 for no limit
          OnMaxVisits,     \* OnMaxVisits[s], or None
          MaxTotalVisits,  \* the limits of the budget, 0 for none
          MaxToolCalls,
          MaxHistory,      \* MaxHistoryLength
          None             \* no state, no event, nobody

ASSUME MachineAssumption ==
    /\ Entry \in States /\ Terminal \subseteq States
    /\ Edges \subseteq [from : States, on : Events, to : States]
    /\ \A d, e \in Edges : d.from = e.from /\ d.on = e.on => d = e
    /\ MaxVisits \in [States -> Nat] /\ OnMaxVisits \in [States -> States \cup {None}]
    /\ {MaxTotalVisits, MaxToolCalls} \subseteq Nat /\ MaxHistory \in Nat \ {0}
    /\ None \notin States \cup Events

VARIABLES machine,    \* sm.context: its state, visit counts, tool calls and history
          clock       \* the time of the last transition, in transitions

NewContext == [state |-> Entry, visits |-> [s \in States |-> IF s = Entry THEN 1 ELSE 0],
               toolCalls |-> 0, history |-> <<>>]

MachineInit == machine = NewContext /\ clock = 0

\* The events of a state; one without any is terminal.
EventsOf(s) == IF s \in Terminal THEN {} ELSE {e.on : e \in {e \in Edges : e.from = s}}

\* checkBudgetLocked.
BudgetExhausted ==
    \/ MaxTotalVisits > 0 /\ SumFunction(machine.visits) >= MaxTotalVisits
    \/ MaxToolCalls > 0 /\ machine.toolCalls >= MaxToolCalls

\* Mutant: one visit too many.
VisitedOutLate(s) == MaxVisits[s] > 0 /\ machine.visits[s] > MaxVisits[s]

\* The limit on the visits of a state is reached.
VisitedOut(s) == MaxVisits[s] > 0 /\ machine.visits[s] >= MaxVisits[s]

\* The state that ProcessEvent enters, {} if it returns an error.  Where the
\* visits are used up it is the fallback, whose own limit is not looked at.
Destination(event) ==
    IF BudgetExhausted \/ EventsOf(machine.state) = {} THEN {}
    ELSE UNION {IF ~VisitedOut(e.to) THEN {e.to} ELSE {OnMaxVisits[e.to]} \ {None} :
                e \in {e \in Edges : e.from = machine.state /\ e.on = event}}

\* The history keeps the latest transitions.
Trimmed(h) == IF Len(h) > MaxHistory THEN SubSeq(h, Len(h) - MaxHistory + 1, Len(h)) ELSE h

\* RecordTransition.
RecordTransition(to) ==
    /\ clock' = clock + 1
    /\ machine' = [machine EXCEPT
           !.state = to,
           !.visits[to] = @ + 1,
           !.history = Trimmed(Append(@, [from |-> machine.state, to |-> to, time |-> clock + 1]))]

ProcessEvent(event) == \E to \in Destination(event) : RecordTransition(to)

Refused(event) == Destination(event) = {} /\ UNCHANGED <<machine, clock>>

IncrementToolCalls == machine' = [machine EXCEPT !.toolCalls = @ + 1]
=============================================================================
