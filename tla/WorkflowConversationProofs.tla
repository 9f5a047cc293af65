---------------------- MODULE WorkflowConversationProofs ----------------------
(***************************************************************************)
(* The workflow conversation, for any workflow, any number of calls and    *)
(* conversations, any limits and any number of faults.                     *)
(*                                                                         *)
(* The properties speak of calls that do not overlap.  As long as they do  *)
(* not there is one call in flight, its conversation is the active one,    *)
(* or the one it opens, and what is pending there is its own.              *)
(*                                                                         *)
(* The limit on visits is counted over restarts: while the store does not  *)
(* fail, what is stored lags behind the machine by the visit that is being *)
(* saved, and a crash loses no more than that.                             *)
(***************************************************************************)
EXTENDS WorkflowConversation, WellFoundedInduction, TLAPS

-----------------------------------------------------------------------------
(* The types, and what the locals of a call hold at its label.             *)

Pendings == [event : Events, by : Calls, in : States] \cup {None}
Copies == [context : Contexts, base : Nat]
Snaps == Copies \cup {None}
Afters == {"done", "start", "save", "arrived", "reconcile"}

MachineType == machine \in Contexts /\ clock \in Nat /\ entered \in [States -> Nat]

ConvType ==
    /\ mu \in Calls \cup {None} /\ closed \in BOOLEAN
    /\ active \in Convs /\ stateName \in States /\ live \subseteq Convs
    /\ opened \in [Convs -> States \cup {None}] /\ offered \in [Convs -> SUBSET Events]

ExecType == pending \in [Convs -> Pendings] /\ holder \in [Convs -> Calls \cup {None}]

StoreType ==
    appended \in Nat /\ stored \in [current : Contexts \cup {None}, history : Seq(Transitions)]

CallType ==
    /\ at \in [Calls -> Over \cup Labels] /\ then \in [Calls -> Afters]
    /\ conv \in [Calls -> Convs \cup {None}] /\ round \in [Calls -> 0 .. MaxRounds]
    /\ snap \in [Calls -> Snaps]

GhostType ==
    /\ crashes \in Nat /\ faults \in 0 .. MaxFaults
    /\ spoilt \subseteq {"overlap", "open", "store", "torn"}

LEMMA TypeParts ==
    TypeOK <=> MachineType /\ ConvType /\ ExecType /\ StoreType /\ CallType /\ GhostType
BY DEF TypeOK, MachineType, ConvType, ExecType, StoreType, CallType, GhostType, Pendings, Copies, Snaps, Afters

Saving == {"save", "current", "append", "saved"}

\* Where a call may go on, by its label.
Thens(l) ==
    IF l = "open" THEN {"start", "save", "done"}
    ELSE IF l = "commit" THEN {"arrived", "reconcile"}
    ELSE IF l \in Saving THEN {"save", "arrived", "reconcile"}
    ELSE Afters

\* A turn at this label may come to another round.
RunsOn(l, after) ==
    \/ l \in {"idle", "start", "handoff", "round", "arrived"}
    \/ l = "open" /\ after = "start"
    \/ l \in Saving \cup {"commit"} /\ after = "arrived"

LocalsAt(u) ==
    /\ at[u] \in Labels => conv[u] \in Convs /\ opened[conv[u]] # None
    /\ at[u] \in {"current", "append"} => snap[u] \in Copies
    /\ then[u] \in Thens(at[u])
    /\ RunsOn(at[u], then[u]) => round[u] < MaxRounds

\* A conversation that was not opened has nothing.
UnopenedInv ==
    /\ opened[active] # None
    /\ \A k \in Convs : opened[k] = None => k \notin live /\ pending[k] = None /\ offered[k] = {}

Types == MachineType /\ ConvType /\ ExecType /\ StoreType /\ CallType /\ GhostType
LocalsInv == \A u \in Calls : LocalsAt(u)
TypeInv == Types /\ LocalsInv /\ UnopenedInv

-----------------------------------------------------------------------------
(* The operators of the machine.                                           *)

LEMMA EventsType == ASSUME NEW s PROVE EventsOf(s) \subseteq Events
<1>1. \A e \in Edges : e.on \in Events
    BY MachineAssumption
<1> QED BY <1>1 DEF EventsOf

LEMMA FreshIs ==
    ASSUME \E k \in Convs : opened[k] = None
    PROVE  Fresh \in Convs /\ opened[Fresh] = None
<1> DEFINE T == {k \in Convs : opened[k] = None}
<1>1. T # {} /\ T \subseteq Nat
    BY WorkflowAssumption
<1>2. PICK k \in T : \A j \in T : ~(<<j, k>> \in OpToRel(<, Nat))
    BY <1>1, NatLessThanWellFounded, WFMin
<1>3. ASSUME NEW j \in T PROVE k <= j
  <2>1. k \in Nat /\ j \in Nat
    BY <1>1
  <2>2. ~(j < k)
    <3> SUFFICES ASSUME j < k PROVE FALSE
        OBVIOUS
    <3>1. <<j, k>> \in {s \in Nat \X Nat : s[1] < s[2]}
      BY <2>1
    <3> QED BY <3>1, <1>2 DEF OpToRel
  <2> QED BY <2>1, <2>2
<1>4. \E i \in Convs : opened[i] = None /\ \A j \in Convs : opened[j] = None => i <= j
    BY <1>3
<1> QED BY <1>4 DEF Fresh

LEMMA ContextFields ==
    ASSUME NEW c \in Contexts
    PROVE  /\ c.state \in States /\ c.visits \in [States -> Nat] /\ c.toolCalls \in Nat
           /\ c.history \in Seq(Transitions)
BY DEF Contexts

LEMMA NewContextType ==
    /\ NewContext \in Contexts /\ NewContext.state = Entry /\ NewContext.history = <<>>
    /\ NewContext.visits = [s \in States |-> IF s = Entry THEN 1 ELSE 0]
<1>1. <<>> \in Seq(Transitions)
    OBVIOUS
<1>2. [s \in States |-> IF s = Entry THEN 1 ELSE 0] \in [States -> Nat]
    OBVIOUS
<1> QED BY <1>1, <1>2, MachineAssumption DEF NewContext, Contexts

LEMMA TrimmedType ==
    ASSUME NEW h \in Seq(Transitions)
    PROVE  /\ Trimmed(h) \in Seq(Transitions)
           /\ Len(h) <= MaxHistory => Trimmed(h) = h
<1>1. MaxHistory \in Nat \ {0} /\ Len(h) \in Nat
    BY MachineAssumption
<1>2. CASE Len(h) > MaxHistory
  <2>1. Len(h) - MaxHistory + 1 \in Nat /\ Len(h) - MaxHistory + 1 >= 1
    BY <1>1, <1>2
  <2>2. SubSeq(h, Len(h) - MaxHistory + 1, Len(h)) \in Seq(Transitions)
    BY <1>1, <2>1
  <2> QED BY <1>1, <1>2, <2>2 DEF Trimmed
<1>3. CASE ~(Len(h) > MaxHistory)
    BY <1>1, <1>3 DEF Trimmed
<1> QED BY <1>2, <1>3

\* The state entered is one that its own limit allows, or a fallback.
LEMMA DestinationIs ==
    ASSUME NEW event, NEW to \in Destination(event)
    PROVE  /\ to \in States
           /\ ~VisitedOut(to) \/ to \in Fallbacks
<1>1. PICK e \in Edges : to \in IF ~VisitedOut(e.to) THEN {e.to} ELSE {OnMaxVisits[e.to]} \ {None}
    BY DEF Destination
<1>2. e.to \in States /\ OnMaxVisits[e.to] \in States \cup {None}
    BY MachineAssumption
<1> QED BY <1>1, <1>2 DEF Fallbacks

LEMMA ContextUpdate ==
    ASSUME NEW S, NEW V, NEW T, NEW H, NEW m \in [state : S, visits : V, toolCalls : T, history : H],
           NEW x \in S, NEW v \in V, NEW h \in H, NEW n,
           n = [[[m EXCEPT !.state = x] EXCEPT !.visits = v] EXCEPT !.history = h]
    PROVE  /\ [m EXCEPT !.state = x].visits = m.visits
           /\ n.state = x /\ n.visits = v /\ n.toolCalls = m.toolCalls /\ n.history = h
           /\ n \in [state : S, visits : V, toolCalls : T, history : H]
OBVIOUS

\* What a transition does.
LEMMA MovesTo ==
    ASSUME MachineType, NEW event, Moves(event)
    PROVE  /\ MachineType'
           /\ \E to \in States :
                 /\ ~VisitedOut(to) \/ to \in Fallbacks
                 /\ machine'.state = to
                 /\ machine'.visits = [machine.visits EXCEPT ![to] = @ + 1]
                 /\ machine'.history = Trimmed(Append(machine.history,
                        [from |-> machine.state, to |-> to, time |-> clock + 1]))
                 /\ entered' = [entered EXCEPT ![to] = @ + 1]
                 /\ clock' = clock + 1
<1>1. PICK to \in Destination(event) : RecordTransition(to)
    BY DEF Moves, ProcessEvent
<1>2. to \in States /\ (~VisitedOut(to) \/ to \in Fallbacks)
    BY DestinationIs
<1> DEFINE h == Trimmed(Append(machine.history, [from |-> machine.state, to |-> to, time |-> clock + 1]))
<1>3. /\ clock' = clock + 1
      /\ machine' = [machine EXCEPT !.state = to, !.visits[to] = @ + 1, !.history = h]
    BY <1>1 DEF RecordTransition
<1>4. /\ machine.state \in States /\ machine.visits \in [States -> Nat] /\ machine.toolCalls \in Nat
      /\ machine.history \in Seq(Transitions) /\ clock \in Nat
    BY ContextFields DEF MachineType
<1> DEFINE tr == [from |-> machine.state, to |-> to, time |-> clock + 1]
<1>5. tr \in Transitions
    BY <1>2, <1>4 DEF Transitions
<1>6. h \in Seq(Transitions)
  <2> HIDE DEF tr
  <2>1. Append(machine.history, tr) \in Seq(Transitions)
    BY <1>4, <1>5
  <2> QED BY <2>1, TrimmedType DEF tr
<1> DEFINE v == [machine.visits EXCEPT ![to] = @ + 1]
<1>7. /\ machine'.state = to /\ machine'.visits = v
      /\ machine'.history = h /\ machine' \in Contexts
  <2>1. v \in [States -> Nat]
    BY <1>2, <1>4
  <2>2. [machine EXCEPT !.state = to].visits = machine.visits
    BY <1>2, <1>4, <1>6, ContextUpdate DEF MachineType, Contexts
  <2>3. machine' = [[[machine EXCEPT !.state = to] EXCEPT !.visits = v] EXCEPT !.history = h]
    BY <1>3, <2>2
  <2> HIDE DEF v, h
  <2> QED BY <1>2, <1>6, <2>1, <2>3, ContextUpdate DEF MachineType, Contexts
<1>8. entered' = [entered EXCEPT ![to] = @ + 1]
    BY <1>7 DEF Moves
<1>9. MachineType'
    BY <1>2, <1>3, <1>4, <1>7, <1>8 DEF MachineType
<1> QED BY <1>2, <1>3, <1>7, <1>8, <1>9 DEF h

-----------------------------------------------------------------------------
(* Type correctness, one lemma per group of actions.                       *)

LEMMA TypeInit == Init => TypeInv
<1> SUFFICES ASSUME Init PROVE TypeInv
    OBVIOUS
<1>1. MachineType
    BY NewContextType, MachineAssumption DEF Init, MachineInit, MachineType
<1>2. ConvType
  <2>1. [k \in Convs |-> {}] \in [Convs -> SUBSET Events]
    OBVIOUS
  <2>2. offered \in [Convs -> SUBSET Events]
    BY <2>1, EventsType, WorkflowAssumption DEF Init, RegisterForState
  <2> QED BY <2>2, WorkflowAssumption, MachineAssumption DEF Init, ConvType
<1>3. ExecType
    BY DEF Init, ExecType, Pendings
<1>4. StoreType
  <2>1. <<>> \in Seq(Transitions)
    OBVIOUS
  <2> QED BY <2>1 DEF Init, StoreType
<1>5. CallType
    BY WorkflowAssumption DEF Init, CallType, Over, Labels, Afters, Snaps
<1>6. GhostType
    BY WorkflowAssumption DEF Init, GhostType
<1>7. LocalsInv
    BY WorkflowAssumption DEF Init, LocalsInv, LocalsAt, Labels, Thens, Saving, Afters
<1>8. UnopenedInv
  <2>1. \A k \in Convs \ {1} : offered[k] = {}
    BY DEF Init, RegisterForState
  <2> QED BY <2>1, MachineAssumption, WorkflowAssumption DEF Init, UnopenedInv
<1> QED BY <1>1, <1>2, <1>3, <1>4, <1>5, <1>6, <1>7, <1>8 DEF TypeInv, Types

\* A call goes from one label to another.
LEMMA CallMoves ==
    ASSUME TypeInv, NEW u \in Calls, NEW l \in Over \cup Labels, at' = [at EXCEPT ![u] = l],
           then' \in [Calls -> Afters], conv' \in [Calls -> Convs \cup {None}],
           round' \in [Calls -> 0 .. MaxRounds], snap' \in [Calls -> Snaps],
           \A v \in Calls \ {u} : /\ then'[v] = then[v] /\ conv'[v] = conv[v]
                                  /\ round'[v] = round[v] /\ snap'[v] = snap[v],
           \A k \in Convs : opened[k] # None => opened'[k] # None,
           l \in Labels => conv'[u] \in Convs /\ opened'[conv'[u]] # None,
           l \in {"current", "append"} => snap'[u] \in Copies,
           then'[u] \in Thens(l),
           RunsOn(l, then'[u]) => round'[u] < MaxRounds
    PROVE  CallType' /\ LocalsInv'
<1>1. \A v \in Calls : at'[v] = IF v = u THEN l ELSE at[v]
    BY DEF TypeInv, Types, CallType
<1>2. CallType'
    BY DEF TypeInv, Types, CallType
<1>3. ASSUME NEW v \in Calls PROVE LocalsAt(v)'
  <2>1. CASE v = u
    BY <1>1, <2>1 DEF LocalsAt
  <2>2. CASE v # u
    BY <1>1, <2>2 DEF LocalsAt, TypeInv, LocalsInv
  <2> QED BY <2>1, <2>2
<1> QED BY <1>2, <1>3 DEF LocalsInv

LEMMA StoreTypeSame == ASSUME StoreType, UNCHANGED storeVars PROVE StoreType'
BY DEF StoreType, storeVars

LEMMA GhostTypeSame == ASSUME GhostType, UNCHANGED ghostVars PROVE GhostType'
BY DEF GhostType, ghostVars

LEMMA MachineTypeSame == ASSUME MachineType, UNCHANGED machineVars PROVE MachineType'
BY DEF MachineType, machineVars

LEMMA ConvsSame ==
    ASSUME ConvType, ExecType, UnopenedInv, UNCHANGED <<convVars, execVars>>, mu' \in Calls \cup {None}
    PROVE  ConvType' /\ ExecType' /\ UnopenedInv'
BY DEF ConvType, ExecType, UnopenedInv, convVars, execVars

\* The steps of a turn that leave the machine, the conversations and the store.
TurnStep(u) == Validates(u) \/ Handoff(u) \/ Arrives(u) \/ RoundEnds(u) \/ SendEnds(u)

LEMMA TurnStepIs ==
    ASSUME TypeInv, NEW u \in Calls, TurnStep(u)
    PROVE  /\ UNCHANGED <<machineVars, convVars, execVars, storeVars, round, snap, ghostVars>>
           /\ mu' \in Calls \cup {None}
           /\ \/ at[u] = "start" /\ UNCHANGED <<then, conv>>
                 /\ \/ at' = [at EXCEPT ![u] = "handoff"] /\ conv[u] \in live
                    \/ at' = [at EXCEPT ![u] = "failed"]
              \/ at[u] = "handoff" /\ UNCHANGED conv
                 /\ \/ at' = [at EXCEPT ![u] = "round"] /\ UNCHANGED then /\ pending[conv[u]] = None
                    \/ at' = [at EXCEPT ![u] = "commit"] /\ then' = [then EXCEPT ![u] = "arrived"]
              \/ at[u] = "arrived" /\ UNCHANGED <<then, conv>>
                 /\ \/ at' = [at EXCEPT ![u] = "end"]
                    \/ at' = [at EXCEPT ![u] = "round"] /\ machine.state \notin Paused
              \/ at[u] = "round" /\ UNCHANGED <<then, conv>>
                 /\ \/ at' = [at EXCEPT ![u] = "end"]
                    \/ at' = [at EXCEPT ![u] = "failed"]
              \/ at[u] = "end"
                 /\ \/ at' = [at EXCEPT ![u] = "failed"] /\ UNCHANGED <<then, conv>>
                    \/ /\ at' = [at EXCEPT ![u] = "commit"] /\ then' = [then EXCEPT ![u] = "reconcile"]
                       /\ conv' = [conv EXCEPT ![u] = active]
<1>1. UNCHANGED <<machineVars, convVars, execVars, storeVars, round, snap, ghostVars>>
    BY DEF TurnStep, Validates, Handoff, Arrives, RoundEnds, SendEnds
<1>2. mu' \in Calls \cup {None}
    BY DEF TurnStep, Validates, Handoff, Arrives, RoundEnds, SendEnds, TypeInv, Types, ConvType
<1>3. CASE Validates(u)
    BY <1>1, <1>2, <1>3 DEF Validates, Goes
<1>4. CASE Handoff(u)
    BY <1>1, <1>2, <1>4 DEF Handoff, Goes, GoesThen
<1>5. CASE Arrives(u)
    BY <1>1, <1>2, <1>5 DEF Arrives, Goes
<1>6. CASE RoundEnds(u)
    BY <1>1, <1>2, <1>6 DEF RoundEnds, Goes
<1>7. CASE SendEnds(u)
    BY <1>1, <1>2, <1>7 DEF SendEnds, Goes, GoesThen
<1> QED BY <1>3, <1>4, <1>5, <1>6, <1>7 DEF TurnStep

LEMMA TurnType ==
    ASSUME TypeInv, NEW u \in Calls, TurnStep(u)
    PROVE  TypeInv'
<1>1. /\ UNCHANGED <<machineVars, convVars, execVars, storeVars, round, snap, ghostVars>>
      /\ mu' \in Calls \cup {None}
    BY TurnStepIs
<1>2. MachineType' /\ ConvType' /\ ExecType' /\ StoreType' /\ GhostType' /\ UnopenedInv'
    BY <1>1, MachineTypeSame, ConvsSame, StoreTypeSame, GhostTypeSame DEF TypeInv, Types
<1>3. /\ then \in [Calls -> Afters] /\ conv \in [Calls -> Convs \cup {None}]
      /\ active \in Convs /\ opened[active] # None /\ UNCHANGED <<opened, round, snap>>
    BY <1>1 DEF TypeInv, Types, CallType, ConvType, UnopenedInv, convVars
<1>4. at[u] \in Labels /\ at[u] \in {"start", "handoff", "arrived", "round", "end"}
    BY TurnStepIs DEF Labels
<1>5. conv[u] \in Convs /\ opened[conv[u]] # None /\ then[u] \in Afters
    BY <1>3, <1>4 DEF TypeInv, LocalsInv, LocalsAt
<1>6. at[u] # "end" => round[u] < MaxRounds
    BY <1>4 DEF TypeInv, LocalsInv, LocalsAt, RunsOn
<1>7. PICK l \in {"handoff", "failed", "round", "commit", "end"} :
         /\ at' = [at EXCEPT ![u] = l]
         /\ UNCHANGED then \/ \E a \in {"arrived", "reconcile"} : then' = [then EXCEPT ![u] = a]
         /\ UNCHANGED conv \/ conv' = [conv EXCEPT ![u] = active]
         /\ l = "commit" => then'[u] \in {"arrived", "reconcile"}
         /\ RunsOn(l, then'[u]) => at[u] # "end"
  <2>1. \A a : [then EXCEPT ![u] = a][u] = a
    BY <1>3
  <2>2. RunsOn("commit", "arrived") /\ ~RunsOn("commit", "reconcile") /\ \A a : ~RunsOn("failed", a)
    BY DEF RunsOn, Saving
  <2> QED BY TurnStepIs, <2>1, <2>2
<1>8. /\ then' \in [Calls -> Afters] /\ conv' \in [Calls -> Convs \cup {None}]
      /\ \A v \in Calls \ {u} : then'[v] = then[v] /\ conv'[v] = conv[v]
      /\ conv'[u] \in Convs /\ opened[conv'[u]] # None
    BY <1>3, <1>5, <1>7 DEF Afters
<1>9. then'[u] \in Thens(l)
    BY <1>7, <1>8 DEF Thens, Saving
<1>10. l \in Over \cup Labels /\ l \notin {"current", "append"}
    BY DEF Over, Labels
<1>11. round' \in [Calls -> 0 .. MaxRounds] /\ snap' \in [Calls -> Snaps]
    BY <1>1 DEF TypeInv, Types, CallType
<1>12. CallType' /\ LocalsInv'
    BY <1>3, <1>6, <1>7, <1>8, <1>9, <1>10, <1>11, CallMoves
<1> QED BY <1>2, <1>12 DEF TypeInv, Types

LEMMA FaultType ==
    ASSUME GhostType, NEW w \in {"open", "store"}, Fault(w) \/ NoFault, UNCHANGED crashes
    PROVE  GhostType'
<1>1. MaxFaults \in Nat
    BY WorkflowAssumption
<1>2. faults' \in 0 .. MaxFaults
    BY <1>1 DEF GhostType, Fault, NoFault
<1>3. spoilt' \subseteq {"overlap", "open", "store", "torn"}
    BY DEF GhostType, Fault, NoFault
<1> QED BY <1>2, <1>3 DEF GhostType

\* What a save does to the call that makes it.
LEMMA SavingIs ==
    ASSUME TypeInv, NEW u \in Calls, Saves(u) \/ WritesCurrent(u) \/ AppendsDelta(u) \/ Saved(u)
    PROVE  /\ UNCHANGED <<machineVars, convVars, pending, then, conv, round>>
           /\ at[u] \in Saving
           /\ \E l \in {"current", "append", "saved"} : /\ at' = [at EXCEPT ![u] = l] /\ UNCHANGED <<mu, holder>>
                                                        /\ ~Saved(u)
              \/ /\ Saved(u)
                 /\ \/ then[u] = "save" /\ at' = [at EXCEPT ![u] = "done"] /\ mu' \in {mu, None}
                    \/ then[u] # "save" /\ at' = [at EXCEPT ![u] = then[u]] /\ UNCHANGED mu
<1>1. UNCHANGED <<machineVars, convVars, pending, then, conv, round>>
    BY DEF Saves, WritesCurrent, AppendsDelta, Saved, execVars
<1>2. CASE Saves(u)
    BY <1>1, <1>2 DEF Saves, Saved, Goes, Saving, execVars
<1>3. CASE WritesCurrent(u)
    BY SMTT(40), <1>1, <1>3 DEF WritesCurrent, Saved, Goes, Saving, execVars
<1>4. CASE AppendsDelta(u)
    BY <1>1, <1>4 DEF AppendsDelta, Saved, Goes, Saving, execVars
<1>5. CASE Saved(u)
    BY <1>1, <1>5 DEF Saved, Goes, Returns, Saving
<1> QED BY <1>2, <1>3, <1>4, <1>5

LEMMA CopyFields ==
    ASSUME NEW c \in Copies PROVE c.context \in Contexts /\ c.base \in Nat
BY DEF Copies

LEMMA StoredFields ==
    ASSUME StoreType PROVE stored.current \in Contexts \cup {None} /\ stored.history \in Seq(Transitions)
BY DEF StoreType

LEMMA SaveStores ==
    ASSUME TypeInv, NEW u \in Calls, Saves(u) \/ WritesCurrent(u) \/ AppendsDelta(u) \/ Saved(u)
    PROVE  /\ StoreType' /\ GhostType' /\ snap' \in [Calls -> Snaps]
           /\ \A v \in Calls \ {u} : snap'[v] = snap[v]
           /\ at'[u] \in {"current", "append"} => snap'[u] \in Copies
<1>1. /\ StoreType /\ GhostType /\ MachineType /\ snap \in [Calls -> Snaps]
      /\ at \in [Calls -> Over \cup Labels]
    BY DEF TypeInv, Types, CallType
<1>2. CASE Saves(u)
  <2>1. UNCHANGED <<storeVars, ghostVars>>
    BY <1>2 DEF Saves
  <2>2. CASE Goes(u, "saved") /\ UNCHANGED snap
    BY <1>1, <2>1, <2>2, StoreTypeSame, GhostTypeSame DEF Goes
  <2>3. CASE snap' = [snap EXCEPT ![u] = [context |-> machine, base |-> 0]]
    <3>1. [context |-> machine, base |-> 0] \in Copies
      BY <1>1 DEF MachineType, Copies
    <3> QED BY <1>1, <2>1, <2>3, <3>1, StoreTypeSame, GhostTypeSame DEF Snaps
  <2> QED BY <1>2, <2>2, <2>3 DEF Saves
<1>3. CASE WritesCurrent(u)
  <2>1. at[u] = "current" /\ snap[u] \in Copies
    BY <1>3 DEF WritesCurrent, TypeInv, LocalsInv, LocalsAt
  <2>2. GhostType'
    BY <1>1, <1>3, FaultType DEF WritesCurrent
  <2> DEFINE c == [snap[u].context EXCEPT !.history = <<>>]
  <2>3. c \in Contexts
    <3>1. snap[u].context \in Contexts /\ <<>> \in Seq(Transitions)
      BY <2>1, CopyFields
    <3> QED BY <3>1 DEF Contexts
  <2>4. /\ UNCHANGED appended
        /\ stored' = [stored EXCEPT !.current = c] \/ UNCHANGED stored
    BY <1>3 DEF WritesCurrent
  <2> HIDE DEF c
  <2>5. StoreType'
    BY <1>1, <2>3, <2>4 DEF StoreType
  <2>6. CASE Goes(u, "saved") /\ snap' = [snap EXCEPT ![u] = None]
    BY <1>1, <2>2, <2>5, <2>6 DEF Goes, Snaps
  <2>7. CASE snap' = [snap EXCEPT ![u].base = appended]
    <3>1. [snap[u] EXCEPT !.base = appended] \in Copies
      BY SMTT(40), <1>1, <2>1 DEF Copies, StoreType
    <3>2. snap' = [snap EXCEPT ![u] = [snap[u] EXCEPT !.base = appended]]
      BY <2>7
    <3> QED BY <1>1, <2>2, <2>5, <3>1, <3>2 DEF Snaps
  <2> QED BY <1>3, <2>6, <2>7 DEF WritesCurrent
<1>4. CASE AppendsDelta(u)
  <2>1. at[u] = "append" /\ snap[u] \in Copies
    BY ZenonT(60), <1>4 DEF AppendsDelta, TypeInv, LocalsInv, LocalsAt
  <2>2. GhostType'
    BY <1>1, <1>4, FaultType DEF AppendsDelta
  <2> DEFINE h == snap[u].context.history
  <2> DEFINE tail == SubSeq(h, snap[u].base + 1, Len(h))
  <2>3. h \in Seq(Transitions) /\ snap[u].base \in Nat
    BY <2>1, CopyFields, ContextFields
  <2>4. tail \in Seq(Transitions) /\ Len(h) \in Nat
    <3> HIDE DEF h
    <3>1. Len(h) \in Nat /\ snap[u].base + 1 \in Nat /\ snap[u].base + 1 >= 1
      BY <2>3
    <3> QED BY SMTT(40), <2>3, <3>1
  <2>5. /\ \/ appended' = Len(h) \/ UNCHANGED appended
        /\ \/ stored' = [stored EXCEPT !.history = @ \o tail] \/ UNCHANGED stored
    BY <1>4 DEF AppendsDelta
  <2>6. StoreType'
    <3> HIDE DEF tail, h
    <3>1. stored.history \o tail \in Seq(Transitions)
      BY <1>1, <2>4, StoredFields
    <3> DEFINE more == stored.history \o tail
    <3>2. stored' = [stored EXCEPT !.history = more] \/ UNCHANGED stored
      BY <2>5
    <3> HIDE DEF more
    <3>3. more \in Seq(Transitions)
      BY <3>1 DEF more
    <3>4. stored' \in [current : Contexts \cup {None}, history : Seq(Transitions)]
      <4> DEFINE H == Seq(Transitions)
      <4>1. more \in H /\ stored \in [current : Contexts \cup {None}, history : H]
        BY <1>1, <3>3 DEF StoreType
      <4> HIDE DEF H
      <4>2. stored' \in [current : Contexts \cup {None}, history : H]
        BY SMTT(40), <3>2, <4>1
      <4> QED BY <4>2 DEF H
    <3> QED BY <1>1, <2>4, <2>5, <3>4 DEF StoreType
  <2>7. Goes(u, "saved") /\ snap' = [snap EXCEPT ![u] = None]
    BY <1>4 DEF AppendsDelta
  <2> QED BY <1>1, <2>2, <2>6, <2>7 DEF Goes, Snaps
<1>5. CASE Saved(u)
  <2>1. UNCHANGED <<storeVars, ghostVars, snap>>
    BY <1>5 DEF Saved
  <2>2. at' = [at EXCEPT ![u] = "done"] \/ at' = [at EXCEPT ![u] = then[u]]
    BY <1>5 DEF Saved, Returns, Goes
  <2>3. at'[u] \notin {"current", "append"}
    BY <1>1, <2>2 DEF TypeInv, Types, CallType, Afters
  <2> QED BY <1>1, <2>1, <2>3, StoreTypeSame, GhostTypeSame
<1> QED BY <1>2, <1>3, <1>4, <1>5

LEMMA SaveType ==
    ASSUME TypeInv, NEW u \in Calls, Saves(u) \/ WritesCurrent(u) \/ AppendsDelta(u) \/ Saved(u)
    PROVE  TypeInv'
<1>1. UNCHANGED <<machineVars, convVars, pending, then, conv, round>> /\ at[u] \in Saving
    BY SavingIs
<1>2. /\ StoreType' /\ GhostType' /\ snap' \in [Calls -> Snaps]
      /\ \A v \in Calls \ {u} : snap'[v] = snap[v]
      /\ at'[u] \in {"current", "append"} => snap'[u] \in Copies
    BY SaveStores
<1>3. /\ CallType /\ then[u] \in {"save", "arrived", "reconcile"}
      /\ conv[u] \in Convs /\ opened[conv[u]] # None
      /\ then[u] = "arrived" => round[u] < MaxRounds
    BY <1>1 DEF TypeInv, Types, LocalsInv, LocalsAt, Thens, Saving, RunsOn, Labels
<1>4. PICK l \in {"current", "append", "saved", "done", "arrived", "reconcile"} :
         /\ at' = [at EXCEPT ![u] = l]
         /\ l \in {"arrived", "reconcile"} => l = then[u]
    BY <1>3, SavingIs
<1>5. at'[u] = l
    BY <1>3, <1>4 DEF CallType
<1>6. l \in Over \cup Labels
    BY DEF Over, Labels
<1>7. then[u] \in Thens(l)
    BY <1>3 DEF Thens, Saving, Afters
<1>8. RunsOn(l, then[u]) => then[u] = "arrived"
    BY <1>3, <1>4 DEF RunsOn, Saving
<1>9. /\ then' \in [Calls -> Afters] /\ conv' \in [Calls -> Convs \cup {None}]
      /\ round' \in [Calls -> 0 .. MaxRounds] /\ UNCHANGED <<then, conv, round, opened>>
    BY <1>1, <1>3 DEF CallType, convVars
<1>10. CallType' /\ LocalsInv'
    BY <1>2, <1>3, <1>4, <1>5, <1>6, <1>7, <1>8, <1>9, CallMoves
<1>11. MachineType'
    BY <1>1, MachineTypeSame DEF TypeInv, Types
<1>12. mu' \in Calls \cup {None} /\ holder' \in [Convs -> Calls \cup {None}]
  <2>1. mu' \in {mu, None}
    BY SavingIs
  <2>2. UNCHANGED holder \/ holder' = [k \in Convs |-> IF holder[k] = u THEN None ELSE holder[k]]
    BY DEF Saves, WritesCurrent, AppendsDelta, Saved, execVars
  <2> QED BY <2>1, <2>2 DEF TypeInv, Types, ConvType, ExecType
<1>13. ConvType' /\ ExecType' /\ UnopenedInv'
    BY <1>1, <1>12 DEF TypeInv, Types, ConvType, ExecType, UnopenedInv, convVars
<1> QED BY <1>2, <1>10, <1>11, <1>13 DEF TypeInv, Types

\* The conversation that is opened was not open before.
LEMMA ReplacesType ==
    ASSUME TypeInv, NEW u \in Calls, NEW s \in States, Replaces(u, s),
           UNCHANGED holder, pending' \in [Convs -> Pendings],
           \A k \in Convs : pending[k] = None => pending'[k] = None,
           mu' \in Calls \cup {None}
    PROVE  /\ ConvType' /\ ExecType' /\ UnopenedInv'
           /\ Fresh \in Convs /\ opened[Fresh] = None /\ Fresh # active
           /\ conv' = [conv EXCEPT ![u] = Fresh] /\ conv'[u] = Fresh
           /\ conv' \in [Calls -> Convs \cup {None}] /\ \A v \in Calls \ {u} : conv'[v] = conv[v]
           /\ opened' = [opened EXCEPT ![Fresh] = s] /\ opened'[Fresh] = s
           /\ \A k \in Convs : opened[k] # None => opened'[k] # None /\ opened'[k] = opened[k]
<1>1. Fresh \in Convs /\ opened[Fresh] = None
    BY FreshIs DEF Replaces
<1>2. s # None
    BY MachineAssumption
<1>3. ConvType /\ ExecType /\ UnopenedInv /\ conv \in [Calls -> Convs \cup {None}]
    BY DEF TypeInv, Types, CallType
<1> HIDE DEF Fresh
<1>4. /\ live' = live \ {active} /\ opened' = [opened EXCEPT ![Fresh] = s]
      /\ conv' = [conv EXCEPT ![u] = Fresh] /\ UNCHANGED <<closed, active, stateName, offered>>
    BY DEF Replaces
<1>5. opened' \in [Convs -> States \cup {None}]
    BY <1>1, <1>3, <1>4 DEF ConvType
<1>6. \A k \in Convs : opened'[k] = IF k = Fresh THEN s ELSE opened[k]
    BY <1>1, <1>3, <1>4 DEF ConvType
<1>7. ConvType'
    BY <1>3, <1>4, <1>5 DEF ConvType
<1>8. ExecType'
    BY <1>3 DEF ExecType
<1>9. Fresh # active
    BY <1>1, <1>3 DEF UnopenedInv
<1>10. UnopenedInv'
    BY <1>2, <1>3, <1>4, <1>6 DEF UnopenedInv, ConvType
<1>11. /\ conv' \in [Calls -> Convs \cup {None}] /\ \A v \in Calls \ {u} : conv'[v] = conv[v]
       /\ conv'[u] = Fresh
    BY <1>1, <1>3, <1>4
<1>12. opened'[Fresh] = s /\ \A k \in Convs : opened[k] # None => opened'[k] # None /\ opened'[k] = opened[k]
    BY <1>1, <1>6
<1> QED BY <1>1, <1>4, <1>7, <1>8, <1>9, <1>10, <1>11, <1>12

\* The registered tools.
LEMMA RegisteredType ==
    ASSUME NEW k \in Convs, NEW s, NEW tools \in [Convs -> SUBSET Events]
    PROVE  /\ RegisterForState(k, s, tools) \in [Convs -> SUBSET Events]
           /\ \A j \in Convs \ {k} : RegisterForState(k, s, tools)[j] = tools[j]
           /\ RegisterForState(k, s, tools)[k] = IF s \in External THEN tools[k] ELSE EventsOf(s)
<1>1. EventsOf(s) \in SUBSET Events
    BY EventsType
<1> QED BY <1>1 DEF RegisterForState

LEMMA OpensType ==
    ASSUME TypeInv, NEW u \in Calls, Opens(u)
    PROVE  TypeInv'
<1>1. /\ at[u] = "open" /\ active' = conv[u] /\ live' = live \cup {conv[u]}
      /\ stateName' = machine.state
      /\ offered' = RegisterForState(conv[u], machine.state, offered)
      /\ UNCHANGED <<machineVars, closed, opened, execVars, storeVars, then, conv, round, snap, ghostVars>>
    BY DEF Opens
<1>2. /\ conv[u] \in Convs /\ opened[conv[u]] # None /\ then[u] \in {"start", "save", "done"}
      /\ then[u] = "start" => round[u] < MaxRounds
    BY <1>1 DEF TypeInv, LocalsInv, LocalsAt, Thens, Labels, RunsOn
<1>3. PICK l \in {"start", "save", "done"} : at' = [at EXCEPT ![u] = l] /\ l = then[u]
    BY <1>2 DEF Opens, Goes, Returns
<1>4. mu' \in {mu, None}
    BY <1>2 DEF Opens, Returns
<1>5. MachineType' /\ StoreType' /\ GhostType'
    BY <1>1, MachineTypeSame, StoreTypeSame, GhostTypeSame DEF TypeInv, Types
<1>6. ConvType /\ ExecType /\ UnopenedInv /\ CallType /\ machine.state \in States
    BY ContextFields DEF TypeInv, Types, MachineType
<1>7. /\ offered' \in [Convs -> SUBSET Events]
      /\ \A j \in Convs \ {conv[u]} : offered'[j] = offered[j]
    BY <1>1, <1>2, <1>6, RegisteredType DEF ConvType
<1>8. ConvType'
    BY <1>1, <1>2, <1>4, <1>6, <1>7 DEF ConvType
<1>9. ExecType' /\ UnopenedInv'
    BY <1>1, <1>2, <1>6, <1>7 DEF ExecType, UnopenedInv, execVars
<1>10. l \in Over \cup Labels /\ l \notin {"current", "append"} /\ then[u] \in Thens(l)
    BY <1>3 DEF Over, Labels, Thens, Saving, Afters
<1>11. RunsOn(l, then[u]) => then[u] = "start"
    BY <1>3 DEF RunsOn, Saving
<1>12. CallType' /\ LocalsInv'
    BY <1>1, <1>2, <1>3, <1>6, <1>10, <1>11, CallMoves DEF CallType
<1> QED BY <1>5, <1>8, <1>9, <1>12 DEF TypeInv, Types

LEMMA OpenFailsType ==
    ASSUME TypeInv, NEW u \in Calls, OpenFails(u)
    PROVE  TypeInv'
<1>1. /\ at' = [at EXCEPT ![u] = "failed"] /\ mu' \in {mu, None} /\ Fault("open")
      /\ UNCHANGED <<machineVars, convVars, execVars, storeVars, then, conv, round, snap, crashes>>
    BY DEF OpenFails, Returns
<1>2. ConvType /\ ExecType /\ UnopenedInv /\ CallType /\ MachineType /\ StoreType /\ GhostType
    BY DEF TypeInv, Types
<1>3. mu' \in Calls \cup {None}
    BY <1>1, <1>2 DEF ConvType
<1>4. MachineType' /\ StoreType' /\ GhostType' /\ ConvType' /\ ExecType' /\ UnopenedInv'
    BY <1>1, <1>2, <1>3, MachineTypeSame, StoreTypeSame, FaultType, ConvsSame
<1>5. /\ "failed" \in Over /\ "failed" \notin Labels /\ then[u] \in Thens("failed")
      /\ ~RunsOn("failed", then[u])
    BY <1>2 DEF Over, Labels, Thens, Saving, RunsOn, CallType
<1>6. CallType' /\ LocalsInv'
    BY <1>1, <1>2, <1>5, CallMoves DEF CallType, convVars
<1> QED BY <1>4, <1>6 DEF TypeInv, Types

LEMMA OverlapType ==
    ASSUME GhostType, Overlaps, UNCHANGED crashes
    PROVE  GhostType'
BY DEF GhostType, Overlaps

LEMMA ClearedIs ==
    ASSUME TypeInv
    PROVE  /\ ClearPending \in [Convs -> Pendings]
           /\ \A k \in Convs : ClearPending[k] = IF k = active THEN None ELSE pending[k]
BY DEF TypeInv, Types, ConvType, ExecType, ClearPending, Pendings

LEMMA SendBeginsType ==
    ASSUME TypeInv, NEW u \in Calls, SendBegins(u)
    PROVE  TypeInv'
<1>1. /\ at[u] = "idle" /\ pending' = ClearPending /\ Overlaps
      /\ UNCHANGED <<machineVars, holder, storeVars, round, snap, crashes>>
    BY DEF SendBegins
<1>2. ConvType /\ ExecType /\ UnopenedInv /\ CallType /\ MachineType /\ StoreType /\ GhostType
    BY DEF TypeInv, Types
<1>3. MachineType' /\ StoreType' /\ GhostType'
    BY <1>1, <1>2, MachineTypeSame, StoreTypeSame, OverlapType
<1>4. round[u] < MaxRounds
    BY <1>1 DEF TypeInv, LocalsInv, LocalsAt, RunsOn
<1>5. /\ pending' \in [Convs -> Pendings] /\ \A k \in Convs : pending[k] = None => pending'[k] = None
    BY <1>1, ClearedIs
<1>6. /\ round' \in [Calls -> 0 .. MaxRounds] /\ snap' \in [Calls -> Snaps]
      /\ round'[u] < MaxRounds /\ \A v \in Calls : round'[v] = round[v] /\ snap'[v] = snap[v]
    BY <1>1, <1>2, <1>4 DEF CallType
<1>7. PICK l \in {"open", "start"} :
         /\ at' = [at EXCEPT ![u] = l] /\ then' = [then EXCEPT ![u] = "start"]
         /\ l = "open" => Replaces(u, machine.state) /\ mu' = u
         /\ l = "start" => conv' = [conv EXCEPT ![u] = active] /\ UNCHANGED <<convVars, mu>>
    BY DEF SendBegins, GoesThen, Goes
<1>8. /\ then' \in [Calls -> Afters] /\ then'[u] = "start"
      /\ \A v \in Calls \ {u} : then'[v] = then[v]
    BY <1>2, <1>7 DEF CallType, Afters
<1>9. /\ ConvType' /\ ExecType' /\ UnopenedInv'
      /\ conv' \in [Calls -> Convs \cup {None}] /\ \A v \in Calls \ {u} : conv'[v] = conv[v]
      /\ conv'[u] \in Convs /\ opened'[conv'[u]] # None
      /\ \A k \in Convs : opened[k] # None => opened'[k] # None
  <2>1. CASE l = "open"
    <3>1. machine.state \in States /\ machine.state # None
      BY <1>2, ContextFields, MachineAssumption DEF MachineType
    <3> QED BY <1>1, <1>5, <1>7, <2>1, <3>1, ReplacesType
  <2>2. CASE l = "start"
    <3>1. conv' = [conv EXCEPT ![u] = active] /\ UNCHANGED <<convVars, mu>>
      BY <1>7, <2>2
    <3>2. ConvType' /\ ExecType' /\ UnopenedInv'
      BY <1>1, <1>2, <1>5, <3>1 DEF ConvType, ExecType, UnopenedInv, convVars
    <3> QED BY <1>2, <3>1, <3>2 DEF ConvType, CallType, UnopenedInv, convVars
  <2> QED BY <2>1, <2>2
<1>10. l \in Over \cup Labels /\ l \notin {"current", "append"} /\ then'[u] \in Thens(l)
    BY <1>8 DEF Over, Labels, Thens, Saving, Afters
<1>11. CallType' /\ LocalsInv'
    BY <1>6, <1>7, <1>8, <1>9, <1>10, CallMoves
<1> QED BY <1>3, <1>9, <1>11 DEF TypeInv, Types

LEMMA ReconcilesType ==
    ASSUME TypeInv, NEW u \in Calls, Reconciles(u)
    PROVE  TypeInv'
<1>1. /\ at[u] = "reconcile"
      /\ UNCHANGED <<machineVars, execVars, storeVars, round, snap, ghostVars>>
    BY DEF Reconciles
<1>2. ConvType /\ ExecType /\ UnopenedInv /\ CallType /\ MachineType /\ StoreType /\ GhostType
    BY DEF TypeInv, Types
<1>3. MachineType' /\ StoreType' /\ GhostType'
    BY <1>1, <1>2, MachineTypeSame, StoreTypeSame, GhostTypeSame
<1>4. /\ round' \in [Calls -> 0 .. MaxRounds] /\ snap' \in [Calls -> Snaps]
      /\ \A v \in Calls : round'[v] = round[v] /\ snap'[v] = snap[v]
    BY <1>1, <1>2 DEF CallType
<1>5. PICK l \in {"open", "done"} :
         /\ at' = [at EXCEPT ![u] = l] /\ mu' \in {mu, None}
         /\ l = "open" => Replaces(u, machine.state) /\ then' = [then EXCEPT ![u] = "done"]
         /\ l = "done" => UNCHANGED <<convVars, then, conv>>
    BY DEF Reconciles, GoesThen, Goes, Returns
<1>6. mu' \in Calls \cup {None}
    BY <1>2, <1>5 DEF ConvType
<1>7. /\ then' \in [Calls -> Afters] /\ (l = "open" => then'[u] = "done")
      /\ \A v \in Calls \ {u} : then'[v] = then[v]
    BY <1>2, <1>5 DEF CallType, Afters
<1>8. /\ ConvType' /\ ExecType' /\ UnopenedInv'
      /\ conv' \in [Calls -> Convs \cup {None}] /\ \A v \in Calls \ {u} : conv'[v] = conv[v]
      /\ l = "open" => conv'[u] \in Convs /\ opened'[conv'[u]] # None
      /\ \A k \in Convs : opened[k] # None => opened'[k] # None
  <2>1. CASE l = "open"
    <3>1. machine.state \in States /\ machine.state # None
      BY <1>2, ContextFields, MachineAssumption DEF MachineType
    <3>2. UNCHANGED holder /\ pending' \in [Convs -> Pendings] /\ UNCHANGED pending
      BY <1>1, <1>2 DEF execVars, ExecType
    <3> QED BY <1>5, <1>6, <2>1, <3>1, <3>2, ReplacesType
  <2>2. CASE l = "done"
    <3>1. UNCHANGED <<convVars, execVars, then, conv>>
      BY <1>1, <1>5, <2>2
    <3>2. ConvType' /\ ExecType' /\ UnopenedInv'
      BY <1>2, <1>6, <3>1, ConvsSame
    <3> QED BY <1>2, <2>2, <3>1, <3>2 DEF CallType, convVars
  <2> QED BY <2>1, <2>2
<1>9. /\ l \in Over \cup Labels /\ l \notin {"current", "append"} /\ (l \in Labels => l = "open")
      /\ then'[u] \in Thens(l) /\ ~RunsOn(l, then'[u])
    BY <1>7 DEF Over, Labels, Thens, Saving, RunsOn
<1>10. CallType' /\ LocalsInv'
    BY <1>4, <1>5, <1>7, <1>8, <1>9, CallMoves
<1> QED BY <1>3, <1>8, <1>10 DEF TypeInv, Types

LEMMA TransitionType ==
    ASSUME TypeInv, NEW u \in Calls, NEW event, Transition(u, event)
    PROVE  TypeInv'
<1>1. /\ at[u] = "idle" /\ Overlaps /\ UNCHANGED <<execVars, storeVars, round, snap, crashes>>
    BY DEF Transition
<1>2. ConvType /\ ExecType /\ UnopenedInv /\ CallType /\ MachineType /\ StoreType /\ GhostType
    BY DEF TypeInv, Types
<1>3. StoreType' /\ GhostType'
    BY <1>1, <1>2, StoreTypeSame, OverlapType
<1>4. /\ round' \in [Calls -> 0 .. MaxRounds] /\ snap' \in [Calls -> Snaps]
      /\ \A v \in Calls : round'[v] = round[v] /\ snap'[v] = snap[v]
    BY <1>1, <1>2 DEF CallType
<1>5. CASE Moves(event) /\ Replaces(u, machine'.state) /\ mu' = u /\ GoesThen(u, "open", "save")
  <2>1. MachineType'
    BY <1>2, <1>5, MovesTo
  <2>2. machine'.state \in States /\ machine'.state # None
    BY <1>2, <1>5, MovesTo, MachineAssumption
  <2>3. UNCHANGED holder /\ pending' \in [Convs -> Pendings] /\ UNCHANGED pending
    BY <1>1, <1>2 DEF execVars, ExecType
  <2> DEFINE s == machine'.state
  <2>4. s \in States /\ s # None /\ Replaces(u, s) /\ mu' \in Calls \cup {None}
    BY <1>5, <2>2
  <2> HIDE DEF s
  <2>5. /\ ConvType' /\ ExecType' /\ UnopenedInv'
        /\ conv' \in [Calls -> Convs \cup {None}] /\ \A v \in Calls \ {u} : conv'[v] = conv[v]
        /\ conv'[u] \in Convs /\ opened'[conv'[u]] # None
        /\ \A k \in Convs : opened[k] # None => opened'[k] # None
    BY <2>3, <2>4, ReplacesType
  <2>6. /\ at' = [at EXCEPT ![u] = "open"] /\ then' \in [Calls -> Afters] /\ then'[u] = "save"
        /\ \A v \in Calls \ {u} : then'[v] = then[v]
    BY <1>2, <1>5 DEF GoesThen, Goes, CallType, Afters
  <2>7. "open" \in Labels /\ "save" \in Thens("open") /\ ~RunsOn("open", "save")
    BY DEF Labels, Thens, RunsOn, Saving
  <2>8. CallType' /\ LocalsInv'
    BY <1>4, <2>5, <2>6, <2>7, CallMoves
  <2> QED BY <1>3, <2>1, <2>5, <2>8 DEF TypeInv, Types
<1>6. CASE Refused(event) /\ Goes(u, "failed") /\ UNCHANGED <<entered, mu, convVars, then, conv>>
  <2>1. MachineType'
    BY <1>2, <1>6, MachineTypeSame DEF Refused, machineVars
  <2>2. mu' \in Calls \cup {None}
    BY <1>2, <1>6 DEF ConvType
  <2>3. ConvType' /\ ExecType' /\ UnopenedInv'
    BY <1>1, <1>2, <1>6, <2>2, ConvsSame
  <2>4. /\ "failed" \in Over /\ "failed" \notin Labels /\ then[u] \in Thens("failed")
        /\ ~RunsOn("failed", then[u])
    BY <1>2 DEF Over, Labels, Thens, Saving, RunsOn, CallType
  <2>5. CallType' /\ LocalsInv'
    BY <1>2, <1>4, <1>6, <2>4, CallMoves DEF CallType, convVars, Goes
  <2> QED BY <1>3, <2>1, <2>3, <2>5 DEF TypeInv, Types
<1> QED BY <1>5, <1>6 DEF Transition

LEMMA CloseType ==
    ASSUME TypeInv, NEW u \in Calls, Close(u)
    PROVE  TypeInv'
<1>1. /\ at' = [at EXCEPT ![u] = "done"] /\ Overlaps /\ closed' = TRUE /\ live' = live \ {active}
      /\ UNCHANGED <<machineVars, mu, active, stateName, opened, offered, execVars, storeVars, then,
                     conv, round, snap, crashes>>
    BY DEF Close, Goes
<1>2. ConvType /\ ExecType /\ UnopenedInv /\ CallType /\ MachineType /\ StoreType /\ GhostType
    BY DEF TypeInv, Types
<1>3. StoreType' /\ GhostType' /\ MachineType'
    BY <1>1, <1>2, StoreTypeSame, OverlapType, MachineTypeSame
<1>4. ConvType' /\ ExecType' /\ UnopenedInv'
    BY <1>1, <1>2 DEF ConvType, ExecType, UnopenedInv, execVars
<1>5. "done" \in Over /\ "done" \notin Labels /\ then[u] \in Thens("done") /\ ~RunsOn("done", then[u])
    BY <1>2 DEF Over, Labels, Thens, Saving, RunsOn, CallType
<1>6. CallType' /\ LocalsInv'
    BY <1>1, <1>2, <1>5, CallMoves DEF CallType
<1> QED BY <1>3, <1>4, <1>6 DEF TypeInv, Types

LEMMA PendingFields ==
    ASSUME NEW p \in Pendings, p # None
    PROVE  p.event \in Events /\ p.by \in Calls /\ p.in \in States
BY DEF Pendings

\* The three ways a commit ends.
LEMMA CommitIs ==
    ASSUME NEW u \in Calls, CommitPending(u)
    PROVE  /\ at[u] = "commit" /\ holder[conv[u]] = None
           /\ UNCHANGED <<closed, active, stateName, opened, live, storeVars, then, conv, round, snap, ghostVars>>
           /\ pending' = [pending EXCEPT ![conv[u]] = None]
           /\ \/ /\ pending[conv[u]] = None /\ at' = [at EXCEPT ![u] = then[u]]
                 /\ UNCHANGED <<machineVars, holder, mu, offered>>
              \/ /\ pending[conv[u]] # None
                 /\ Moves(pending[conv[u]].event)
                 /\ holder' = [holder EXCEPT ![conv[u]] = u]
                 /\ offered' = RegisterForState(active, machine'.state, offered)
                 /\ at' = [at EXCEPT ![u] = "save"] /\ UNCHANGED mu
              \/ /\ pending[conv[u]] # None
                 /\ UNCHANGED <<machineVars, holder, offered>>
                 /\ at' = [at EXCEPT ![u] = "failed"] /\ mu' \in {mu, None}
<1>1. CASE pending[conv[u]] = None
    BY <1>1 DEF CommitPending, Goes
<1>2. CASE pending[conv[u]] # None
    BY <1>2 DEF CommitPending, Goes, Returns, Refused, machineVars
<1> QED BY <1>1, <1>2

LEMMA CommitType ==
    ASSUME TypeInv, NEW u \in Calls, CommitPending(u)
    PROVE  TypeInv'
<1>1. /\ at[u] = "commit"
      /\ UNCHANGED <<closed, active, stateName, opened, live, storeVars, then, conv, round, snap, ghostVars>>
      /\ pending' = [pending EXCEPT ![conv[u]] = None]
    BY CommitIs
<1>2. ConvType /\ ExecType /\ UnopenedInv /\ CallType /\ MachineType /\ StoreType /\ GhostType
    BY DEF TypeInv, Types
<1>3. StoreType' /\ GhostType'
    BY <1>1, <1>2, StoreTypeSame, GhostTypeSame
<1>4. /\ conv[u] \in Convs /\ opened[conv[u]] # None /\ then[u] \in {"arrived", "reconcile"}
      /\ then[u] = "arrived" => round[u] < MaxRounds
    BY <1>1 DEF TypeInv, LocalsInv, LocalsAt, Thens, Labels, RunsOn
<1>5. /\ pending' \in [Convs -> Pendings]
      /\ \A k \in Convs : pending'[k] = IF k = conv[u] THEN None ELSE pending[k]
    BY <1>1, <1>2, <1>4 DEF ExecType, Pendings
<1>6. PICK l \in {"arrived", "reconcile", "save", "failed"} :
         at' = [at EXCEPT ![u] = l] /\ (l \in {"arrived", "reconcile"} => l = then[u])
    BY <1>4, CommitIs
<1>7. /\ MachineType'
      /\ holder' \in [Convs -> Calls \cup {None}] /\ mu' \in Calls \cup {None}
      /\ offered' \in [Convs -> SUBSET Events]
      /\ \A k \in Convs \ {active} : offered'[k] = offered[k]
  <2>1. CASE UNCHANGED <<machineVars, holder, offered>> /\ mu' \in {mu, None}
    BY <1>2, <2>1, MachineTypeSame DEF ConvType, ExecType
  <2>2. CASE /\ Moves(pending[conv[u]].event)
             /\ holder' = [holder EXCEPT ![conv[u]] = u]
             /\ offered' = RegisterForState(active, machine'.state, offered)
             /\ UNCHANGED mu
    <3>1. MachineType'
      BY <1>2, <2>2, MovesTo
    <3>2. holder' \in [Convs -> Calls \cup {None}] /\ mu' \in Calls \cup {None}
      BY <1>2, <1>4, <2>2 DEF ExecType, ConvType
    <3> DEFINE s == machine'.state
    <3>3. offered' = RegisterForState(active, s, offered)
      BY <2>2
    <3> HIDE DEF s
    <3> QED BY <1>2, <3>1, <3>2, <3>3, RegisteredType DEF ConvType
  <2> QED BY <2>1, <2>2, CommitIs
<1>8. ConvType'
    BY <1>1, <1>2, <1>7 DEF ConvType
<1>9. ExecType' /\ UnopenedInv'
    BY <1>1, <1>2, <1>5, <1>7 DEF ExecType, UnopenedInv
<1>10. l \in Over \cup Labels /\ l \notin {"current", "append"} /\ then[u] \in Thens(l)
    BY <1>4 DEF Over, Labels, Thens, Saving, Afters
<1>11. RunsOn(l, then[u]) => then[u] = "arrived"
    BY <1>6 DEF RunsOn, Saving
<1>12. CallType' /\ LocalsInv'
    BY <1>1, <1>2, <1>4, <1>6, <1>10, <1>11, CallMoves DEF CallType
<1> QED BY <1>3, <1>7, <1>8, <1>9, <1>12 DEF TypeInv, Types

\* A call of a tool is counted.
LEMMA CountedType ==
    ASSUME machine \in Contexts, IncrementToolCalls
    PROVE  /\ machine' \in Contexts
           /\ machine'.state = machine.state /\ machine'.visits = machine.visits
           /\ machine'.history = machine.history
<1>1. machine' = [machine EXCEPT !.toolCalls = machine.toolCalls + 1]
    BY DEF IncrementToolCalls
<1>2. machine.toolCalls + 1 \in Nat
    BY ContextFields
<1> DEFINE n == machine.toolCalls + 1
<1>3. machine' = [machine EXCEPT !.toolCalls = n] /\ n \in Nat
    BY <1>1, <1>2
<1> HIDE DEF n
<1> DEFINE H == Seq(Transitions)
<1>4. machine \in [state : States, visits : [States -> Nat], toolCalls : Nat, history : H]
    BY DEF Contexts
<1> HIDE DEF H
<1>5. /\ machine' \in [state : States, visits : [States -> Nat], toolCalls : Nat, history : H]
      /\ machine'.state = machine.state /\ machine'.visits = machine.visits
      /\ machine'.history = machine.history
    BY <1>3, <1>4
<1> QED BY <1>5 DEF Contexts, H

LEMMA RoundCallsType ==
    ASSUME TypeInv, NEW u \in Calls, NEW event, RoundCalls(u, event)
    PROVE  /\ TypeInv'
           /\ machine'.state = machine.state /\ machine'.visits = machine.visits
           /\ machine'.history = machine.history
<1>1. /\ at[u] = "round" /\ event \in offered[conv[u]] \cup {None}
      /\ IncrementToolCalls /\ UNCHANGED <<clock, entered>>
      /\ round' = [round EXCEPT ![u] = @ + 1]
      /\ UNCHANGED <<mu, convVars, holder, storeVars, then, conv, snap, ghostVars>>
    BY DEF RoundCalls
<1>2. ConvType /\ ExecType /\ UnopenedInv /\ CallType /\ MachineType /\ StoreType /\ GhostType
    BY DEF TypeInv, Types
<1>3. StoreType' /\ GhostType'
    BY <1>1, <1>2, StoreTypeSame, GhostTypeSame
<1>4. conv[u] \in Convs /\ opened[conv[u]] # None /\ round[u] < MaxRounds
    BY <1>1 DEF TypeInv, LocalsInv, LocalsAt, Labels, RunsOn
<1>5. /\ MachineType'
      /\ machine'.state = machine.state /\ machine'.visits = machine.visits
      /\ machine'.history = machine.history /\ machine.state \in States
    BY <1>1, <1>2, CountedType, ContextFields DEF MachineType
<1>6. /\ pending' \in [Convs -> Pendings]
      /\ \A k \in Convs : opened[k] = None => pending'[k] = pending[k]
  <2>1. CASE event = None
    BY <1>2, <2>1 DEF RoundCalls, ExecType
  <2>2. CASE event # None
    <3> DEFINE p == [event |-> event, by |-> u, in |-> machine.state]
    <3>1. event \in Events
      BY <1>1, <1>2, <1>4, <2>2 DEF ConvType
    <3>2. p \in Pendings
      BY <1>5, <3>1 DEF Pendings
    <3>3. pending' = [pending EXCEPT ![conv[u]] = p]
      BY <2>2 DEF RoundCalls
    <3> HIDE DEF p
    <3> QED BY <1>2, <1>4, <3>2, <3>3 DEF ExecType
  <2> QED BY <2>1, <2>2
<1>7. ConvType' /\ ExecType' /\ UnopenedInv'
    BY <1>1, <1>2, <1>6 DEF ConvType, ExecType, UnopenedInv, convVars
<1>8. /\ round' \in [Calls -> 0 .. MaxRounds] /\ round'[u] = round[u] + 1
      /\ \A v \in Calls \ {u} : round'[v] = round[v]
  <2>1. MaxRounds \in Nat /\ round \in [Calls -> 0 .. MaxRounds] /\ round[u] \in 0 .. MaxRounds
    BY <1>2, WorkflowAssumption DEF CallType
  <2>2. round[u] + 1 \in 0 .. MaxRounds
    BY <1>4, <2>1
  <2> QED BY <1>1, <2>1, <2>2
<1>9. PICK l \in {"failed", "handoff", "end"} :
         at' = [at EXCEPT ![u] = l] /\ (l = "handoff" => ~LastRound(u))
    BY DEF RoundCalls, Goes
<1>10. l = "handoff" => round'[u] < MaxRounds
  <2>1. MaxRounds \in Nat /\ round[u] \in 0 .. MaxRounds
    BY <1>2, WorkflowAssumption DEF CallType
  <2> QED BY <1>4, <1>8, <1>9, <2>1 DEF LastRound
<1>11. /\ l \in Over \cup Labels /\ l \notin {"current", "append"} /\ then[u] \in Thens(l)
       /\ RunsOn(l, then[u]) => l = "handoff"
    BY <1>2 DEF Over, Labels, Thens, Saving, CallType, RunsOn
<1>12. CallType' /\ LocalsInv'
    BY <1>1, <1>2, <1>4, <1>8, <1>9, <1>10, <1>11, CallMoves DEF CallType, convVars
<1> QED BY <1>3, <1>5, <1>7, <1>12 DEF TypeInv, Types

\* What a restart makes of the machine.
LEMMA RestartMachine ==
    ASSUME TypeInv, Restart
    PROVE  /\ MachineType' /\ StoreType'
           /\ stored.current = None => /\ machine' = NewContext /\ entered' = NewContext.visits
                                       /\ appended' = 0
           /\ stored.current # None => /\ machine'.state = stored.current.state
                                       /\ machine'.visits = stored.current.visits
                                       /\ machine'.history = stored.history
                                       /\ appended' = Len(stored.history) /\ UNCHANGED entered
<1>1. MachineType /\ StoreType /\ UNCHANGED <<clock, stored>>
    BY DEF Restart, TypeInv, Types
<1>2. stored.current \in Contexts \cup {None} /\ stored.history \in Seq(Transitions)
    BY <1>1, StoredFields
<1>3. CASE stored.current = None
  <2>1. machine' = NewContext /\ entered' = NewContext.visits /\ appended' = 0
    BY <1>3 DEF Restart
  <2>2. NewContext.visits \in [States -> Nat]
    BY NewContextType, ContextFields
  <2>3. MachineType' /\ StoreType'
    BY <1>1, <2>1, <2>2, NewContextType DEF MachineType, StoreType
  <2> QED BY <1>3, <2>1, <2>3
<1>4. CASE stored.current # None
  <2> DEFINE c == stored.current
  <2> DEFINE h == stored.history
  <2> DEFINE H == Seq(Transitions)
  <2>1. machine' = [c EXCEPT !.history = h] /\ appended' = Len(h) /\ UNCHANGED entered
    BY <1>4 DEF Restart, Seeded
  <2>2. /\ c \in [state : States, visits : [States -> Nat], toolCalls : Nat, history : H]
        /\ h \in H /\ Len(h) \in Nat
    BY <1>2, <1>4 DEF Contexts
  <2> HIDE DEF c, h, H
  <2>3. /\ machine' \in [state : States, visits : [States -> Nat], toolCalls : Nat, history : H]
        /\ machine'.state = c.state /\ machine'.visits = c.visits /\ machine'.history = h
    BY <2>1, <2>2
  <2>4. machine' \in Contexts
    BY <2>3 DEF Contexts, H
  <2>5. MachineType' /\ StoreType'
    BY <1>1, <2>1, <2>2, <2>4 DEF MachineType, StoreType
  <2> QED BY <1>4, <2>1, <2>3, <2>5 DEF c, h
<1> QED BY <1>3, <1>4

\* The conversations after a restart: a new one, and none that is pending.
LEMMA RestartConvs ==
    ASSUME TypeInv, Restart
    PROVE  /\ Fresh \in Convs /\ opened[Fresh] = None
           /\ active' = Fresh /\ live' = {Fresh} /\ stateName' = machine'.state
           /\ opened' = [opened EXCEPT ![Fresh] = machine'.state]
           /\ opened' \in [Convs -> States \cup {None}] /\ opened'[Fresh] = machine'.state
           /\ offered' \in [Convs -> SUBSET Events]
           /\ \A k \in Convs \ {Fresh} : offered'[k] = {}
           /\ offered'[Fresh] = IF machine'.state \in External THEN {} ELSE EventsOf(machine'.state)
           /\ \A k \in Convs : pending'[k] = None
<1>1. Fresh \in Convs /\ opened[Fresh] = None
    BY FreshIs DEF Restart
<1>2. machine'.state \in States
    BY RestartMachine, ContextFields DEF MachineType
<1> DEFINE k == Fresh
<1> DEFINE s == machine'.state
<1>3. /\ active' = k /\ live' = {k} /\ stateName' = s /\ opened' = [opened EXCEPT ![k] = s]
      /\ offered' = RegisterForState(k, s, [i \in Convs |-> {}])
      /\ pending' = [i \in Convs |-> None]
    BY DEF Restart
<1>4. k \in Convs /\ opened[k] = None /\ s \in States
    BY <1>1, <1>2
<1>5. opened \in [Convs -> States \cup {None}]
    BY DEF TypeInv, Types, ConvType
<1> HIDE DEF k, s
<1> DEFINE none == [i \in Convs |-> {}]
<1>6. none \in [Convs -> SUBSET Events] /\ \A i \in Convs : none[i] = {}
    OBVIOUS
<1>7. offered' = RegisterForState(k, s, none)
    BY <1>3
<1> HIDE DEF none
<1>8. /\ offered' \in [Convs -> SUBSET Events] /\ \A i \in Convs \ {k} : offered'[i] = {}
      /\ offered'[k] = IF s \in External THEN {} ELSE EventsOf(s)
    BY <1>4, <1>6, <1>7, RegisteredType
<1>9. opened' \in [Convs -> States \cup {None}] /\ opened'[k] = s
    BY <1>3, <1>4, <1>5
<1>10. \A i \in Convs : pending'[i] = None
    BY <1>3
<1> QED BY <1>3, <1>4, <1>8, <1>9, <1>10 DEF k, s

LEMMA RestartType ==
    ASSUME TypeInv, Restart
    PROVE  TypeInv'
<1>1. MachineType' /\ StoreType'
    BY RestartMachine
<1>2. /\ faults < MaxFaults /\ faults' = faults + 1
      /\ crashes' = IF Active = {} THEN crashes ELSE crashes + 1
      /\ spoilt' = spoilt \cup {w \in {"torn"} : \E u \in Calls : at[u] = "append"}
      /\ at' = [u \in Calls |-> IF u \in Active THEN "lost" ELSE at[u]]
      /\ mu' = None /\ closed' = FALSE
      /\ holder' = [k \in Convs |-> None] /\ pending' = [k \in Convs |-> None]
      /\ snap' = [u \in Calls |-> None]
      /\ UNCHANGED <<then, conv, round>>
    BY DEF Restart
<1>3. GhostType'
  <2>1. GhostType /\ MaxFaults \in Nat
    BY WorkflowAssumption DEF TypeInv, Types
  <2>2. faults' \in 0 .. MaxFaults /\ crashes' \in Nat
    BY <1>2, <2>1 DEF GhostType
  <2>3. spoilt' \subseteq {"overlap", "open", "store", "torn"}
    BY <1>2, <2>1 DEF GhostType
  <2> QED BY <2>2, <2>3 DEF GhostType
<1>4. machine'.state \in States /\ machine'.state # None
    BY <1>1, ContextFields, MachineAssumption DEF MachineType
<1>5. ConvType'
  <2>1. active' \in Convs /\ stateName' \in States /\ live' \subseteq Convs
    BY <1>4, RestartConvs
  <2> QED BY <1>2, <2>1, RestartConvs DEF ConvType
<1>6. ExecType'
    BY <1>2 DEF ExecType, Pendings
<1>7. UnopenedInv'
  <2>1. opened'[active'] # None
    BY <1>4, RestartConvs
  <2>2. ASSUME NEW k \in Convs, opened'[k] = None PROVE k \notin live' /\ pending'[k] = None /\ offered'[k] = {}
    <3>1. k # Fresh
      BY <1>4, <2>2, RestartConvs
    <3> QED BY <3>1, RestartConvs
  <2> QED BY <2>1, <2>2 DEF UnopenedInv
<1>8. CallType
    BY DEF TypeInv, Types
<1>9. \A u \in Calls : at'[u] \in Over /\ (at'[u] = "idle" => at[u] = "idle")
    BY <1>2, <1>8 DEF Active, Over, CallType
<1>10. CallType'
    BY <1>2, <1>8, <1>9 DEF CallType, Snaps
<1>11. ASSUME NEW u \in Calls PROVE LocalsAt(u)'
  <2>1. /\ at'[u] \notin Labels /\ at'[u] \notin {"current", "append"}
        /\ then'[u] \in Thens(at'[u])
    BY <1>9, <1>10 DEF Over, Labels, Thens, Saving, CallType
  <2>2. RunsOn(at'[u], then'[u]) => round'[u] < MaxRounds
    <3> SUFFICES ASSUME RunsOn(at'[u], then'[u]) PROVE round'[u] < MaxRounds
        OBVIOUS
    <3>1. at'[u] = "idle"
      BY <1>9 DEF RunsOn, Over, Saving
    <3>2. at[u] = "idle"
      BY <1>9, <3>1
    <3> QED BY <1>2, <3>2 DEF TypeInv, LocalsInv, LocalsAt, RunsOn
  <2> QED BY <2>1, <2>2 DEF LocalsAt
<1> QED BY <1>1, <1>3, <1>5, <1>6, <1>7, <1>10, <1>11 DEF TypeInv, Types, LocalsInv

\* The steps of a call, by the lemmas that speak of them.
LEMMA Steps ==
    ASSUME Next
    PROVE  \/ \E u \in Calls :
                \/ TurnStep(u)
                \/ Saves(u) \/ WritesCurrent(u) \/ AppendsDelta(u) \/ Saved(u)
                \/ Opens(u) \/ OpenFails(u) \/ SendBegins(u) \/ Reconciles(u) \/ Close(u)
                \/ CommitPending(u)
                \/ \E event \in Events \cup {None} : RoundCalls(u, event)
                \/ \E event \in Events : Transition(u, event)
           \/ Restart
BY DEF Next, CallStep, TurnStep

LEMMA TypeNext == TypeInv /\ [Next]_vars => TypeInv'
<1> SUFFICES ASSUME TypeInv, [Next]_vars PROVE TypeInv'
    OBVIOUS
<1>1. CASE Next
    BY <1>1, Steps, TurnType, SaveType, OpensType, OpenFailsType, SendBeginsType, ReconcilesType,
       CloseType, CommitType, RoundCallsType, TransitionType, RestartType
<1>2. CASE UNCHANGED vars
  <2>1. UNCHANGED <<machine, clock, entered, mu, closed, active, stateName, opened, live, offered,
                    pending, holder, appended, stored, at, then, conv, round, snap, crashes, spoilt,
                    faults>>
    BY <1>2 DEF vars, machineVars, convVars, execVars, storeVars, callVars, ghostVars
  <2>2. Types'
    BY <2>1 DEF TypeInv, Types, MachineType, ConvType, ExecType, StoreType, CallType, GhostType
  <2>3. LocalsInv' /\ UnopenedInv'
    BY <2>1 DEF TypeInv, LocalsInv, LocalsAt, UnopenedInv
  <2> QED BY <2>2, <2>3 DEF TypeInv
<1> QED BY <1>1, <1>2

\* The state of a workflow conversation is what the code's variables can hold,
\* and a turn runs no more rounds than its policy allows (workflow.go).
THEOREM TypeIsCorrect == Spec => []TypeOK
<1>1. Init => TypeInv
    BY TypeInit
<1>2. TypeInv /\ [Next]_vars => TypeInv'
    BY TypeNext
<1>3. TypeInv => TypeOK
    BY TypeParts DEF TypeInv, Types
<1> QED BY <1>1, <1>2, <1>3, PTL DEF Spec

-----------------------------------------------------------------------------
(* Calls that do not overlap.                                              *)

Alone == \A u, v \in Active : u = v

\* The call opens a conversation of the machine's state, or it runs in the
\* active one.
ConvAt(u) ==
    IF at[u] = "open"
    THEN /\ active \notin live /\ conv[u] \notin live /\ conv[u] # active
         /\ opened[conv[u]] = machine.state
         /\ offered[conv[u]] = {} /\ pending[conv[u]] = None
    ELSE /\ conv[u] = active
         /\ at[u] = "start" => active \notin live \/ stateName = machine.state
         /\ at[u] # "start" => active \in live
         /\ at[u] \in {"handoff", "round"} => machine.state \notin External \/ stateName = machine.state

\* The tool of the active conversation fits the state, but in a state that a
\* turn has moved on into and that somebody outside drives.
ActiveConvInv ==
    active \in live =>
        /\ opened[active] = stateName
        /\ \/ offered[active] \subseteq EventsOf(machine.state)
           \/ machine.state \in External /\ stateName \notin External
        /\ stateName \in External => offered[active] = {} /\ pending[active] = None

\* What is pending is left by a call that failed, or is of the state.
ScheduledAt(k) ==
    \/ at[pending[k].by] = "failed"
    \/ /\ at[pending[k].by] \in {"handoff", "commit", "end"}
       /\ k = conv[pending[k].by] /\ pending[k].in = machine.state

PendingInv ==
    /\ \A k \in Convs : pending[k] # None => ScheduledAt(k)
    /\ \A u \in Active : pending[conv[u]] # None => pending[conv[u]].by = u

Solo == Alone /\ (\A u \in Active : ConvAt(u)) /\ ActiveConvInv /\ PendingInv
SoloInv == Fine({"overlap"}) => Solo

LEMMA OneCall ==
    ASSUME TypeInv, NEW u \in Calls, NEW l, at' = [at EXCEPT ![u] = l],
           \A v \in Calls \ {u} : at[v] \in Over
    PROVE  /\ at'[u] = l /\ (\A v \in Calls \ {u} : at'[v] = at[v])
           /\ \A v \in Active' : v = u /\ l \notin Over
BY DEF TypeInv, Types, CallType, Active

\* A step of the only call.
LEMMA SoloMoves ==
    ASSUME TypeInv, TypeInv', NEW u \in Calls, NEW l, at' = [at EXCEPT ![u] = l],
           \A v \in Calls \ {u} : at[v] \in Over,
           PendingInv, ActiveConvInv',
           l \notin Over => ConvAt(u)',
           \A k \in Convs : pending'[k] # None =>
               \/ pending'[k] = pending[k] /\ pending[k].by # u
               \/ /\ pending'[k].by = u
                  /\ \/ l = "failed"
                     \/ /\ l \in {"handoff", "commit", "end"} /\ k = conv'[u]
                        /\ pending'[k].in = machine'.state,
           l \notin Over /\ pending'[conv'[u]] # None => pending'[conv'[u]].by = u
    PROVE  Solo'
<1>1. /\ at'[u] = l /\ (\A v \in Calls \ {u} : at'[v] = at[v])
      /\ \A v \in Active' : v = u /\ l \notin Over
    BY OneCall
<1>2. Alone' /\ (\A v \in Active' : ConvAt(v)')
    BY <1>1 DEF Alone
<1>3. ASSUME NEW k \in Convs, pending'[k] # None PROVE ScheduledAt(k)'
  <2>1. CASE pending'[k] = pending[k] /\ pending[k].by # u
    <3>1. pending[k].by \in Calls
      BY <1>3, <2>1, PendingFields DEF TypeInv, Types, ExecType
    <3>2. at[pending[k].by] \in Over
      BY <2>1, <3>1
    <3>3. at[pending[k].by] = "failed"
      BY <1>3, <2>1, <3>2 DEF PendingInv, ScheduledAt, Over
    <3> QED BY <1>1, <2>1, <3>1, <3>3 DEF ScheduledAt
  <2>2. CASE /\ pending'[k].by = u
             /\ \/ l = "failed"
                \/ l \in {"handoff", "commit", "end"} /\ k = conv'[u] /\ pending'[k].in = machine'.state
    BY <1>1, <2>2 DEF ScheduledAt
  <2> QED BY <1>3, <2>1, <2>2
<1>4. PendingInv'
    BY <1>1, <1>3 DEF PendingInv
<1> QED BY <1>2, <1>4 DEF Solo

\* A call in flight is the only one, and what is pending is its own only at
\* some labels.
LEMMA OnlyCall ==
    ASSUME TypeInv, Solo, NEW u \in Calls, at[u] \notin Over
    PROVE  /\ u \in Active /\ ConvAt(u) /\ conv[u] \in Convs
           /\ \A v \in Calls \ {u} : at[v] \in Over
           /\ \A k \in Convs : pending[k] # None /\ pending[k].by = u
                => at[u] \in {"handoff", "commit", "end"} /\ k = conv[u] /\ pending[k].in = machine.state
<1>1. u \in Active
    BY DEF Active
<1>2. \A v \in Calls \ {u} : at[v] \in Over
    BY <1>1 DEF Solo, Alone, Active
<1>3. at[u] \in Labels
    BY DEF TypeInv, Types, CallType
<1>4. at[u] # "failed"
    BY DEF Over
<1> QED BY <1>1, <1>2, <1>3, <1>4 DEF Solo, PendingInv, ScheduledAt, TypeInv, LocalsInv, LocalsAt

\* With no call in flight nothing is pending but what failed calls left.
LEMMA NoCall ==
    ASSUME TypeInv, Solo, Active = {}
    PROVE  /\ \A v \in Calls : at[v] \in Over
           /\ \A k \in Convs : pending[k] # None => at[pending[k].by] = "failed"
<1>1. \A v \in Calls : at[v] \in Over
    BY DEF Active
<1>2. ASSUME NEW k \in Convs, pending[k] # None PROVE at[pending[k].by] = "failed"
  <2>1. pending[k].by \in Calls
    BY <1>2, PendingFields DEF TypeInv, Types, ExecType
  <2> QED BY <1>1, <1>2, <2>1 DEF Solo, PendingInv, ScheduledAt, Over
<1> QED BY <1>1, <1>2

\* Nothing is forgotten that went wrong, and the first call to overlap spoils.
LEMMA StaysFine ==
    ASSUME [Next]_vars, NEW x, Fine(x)'
    PROVE  Fine(x)
<1>1. spoilt \subseteq spoilt'
  <2>1. CASE Next
    BY ZenonT(60), <2>1 DEF Next, CallStep, SendBegins, Opens, OpenFails, Close, Transition, Restart, Saves, WritesCurrent,
       AppendsDelta, Saved, Validates, Handoff, CommitPending, Arrives, RoundEnds, RoundCalls, SendEnds,
       Reconciles, Overlaps, Fault, NoFault, ghostVars
  <2>2. CASE UNCHANGED vars
    BY <2>2 DEF vars, ghostVars
  <2> QED BY SMTT(40), <2>1, <2>2
<1> QED BY <1>1 DEF Fine

LEMMA OverlapsNot ==
    ASSUME Overlaps, Fine({"overlap"})'
    PROVE  Active = {}
BY DEF Overlaps, Fine

LEMMA SoloInit == Init => SoloInv
<1> SUFFICES ASSUME Init PROVE Solo
    BY DEF SoloInv
<1>1. Active = {}
    BY DEF Init, Active, Over
<1>2. offered[1] \subseteq EventsOf(Entry) /\ (Entry \in External => offered[1] = {})
    BY WorkflowAssumption DEF Init, RegisterForState
<1>3. machine.state = Entry
    BY NewContextType DEF Init, MachineInit
<1>4. ActiveConvInv
    BY <1>2, <1>3, WorkflowAssumption DEF Init, ActiveConvInv
<1>5. PendingInv
    BY <1>1 DEF Init, PendingInv
<1> QED BY <1>1, <1>4, <1>5 DEF Solo, Alone

LEMMA SoloOpens ==
    ASSUME TypeInv, TypeInv', Solo, NEW u \in Calls, Opens(u)
    PROVE  Solo'
<1>1. /\ at[u] = "open" /\ active' = conv[u] /\ live' = live \cup {conv[u]}
      /\ stateName' = machine.state
      /\ offered' = RegisterForState(conv[u], machine.state, offered)
      /\ UNCHANGED <<machine, opened, pending, then, conv>>
    BY DEF Opens, machineVars, execVars
<1>2. at[u] \notin Over
    BY <1>1 DEF Over
<1>3. /\ ConvAt(u) /\ conv[u] \in Convs /\ (\A v \in Calls \ {u} : at[v] \in Over)
      /\ \A k \in Convs : pending[k] # None => pending[k].by # u
    BY <1>1, <1>2, OnlyCall
<1>4. /\ opened[conv[u]] = machine.state /\ offered[conv[u]] = {} /\ pending[conv[u]] = None
    BY <1>1, <1>3 DEF ConvAt
<1>5. then[u] \in {"start", "save", "done"}
    BY <1>1 DEF TypeInv, LocalsInv, LocalsAt, Thens
<1>6. PICK l \in {"start", "save", "done"} : at' = [at EXCEPT ![u] = l]
    BY <1>5 DEF Opens, Goes, Returns
<1>7. at'[u] = l
    BY <1>6 DEF TypeInv, Types, CallType
<1>8. offered'[conv[u]] = IF machine.state \in External THEN {} ELSE EventsOf(machine.state)
  <2>1. offered \in [Convs -> SUBSET Events]
    BY DEF TypeInv, Types, ConvType
  <2>2. RegisterForState(conv[u], machine.state, offered)[conv[u]]
            = IF machine.state \in External THEN offered[conv[u]] ELSE EventsOf(machine.state)
    BY <1>3, <2>1, RegisteredType
  <2> QED BY <1>1, <1>4, <2>2
<1>9. ActiveConvInv'
  <2>1. opened'[active'] = stateName' /\ pending'[active'] = None /\ UNCHANGED machine
    BY <1>1, <1>4
  <2>2. offered'[active'] = IF machine'.state \in External THEN {} ELSE EventsOf(machine'.state)
    BY <1>1, <1>8
  <2>3. stateName' = machine'.state
    BY <1>1
  <2> QED BY <2>1, <2>2, <2>3 DEF ActiveConvInv
<1>10. ConvAt(u)'
    BY <1>1, <1>7 DEF ConvAt
<1>11. PendingInv
    BY DEF Solo
<1> QED BY <1>1, <1>3, <1>4, <1>6, <1>9, <1>10, <1>11, SoloMoves

LEMMA SoloOpenFails ==
    ASSUME TypeInv, TypeInv', Solo, NEW u \in Calls, OpenFails(u)
    PROVE  Solo'
<1>1. /\ at[u] = "open" /\ at' = [at EXCEPT ![u] = "failed"]
      /\ UNCHANGED <<machine, active, live, pending>>
    BY DEF OpenFails, Returns, machineVars, convVars, execVars
<1>2. at[u] \notin Over /\ "failed" \in Over
    BY <1>1 DEF Over
<1>3. /\ ConvAt(u) /\ (\A v \in Calls \ {u} : at[v] \in Over)
      /\ \A k \in Convs : pending[k] # None => pending[k].by # u
    BY <1>1, <1>2, OnlyCall
<1>4. ActiveConvInv'
    BY <1>1, <1>3 DEF ActiveConvInv, ConvAt
<1>5. PendingInv
    BY DEF Solo
<1> QED BY <1>1, <1>2, <1>3, <1>4, <1>5, SoloMoves

LEMMA SoloSaves ==
    ASSUME TypeInv, TypeInv', Solo, NEW u \in Calls,
           Saves(u) \/ WritesCurrent(u) \/ AppendsDelta(u) \/ Saved(u)
    PROVE  Solo'
<1>1. UNCHANGED <<machineVars, convVars, pending, then, conv, round>> /\ at[u] \in Saving
    BY SavingIs
<1>2. at[u] \notin Over
    BY <1>1 DEF Over, Saving
<1>3. /\ ConvAt(u) /\ (\A v \in Calls \ {u} : at[v] \in Over) /\ conv[u] \in Convs
      /\ \A k \in Convs : pending[k] # None => pending[k].by # u
    BY <1>1, <1>2, OnlyCall DEF Saving
<1>4. conv[u] = active /\ active \in live
    BY <1>1, <1>3 DEF ConvAt, Saving
<1>5. then[u] \in {"save", "arrived", "reconcile"}
    BY <1>1 DEF TypeInv, LocalsInv, LocalsAt, Thens, Saving
<1>6. PICK l \in {"current", "append", "saved", "done", "arrived", "reconcile"} : at' = [at EXCEPT ![u] = l]
    BY <1>5, SavingIs
<1>7. at'[u] = l
    BY <1>6 DEF TypeInv, Types, CallType
<1>8. UNCHANGED <<machine, active, live, opened, stateName, offered, pending, conv>>
    BY <1>1 DEF machineVars, convVars
<1>9. ActiveConvInv'
    BY <1>8 DEF Solo, ActiveConvInv
<1>10. ConvAt(u)'
    BY <1>4, <1>7, <1>8 DEF ConvAt
<1>11. PendingInv /\ u \in Active
    BY <1>2 DEF Solo, Active
<1>12. pending[conv[u]] = None
    BY <1>3, <1>11 DEF PendingInv
<1> QED BY <1>3, <1>6, <1>8, <1>9, <1>10, <1>11, <1>12, SoloMoves

LEMMA SoloTurn ==
    ASSUME TypeInv, TypeInv', Solo, NEW u \in Calls, TurnStep(u)
    PROVE  Solo'
<1>1. UNCHANGED <<machine, active, live, opened, stateName, offered, pending>>
    BY TurnStepIs DEF machineVars, convVars, execVars
<1>2. at[u] \in {"start", "handoff", "arrived", "round", "end"} /\ at[u] \notin Over
    BY TurnStepIs DEF Over
<1>3. /\ ConvAt(u) /\ (\A v \in Calls \ {u} : at[v] \in Over) /\ conv[u] \in Convs /\ u \in Active
      /\ \A k \in Convs : pending[k] # None /\ pending[k].by = u
            => at[u] \in {"handoff", "commit", "end"} /\ k = conv[u] /\ pending[k].in = machine.state
    BY <1>2, OnlyCall
<1>4. conv[u] = active /\ (at[u] # "start" => active \in live) /\ PendingInv
    BY <1>2, <1>3 DEF ConvAt, Solo
<1>5. conv \in [Calls -> Convs \cup {None}] /\ at \in [Calls -> Over \cup Labels]
    BY DEF TypeInv, Types, CallType
<1>6. conv'[u] = active
  <2>1. UNCHANGED conv \/ conv' = [conv EXCEPT ![u] = active]
    BY TurnStepIs
  <2> QED BY <1>4, <1>5, <2>1
<1>7. PICK l \in {"handoff", "failed", "round", "commit", "end"} :
         /\ at' = [at EXCEPT ![u] = l]
         /\ l # "failed" => at[u] # "start" \/ active \in live
         /\ l = "round" => \/ at[u] = "handoff" /\ pending[conv[u]] = None
                           \/ at[u] = "arrived" /\ machine.state \notin Paused
         /\ l = "handoff" => at[u] = "start"
    BY <1>4, TurnStepIs
<1>8. at'[u] = l
    BY <1>5, <1>7
<1>9. ActiveConvInv'
    BY <1>1 DEF Solo, ActiveConvInv
<1>10. l # "failed" => ConvAt(u)'
  <2> SUFFICES ASSUME l # "failed" PROVE ConvAt(u)'
      OBVIOUS
  <2>1. active \in live
    BY <1>4, <1>7
  <2>2. l \in {"handoff", "round"} => machine.state \notin External \/ stateName = machine.state
    BY <1>2, <1>3, <1>7, <2>1, WorkflowAssumption DEF ConvAt
  <2> QED BY <1>1, <1>6, <1>8, <2>1, <2>2 DEF ConvAt
<1>11. ASSUME NEW k \in Convs, pending'[k] # None
       PROVE  \/ pending'[k] = pending[k] /\ pending[k].by # u
              \/ /\ pending'[k].by = u
                 /\ \/ l = "failed"
                    \/ /\ l \in {"handoff", "commit", "end"} /\ k = conv'[u]
                       /\ pending'[k].in = machine'.state
  <2>1. CASE pending[k].by # u
    BY <1>1, <2>1
  <2>2. CASE pending[k].by = u
    <3>1. at[u] \in {"handoff", "end"} /\ k = conv[u] /\ pending[k].in = machine.state
      BY <1>1, <1>2, <1>3, <1>11, <2>2
    <3>2. l # "round"
      BY <1>1, <1>7, <1>11, <3>1
    <3> QED BY <1>1, <1>4, <1>6, <2>2, <3>1, <3>2
  <2> QED BY <2>1, <2>2
<1>12. pending'[conv'[u]] # None => pending'[conv'[u]].by = u
    BY <1>1, <1>3, <1>4, <1>6 DEF PendingInv
<1>13. l \notin Over => ConvAt(u)'
    BY <1>10 DEF Over
<1>14. \A k \in Convs : pending'[k] # None =>
           \/ pending'[k] = pending[k] /\ pending[k].by # u
           \/ /\ pending'[k].by = u
              /\ \/ l = "failed"
                 \/ /\ l \in {"handoff", "commit", "end"} /\ k = conv'[u]
                    /\ pending'[k].in = machine'.state
    BY <1>11
<1>15. at' = [at EXCEPT ![u] = l] /\ PendingInv /\ \A v \in Calls \ {u} : at[v] \in Over
    BY <1>3, <1>4, <1>7
<1> QED BY <1>9, <1>12, <1>13, <1>14, <1>15, SoloMoves

\* The conversation that was opened last is replaced: nothing is known of the
\* new one but its state.
LEMMA ReplacedIs ==
    ASSUME TypeInv, NEW u \in Calls, NEW s \in States, Replaces(u, s), at'[u] = "open",
           s = machine'.state, \A k \in Convs : pending[k] = None => pending'[k] = None
    PROVE  ActiveConvInv' /\ ConvAt(u)' /\ pending'[conv'[u]] = None
<1>1. Fresh \in Convs /\ opened[Fresh] = None
    BY FreshIs DEF Replaces
<1> HIDE DEF Fresh
<1>2. /\ live' = live \ {active} /\ opened' = [opened EXCEPT ![Fresh] = s]
      /\ conv' = [conv EXCEPT ![u] = Fresh] /\ UNCHANGED <<active, stateName, offered>>
    BY DEF Replaces
<1>3. Fresh \notin live /\ pending[Fresh] = None /\ offered[Fresh] = {} /\ Fresh # active
    BY <1>1 DEF TypeInv, UnopenedInv
<1>4. opened'[Fresh] = s /\ conv'[u] = Fresh
    BY <1>1, <1>2 DEF TypeInv, Types, ConvType, CallType
<1>5. ConvAt(u)' /\ pending'[conv'[u]] = None
    BY <1>1, <1>2, <1>3, <1>4 DEF ConvAt
<1>6. ActiveConvInv'
    BY <1>2 DEF ActiveConvInv
<1> QED BY <1>5, <1>6

LEMMA SoloSendBegins ==
    ASSUME TypeInv, TypeInv', Solo, NEW u \in Calls, SendBegins(u), Active = {}
    PROVE  Solo'
<1>1. at[u] = "idle" /\ pending' = ClearPending /\ UNCHANGED machine
    BY DEF SendBegins, machineVars
<1>2. /\ \A v \in Calls : at[v] \in Over
      /\ \A k \in Convs : pending[k] # None => at[pending[k].by] = "failed"
    BY NoCall
<1>3. \A k \in Convs : pending'[k] = IF k = active THEN None ELSE pending[k]
    BY <1>1, ClearedIs
<1>4. \A k \in Convs : pending'[k] # None => pending'[k] = pending[k] /\ pending[k].by # u
    BY <1>1, <1>2, <1>3
<1>5. at \in [Calls -> Over \cup Labels] /\ conv \in [Calls -> Convs \cup {None}] /\ active \in Convs
    BY DEF TypeInv, Types, CallType, ConvType
<1>6. CASE Drifted
  <2>1. Replaces(u, machine.state) /\ at' = [at EXCEPT ![u] = "open"]
    BY <1>6 DEF SendBegins, GoesThen, Goes
  <2>2. machine.state \in States /\ at'[u] = "open"
    BY <1>5, <2>1, ContextFields DEF TypeInv, Types, MachineType
  <2>3. ActiveConvInv' /\ ConvAt(u)' /\ pending'[conv'[u]] = None
    BY <1>1, <1>3, <2>1, <2>2, ReplacedIs
  <2> QED BY <1>2, <1>4, <2>1, <2>3, SoloMoves DEF Solo
<1>7. CASE ~Drifted
  <2>1. /\ at' = [at EXCEPT ![u] = "start"] /\ conv' = [conv EXCEPT ![u] = active]
        /\ UNCHANGED <<active, live, opened, stateName, offered>>
    BY <1>7 DEF SendBegins, GoesThen, Goes, convVars
  <2>2. at'[u] = "start" /\ conv'[u] = active
    BY <1>5, <2>1
  <2>3. ConvAt(u)'
    BY <1>1, <1>7, <2>1, <2>2 DEF ConvAt, Drifted
  <2>4. ActiveConvInv' /\ pending'[conv'[u]] = None
    BY <1>1, <1>3, <1>5, <2>1, <2>2 DEF Solo, ActiveConvInv
  <2> QED BY <1>2, <1>4, <2>1, <2>3, <2>4, SoloMoves DEF Solo
<1> QED BY <1>6, <1>7

LEMMA SoloReconciles ==
    ASSUME TypeInv, TypeInv', Solo, NEW u \in Calls, Reconciles(u)
    PROVE  Solo'
<1>1. at[u] = "reconcile" /\ UNCHANGED <<machine, pending>>
    BY DEF Reconciles, machineVars, execVars
<1>2. at[u] \notin Over
    BY <1>1 DEF Over
<1>3. /\ ConvAt(u) /\ (\A v \in Calls \ {u} : at[v] \in Over)
      /\ \A k \in Convs : pending[k] # None => pending[k].by # u
    BY <1>1, <1>2, OnlyCall
<1>4. PendingInv /\ ActiveConvInv
    BY DEF Solo
<1>5. CASE Drifted
  <2>1. Replaces(u, machine.state) /\ at' = [at EXCEPT ![u] = "open"]
    BY <1>5 DEF Reconciles, GoesThen, Goes
  <2>2. machine.state \in States /\ at'[u] = "open"
    BY <2>1, ContextFields DEF TypeInv, Types, MachineType, CallType
  <2>3. ActiveConvInv' /\ ConvAt(u)' /\ pending'[conv'[u]] = None
    BY <1>1, <2>1, <2>2, ReplacedIs
  <2> QED BY <1>1, <1>3, <1>4, <2>1, <2>3, SoloMoves
<1>6. CASE ~Drifted
  <2>1. at' = [at EXCEPT ![u] = "done"] /\ UNCHANGED <<active, live, opened, stateName, offered>>
    BY <1>6 DEF Reconciles, Returns, convVars
  <2>2. ActiveConvInv'
    BY <1>1, <1>4, <2>1 DEF ActiveConvInv
  <2>3. "done" \in Over
    BY DEF Over
  <2> QED BY <1>1, <1>3, <1>4, <2>1, <2>2, <2>3, SoloMoves
<1> QED BY <1>5, <1>6

LEMMA SoloTransition ==
    ASSUME TypeInv, TypeInv', Solo, NEW u \in Calls, NEW event, Transition(u, event), Active = {}
    PROVE  Solo'
<1>1. at[u] = "idle" /\ UNCHANGED pending
    BY DEF Transition, execVars
<1>2. /\ \A v \in Calls : at[v] \in Over
      /\ \A k \in Convs : pending[k] # None => pending[k].by # u
    BY <1>1, NoCall
<1>3. PendingInv /\ ActiveConvInv
    BY DEF Solo
<1>4. CASE Moves(event) /\ Replaces(u, machine'.state) /\ mu' = u /\ GoesThen(u, "open", "save")
  <2>1. at' = [at EXCEPT ![u] = "open"] /\ at'[u] = "open"
    BY <1>4 DEF GoesThen, Goes, TypeInv, Types, CallType
  <2>2. machine'.state \in States
    BY <1>4, MovesTo DEF TypeInv, Types
  <2> DEFINE s == machine'.state
  <2>3. s \in States /\ Replaces(u, s) /\ s = machine'.state
    BY <1>4, <2>2
  <2> HIDE DEF s
  <2>4. ActiveConvInv' /\ ConvAt(u)' /\ pending'[conv'[u]] = None
    BY <1>1, <2>1, <2>3, ReplacedIs
  <2> QED BY <1>1, <1>2, <1>3, <2>1, <2>4, SoloMoves
<1>5. CASE Refused(event) /\ Goes(u, "failed") /\ UNCHANGED <<entered, mu, convVars, then, conv>>
  <2>1. at' = [at EXCEPT ![u] = "failed"] /\ UNCHANGED <<machine, active, live, opened, stateName, offered>>
    BY <1>5 DEF Refused, Goes, convVars
  <2>2. ActiveConvInv'
    BY <1>1, <1>3, <2>1 DEF ActiveConvInv
  <2>3. "failed" \in Over
    BY DEF Over
  <2> QED BY <1>1, <1>2, <1>3, <2>1, <2>2, <2>3, SoloMoves
<1> QED BY <1>4, <1>5 DEF Transition

LEMMA SoloClose ==
    ASSUME TypeInv, TypeInv', Solo, NEW u \in Calls, Close(u), Active = {}
    PROVE  Solo'
<1>1. /\ at[u] = "idle" /\ at' = [at EXCEPT ![u] = "done"] /\ live' = live \ {active}
      /\ UNCHANGED <<pending, active>>
    BY DEF Close, Goes, execVars
<1>2. /\ \A v \in Calls : at[v] \in Over
      /\ \A k \in Convs : pending[k] # None => pending[k].by # u
    BY <1>1, NoCall
<1>3. ActiveConvInv' /\ PendingInv /\ "done" \in Over
    BY <1>1 DEF Solo, ActiveConvInv, Over
<1> QED BY <1>1, <1>2, <1>3, SoloMoves

LEMMA SoloCommit ==
    ASSUME TypeInv, TypeInv', Solo, NEW u \in Calls, CommitPending(u)
    PROVE  Solo'
<1>1. /\ at[u] = "commit" /\ pending' = [pending EXCEPT ![conv[u]] = None]
      /\ UNCHANGED <<active, stateName, opened, live, then, conv>>
    BY CommitIs
<1>2. at[u] \notin Over
    BY <1>1 DEF Over
<1>3. /\ ConvAt(u) /\ (\A v \in Calls \ {u} : at[v] \in Over) /\ conv[u] \in Convs
      /\ \A k \in Convs : pending[k] # None /\ pending[k].by = u => k = conv[u]
    BY <1>2, OnlyCall
<1>4. conv[u] = active /\ active \in live
    BY <1>1, <1>3 DEF ConvAt
<1>5. \A k \in Convs : pending'[k] = IF k = conv[u] THEN None ELSE pending[k]
    BY <1>1, <1>3 DEF TypeInv, Types, ExecType
<1>6. /\ \A k \in Convs : pending'[k] # None => pending'[k] = pending[k] /\ pending[k].by # u
      /\ pending'[conv'[u]] = None
    BY <1>1, <1>3, <1>5
<1>7. PendingInv /\ ActiveConvInv
    BY DEF Solo
<1>8. then[u] \in {"arrived", "reconcile"}
    BY <1>1 DEF TypeInv, LocalsInv, LocalsAt, Thens
<1>9. PICK l \in {"arrived", "reconcile", "save", "failed"} : at' = [at EXCEPT ![u] = l]
    BY <1>8, CommitIs
<1>10. at'[u] = l
    BY <1>9 DEF TypeInv, Types, CallType
<1>11. ConvAt(u)'
    BY <1>1, <1>4, <1>10 DEF ConvAt
<1>12. ActiveConvInv'
  <2>1. CASE UNCHANGED <<machineVars, offered>>
    <3>1. UNCHANGED <<machine, offered>>
      BY <2>1 DEF machineVars
    <3> QED BY <1>1, <1>4, <1>6, <1>7, <3>1 DEF ActiveConvInv
  <2>2. CASE pending[conv[u]] # None /\ offered' = RegisterForState(active, machine'.state, offered)
    <3>1. stateName \notin External /\ opened[active] = stateName
      BY <1>4, <1>7, <2>2 DEF ActiveConvInv
    <3> DEFINE s == machine'.state
    <3>2. offered' = RegisterForState(active, s, offered)
      BY <2>2
    <3> HIDE DEF s
    <3>3. offered \in [Convs -> SUBSET Events] /\ active \in Convs
      BY DEF TypeInv, Types, ConvType
    <3>4. s \notin External => offered'[active] = EventsOf(s)
      BY <3>2, <3>3, RegisteredType
    <3>5. offered'[active] \subseteq EventsOf(machine'.state) \/ machine'.state \in External
      BY <3>4 DEF s
    <3> QED BY <1>1, <3>1, <3>5 DEF ActiveConvInv
  <2> QED BY <2>1, <2>2, CommitIs
<1> QED BY <1>3, <1>6, <1>7, <1>9, <1>11, <1>12, SoloMoves

LEMMA SoloRoundCalls ==
    ASSUME TypeInv, TypeInv', Solo, NEW u \in Calls, NEW event, RoundCalls(u, event)
    PROVE  Solo'
<1>1. /\ at[u] = "round" /\ event \in offered[conv[u]] \cup {None}
      /\ pending' = IF event = None THEN pending
                    ELSE [pending EXCEPT ![conv[u]] = [event |-> event, by |-> u, in |-> machine.state]]
      /\ UNCHANGED <<active, stateName, opened, live, offered, conv>>
    BY DEF RoundCalls, convVars
<1>2. machine'.state = machine.state
    BY RoundCallsType
<1>3. at[u] \notin Over
    BY <1>1 DEF Over
<1>4. /\ ConvAt(u) /\ (\A v \in Calls \ {u} : at[v] \in Over) /\ conv[u] \in Convs /\ u \in Active
      /\ \A k \in Convs : pending[k] # None => pending[k].by # u
    BY <1>1, <1>3, OnlyCall
<1>5. /\ conv[u] = active /\ active \in live
      /\ machine.state \notin External \/ stateName = machine.state
    BY <1>1, <1>4 DEF ConvAt
<1>6. PendingInv /\ ActiveConvInv /\ pending \in [Convs -> Pendings]
    BY DEF Solo, TypeInv, Types, ExecType
<1>7. /\ \A k \in Convs \ {conv[u]} : pending'[k] = pending[k]
      /\ event = None => pending'[conv[u]] = None
      /\ event # None => pending'[conv[u]].by = u /\ pending'[conv[u]].in = machine.state
  <2>1. pending[conv[u]] = None
    BY <1>4, <1>6 DEF PendingInv
  <2> QED BY <1>1, <1>4, <1>6, <2>1
<1>8. PICK l \in {"failed", "handoff", "end"} : at' = [at EXCEPT ![u] = l]
    BY DEF RoundCalls, Goes
<1>9. at'[u] = l
    BY <1>8 DEF TypeInv, Types, CallType
<1>10. ConvAt(u)'
    BY <1>1, <1>2, <1>5, <1>9 DEF ConvAt
<1>11. ActiveConvInv'
  <2>1. stateName \in External => event = None
    BY <1>1, <1>5, <1>6 DEF ActiveConvInv
  <2> QED BY <1>1, <1>2, <1>5, <1>6, <1>7, <2>1 DEF ActiveConvInv
<1>12. \A k \in Convs : pending'[k] # None =>
           \/ pending'[k] = pending[k] /\ pending[k].by # u
           \/ /\ pending'[k].by = u
              /\ \/ l = "failed"
                 \/ /\ l \in {"handoff", "commit", "end"} /\ k = conv'[u]
                    /\ pending'[k].in = machine'.state
    BY <1>1, <1>2, <1>4, <1>7
<1>13. pending'[conv'[u]] # None => pending'[conv'[u]].by = u
    BY <1>1, <1>7
<1> QED BY <1>4, <1>6, <1>8, <1>10, <1>11, <1>12, <1>13, SoloMoves

LEMMA SoloRestart ==
    ASSUME TypeInv, Restart
    PROVE  Solo'
<1>1. Active' = {}
    BY DEF Restart, Active, Over
<1>2. ActiveConvInv'
  <2>1. /\ opened'[active'] = stateName' /\ stateName' = machine'.state /\ pending'[active'] = None
        /\ offered'[active'] = IF machine'.state \in External THEN {} ELSE EventsOf(machine'.state)
    BY RestartConvs
  <2> QED BY <2>1 DEF ActiveConvInv
<1>3. \A k \in Convs : pending'[k] = None
    BY RestartConvs
<1> QED BY <1>1, <1>2, <1>3 DEF Solo, Alone, PendingInv

LEMMA SoloNext == TypeInv /\ TypeInv' /\ SoloInv /\ [Next]_vars => SoloInv'
<1> SUFFICES ASSUME TypeInv, TypeInv', SoloInv, [Next]_vars, Fine({"overlap"})' PROVE Solo'
    BY DEF SoloInv
<1>1. Solo
    BY StaysFine DEF SoloInv
<1>2. CASE Next
  <2>1. ASSUME NEW u \in Calls, SendBegins(u) \/ Close(u) \/ \E event \in Events : Transition(u, event)
        PROVE  Solo'
    <3>1. Active = {}
      BY <2>1, OverlapsNot DEF SendBegins, Close, Transition
    <3> QED BY <1>1, <2>1, <3>1, SoloSendBegins, SoloClose, SoloTransition
  <2> QED BY <1>1, <1>2, <2>1, Steps, SoloTurn, SoloSaves, SoloOpens, SoloOpenFails, SoloReconciles, SoloCommit,
             SoloRoundCalls, SoloRestart
<1>3. CASE UNCHANGED vars
  <2>1. UNCHANGED <<machine, active, stateName, opened, live, offered, pending, at, conv>>
    BY <1>3 DEF vars, machineVars, convVars, execVars, callVars
  <2>2. Active' = Active
    BY <2>1 DEF Active
  <2>3. Alone' /\ ActiveConvInv' /\ PendingInv'
    BY <1>1, <2>1, <2>2 DEF Solo, Alone, ActiveConvInv, PendingInv, ScheduledAt
  <2>4. \A u \in Active' : ConvAt(u)'
    BY <1>1, <2>1, <2>2 DEF Solo, ConvAt
  <2> QED BY <2>3, <2>4 DEF Solo
<1> QED BY <1>2, <1>3

LEMMA SoloTurns == TypeInv /\ SoloInv => TurnsConsistent
<1> SUFFICES ASSUME TypeInv, SoloInv, Fine({"overlap"})
             PROVE  /\ \A u \in Calls : at[u] = "start" /\ conv[u] \in live => opened[conv[u]] = machine.state
                    /\ \A u \in Calls : at[u] \in InTurn /\ pending[conv[u]] # None
                          => pending[conv[u]].by = u /\ pending[conv[u]].in = machine.state
                    /\ \A u \in Calls : at[u] = "done" =>
                          \A k \in Convs : pending[k] # None => pending[k].by # u
    BY DEF TurnsConsistent, TurnStartsInState, PendingIsOwn, ScheduledIsCommitted
<1>1. Solo
    BY DEF SoloInv
<1>2. ASSUME NEW u \in Calls, at[u] = "start", conv[u] \in live PROVE opened[conv[u]] = machine.state
  <2>1. ConvAt(u)
    BY <1>1, <1>2, OnlyCall DEF Over
  <2> QED BY <1>1, <1>2, <2>1 DEF ConvAt, Solo, ActiveConvInv
<1>3. ASSUME NEW u \in Calls, at[u] \in InTurn, pending[conv[u]] # None
      PROVE  pending[conv[u]].by = u /\ pending[conv[u]].in = machine.state
  <2>1. at[u] \notin Over
    BY <1>3 DEF InTurn, Over
  <2>2. u \in Active /\ conv[u] \in Convs
    BY <1>1, <2>1, OnlyCall
  <2>3. pending[conv[u]].by = u
    BY <1>1, <1>3, <2>2 DEF Solo, PendingInv
  <2> QED BY <1>1, <1>3, <2>1, <2>2, <2>3, OnlyCall
<1>4. ASSUME NEW u \in Calls, at[u] = "done", NEW k \in Convs, pending[k] # None PROVE pending[k].by # u
    BY <1>1, <1>4 DEF Solo, PendingInv, ScheduledAt
<1> QED BY <1>2, <1>3, <1>4

LEMMA SoloTool == TypeInv /\ SoloInv => ToolFitsState
<1> SUFFICES ASSUME TypeInv, SoloInv, Fine({"overlap"}), NEW u \in Calls, at[u] = "round"
             PROVE  offered[conv[u]] \subseteq EventsOf(machine.state)
    BY DEF ToolFitsState
<1>1. Solo
    BY DEF SoloInv
<1>2. ConvAt(u)
    BY <1>1, OnlyCall DEF Over
<1> QED BY <1>1, <1>2 DEF ConvAt, Solo, ActiveConvInv

\* Without overlapping calls a turn begins in the conversation of the state the
\* workflow is in, it commits what its own model scheduled there and nothing
\* else, and nothing that was scheduled is left when Send returns: for any
\* workflow, any number of calls and whatever fails (workflow.go Send,
\* commitDeferredTransition, reconcileActiveConv).
THEOREM TurnsAreConsistent == Spec => []TurnsConsistent
<1>1. Init => TypeInv /\ SoloInv
    BY TypeInit, SoloInit
<1>2. TypeInv /\ SoloInv /\ [Next]_vars => (TypeInv /\ SoloInv)'
    BY TypeNext, SoloNext
<1>3. TypeInv /\ SoloInv => TurnsConsistent
    BY SoloTurns
<1> QED BY <1>1, <1>2, <1>3, PTL DEF Spec

-----------------------------------------------------------------------------
(* The limit on visits.                                                    *)

Guarded == {s \in States \ (Transient \cup Fallbacks) : MaxVisits[s] > 0}

\* No context has more visits than the limit: the machine's, the stored one,
\* and one that is being stored.
VisitsInv ==
    \A s \in Guarded :
        /\ machine.visits[s] <= MaxVisits[s]
        /\ stored.current # None => stored.current.visits[s] <= MaxVisits[s]
        /\ \A u \in Calls : at[u] = "current" => snap[u].context.visits[s] <= MaxVisits[s]

\* The last transition is not stored yet.
UnsavedAt(u) == at[u] \in {"save", "current"} \/ (at[u] = "open" /\ then[u] = "save")
Unsaved == \E u \in Calls : UnsavedAt(u)

\* The machine counts every visit but those that crashes lost; the store counts
\* what the machine does, but for the last transition.
VisitCount(s) ==
    /\ entered[s] <= machine.visits[s] + crashes
    /\ stored.current # None =>
          \/ machine.visits[s] <= stored.current.visits[s]
          \/ Unsaved /\ s = machine.state /\ machine.visits[s] <= stored.current.visits[s] + 1

Counts ==
    /\ \A u \in Calls : at[u] = "current" => snap[u].context = machine
    /\ \A s \in States \ Transient : VisitCount(s)

CountInv == Fine({"store", "open", "overlap"}) => Counts

LEMMA VisitTypes ==
    ASSUME TypeInv, NEW s \in States
    PROVE  /\ machine.state \in States /\ machine.visits \in [States -> Nat] /\ machine.visits[s] \in Nat
           /\ entered \in [States -> Nat] /\ entered[s] \in Nat /\ crashes \in Nat
           /\ stored.current # None => stored.current.visits \in [States -> Nat]
                                       /\ stored.current.visits[s] \in Nat
           /\ MaxVisits[s] \in Nat
<1>1. /\ machine.state \in States /\ machine.visits \in [States -> Nat] /\ entered \in [States -> Nat]
    BY ContextFields DEF TypeInv, Types, MachineType
<1>2. stored.current # None => stored.current.visits \in [States -> Nat]
    BY StoredFields, ContextFields DEF TypeInv, Types
<1>3. crashes \in Nat
    BY DEF TypeInv, Types, GhostType
<1> QED BY <1>1, <1>2, <1>3, MachineAssumption

LEMMA CountInit == Init => VisitsInv /\ Counts
<1> SUFFICES ASSUME Init PROVE VisitsInv /\ Counts
    OBVIOUS
<1>1. /\ machine.visits = [s \in States |-> IF s = Entry THEN 1 ELSE 0] /\ entered = machine.visits
      /\ stored.current = None /\ crashes = 0 /\ \A u \in Calls : at[u] = "idle"
    BY NewContextType DEF Init, MachineInit
<1>2. MaxVisits \in [States -> Nat]
    BY MachineAssumption
<1>3. VisitsInv
    BY <1>1, <1>2 DEF VisitsInv, Guarded
<1>4. \A s \in States \ Transient : VisitCount(s)
    BY <1>1 DEF VisitCount
<1> QED BY <1>1, <1>3, <1>4 DEF Counts

\* A transition respects the limit, of every state that is no fallback.
LEMMA MovesGuarded ==
    ASSUME TypeInv, VisitsInv, NEW event, Moves(event), NEW s \in Guarded
    PROVE  machine'.visits[s] <= MaxVisits[s]
<1>1. PICK to \in States : /\ ~VisitedOut(to) \/ to \in Fallbacks
                           /\ machine'.visits = [machine.visits EXCEPT ![to] = @ + 1]
    BY MovesTo DEF TypeInv, Types
<1>2. s \in States /\ s \notin Fallbacks /\ MaxVisits[s] > 0 /\ machine.visits[s] <= MaxVisits[s]
    BY DEF Guarded, VisitsInv
<1>3. machine.visits \in [States -> Nat] /\ MaxVisits[s] \in Nat
    BY <1>2, VisitTypes
<1>4. CASE s = to
    BY <1>1, <1>2, <1>3, <1>4 DEF VisitedOut
<1>5. CASE s # to
    BY <1>1, <1>2, <1>3, <1>5
<1> QED BY <1>4, <1>5

\* The machine, or the rest of it, is as before.
LEMMA VisitsKept ==
    ASSUME TypeInv, VisitsInv,
           \/ machine'.visits = machine.visits
           \/ \E event : Moves(event)
           \/ stored.current # None /\ machine'.visits = stored.current.visits
           \/ machine' = NewContext,
           \/ stored'.current = stored.current
           \/ \E u \in Calls : at[u] = "current" /\ stored'.current.visits = snap[u].context.visits,
           \A u \in Calls : at'[u] = "current" =>
               (at[u] = "current" /\ snap'[u] = snap[u]) \/ snap'[u].context = machine
    PROVE  VisitsInv'
<1> SUFFICES ASSUME NEW s \in Guarded
             PROVE  /\ machine'.visits[s] <= MaxVisits[s]
                    /\ stored'.current # None => stored'.current.visits[s] <= MaxVisits[s]
                    /\ \A u \in Calls : at'[u] = "current" => snap'[u].context.visits[s] <= MaxVisits[s]
    BY DEF VisitsInv
<1>1. /\ machine.visits[s] <= MaxVisits[s]
      /\ stored.current # None => stored.current.visits[s] <= MaxVisits[s]
      /\ \A u \in Calls : at[u] = "current" => snap[u].context.visits[s] <= MaxVisits[s]
    BY DEF VisitsInv
<1>2. machine'.visits[s] <= MaxVisits[s]
  <2>1. CASE machine' = NewContext
    <3>1. s \in States /\ MaxVisits[s] \in Nat \ {0}
      BY MachineAssumption DEF Guarded
    <3> QED BY <2>1, <3>1, NewContextType
  <2> QED BY <1>1, <2>1, MovesGuarded
<1>3. stored'.current # None => stored'.current.visits[s] <= MaxVisits[s]
    BY <1>1
<1>4. \A u \in Calls : at'[u] = "current" => snap'[u].context.visits[s] <= MaxVisits[s]
    BY <1>1
<1> QED BY <1>2, <1>3, <1>4

\* A step of a call copies no context, unless it is the start of a save.
LEMMA CopiesNothing ==
    ASSUME TypeInv, NEW u \in Calls, NEW l, at' = [at EXCEPT ![u] = l], l # "current", UNCHANGED snap
    PROVE  \A v \in Calls : at'[v] = "current" => at[v] = "current" /\ snap'[v] = snap[v]
BY DEF TypeInv, Types, CallType

\* The steps that leave the counters, the store and the copies.
LEMMA QuietSteps ==
    ASSUME TypeInv, NEW u \in Calls,
           TurnStep(u) \/ Opens(u) \/ OpenFails(u) \/ SendBegins(u) \/ Reconciles(u) \/ Close(u)
    PROVE  /\ UNCHANGED <<machineVars, storeVars, snap>>
           /\ \E l \in Over \cup Labels : /\ at' = [at EXCEPT ![u] = l]
                                          /\ l \notin {"current", "append"}
<1>1. CASE TurnStep(u)
  <2>1. UNCHANGED <<machineVars, storeVars, snap>>
    BY <1>1, TurnStepIs
  <2>2. \E l \in {"handoff", "failed", "round", "commit", "end"} : at' = [at EXCEPT ![u] = l]
    BY <1>1, TurnStepIs
  <2> QED BY <2>1, <2>2 DEF Over, Labels
<1>2. CASE Opens(u)
  <2>1. UNCHANGED <<machineVars, storeVars, snap>> /\ at[u] = "open"
    BY <1>2 DEF Opens
  <2>2. then[u] \in {"start", "save", "done"}
    BY <2>1 DEF TypeInv, LocalsInv, LocalsAt, Thens
  <2>3. \E l \in {"start", "save", "done"} : at' = [at EXCEPT ![u] = l]
    BY <1>2, <2>2 DEF Opens, Goes, Returns
  <2> QED BY <2>1, <2>3 DEF Over, Labels
<1>3. CASE OpenFails(u)
  <2>1. UNCHANGED <<machineVars, storeVars, snap>> /\ at' = [at EXCEPT ![u] = "failed"]
    BY <1>3 DEF OpenFails, Returns
  <2>2. "failed" \in Over /\ "failed" \notin {"current", "append"}
    BY DEF Over
  <2> QED BY <2>1, <2>2
<1>4. CASE SendBegins(u)
  <2>1. UNCHANGED <<machineVars, storeVars, snap>>
    BY <1>4 DEF SendBegins
  <2>2. \E l \in {"open", "start"} : at' = [at EXCEPT ![u] = l]
    BY <1>4 DEF SendBegins, GoesThen, Goes
  <2> QED BY <2>1, <2>2 DEF Labels
<1>5. CASE Reconciles(u)
  <2>1. UNCHANGED <<machineVars, storeVars, snap>>
    BY <1>5 DEF Reconciles
  <2>2. \E l \in {"open", "done"} : at' = [at EXCEPT ![u] = l]
    BY <1>5 DEF Reconciles, GoesThen, Goes, Returns
  <2> QED BY <2>1, <2>2 DEF Over, Labels
<1>6. CASE Close(u)
  <2>1. UNCHANGED <<machineVars, storeVars, snap>> /\ at' = [at EXCEPT ![u] = "done"]
    BY <1>6 DEF Close, Goes
  <2>2. "done" \in Over /\ "done" \notin {"current", "append"}
    BY DEF Over
  <2> QED BY <2>1, <2>2
<1> QED BY <1>1, <1>2, <1>3, <1>4, <1>5, <1>6

\* What the steps of a save do to the current context that is stored, and to
\* the copies.
LEMMA SaveCurrent ==
    ASSUME TypeInv, NEW u \in Calls, Saves(u) \/ WritesCurrent(u) \/ AppendsDelta(u) \/ Saved(u)
    PROVE  /\ \/ stored'.current = stored.current
              \/ /\ at[u] = "current" /\ stored'.current = [snap[u].context EXCEPT !.history = <<>>]
                 /\ stored'.current.visits = snap[u].context.visits
           /\ \A v \in Calls : at'[v] = "current" =>
                 (at[v] = "current" /\ snap'[v] = snap[v]) \/ snap'[v].context = machine
           /\ WritesCurrent(u) => stored'.current = [snap[u].context EXCEPT !.history = <<>>] \/ Fault("store")
<1>1. /\ at \in [Calls -> Over \cup Labels] /\ snap \in [Calls -> Snaps] /\ StoreType
    BY DEF TypeInv, Types, CallType
<1>2. CASE Saves(u)
  <2>1. UNCHANGED stored /\ ~WritesCurrent(u)
    BY <1>2 DEF Saves, storeVars, WritesCurrent
  <2>2. CASE Goes(u, "saved") /\ UNCHANGED snap
    BY <2>1, <2>2, CopiesNothing DEF Goes
  <2>3. CASE Goes(u, "current") /\ snap' = [snap EXCEPT ![u] = [context |-> machine, base |-> 0]]
    BY <1>1, <2>1, <2>3 DEF Goes
  <2> QED BY <1>2, <2>2, <2>3 DEF Saves
<1>3. CASE WritesCurrent(u)
  <2>1. at[u] = "current" /\ snap[u] \in Copies
    BY <1>3 DEF WritesCurrent, TypeInv, LocalsInv, LocalsAt
  <2> DEFINE c == [snap[u].context EXCEPT !.history = <<>>]
  <2>2. c.visits = snap[u].context.visits
    BY <2>1, CopyFields DEF Contexts
  <2>3. \/ stored' = [stored EXCEPT !.current = c] /\ NoFault
        \/ Fault("store") /\ UNCHANGED stored
    BY <1>3 DEF WritesCurrent
  <2>4. \/ stored'.current = c /\ NoFault
        \/ Fault("store") /\ stored'.current = stored.current
    <3> HIDE DEF c
    <3> QED BY <1>1, <2>3 DEF StoreType
  <2>5. \A v \in Calls : at'[v] = "current" => at[v] = "current" /\ snap'[v] = snap[v]
    BY <1>1, <1>3 DEF WritesCurrent, Goes
  <2> QED BY <1>3, <2>1, <2>2, <2>4, <2>5
<1>4. CASE AppendsDelta(u)
  <2>1. stored'.current = stored.current /\ ~WritesCurrent(u)
    <3>1. ~WritesCurrent(u)
      BY ZenonT(60), <1>4 DEF AppendsDelta, WritesCurrent
    <3> DEFINE more == stored.history \o SubSeq(snap[u].context.history, snap[u].base + 1, Len(snap[u].context.history))
    <3>2. stored' = [stored EXCEPT !.history = more] \/ UNCHANGED stored
      BY ZenonT(60), <1>4 DEF AppendsDelta
    <3> HIDE DEF more
    <3> QED BY SMTT(40), <1>1, <3>1, <3>2 DEF StoreType
  <2>2. at' = [at EXCEPT ![u] = "saved"] /\ snap' = [snap EXCEPT ![u] = None]
    BY <1>4 DEF AppendsDelta, Goes
  <2>3. \A v \in Calls : at'[v] = "current" => at[v] = "current" /\ snap'[v] = snap[v]
    BY <1>1, <2>2
  <2> QED BY <2>1, <2>3
<1>5. CASE Saved(u)
  <2>1. UNCHANGED <<stored, snap>> /\ ~WritesCurrent(u)
    BY <1>5 DEF Saved, WritesCurrent, storeVars
  <2>2. at' = [at EXCEPT ![u] = "done"] \/ at' = [at EXCEPT ![u] = then[u]]
    BY <1>5 DEF Saved, Returns, Goes
  <2>3. then[u] # "current"
    BY DEF TypeInv, Types, CallType, Afters
  <2> QED BY <2>1, <2>2, <2>3, CopiesNothing
<1> QED BY <1>2, <1>3, <1>4, <1>5

LEMMA VisitsNext == TypeInv /\ TypeInv' /\ VisitsInv /\ [Next]_vars => VisitsInv'
<1> SUFFICES ASSUME TypeInv, TypeInv', VisitsInv, [Next]_vars PROVE VisitsInv'
    OBVIOUS
<1>1. ASSUME NEW u \in Calls,
             TurnStep(u) \/ Opens(u) \/ OpenFails(u) \/ SendBegins(u) \/ Reconciles(u) \/ Close(u)
      PROVE  VisitsInv'
  <2>1. machine' = machine /\ stored' = stored /\ snap' = snap
    BY <1>1, QuietSteps DEF machineVars, storeVars
  <2>2. PICK l : at' = [at EXCEPT ![u] = l] /\ l # "current"
    BY <1>1, QuietSteps
  <2>3. \A v \in Calls : at'[v] = "current" => at[v] = "current" /\ snap'[v] = snap[v]
    BY <2>1, <2>2, CopiesNothing
  <2> QED BY <2>1, <2>3, VisitsKept
<1>2. ASSUME NEW u \in Calls, Saves(u) \/ WritesCurrent(u) \/ AppendsDelta(u) \/ Saved(u)
      PROVE  VisitsInv'
  <2>1. machine' = machine
    BY <1>2, SavingIs DEF machineVars
  <2>2. \/ stored'.current = stored.current
        \/ at[u] = "current" /\ stored'.current.visits = snap[u].context.visits
    BY <1>2, SaveCurrent
  <2> QED BY <1>2, <2>1, <2>2, SaveCurrent, VisitsKept
<1>3. ASSUME NEW u \in Calls, CommitPending(u) PROVE VisitsInv'
  <2>1. UNCHANGED <<stored, snap>> /\ (UNCHANGED machine \/ \E event : Moves(event))
    BY <1>3, CommitIs DEF storeVars, machineVars
  <2>2. then[u] # "current"
    BY DEF TypeInv, Types, CallType, Afters
  <2>3. \E l : at' = [at EXCEPT ![u] = l] /\ l # "current"
    BY <1>3, <2>2, CommitIs
  <2>4. \A v \in Calls : at'[v] = "current" => at[v] = "current" /\ snap'[v] = snap[v]
    BY <2>1, <2>3, CopiesNothing
  <2> QED BY <2>1, <2>4, VisitsKept
<1>4. ASSUME NEW u \in Calls, NEW event, RoundCalls(u, event) PROVE VisitsInv'
  <2>1. UNCHANGED <<stored, snap>> /\ machine'.visits = machine.visits
    BY <1>4, RoundCallsType DEF RoundCalls, storeVars
  <2>2. \E l \in {"failed", "handoff", "end"} : at' = [at EXCEPT ![u] = l]
    BY <1>4 DEF RoundCalls, Goes
  <2>3. \A v \in Calls : at'[v] = "current" => at[v] = "current" /\ snap'[v] = snap[v]
    BY <2>1, <2>2, CopiesNothing
  <2> QED BY <2>1, <2>3, VisitsKept
<1>5. ASSUME NEW u \in Calls, NEW event, Transition(u, event) PROVE VisitsInv'
  <2>1. UNCHANGED <<stored, snap>> /\ (UNCHANGED machine \/ Moves(event))
    BY <1>5 DEF Transition, Refused, storeVars
  <2>2. \E l \in {"open", "failed"} : at' = [at EXCEPT ![u] = l]
    BY <1>5 DEF Transition, GoesThen, Goes
  <2>3. \A v \in Calls : at'[v] = "current" => at[v] = "current" /\ snap'[v] = snap[v]
    BY <2>1, <2>2, CopiesNothing
  <2> QED BY <2>1, <2>3, VisitsKept
<1>6. CASE Restart
  <2>1. stored' = stored /\ \A v \in Calls : at'[v] # "current"
    BY <1>6 DEF Restart, Active, Over
  <2>2. machine' = NewContext \/ (stored.current # None /\ machine'.visits = stored.current.visits)
    BY <1>6, RestartMachine
  <2> QED BY <2>1, <2>2, VisitsKept
<1>7. CASE UNCHANGED vars
  <2>1. UNCHANGED <<machine, stored, snap, at>>
    BY <1>7 DEF vars, machineVars, storeVars, callVars
  <2> QED BY <2>1, VisitsKept
<1> QED BY <1>1, <1>2, <1>3, <1>4, <1>5, <1>6, <1>7, Steps

\* The counters as they were, and a transition that is not stored yet still is
\* being stored.
LEMMA CountSame ==
    ASSUME Counts, machine'.visits = machine.visits, machine'.state = machine.state,
           UNCHANGED <<entered, crashes>>, stored'.current = stored.current,
           Unsaved => Unsaved',
           \A v \in Calls : at'[v] = "current" => snap'[v].context = machine'
    PROVE  Counts'
BY DEF Counts, VisitCount

\* Of the only call.
LEMMA UnsavedOnly ==
    ASSUME TypeInv, NEW u \in Calls, \A v \in Calls \ {u} : at[v] \in Over
    PROVE  Unsaved <=> UnsavedAt(u)
BY DEF Unsaved, UnsavedAt, Over

\* A quiet step of the only call: it is not about to save, or it opened a
\* conversation and is.
LEMMA CountQuiet ==
    ASSUME TypeInv, TypeInv', Counts, NEW u \in Calls, \A v \in Calls \ {u} : at[v] \in Over,
           TurnStep(u) \/ Opens(u) \/ SendBegins(u) \/ Reconciles(u) \/ Close(u),
           UNCHANGED crashes
    PROVE  Counts'
<1>1. UNCHANGED <<machine, entered, stored, snap>>
    BY QuietSteps DEF machineVars, storeVars
<1>2. PICK l : at' = [at EXCEPT ![u] = l] /\ l # "current"
    BY QuietSteps
<1>3. \A v \in Calls : at'[v] = "current" => snap'[v].context = machine'
    BY <1>1, <1>2, CopiesNothing DEF Counts
<1>4. Unsaved => Unsaved'
  <2> SUFFICES ASSUME Unsaved PROVE Unsaved'
      OBVIOUS
  <2>1. UnsavedAt(u)
    BY UnsavedOnly
  <2>2. ~TurnStep(u)
    BY <2>1, TurnStepIs DEF UnsavedAt
  <2>3. ~SendBegins(u) /\ ~Reconciles(u) /\ ~Close(u)
    BY <2>1 DEF UnsavedAt, SendBegins, Reconciles, Close
  <2>4. Opens(u)
    BY <2>2, <2>3
  <2>5. then[u] = "save" /\ at' = [at EXCEPT ![u] = "save"]
    BY <2>1, <2>4 DEF Opens, UnsavedAt, Goes
  <2>6. at'[u] = "save"
    BY <2>5 DEF TypeInv, Types, CallType
  <2> QED BY <2>6 DEF Unsaved, UnsavedAt
<1> QED BY <1>1, <1>3, <1>4, CountSame

\* A transition by the only call, which begins to store it.
LEMMA CountMoves ==
    ASSUME TypeInv, TypeInv', Counts, NEW u \in Calls, \A v \in Calls \ {u} : at[v] \in Over,
           ~UnsavedAt(u), NEW event, Moves(event), UNCHANGED <<stored, crashes>>,
           \A v \in Calls : at'[v] # "current", UnsavedAt(u)'
    PROVE  Counts'
<1>1. PICK to \in States : /\ machine'.state = to
                           /\ machine'.visits = [machine.visits EXCEPT ![to] = @ + 1]
                           /\ entered' = [entered EXCEPT ![to] = @ + 1]
    BY MovesTo DEF TypeInv, Types
<1>2. ~Unsaved /\ Unsaved'
    BY UnsavedOnly DEF Unsaved
<1>3. ASSUME NEW s \in States \ Transient PROVE VisitCount(s)'
  <2>1. VisitCount(s) /\ s \in States
    BY DEF Counts
  <2>2. /\ machine.visits \in [States -> Nat] /\ machine.visits[s] \in Nat
        /\ entered \in [States -> Nat] /\ entered[s] \in Nat /\ crashes \in Nat
        /\ stored.current # None => stored.current.visits[s] \in Nat
    BY <2>1, VisitTypes
  <2>3. CASE s = to
    <3>1. machine'.visits[s] = machine.visits[s] + 1 /\ entered'[s] = entered[s] + 1
      BY <1>1, <2>1, <2>2, <2>3
    <3>2. entered'[s] <= machine'.visits[s] + crashes'
      BY <2>1, <2>2, <3>1 DEF VisitCount
    <3>3. stored.current # None => machine'.visits[s] <= stored.current.visits[s] + 1
      BY <1>2, <2>1, <2>2, <3>1 DEF VisitCount
    <3> QED BY <1>1, <1>2, <2>3, <3>2, <3>3 DEF VisitCount
  <2>4. CASE s # to
    <3>1. machine'.visits[s] = machine.visits[s] /\ entered'[s] = entered[s]
      BY <1>1, <2>1, <2>2, <2>4
    <3> QED BY <1>2, <2>1, <3>1 DEF VisitCount
  <2> QED BY <2>3, <2>4
<1> QED BY <1>3 DEF Counts

LEMMA CountSaves ==
    ASSUME TypeInv, TypeInv', Counts, NEW u \in Calls, \A v \in Calls \ {u} : at[v] \in Over,
           Saves(u) \/ WritesCurrent(u) \/ AppendsDelta(u) \/ Saved(u),
           ~Fault("store"), UNCHANGED crashes
    PROVE  Counts'
<1>1. UNCHANGED <<machine, entered, then>> /\ at[u] \in Saving
    BY SavingIs DEF machineVars
<1>2. at \in [Calls -> Over \cup Labels] /\ \A v \in Calls \ {u} : at[v] # "current"
    BY DEF TypeInv, Types, CallType, Over
<1>3. \A v \in Calls : at'[v] = "current" => snap'[v].context = machine'
    BY <1>1, SaveCurrent DEF Counts
<1>4. CASE WritesCurrent(u)
  <2>1. at[u] = "current" /\ snap[u] \in Copies
    BY <1>4 DEF WritesCurrent, TypeInv, LocalsInv, LocalsAt
  <2>2. stored'.current = [machine EXCEPT !.history = <<>>]
    BY <1>4, <2>1, SaveCurrent DEF Counts
  <2>3. stored'.current.visits = machine.visits
    BY <2>2 DEF TypeInv, Types, MachineType, Contexts
  <2>4. ASSUME NEW s \in States \ Transient PROVE VisitCount(s)'
    <3>1. VisitCount(s) /\ machine.visits[s] \in Nat
      BY SMTT(40), VisitTypes DEF Counts
    <3> QED BY <1>1, <2>3, <3>1 DEF VisitCount
  <2> QED BY <1>3, <2>4 DEF Counts
<1>5. CASE ~WritesCurrent(u) /\ machine.state \in Transient
  <2>1. at[u] # "current" \/ stored'.current = stored.current
    BY <1>5 DEF Saves, AppendsDelta, Saved
  <2>2. stored'.current = stored.current
    BY <2>1, SaveCurrent
  <2>3. ASSUME NEW s \in States \ Transient PROVE VisitCount(s)'
    <3>1. VisitCount(s) /\ s # machine.state
      BY <1>5 DEF Counts
    <3> QED BY <1>1, <2>2, <3>1 DEF VisitCount
  <2> QED BY <1>3, <2>3 DEF Counts
<1>6. CASE ~WritesCurrent(u) /\ machine.state \notin Transient
  <2>1. at[u] # "current" \/ stored'.current = stored.current
    BY <1>6 DEF Saves, AppendsDelta, Saved
  <2>2. stored'.current = stored.current
    BY <2>1, SaveCurrent
  <2>3. Unsaved => Unsaved'
    <3> SUFFICES ASSUME Unsaved PROVE Unsaved'
        OBVIOUS
    <3>1. UnsavedAt(u)
      BY SMTT(40), UnsavedOnly
    <3>2. Saves(u)
      BY <1>6, <3>1 DEF UnsavedAt, AppendsDelta, Saved
    <3>3. at' = [at EXCEPT ![u] = "current"]
      BY <1>6, <3>2 DEF Saves, Goes
    <3>4. at'[u] = "current"
      BY <1>2, <3>3
    <3> QED BY <3>4 DEF Unsaved, UnsavedAt
  <2> QED BY <1>1, <1>3, <2>2, <2>3, CountSame
<1> QED BY <1>4, <1>5, <1>6

\* A crash loses the transition that is being stored, and no other.
LEMMA CountRestart ==
    ASSUME TypeInv, TypeInv', Counts, Restart
    PROVE  Counts'
<1>1. /\ stored' = stored /\ \A v \in Calls : at'[v] # "current"
      /\ crashes' = IF Active = {} THEN crashes ELSE crashes + 1
    BY DEF Restart, Active, Over
<1>2. Unsaved => Active # {}
    BY DEF Unsaved, UnsavedAt, Active, Over
<1>3. ASSUME NEW s \in States \ Transient PROVE VisitCount(s)'
  <2>1. /\ VisitCount(s) /\ machine.visits[s] \in Nat /\ entered[s] \in Nat /\ crashes \in Nat
        /\ stored.current # None => stored.current.visits[s] \in Nat
    BY VisitTypes DEF Counts
  <2>2. CASE stored.current = None
    <3>1. /\ machine'.visits = [q \in States |-> IF q = Entry THEN 1 ELSE 0]
          /\ entered' = machine'.visits
      BY <2>2, RestartMachine, NewContextType
    <3>2. entered'[s] \in Nat /\ crashes' \in Nat
      BY <1>1, <2>1, <3>1
    <3> QED BY <1>1, <2>2, <3>1, <3>2 DEF VisitCount
  <2>3. CASE stored.current # None
    <3>1. machine'.visits = stored.current.visits /\ entered' = entered
      BY <2>3, RestartMachine
    <3>2. entered[s] <= stored.current.visits[s] + crashes'
      BY <1>1, <1>2, <2>1, <2>3 DEF VisitCount
    <3>3. stored.current.visits[s] <= stored.current.visits[s]
      BY <2>1, <2>3
    <3> QED BY <1>1, <3>1, <3>2, <3>3 DEF VisitCount
  <2> QED BY <2>2, <2>3
<1> QED BY <1>1, <1>3 DEF Counts

LEMMA CountCommit ==
    ASSUME TypeInv, TypeInv', Counts, NEW u \in Calls, \A v \in Calls \ {u} : at[v] \in Over,
           CommitPending(u)
    PROVE  Counts'
<1>1. at[u] = "commit" /\ UNCHANGED <<stored, snap, crashes>>
    BY CommitIs DEF storeVars, ghostVars
<1>2. then[u] # "current" /\ at \in [Calls -> Over \cup Labels]
    BY DEF TypeInv, Types, CallType, Afters
<1>3. PICK l : at' = [at EXCEPT ![u] = l] /\ l # "current"
    BY <1>2, CommitIs
<1>4. \A v \in Calls : at'[v] # "current"
    BY <1>2, <1>3 DEF Over
<1>5. ~UnsavedAt(u)
    BY <1>1 DEF UnsavedAt
<1>6. CASE UNCHANGED machineVars
  <2>1. ~Unsaved
    BY <1>5, UnsavedOnly
  <2> QED BY <1>1, <1>4, <1>6, <2>1, CountSame DEF machineVars
<1>7. CASE Moves(pending[conv[u]].event) /\ at' = [at EXCEPT ![u] = "save"]
  <2>1. UnsavedAt(u)'
    BY <1>2, <1>7 DEF UnsavedAt
  <2> QED BY <1>1, <1>4, <1>5, <1>7, <2>1, CountMoves
<1> QED BY <1>6, <1>7, CommitIs

LEMMA CountRoundCalls ==
    ASSUME TypeInv, TypeInv', Counts, NEW u \in Calls, \A v \in Calls \ {u} : at[v] \in Over,
           NEW event, RoundCalls(u, event)
    PROVE  Counts'
<1>1. /\ at[u] = "round" /\ UNCHANGED <<stored, snap, crashes, entered>>
      /\ machine'.visits = machine.visits /\ machine'.state = machine.state
    BY RoundCallsType DEF RoundCalls, storeVars, ghostVars
<1>2. PICK l \in {"failed", "handoff", "end"} : at' = [at EXCEPT ![u] = l]
    BY DEF RoundCalls, Goes
<1>3. \A v \in Calls : at'[v] # "current"
    BY <1>2 DEF TypeInv, Types, CallType, Over
<1>4. ~Unsaved
    BY <1>1, UnsavedOnly DEF UnsavedAt
<1> QED BY <1>1, <1>3, <1>4, CountSame

LEMMA CountTransition ==
    ASSUME TypeInv, TypeInv', Counts, NEW u \in Calls, \A v \in Calls \ {u} : at[v] \in Over,
           NEW event, Transition(u, event)
    PROVE  Counts'
<1>1. at[u] = "idle" /\ UNCHANGED <<stored, snap, crashes>>
    BY DEF Transition, storeVars
<1>2. at \in [Calls -> Over \cup Labels] /\ then \in [Calls -> Afters]
    BY DEF TypeInv, Types, CallType
<1>3. ~UnsavedAt(u) /\ ~Unsaved
    BY <1>1, UnsavedOnly DEF UnsavedAt
<1>4. CASE Moves(event) /\ GoesThen(u, "open", "save")
  <2>1. at'[u] = "open" /\ then'[u] = "save" /\ \A v \in Calls : at'[v] # "current"
    BY <1>2, <1>4 DEF GoesThen, Goes, Over
  <2> QED BY <1>1, <1>3, <1>4, <2>1, CountMoves DEF UnsavedAt
<1>5. CASE Refused(event) /\ Goes(u, "failed") /\ UNCHANGED entered
  <2>1. UNCHANGED machine /\ \A v \in Calls : at'[v] # "current"
    BY <1>2, <1>5 DEF Refused, Goes, Over
  <2> QED BY <1>1, <1>3, <1>5, <2>1, CountSame
<1> QED BY <1>4, <1>5 DEF Transition

LEMMA CountNext == TypeInv /\ TypeInv' /\ SoloInv /\ CountInv /\ [Next]_vars => CountInv'
<1> SUFFICES ASSUME TypeInv, TypeInv', SoloInv, CountInv, [Next]_vars, Fine({"store", "open", "overlap"})'
             PROVE  Counts'
    BY DEF CountInv
<1>1. Fine({"store", "open", "overlap"}) /\ Fine({"overlap"})'
    BY StaysFine DEF Fine
<1>2. Counts /\ Solo
    BY <1>1 DEF CountInv, SoloInv, Fine
<1>3. ~Fault("store") /\ ~Fault("open")
    BY DEF Fault, Fine
<1>4. CASE Next
  <2>1. ASSUME NEW u \in Calls, SendBegins(u) \/ Close(u) \/ \E event \in Events : Transition(u, event)
        PROVE  Counts'
    <3>1. \A v \in Calls \ {u} : at[v] \in Over
      BY <1>1, <2>1, OverlapsNot DEF SendBegins, Close, Transition, Active
    <3>2. UNCHANGED crashes
      BY <2>1 DEF SendBegins, Close, Transition
    <3> QED BY <1>2, <2>1, <3>1, <3>2, CountQuiet, CountTransition
  <2>2. ASSUME NEW u \in Calls, TurnStep(u) \/ Opens(u) \/ Reconciles(u) PROVE Counts'
    <3>1. at[u] \notin Over
      BY <2>2, TurnStepIs DEF Opens, Reconciles, Over
    <3>2. UNCHANGED crashes
      BY <2>2, TurnStepIs DEF Opens, Reconciles, ghostVars
    <3> QED BY <1>2, <2>2, <3>1, <3>2, OnlyCall, CountQuiet
  <2>3. ASSUME NEW u \in Calls, Saves(u) \/ WritesCurrent(u) \/ AppendsDelta(u) \/ Saved(u) PROVE Counts'
    <3>1. at[u] \notin Over
      BY SMTT(40), <2>3, SavingIs DEF Saving, Over
    <3>2. UNCHANGED crashes
      BY <2>3 DEF Saves, WritesCurrent, AppendsDelta, Saved, ghostVars
    <3> QED BY <1>2, <1>3, <2>3, <3>1, <3>2, OnlyCall, CountSaves
  <2>4. ASSUME NEW u \in Calls, CommitPending(u) PROVE Counts'
    <3>1. at[u] \notin Over
      BY <2>4 DEF CommitPending, Over
    <3> QED BY <1>2, <2>4, <3>1, OnlyCall, CountCommit
  <2>5. ASSUME NEW u \in Calls, NEW event, RoundCalls(u, event) PROVE Counts'
    <3>1. at[u] \notin Over
      BY <2>5 DEF RoundCalls, Over
    <3> QED BY <1>2, <2>5, <3>1, OnlyCall, CountRoundCalls
  <2>6. ASSUME NEW u \in Calls PROVE ~OpenFails(u)
    BY <1>3 DEF OpenFails
  <2> QED BY <1>2, <1>4, <2>1, <2>2, <2>3, <2>4, <2>5, <2>6, Steps, CountRestart
<1>5. CASE UNCHANGED vars
  <2>1. UNCHANGED <<machine, entered, stored, crashes, at, then, snap>>
    BY <1>5 DEF vars, machineVars, storeVars, callVars, ghostVars
  <2>2. Unsaved' <=> Unsaved
    BY <2>1 DEF Unsaved, UnsavedAt
  <2>3. \A v \in Calls : at'[v] = "current" => snap'[v].context = machine'
    BY <1>2, <2>1 DEF Counts
  <2> QED BY <1>2, <2>1, <2>2, <2>3, CountSame
<1> QED BY <1>4, <1>5

LEMMA CountGuards == TypeInv /\ VisitsInv /\ CountInv => LoopGuardHolds
<1> SUFFICES ASSUME TypeInv, VisitsInv, CountInv, NEW s \in States \ (Transient \cup Fallbacks),
                    MaxVisits[s] > 0, Fine({"store", "open", "overlap"})
             PROVE  entered[s] <= MaxVisits[s] + crashes
    BY DEF LoopGuardHolds
<1>1. machine.visits[s] <= MaxVisits[s]
    BY DEF VisitsInv, Guarded
<1>2. entered[s] <= machine.visits[s] + crashes
    BY DEF CountInv, Counts, VisitCount
<1>3. /\ machine.visits[s] \in Nat /\ entered[s] \in Nat /\ crashes \in Nat /\ MaxVisits[s] \in Nat
    BY VisitTypes
<1> QED BY <1>1, <1>2, <1>3

\* The limit on the visits of a state holds over restarts, but for one visit in
\* each crash, and the transition tool takes only events of the state that
\* speaks: for any workflow, whatever else fails (machine.go ProcessEvent,
\* transition_executor.go RegisterForState).
THEOREM MachineIsConsistent == Spec => []MachineConsistent
<1> DEFINE IInv == TypeInv /\ SoloInv /\ VisitsInv /\ CountInv
<1>1. Init => IInv
    BY TypeInit, SoloInit, CountInit DEF CountInv
<1>2. IInv /\ [Next]_vars => IInv'
    BY TypeNext, SoloNext, VisitsNext, CountNext
<1>3. IInv => MachineConsistent
    BY TypeParts, SoloTool, CountGuards DEF MachineConsistent, TypeInv, Types
<1> HIDE DEF IInv
<1> QED BY <1>1, <1>2, <1>3, PTL DEF Spec

-----------------------------------------------------------------------------
(* The store.                                                              *)

\* What is being stored is the machine as it is.
Copied ==
    \A u \in Calls : /\ at[u] \in {"current", "append"} => snap[u].context = machine
                     /\ at[u] = "append" => snap[u].base = appended

Appending == \E u \in Calls : at[u] = "append"
Untrimmed == Fine({"store", "overlap"}) /\ clock <= MaxHistory

\* As long as nothing was trimmed the stored history is the head of the
\* machine's, and historyAppended its length.
Prefix ==
    /\ appended = Len(stored.history) /\ appended <= Len(machine.history)
    /\ \A i \in 1 .. appended : stored.history[i] = machine.history[i]
    /\ Len(machine.history) <= clock
    /\ \A i \in 1 .. Len(machine.history) : machine.history[i].time <= clock
    /\ stored.current = None => appended = 0
    /\ Appending => stored.current # None /\ stored.current.state = machine.state

\* The machine's history leads to its state, the stored one to the stored
\* state, unless the end of it is yet to be appended.
Chain ==
    /\ \A i \in 1 .. Len(machine.history) - 1 :
          /\ machine.history[i].to = machine.history[i + 1].from
          /\ machine.history[i].time < machine.history[i + 1].time
    /\ Len(machine.history) > 0 => machine.history[Len(machine.history)].to = machine.state
    /\ appended > 0 /\ ~Appending => stored.history[appended].to = stored.current.state

\* What was saved is the machine.
UpToDate ==
    /\ stored.current # None => stored.current.history = <<>>
    /\ ~Unsaved /\ machine.state \notin Transient /\ Len(machine.history) > 0 =>
          /\ stored.current # None
          /\ stored.current.state = machine.state /\ stored.current.visits = machine.visits
          /\ clock <= MaxHistory /\ ~Appending => appended = Len(machine.history)

CopyInv == Fine({"overlap"}) => Copied
PrefixInv == Untrimmed => Prefix
ChainInv == Untrimmed /\ Fine({"torn"}) => Chain
UpToDateInv == Fine({"store", "open", "overlap"}) => UpToDate
StoreInv == CopyInv /\ PrefixInv /\ ChainInv /\ UpToDateInv

\* The history, the state and the visits stay.
Keeps ==
    /\ machine'.state = machine.state /\ machine'.visits = machine.visits
    /\ machine'.history = machine.history /\ UNCHANGED clock

\* A step of the only call that saves nothing.
Leaves(u) ==
    /\ at[u] \notin {"current", "append"} /\ at'[u] \notin {"current", "append"}
    /\ UNCHANGED <<stored, appended>>
    /\ \/ Keeps /\ (UnsavedAt(u) => UnsavedAt(u)' \/ Fault("open"))
       \/ (\E event : Moves(event)) /\ UnsavedAt(u)'

LEMMA QuietLeaves ==
    ASSUME TypeInv, NEW u \in Calls,
           TurnStep(u) \/ Opens(u) \/ OpenFails(u) \/ SendBegins(u) \/ Reconciles(u) \/ Close(u)
    PROVE  Leaves(u)
<1>1. UNCHANGED <<machine, clock, stored, appended>>
    BY QuietSteps DEF machineVars, storeVars
<1>2. PICK l : at' = [at EXCEPT ![u] = l] /\ l \notin {"current", "append"}
    BY QuietSteps
<1>3. at'[u] \notin {"current", "append"}
    BY <1>2 DEF TypeInv, Types, CallType
<1>4. at[u] \notin {"save", "current", "append"}
    BY TurnStepIs DEF Opens, OpenFails, SendBegins, Reconciles, Close
<1>5. UnsavedAt(u) => UnsavedAt(u)' \/ Fault("open")
  <2> SUFFICES ASSUME UnsavedAt(u) PROVE UnsavedAt(u)' \/ Fault("open")
      OBVIOUS
  <2>1. at[u] = "open" /\ then[u] = "save"
    BY <1>4 DEF UnsavedAt
  <2>2. Opens(u) \/ OpenFails(u)
    BY <2>1, TurnStepIs DEF SendBegins, Reconciles, Close
  <2>3. CASE Opens(u)
    <3>1. at' = [at EXCEPT ![u] = "save"]
      BY <2>1, <2>3 DEF Opens, Goes
    <3>2. at'[u] = "save"
      BY <3>1 DEF TypeInv, Types, CallType
    <3> QED BY <3>2 DEF UnsavedAt
  <2>4. CASE OpenFails(u)
    BY <2>4 DEF OpenFails
  <2> QED BY <2>2, <2>3, <2>4
<1> QED BY <1>1, <1>3, <1>4, <1>5 DEF Leaves, Keeps

LEMMA CommitLeaves ==
    ASSUME TypeInv, NEW u \in Calls, CommitPending(u)
    PROVE  Leaves(u)
<1>1. at[u] = "commit" /\ UNCHANGED <<stored, appended>>
    BY CommitIs DEF storeVars
<1>2. then[u] \notin {"current", "append"} /\ at \in [Calls -> Over \cup Labels]
    BY DEF TypeInv, Types, CallType, Afters
<1>3. at'[u] \notin {"current", "append"}
    BY <1>2, CommitIs
<1>4. ~UnsavedAt(u)
    BY <1>1 DEF UnsavedAt
<1>5. CASE UNCHANGED machineVars
    BY <1>1, <1>3, <1>4, <1>5 DEF Leaves, Keeps, machineVars
<1>6. CASE Moves(pending[conv[u]].event) /\ at' = [at EXCEPT ![u] = "save"]
    BY <1>1, <1>2, <1>3, <1>6 DEF Leaves, UnsavedAt
<1> QED BY <1>5, <1>6, CommitIs

LEMMA RoundLeaves ==
    ASSUME TypeInv, NEW u \in Calls, NEW event, RoundCalls(u, event)
    PROVE  Leaves(u)
<1>1. /\ at[u] = "round" /\ UNCHANGED <<stored, appended, clock>>
      /\ machine'.visits = machine.visits /\ machine'.state = machine.state
      /\ machine'.history = machine.history
    BY RoundCallsType DEF RoundCalls, storeVars
<1>2. PICK l \in {"failed", "handoff", "end"} : at' = [at EXCEPT ![u] = l]
    BY DEF RoundCalls, Goes
<1>3. at'[u] \notin {"current", "append"} /\ ~UnsavedAt(u)
    BY <1>1, <1>2 DEF TypeInv, Types, CallType, UnsavedAt
<1> QED BY <1>1, <1>3 DEF Leaves, Keeps

LEMMA TransitionLeaves ==
    ASSUME TypeInv, NEW u \in Calls, NEW event, Transition(u, event)
    PROVE  Leaves(u)
<1>1. at[u] = "idle" /\ UNCHANGED <<stored, appended>> /\ ~UnsavedAt(u)
    BY DEF Transition, storeVars, UnsavedAt
<1>2. at \in [Calls -> Over \cup Labels] /\ then \in [Calls -> Afters]
    BY DEF TypeInv, Types, CallType
<1>3. CASE Moves(event) /\ GoesThen(u, "open", "save")
  <2>1. at'[u] = "open" /\ then'[u] = "save"
    BY <1>2, <1>3 DEF GoesThen, Goes
  <2> QED BY <1>1, <1>3, <2>1 DEF Leaves, UnsavedAt
<1>4. CASE Refused(event) /\ Goes(u, "failed")
  <2>1. UNCHANGED <<machine, clock>> /\ at'[u] = "failed"
    BY <1>2, <1>4 DEF Refused, Goes
  <2> QED BY <1>1, <2>1 DEF Leaves, Keeps
<1> QED BY <1>3, <1>4 DEF Transition

\* Every step that calls without overlap make.
LEMMA SoloSteps ==
    ASSUME TypeInv, Solo, Next, Fine({"overlap"})'
    PROVE  \/ Restart
           \/ \E u \in Calls : /\ \A v \in Calls \ {u} : at[v] \in Over /\ at'[v] = at[v]
                               /\ \/ Saves(u) \/ WritesCurrent(u) \/ AppendsDelta(u) \/ Saved(u)
                                  \/ Leaves(u)
<1>1. ASSUME NEW u \in Calls, SendBegins(u) \/ Close(u) \/ \E event \in Events : Transition(u, event)
      PROVE  Leaves(u) /\ \A v \in Calls \ {u} : at[v] \in Over
  <2>1. \A v \in Calls \ {u} : at[v] \in Over
    BY <1>1, OverlapsNot DEF SendBegins, Close, Transition, Active
  <2> QED BY <1>1, <2>1, QuietLeaves, TransitionLeaves
<1>2. ASSUME NEW u \in Calls,
             TurnStep(u) \/ Opens(u) \/ OpenFails(u) \/ Reconciles(u) \/ CommitPending(u)
                \/ \E event \in Events \cup {None} : RoundCalls(u, event)
      PROVE  Leaves(u) /\ \A v \in Calls \ {u} : at[v] \in Over
  <2>1. at[u] \notin Over
    BY <1>2, TurnStepIs DEF Opens, OpenFails, Reconciles, CommitPending, RoundCalls, Over
  <2> QED BY <1>2, <2>1, OnlyCall, QuietLeaves, CommitLeaves, RoundLeaves
<1>3. ASSUME NEW u \in Calls, Saves(u) \/ WritesCurrent(u) \/ AppendsDelta(u) \/ Saved(u)
      PROVE  \A v \in Calls \ {u} : at[v] \in Over
  <2>1. at[u] \notin Over
    BY <1>3, SavingIs DEF Saving, Over
  <2> QED BY <2>1, OnlyCall
<1>4. ASSUME NEW u \in Calls, ~Restart,
             TurnStep(u) \/ Saves(u) \/ WritesCurrent(u) \/ AppendsDelta(u) \/ Saved(u)
               \/ Opens(u) \/ OpenFails(u) \/ SendBegins(u) \/ Reconciles(u) \/ Close(u)
               \/ CommitPending(u) \/ (\E event \in Events \cup {None} : RoundCalls(u, event))
               \/ (\E event \in Events : Transition(u, event))
      PROVE  \E l : at' = [at EXCEPT ![u] = l]
  <2>1. CASE TurnStep(u) \/ Opens(u) \/ OpenFails(u) \/ SendBegins(u) \/ Reconciles(u) \/ Close(u)
    BY <2>1, QuietSteps
  <2>2. CASE Saves(u) \/ WritesCurrent(u) \/ AppendsDelta(u) \/ Saved(u)
    BY <2>2, SavingIs
  <2>3. CASE CommitPending(u)
    BY <2>3, CommitIs
  <2>4. CASE \E event \in Events \cup {None} : RoundCalls(u, event)
    BY <2>4 DEF RoundCalls, Goes
  <2>5. CASE \E event \in Events : Transition(u, event)
    BY <2>5 DEF Transition, GoesThen, Goes
  <2> QED BY <1>4, <2>1, <2>2, <2>3, <2>4, <2>5
<1>5. \A u \in Calls : \A l : at' = [at EXCEPT ![u] = l] => \A v \in Calls \ {u} : at'[v] = at[v]
    BY DEF TypeInv, Types, CallType
<1> QED BY <1>1, <1>2, <1>3, <1>4, <1>5, Steps

\* The tail completes the head.
LEMMA TailAppended ==
    ASSUME NEW T, NEW h \in Seq(T), NEW g \in Seq(T), Len(g) <= Len(h),
           \A i \in 1 .. Len(g) : g[i] = h[i]
    PROVE  LET more == g \o SubSeq(h, Len(g) + 1, Len(h))
           IN  Len(more) = Len(h) /\ \A i \in 1 .. Len(h) : more[i] = h[i]
<1> DEFINE t == SubSeq(h, Len(g) + 1, Len(h))
<1> DEFINE more == g \o t
<1>1. Len(g) \in Nat /\ Len(h) \in Nat
    OBVIOUS
<1>2. t \in Seq(T) /\ Len(t) = Len(h) - Len(g) /\ \A i \in 1 .. Len(h) - Len(g) : t[i] = h[Len(g) + i]
    BY <1>1
<1> HIDE DEF t
<1>3. Len(more) = Len(g) + Len(t)
    BY <1>2
<1>4. ASSUME NEW i \in 1 .. Len(h) PROVE more[i] = h[i]
  <2>1. CASE i <= Len(g)
    <3>1. more[i] = g[i] /\ i \in 1 .. Len(g)
      BY <1>1, <1>2, <2>1
    <3> QED BY <3>1
  <2>2. CASE i > Len(g)
    <3>1. i - Len(g) \in 1 .. Len(h) - Len(g) /\ i - Len(g) \in 1 .. Len(t)
      BY <1>1, <1>2, <2>2
    <3>2. more[i] = t[i - Len(g)]
      BY <1>1, <1>2, <2>2, <3>1
    <3>3. t[i - Len(g)] = h[Len(g) + (i - Len(g))]
      BY <1>2, <3>1
    <3>4. Len(g) + (i - Len(g)) = i
      BY <1>1
    <3> HIDE DEF more
    <3> QED BY <3>2, <3>3, <3>4, Zenon
  <2>3. i <= Len(g) \/ i > Len(g)
    BY <1>1
  <2> QED BY <2>1, <2>2, <2>3, Zenon
<1> QED BY <1>1, <1>2, <1>3, <1>4 DEF t

\* A transition that is not trimmed is appended.
LEMMA MovesAppend ==
    ASSUME TypeInv, NEW event, Moves(event), Len(machine.history) <= clock, clock' <= MaxHistory
    PROVE  /\ clock' = clock + 1 /\ Len(machine'.history) = Len(machine.history) + 1
           /\ \A i \in 1 .. Len(machine.history) : machine'.history[i] = machine.history[i]
           /\ machine'.history[Len(machine.history) + 1].from = machine.state
           /\ machine'.history[Len(machine.history) + 1].to = machine'.state
           /\ machine'.history[Len(machine.history) + 1].time = clock'
<1>1. PICK to \in States :
         /\ machine'.state = to /\ clock' = clock + 1
         /\ machine'.history = Trimmed(Append(machine.history,
                [from |-> machine.state, to |-> to, time |-> clock + 1]))
    BY MovesTo DEF TypeInv, Types
<1>2. /\ machine.history \in Seq(Transitions) /\ machine.state \in States /\ clock \in Nat
      /\ MaxHistory \in Nat
    BY ContextFields, MachineAssumption DEF TypeInv, Types, MachineType
<1> DEFINE tr == [from |-> machine.state, to |-> to, time |-> clock + 1]
<1> DEFINE h == machine.history
<1>3. tr \in Transitions /\ tr.from = machine.state /\ tr.to = to /\ tr.time = clock + 1
    BY <1>2 DEF Transitions
<1>4. machine'.history = Trimmed(Append(h, tr)) /\ h \in Seq(Transitions)
    BY <1>1, <1>2
<1> HIDE DEF tr, h
<1>5. /\ Append(h, tr) \in Seq(Transitions) /\ Len(Append(h, tr)) = Len(h) + 1 /\ Len(h) \in Nat
      /\ \A i \in 1 .. Len(h) : Append(h, tr)[i] = h[i]
      /\ Append(h, tr)[Len(h) + 1] = tr
    BY <1>3, <1>4
<1>6. Len(Append(h, tr)) <= MaxHistory
    BY <1>1, <1>2, <1>5 DEF h
<1>7. machine'.history = Append(h, tr)
    BY <1>4, <1>5, <1>6, TrimmedType
<1> QED BY <1>1, <1>3, <1>5, <1>7 DEF h

LEMMA StoreTypes ==
    ASSUME TypeInv
    PROVE  /\ appended \in Nat /\ clock \in Nat /\ MaxHistory \in Nat
           /\ stored.history \in Seq(Transitions) /\ Len(stored.history) \in Nat
           /\ machine.history \in Seq(Transitions) /\ Len(machine.history) \in Nat
           /\ stored.current # None => stored.current \in Contexts
<1>1. appended \in Nat /\ clock \in Nat /\ machine \in Contexts /\ StoreType
    BY DEF TypeInv, Types, StoreType, MachineType
<1>2. stored.history \in Seq(Transitions) /\ machine.history \in Seq(Transitions)
    BY <1>1, StoredFields, ContextFields
<1> QED BY <1>1, <1>2, StoredFields, MachineAssumption

\* The clock does not go back.
LEMMA ClockGrows ==
    ASSUME TypeInv, [Next]_vars
    PROVE  clock' >= clock
<1>1. clock \in Nat
    BY DEF TypeInv, Types, MachineType
<1>2. CASE Next
  <2>1. ASSUME NEW u \in Calls,
               TurnStep(u) \/ Opens(u) \/ OpenFails(u) \/ SendBegins(u) \/ Reconciles(u) \/ Close(u)
        PROVE  UNCHANGED clock
    BY <2>1, QuietSteps DEF machineVars
  <2>2. ASSUME NEW u \in Calls, Saves(u) \/ WritesCurrent(u) \/ AppendsDelta(u) \/ Saved(u)
        PROVE  UNCHANGED clock
    BY <2>2, SavingIs DEF machineVars
  <2>3. ASSUME NEW event, Moves(event) PROVE clock' = clock + 1
    BY <2>3, MovesTo DEF TypeInv, Types
  <2>4. ASSUME NEW u \in Calls, CommitPending(u) PROVE clock' >= clock
    BY <1>1, <2>3, <2>4, CommitIs DEF machineVars
  <2>5. ASSUME NEW u \in Calls, NEW event, RoundCalls(u, event) PROVE UNCHANGED clock
    BY <2>5 DEF RoundCalls
  <2>6. ASSUME NEW u \in Calls, NEW event, Transition(u, event) PROVE clock' >= clock
    BY <1>1, <2>3, <2>6 DEF Transition, Refused
  <2>7. Restart => UNCHANGED clock
    BY DEF Restart
  <2> QED BY <1>1, <1>2, <2>1, <2>2, <2>4, <2>5, <2>6, <2>7, Steps
<1>3. CASE UNCHANGED vars
    BY <1>1, <1>3 DEF vars, machineVars
<1> QED BY <1>2, <1>3

\* What the only call does, and whether it appends or has something unsaved.
LEMMA OnlyCallSaves ==
    ASSUME NEW u \in Calls, \A v \in Calls \ {u} : at[v] \in Over /\ at'[v] = at[v]
    PROVE  /\ Unsaved <=> UnsavedAt(u)
           /\ Unsaved' <=> UnsavedAt(u)'
           /\ Appending <=> at[u] = "append"
           /\ Appending' <=> at'[u] = "append"
<1>1. \A v \in Calls \ {u} : ~UnsavedAt(v) /\ ~UnsavedAt(v)' /\ at[v] # "append" /\ at'[v] # "append"
    BY DEF UnsavedAt, Over
<1> QED BY <1>1 DEF Unsaved, Appending

\* The steps of a save, without a fault of the store.
LEMMA SaveSteps ==
    ASSUME TypeInv, Copied, NEW u \in Calls, ~Fault("store"),
           Saves(u) \/ WritesCurrent(u) \/ AppendsDelta(u) \/ Saved(u)
    PROVE  /\ UNCHANGED <<machine, clock>>
           /\ \/ /\ at[u] \in {"save", "saved"} /\ at'[u] # "append" /\ UNCHANGED <<stored, appended>>
                 /\ at[u] = "save" => machine.state \in Transient \/ at'[u] = "current"
              \/ /\ at[u] = "current" /\ UNCHANGED appended /\ stored'.history = stored.history
                 /\ stored'.current = [machine EXCEPT !.history = <<>>]
                 /\ at'[u] = IF appended >= Len(machine.history) THEN "saved" ELSE "append"
              \/ /\ at[u] = "append" /\ at'[u] = "saved" /\ stored'.current = stored.current
                 /\ stored'.history = stored.history \o SubSeq(machine.history, appended + 1, Len(machine.history))
                 /\ appended' = Len(machine.history)
<1>1. UNCHANGED <<machine, clock>>
    BY SavingIs DEF machineVars
<1>2. at \in [Calls -> Over \cup Labels] /\ StoreType
    BY DEF TypeInv, Types, CallType
<1>3. CASE Saves(u)
    BY <1>1, <1>2, <1>3 DEF Saves, Goes, storeVars
<1>4. CASE Saved(u)
  <2>1. then[u] # "append"
    BY DEF TypeInv, Types, CallType, Afters
  <2>2. at[u] = "saved" /\ UNCHANGED <<stored, appended>>
    BY <1>4 DEF Saved, storeVars
  <2>3. at'[u] # "append"
    BY <1>2, <1>4, <2>1 DEF Saved, Goes, Returns
  <2> QED BY <1>1, <2>2, <2>3
<1>5. CASE WritesCurrent(u)
  <2>1. at[u] = "current" /\ UNCHANGED appended /\ snap[u].context = machine
    BY <1>5 DEF WritesCurrent, Copied
  <2> DEFINE c == [machine EXCEPT !.history = <<>>]
  <2>2. stored' = [stored EXCEPT !.current = c]
    BY <1>5, <2>1 DEF WritesCurrent
  <2>3. stored'.current = c /\ stored'.history = stored.history
    <3> HIDE DEF c
    <3> QED BY <1>2, <2>2 DEF StoreType
  <2>4. at'[u] = IF appended >= Len(machine.history) THEN "saved" ELSE "append"
    BY <1>2, <1>5, <2>1 DEF WritesCurrent, Goes, NothingNew
  <2> QED BY <1>1, <2>1, <2>3, <2>4
<1>6. CASE AppendsDelta(u)
  <2>1. at[u] = "append" /\ snap[u].context = machine /\ snap[u].base = appended
    BY <1>6 DEF AppendsDelta, Copied
  <2> DEFINE more == stored.history \o SubSeq(machine.history, appended + 1, Len(machine.history))
  <2>2. stored' = [stored EXCEPT !.history = more] /\ appended' = Len(machine.history)
    BY <1>6, <2>1 DEF AppendsDelta
  <2>3. stored'.current = stored.current /\ stored'.history = more
    <3> HIDE DEF more
    <3> QED BY <1>2, <2>2 DEF StoreType
  <2>4. at'[u] = "saved"
    BY <1>2, <1>6 DEF AppendsDelta, Goes
  <2> QED BY <1>1, <2>1, <2>2, <2>3, <2>4
<1> QED BY <1>3, <1>4, <1>5, <1>6

LEMMA CopyNext ==
    ASSUME TypeInv, Solo, Copied, Next, Fine({"overlap"})'
    PROVE  Copied'
<1>1. at \in [Calls -> Over \cup Labels] /\ snap \in [Calls -> Snaps]
    BY DEF TypeInv, Types, CallType
<1>2. CASE Restart
  <2>1. \A v \in Calls : at'[v] \notin {"current", "append"}
    BY <1>2 DEF Restart, Active, Over
  <2> QED BY <2>1 DEF Copied
<1>3. ASSUME NEW u \in Calls, \A v \in Calls \ {u} : at[v] \in Over /\ at'[v] = at[v],
             \/ Saves(u) \/ WritesCurrent(u) \/ AppendsDelta(u) \/ Saved(u)
             \/ Leaves(u)
      PROVE  Copied'
  <2>1. \A v \in Calls \ {u} : at'[v] \notin {"current", "append"}
    BY <1>3 DEF Over
  <2>2. CASE Leaves(u)
    BY <2>1, <2>2 DEF Leaves, Copied
  <2>3. CASE Saves(u)
    <3>1. UNCHANGED machine
      BY <2>3 DEF Saves, machineVars
    <3>2. CASE Goes(u, "saved")
      BY <1>1, <2>1, <3>2 DEF Goes, Copied
    <3>3. CASE Goes(u, "current") /\ snap' = [snap EXCEPT ![u] = [context |-> machine, base |-> 0]]
      BY <1>1, <2>1, <3>1, <3>3 DEF Goes, Copied
    <3> QED BY <2>3, <3>2, <3>3 DEF Saves
  <2>4. CASE WritesCurrent(u)
    <3>1. UNCHANGED <<machine, appended>> /\ at[u] = "current" /\ snap[u] \in Copies
      BY <2>4 DEF WritesCurrent, machineVars, TypeInv, LocalsInv, LocalsAt
    <3>2. CASE Goes(u, "saved")
      BY <1>1, <2>1, <3>2 DEF Goes, Copied
    <3>3. CASE Goes(u, "append") /\ snap' = [snap EXCEPT ![u].base = appended]
      <4>1. snap'[u] = [snap[u] EXCEPT !.base = appended] /\ at'[u] = "append"
        BY <1>1, <3>3 DEF Goes
      <4>2. snap'[u].context = snap[u].context /\ snap'[u].base = appended
        BY <3>1, <4>1 DEF Copies
      <4> QED BY <2>1, <3>1, <4>1, <4>2 DEF Copied
    <3> QED BY <2>4, <3>2, <3>3 DEF WritesCurrent
  <2>5. CASE AppendsDelta(u)
    BY <1>1, <2>1, <2>5 DEF AppendsDelta, Goes, Copied
  <2>6. CASE Saved(u)
    <3>1. then[u] \notin {"current", "append"}
      BY DEF TypeInv, Types, CallType, Afters
    <3>2. at'[u] \notin {"current", "append"}
      BY <1>1, <2>6, <3>1 DEF Saved, Goes, Returns
    <3> QED BY <2>1, <3>2 DEF Copied
  <2> QED BY <1>3, <2>2, <2>3, <2>4, <2>5, <2>6
<1> QED BY <1>2, <1>3, SoloSteps

\* The machine without its history.
LEMMA BareContext ==
    ASSUME machine \in Contexts
    PROVE  LET c == [machine EXCEPT !.history = <<>>]
           IN  /\ c # None /\ c.state = machine.state /\ c.visits = machine.visits
               /\ c.history = <<>>
<1> DEFINE c == [machine EXCEPT !.history = <<>>]
<1>1. <<>> \in Seq(Transitions)
    OBVIOUS
<1>2. c \in Contexts /\ c.state = machine.state /\ c.visits = machine.visits /\ c.history = <<>>
    BY <1>1 DEF Contexts
<1> QED BY <1>2, NothingStored

LEMMA TransitionTime ==
    ASSUME NEW h \in Seq(Transitions), NEW i \in 1 .. Len(h)
    PROVE  h[i].time \in Nat
<1>1. h[i] \in Transitions
    OBVIOUS
<1> QED BY <1>1 DEF Transitions

LEMMA PrefixNext ==
    ASSUME TypeInv, TypeInv', Solo, Copied, Prefix, Next, Fine({"store", "overlap"})', clock' <= MaxHistory
    PROVE  Prefix'
<1>1. /\ appended \in Nat /\ clock \in Nat /\ MaxHistory \in Nat /\ Len(stored.history) \in Nat
      /\ stored.history \in Seq(Transitions) /\ machine.history \in Seq(Transitions)
      /\ Len(machine.history) \in Nat
    BY StoreTypes
<1>2. Fine({"overlap"})' /\ ~Fault("store")
    BY DEF Fine, Fault
<1>3. CASE Restart
  <2>1. UNCHANGED <<clock, stored>> /\ ~Appending'
    BY <1>3 DEF Restart, Appending, Active, Over
  <2>2. CASE stored.current = None
    <3>1. appended' = 0 /\ machine'.history = <<>> /\ Len(stored.history) = 0
      BY <2>2, <1>3, RestartMachine, NewContextType DEF Prefix
    <3> QED BY <1>1, <2>1, <3>1 DEF Prefix
  <2>3. CASE stored.current # None
    <3>1. appended' = Len(stored.history) /\ machine'.history = stored.history
      BY <2>3, <1>3, RestartMachine
    <3>2. /\ Len(stored.history) <= clock
          /\ \A i \in 1 .. Len(stored.history) : stored.history[i].time <= clock
      BY <1>1 DEF Prefix
    <3> QED BY <1>1, <2>1, <2>3, <3>1, <3>2 DEF Prefix
  <2> QED BY <2>2, <2>3
<1>4. ASSUME NEW u \in Calls, \A v \in Calls \ {u} : at[v] \in Over /\ at'[v] = at[v], Leaves(u)
      PROVE  Prefix'
  <2>1. ~Appending /\ ~Appending' /\ UNCHANGED <<stored, appended>>
    BY <1>4, OnlyCallSaves DEF Leaves
  <2>2. CASE Keeps
    BY <2>1, <2>2 DEF Keeps, Prefix
  <2>3. CASE \E event : Moves(event)
    <3>1. /\ clock' = clock + 1 /\ Len(machine'.history) = Len(machine.history) + 1
          /\ \A i \in 1 .. Len(machine.history) : machine'.history[i] = machine.history[i]
          /\ machine'.history[Len(machine.history) + 1].time = clock'
      BY <2>3, MovesAppend DEF Prefix
    <3>2. ASSUME NEW i \in 1 .. Len(machine'.history) PROVE machine'.history[i].time <= clock'
      <4>1. i \in 1 .. Len(machine.history) \/ i = Len(machine.history) + 1
        BY <1>1, <3>1
      <4>2. CASE i \in 1 .. Len(machine.history)
        <5>1. machine.history[i].time <= clock /\ machine'.history[i] = machine.history[i]
          BY <3>1, <4>2 DEF Prefix
        <5>2. machine.history[i].time \in Nat
          BY <1>1, <4>2, TransitionTime
        <5> QED BY <1>1, <3>1, <5>1, <5>2
      <4>3. CASE i = Len(machine.history) + 1
        BY <1>1, <3>1, <4>3
      <4> QED BY <4>1, <4>2, <4>3
    <3>3. \A i \in 1 .. appended : stored.history[i] = machine'.history[i]
      BY <1>1, <3>1 DEF Prefix
    <3> QED BY <1>1, <2>1, <3>1, <3>2, <3>3 DEF Prefix
  <2> QED BY <1>4, <2>2, <2>3 DEF Leaves
<1>5. ASSUME NEW u \in Calls, \A v \in Calls \ {u} : at[v] \in Over /\ at'[v] = at[v],
             Saves(u) \/ WritesCurrent(u) \/ AppendsDelta(u) \/ Saved(u)
      PROVE  Prefix'
  <2>1. UNCHANGED <<machine, clock>>
    BY <1>2, <1>5, SaveSteps
  <2>2. CASE at[u] \in {"save", "saved"} /\ at'[u] # "append" /\ UNCHANGED <<stored, appended>>
    BY <1>5, <2>1, <2>2, OnlyCallSaves DEF Prefix
  <2>3. CASE /\ at[u] = "current" /\ UNCHANGED appended /\ stored'.history = stored.history
             /\ stored'.current = [machine EXCEPT !.history = <<>>]
    <3>1. stored'.current # None /\ stored'.current.state = machine.state
      BY <2>3, BareContext DEF TypeInv, Types, MachineType
    <3> QED BY <2>1, <2>3, <3>1 DEF Prefix
  <2>4. CASE /\ at[u] = "append" /\ at'[u] = "saved" /\ stored'.current = stored.current
             /\ stored'.history = stored.history \o SubSeq(machine.history, appended + 1, Len(machine.history))
             /\ appended' = Len(machine.history)
    <3>1. stored.current # None /\ ~Appending'
      BY <1>5, <2>4, OnlyCallSaves DEF Prefix
    <3> DEFINE more == stored.history \o SubSeq(machine.history, Len(stored.history) + 1, Len(machine.history))
    <3>2. Len(more) = Len(machine.history) /\ \A i \in 1 .. Len(machine.history) : more[i] = machine.history[i]
      BY <1>1, TailAppended DEF Prefix
    <3>3. stored'.history = more
      BY <2>4 DEF Prefix
    <3> HIDE DEF more
    <3>4. appended' = Len(stored'.history) /\ appended' <= Len(machine'.history) /\ stored'.current # None
      <4>1. Len(stored'.history) = Len(machine.history)
        BY <3>2, <3>3
      <4>2. appended' = Len(machine.history) /\ stored'.current = stored.current
        BY <2>4, Zenon
      <4>3. Len(machine.history) <= Len(machine.history) /\ machine' = machine
        BY <1>1, <2>1
      <4> QED BY <3>1, <4>1, <4>2, <4>3
    <3>5. \A i \in 1 .. appended' : stored'.history[i] = machine'.history[i]
      BY <2>1, <2>4, <3>2, <3>3
    <3>6. /\ Len(machine'.history) <= clock'
          /\ \A i \in 1 .. Len(machine'.history) : machine'.history[i].time <= clock'
      BY <2>1 DEF Prefix
    <3> QED BY <3>1, <3>4, <3>5, <3>6 DEF Prefix
  <2> QED BY <1>2, <1>5, <2>2, <2>3, <2>4, SaveSteps
<1> QED BY <1>2, <1>3, <1>4, <1>5, SoloSteps

LEMMA ChainNext ==
    ASSUME TypeInv, TypeInv', Solo, Copied, Prefix, Chain, Next,
           Fine({"store", "overlap"})', Fine({"torn"})', clock' <= MaxHistory
    PROVE  Chain'
<1>1. /\ appended \in Nat /\ clock \in Nat /\ MaxHistory \in Nat /\ Len(stored.history) \in Nat
      /\ stored.history \in Seq(Transitions) /\ machine.history \in Seq(Transitions)
      /\ Len(machine.history) \in Nat
    BY StoreTypes
<1>2. Fine({"overlap"})' /\ ~Fault("store") /\ Prefix'
    BY PrefixNext DEF Fine, Fault
<1>3. CASE Restart
  <2>1. ~Appending /\ UNCHANGED stored
    BY <1>3 DEF Restart, Appending, Fine
  <2>2. CASE stored.current = None
    <3>1. appended' = 0 /\ machine'.history = <<>>
      BY <2>2, <1>3, RestartMachine, NewContextType
    <3> QED BY <3>1 DEF Chain
  <2>3. CASE stored.current # None
    <3>1. /\ appended' = Len(stored.history) /\ machine'.history = stored.history
          /\ machine'.state = stored.current.state
      BY <2>3, <1>3, RestartMachine
    <3>2. appended = Len(stored.history) /\ appended <= Len(machine.history)
      BY DEF Prefix
    <3>3. ASSUME NEW i \in 1 .. appended - 1
          PROVE  /\ stored.history[i].to = stored.history[i + 1].from
                 /\ stored.history[i].time < stored.history[i + 1].time
      <4>1. i \in 1 .. appended /\ i + 1 \in 1 .. appended /\ i \in 1 .. Len(machine.history) - 1
        BY <1>1, <3>2
      <4>2. stored.history[i] = machine.history[i] /\ stored.history[i + 1] = machine.history[i + 1]
        BY <4>1 DEF Prefix
      <4> QED BY <4>1, <4>2 DEF Chain
    <3>4. appended > 0 => stored.history[appended].to = stored.current.state
      BY <2>1 DEF Chain
    <3> QED BY <2>1, <3>1, <3>2, <3>3, <3>4 DEF Chain
  <2> QED BY <2>2, <2>3
<1>4. ASSUME NEW u \in Calls, \A v \in Calls \ {u} : at[v] \in Over /\ at'[v] = at[v], Leaves(u)
      PROVE  Chain'
  <2>1. ~Appending /\ ~Appending' /\ UNCHANGED <<stored, appended>>
    BY <1>4, OnlyCallSaves DEF Leaves
  <2>2. CASE Keeps
    BY <2>1, <2>2 DEF Keeps, Chain
  <2>3. CASE \E event : Moves(event)
    <3> DEFINE n == Len(machine.history)
    <3>1. /\ clock' = clock + 1 /\ Len(machine'.history) = n + 1 /\ n \in Nat
          /\ \A i \in 1 .. n : machine'.history[i] = machine.history[i]
          /\ machine'.history[n + 1].from = machine.state
          /\ machine'.history[n + 1].to = machine'.state
          /\ machine'.history[n + 1].time = clock'
      BY <1>1, <2>3, MovesAppend DEF Prefix
    <3>2. ASSUME NEW i \in 1 .. n
          PROVE  /\ machine'.history[i].to = machine'.history[i + 1].from
                 /\ machine'.history[i].time < machine'.history[i + 1].time
      <4>1. CASE i < n
        <5>1. i \in 1 .. n - 1 /\ i + 1 \in 1 .. n
          BY <3>1, <4>1
        <5>2. /\ machine.history[i].to = machine.history[i + 1].from
              /\ machine.history[i].time < machine.history[i + 1].time
          BY <5>1 DEF Chain
        <5>3. machine'.history[i] = machine.history[i] /\ machine'.history[i + 1] = machine.history[i + 1]
          BY <3>1, <5>1
        <5> QED BY <5>2, <5>3
      <4>2. CASE i = n
        <5>1. machine.history[n].to = machine.state /\ machine.history[n].time <= clock
          BY <3>1, <4>2 DEF Chain, Prefix
        <5>2. machine.history[n].time \in Nat
          BY <1>1, <4>2, TransitionTime
        <5>3. machine'.history[i] = machine.history[n] /\ machine'.history[i + 1] = machine'.history[n + 1]
          BY <3>1, <4>2
        <5> QED BY <1>1, <3>1, <5>1, <5>2, <5>3
      <4> QED BY <3>1, <4>1, <4>2
    <3>3. Len(machine'.history) - 1 = n
      BY <3>1
    <3> HIDE DEF n
    <3> QED BY <2>1, <3>1, <3>2, <3>3 DEF Chain
  <2> QED BY <1>4, <2>2, <2>3 DEF Leaves
<1>5. ASSUME NEW u \in Calls, \A v \in Calls \ {u} : at[v] \in Over /\ at'[v] = at[v],
             Saves(u) \/ WritesCurrent(u) \/ AppendsDelta(u) \/ Saved(u)
      PROVE  Chain'
  <2>1. UNCHANGED <<machine, clock>>
    BY <1>2, <1>5, SaveSteps
  <2>2. CASE at[u] \in {"save", "saved"} /\ at'[u] # "append" /\ UNCHANGED <<stored, appended>>
    BY <1>5, <2>1, <2>2, OnlyCallSaves DEF Chain
  <2>3. CASE /\ at[u] = "current" /\ UNCHANGED appended /\ stored'.history = stored.history
             /\ stored'.current = [machine EXCEPT !.history = <<>>]
             /\ at'[u] = IF appended >= Len(machine.history) THEN "saved" ELSE "append"
    <3>1. stored'.current.state = machine.state
      BY <2>3, BareContext DEF TypeInv, Types, MachineType
    <3>2. ASSUME appended > 0, ~Appending' PROVE stored.history[appended].to = machine.state
      <4>1. appended >= Len(machine.history)
        BY <1>5, <2>3, <3>2, OnlyCallSaves
      <4>2. appended = Len(machine.history) /\ stored.history[appended] = machine.history[appended]
        BY <1>1, <3>2, <4>1 DEF Prefix
      <4> QED BY <3>2, <4>2 DEF Chain
    <3> QED BY <2>1, <2>3, <3>1, <3>2 DEF Chain
  <2>4. CASE /\ at[u] = "append" /\ at'[u] = "saved" /\ stored'.current = stored.current
             /\ appended' = Len(machine.history)
    <3>1. stored.current.state = machine.state
      BY <1>5, <2>4, OnlyCallSaves DEF Prefix
    <3>2. appended' > 0 => stored'.history[appended'] = machine.history[appended']
      BY <1>1, <1>2, <2>1, <2>4 DEF Prefix
    <3> QED BY <2>1, <2>4, <3>1, <3>2 DEF Chain
  <2> QED BY <1>2, <1>5, <2>2, <2>3, <2>4, SaveSteps
<1> QED BY <1>2, <1>3, <1>4, <1>5, SoloSteps

LEMMA UpToDateNext ==
    ASSUME TypeInv, TypeInv', Solo, Copied, clock <= MaxHistory => Prefix, UpToDate, Next,
           Fine({"store", "open", "overlap"})'
    PROVE  UpToDate'
<1>1. /\ appended \in Nat /\ clock \in Nat /\ MaxHistory \in Nat /\ Len(machine.history) \in Nat
    BY StoreTypes
<1>2. Fine({"overlap"})' /\ ~Fault("store") /\ ~Fault("open")
    BY DEF Fine, Fault
<1>3. CASE Restart
  <2>1. UNCHANGED stored
    BY <1>3 DEF Restart
  <2>2. CASE stored.current = None
    <3>1. machine'.history = <<>>
      BY <2>2, <1>3, RestartMachine, NewContextType
    <3> QED BY <2>1, <2>2, <3>1 DEF UpToDate
  <2>3. CASE stored.current # None
    <3>1. /\ appended' = Len(stored.history) /\ machine'.history = stored.history
          /\ machine'.state = stored.current.state /\ machine'.visits = stored.current.visits
      BY <2>3, <1>3, RestartMachine
    <3> QED BY <2>1, <2>3, <3>1 DEF UpToDate
  <2> QED BY <2>2, <2>3
<1>4. ASSUME NEW u \in Calls, \A v \in Calls \ {u} : at[v] \in Over /\ at'[v] = at[v], Leaves(u)
      PROVE  UpToDate'
  <2>1. ~Appending /\ UNCHANGED <<stored, appended>>
    BY <1>4, OnlyCallSaves DEF Leaves
  <2>2. CASE Keeps /\ (UnsavedAt(u) => UnsavedAt(u)')
    <3>1. Unsaved => Unsaved'
      BY <1>4, <2>2, OnlyCallSaves
    <3> QED BY <2>1, <2>2, <3>1 DEF Keeps, UpToDate
  <2>3. CASE UnsavedAt(u)'
    <3>1. Unsaved'
      BY <1>4, <2>3, OnlyCallSaves
    <3> QED BY <2>1, <3>1 DEF UpToDate
  <2> QED BY <1>2, <1>4, <2>2, <2>3 DEF Leaves
<1>5. ASSUME NEW u \in Calls, \A v \in Calls \ {u} : at[v] \in Over /\ at'[v] = at[v],
             Saves(u) \/ WritesCurrent(u) \/ AppendsDelta(u) \/ Saved(u)
      PROVE  UpToDate'
  <2>1. UNCHANGED <<machine, clock>>
    BY <1>2, <1>5, SaveSteps
  <2>2. CASE /\ at[u] \in {"save", "saved"} /\ at'[u] # "append" /\ UNCHANGED <<stored, appended>>
             /\ at[u] = "save" => machine.state \in Transient \/ at'[u] = "current"
    <3>1. ~Appending
      BY <1>5, <2>2, OnlyCallSaves
    <3>2. CASE at[u] = "save" /\ machine.state \in Transient
      BY <2>1, <2>2, <3>2 DEF UpToDate
    <3>3. CASE at[u] = "save" /\ at'[u] = "current"
      <4>1. Unsaved'
        BY <1>5, <3>3, OnlyCallSaves DEF UnsavedAt
      <4> QED BY <2>1, <2>2, <4>1 DEF UpToDate
    <3>4. CASE at[u] = "saved"
      <4>1. ~Unsaved
        BY <1>5, <3>4, OnlyCallSaves DEF UnsavedAt
      <4> QED BY <2>1, <2>2, <3>1, <4>1 DEF UpToDate
    <3> QED BY <2>2, <3>2, <3>3, <3>4
  <2>3. CASE /\ at[u] = "current" /\ UNCHANGED appended /\ stored'.history = stored.history
             /\ stored'.current = [machine EXCEPT !.history = <<>>]
             /\ at'[u] = IF appended >= Len(machine.history) THEN "saved" ELSE "append"
    <3>1. /\ stored'.current # None /\ stored'.current.state = machine.state
          /\ stored'.current.visits = machine.visits /\ stored'.current.history = <<>>
      BY <2>3, BareContext DEF TypeInv, Types, MachineType
    <3>2. clock <= MaxHistory /\ ~Appending' => appended = Len(machine.history)
      BY <1>1, <1>5, <2>3, OnlyCallSaves DEF Prefix
    <3> QED BY <2>1, <2>3, <3>1, <3>2 DEF UpToDate
  <2>4. CASE /\ at[u] = "append" /\ at'[u] = "saved" /\ stored'.current = stored.current
             /\ appended' = Len(machine.history)
    <3>1. ~Unsaved
      BY <1>5, <2>4, OnlyCallSaves DEF UnsavedAt
    <3> QED BY <2>1, <2>4, <3>1 DEF UpToDate
  <2> QED BY <1>2, <1>5, <2>2, <2>3, <2>4, SaveSteps
<1> QED BY <1>2, <1>3, <1>4, <1>5, SoloSteps

LEMMA StoreInit == Init => StoreInv
<1> SUFFICES ASSUME Init PROVE StoreInv
    OBVIOUS
<1>1. /\ machine.history = <<>> /\ clock = 0 /\ stored.history = <<>> /\ stored.current = None
      /\ appended = 0 /\ \A u \in Calls : at[u] = "idle"
    BY NewContextType DEF Init, MachineInit
<1>2. Copied /\ ~Appending
    BY <1>1 DEF Copied, Appending
<1>3. Prefix /\ Chain /\ UpToDate
    BY <1>1, <1>2 DEF Prefix, Chain, UpToDate
<1> QED BY <1>2, <1>3 DEF StoreInv, CopyInv, PrefixInv, ChainInv, UpToDateInv

LEMMA StoreNext == TypeInv /\ TypeInv' /\ SoloInv /\ StoreInv /\ [Next]_vars => StoreInv'
<1> SUFFICES ASSUME TypeInv, TypeInv', SoloInv, StoreInv, [Next]_vars PROVE StoreInv'
    OBVIOUS
<1>1. CASE Next
  <2>1. clock' >= clock /\ clock \in Nat /\ clock' \in Nat /\ MaxHistory \in Nat
    BY ClockGrows, MachineAssumption DEF TypeInv, Types, MachineType
  <2>2. ASSUME NEW x, "overlap" \in x, Fine(x)'
        PROVE  Solo /\ Copied /\ Fine(x) /\ Fine({"overlap"})'
    <3>1. Fine(x) /\ Fine({"overlap"}) /\ Fine({"overlap"})'
      BY <2>2, StaysFine DEF Fine
    <3> QED BY <3>1 DEF SoloInv, StoreInv, CopyInv
  <2>3. CopyInv'
    BY <1>1, <2>2, CopyNext DEF CopyInv
  <2>4. PrefixInv'
    <3> SUFFICES ASSUME Untrimmed' PROVE Prefix'
        BY DEF PrefixInv
    <3>1. Fine({"store", "overlap"})' /\ clock' <= MaxHistory /\ clock <= MaxHistory
      BY <2>1 DEF Untrimmed
    <3>2. Solo /\ Copied /\ Fine({"store", "overlap"})
      BY <2>2, <3>1
    <3>3. Prefix
      BY <3>1, <3>2 DEF StoreInv, PrefixInv, Untrimmed
    <3> QED BY <1>1, <3>1, <3>2, <3>3, PrefixNext
  <2>5. ChainInv'
    <3> SUFFICES ASSUME Untrimmed', Fine({"torn"})' PROVE Chain'
        BY DEF ChainInv
    <3>1. Fine({"store", "overlap"})' /\ clock' <= MaxHistory /\ clock <= MaxHistory
      BY <2>1 DEF Untrimmed
    <3>2. Solo /\ Copied /\ Fine({"store", "overlap"}) /\ Fine({"torn"})
      BY <2>2, <3>1, StaysFine
    <3>3. Prefix /\ Chain
      BY <3>1, <3>2 DEF StoreInv, PrefixInv, ChainInv, Untrimmed
    <3> QED BY <1>1, <3>1, <3>2, <3>3, ChainNext
  <2>6. UpToDateInv'
    <3> SUFFICES ASSUME Fine({"store", "open", "overlap"})' PROVE UpToDate'
        BY DEF UpToDateInv
    <3>1. Solo /\ Copied /\ Fine({"store", "open", "overlap"})
      BY <2>2
    <3>2. Fine({"store", "overlap"})
      BY <3>1 DEF Fine
    <3>3. UpToDate /\ (clock <= MaxHistory => Prefix)
      BY <3>1, <3>2 DEF StoreInv, PrefixInv, UpToDateInv, Untrimmed
    <3> QED BY <1>1, <3>1, <3>3, UpToDateNext
  <2> QED BY <2>3, <2>4, <2>5, <2>6 DEF StoreInv
<1>2. CASE UNCHANGED vars
  <2>1. UNCHANGED <<machine, clock, stored, appended, at, then, snap, spoilt>>
    BY <1>2 DEF vars, machineVars, storeVars, callVars, ghostVars
  <2>2. (Appending' <=> Appending) /\ (Unsaved' <=> Unsaved)
    BY <2>1 DEF Appending, Unsaved, UnsavedAt
  <2>3. CopyInv' /\ PrefixInv'
    BY <2>1, <2>2 DEF StoreInv, CopyInv, PrefixInv, Fine, Untrimmed, Copied, Prefix
  <2>4. ChainInv' /\ UpToDateInv'
    BY <2>1, <2>2 DEF StoreInv, ChainInv, UpToDateInv, Fine, Untrimmed, Chain, UpToDate
  <2> QED BY <2>3, <2>4 DEF StoreInv
<1> QED BY <1>1, <1>2

LEMMA StoredIsCurrent == TypeInv /\ StoreInv => StoreIsCurrent
<1> SUFFICES ASSUME TypeInv, StoreInv, Active = {}, machine.history # <<>>, machine.state \notin Transient,
                    Fine({"store", "open", "overlap"})
             PROVE  /\ stored.current = [machine EXCEPT !.history = <<>>, !.toolCalls = stored.current.toolCalls]
                    /\ clock <= MaxHistory => stored.history = machine.history
    BY DEF StoreIsCurrent
<1>1. /\ appended \in Nat /\ Len(machine.history) \in Nat /\ machine.history \in Seq(Transitions)
      /\ stored.history \in Seq(Transitions)
      /\ stored.current # None => stored.current \in Contexts
    BY StoreTypes
<1>2. Len(machine.history) > 0
    BY <1>1
<1>3. ~Unsaved /\ ~Appending
    BY DEF Unsaved, UnsavedAt, Appending, Active, Over
<1>4. /\ stored.current # None /\ stored.current.history = <<>>
      /\ stored.current.state = machine.state /\ stored.current.visits = machine.visits
      /\ clock <= MaxHistory => appended = Len(machine.history)
    BY <1>2, <1>3 DEF StoreInv, UpToDateInv, UpToDate
<1>5. stored.current = [machine EXCEPT !.history = <<>>, !.toolCalls = stored.current.toolCalls]
  <2> DEFINE c == stored.current
  <2> DEFINE H == Seq(Transitions)
  <2>1. /\ c \in [state : States, visits : [States -> Nat], toolCalls : Nat, history : H]
        /\ machine \in [state : States, visits : [States -> Nat], toolCalls : Nat, history : H]
    BY <1>1, <1>4 DEF Contexts, TypeInv, Types, MachineType
  <2>2. c.history = <<>> /\ c.state = machine.state /\ c.visits = machine.visits
    BY <1>4
  <2> HIDE DEF c, H
  <2>3. c = [machine EXCEPT !.history = <<>>, !.toolCalls = c.toolCalls]
    BY <2>1, <2>2
  <2> QED BY <2>3 DEF c
<1>6. clock <= MaxHistory => stored.history = machine.history
  <2> SUFFICES ASSUME clock <= MaxHistory PROVE stored.history = machine.history
      OBVIOUS
  <2>1. Prefix
    BY DEF StoreInv, PrefixInv, Untrimmed, Fine
  <2>2. /\ Len(stored.history) = Len(machine.history)
        /\ \A i \in 1 .. Len(machine.history) : stored.history[i] = machine.history[i]
    BY <1>4, <2>1 DEF Prefix
  <2> QED BY <1>1, <2>2
<1> QED BY <1>5, <1>6

LEMMA StoredChains == TypeInv /\ StoreInv => HistoryChains
<1> SUFFICES ASSUME TypeInv, StoreInv, Fine({"store", "overlap", "torn"}), clock <= MaxHistory,
                    NEW i \in 1 .. Len(stored.history) - 1
             PROVE  /\ stored.history[i].to = stored.history[i + 1].from
                    /\ stored.history[i].time < stored.history[i + 1].time
    BY DEF HistoryChains
<1>1. Prefix /\ Chain
    BY DEF StoreInv, PrefixInv, ChainInv, Untrimmed, Fine
<1>2. appended \in Nat /\ Len(machine.history) \in Nat
    BY StoreTypes
<1>3. i \in 1 .. appended /\ i + 1 \in 1 .. appended /\ i \in 1 .. Len(machine.history) - 1
    BY <1>1, <1>2 DEF Prefix
<1>4. stored.history[i] = machine.history[i] /\ stored.history[i + 1] = machine.history[i + 1]
    BY <1>1, <1>3 DEF Prefix
<1> QED BY <1>1, <1>3, <1>4 DEF Chain

\* Between calls the store has the workflow as it is, and its history is the
\* chain of the transitions, whatever crashed between two saves: for any
\* workflow, as long as the store answers (workflow.go persistWorkflowContext,
\* appendWorkflowListDelta, hydrateWorkflowContextLists).
THEOREM StoreIsConsistent == Spec => []StoreConsistent
<1> DEFINE IInv == TypeInv /\ SoloInv /\ StoreInv
<1>1. Init => IInv
    BY TypeInit, SoloInit, StoreInit
<1>2. IInv /\ [Next]_vars => IInv'
    BY TypeNext, SoloNext, StoreNext
<1>3. IInv => StoreConsistent
    BY StoredIsCurrent, StoredChains DEF StoreConsistent
<1> HIDE DEF IInv
<1> QED BY <1>1, <1>2, <1>3, PTL DEF Spec
=============================================================================
