--------------------------- MODULE A2AServerProofs ---------------------------
(***************************************************************************)
(* Proofs about A2AServer, for every set of tasks, contexts and            *)
(* subscribers and every bound.                                            *)
(***************************************************************************)
EXTENDS A2AServer, SequenceTheorems, TLAPS

LEMMA SubscriberFrame ==
    ASSUME NEW s \in Subs, SubscriberStep(s)
    PROVE  UNCHANGED <<storeVars, reqVars, runVars, ctxVars, subs, bcast, convVars, srvVars>>
BY DEF SubscriberStep, LookupBroadcaster, SendStatus, Subscribe, SubscriberReceives,
       SubscriberEnds, SubscriberLeaves

\* The updates of a subscription record that the handlers make.
LEMMA BufUpdate ==
    ASSUME NEW q \in Subscriptions, NEW b \in Seq(Events)
    PROVE  [q EXCEPT !.buf = b] \in Subscriptions
BY DEF Subscriptions

LEMMA GotUpdate ==
    ASSUME NEW q \in Subscriptions, q.pc # "idle", NEW g \in Seq(Events \cup TaskStates)
    PROVE  [q EXCEPT !.pc = "done", !.got = g] \in Subscriptions
BY DEF Subscriptions, SubStates

LEMMA ReceiveUpdate ==
    ASSUME NEW q \in Subscriptions, NEW g \in Seq(Events \cup TaskStates), NEW b \in Seq(Events)
    PROVE  [q EXCEPT !.got = g, !.buf = b] \in Subscriptions
BY DEF Subscriptions

LEMMA FromUpdate ==
    ASSUME NEW q \in Subscriptions, q.pc # "idle", NEW p \in SubStates, NEW n \in Nat
    PROVE  [q EXCEPT !.pc = p, !.from = n] \in Subscriptions
BY DEF Subscriptions

LEMMA BroadcastType ==
    ASSUME TypeOK, NEW t \in Tasks, NEW e \in Events, Broadcast(t, e)
    PROVE  sub' \in [Subs -> Subscriptions]
<1> SUFFICES ASSUME NEW s \in Subs PROVE sub'[s] \in Subscriptions
    BY DEF Broadcast
<1> DEFINE q == sub[s]
<1>1. q \in Subscriptions
    BY DEF TypeOK
<1>2. [q EXCEPT !.buf = Append(@, e)] \in Subscriptions
  <2>1. Append(q.buf, e) \in Seq(Events)
    BY <1>1 DEF Subscriptions
  <2>2. [q EXCEPT !.buf = Append(q.buf, e)] \in Subscriptions
    BY <1>1, <2>1, BufUpdate
  <2> QED BY <1>1, <2>2 DEF Subscriptions
<1>3. [q EXCEPT !.dropped = TRUE] \in Subscriptions
    BY <1>1 DEF Subscriptions
<1> QED BY <1>1, <1>2, <1>3 DEF Broadcast

\* An update of one subscription keeps the type if the new record has it.
LEMMA SubscriptionType ==
    ASSUME TypeOK, NEW s \in Subs, NEW q \in Subscriptions,
           sub' = [sub EXCEPT ![s] = q]
    PROVE  sub' \in [Subs -> Subscriptions]
BY DEF TypeOK

LEMMA TypeInit == Init => TypeOK
<1> SUFFICES ASSUME Init PROVE TypeOK
    OBVIOUS
<1>1. [pc |-> "idle", task |-> NoTask, from |-> 0, buf |-> <<>>, got |-> <<>>,
       dropped |-> FALSE] \in Subscriptions
    BY DEF Subscriptions, SubStates
<1>2. sub \in [Subs -> Subscriptions]
    BY <1>1 DEF Init
<1>3. wire \in [Tasks -> Seq(Events)]
    BY DEF Init
<1> QED BY <1>2, <1>3, A2AAssumption DEF Init, StoreInit, TypeOK, RunStates, Results

LEMMA TypeNext == TypeOK /\ [Next]_vars => TypeOK'
<1> SUFFICES ASSUME TypeOK, [Next]_vars PROVE TypeOK'
    OBVIOUS
<1> USE DEF storeVars, reqVars, runVars, ctxVars, subVars, convVars, srvVars
<1>1. CASE UNCHANGED vars
    BY <1>1 DEF vars, TypeOK
<1>2. ASSUME NEW t \in Tasks, Receive(t) PROVE TypeOK'
    BY <1>2 DEF Receive, Goto, getOrCreateConversation, RunStates, Results, TypeOK
<1>3. ASSUME NEW t \in Tasks, RefuseMessage(t) PROVE TypeOK'
    BY <1>3 DEF RefuseMessage, Goto, RunStates, Results, TypeOK
<1>4. ASSUME NEW t \in Tasks, CreateTask(t) PROVE TypeOK'
    BY <1>4 DEF CreateTask, Goto, Create, RunStates, Results, TypeOK
<1>5. ASSUME NEW t \in Tasks, RunConversation(t) PROVE TypeOK'
    BY <1>5 DEF RunConversation, Goto, RunStates, Results, TypeOK
<1>6. ASSUME NEW t \in Tasks, SendWorking(t) PROVE TypeOK'
    BY <1>6 DEF SendWorking, Goto, SetState, Transitions, Present, RunStates, Results, TypeOK
<1>7. ASSUME NEW t \in Tasks, SendSucceeds(t) PROVE TypeOK'
    BY <1>7 DEF SendSucceeds, Goto, RunStates, Results, TypeOK
<1>8. ASSUME NEW t \in Tasks, SendFails(t) PROVE TypeOK'
    BY <1>8 DEF SendFails, Goto, RunStates, Results, TypeOK
<1>9. ASSUME NEW t \in Tasks, StoreArtifacts(t) PROVE TypeOK'
    BY <1>9 DEF StoreArtifacts, Goto, AddArtifacts, RunStates, Results, TypeOK
<1>10. ASSUME NEW t \in Tasks, finalizeTask(t) PROVE TypeOK'
    BY <1>10 DEF finalizeTask, Goto, SetState, Transitions, Present, FinalState, RunStates,
       Results, TypeOK
<1>11. ASSUME NEW t \in Tasks, RunnerExits(t) PROVE TypeOK'
    BY <1>11 DEF RunnerExits, Goto, RunStates, Results, TypeOK
<1>12. ASSUME NEW t \in Tasks, Reply(t) PROVE TypeOK'
    BY <1>12 DEF Reply, Present, RunStates, Results, TypeOK
<1>13. ASSUME NEW t \in Tasks, OpenBroadcaster(t) PROVE TypeOK'
    BY <1>13 DEF OpenBroadcaster, Goto, RunStates, Results, TypeOK
<1>14. ASSUME NEW t \in Tasks, StreamWorking(t) PROVE TypeOK'
    BY <1>14 DEF StreamWorking, Goto, SetState, Transitions, Present, RunStates, Results, TypeOK
<1>15. ASSUME NEW t \in Tasks, AnnounceWorking(t) PROVE TypeOK'
  <2>1. "working" \in Events BY DEF Events
  <2>2. sub' \in [Subs -> Subscriptions]
    BY <1>15, <2>1, BroadcastType DEF AnnounceWorking, Emit
  <2>3. wire' \in [Tasks -> Seq(Events)]
    BY <1>15, <2>1 DEF AnnounceWorking, Emit, TypeOK
  <2> QED BY <1>15, <2>2, <2>3 DEF AnnounceWorking, Goto, RunStates, TypeOK
<1>16. ASSUME NEW t \in Tasks, RegisterStream(t) PROVE TypeOK'
    BY <1>16 DEF RegisterStream, Goto, RunStates, Results, TypeOK
<1>17. ASSUME NEW t \in Tasks, StreamArtifact(t) PROVE TypeOK'
  <2>1. "artifact" \in Events BY DEF Events
  <2>2. sub' \in [Subs -> Subscriptions]
    BY <1>17, <2>1, BroadcastType DEF StreamArtifact, Emit
  <2>3. wire' \in [Tasks -> Seq(Events)]
    BY <1>17, <2>1 DEF StreamArtifact, Emit, TypeOK
  <2> QED BY <1>17, <2>2, <2>3 DEF StreamArtifact, Goto, RunStates, TypeOK
<1>18. ASSUME NEW t \in Tasks, StreamEnds(t) PROVE TypeOK'
    BY <1>18 DEF StreamEnds, Goto, RunStates, Results, TypeOK
<1>19. ASSUME NEW t \in Tasks, RecordFinal(t) PROVE TypeOK'
    BY <1>19 DEF RecordFinal, Goto, SetState, Transitions, Present, FinalState, RunStates,
       Results, TypeOK
<1>20. ASSUME NEW t \in Tasks, EmitFinal(t) PROVE TypeOK'
  <2>1. FinalState(result[t]) \in Events BY DEF Events, FinalState
  <2>2. sub' \in [Subs -> Subscriptions]
    BY <1>20, <2>1, BroadcastType DEF EmitFinal, Emit
  <2>3. wire' \in [Tasks -> Seq(Events)]
    BY <1>20, <2>1 DEF EmitFinal, Emit, TypeOK
  <2> QED BY <1>20, <2>2, <2>3 DEF EmitFinal, Goto, RunStates, TypeOK
<1>21. ASSUME NEW t \in Tasks, StreamContextDone(t) PROVE TypeOK'
    BY <1>21 DEF StreamContextDone, Goto, RunStates, Results, TypeOK
<1>22. ASSUME NEW t \in Tasks, CloseBroadcaster(t) PROVE TypeOK'
    BY <1>22 DEF CloseBroadcaster, Goto, RunStates, Results, TypeOK
<1>23. ASSUME NEW t \in Tasks, RemoveBroadcaster(t) PROVE TypeOK'
    BY <1>23 DEF RemoveBroadcaster, Goto, RunStates, Results, TypeOK
<1>24. ASSUME NEW t \in Tasks, ClientDisconnects(t) PROVE TypeOK'
    BY <1>24 DEF ClientDisconnects, RunStates, Results, TypeOK
<1>25. ASSUME NEW t \in Tasks, CancelInFlight(t) PROVE TypeOK'
    BY <1>25 DEF CancelInFlight, RunStates, Results, TypeOK
<1>26. ASSUME NEW t \in Tasks, CancelTask(t) PROVE TypeOK'
    BY <1>26 DEF CancelTask, Cancel, CanCancel, Present, RunStates, Results, TypeOK
<1>27. ASSUME NEW t \in Tasks, SweepCancel(t) PROVE TypeOK'
    BY <1>27 DEF SweepCancel, RunStates, Results, TypeOK
<1>28. ASSUME NEW t \in Tasks, SweepBroadcaster(t) PROVE TypeOK'
    BY <1>28 DEF SweepBroadcaster, RunStates, Results, TypeOK
<1>29. ASSUME NEW s \in Subs, LookupBroadcaster(s) PROVE TypeOK'
  <2>1. PICK t \in Tasks :
          sub' = [sub EXCEPT ![s].task = t,
                             ![s].pc = IF t \in subs THEN "found" ELSE "missing"]
    BY <1>29 DEF LookupBroadcaster
  <2> DEFINE q == [sub[s] EXCEPT !.task = t,
                                 !.pc = IF t \in subs THEN "found" ELSE "missing"]
  <2>2. sub[s] \in Subscriptions BY DEF TypeOK
  <2>3. q \in Subscriptions
    BY <2>2 DEF Subscriptions, SubStates
  <2>4. sub' = [sub EXCEPT ![s] = q]
    BY <2>1, <2>2 DEF TypeOK, Subscriptions
  <2> QED BY <1>29, <2>3, <2>4, SubscriptionType DEF LookupBroadcaster, TypeOK
<1>30. ASSUME NEW s \in Subs, SendStatus(s) PROVE TypeOK'
  <2> DEFINE g == IF Present(sub[s].task) THEN <<status[sub[s].task]>> ELSE <<>>
             q == [sub[s] EXCEPT !.pc = "done", !.got = g]
  <2>1. sub[s] \in Subscriptions BY DEF TypeOK
  <2>2. g \in Seq(Events \cup TaskStates)
    <3>1. CASE Present(sub[s].task)
      <4> DEFINE x == status[sub[s].task]
      <4>1. x \in Events \cup TaskStates BY <3>1 DEF Present
      <4> HIDE DEF x
      <4>2. <<x>> \in Seq(Events \cup TaskStates) BY <4>1
      <4> QED BY <3>1, <4>2 DEF x
    <3>2. CASE ~Present(sub[s].task)
      BY <3>2
    <3> QED BY <3>1, <3>2
  <2> HIDE DEF g
  <2>3. q \in Subscriptions
    BY <1>30, <2>1, <2>2, GotUpdate DEF SendStatus
  <2>4. sub' = [sub EXCEPT ![s] = q]
    BY <1>30, <2>1 DEF SendStatus, TypeOK, Subscriptions, g
  <2> QED BY <1>30, <2>3, <2>4, SubscriptionType DEF SendStatus, TypeOK
<1>31. ASSUME NEW s \in Subs, Subscribe(s) PROVE TypeOK'
  <2> DEFINE t == sub[s].task
             p == IF bcast[t] = "closed" \/ Cardinality(Attached(t)) >= MaxSubscribers
                  THEN "done" ELSE "attached"
             q == [sub[s] EXCEPT !.pc = p, !.from = Len(wire[t])]
  <2>1. sub[s] \in Subscriptions BY DEF TypeOK
  <2>2. t \in Tasks BY <1>31, <2>1 DEF Subscribe, Subscriptions
  <2>3. Len(wire[t]) \in Nat BY <2>2 DEF TypeOK
  <2>4. q \in Subscriptions
    BY <1>31, <2>1, <2>3, FromUpdate DEF Subscribe, SubStates
  <2>5. sub' = [sub EXCEPT ![s] = q]
    BY <1>31, <2>1 DEF Subscribe, TypeOK, Subscriptions
  <2> QED BY <1>31, <2>4, <2>5, SubscriptionType DEF Subscribe, TypeOK
<1>32. ASSUME NEW s \in Subs, SubscriberReceives(s) PROVE TypeOK'
  <2> DEFINE q == [sub[s] EXCEPT !.got = Append(@, Head(sub[s].buf)), !.buf = Tail(@)]
  <2>1. sub[s] \in Subscriptions BY DEF TypeOK
  <2>2. sub[s].buf \in Seq(Events) /\ sub[s].buf # <<>> /\ sub[s].got \in Seq(Events \cup
       TaskStates)
    BY <1>32, <2>1 DEF SubscriberReceives, Subscriptions
  <2>3. Head(sub[s].buf) \in Events /\ Tail(sub[s].buf) \in Seq(Events)
    BY <2>2
  <2>4. q \in Subscriptions
    <3> DEFINE g == Append(sub[s].got, Head(sub[s].buf))
    <3>1. g \in Seq(Events \cup TaskStates) BY <2>2, <2>3
    <3>2. [sub[s] EXCEPT !.got = g, !.buf = Tail(sub[s].buf)] \in Subscriptions
      BY <2>1, <2>3, <3>1, ReceiveUpdate
    <3> QED BY <2>1, <3>2 DEF Subscriptions
  <2>5. sub' = [sub EXCEPT ![s] = q]
    BY <1>32, <2>1 DEF SubscriberReceives, TypeOK, Subscriptions
  <2> QED BY <1>32, <2>4, <2>5, SubscriptionType DEF SubscriberReceives, TypeOK
<1>33. ASSUME NEW s \in Subs, SubscriberEnds(s) PROVE TypeOK'
  <2> DEFINE q == [sub[s] EXCEPT !.pc = "done"]
  <2>1. sub[s] \in Subscriptions BY DEF TypeOK
  <2>2. q \in Subscriptions
    BY <1>33, <2>1 DEF SubscriberEnds, Subscriptions, SubStates
  <2>3. sub' = [sub EXCEPT ![s] = q]
    BY <1>33, <2>1 DEF SubscriberEnds, TypeOK, Subscriptions
  <2> QED BY <1>33, <2>2, <2>3, SubscriptionType DEF SubscriberEnds, TypeOK
<1>34. ASSUME NEW s \in Subs, SubscriberLeaves(s) PROVE TypeOK'
  <2> DEFINE q == [sub[s] EXCEPT !.pc = "left"]
  <2>1. sub[s] \in Subscriptions BY DEF TypeOK
  <2>2. q \in Subscriptions
    BY <1>34, <2>1 DEF SubscriberLeaves, Subscriptions, SubStates
  <2>3. sub' = [sub EXCEPT ![s] = q]
    BY <1>34, <2>1 DEF SubscriberLeaves, TypeOK, Subscriptions
  <2> QED BY <1>34, <2>2, <2>3, SubscriptionType DEF SubscriberLeaves, TypeOK
<1>35. ASSUME NEW c \in Contexts, EvictIdleConversation(c) PROVE TypeOK'
    BY <1>35 DEF EvictIdleConversation, TypeOK
<1>36. ASSUME EvictTerminalTasks PROVE TypeOK'
    BY <1>36 DEF EvictTerminalTasks, EvictTerminal, TypeOK
<1>37. ASSUME EvictClosedBroadcasters PROVE TypeOK'
    BY <1>37 DEF EvictClosedBroadcasters, TypeOK
<1>38. ASSUME ShutdownBegins PROVE TypeOK'
    BY <1>38 DEF ShutdownBegins, TypeOK
<1>39. ASSUME ShutdownDrains PROVE TypeOK'
    BY <1>39 DEF ShutdownDrains, TypeOK
<1>40. ASSUME CloseAllBroadcasters PROVE TypeOK'
    BY <1>40 DEF CloseAllBroadcasters, TypeOK
<1>41. ASSUME CancelAll PROVE TypeOK'
    BY <1>41 DEF CancelAll, TypeOK
<1>42. ASSUME CloseConversations PROVE TypeOK'
    BY <1>42 DEF CloseConversations, TypeOK
<1>43. ASSUME NEW t \in Tasks, RunnerStep(t) PROVE TypeOK'
    BY <1>43, <1>3, <1>4, <1>5, <1>6, <1>7, <1>8, <1>9, <1>10, <1>11, <1>12, <1>13, <1>14,
       <1>15, <1>16, <1>17, <1>18, <1>19, <1>20, <1>21, <1>22, <1>23 DEF RunnerStep
<1>44. ASSUME NEW s \in Subs, SubscriberStep(s) PROVE TypeOK'
    BY <1>44, <1>29, <1>30, <1>31, <1>32, <1>33, <1>34 DEF SubscriberStep
<1>45. ASSUME ShutdownStep PROVE TypeOK'
    BY <1>45, <1>38, <1>39, <1>40, <1>41, <1>42 DEF ShutdownStep
<1> QED BY <1>1, <1>2, <1>43, <1>24, <1>25, <1>26, <1>27, <1>28, <1>44, <1>35, <1>36, <1>37,
       <1>45 DEF Next

\* Every reachable state of the server has its type.
THEOREM TypeCorrect == Spec => []TypeOK
<1>1. Init => TypeOK BY TypeInit
<1>2. TypeOK /\ [Next]_vars => TypeOK' BY TypeNext
<1> QED BY <1>1, <1>2, PTL DEF Spec

-----------------------------------------------------------------------------
(* Where a request's runner is says what its task may be in the store: the *)
(* runner is the only one that moves a task forward, and everybody else    *)
(* may only cancel or evict it.                                            *)

StatusAt(q) ==
    /\ run[q] \in {"none", "received"} => status[q] = "none"
    /\ run[q] \in {"created", "start", "opened"} =>
          status[q] \in {"submitted", "canceled", "evicted"}
    /\ run[q] \in {"sending", "artifacts", "announce", "register", "streaming", "finalize"} =>
          status[q] \in {"working", "canceled", "evicted"}

SendOnly == {"start", "sending", "artifacts", "exit"}
StreamOnly == {"opened", "announce", "register", "streaming", "final", "close", "remove"}

RunOf(q) ==
    /\ run[q] \in SendOnly => q \notin Streams
    /\ run[q] \in StreamOnly => q \in Streams

LifeInv == \A q \in Tasks : StatusAt(q) /\ RunOf(q)

LEMMA LifeNext == TypeOK /\ LifeInv /\ [Next]_vars => LifeInv'
<1> SUFFICES ASSUME TypeOK, LifeInv, [Next]_vars PROVE LifeInv'
    OBVIOUS
<1> USE DEF storeVars, reqVars, runVars, ctxVars, subVars, convVars, srvVars
<1>1. CASE UNCHANGED vars
    BY <1>1 DEF vars, LifeInv, StatusAt, RunOf, SendOnly, StreamOnly, TypeOK
<1>2. ASSUME NEW t \in Tasks, Receive(t) PROVE LifeInv'
    BY <1>2 DEF Receive, Goto, getOrCreateConversation, LifeInv, StatusAt, RunOf, SendOnly,
       StreamOnly, TypeOK
<1>3. ASSUME NEW t \in Tasks, RefuseMessage(t) PROVE LifeInv'
    BY <1>3 DEF RefuseMessage, Goto, LifeInv, StatusAt, RunOf, SendOnly, StreamOnly, TypeOK
<1>4. ASSUME NEW t \in Tasks, CreateTask(t) PROVE LifeInv'
    BY <1>4 DEF CreateTask, Goto, Create, LifeInv, StatusAt, RunOf, SendOnly, StreamOnly, TypeOK
<1>5. ASSUME NEW t \in Tasks, RunConversation(t) PROVE LifeInv'
    BY <1>5 DEF RunConversation, Goto, LifeInv, StatusAt, RunOf, SendOnly, StreamOnly, TypeOK
<1>6. ASSUME NEW t \in Tasks, SendWorking(t) PROVE LifeInv'
    BY <1>6 DEF SendWorking, Goto, SetState, Transitions, Present, terminalStates, TaskStates,
       validTransitions, LifeInv, StatusAt, RunOf, SendOnly, StreamOnly, TypeOK
<1>7. ASSUME NEW t \in Tasks, SendSucceeds(t) PROVE LifeInv'
    BY <1>7 DEF SendSucceeds, Goto, LifeInv, StatusAt, RunOf, SendOnly, StreamOnly, TypeOK
<1>8. ASSUME NEW t \in Tasks, SendFails(t) PROVE LifeInv'
    BY <1>8 DEF SendFails, Goto, LifeInv, StatusAt, RunOf, SendOnly, StreamOnly, TypeOK
<1>9. ASSUME NEW t \in Tasks, StoreArtifacts(t) PROVE LifeInv'
    BY <1>9 DEF StoreArtifacts, Goto, AddArtifacts, Present, TaskStates, LifeInv, StatusAt,
       RunOf, SendOnly, StreamOnly, TypeOK
<1>10. ASSUME NEW t \in Tasks, finalizeTask(t) PROVE LifeInv'
    BY <1>10 DEF finalizeTask, Goto, SetState, Transitions, Present, FinalState, terminalStates,
       TaskStates, validTransitions, LifeInv, StatusAt, RunOf, SendOnly, StreamOnly, TypeOK
<1>11. ASSUME NEW t \in Tasks, RunnerExits(t) PROVE LifeInv'
    BY <1>11 DEF RunnerExits, Goto, LifeInv, StatusAt, RunOf, SendOnly, StreamOnly, TypeOK
<1>12. ASSUME NEW t \in Tasks, Reply(t) PROVE LifeInv'
    BY <1>12 DEF Reply, Present, LifeInv, StatusAt, RunOf, SendOnly, StreamOnly, TypeOK
<1>13. ASSUME NEW t \in Tasks, OpenBroadcaster(t) PROVE LifeInv'
    BY <1>13 DEF OpenBroadcaster, Goto, LifeInv, StatusAt, RunOf, SendOnly, StreamOnly, TypeOK
<1>14. ASSUME NEW t \in Tasks, StreamWorking(t) PROVE LifeInv'
    BY <1>14 DEF StreamWorking, Goto, SetState, Transitions, Present, terminalStates,
       TaskStates, validTransitions, LifeInv, StatusAt, RunOf, SendOnly, StreamOnly, TypeOK
<1>15. ASSUME NEW t \in Tasks, AnnounceWorking(t) PROVE LifeInv'
    BY <1>15 DEF AnnounceWorking, Goto, Emit, LifeInv, StatusAt, RunOf, SendOnly, StreamOnly,
       TypeOK
<1>16. ASSUME NEW t \in Tasks, RegisterStream(t) PROVE LifeInv'
    BY <1>16 DEF RegisterStream, Goto, LifeInv, StatusAt, RunOf, SendOnly, StreamOnly, TypeOK
<1>17. ASSUME NEW t \in Tasks, StreamArtifact(t) PROVE LifeInv'
    BY <1>17 DEF StreamArtifact, Goto, Emit, LifeInv, StatusAt, RunOf, SendOnly, StreamOnly,
       TypeOK
<1>18. ASSUME NEW t \in Tasks, StreamEnds(t) PROVE LifeInv'
    BY <1>18 DEF StreamEnds, Goto, LifeInv, StatusAt, RunOf, SendOnly, StreamOnly, TypeOK
<1>19. ASSUME NEW t \in Tasks, RecordFinal(t) PROVE LifeInv'
    BY <1>19 DEF RecordFinal, Goto, SetState, Transitions, Present, FinalState, terminalStates,
       TaskStates, validTransitions, LifeInv, StatusAt, RunOf, SendOnly, StreamOnly, TypeOK
<1>20. ASSUME NEW t \in Tasks, EmitFinal(t) PROVE LifeInv'
    BY <1>20 DEF EmitFinal, Goto, Emit, FinalState, LifeInv, StatusAt, RunOf, SendOnly,
       StreamOnly, TypeOK
<1>21. ASSUME NEW t \in Tasks, StreamContextDone(t) PROVE LifeInv'
    BY <1>21 DEF StreamContextDone, Goto, LifeInv, StatusAt, RunOf, SendOnly, StreamOnly, TypeOK
<1>22. ASSUME NEW t \in Tasks, CloseBroadcaster(t) PROVE LifeInv'
    BY <1>22 DEF CloseBroadcaster, Goto, LifeInv, StatusAt, RunOf, SendOnly, StreamOnly, TypeOK
<1>23. ASSUME NEW t \in Tasks, RemoveBroadcaster(t) PROVE LifeInv'
    BY <1>23 DEF RemoveBroadcaster, Goto, LifeInv, StatusAt, RunOf, SendOnly, StreamOnly, TypeOK
<1>24. ASSUME NEW t \in Tasks, ClientDisconnects(t) PROVE LifeInv'
    BY <1>24 DEF ClientDisconnects, LifeInv, StatusAt, RunOf, SendOnly, StreamOnly, TypeOK
<1>25. ASSUME NEW t \in Tasks, CancelInFlight(t) PROVE LifeInv'
    BY <1>25 DEF CancelInFlight, LifeInv, StatusAt, RunOf, SendOnly, StreamOnly, TypeOK
<1>26. ASSUME NEW t \in Tasks, CancelTask(t) PROVE LifeInv'
    BY <1>26 DEF CancelTask, Cancel, CanCancel, Present, terminalStates, TaskStates, LifeInv,
       StatusAt, RunOf, SendOnly, StreamOnly, TypeOK
<1>27. ASSUME NEW t \in Tasks, SweepCancel(t) PROVE LifeInv'
    BY <1>27 DEF SweepCancel, LifeInv, StatusAt, RunOf, SendOnly, StreamOnly, TypeOK
<1>28. ASSUME NEW t \in Tasks, SweepBroadcaster(t) PROVE LifeInv'
    BY <1>28 DEF SweepBroadcaster, LifeInv, StatusAt, RunOf, SendOnly, StreamOnly, TypeOK
<1>29. ASSUME NEW s \in Subs, SubscriberStep(s) PROVE LifeInv'
    BY <1>29, SubscriberFrame DEF LifeInv, StatusAt, RunOf, SendOnly, StreamOnly, TypeOK
<1>30. ASSUME NEW c \in Contexts, EvictIdleConversation(c) PROVE LifeInv'
    BY <1>30 DEF EvictIdleConversation, LifeInv, StatusAt, RunOf, SendOnly, StreamOnly, TypeOK
<1>31. ASSUME EvictTerminalTasks PROVE LifeInv'
  <2>1. PICK old \in SUBSET Tasks : EvictTerminal(old)
    BY <1>31 DEF EvictTerminalTasks
  <2>2. UNCHANGED run
    BY <1>31 DEF EvictTerminalTasks
  <2>3. ASSUME NEW q \in Tasks PROVE StatusAt(q)' /\ RunOf(q)'
    BY <2>1, <2>2 DEF EvictTerminal, terminalStates, LifeInv, StatusAt, RunOf, TypeOK
  <2> QED BY <2>3 DEF LifeInv
<1>32. ASSUME EvictClosedBroadcasters PROVE LifeInv'
    BY <1>32 DEF EvictClosedBroadcasters, LifeInv, StatusAt, RunOf, SendOnly, StreamOnly, TypeOK
<1>33. ASSUME ShutdownBegins PROVE LifeInv'
    BY <1>33 DEF ShutdownBegins, LifeInv, StatusAt, RunOf, SendOnly, StreamOnly, TypeOK
<1>34. ASSUME ShutdownDrains PROVE LifeInv'
    BY <1>34 DEF ShutdownDrains, LifeInv, StatusAt, RunOf, SendOnly, StreamOnly, TypeOK
<1>35. ASSUME CloseAllBroadcasters PROVE LifeInv'
    BY <1>35 DEF CloseAllBroadcasters, LifeInv, StatusAt, RunOf, SendOnly, StreamOnly, TypeOK
<1>36. ASSUME CancelAll PROVE LifeInv'
    BY <1>36 DEF CancelAll, LifeInv, StatusAt, RunOf, SendOnly, StreamOnly, TypeOK
<1>37. ASSUME CloseConversations PROVE LifeInv'
    BY <1>37 DEF CloseConversations, LifeInv, StatusAt, RunOf, SendOnly, StreamOnly, TypeOK
<1>38. ASSUME NEW t \in Tasks, RunnerStep(t) PROVE LifeInv'
    BY <1>38, <1>3, <1>4, <1>5, <1>6, <1>7, <1>8, <1>9, <1>10, <1>11, <1>12, <1>13, <1>14,
       <1>15, <1>16, <1>17, <1>18, <1>19, <1>20, <1>21, <1>22, <1>23 DEF RunnerStep
<1>39. ASSUME ShutdownStep PROVE LifeInv'
    BY <1>39, <1>33, <1>34, <1>35, <1>36, <1>37 DEF ShutdownStep
<1> QED BY <1>1, <1>2, <1>38, <1>24, <1>25, <1>26, <1>27, <1>28, <1>29, <1>30, <1>31, <1>32,
       <1>39 DEF Next

LEMMA LifeInit == Init => LifeInv
BY DEF Init, StoreInit, LifeInv, StatusAt, RunOf, SendOnly, StreamOnly

THEOREM LifeInvariant == Spec => [](TypeOK /\ LifeInv)
<1>1. Init => TypeOK /\ LifeInv BY TypeInit, LifeInit
<1>2. TypeOK /\ LifeInv /\ [Next]_vars => TypeOK' /\ LifeInv' BY TypeNext, LifeNext
<1> QED BY <1>1, <1>2, PTL DEF Spec

-----------------------------------------------------------------------------
(* What the client of a stream was told, what a poller reads and what a    *)
(* blocking caller is answered agree with the store.                       *)

WireAt(q) ==
    /\ run[q] \notin {"close", "remove", "done"} =>
          \A i \in 1 .. Len(wire[q]) : wire[q][i] \notin FinalEvents
    /\ run[q] = "final" => status[q] \in {FinalState(result[q]), "canceled", "evicted"}
    /\ \A i \in 1 .. Len(wire[q]) :
          wire[q][i] \in FinalEvents => status[q] \in {wire[q][i], "canceled", "evicted"}

WireInv == \A q \in Tasks : WireAt(q)

ArtifactsAt(q) ==
    /\ result[q] = "content" => q \notin Streams
    /\ result[q] = "content" => run[q] \in {"artifacts", "finalize", "exit", "done"}
    /\ result[q] = "content" /\ run[q] # "artifacts" /\ status[q] \in {"working", "completed"} =>
          artifacts[q]

SettledAt(q) ==
    /\ q \in gone => q \in Streams
    /\ blocking[q] => q \notin Streams
    /\ run[q] \in {"none", "received", "created"} => reply[q] = "none"
    /\ run[q] \in {"exit", "done"} /\ q \notin Streams /\ q \notin cancelled =>
          status[q] \notin {"submitted", "working"}
    /\ blocking[q] /\ q \notin cancelled => reply[q] \notin {"submitted", "working"}

AnswerInv == \A q \in Tasks : ArtifactsAt(q) /\ SettledAt(q)

LEMMA WireNext == TypeOK /\ LifeInv /\ WireInv /\ [Next]_vars => WireInv'
<1> SUFFICES ASSUME TypeOK, LifeInv, WireInv, [Next]_vars PROVE WireInv'
    OBVIOUS
<1> USE DEF storeVars, reqVars, runVars, ctxVars, subVars, convVars, srvVars
<1>1. CASE UNCHANGED vars
    BY <1>1 DEF vars, WireInv, WireAt, LifeInv, StatusAt, TypeOK
<1>2. ASSUME NEW t \in Tasks, Receive(t) PROVE WireInv'
    BY <1>2 DEF Receive, Goto, getOrCreateConversation, WireInv, WireAt, LifeInv, StatusAt,
       TypeOK
<1>3. ASSUME NEW t \in Tasks, RefuseMessage(t) PROVE WireInv'
    BY <1>3 DEF RefuseMessage, Goto, WireInv, WireAt, LifeInv, StatusAt, TypeOK
<1>4. ASSUME NEW t \in Tasks, CreateTask(t) PROVE WireInv'
    BY <1>4 DEF CreateTask, Goto, Create, WireInv, WireAt, LifeInv, StatusAt, TypeOK
<1>5. ASSUME NEW t \in Tasks, RunConversation(t) PROVE WireInv'
    BY <1>5 DEF RunConversation, Goto, WireInv, WireAt, LifeInv, StatusAt, TypeOK
<1>6. ASSUME NEW t \in Tasks, SendWorking(t) PROVE WireInv'
    BY <1>6 DEF SendWorking, Goto, SetState, Transitions, Present, terminalStates, TaskStates,
       validTransitions, WireInv, WireAt, LifeInv, StatusAt, TypeOK
<1>7. ASSUME NEW t \in Tasks, SendSucceeds(t) PROVE WireInv'
    BY <1>7 DEF SendSucceeds, Goto, WireInv, WireAt, LifeInv, StatusAt, TypeOK
<1>8. ASSUME NEW t \in Tasks, SendFails(t) PROVE WireInv'
    BY <1>8 DEF SendFails, Goto, WireInv, WireAt, LifeInv, StatusAt, TypeOK
<1>9. ASSUME NEW t \in Tasks, StoreArtifacts(t) PROVE WireInv'
    BY <1>9 DEF StoreArtifacts, Goto, AddArtifacts, Present, TaskStates, WireInv, WireAt,
       LifeInv, StatusAt, TypeOK
<1>10. ASSUME NEW t \in Tasks, finalizeTask(t) PROVE WireInv'
    BY <1>10 DEF finalizeTask, Goto, SetState, Transitions, Present, FinalState, terminalStates,
       TaskStates, validTransitions, WireInv, WireAt, LifeInv, StatusAt, TypeOK
<1>11. ASSUME NEW t \in Tasks, RunnerExits(t) PROVE WireInv'
    BY <1>11 DEF RunnerExits, Goto, WireInv, WireAt, LifeInv, StatusAt, TypeOK
<1>12. ASSUME NEW t \in Tasks, Reply(t) PROVE WireInv'
    BY <1>12 DEF Reply, Present, WireInv, WireAt, LifeInv, StatusAt, TypeOK
<1>13. ASSUME NEW t \in Tasks, OpenBroadcaster(t) PROVE WireInv'
    BY <1>13 DEF OpenBroadcaster, Goto, WireInv, WireAt, LifeInv, StatusAt, TypeOK
<1>14. ASSUME NEW t \in Tasks, StreamWorking(t) PROVE WireInv'
    BY <1>14 DEF StreamWorking, Goto, SetState, Transitions, Present, terminalStates,
       TaskStates, validTransitions, WireInv, WireAt, LifeInv, StatusAt, TypeOK
<1>15. ASSUME NEW t \in Tasks, AnnounceWorking(t) PROVE WireInv'
    BY <1>15 DEF AnnounceWorking, Goto, Emit, FinalEvents, WireInv, WireAt, LifeInv, StatusAt,
       TypeOK
<1>16. ASSUME NEW t \in Tasks, RegisterStream(t) PROVE WireInv'
    BY <1>16 DEF RegisterStream, Goto, WireInv, WireAt, LifeInv, StatusAt, TypeOK
<1>17. ASSUME NEW t \in Tasks, StreamArtifact(t) PROVE WireInv'
    BY <1>17 DEF StreamArtifact, Goto, Emit, FinalEvents, WireInv, WireAt, LifeInv, StatusAt,
       TypeOK
<1>18. ASSUME NEW t \in Tasks, StreamEnds(t) PROVE WireInv'
    BY <1>18 DEF StreamEnds, Goto, WireInv, WireAt, LifeInv, StatusAt, TypeOK
<1>19. ASSUME NEW t \in Tasks, RecordFinal(t) PROVE WireInv'
    BY <1>19 DEF RecordFinal, Goto, SetState, Transitions, Present, FinalState, terminalStates,
       TaskStates, validTransitions, WireInv, WireAt, LifeInv, StatusAt, TypeOK
<1>20. ASSUME NEW t \in Tasks, EmitFinal(t) PROVE WireInv'
    BY <1>20 DEF EmitFinal, Goto, Emit, FinalState, WireInv, WireAt, LifeInv, StatusAt, TypeOK
<1>21. ASSUME NEW t \in Tasks, StreamContextDone(t) PROVE WireInv'
    BY <1>21 DEF StreamContextDone, Goto, WireInv, WireAt, LifeInv, StatusAt, TypeOK
<1>22. ASSUME NEW t \in Tasks, CloseBroadcaster(t) PROVE WireInv'
    BY <1>22 DEF CloseBroadcaster, Goto, WireInv, WireAt, LifeInv, StatusAt, TypeOK
<1>23. ASSUME NEW t \in Tasks, RemoveBroadcaster(t) PROVE WireInv'
    BY <1>23 DEF RemoveBroadcaster, Goto, WireInv, WireAt, LifeInv, StatusAt, TypeOK
<1>24. ASSUME NEW t \in Tasks, ClientDisconnects(t) PROVE WireInv'
    BY <1>24 DEF ClientDisconnects, WireInv, WireAt, LifeInv, StatusAt, TypeOK
<1>25. ASSUME NEW t \in Tasks, CancelInFlight(t) PROVE WireInv'
    BY <1>25 DEF CancelInFlight, WireInv, WireAt, LifeInv, StatusAt, TypeOK
<1>26. ASSUME NEW t \in Tasks, CancelTask(t) PROVE WireInv'
    BY <1>26 DEF CancelTask, Cancel, CanCancel, Present, terminalStates, TaskStates, WireInv,
       WireAt, LifeInv, StatusAt, TypeOK
<1>27. ASSUME NEW t \in Tasks, SweepCancel(t) PROVE WireInv'
    BY <1>27 DEF SweepCancel, WireInv, WireAt, LifeInv, StatusAt, TypeOK
<1>28. ASSUME NEW t \in Tasks, SweepBroadcaster(t) PROVE WireInv'
    BY <1>28 DEF SweepBroadcaster, WireInv, WireAt, LifeInv, StatusAt, TypeOK
<1>29. ASSUME NEW s \in Subs, SubscriberStep(s) PROVE WireInv'
    BY <1>29, SubscriberFrame DEF WireInv, WireAt, LifeInv, StatusAt, TypeOK
<1>30. ASSUME NEW c \in Contexts, EvictIdleConversation(c) PROVE WireInv'
    BY <1>30 DEF EvictIdleConversation, WireInv, WireAt, LifeInv, StatusAt, TypeOK
<1>31. ASSUME EvictTerminalTasks PROVE WireInv'
    BY <1>31 DEF EvictTerminalTasks, EvictTerminal, terminalStates, WireInv, WireAt, LifeInv,
       StatusAt, TypeOK
<1>32. ASSUME EvictClosedBroadcasters PROVE WireInv'
    BY <1>32 DEF EvictClosedBroadcasters, WireInv, WireAt, LifeInv, StatusAt, TypeOK
<1>33. ASSUME ShutdownBegins PROVE WireInv'
    BY <1>33 DEF ShutdownBegins, WireInv, WireAt, LifeInv, StatusAt, TypeOK
<1>34. ASSUME ShutdownDrains PROVE WireInv'
    BY <1>34 DEF ShutdownDrains, WireInv, WireAt, LifeInv, StatusAt, TypeOK
<1>35. ASSUME CloseAllBroadcasters PROVE WireInv'
    BY <1>35 DEF CloseAllBroadcasters, WireInv, WireAt, LifeInv, StatusAt, TypeOK
<1>36. ASSUME CancelAll PROVE WireInv'
    BY <1>36 DEF CancelAll, WireInv, WireAt, LifeInv, StatusAt, TypeOK
<1>37. ASSUME CloseConversations PROVE WireInv'
    BY <1>37 DEF CloseConversations, WireInv, WireAt, LifeInv, StatusAt, TypeOK
<1>38. ASSUME NEW t \in Tasks, RunnerStep(t) PROVE WireInv'
    BY <1>38, <1>3, <1>4, <1>5, <1>6, <1>7, <1>8, <1>9, <1>10, <1>11, <1>12, <1>13, <1>14,
       <1>15, <1>16, <1>17, <1>18, <1>19, <1>20, <1>21, <1>22, <1>23 DEF RunnerStep
<1>39. ASSUME ShutdownStep PROVE WireInv'
    BY <1>39, <1>33, <1>34, <1>35, <1>36, <1>37 DEF ShutdownStep
<1> QED BY <1>1, <1>2, <1>38, <1>24, <1>25, <1>26, <1>27, <1>28, <1>29, <1>30, <1>31, <1>32,
       <1>39 DEF Next

LEMMA AnswerNext == TypeOK /\ LifeInv /\ AnswerInv /\ [Next]_vars => AnswerInv'
<1> SUFFICES ASSUME TypeOK, LifeInv, AnswerInv, [Next]_vars PROVE AnswerInv'
    OBVIOUS
<1> USE DEF storeVars, reqVars, runVars, ctxVars, subVars, convVars, srvVars
<1>1. CASE UNCHANGED vars
    BY <1>1 DEF vars, AnswerInv, ArtifactsAt, SettledAt, LifeInv, StatusAt, RunOf, SendOnly,
       StreamOnly, TypeOK
<1>2. ASSUME NEW t \in Tasks, Receive(t) PROVE AnswerInv'
    BY <1>2 DEF Receive, Goto, getOrCreateConversation, AnswerInv, ArtifactsAt, SettledAt,
       LifeInv, StatusAt, RunOf, SendOnly, StreamOnly, TypeOK
<1>3. ASSUME NEW t \in Tasks, RefuseMessage(t) PROVE AnswerInv'
    BY <1>3 DEF RefuseMessage, Goto, AnswerInv, ArtifactsAt, SettledAt, LifeInv, StatusAt,
       RunOf, SendOnly, StreamOnly, TypeOK
<1>4. ASSUME NEW t \in Tasks, CreateTask(t) PROVE AnswerInv'
    BY <1>4 DEF CreateTask, Goto, Create, AnswerInv, ArtifactsAt, SettledAt, LifeInv, StatusAt,
       RunOf, SendOnly, StreamOnly, TypeOK
<1>5. ASSUME NEW t \in Tasks, RunConversation(t) PROVE AnswerInv'
    BY <1>5 DEF RunConversation, Goto, AnswerInv, ArtifactsAt, SettledAt, LifeInv, StatusAt,
       RunOf, SendOnly, StreamOnly, TypeOK
<1>6. ASSUME NEW t \in Tasks, SendWorking(t) PROVE AnswerInv'
    BY <1>6 DEF SendWorking, Goto, SetState, Transitions, Present, terminalStates, TaskStates,
       validTransitions, AnswerInv, ArtifactsAt, SettledAt, LifeInv, StatusAt, RunOf, SendOnly,
       StreamOnly, TypeOK
<1>7. ASSUME NEW t \in Tasks, SendSucceeds(t) PROVE AnswerInv'
    BY <1>7 DEF SendSucceeds, Goto, AnswerInv, ArtifactsAt, SettledAt, LifeInv, StatusAt, RunOf,
       SendOnly, StreamOnly, TypeOK
<1>8. ASSUME NEW t \in Tasks, SendFails(t) PROVE AnswerInv'
    BY <1>8 DEF SendFails, Goto, ContextDone, AnswerInv, ArtifactsAt, SettledAt, LifeInv,
       StatusAt, RunOf, SendOnly, StreamOnly, TypeOK
<1>9. ASSUME NEW t \in Tasks, StoreArtifacts(t) PROVE AnswerInv'
    BY ZenonT(60), <1>9 DEF StoreArtifacts, Goto, AddArtifacts, Present, TaskStates, AnswerInv, ArtifactsAt,
       SettledAt, LifeInv, StatusAt, RunOf, SendOnly, StreamOnly, TypeOK
<1>10. ASSUME NEW t \in Tasks, finalizeTask(t) PROVE AnswerInv'
    BY <1>10 DEF finalizeTask, Goto, SetState, Transitions, Present, FinalState, terminalStates,
       TaskStates, validTransitions, AnswerInv, ArtifactsAt, SettledAt, LifeInv, StatusAt,
       RunOf, SendOnly, StreamOnly, TypeOK
<1>11. ASSUME NEW t \in Tasks, RunnerExits(t) PROVE AnswerInv'
    BY <1>11 DEF RunnerExits, Goto, AnswerInv, ArtifactsAt, SettledAt, LifeInv, StatusAt, RunOf,
       SendOnly, StreamOnly, TypeOK
<1>12. ASSUME NEW t \in Tasks, Reply(t) PROVE AnswerInv'
    BY <1>12 DEF Reply, Present, AnswerInv, ArtifactsAt, SettledAt, LifeInv, StatusAt, RunOf,
       SendOnly, StreamOnly, TypeOK
<1>13. ASSUME NEW t \in Tasks, OpenBroadcaster(t) PROVE AnswerInv'
    BY <1>13 DEF OpenBroadcaster, Goto, AnswerInv, ArtifactsAt, SettledAt, LifeInv, StatusAt,
       RunOf, SendOnly, StreamOnly, TypeOK
<1>14. ASSUME NEW t \in Tasks, StreamWorking(t) PROVE AnswerInv'
    BY <1>14 DEF StreamWorking, Goto, SetState, Transitions, Present, terminalStates,
       TaskStates, validTransitions, AnswerInv, ArtifactsAt, SettledAt, LifeInv, StatusAt,
       RunOf, SendOnly, StreamOnly, TypeOK
<1>15. ASSUME NEW t \in Tasks, AnnounceWorking(t) PROVE AnswerInv'
    BY <1>15 DEF AnnounceWorking, Goto, Emit, AnswerInv, ArtifactsAt, SettledAt, LifeInv,
       StatusAt, RunOf, SendOnly, StreamOnly, TypeOK
<1>16. ASSUME NEW t \in Tasks, RegisterStream(t) PROVE AnswerInv'
    BY <1>16 DEF RegisterStream, Goto, AnswerInv, ArtifactsAt, SettledAt, LifeInv, StatusAt,
       RunOf, SendOnly, StreamOnly, TypeOK
<1>17. ASSUME NEW t \in Tasks, StreamArtifact(t) PROVE AnswerInv'
    BY <1>17 DEF StreamArtifact, Goto, Emit, AnswerInv, ArtifactsAt, SettledAt, LifeInv,
       StatusAt, RunOf, SendOnly, StreamOnly, TypeOK
<1>18. ASSUME NEW t \in Tasks, StreamEnds(t) PROVE AnswerInv'
    BY <1>18 DEF StreamEnds, Goto, AnswerInv, ArtifactsAt, SettledAt, LifeInv, StatusAt, RunOf,
       SendOnly, StreamOnly, TypeOK
<1>19. ASSUME NEW t \in Tasks, RecordFinal(t) PROVE AnswerInv'
    BY <1>19 DEF RecordFinal, Goto, SetState, Transitions, Present, FinalState, terminalStates,
       TaskStates, validTransitions, AnswerInv, ArtifactsAt, SettledAt, LifeInv, StatusAt,
       RunOf, SendOnly, StreamOnly, TypeOK
<1>20. ASSUME NEW t \in Tasks, EmitFinal(t) PROVE AnswerInv'
    BY <1>20 DEF EmitFinal, Goto, Emit, FinalState, AnswerInv, ArtifactsAt, SettledAt, LifeInv,
       StatusAt, RunOf, SendOnly, StreamOnly, TypeOK
<1>21. ASSUME NEW t \in Tasks, StreamContextDone(t) PROVE AnswerInv'
    BY <1>21 DEF StreamContextDone, Goto, AnswerInv, ArtifactsAt, SettledAt, LifeInv, StatusAt,
       RunOf, SendOnly, StreamOnly, TypeOK
<1>22. ASSUME NEW t \in Tasks, CloseBroadcaster(t) PROVE AnswerInv'
    BY <1>22 DEF CloseBroadcaster, Goto, AnswerInv, ArtifactsAt, SettledAt, LifeInv, StatusAt,
       RunOf, SendOnly, StreamOnly, TypeOK
<1>23. ASSUME NEW t \in Tasks, RemoveBroadcaster(t) PROVE AnswerInv'
    BY <1>23 DEF RemoveBroadcaster, Goto, AnswerInv, ArtifactsAt, SettledAt, LifeInv, StatusAt,
       RunOf, SendOnly, StreamOnly, TypeOK
<1>24. ASSUME NEW t \in Tasks, ClientDisconnects(t) PROVE AnswerInv'
    BY <1>24, A2AAssumption DEF ClientDisconnects, AnswerInv, ArtifactsAt, SettledAt, LifeInv,
       StatusAt, RunOf, SendOnly, StreamOnly, TypeOK
<1>25. ASSUME NEW t \in Tasks, CancelInFlight(t) PROVE AnswerInv'
    BY <1>25 DEF CancelInFlight, AnswerInv, ArtifactsAt, SettledAt, LifeInv, StatusAt, RunOf,
       SendOnly, StreamOnly, TypeOK
<1>26. ASSUME NEW t \in Tasks, CancelTask(t) PROVE AnswerInv'
    BY <1>26 DEF CancelTask, Cancel, CanCancel, Present, terminalStates, TaskStates, AnswerInv,
       ArtifactsAt, SettledAt, LifeInv, StatusAt, RunOf, SendOnly, StreamOnly, TypeOK
<1>27. ASSUME NEW t \in Tasks, SweepCancel(t) PROVE AnswerInv'
    BY <1>27 DEF SweepCancel, AnswerInv, ArtifactsAt, SettledAt, LifeInv, StatusAt, RunOf,
       SendOnly, StreamOnly, TypeOK
<1>28. ASSUME NEW t \in Tasks, SweepBroadcaster(t) PROVE AnswerInv'
    BY <1>28 DEF SweepBroadcaster, AnswerInv, ArtifactsAt, SettledAt, LifeInv, StatusAt, RunOf,
       SendOnly, StreamOnly, TypeOK
<1>29. ASSUME NEW s \in Subs, SubscriberStep(s) PROVE AnswerInv'
    BY <1>29, SubscriberFrame DEF AnswerInv, ArtifactsAt, SettledAt, LifeInv, StatusAt, RunOf,
       SendOnly, StreamOnly, TypeOK
<1>30. ASSUME NEW c \in Contexts, EvictIdleConversation(c) PROVE AnswerInv'
    BY <1>30 DEF EvictIdleConversation, AnswerInv, ArtifactsAt, SettledAt, LifeInv, StatusAt,
       RunOf, SendOnly, StreamOnly, TypeOK
<1>31. ASSUME EvictTerminalTasks PROVE AnswerInv'
    BY <1>31 DEF EvictTerminalTasks, EvictTerminal, terminalStates, AnswerInv, ArtifactsAt,
       SettledAt, LifeInv, StatusAt, RunOf, SendOnly, StreamOnly, TypeOK
<1>32. ASSUME EvictClosedBroadcasters PROVE AnswerInv'
    BY <1>32 DEF EvictClosedBroadcasters, AnswerInv, ArtifactsAt, SettledAt, LifeInv, StatusAt,
       RunOf, SendOnly, StreamOnly, TypeOK
<1>33. ASSUME ShutdownBegins PROVE AnswerInv'
    BY <1>33 DEF ShutdownBegins, AnswerInv, ArtifactsAt, SettledAt, LifeInv, StatusAt, RunOf,
       SendOnly, StreamOnly, TypeOK
<1>34. ASSUME ShutdownDrains PROVE AnswerInv'
    BY <1>34 DEF ShutdownDrains, AnswerInv, ArtifactsAt, SettledAt, LifeInv, StatusAt, RunOf,
       SendOnly, StreamOnly, TypeOK
<1>35. ASSUME CloseAllBroadcasters PROVE AnswerInv'
    BY <1>35 DEF CloseAllBroadcasters, AnswerInv, ArtifactsAt, SettledAt, LifeInv, StatusAt,
       RunOf, SendOnly, StreamOnly, TypeOK
<1>36. ASSUME CancelAll PROVE AnswerInv'
    BY <1>36 DEF CancelAll, AnswerInv, ArtifactsAt, SettledAt, LifeInv, StatusAt, RunOf,
       SendOnly, StreamOnly, TypeOK
<1>37. ASSUME CloseConversations PROVE AnswerInv'
    BY <1>37 DEF CloseConversations, AnswerInv, ArtifactsAt, SettledAt, LifeInv, StatusAt,
       RunOf, SendOnly, StreamOnly, TypeOK
<1>38. ASSUME NEW t \in Tasks, RunnerStep(t) PROVE AnswerInv'
    BY <1>38, <1>3, <1>4, <1>5, <1>6, <1>7, <1>8, <1>9, <1>10, <1>11, <1>12, <1>13, <1>14,
       <1>15, <1>16, <1>17, <1>18, <1>19, <1>20, <1>21, <1>22, <1>23 DEF RunnerStep
<1>39. ASSUME ShutdownStep PROVE AnswerInv'
    BY <1>39, <1>33, <1>34, <1>35, <1>36, <1>37 DEF ShutdownStep
<1> QED BY <1>1, <1>2, <1>38, <1>24, <1>25, <1>26, <1>27, <1>28, <1>29, <1>30, <1>31, <1>32,
       <1>39 DEF Next

-----------------------------------------------------------------------------
(* What a stream handler leaves behind, and what Shutdown finds.           *)

BroadcasterAt(q) ==
    /\ q \notin Streams => q \notin subs /\ bcast[q] = "none"
    /\ run[q] \in {"none", "received", "created"} => q \notin subs /\ bcast[q] = "none"
    /\ run[q] = "remove" => bcast[q] = "closed"
    /\ run[q] = "done" => q \notin subs /\ bcast[q] # "open"

BroadcasterInv == \A q \in Tasks : BroadcasterAt(q)

\* Between its registration and its end a send's goroutine is in s.cancels or
\* its cancel function was called; only the eviction of its task drops it.
CancelAt(q) ==
    /\ sweep[q] # "none" => status[q] = "evicted"
    /\ run[q] \in SendOnly \/ (run[q] = "finalize" /\ q \notin Streams) =>
          q \in cancels \/ q \in cancelled \/ status[q] = "evicted"
    /\ drained => down \in {"broadcasters", "cancels", "convs", "down"} /\ ~HandlerActive(q)
    /\ drained /\ down \in {"convs", "down"} /\ run[q] \notin {"none", "done"} =>
          q \in cancelled \/ status[q] = "evicted"

ShutdownInv == \A q \in Tasks : CancelAt(q)

LEMMA BroadcasterNext == TypeOK /\ LifeInv /\ BroadcasterInv /\ [Next]_vars => BroadcasterInv'
<1> SUFFICES ASSUME TypeOK, LifeInv, BroadcasterInv, [Next]_vars PROVE BroadcasterInv'
    OBVIOUS
<1> USE DEF storeVars, reqVars, runVars, ctxVars, subVars, convVars, srvVars
<1>1. CASE UNCHANGED vars
    BY <1>1 DEF vars, BroadcasterInv, BroadcasterAt, LifeInv, RunOf, SendOnly, StreamOnly,
       TypeOK
<1>2. ASSUME NEW t \in Tasks, Receive(t) PROVE BroadcasterInv'
    BY <1>2 DEF Receive, Goto, getOrCreateConversation, BroadcasterInv, BroadcasterAt, LifeInv,
       RunOf, SendOnly, StreamOnly, TypeOK
<1>3. ASSUME NEW t \in Tasks, RefuseMessage(t) PROVE BroadcasterInv'
    BY <1>3 DEF RefuseMessage, Goto, BroadcasterInv, BroadcasterAt, LifeInv, RunOf, SendOnly,
       StreamOnly, TypeOK
<1>4. ASSUME NEW t \in Tasks, CreateTask(t) PROVE BroadcasterInv'
    BY <1>4 DEF CreateTask, Goto, Create, BroadcasterInv, BroadcasterAt, LifeInv, RunOf,
       SendOnly, StreamOnly, TypeOK
<1>5. ASSUME NEW t \in Tasks, RunConversation(t) PROVE BroadcasterInv'
    BY <1>5 DEF RunConversation, Goto, BroadcasterInv, BroadcasterAt, LifeInv, RunOf, SendOnly,
       StreamOnly, TypeOK
<1>6. ASSUME NEW t \in Tasks, SendWorking(t) PROVE BroadcasterInv'
    BY <1>6 DEF SendWorking, Goto, SetState, Transitions, Present, BroadcasterInv,
       BroadcasterAt, LifeInv, RunOf, SendOnly, StreamOnly, TypeOK
<1>7. ASSUME NEW t \in Tasks, SendSucceeds(t) PROVE BroadcasterInv'
    BY <1>7 DEF SendSucceeds, Goto, BroadcasterInv, BroadcasterAt, LifeInv, RunOf, SendOnly,
       StreamOnly, TypeOK
<1>8. ASSUME NEW t \in Tasks, SendFails(t) PROVE BroadcasterInv'
    BY <1>8 DEF SendFails, Goto, BroadcasterInv, BroadcasterAt, LifeInv, RunOf, SendOnly,
       StreamOnly, TypeOK
<1>9. ASSUME NEW t \in Tasks, StoreArtifacts(t) PROVE BroadcasterInv'
    BY <1>9 DEF StoreArtifacts, Goto, AddArtifacts, BroadcasterInv, BroadcasterAt, LifeInv,
       RunOf, SendOnly, StreamOnly, TypeOK
<1>10. ASSUME NEW t \in Tasks, finalizeTask(t) PROVE BroadcasterInv'
    BY <1>10 DEF finalizeTask, Goto, SetState, Transitions, Present, FinalState, BroadcasterInv,
       BroadcasterAt, LifeInv, RunOf, SendOnly, StreamOnly, TypeOK
<1>11. ASSUME NEW t \in Tasks, RunnerExits(t) PROVE BroadcasterInv'
    BY <1>11 DEF RunnerExits, Goto, BroadcasterInv, BroadcasterAt, LifeInv, RunOf, SendOnly,
       StreamOnly, TypeOK
<1>12. ASSUME NEW t \in Tasks, Reply(t) PROVE BroadcasterInv'
    BY <1>12 DEF Reply, Present, BroadcasterInv, BroadcasterAt, LifeInv, RunOf, SendOnly,
       StreamOnly, TypeOK
<1>13. ASSUME NEW t \in Tasks, OpenBroadcaster(t) PROVE BroadcasterInv'
    BY <1>13 DEF OpenBroadcaster, Goto, BroadcasterInv, BroadcasterAt, LifeInv, RunOf, SendOnly,
       StreamOnly, TypeOK
<1>14. ASSUME NEW t \in Tasks, StreamWorking(t) PROVE BroadcasterInv'
    BY <1>14 DEF StreamWorking, Goto, SetState, Transitions, Present, BroadcasterInv,
       BroadcasterAt, LifeInv, RunOf, SendOnly, StreamOnly, TypeOK
<1>15. ASSUME NEW t \in Tasks, AnnounceWorking(t) PROVE BroadcasterInv'
    BY <1>15 DEF AnnounceWorking, Goto, Emit, BroadcasterInv, BroadcasterAt, LifeInv, RunOf,
       SendOnly, StreamOnly, TypeOK
<1>16. ASSUME NEW t \in Tasks, RegisterStream(t) PROVE BroadcasterInv'
    BY <1>16 DEF RegisterStream, Goto, BroadcasterInv, BroadcasterAt, LifeInv, RunOf, SendOnly,
       StreamOnly, TypeOK
<1>17. ASSUME NEW t \in Tasks, StreamArtifact(t) PROVE BroadcasterInv'
    BY <1>17 DEF StreamArtifact, Goto, Emit, BroadcasterInv, BroadcasterAt, LifeInv, RunOf,
       SendOnly, StreamOnly, TypeOK
<1>18. ASSUME NEW t \in Tasks, StreamEnds(t) PROVE BroadcasterInv'
    BY <1>18 DEF StreamEnds, Goto, BroadcasterInv, BroadcasterAt, LifeInv, RunOf, SendOnly,
       StreamOnly, TypeOK
<1>19. ASSUME NEW t \in Tasks, RecordFinal(t) PROVE BroadcasterInv'
    BY <1>19 DEF RecordFinal, Goto, SetState, Transitions, Present, FinalState, BroadcasterInv,
       BroadcasterAt, LifeInv, RunOf, SendOnly, StreamOnly, TypeOK
<1>20. ASSUME NEW t \in Tasks, EmitFinal(t) PROVE BroadcasterInv'
    BY <1>20 DEF EmitFinal, Goto, Emit, FinalState, BroadcasterInv, BroadcasterAt, LifeInv,
       RunOf, SendOnly, StreamOnly, TypeOK
<1>21. ASSUME NEW t \in Tasks, StreamContextDone(t) PROVE BroadcasterInv'
    BY <1>21 DEF StreamContextDone, Goto, BroadcasterInv, BroadcasterAt, LifeInv, RunOf,
       SendOnly, StreamOnly, TypeOK
<1>22. ASSUME NEW t \in Tasks, CloseBroadcaster(t) PROVE BroadcasterInv'
    BY <1>22 DEF CloseBroadcaster, Goto, BroadcasterInv, BroadcasterAt, LifeInv, RunOf,
       SendOnly, StreamOnly, TypeOK
<1>23. ASSUME NEW t \in Tasks, RemoveBroadcaster(t) PROVE BroadcasterInv'
    BY <1>23 DEF RemoveBroadcaster, Goto, BroadcasterInv, BroadcasterAt, LifeInv, RunOf,
       SendOnly, StreamOnly, TypeOK
<1>24. ASSUME NEW t \in Tasks, ClientDisconnects(t) PROVE BroadcasterInv'
    BY <1>24 DEF ClientDisconnects, BroadcasterInv, BroadcasterAt, LifeInv, RunOf, SendOnly,
       StreamOnly, TypeOK
<1>25. ASSUME NEW t \in Tasks, CancelInFlight(t) PROVE BroadcasterInv'
    BY <1>25 DEF CancelInFlight, BroadcasterInv, BroadcasterAt, LifeInv, RunOf, SendOnly,
       StreamOnly, TypeOK
<1>26. ASSUME NEW t \in Tasks, CancelTask(t) PROVE BroadcasterInv'
    BY <1>26 DEF CancelTask, Cancel, CanCancel, Present, BroadcasterInv, BroadcasterAt, LifeInv,
       RunOf, SendOnly, StreamOnly, TypeOK
<1>27. ASSUME NEW t \in Tasks, SweepCancel(t) PROVE BroadcasterInv'
    BY <1>27 DEF SweepCancel, BroadcasterInv, BroadcasterAt, LifeInv, RunOf, SendOnly,
       StreamOnly, TypeOK
<1>28. ASSUME NEW t \in Tasks, SweepBroadcaster(t) PROVE BroadcasterInv'
    BY <1>28 DEF SweepBroadcaster, BroadcasterInv, BroadcasterAt, LifeInv, RunOf, SendOnly,
       StreamOnly, TypeOK
<1>29. ASSUME NEW s \in Subs, SubscriberStep(s) PROVE BroadcasterInv'
    BY <1>29, SubscriberFrame DEF BroadcasterInv, BroadcasterAt, LifeInv, RunOf, SendOnly,
       StreamOnly, TypeOK
<1>30. ASSUME NEW c \in Contexts, EvictIdleConversation(c) PROVE BroadcasterInv'
    BY <1>30 DEF EvictIdleConversation, BroadcasterInv, BroadcasterAt, LifeInv, RunOf, SendOnly,
       StreamOnly, TypeOK
<1>31. ASSUME EvictTerminalTasks PROVE BroadcasterInv'
    BY <1>31 DEF EvictTerminalTasks, EvictTerminal, BroadcasterInv, BroadcasterAt, LifeInv,
       RunOf, SendOnly, StreamOnly, TypeOK
<1>32. ASSUME EvictClosedBroadcasters PROVE BroadcasterInv'
    BY <1>32 DEF EvictClosedBroadcasters, BroadcasterInv, BroadcasterAt, LifeInv, RunOf,
       SendOnly, StreamOnly, TypeOK
<1>33. ASSUME ShutdownBegins PROVE BroadcasterInv'
    BY <1>33 DEF ShutdownBegins, BroadcasterInv, BroadcasterAt, LifeInv, RunOf, SendOnly,
       StreamOnly, TypeOK
<1>34. ASSUME ShutdownDrains PROVE BroadcasterInv'
    BY <1>34 DEF ShutdownDrains, BroadcasterInv, BroadcasterAt, LifeInv, RunOf, SendOnly,
       StreamOnly, TypeOK
<1>35. ASSUME CloseAllBroadcasters PROVE BroadcasterInv'
    BY <1>35 DEF CloseAllBroadcasters, BroadcasterInv, BroadcasterAt, LifeInv, RunOf, SendOnly,
       StreamOnly, TypeOK
<1>36. ASSUME CancelAll PROVE BroadcasterInv'
    BY <1>36 DEF CancelAll, BroadcasterInv, BroadcasterAt, LifeInv, RunOf, SendOnly, StreamOnly,
       TypeOK
<1>37. ASSUME CloseConversations PROVE BroadcasterInv'
    BY <1>37 DEF CloseConversations, BroadcasterInv, BroadcasterAt, LifeInv, RunOf, SendOnly,
       StreamOnly, TypeOK
<1>38. ASSUME NEW t \in Tasks, RunnerStep(t) PROVE BroadcasterInv'
    BY <1>38, <1>3, <1>4, <1>5, <1>6, <1>7, <1>8, <1>9, <1>10, <1>11, <1>12, <1>13, <1>14,
       <1>15, <1>16, <1>17, <1>18, <1>19, <1>20, <1>21, <1>22, <1>23 DEF RunnerStep
<1>39. ASSUME ShutdownStep PROVE BroadcasterInv'
    BY <1>39, <1>33, <1>34, <1>35, <1>36, <1>37 DEF ShutdownStep
<1> QED BY <1>1, <1>2, <1>38, <1>24, <1>25, <1>26, <1>27, <1>28, <1>29, <1>30, <1>31, <1>32,
       <1>39 DEF Next

LEMMA ShutdownNext == TypeOK /\ LifeInv /\ ShutdownInv /\ [Next]_vars => ShutdownInv'
<1> SUFFICES ASSUME TypeOK, LifeInv, ShutdownInv, [Next]_vars PROVE ShutdownInv'
    OBVIOUS
<1> USE DEF storeVars, reqVars, runVars, ctxVars, subVars, convVars, srvVars
<1>1. CASE UNCHANGED vars
    BY <1>1 DEF vars, ShutdownInv, CancelAt, HandlerActive, LifeInv, RunOf, StatusAt, SendOnly,
       StreamOnly, TypeOK
<1>2. ASSUME NEW t \in Tasks, Receive(t) PROVE ShutdownInv'
    BY <1>2 DEF Receive, Goto, getOrCreateConversation, ShutdownInv, CancelAt, HandlerActive,
       LifeInv, RunOf, StatusAt, SendOnly, StreamOnly, TypeOK
<1>3. ASSUME NEW t \in Tasks, RefuseMessage(t) PROVE ShutdownInv'
    BY <1>3 DEF RefuseMessage, Goto, ShutdownInv, CancelAt, HandlerActive, LifeInv, RunOf,
       StatusAt, SendOnly, StreamOnly, TypeOK
<1>4. ASSUME NEW t \in Tasks, CreateTask(t) PROVE ShutdownInv'
    BY <1>4 DEF CreateTask, Goto, Create, ShutdownInv, CancelAt, HandlerActive, LifeInv, RunOf,
       StatusAt, SendOnly, StreamOnly, TypeOK
<1>5. ASSUME NEW t \in Tasks, RunConversation(t) PROVE ShutdownInv'
    BY <1>5 DEF RunConversation, Goto, ShutdownInv, CancelAt, HandlerActive, LifeInv, RunOf,
       StatusAt, SendOnly, StreamOnly, TypeOK
<1>6. ASSUME NEW t \in Tasks, SendWorking(t) PROVE ShutdownInv'
    BY <1>6 DEF SendWorking, Goto, SetState, Transitions, Present, terminalStates, TaskStates,
       validTransitions, ShutdownInv, CancelAt, HandlerActive, LifeInv, RunOf, StatusAt,
       SendOnly, StreamOnly, TypeOK
<1>7. ASSUME NEW t \in Tasks, SendSucceeds(t) PROVE ShutdownInv'
    BY <1>7 DEF SendSucceeds, Goto, ShutdownInv, CancelAt, HandlerActive, LifeInv, RunOf,
       StatusAt, SendOnly, StreamOnly, TypeOK
<1>8. ASSUME NEW t \in Tasks, SendFails(t) PROVE ShutdownInv'
    BY <1>8 DEF SendFails, Goto, ContextDone, ShutdownInv, CancelAt, HandlerActive, LifeInv,
       RunOf, StatusAt, SendOnly, StreamOnly, TypeOK
<1>9. ASSUME NEW t \in Tasks, StoreArtifacts(t) PROVE ShutdownInv'
    BY <1>9 DEF StoreArtifacts, Goto, AddArtifacts, Present, TaskStates, ShutdownInv, CancelAt,
       HandlerActive, LifeInv, RunOf, StatusAt, SendOnly, StreamOnly, TypeOK
<1>10. ASSUME NEW t \in Tasks, finalizeTask(t) PROVE ShutdownInv'
    BY <1>10 DEF finalizeTask, Goto, SetState, Transitions, Present, FinalState, terminalStates,
       TaskStates, validTransitions, ShutdownInv, CancelAt, HandlerActive, LifeInv, RunOf,
       StatusAt, SendOnly, StreamOnly, TypeOK
<1>11. ASSUME NEW t \in Tasks, RunnerExits(t) PROVE ShutdownInv'
    BY <1>11 DEF RunnerExits, Goto, ShutdownInv, CancelAt, HandlerActive, LifeInv, RunOf,
       StatusAt, SendOnly, StreamOnly, TypeOK
<1>12. ASSUME NEW t \in Tasks, Reply(t) PROVE ShutdownInv'
    BY <1>12 DEF Reply, Present, ShutdownInv, CancelAt, HandlerActive, LifeInv, RunOf, StatusAt,
       SendOnly, StreamOnly, TypeOK
<1>13. ASSUME NEW t \in Tasks, OpenBroadcaster(t) PROVE ShutdownInv'
    BY <1>13 DEF OpenBroadcaster, Goto, ShutdownInv, CancelAt, HandlerActive, LifeInv, RunOf,
       StatusAt, SendOnly, StreamOnly, TypeOK
<1>14. ASSUME NEW t \in Tasks, StreamWorking(t) PROVE ShutdownInv'
    BY <1>14 DEF StreamWorking, Goto, SetState, Transitions, Present, terminalStates,
       TaskStates, validTransitions, ShutdownInv, CancelAt, HandlerActive, LifeInv, RunOf,
       StatusAt, SendOnly, StreamOnly, TypeOK
<1>15. ASSUME NEW t \in Tasks, AnnounceWorking(t) PROVE ShutdownInv'
    BY <1>15 DEF AnnounceWorking, Goto, Emit, ShutdownInv, CancelAt, HandlerActive, LifeInv,
       RunOf, StatusAt, SendOnly, StreamOnly, TypeOK
<1>16. ASSUME NEW t \in Tasks, RegisterStream(t) PROVE ShutdownInv'
    BY <1>16 DEF RegisterStream, Goto, ShutdownInv, CancelAt, HandlerActive, LifeInv, RunOf,
       StatusAt, SendOnly, StreamOnly, TypeOK
<1>17. ASSUME NEW t \in Tasks, StreamArtifact(t) PROVE ShutdownInv'
    BY <1>17 DEF StreamArtifact, Goto, Emit, ShutdownInv, CancelAt, HandlerActive, LifeInv,
       RunOf, StatusAt, SendOnly, StreamOnly, TypeOK
<1>18. ASSUME NEW t \in Tasks, StreamEnds(t) PROVE ShutdownInv'
    BY <1>18 DEF StreamEnds, Goto, ShutdownInv, CancelAt, HandlerActive, LifeInv, RunOf,
       StatusAt, SendOnly, StreamOnly, TypeOK
<1>19. ASSUME NEW t \in Tasks, RecordFinal(t) PROVE ShutdownInv'
    BY <1>19 DEF RecordFinal, Goto, SetState, Transitions, Present, FinalState, terminalStates,
       TaskStates, validTransitions, ShutdownInv, CancelAt, HandlerActive, LifeInv, RunOf,
       StatusAt, SendOnly, StreamOnly, TypeOK
<1>20. ASSUME NEW t \in Tasks, EmitFinal(t) PROVE ShutdownInv'
    BY <1>20 DEF EmitFinal, Goto, Emit, FinalState, ShutdownInv, CancelAt, HandlerActive,
       LifeInv, RunOf, StatusAt, SendOnly, StreamOnly, TypeOK
<1>21. ASSUME NEW t \in Tasks, StreamContextDone(t) PROVE ShutdownInv'
    BY <1>21 DEF StreamContextDone, Goto, ShutdownInv, CancelAt, HandlerActive, LifeInv, RunOf,
       StatusAt, SendOnly, StreamOnly, TypeOK
<1>22. ASSUME NEW t \in Tasks, CloseBroadcaster(t) PROVE ShutdownInv'
    BY <1>22 DEF CloseBroadcaster, Goto, ShutdownInv, CancelAt, HandlerActive, LifeInv, RunOf,
       StatusAt, SendOnly, StreamOnly, TypeOK
<1>23. ASSUME NEW t \in Tasks, RemoveBroadcaster(t) PROVE ShutdownInv'
    BY <1>23 DEF RemoveBroadcaster, Goto, ShutdownInv, CancelAt, HandlerActive, LifeInv, RunOf,
       StatusAt, SendOnly, StreamOnly, TypeOK
<1>24. ASSUME NEW t \in Tasks, ClientDisconnects(t) PROVE ShutdownInv'
    BY <1>24 DEF ClientDisconnects, ShutdownInv, CancelAt, HandlerActive, LifeInv, RunOf,
       StatusAt, SendOnly, StreamOnly, TypeOK
<1>25. ASSUME NEW t \in Tasks, CancelInFlight(t) PROVE ShutdownInv'
    BY <1>25 DEF CancelInFlight, ShutdownInv, CancelAt, HandlerActive, LifeInv, RunOf, StatusAt,
       SendOnly, StreamOnly, TypeOK
<1>26. ASSUME NEW t \in Tasks, CancelTask(t) PROVE ShutdownInv'
    BY <1>26 DEF CancelTask, Cancel, CanCancel, Present, terminalStates, TaskStates,
       ShutdownInv, CancelAt, HandlerActive, LifeInv, RunOf, StatusAt, SendOnly, StreamOnly,
       TypeOK
<1>27. ASSUME NEW t \in Tasks, SweepCancel(t) PROVE ShutdownInv'
    BY <1>27 DEF SweepCancel, ShutdownInv, CancelAt, HandlerActive, LifeInv, RunOf, StatusAt,
       SendOnly, StreamOnly, TypeOK
<1>28. ASSUME NEW t \in Tasks, SweepBroadcaster(t) PROVE ShutdownInv'
    BY <1>28 DEF SweepBroadcaster, ShutdownInv, CancelAt, HandlerActive, LifeInv, RunOf,
       StatusAt, SendOnly, StreamOnly, TypeOK
<1>29. ASSUME NEW s \in Subs, SubscriberStep(s) PROVE ShutdownInv'
    BY <1>29, SubscriberFrame DEF ShutdownInv, CancelAt, HandlerActive, LifeInv, RunOf,
       StatusAt, SendOnly, StreamOnly, TypeOK
<1>30. ASSUME NEW c \in Contexts, EvictIdleConversation(c) PROVE ShutdownInv'
    BY <1>30 DEF EvictIdleConversation, ShutdownInv, CancelAt, HandlerActive, LifeInv, RunOf,
       StatusAt, SendOnly, StreamOnly, TypeOK
<1>31. ASSUME EvictTerminalTasks PROVE ShutdownInv'
    BY <1>31 DEF EvictTerminalTasks, EvictTerminal, terminalStates, ShutdownInv, CancelAt,
       HandlerActive, LifeInv, RunOf, StatusAt, SendOnly, StreamOnly, TypeOK
<1>32. ASSUME EvictClosedBroadcasters PROVE ShutdownInv'
    BY <1>32 DEF EvictClosedBroadcasters, ShutdownInv, CancelAt, HandlerActive, LifeInv, RunOf,
       StatusAt, SendOnly, StreamOnly, TypeOK
<1>33. ASSUME ShutdownBegins PROVE ShutdownInv'
    BY <1>33 DEF ShutdownBegins, ShutdownInv, CancelAt, HandlerActive, LifeInv, RunOf, StatusAt,
       SendOnly, StreamOnly, TypeOK
<1>34. ASSUME ShutdownDrains PROVE ShutdownInv'
    BY <1>34 DEF ShutdownDrains, ShutdownInv, CancelAt, HandlerActive, LifeInv, RunOf, StatusAt,
       SendOnly, StreamOnly, TypeOK
<1>35. ASSUME CloseAllBroadcasters PROVE ShutdownInv'
    BY <1>35 DEF CloseAllBroadcasters, ShutdownInv, CancelAt, HandlerActive, LifeInv, RunOf,
       StatusAt, SendOnly, StreamOnly, TypeOK
<1>36. ASSUME CancelAll PROVE ShutdownInv'
    BY <1>36 DEF CancelAll, RunStates, ShutdownInv, CancelAt, HandlerActive, LifeInv, RunOf,
       StatusAt, SendOnly, StreamOnly, TypeOK
<1>37. ASSUME CloseConversations PROVE ShutdownInv'
    BY <1>37 DEF CloseConversations, ShutdownInv, CancelAt, HandlerActive, LifeInv, RunOf,
       StatusAt, SendOnly, StreamOnly, TypeOK
<1>38. ASSUME NEW t \in Tasks, RunnerStep(t) PROVE ShutdownInv'
    BY <1>38, <1>3, <1>4, <1>5, <1>6, <1>7, <1>8, <1>9, <1>10, <1>11, <1>12, <1>13, <1>14,
       <1>15, <1>16, <1>17, <1>18, <1>19, <1>20, <1>21, <1>22, <1>23 DEF RunnerStep
<1>39. ASSUME ShutdownStep PROVE ShutdownInv'
    BY <1>39, <1>33, <1>34, <1>35, <1>36, <1>37 DEF ShutdownStep
<1> QED BY <1>1, <1>2, <1>38, <1>24, <1>25, <1>26, <1>27, <1>28, <1>29, <1>30, <1>31, <1>32,
       <1>39 DEF Next

\* Once Shutdown is over no conversation is in s.convs.
ConvsEmpty == down = "down" => \A c \in Contexts : convs[c] = NoTask

ConvInv == ConversationReachable /\ ConvsEmpty

LEMMA ConvNext == TypeOK /\ ConvInv /\ [Next]_vars => ConvInv'
<1> SUFFICES ASSUME TypeOK, ConvInv, [Next]_vars PROVE ConvInv'
    OBVIOUS
<1> USE DEF storeVars, reqVars, runVars, ctxVars, subVars, convVars, srvVars
<1>1. CASE UNCHANGED vars
    BY <1>1 DEF vars, ConvInv, ConvsEmpty, ConversationReachable, TypeOK
<1>2. ASSUME NEW t \in Tasks, Receive(t) PROVE ConvInv'
    BY <1>2, A2AAssumption DEF Receive, Goto, getOrCreateConversation, ConvInv, ConvsEmpty,
       ConversationReachable, TypeOK
<1>3. ASSUME NEW t \in Tasks, RefuseMessage(t) PROVE ConvInv'
    BY <1>3 DEF RefuseMessage, Goto, ConvInv, ConvsEmpty, ConversationReachable, TypeOK
<1>4. ASSUME NEW t \in Tasks, CreateTask(t) PROVE ConvInv'
    BY <1>4 DEF CreateTask, Goto, Create, ConvInv, ConvsEmpty, ConversationReachable, TypeOK
<1>5. ASSUME NEW t \in Tasks, RunConversation(t) PROVE ConvInv'
    BY <1>5 DEF RunConversation, Goto, ConvInv, ConvsEmpty, ConversationReachable, TypeOK
<1>6. ASSUME NEW t \in Tasks, SendWorking(t) PROVE ConvInv'
    BY <1>6 DEF SendWorking, Goto, SetState, Transitions, Present, ConvInv, ConvsEmpty,
       ConversationReachable, TypeOK
<1>7. ASSUME NEW t \in Tasks, SendSucceeds(t) PROVE ConvInv'
    BY <1>7 DEF SendSucceeds, Goto, ConvInv, ConvsEmpty, ConversationReachable, TypeOK
<1>8. ASSUME NEW t \in Tasks, SendFails(t) PROVE ConvInv'
    BY <1>8 DEF SendFails, Goto, ConvInv, ConvsEmpty, ConversationReachable, TypeOK
<1>9. ASSUME NEW t \in Tasks, StoreArtifacts(t) PROVE ConvInv'
    BY <1>9 DEF StoreArtifacts, Goto, AddArtifacts, ConvInv, ConvsEmpty, ConversationReachable,
       TypeOK
<1>10. ASSUME NEW t \in Tasks, finalizeTask(t) PROVE ConvInv'
    BY <1>10 DEF finalizeTask, Goto, SetState, Transitions, Present, FinalState, ConvInv,
       ConvsEmpty, ConversationReachable, TypeOK
<1>11. ASSUME NEW t \in Tasks, RunnerExits(t) PROVE ConvInv'
    BY <1>11 DEF RunnerExits, Goto, ConvInv, ConvsEmpty, ConversationReachable, TypeOK
<1>12. ASSUME NEW t \in Tasks, Reply(t) PROVE ConvInv'
    BY <1>12 DEF Reply, Present, ConvInv, ConvsEmpty, ConversationReachable, TypeOK
<1>13. ASSUME NEW t \in Tasks, OpenBroadcaster(t) PROVE ConvInv'
    BY <1>13 DEF OpenBroadcaster, Goto, ConvInv, ConvsEmpty, ConversationReachable, TypeOK
<1>14. ASSUME NEW t \in Tasks, StreamWorking(t) PROVE ConvInv'
    BY <1>14 DEF StreamWorking, Goto, SetState, Transitions, Present, ConvInv, ConvsEmpty,
       ConversationReachable, TypeOK
<1>15. ASSUME NEW t \in Tasks, AnnounceWorking(t) PROVE ConvInv'
    BY <1>15 DEF AnnounceWorking, Goto, Emit, ConvInv, ConvsEmpty, ConversationReachable, TypeOK
<1>16. ASSUME NEW t \in Tasks, RegisterStream(t) PROVE ConvInv'
    BY <1>16 DEF RegisterStream, Goto, ConvInv, ConvsEmpty, ConversationReachable, TypeOK
<1>17. ASSUME NEW t \in Tasks, StreamArtifact(t) PROVE ConvInv'
    BY <1>17 DEF StreamArtifact, Goto, Emit, ConvInv, ConvsEmpty, ConversationReachable, TypeOK
<1>18. ASSUME NEW t \in Tasks, StreamEnds(t) PROVE ConvInv'
    BY <1>18 DEF StreamEnds, Goto, ConvInv, ConvsEmpty, ConversationReachable, TypeOK
<1>19. ASSUME NEW t \in Tasks, RecordFinal(t) PROVE ConvInv'
    BY <1>19 DEF RecordFinal, Goto, SetState, Transitions, Present, FinalState, ConvInv,
       ConvsEmpty, ConversationReachable, TypeOK
<1>20. ASSUME NEW t \in Tasks, EmitFinal(t) PROVE ConvInv'
    BY <1>20 DEF EmitFinal, Goto, Emit, FinalState, ConvInv, ConvsEmpty, ConversationReachable,
       TypeOK
<1>21. ASSUME NEW t \in Tasks, StreamContextDone(t) PROVE ConvInv'
    BY <1>21 DEF StreamContextDone, Goto, ConvInv, ConvsEmpty, ConversationReachable, TypeOK
<1>22. ASSUME NEW t \in Tasks, CloseBroadcaster(t) PROVE ConvInv'
    BY <1>22 DEF CloseBroadcaster, Goto, ConvInv, ConvsEmpty, ConversationReachable, TypeOK
<1>23. ASSUME NEW t \in Tasks, RemoveBroadcaster(t) PROVE ConvInv'
    BY <1>23 DEF RemoveBroadcaster, Goto, ConvInv, ConvsEmpty, ConversationReachable, TypeOK
<1>24. ASSUME NEW t \in Tasks, ClientDisconnects(t) PROVE ConvInv'
    BY <1>24 DEF ClientDisconnects, ConvInv, ConvsEmpty, ConversationReachable, TypeOK
<1>25. ASSUME NEW t \in Tasks, CancelInFlight(t) PROVE ConvInv'
    BY <1>25 DEF CancelInFlight, ConvInv, ConvsEmpty, ConversationReachable, TypeOK
<1>26. ASSUME NEW t \in Tasks, CancelTask(t) PROVE ConvInv'
    BY <1>26 DEF CancelTask, Cancel, CanCancel, Present, ConvInv, ConvsEmpty,
       ConversationReachable, TypeOK
<1>27. ASSUME NEW t \in Tasks, SweepCancel(t) PROVE ConvInv'
    BY <1>27 DEF SweepCancel, ConvInv, ConvsEmpty, ConversationReachable, TypeOK
<1>28. ASSUME NEW t \in Tasks, SweepBroadcaster(t) PROVE ConvInv'
    BY <1>28 DEF SweepBroadcaster, ConvInv, ConvsEmpty, ConversationReachable, TypeOK
<1>29. ASSUME NEW s \in Subs, SubscriberStep(s) PROVE ConvInv'
    BY <1>29, SubscriberFrame DEF ConvInv, ConvsEmpty, ConversationReachable, TypeOK
<1>30. ASSUME NEW c \in Contexts, EvictIdleConversation(c) PROVE ConvInv'
    BY <1>30, A2AAssumption DEF EvictIdleConversation, ConvInv, ConvsEmpty,
       ConversationReachable, TypeOK
<1>31. ASSUME EvictTerminalTasks PROVE ConvInv'
    BY <1>31 DEF EvictTerminalTasks, EvictTerminal, ConvInv, ConvsEmpty, ConversationReachable,
       TypeOK
<1>32. ASSUME EvictClosedBroadcasters PROVE ConvInv'
    BY <1>32 DEF EvictClosedBroadcasters, ConvInv, ConvsEmpty, ConversationReachable, TypeOK
<1>33. ASSUME ShutdownBegins PROVE ConvInv'
    BY <1>33 DEF ShutdownBegins, ConvInv, ConvsEmpty, ConversationReachable, TypeOK
<1>34. ASSUME ShutdownDrains PROVE ConvInv'
    BY <1>34 DEF ShutdownDrains, ConvInv, ConvsEmpty, ConversationReachable, TypeOK
<1>35. ASSUME CloseAllBroadcasters PROVE ConvInv'
    BY <1>35 DEF CloseAllBroadcasters, ConvInv, ConvsEmpty, ConversationReachable, TypeOK
<1>36. ASSUME CancelAll PROVE ConvInv'
    BY <1>36 DEF CancelAll, ConvInv, ConvsEmpty, ConversationReachable, TypeOK
<1>37. ASSUME CloseConversations PROVE ConvInv'
    BY <1>37, A2AAssumption DEF CloseConversations, ConvInv, ConvsEmpty, ConversationReachable,
       TypeOK
<1>38. ASSUME NEW t \in Tasks, RunnerStep(t) PROVE ConvInv'
    BY <1>38, <1>3, <1>4, <1>5, <1>6, <1>7, <1>8, <1>9, <1>10, <1>11, <1>12, <1>13, <1>14,
       <1>15, <1>16, <1>17, <1>18, <1>19, <1>20, <1>21, <1>22, <1>23 DEF RunnerStep
<1>39. ASSUME ShutdownStep PROVE ConvInv'
    BY <1>39, <1>33, <1>34, <1>35, <1>36, <1>37 DEF ShutdownStep
<1> QED BY <1>1, <1>2, <1>38, <1>24, <1>25, <1>26, <1>27, <1>28, <1>29, <1>30, <1>31, <1>32,
       <1>39 DEF Next

LEMMA RestInit == Init => WireInv /\ AnswerInv /\ BroadcasterInv /\ ShutdownInv /\ ConvInv
<1> SUFFICES ASSUME Init PROVE WireInv /\ AnswerInv /\ BroadcasterInv /\ ShutdownInv /\ ConvInv
    OBVIOUS
<1>1. WireInv
    BY DEF Init, WireInv, WireAt
<1>2. AnswerInv
    BY DEF Init, StoreInit, AnswerInv, ArtifactsAt, SettledAt
<1>3. BroadcasterInv
    BY DEF Init, BroadcasterInv, BroadcasterAt
<1>4. ShutdownInv
    BY DEF Init, ShutdownInv, CancelAt, SendOnly
<1>5. ConvInv
    BY A2AAssumption DEF Init, ConvInv, ConversationReachable, ConvsEmpty
<1> QED BY <1>1, <1>2, <1>3, <1>4, <1>5

-----------------------------------------------------------------------------
(* The theorems.                                                           *)

\* A final event on a stream's wire was recorded in the store before, unless
\* a cancellation or an eviction came in between.
THEOREM FinalEventsAreRecorded == Spec => []FinalEventRecorded
<1>1. Init => WireInv BY RestInit
<1>2. TypeOK /\ LifeInv /\ WireInv /\ [Next]_vars => WireInv' BY WireNext
<1>3. WireInv => FinalEventRecorded BY DEF WireInv, WireAt, FinalEventRecorded
<1> QED BY <1>1, <1>2, <1>3, LifeInvariant, PTL DEF Spec

\* A poller that reads "completed" reads the artifacts too, and a blocking
\* caller is answered with a task at rest unless its context was cancelled.
THEOREM AnswersAreSettled == Spec => []AnswersSettled
<1>1. Init => AnswerInv BY RestInit
<1>2. TypeOK /\ LifeInv /\ AnswerInv /\ [Next]_vars => AnswerInv' BY AnswerNext
<1>3. LifeInv /\ AnswerInv => CompletedCarriesArtifacts /\ BlockingReplySettled
  <2>1. AnswerInv => BlockingReplySettled
    BY DEF AnswerInv, SettledAt, BlockingReplySettled
  <2>2. ASSUME LifeInv, AnswerInv, NEW t \in Tasks, status[t] = "completed",
               result[t] = "content"
        PROVE  artifacts[t]
    BY <2>2 DEF AnswerInv, ArtifactsAt, LifeInv, StatusAt
  <2> QED BY <2>1, <2>2 DEF CompletedCarriesArtifacts
<1> QED BY <1>1, <1>2, <1>3, LifeInvariant, PTL DEF Spec, AnswersSettled

\* No stream handler leaves a broadcaster open or in s.subs.
THEOREM BroadcastersAreReleased == Spec => []BroadcasterReleased
<1>1. Init => BroadcasterInv BY RestInit
<1>2. TypeOK /\ LifeInv /\ BroadcasterInv /\ [Next]_vars => BroadcasterInv'
    BY BroadcasterNext
<1>3. BroadcasterInv => BroadcasterReleased
    BY DEF BroadcasterInv, BroadcasterAt, BroadcasterReleased
<1> QED BY <1>1, <1>2, <1>3, LifeInvariant, PTL DEF Spec

\* A stream ends in order: its final event was recorded and its broadcaster is
\* gone (server_stream.go).
THEOREM StreamsAreClean == Spec => []StreamsEndClean
BY FinalEventsAreRecorded, BroadcastersAreReleased, PTL DEF StreamsEndClean

\* An open conversation is the one s.convs holds for its context.
THEOREM ConversationsAreReachable == Spec => []ConversationReachable
<1>1. Init => ConvInv BY RestInit
<1>2. TypeOK /\ ConvInv /\ [Next]_vars => ConvInv' BY ConvNext
<1>3. ConvInv => ConversationReachable BY DEF ConvInv
<1> QED BY <1>1, <1>2, <1>3, TypeCorrect, PTL DEF Spec

\* A drained Shutdown leaves nothing open and nothing running uncancelled but
\* the goroutines of evicted tasks.
THEOREM DrainedShutdownIsClean == Spec => []DrainedShutdownClean
<1> DEFINE Inv == LifeInv /\ BroadcasterInv /\ ShutdownInv /\ ConvInv
<1>1. Init => TypeOK /\ Inv
    BY TypeInit, LifeInit, RestInit
<1>2. TypeOK /\ Inv /\ [Next]_vars => TypeOK' /\ Inv'
    BY TypeNext, LifeNext, BroadcasterNext, ShutdownNext, ConvNext
<1>3. TypeOK /\ Inv => DrainedShutdownClean
  <2> SUFFICES ASSUME TypeOK, Inv, down = "down", drained, NEW t \in Tasks
               PROVE  /\ bcast[t] # "open"
                      /\ convOf[t] = t => t \in closed
                      /\ run[t] \notin {"none", "done"} =>
                            t \in cancelled \/ status[t] = "evicted"
    BY DEF DrainedShutdownClean
  <2>1. bcast[t] # "open"
    BY DEF ShutdownInv, CancelAt, HandlerActive, BroadcasterInv, BroadcasterAt
  <2>2. convOf[t] = t => t \in closed
    BY A2AAssumption DEF ConvInv, ConvsEmpty, ConversationReachable, TypeOK
  <2>3. run[t] \notin {"none", "done"} => t \in cancelled \/ status[t] = "evicted"
    BY DEF ShutdownInv, CancelAt
  <2> QED BY <2>1, <2>2, <2>3
<1> HIDE DEF Inv
<1> QED BY <1>1, <1>2, <1>3, PTL DEF Spec

LEMMA LifecycleStep == TypeOK /\ LifeInv /\ [Next]_vars => [Lifecycle!Next]_status
<1> SUFFICES ASSUME TypeOK, LifeInv, [Next]_vars PROVE [Lifecycle!Next]_status
    OBVIOUS
<1> USE DEF storeVars, reqVars, runVars, ctxVars, subVars, convVars, srvVars
<1>1. CASE UNCHANGED vars
    BY <1>1 DEF vars
<1>2. ASSUME NEW t \in Tasks, Receive(t) PROVE [Lifecycle!Next]_status
    BY <1>2 DEF Receive, Goto, getOrCreateConversation
<1>3. ASSUME NEW t \in Tasks, RefuseMessage(t) PROVE [Lifecycle!Next]_status
    BY <1>3 DEF RefuseMessage, Goto
<1>4. ASSUME NEW t \in Tasks, CreateTask(t) PROVE [Lifecycle!Next]_status
  <2>1. status' = status \/ Lifecycle!Submit(t)
    BY <1>4 DEF CreateTask, Goto, Create, LifeInv, StatusAt, TypeOK, Lifecycle!Submit
  <2> QED BY <2>1 DEF Lifecycle!Next
<1>5. ASSUME NEW t \in Tasks, RunConversation(t) PROVE [Lifecycle!Next]_status
    BY <1>5 DEF RunConversation, Goto
<1>6. ASSUME NEW t \in Tasks, SendWorking(t) PROVE [Lifecycle!Next]_status
  <2>1. status' = status \/ Lifecycle!Work(t)
    BY <1>6 DEF SendWorking, Goto, SetState, Transitions, Present, terminalStates, TaskStates,
       validTransitions, LifeInv, StatusAt, TypeOK, Lifecycle!Work
  <2> QED BY <2>1 DEF Lifecycle!Next
<1>7. ASSUME NEW t \in Tasks, SendSucceeds(t) PROVE [Lifecycle!Next]_status
    BY <1>7 DEF SendSucceeds, Goto
<1>8. ASSUME NEW t \in Tasks, SendFails(t) PROVE [Lifecycle!Next]_status
    BY <1>8 DEF SendFails, Goto
<1>9. ASSUME NEW t \in Tasks, StoreArtifacts(t) PROVE [Lifecycle!Next]_status
    BY <1>9 DEF StoreArtifacts, Goto, AddArtifacts
<1>10. ASSUME NEW t \in Tasks, finalizeTask(t) PROVE [Lifecycle!Next]_status
  <2>1. status' = status \/ Lifecycle!Settle(t)
    BY <1>10 DEF finalizeTask, Goto, SetState, Transitions, Present, terminalStates, TaskStates,
       validTransitions, FinalState, LifeInv, StatusAt, TypeOK, Lifecycle!Settle
  <2> QED BY <2>1 DEF Lifecycle!Next
<1>11. ASSUME NEW t \in Tasks, RunnerExits(t) PROVE [Lifecycle!Next]_status
    BY <1>11 DEF RunnerExits, Goto
<1>12. ASSUME NEW t \in Tasks, Reply(t) PROVE [Lifecycle!Next]_status
    BY <1>12 DEF Reply, Present
<1>13. ASSUME NEW t \in Tasks, OpenBroadcaster(t) PROVE [Lifecycle!Next]_status
    BY <1>13 DEF OpenBroadcaster, Goto
<1>14. ASSUME NEW t \in Tasks, StreamWorking(t) PROVE [Lifecycle!Next]_status
  <2>1. status' = status \/ Lifecycle!Work(t)
    BY <1>14 DEF StreamWorking, Goto, SetState, Transitions, Present, terminalStates,
       TaskStates, validTransitions, LifeInv, StatusAt, TypeOK, Lifecycle!Work
  <2> QED BY <2>1 DEF Lifecycle!Next
<1>15. ASSUME NEW t \in Tasks, AnnounceWorking(t) PROVE [Lifecycle!Next]_status
    BY <1>15 DEF AnnounceWorking, Goto, Emit
<1>16. ASSUME NEW t \in Tasks, RegisterStream(t) PROVE [Lifecycle!Next]_status
    BY <1>16 DEF RegisterStream, Goto
<1>17. ASSUME NEW t \in Tasks, StreamArtifact(t) PROVE [Lifecycle!Next]_status
    BY <1>17 DEF StreamArtifact, Goto, Emit
<1>18. ASSUME NEW t \in Tasks, StreamEnds(t) PROVE [Lifecycle!Next]_status
    BY <1>18 DEF StreamEnds, Goto
<1>19. ASSUME NEW t \in Tasks, RecordFinal(t) PROVE [Lifecycle!Next]_status
  <2>1. status' = status \/ Lifecycle!Settle(t)
    BY <1>19 DEF RecordFinal, Goto, SetState, Transitions, Present, terminalStates, TaskStates,
       validTransitions, FinalState, LifeInv, StatusAt, TypeOK, Lifecycle!Settle
  <2> QED BY <2>1 DEF Lifecycle!Next
<1>20. ASSUME NEW t \in Tasks, EmitFinal(t) PROVE [Lifecycle!Next]_status
    BY <1>20 DEF EmitFinal, Goto, Emit, FinalState
<1>21. ASSUME NEW t \in Tasks, StreamContextDone(t) PROVE [Lifecycle!Next]_status
    BY <1>21 DEF StreamContextDone, Goto
<1>22. ASSUME NEW t \in Tasks, CloseBroadcaster(t) PROVE [Lifecycle!Next]_status
    BY <1>22 DEF CloseBroadcaster, Goto
<1>23. ASSUME NEW t \in Tasks, RemoveBroadcaster(t) PROVE [Lifecycle!Next]_status
    BY <1>23 DEF RemoveBroadcaster, Goto
<1>24. ASSUME NEW t \in Tasks, ClientDisconnects(t) PROVE [Lifecycle!Next]_status
    BY <1>24 DEF ClientDisconnects
<1>25. ASSUME NEW t \in Tasks, CancelInFlight(t) PROVE [Lifecycle!Next]_status
    BY <1>25 DEF CancelInFlight
<1>26. ASSUME NEW t \in Tasks, CancelTask(t) PROVE [Lifecycle!Next]_status
  <2>1. status' = status \/ Lifecycle!Abort(t)
    BY <1>26 DEF CancelTask, Cancel, CanCancel, Present, terminalStates, TaskStates, LifeInv,
       StatusAt, TypeOK, Lifecycle!Abort
  <2> QED BY <2>1 DEF Lifecycle!Next
<1>27. ASSUME NEW t \in Tasks, SweepCancel(t) PROVE [Lifecycle!Next]_status
    BY <1>27 DEF SweepCancel
<1>28. ASSUME NEW t \in Tasks, SweepBroadcaster(t) PROVE [Lifecycle!Next]_status
    BY <1>28 DEF SweepBroadcaster
<1>29. ASSUME NEW s \in Subs, SubscriberStep(s) PROVE [Lifecycle!Next]_status
    BY <1>29, SubscriberFrame
<1>30. ASSUME NEW c \in Contexts, EvictIdleConversation(c) PROVE [Lifecycle!Next]_status
    BY <1>30 DEF EvictIdleConversation
<1>31. ASSUME EvictTerminalTasks PROVE [Lifecycle!Next]_status
  <2>0. PICK old \in SUBSET Tasks : EvictTerminal(old)
    BY <1>31 DEF EvictTerminalTasks
  <2>1. Lifecycle!Expire
    <3>1. \A t \in old : status[t] \in {"completed", "failed", "canceled"}
      BY <2>0 DEF EvictTerminal, terminalStates, TypeOK
    <3> QED BY <2>0, <3>1 DEF EvictTerminal, Lifecycle!Expire
  <2> QED BY <2>1 DEF Lifecycle!Next
<1>32. ASSUME EvictClosedBroadcasters PROVE [Lifecycle!Next]_status
    BY <1>32 DEF EvictClosedBroadcasters
<1>33. ASSUME ShutdownBegins PROVE [Lifecycle!Next]_status
    BY <1>33 DEF ShutdownBegins
<1>34. ASSUME ShutdownDrains PROVE [Lifecycle!Next]_status
    BY <1>34 DEF ShutdownDrains
<1>35. ASSUME CloseAllBroadcasters PROVE [Lifecycle!Next]_status
    BY <1>35 DEF CloseAllBroadcasters
<1>36. ASSUME CancelAll PROVE [Lifecycle!Next]_status
    BY <1>36 DEF CancelAll
<1>37. ASSUME CloseConversations PROVE [Lifecycle!Next]_status
    BY <1>37 DEF CloseConversations
<1>38. ASSUME NEW t \in Tasks, RunnerStep(t) PROVE [Lifecycle!Next]_status
    BY <1>38, <1>3, <1>4, <1>5, <1>6, <1>7, <1>8, <1>9, <1>10, <1>11, <1>12, <1>13, <1>14,
       <1>15, <1>16, <1>17, <1>18, <1>19, <1>20, <1>21, <1>22, <1>23 DEF RunnerStep
<1>39. ASSUME ShutdownStep PROVE [Lifecycle!Next]_status
    BY <1>39, <1>33, <1>34, <1>35, <1>36, <1>37 DEF ShutdownStep
<1> QED BY <1>1, <1>2, <1>38, <1>24, <1>25, <1>26, <1>27, <1>28, <1>29, <1>30, <1>31, <1>32,
       <1>39 DEF Next

\* The server implements the abstract task lifecycle: a terminal task never
\* changes again and a cancelled one is never resurrected, whatever the
\* handlers, the goroutines, the eviction loop and Shutdown do at once.
THEOREM ServerImplementsLifecycle == Spec => ImplementsLifecycle
<1>1. Init => Lifecycle!Init
    BY DEF Init, StoreInit, Lifecycle!Init
<1>2. TypeOK /\ LifeInv /\ [Next]_vars => [Lifecycle!Next]_status
    BY LifecycleStep
<1> QED BY <1>1, <1>2, LifeInvariant, PTL DEF Spec, ImplementsLifecycle, Lifecycle!Spec
-----------------------------------------------------------------------------
(***************************************************************************)
(* What a subscriber sees.  Its subscription starts at the events written  *)
(* so far, and from then on every event that goes out on the stream is     *)
(* appended to its buffer, or lost and marked, as long as the broadcaster  *)
(* is open; a broadcaster is opened before anyone can find it.             *)
(***************************************************************************)
Early == {"none", "received", "created"}

EventsOf(q) == q.got \o q.buf

SeesRun(q) ==
    /\ q.from + Len(EventsOf(q)) <= Len(wire[q.task])
    /\ \A i \in 1 .. Len(EventsOf(q)) : EventsOf(q)[i] = wire[q.task][q.from + i]
    /\ bcast[q.task] = "open" => q.from + Len(EventsOf(q)) = Len(wire[q.task])

SubAt(q) ==
    /\ q.pc \in {"idle", "found", "missing"} => q.got = <<>> /\ q.buf = <<>>
    /\ q.pc \in {"found", "attached"} => run[q.task] \notin Early
    /\ q.pc = "attached" /\ ~q.dropped => SeesRun(q)

SubInv == \A s \in Subs : SubAt(sub[s])

\* The events a subscription holds are a sequence, and a prefix of them stays
\* readable when one is appended.
LEMMA EventsType ==
    ASSUME NEW q \in Subscriptions
    PROVE  /\ q.got \in Seq(Events \cup TaskStates) /\ q.buf \in Seq(Events \cup TaskStates)
           /\ EventsOf(q) \in Seq(Events \cup TaskStates)
           /\ Len(EventsOf(q)) \in Nat /\ q.from \in Nat
<1>1. q.got \in Seq(Events \cup TaskStates) /\ q.buf \in Seq(Events) /\ q.from \in Nat
    BY DEF Subscriptions
<1>2. q.buf \in Seq(Events \cup TaskStates)
    BY <1>1, SeqMonotonic
<1>3. EventsOf(q) \in Seq(Events \cup TaskStates)
    BY <1>1, <1>2, ConcatProperties DEF EventsOf
<1> QED BY <1>1, <1>2, <1>3, LenProperties

LEMMA ExtendEvents ==
    ASSUME NEW S, NEW g \in Seq(S), NEW b \in Seq(S), NEW e \in S
    PROVE  g \o Append(b, e) = Append(g \o b, e)
<1>1. /\ g \o Append(b, e) \in Seq(S) /\ Append(g \o b, e) \in Seq(S)
      /\ Len(g \o Append(b, e)) = Len(Append(g \o b, e))
    BY ConcatProperties, AppendProperties
<1>2. ASSUME NEW i \in 1 .. Len(Append(g \o b, e))
      PROVE  (g \o Append(b, e))[i] = Append(g \o b, e)[i]
    OBVIOUS
<1> QED BY <1>1, <1>2, SeqEqual

LEMMA ReceiveEvent ==
    ASSUME NEW S, NEW g \in Seq(S), NEW b \in Seq(S), b # <<>>
    PROVE  Append(g, Head(b)) \o Tail(b) = g \o b
<1> DEFINE x == Append(g, Head(b)) \o Tail(b)
           y == g \o b
<1>1. Head(b) \in S /\ Tail(b) \in Seq(S) /\ Len(Tail(b)) = Len(b) - 1 /\ Len(b) > 0
    BY HeadTailProperties, EmptySeq
<1>2. x \in Seq(S) /\ y \in Seq(S) /\ Len(x) = Len(y)
    BY <1>1, ConcatProperties, AppendProperties
<1>3. ASSUME NEW i \in 1 .. Len(y) PROVE x[i] = y[i]
    BY <1>1
<1> QED BY <1>2, <1>3, SeqEqual

\* A step that neither writes an event nor touches a subscription, and
\* reopens no broadcaster that subscribers may know.
LEMMA SubQuiet ==
    ASSUME TypeOK, SubInv, UNCHANGED <<sub, wire>>,
           \A t \in Tasks : run[t] \notin Early =>
               run'[t] \notin Early /\ (bcast'[t] = "open" => bcast[t] = "open")
    PROVE  SubInv'
<1> SUFFICES ASSUME NEW s \in Subs PROVE SubAt(sub[s])'
    BY DEF SubInv
<1> DEFINE q == sub[s]
<1>1. q \in Subscriptions /\ SubAt(q)
    BY DEF SubInv, TypeOK
<1>2. q.pc # "idle" => q.task \in Tasks
    BY <1>1 DEF Subscriptions
<1> QED BY <1>1, <1>2 DEF SubAt, SeesRun, EventsOf

\* An event written to the stream, for one subscription.
LEMMA SubEmit ==
    ASSUME TypeOK, SubInv, NEW t \in Tasks, NEW e \in Events, Emit(t, e),
           UNCHANGED bcast, \A k \in Tasks : run[k] \notin Early => run'[k] \notin Early
    PROVE  SubInv'
<1> SUFFICES ASSUME NEW s \in Subs PROVE SubAt(sub[s])'
    BY DEF SubInv
<1> DEFINE q == sub[s]
           p == sub'[s]
<1>1. q \in Subscriptions /\ SubAt(q)
    BY DEF SubInv, TypeOK
<1>2. q.pc # "idle" => q.task \in Tasks
    BY <1>1 DEF Subscriptions
<1>3. /\ wire[t] \in Seq(Events) /\ wire'[t] = Append(wire[t], e)
      /\ \A k \in Tasks \ {t} : wire'[k] = wire[k]
    BY DEF TypeOK, Emit
<1>4. /\ Len(wire[t]) \in Nat /\ Len(wire'[t]) = Len(wire[t]) + 1
      /\ \A i \in 1 .. Len(wire[t]) : wire'[t][i] = wire[t][i]
      /\ wire'[t][Len(wire[t]) + 1] = e
    BY <1>3, AppendProperties, LenProperties
<1>5. Len(EventsOf(q)) \in Nat /\ q.from \in Nat
    BY <1>1, EventsType
<1>6. CASE q.pc = "attached" /\ q.task = t /\ bcast[t] = "open"
  <2>1. CASE Len(q.buf) < SubscriberBuffer
    <3>1. p = [q EXCEPT !.buf = Append(q.buf, e)]
      BY <1>1, <1>6, <2>1 DEF Emit, Broadcast, Subscriptions
    <3>2. /\ p.pc = "attached" /\ p.task = t /\ p.from = q.from /\ p.got = q.got
          /\ p.dropped = q.dropped /\ p.buf = Append(q.buf, e)
      BY <1>1, <1>6, <3>1 DEF Subscriptions
    <3>3. EventsOf(p) = Append(EventsOf(q), e)
      <4> DEFINE g == q.got
                 b == q.buf
      <4>1. g \in Seq(Events \cup TaskStates) /\ b \in Seq(Events \cup TaskStates)
        BY <1>1, EventsType
      <4> HIDE DEF g, b
      <4>2. g \o Append(b, e) = Append(g \o b, e)
        BY <4>1, ExtendEvents
      <4> QED BY <4>2, <3>2 DEF g, b, EventsOf
    <3>4. CASE ~q.dropped
      <4> DEFINE E == EventsOf(q)
      <4>1. E \in Seq(Events \cup TaskStates)
        BY <1>1, EventsType
      <4>2. /\ q.from + Len(E) = Len(wire[t])
            /\ \A i \in 1 .. Len(E) : E[i] = wire[t][q.from + i]
        BY <1>1, <1>6, <3>4 DEF SubAt, SeesRun
      <4> HIDE DEF E
      <4>3. /\ Len(Append(E, e)) = Len(E) + 1 /\ Len(E) \in Nat
            /\ \A i \in 1 .. Len(E) : Append(E, e)[i] = E[i]
            /\ Append(E, e)[Len(E) + 1] = e
        BY <4>1, AppendProperties, LenProperties
      <4>4. q.from + Len(Append(E, e)) = Len(wire'[t])
        <5> DEFINE f == q.from
                   n == Len(E)
                   m == Len(wire[t])
        <5>1. f \in Nat /\ n \in Nat /\ m \in Nat /\ f + n = m
          BY <4>2, <4>3, <1>4, <1>5
        <5> HIDE DEF f, n, m
        <5>2. f + (n + 1) = m + 1
          BY <5>1
        <5> QED BY <5>2, <4>3, <1>4 DEF f, n, m
      <4>5. \A i \in 1 .. Len(Append(E, e)) : Append(E, e)[i] = wire'[t][q.from + i]
        <5> SUFFICES ASSUME NEW i \in 1 .. Len(Append(E, e))
                     PROVE  Append(E, e)[i] = wire'[t][q.from + i]
            OBVIOUS
        <5>1. CASE i \in 1 .. Len(E)
          <6>1. q.from + i \in 1 .. Len(wire[t])
            BY <5>1, <4>2, <4>3, <1>5
          <6> QED BY <5>1, <6>1, <4>2, <4>3, <1>4
        <5>2. CASE i = Len(E) + 1
          <6>1. q.from + i = Len(wire[t]) + 1
            <7> DEFINE f == q.from
                       n == Len(E)
                       m == Len(wire[t])
            <7>1. f \in Nat /\ n \in Nat /\ m \in Nat /\ f + n = m /\ i = n + 1
              BY <5>2, <4>2, <4>3, <1>4, <1>5
            <7> HIDE DEF f, n, m
            <7>2. f + i = m + 1
              BY <7>1
            <7> QED BY <7>2 DEF f, m
          <6> QED BY <5>2, <6>1, <4>3, <1>4
        <5> QED BY <5>1, <5>2, <4>3
      <4>6. EventsOf(p) = Append(E, e)
        BY <3>3 DEF E
      <4>7. /\ p.from + Len(EventsOf(p)) = Len(wire'[t])
            /\ \A i \in 1 .. Len(EventsOf(p)) : EventsOf(p)[i] = wire'[t][p.from + i]
        BY <4>4, <4>5, <4>6, <3>2
      <4>8. Len(wire'[t]) \in Nat
        BY <1>4
      <4>9. SeesRun(sub[s])'
        <5>1. EventsOf(sub[s])' = EventsOf(p)
          BY DEF EventsOf
        <5>2. p.from + Len(EventsOf(p)) <= Len(wire'[t])
          BY <4>7, <4>8
        <5> QED BY <4>7, <5>1, <5>2, <3>2 DEF SeesRun
      <4>10. run'[t] \notin Early
        BY <1>1, <1>6 DEF SubAt
      <4> QED BY <4>9, <4>10, <3>2 DEF SubAt
    <3>5. CASE q.dropped
      <4>1. run'[t] \notin Early
        BY <1>1, <1>6 DEF SubAt
      <4> QED BY <4>1, <3>5, <3>2 DEF SubAt
    <3> QED BY <3>4, <3>5
  <2>2. CASE ~(Len(q.buf) < SubscriberBuffer)
    <3>1. p = [q EXCEPT !.dropped = TRUE]
      BY <1>1, <1>6, <2>2 DEF Emit, Broadcast
    <3>2. p.pc = "attached" /\ p.task = t /\ p.dropped
      BY <1>1, <1>6, <3>1 DEF Subscriptions
    <3>3. run'[t] \notin Early
      BY <1>1, <1>6 DEF SubAt
    <3> QED BY <3>2, <3>3 DEF SubAt
  <2> QED BY <2>1, <2>2
<1>7. CASE ~(q.pc = "attached" /\ q.task = t /\ bcast[t] = "open")
  <2>1. p = q
    BY <1>7 DEF Emit, Broadcast
  <2>2. ASSUME q.pc = "attached", ~q.dropped PROVE SeesRun(sub[s])'
    <3>1. SeesRun(q) /\ q.task \in Tasks
      BY <2>2, <1>1, <1>2 DEF SubAt
    <3>2. CASE q.task # t
      <4>1. wire'[q.task] = wire[q.task]
        BY <3>1, <3>2, <1>3
      <4> QED BY <3>1, <4>1, <2>1 DEF SeesRun, EventsOf
    <3>3. CASE q.task = t
      <4> DEFINE E == EventsOf(q)
      <4>1. /\ q.from + Len(E) <= Len(wire[t])
            /\ \A i \in 1 .. Len(E) : E[i] = wire[t][q.from + i]
        BY <3>1, <3>3 DEF SeesRun
      <4>2. Len(E) \in Nat /\ q.from \in Nat
        BY <1>5
      <4> HIDE DEF E
      <4>3. q.from + Len(E) <= Len(wire'[t])
        BY <4>1, <4>2, <1>4
      <4>4. ASSUME NEW i \in 1 .. Len(E) PROVE E[i] = wire'[t][q.from + i]
        <5>1. q.from + i \in 1 .. Len(wire[t])
          BY <4>1, <4>2, <1>4
        <5> QED BY <5>1, <4>1, <1>4
      <4>5. /\ q.from + Len(EventsOf(q)) <= Len(wire'[t])
            /\ \A i \in 1 .. Len(EventsOf(q)) : EventsOf(q)[i] = wire'[t][q.from + i]
        BY <4>3, <4>4 DEF E
      <4>6. bcast[t] # "open"
        BY <1>7, <2>2, <3>3
      <4> QED BY <4>5, <4>6, <2>1, <3>3 DEF SeesRun, EventsOf
    <3> QED BY <3>2, <3>3
  <2> QED BY <2>1, <2>2, <1>1, <1>2 DEF SubAt
<1> QED BY <1>6, <1>7

\* The other subscriptions are not touched by a subscriber's step.
LEMMA SubOther ==
    ASSUME TypeOK, SubInv, NEW s \in Subs, NEW p,
           sub' = [sub EXCEPT ![s] = p], UNCHANGED <<run, wire, bcast>>, SubAt(p)
    PROVE  SubInv'
<1> SUFFICES ASSUME NEW k \in Subs PROVE SubAt(sub[k])'
    BY DEF SubInv
<1>1. sub'[k] = IF k = s THEN p ELSE sub[k]
    BY DEF TypeOK
<1>2. SubAt(sub'[k])
    BY <1>1 DEF SubInv
<1> QED BY <1>2 DEF SubAt, SeesRun, EventsOf

LEMMA SubStep ==
    ASSUME TypeOK, SubInv, BroadcasterInv, NEW s \in Subs, SubscriberStep(s)
    PROVE  SubInv'
<1> DEFINE q == sub[s]
<1>1. q \in Subscriptions /\ SubAt(q)
    BY DEF SubInv, TypeOK
<1>2. q.pc # "idle" => q.task \in Tasks
    BY <1>1 DEF Subscriptions
<1>3. UNCHANGED <<run, wire, bcast>>
    BY SubscriberFrame DEF runVars
<1>4. CASE LookupBroadcaster(s)
  <2>1. PICK t \in Tasks :
            sub' = [sub EXCEPT ![s].task = t,
                               ![s].pc = IF t \in subs THEN "found" ELSE "missing"]
    BY <1>4 DEF LookupBroadcaster
  <2> DEFINE p == [q EXCEPT !.task = t, !.pc = IF t \in subs THEN "found" ELSE "missing"]
  <2>2. sub' = [sub EXCEPT ![s] = p]
    BY <2>1, <1>1 DEF TypeOK
  <2>3. /\ p.pc = IF t \in subs THEN "found" ELSE "missing"
        /\ p.task = t /\ p.got = q.got /\ p.buf = q.buf
    BY <1>1 DEF Subscriptions
  <2>4. q.got = <<>> /\ q.buf = <<>>
    BY <1>1, <1>4 DEF SubAt, LookupBroadcaster
  <2>5. t \in subs => run[t] \notin Early
    BY DEF BroadcasterInv, BroadcasterAt, Early
  <2>6. SubAt(p)
    BY <2>3, <2>4, <2>5 DEF SubAt
  <2> QED BY <2>2, <2>6, <1>3, SubOther
<1>5. CASE SendStatus(s)
  <2> DEFINE p == [q EXCEPT !.pc = "done",
                            !.got = IF Present(q.task) THEN <<status[q.task]>> ELSE <<>>]
  <2>1. sub' = [sub EXCEPT ![s] = p]
    BY <1>5, <1>1 DEF SendStatus, TypeOK
  <2>2. p.pc = "done"
    BY <1>1 DEF Subscriptions
  <2>3. SubAt(p)
    BY <2>2 DEF SubAt
  <2> QED BY <2>1, <2>3, <1>3, SubOther
<1>6. CASE Subscribe(s)
  <2> DEFINE t == q.task
             to == IF bcast[t] = "closed" \/ Cardinality(Attached(t)) >= MaxSubscribers
                   THEN "done" ELSE "attached"
             p == [q EXCEPT !.pc = to, !.from = Len(wire[t])]
  <2>1. sub' = [sub EXCEPT ![s] = p]
    BY <1>6, <1>1 DEF Subscribe, TypeOK
  <2>2. /\ p.pc = to /\ p.from = Len(wire[t]) /\ p.task = t
        /\ p.got = <<>> /\ p.buf = <<>> /\ run[t] \notin Early
    BY <1>1, <1>6 DEF Subscribe, SubAt, Subscriptions
  <2>3. t \in Tasks /\ Len(wire[t]) \in Nat
    BY <1>2, <1>6, LenProperties DEF Subscribe, TypeOK
  <2>4. EventsOf(p) = <<>>
    BY <2>2, ConcatEmptySeq, EmptySeq DEF EventsOf
  <2>5. SeesRun(p)
    BY <2>2, <2>3, <2>4 DEF SeesRun
  <2>6. to \in {"done", "attached"}
    OBVIOUS
  <2>7. SubAt(p)
    BY <2>2, <2>5, <2>6 DEF SubAt
  <2> QED BY <2>1, <2>7, <1>3, SubOther
<1>7. CASE SubscriberReceives(s)
  <2> DEFINE p == [q EXCEPT !.got = Append(q.got, Head(q.buf)), !.buf = Tail(q.buf)]
  <2>1. sub' = [sub EXCEPT ![s] = p]
    BY <1>7, <1>1 DEF SubscriberReceives, TypeOK, Subscriptions
  <2>2. /\ p.pc = q.pc /\ p.from = q.from /\ p.task = q.task /\ p.dropped = q.dropped
        /\ p.got = Append(q.got, Head(q.buf)) /\ p.buf = Tail(q.buf)
    BY <1>1 DEF Subscriptions
  <2>3. EventsOf(p) = EventsOf(q)
    <3> DEFINE g == q.got
               b == q.buf
    <3>1. /\ g \in Seq(Events \cup TaskStates) /\ b \in Seq(Events \cup TaskStates)
          /\ b # <<>>
      BY <1>1, <1>7, EventsType DEF SubscriberReceives
    <3> HIDE DEF g, b
    <3>2. Append(g, Head(b)) \o Tail(b) = g \o b
      BY <3>1, ReceiveEvent
    <3> QED BY <3>2, <2>2 DEF g, b, EventsOf
  <2>4. q.pc = "attached"
    BY <1>7 DEF SubscriberReceives
  <2> HIDE DEF p
  <2>5. SeesRun(q) => SeesRun(p)
    BY <2>2, <2>3 DEF SeesRun
  <2>6. SubAt(p)
    BY <2>2, <2>4, <2>5, <1>1 DEF SubAt
  <2> QED BY <2>1, <2>6, <1>3, SubOther
<1>8. ASSUME NEW to \in {"done", "left"}, sub' = [sub EXCEPT ![s].pc = to] PROVE SubInv'
  <2> DEFINE p == [q EXCEPT !.pc = to]
  <2>1. sub' = [sub EXCEPT ![s] = p]
    BY <1>8, <1>1 DEF TypeOK
  <2>2. p.pc = to
    BY <1>1 DEF Subscriptions
  <2>3. SubAt(p)
    BY <2>2 DEF SubAt
  <2> QED BY <2>1, <2>3, <1>3, SubOther
<1>9. CASE SubscriberEnds(s)
    BY <1>8, <1>9 DEF SubscriberEnds
<1>10. CASE SubscriberLeaves(s)
    BY <1>8, <1>10 DEF SubscriberLeaves
<1> QED BY <1>4, <1>5, <1>6, <1>7, <1>9, <1>10 DEF SubscriberStep

LEMMA SubNext == TypeOK /\ LifeInv /\ BroadcasterInv /\ SubInv /\ [Next]_vars => SubInv'
<1> SUFFICES ASSUME TypeOK, BroadcasterInv, SubInv, [Next]_vars PROVE SubInv'
    OBVIOUS
<1> USE DEF storeVars, reqVars, runVars, ctxVars, subVars, convVars, srvVars
<1>c. ASSUME UNCHANGED <<sub, wire, run>>,
             \A t \in Tasks : bcast'[t] = "open" => bcast[t] = "open"
      PROVE  SubInv'
    BY <1>c, SubQuiet
<1>1. CASE UNCHANGED vars
    BY <1>1, <1>c DEF vars
<1>2. ASSUME NEW t \in Tasks, Receive(t) PROVE SubInv'
  <2>1. \A k \in Tasks : run[k] \notin Early => run'[k] \notin Early
    BY <1>2 DEF Receive, Goto, Early, TypeOK
  <2> QED BY <1>2, <2>1, SubQuiet DEF Receive
<1>3. ASSUME NEW t \in Tasks, CreateTask(t) PROVE SubInv'
  <2>1. \A k \in Tasks : run[k] \notin Early => run'[k] \notin Early
    BY <1>3 DEF CreateTask, Goto, Early, TypeOK
  <2> QED BY <1>3, <2>1, SubQuiet DEF CreateTask
<1>4. ASSUME NEW t \in Tasks, OpenBroadcaster(t) PROVE SubInv'
  <2>1. \A k \in Tasks : run[k] \notin Early =>
            run'[k] \notin Early /\ (bcast'[k] = "open" => bcast[k] = "open")
    BY <1>4 DEF OpenBroadcaster, Goto, Early, TypeOK
  <2> QED BY <1>4, <2>1, SubQuiet DEF OpenBroadcaster
<1>5. ASSUME NEW t \in Tasks, CloseBroadcaster(t) PROVE SubInv'
  <2>1. \A k \in Tasks : run[k] \notin Early =>
            run'[k] \notin Early /\ (bcast'[k] = "open" => bcast[k] = "open")
    BY <1>5 DEF CloseBroadcaster, Goto, Early, TypeOK
  <2> QED BY <1>5, <2>1, SubQuiet DEF CloseBroadcaster
<1>6. ASSUME NEW t \in Tasks, AnnounceWorking(t) \/ StreamArtifact(t) \/ EmitFinal(t)
      PROVE  SubInv'
  <2>1. \A k \in Tasks : run[k] \notin Early => run'[k] \notin Early
    BY <1>6 DEF AnnounceWorking, StreamArtifact, EmitFinal, Goto, Early, TypeOK
  <2>2. PICK e \in Events : Emit(t, e) /\ UNCHANGED bcast
    BY <1>6 DEF AnnounceWorking, StreamArtifact, EmitFinal, FinalState, Events
  <2> QED BY <2>1, <2>2, SubEmit
<1>7. ASSUME NEW t \in Tasks,
             \/ RefuseMessage(t) \/ RunConversation(t) \/ SendWorking(t) \/ SendFails(t)
             \/ StoreArtifacts(t) \/ finalizeTask(t) \/ RunnerExits(t) \/ StreamWorking(t)
             \/ RegisterStream(t) \/ StreamEnds(t) \/ RecordFinal(t) \/ StreamContextDone(t)
             \/ RemoveBroadcaster(t)
      PROVE  SubInv'
  <2>1. UNCHANGED <<sub, wire, bcast>>
    BY <1>7 DEF RefuseMessage, RunConversation, SendWorking, SendFails, StoreArtifacts,
       finalizeTask, RunnerExits, StreamWorking, RegisterStream, StreamEnds, RecordFinal,
       StreamContextDone, RemoveBroadcaster
  <2>2. \A k \in Tasks : run[k] \notin Early => run'[k] \notin Early
    BY <1>7 DEF RefuseMessage, RunConversation, SendWorking, SendFails, StoreArtifacts,
       finalizeTask, RunnerExits, StreamWorking, RegisterStream, StreamEnds, RecordFinal,
       StreamContextDone, RemoveBroadcaster, Goto, Early, TypeOK
  <2> QED BY <2>1, <2>2, SubQuiet
<1>8. ASSUME NEW t \in Tasks, SendSucceeds(t) PROVE SubInv'
  <2>1. \A k \in Tasks : run[k] \notin Early => run'[k] \notin Early
    BY <1>8 DEF SendSucceeds, Goto, Early, TypeOK
  <2> QED BY <1>8, <2>1, SubQuiet DEF SendSucceeds
<1>9. ASSUME NEW t \in Tasks, Reply(t) PROVE SubInv'
    BY <1>9, <1>c DEF Reply
<1>10. ASSUME NEW t \in Tasks, RunnerStep(t) PROVE SubInv'
    BY <1>10, <1>3, <1>4, <1>5, <1>6, <1>7, <1>8, <1>9 DEF RunnerStep
<1>11. ASSUME NEW t \in Tasks, ClientDisconnects(t) \/ CancelInFlight(t) \/ CancelTask(t)
                               \/ SweepCancel(t)
      PROVE  SubInv'
    BY <1>11, <1>c DEF ClientDisconnects, CancelInFlight, CancelTask, SweepCancel
<1>12. ASSUME NEW t \in Tasks, SweepBroadcaster(t) PROVE SubInv'
  <2>1. \A k \in Tasks : bcast'[k] = "open" => bcast[k] = "open"
    BY <1>12 DEF SweepBroadcaster, TypeOK
  <2> QED BY <1>12, <2>1, <1>c DEF SweepBroadcaster
<1>13. ASSUME NEW s \in Subs, SubscriberStep(s) PROVE SubInv'
    BY <1>13, SubStep
<1>14. ASSUME NEW c \in Contexts, EvictIdleConversation(c) PROVE SubInv'
    BY <1>14, <1>c DEF EvictIdleConversation
<1>15. ASSUME EvictTerminalTasks \/ EvictClosedBroadcasters PROVE SubInv'
    BY <1>15, <1>c DEF EvictTerminalTasks, EvictClosedBroadcasters
<1>16. ASSUME ShutdownStep PROVE SubInv'
  <2>1. UNCHANGED <<sub, wire, run>>
    BY <1>16 DEF ShutdownStep, ShutdownBegins, ShutdownDrains, CloseAllBroadcasters,
       CancelAll, CloseConversations
  <2>2. \A k \in Tasks : bcast'[k] = "open" => bcast[k] = "open"
    BY ZenonT(60), <1>16 DEF ShutdownStep, ShutdownBegins, ShutdownDrains, CloseAllBroadcasters,
       CancelAll, CloseConversations, TypeOK
  <2> QED BY <2>1, <2>2, <1>c
<1> QED BY <1>1, <1>2, <1>10, <1>11, <1>12, <1>13, <1>14, <1>15, <1>16 DEF Next

LEMMA SubInit == Init => SubInv
<1> SUFFICES ASSUME Init, NEW s \in Subs PROVE SubAt(sub[s])
    BY DEF SubInv
<1>1. sub[s].pc = "idle" /\ sub[s].got = <<>> /\ sub[s].buf = <<>>
    BY DEF Init
<1> QED BY <1>1 DEF SubAt

LEMMA SubSeesRun == TypeOK /\ SubInv => SubscriberSeesRun
<1> SUFFICES ASSUME TypeOK, SubInv, NEW s \in Subs, sub[s].pc = "attached", ~sub[s].dropped
             PROVE  LET q == sub[s]
                        events == q.got \o q.buf
                    IN  /\ events = SubSeq(wire[q.task], q.from + 1, q.from + Len(events))
                        /\ bcast[q.task] = "open" =>
                               q.from + Len(events) = Len(wire[q.task])
    BY DEF SubscriberSeesRun
<1> DEFINE q == sub[s]
           E == EventsOf(q)
           w == wire[q.task]
           f == q.from
<1>1. q \in Subscriptions /\ SeesRun(q)
    BY DEF SubInv, SubAt, TypeOK
<1>2. E \in Seq(Events \cup TaskStates) /\ Len(E) \in Nat /\ f \in Nat
    BY <1>1, EventsType
<1>3. w \in Seq(Events)
    BY <1>1 DEF Subscriptions, TypeOK
<1>4. w \in Seq(Events \cup TaskStates) /\ Len(w) \in Nat
    BY <1>3, SeqMonotonic, LenProperties
<1>5. f + Len(E) <= Len(w) /\ \A i \in 1 .. Len(E) : E[i] = w[f + i]
    BY <1>1 DEF SeesRun
<1> HIDE DEF q, E, w, f
<1> DEFINE u == SubSeq(w, f + 1, f + Len(E))
<1>6. \A i \in f + 1 .. f + Len(E) : w[i] \in Events \cup TaskStates
    BY <1>2, <1>4, <1>5, ElementOfSeq
<1>7. /\ u \in Seq(Events \cup TaskStates) /\ Len(u) = Len(E)
      /\ \A i \in 1 .. Len(E) : u[i] = w[f + i]
  <2> DEFINE n == Len(E)
  <2>1. n \in Nat /\ f + 1 \in Int /\ f + n \in Int
    BY <1>2
  <2> HIDE DEF n
  <2>2. /\ SubSeq(w, f + 1, f + n) \in Seq(Events \cup TaskStates)
        /\ Len(SubSeq(w, f + 1, f + n)) =
               IF f + 1 <= f + n THEN (f + n) - (f + 1) + 1 ELSE 0
        /\ \A i \in 1 .. (f + n) - (f + 1) + 1 :
               SubSeq(w, f + 1, f + n)[i] = w[(f + 1) + i - 1]
    BY <2>1, <1>6, SubSeqProperties DEF n
  <2>3. /\ (IF f + 1 <= f + n THEN (f + n) - (f + 1) + 1 ELSE 0) = n
        /\ (f + n) - (f + 1) + 1 = n
        /\ \A i \in 1 .. n : (f + 1) + i - 1 = f + i
    BY <2>1, <1>2
  <2>4. \A i \in 1 .. n : SubSeq(w, f + 1, f + n)[i] = w[f + i]
    BY <2>2, <2>3
  <2> QED BY <2>2, <2>3, <2>4 DEF n
<1> HIDE DEF u
<1>8. E = u
    BY <1>2, <1>5, <1>7, SeqEqual
<1> QED BY <1>1, <1>8 DEF u, E, w, f, q, SeesRun, EventsOf

\* A subscriber that lost nothing to a full buffer has exactly the events
\* written to the stream's client since it subscribed, in order and without a
\* gap, whoever closes, evicts, cancels or shuts down meanwhile.
THEOREM SubscribersSeeTheRun == Spec => []SubscriberSeesRun
<1>1. Init => BroadcasterInv /\ SubInv BY RestInit, SubInit
<1>2. TypeOK /\ LifeInv /\ BroadcasterInv /\ SubInv /\ [Next]_vars
        => BroadcasterInv' /\ SubInv'
    BY BroadcasterNext, SubNext
<1>3. TypeOK /\ SubInv => SubscriberSeesRun BY SubSeesRun
<1> QED BY <1>1, <1>2, <1>3, LifeInvariant, PTL DEF Spec
=============================================================================
