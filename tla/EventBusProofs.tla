--------------------------- MODULE EventBusProofs ---------------------------
(***************************************************************************)
(* Proofs about EventBus, for every set of listeners, events, workers and  *)
(* calls of Close, every buffer size and every strike limit.               *)
(***************************************************************************)
EXTENDS EventBus, FiniteSetTheorems, TLAPS

-----------------------------------------------------------------------------
(* Types.  The WaitGroup's counter is a natural number because it counts   *)
(* the workers that run; that needs the workers to be launched once only.  *)

\* TypeOK but for the WaitGroup's counter.
TypeOK0 ==
    /\ subscription \in [Listeners -> {"none", "launch", "register", "on", "off"}]
    /\ registered \subseteq Listeners
    /\ nextID \in Nat /\ id \in [Listeners -> Nat]
    /\ leakCount \in [Listeners -> Nat]
    /\ started \in BOOLEAN /\ chClosed \in BOOLEAN /\ closed \in BOOLEAN
    /\ pub \in [Events -> {"none", "stamped", "refused", "accepted", "dropped", "panicked"}]
    /\ eventCh \in Seq(Events)
    /\ closer \in [Closers -> {"none", "ignored", "lock", "closed", "wait", "drain",
                               "returned", "abandoned"}]
    /\ worker \in [Workers -> {"none", "receive", "dispatch", "invoke", "running", "exited"}]
    /\ hand \in [Workers -> Events \cup {NoEvent}]
    /\ todo \in [Workers -> SUBSET Listeners]
    /\ callee \in [Workers -> Listeners \cup {NoListener}]
    /\ calls \in [Listeners -> [Events -> Nat]]
    /\ audience \in [Events -> [Listeners -> {"none", "launch", "register", "on", "off"}]]

\* What a worker has in hand at each point of its loop.
HandInv ==
    \A w \in Workers :
        /\ worker[w] \in {"dispatch", "invoke", "running"} <=> hand[w] # NoEvent
        /\ worker[w] \notin {"invoke", "running"} => todo[w] = {}
        /\ worker[w] = "running" <=> callee[w] # NoListener

\* The registered listeners are those whose subscription stands.
RegisteredInv == \A l \in Listeners : l \in registered <=> subscription[l] = "on"

\* The first subscription to swap the flag launches the workers, and only it.
PoolInv ==
    /\ ~started => /\ \A l \in Listeners : subscription[l] = "none"
                   /\ \A w \in Workers : worker[w] = "none"
    /\ \A l \in Listeners : subscription[l] = "launch" =>
          /\ \A w \in Workers : worker[w] = "none"
          /\ \A k \in Listeners : subscription[k] = "launch" => k = l
    /\ started /\ (\A l \in Listeners : subscription[l] # "launch") =>
          \A w \in Workers : worker[w] # "none"

LEMMA TypeStep == TypeOK0 /\ HandInv /\ PoolInv /\ [Next]_vars => (TypeOK0 /\ HandInv)'
<1> SUFFICES ASSUME TypeOK0, HandInv, PoolInv, [Next]_vars PROVE (TypeOK0 /\ HandInv)'
    OBVIOUS
<1> USE DEF busVars, pubVars, closeVars, workerVars
<1>1. CASE UNCHANGED vars
    BY <1>1 DEF vars, TypeOK0, HandInv
<1>2. ASSUME NEW l \in Listeners, EnsureStarted(l) PROVE (TypeOK0 /\ HandInv)'
    BY <1>2, EventBusAssumption DEF EnsureStarted, TypeOK0, HandInv
<1>3. ASSUME NEW l \in Listeners, LaunchWorkers(l) PROVE (TypeOK0 /\ HandInv)'
    BY <1>3, EventBusAssumption DEF LaunchWorkers, PoolInv, TypeOK0, HandInv
<1>4. ASSUME NEW l \in Listeners, Register(l) PROVE (TypeOK0 /\ HandInv)'
    BY <1>4, EventBusAssumption DEF Register, TypeOK0, HandInv
<1>5. ASSUME NEW l \in Listeners, Unsubscribe(l) PROVE (TypeOK0 /\ HandInv)'
    BY <1>5, EventBusAssumption DEF Unsubscribe, TypeOK0, HandInv
<1>6. CASE Clear
    BY <1>6, EventBusAssumption DEF Clear, TypeOK0, HandInv
<1>7. ASSUME NEW e \in Events, PublishStamps(e) PROVE (TypeOK0 /\ HandInv)'
    BY <1>7, EventBusAssumption DEF PublishStamps, TypeOK0, HandInv
<1>8. ASSUME NEW e \in Events, PublishRefused(e) PROVE (TypeOK0 /\ HandInv)'
    BY <1>8, EventBusAssumption DEF PublishRefused, TypeOK0, HandInv
<1>9. ASSUME NEW e \in Events, PublishSends(e) PROVE (TypeOK0 /\ HandInv)'
    BY <1>9, EventBusAssumption DEF PublishSends, TypeOK0, HandInv
<1>10. ASSUME NEW w \in Workers, WorkerReceives(w) PROVE (TypeOK0 /\ HandInv)'
    BY <1>10, EventBusAssumption DEF WorkerReceives, TypeOK0, HandInv
<1>11. ASSUME NEW w \in Workers, Dispatch(w) PROVE (TypeOK0 /\ HandInv)'
    BY <1>11, EventBusAssumption DEF Dispatch, TypeOK0, HandInv
<1>12. ASSUME NEW w \in Workers, Dispatched(w) PROVE (TypeOK0 /\ HandInv)'
    BY <1>12, EventBusAssumption DEF Dispatched, TypeOK0, HandInv
<1>13. ASSUME NEW w \in Workers, Invoke(w) PROVE (TypeOK0 /\ HandInv)'
    BY <1>13, EventBusAssumption DEF Invoke, NextListener, TypeOK0, HandInv
<1>14. ASSUME NEW w \in Workers, SkipLeaking(w) PROVE (TypeOK0 /\ HandInv)'
    BY <1>14, EventBusAssumption DEF SkipLeaking, NextListener, TypeOK0, HandInv
<1>15. ASSUME NEW w \in Workers, ListenerTimesOut(w) PROVE (TypeOK0 /\ HandInv)'
    BY <1>15, EventBusAssumption DEF ListenerTimesOut, TypeOK0, HandInv
<1>16. ASSUME NEW w \in Workers, WorkerExits(w) PROVE (TypeOK0 /\ HandInv)'
    BY <1>16, EventBusAssumption DEF WorkerExits, TypeOK0, HandInv
<1>17. ASSUME NEW w \in Workers, ListenerReturns(w) PROVE (TypeOK0 /\ HandInv)'
    BY <1>17, EventBusAssumption DEF ListenerReturns, TypeOK0, HandInv
<1>18. ASSUME NEW c \in Closers, CloseBegins(c) PROVE (TypeOK0 /\ HandInv)'
    BY <1>18, EventBusAssumption DEF CloseBegins, TypeOK0, HandInv
<1>19. ASSUME NEW c \in Closers, CloseChannel(c) PROVE (TypeOK0 /\ HandInv)'
    BY <1>19, EventBusAssumption DEF CloseChannel, TypeOK0, HandInv
<1>20. ASSUME NEW c \in Closers, CloseChecksStarted(c) PROVE (TypeOK0 /\ HandInv)'
    BY <1>20, EventBusAssumption DEF CloseChecksStarted, TypeOK0, HandInv
<1>21. ASSUME NEW c \in Closers, CloseWaits(c) PROVE (TypeOK0 /\ HandInv)'
    BY <1>21, EventBusAssumption DEF CloseWaits, TypeOK0, HandInv
<1>22. ASSUME NEW c \in Closers, CloseDrains(c) PROVE (TypeOK0 /\ HandInv)'
    BY <1>22, EventBusAssumption DEF CloseDrains, TypeOK0, HandInv
<1>23. ASSUME NEW c \in Closers, CloseDrained(c) PROVE (TypeOK0 /\ HandInv)'
    BY <1>23, EventBusAssumption DEF CloseDrained, TypeOK0, HandInv
<1>24. ASSUME NEW c \in Closers, CloseTimesOut(c) PROVE (TypeOK0 /\ HandInv)'
    BY <1>24, EventBusAssumption DEF CloseTimesOut, TypeOK0, HandInv
<1> QED BY <1>1, <1>2, <1>3, <1>4, <1>5, <1>6, <1>7, <1>8, <1>9, <1>10, <1>11, <1>12,
           <1>13, <1>14, <1>15, <1>16, <1>17, <1>18, <1>19, <1>20, <1>21, <1>22, <1>23,
           <1>24
       DEF Next, SubscribeStep, PublishStep, WorkerStep, CloseStep

Active == {w \in Workers : worker[w] \notin {"none", "exited"}}

CountInv == waiting = Cardinality(Active)

LEMMA RegisteredStep == TypeOK0 /\ RegisteredInv /\ [Next]_vars => RegisteredInv'
<1> SUFFICES ASSUME TypeOK0, RegisteredInv, [Next]_vars PROVE RegisteredInv'
    OBVIOUS
<1> USE DEF busVars, pubVars, closeVars, workerVars
<1>1. CASE UNCHANGED vars
    BY <1>1 DEF vars, RegisteredInv, TypeOK0
<1>2. ASSUME NEW l \in Listeners, EnsureStarted(l) PROVE RegisteredInv'
    BY <1>2 DEF EnsureStarted, RegisteredInv, TypeOK0
<1>3. ASSUME NEW l \in Listeners, LaunchWorkers(l) PROVE RegisteredInv'
    BY <1>3 DEF LaunchWorkers, RegisteredInv, TypeOK0
<1>4. ASSUME NEW l \in Listeners, Register(l) PROVE RegisteredInv'
    BY <1>4 DEF Register, RegisteredInv, TypeOK0
<1>5. ASSUME NEW l \in Listeners, Unsubscribe(l) PROVE RegisteredInv'
    BY <1>5 DEF Unsubscribe, RegisteredInv, TypeOK0
<1>6. CASE Clear
    BY <1>6 DEF Clear, RegisteredInv, TypeOK0
<1>7. ASSUME NEW e \in Events, PublishStamps(e) PROVE RegisteredInv'
    BY <1>7 DEF PublishStamps, RegisteredInv, TypeOK0
<1>8. ASSUME NEW e \in Events, PublishRefused(e) PROVE RegisteredInv'
    BY <1>8 DEF PublishRefused, RegisteredInv, TypeOK0
<1>9. ASSUME NEW e \in Events, PublishSends(e) PROVE RegisteredInv'
    BY <1>9 DEF PublishSends, RegisteredInv, TypeOK0
<1>10. ASSUME NEW w \in Workers, WorkerReceives(w) PROVE RegisteredInv'
    BY <1>10 DEF WorkerReceives, RegisteredInv, TypeOK0
<1>11. ASSUME NEW w \in Workers, Dispatch(w) PROVE RegisteredInv'
    BY <1>11 DEF Dispatch, RegisteredInv, TypeOK0
<1>12. ASSUME NEW w \in Workers, Dispatched(w) PROVE RegisteredInv'
    BY <1>12 DEF Dispatched, RegisteredInv, TypeOK0
<1>13. ASSUME NEW w \in Workers, Invoke(w) PROVE RegisteredInv'
    BY <1>13 DEF Invoke, RegisteredInv, TypeOK0
<1>14. ASSUME NEW w \in Workers, SkipLeaking(w) PROVE RegisteredInv'
    BY <1>14 DEF SkipLeaking, RegisteredInv, TypeOK0
<1>15. ASSUME NEW w \in Workers, ListenerTimesOut(w) PROVE RegisteredInv'
    BY <1>15 DEF ListenerTimesOut, RegisteredInv, TypeOK0
<1>16. ASSUME NEW w \in Workers, WorkerExits(w) PROVE RegisteredInv'
    BY <1>16 DEF WorkerExits, RegisteredInv, TypeOK0
<1>17. ASSUME NEW w \in Workers, ListenerReturns(w) PROVE RegisteredInv'
    BY <1>17 DEF ListenerReturns, RegisteredInv, TypeOK0
<1>18. ASSUME NEW c \in Closers, CloseBegins(c) PROVE RegisteredInv'
    BY <1>18 DEF CloseBegins, RegisteredInv, TypeOK0
<1>19. ASSUME NEW c \in Closers, CloseChannel(c) PROVE RegisteredInv'
    BY <1>19 DEF CloseChannel, RegisteredInv, TypeOK0
<1>20. ASSUME NEW c \in Closers, CloseChecksStarted(c) PROVE RegisteredInv'
    BY <1>20 DEF CloseChecksStarted, RegisteredInv, TypeOK0
<1>21. ASSUME NEW c \in Closers, CloseWaits(c) PROVE RegisteredInv'
    BY <1>21 DEF CloseWaits, RegisteredInv, TypeOK0
<1>22. ASSUME NEW c \in Closers, CloseDrains(c) PROVE RegisteredInv'
    BY <1>22 DEF CloseDrains, RegisteredInv, TypeOK0
<1>23. ASSUME NEW c \in Closers, CloseDrained(c) PROVE RegisteredInv'
    BY <1>23 DEF CloseDrained, RegisteredInv, TypeOK0
<1>24. ASSUME NEW c \in Closers, CloseTimesOut(c) PROVE RegisteredInv'
    BY <1>24 DEF CloseTimesOut, RegisteredInv, TypeOK0
<1> QED BY <1>1, <1>2, <1>3, <1>4, <1>5, <1>6, <1>7, <1>8, <1>9, <1>10, <1>11, <1>12,
           <1>13, <1>14, <1>15, <1>16, <1>17, <1>18, <1>19, <1>20, <1>21, <1>22, <1>23,
           <1>24
       DEF Next, SubscribeStep, PublishStep, WorkerStep, CloseStep

LEMMA PoolStep == TypeOK0 /\ RegisteredInv /\ PoolInv /\ [Next]_vars => PoolInv'
<1> SUFFICES ASSUME TypeOK0, RegisteredInv, PoolInv, [Next]_vars PROVE PoolInv'
    OBVIOUS
<1> USE DEF busVars, pubVars, closeVars, workerVars
<1>1. CASE UNCHANGED vars
    BY <1>1 DEF vars, PoolInv, TypeOK0
<1>2. ASSUME NEW l \in Listeners, EnsureStarted(l) PROVE PoolInv'
    BY <1>2 DEF EnsureStarted, PoolInv, TypeOK0
<1>3. ASSUME NEW l \in Listeners, LaunchWorkers(l) PROVE PoolInv'
    BY <1>3 DEF LaunchWorkers, PoolInv, TypeOK0
<1>4. ASSUME NEW l \in Listeners, Register(l) PROVE PoolInv'
    BY <1>4 DEF Register, PoolInv, TypeOK0
<1>5. ASSUME NEW l \in Listeners, Unsubscribe(l) PROVE PoolInv'
    BY <1>5 DEF Unsubscribe, PoolInv, TypeOK0
<1>6. CASE Clear
    BY <1>6 DEF Clear, RegisteredInv, PoolInv, TypeOK0
<1>7. ASSUME NEW e \in Events, PublishStamps(e) PROVE PoolInv'
    BY <1>7 DEF PublishStamps, PoolInv, TypeOK0
<1>8. ASSUME NEW e \in Events, PublishRefused(e) PROVE PoolInv'
    BY <1>8 DEF PublishRefused, PoolInv, TypeOK0
<1>9. ASSUME NEW e \in Events, PublishSends(e) PROVE PoolInv'
    BY <1>9 DEF PublishSends, PoolInv, TypeOK0
<1>10. ASSUME NEW w \in Workers, WorkerReceives(w) PROVE PoolInv'
    BY <1>10 DEF WorkerReceives, PoolInv, TypeOK0
<1>11. ASSUME NEW w \in Workers, Dispatch(w) PROVE PoolInv'
    BY <1>11 DEF Dispatch, PoolInv, TypeOK0
<1>12. ASSUME NEW w \in Workers, Dispatched(w) PROVE PoolInv'
    BY <1>12 DEF Dispatched, PoolInv, TypeOK0
<1>13. ASSUME NEW w \in Workers, Invoke(w) PROVE PoolInv'
    BY <1>13 DEF Invoke, PoolInv, TypeOK0
<1>14. ASSUME NEW w \in Workers, SkipLeaking(w) PROVE PoolInv'
    BY <1>14 DEF SkipLeaking, PoolInv, TypeOK0
<1>15. ASSUME NEW w \in Workers, ListenerTimesOut(w) PROVE PoolInv'
    BY <1>15 DEF ListenerTimesOut, PoolInv, TypeOK0
<1>16. ASSUME NEW w \in Workers, WorkerExits(w) PROVE PoolInv'
    BY <1>16 DEF WorkerExits, PoolInv, TypeOK0
<1>17. ASSUME NEW w \in Workers, ListenerReturns(w) PROVE PoolInv'
    BY <1>17 DEF ListenerReturns, PoolInv, TypeOK0
<1>18. ASSUME NEW c \in Closers, CloseBegins(c) PROVE PoolInv'
    BY <1>18 DEF CloseBegins, PoolInv, TypeOK0
<1>19. ASSUME NEW c \in Closers, CloseChannel(c) PROVE PoolInv'
    BY <1>19 DEF CloseChannel, PoolInv, TypeOK0
<1>20. ASSUME NEW c \in Closers, CloseChecksStarted(c) PROVE PoolInv'
    BY <1>20 DEF CloseChecksStarted, PoolInv, TypeOK0
<1>21. ASSUME NEW c \in Closers, CloseWaits(c) PROVE PoolInv'
    BY <1>21 DEF CloseWaits, PoolInv, TypeOK0
<1>22. ASSUME NEW c \in Closers, CloseDrains(c) PROVE PoolInv'
    BY <1>22 DEF CloseDrains, PoolInv, TypeOK0
<1>23. ASSUME NEW c \in Closers, CloseDrained(c) PROVE PoolInv'
    BY <1>23 DEF CloseDrained, PoolInv, TypeOK0
<1>24. ASSUME NEW c \in Closers, CloseTimesOut(c) PROVE PoolInv'
    BY <1>24 DEF CloseTimesOut, PoolInv, TypeOK0
<1> QED BY <1>1, <1>2, <1>3, <1>4, <1>5, <1>6, <1>7, <1>8, <1>9, <1>10, <1>11, <1>12,
           <1>13, <1>14, <1>15, <1>16, <1>17, <1>18, <1>19, <1>20, <1>21, <1>22, <1>23,
           <1>24
       DEF Next, SubscribeStep, PublishStep, WorkerStep, CloseStep

LEMMA CountStep == TypeOK0 /\ PoolInv /\ CountInv /\ [Next]_vars => CountInv'
<1> SUFFICES ASSUME TypeOK0, PoolInv, CountInv, [Next]_vars PROVE CountInv'
    OBVIOUS
<1> USE DEF busVars, pubVars, closeVars, workerVars
<1>1. CASE UNCHANGED vars
    BY <1>1 DEF vars, Active, CountInv
<1>2. ASSUME NEW l \in Listeners, EnsureStarted(l) PROVE CountInv'
  <2>1. Active' = Active
    BY <1>2 DEF EnsureStarted, Active, TypeOK0
  <2> QED BY <1>2, <2>1 DEF EnsureStarted, CountInv
<1>3. ASSUME NEW l \in Listeners, LaunchWorkers(l) PROVE CountInv'
  <2>1. Active = {}
    BY <1>3 DEF LaunchWorkers, Active, PoolInv
  <2>2. Active' = Workers
    BY <1>3 DEF LaunchWorkers, Active
  <2>3. waiting = 0
    BY <2>1, FS_EmptySet DEF CountInv
  <2>4. Cardinality(Workers) \in Nat
    BY FS_CardinalityType, EventBusAssumption
  <2> QED BY <1>3, <2>2, <2>3, <2>4 DEF LaunchWorkers, CountInv
<1>4. ASSUME NEW l \in Listeners, Register(l) PROVE CountInv'
  <2>1. Active' = Active
    BY <1>4 DEF Register, Active, TypeOK0
  <2> QED BY <1>4, <2>1 DEF Register, CountInv
<1>5. ASSUME NEW l \in Listeners, Unsubscribe(l) PROVE CountInv'
  <2>1. Active' = Active
    BY <1>5 DEF Unsubscribe, Active, TypeOK0
  <2> QED BY <1>5, <2>1 DEF Unsubscribe, CountInv
<1>6. CASE Clear
  <2>1. Active' = Active
    BY <1>6 DEF Clear, Active, TypeOK0
  <2> QED BY <1>6, <2>1 DEF Clear, CountInv
<1>7. ASSUME NEW e \in Events, PublishStamps(e) PROVE CountInv'
  <2>1. Active' = Active
    BY <1>7 DEF PublishStamps, Active, TypeOK0
  <2> QED BY <1>7, <2>1 DEF PublishStamps, CountInv
<1>8. ASSUME NEW e \in Events, PublishRefused(e) PROVE CountInv'
  <2>1. Active' = Active
    BY <1>8 DEF PublishRefused, Active, TypeOK0
  <2> QED BY <1>8, <2>1 DEF PublishRefused, CountInv
<1>9. ASSUME NEW e \in Events, PublishSends(e) PROVE CountInv'
  <2>1. Active' = Active
    BY <1>9 DEF PublishSends, Active, TypeOK0
  <2> QED BY <1>9, <2>1 DEF PublishSends, CountInv
<1>10. ASSUME NEW w \in Workers, WorkerReceives(w) PROVE CountInv'
  <2>1. Active' = Active
    BY <1>10 DEF WorkerReceives, Active, TypeOK0
  <2> QED BY <1>10, <2>1 DEF WorkerReceives, CountInv
<1>11. ASSUME NEW w \in Workers, Dispatch(w) PROVE CountInv'
  <2>1. Active' = Active
    BY <1>11 DEF Dispatch, Active, TypeOK0
  <2> QED BY <1>11, <2>1 DEF Dispatch, CountInv
<1>12. ASSUME NEW w \in Workers, Dispatched(w) PROVE CountInv'
  <2>1. Active' = Active
    BY <1>12 DEF Dispatched, Active, TypeOK0
  <2> QED BY <1>12, <2>1 DEF Dispatched, CountInv
<1>13. ASSUME NEW w \in Workers, Invoke(w) PROVE CountInv'
  <2>1. Active' = Active
    BY <1>13 DEF Invoke, Active, TypeOK0
  <2> QED BY <1>13, <2>1 DEF Invoke, CountInv
<1>14. ASSUME NEW w \in Workers, SkipLeaking(w) PROVE CountInv'
  <2>1. Active' = Active
    BY <1>14 DEF SkipLeaking, Active, TypeOK0
  <2> QED BY <1>14, <2>1 DEF SkipLeaking, CountInv
<1>15. ASSUME NEW w \in Workers, ListenerTimesOut(w) PROVE CountInv'
  <2>1. Active' = Active
    BY <1>15 DEF ListenerTimesOut, Active, TypeOK0
  <2> QED BY <1>15, <2>1 DEF ListenerTimesOut, CountInv
<1>16. ASSUME NEW w \in Workers, WorkerExits(w) PROVE CountInv'
  <2>1. w \in Active /\ Active' = Active \ {w}
    BY <1>16 DEF WorkerExits, Active, TypeOK0
  <2>2. IsFiniteSet(Active)
    BY FS_Subset, EventBusAssumption DEF Active
  <2>3. Cardinality(Active') = Cardinality(Active) - 1
    BY <2>1, <2>2, FS_RemoveElement
  <2> QED BY <1>16, <2>3 DEF WorkerExits, CountInv
<1>17. ASSUME NEW w \in Workers, ListenerReturns(w) PROVE CountInv'
  <2>1. Active' = Active
    BY <1>17 DEF ListenerReturns, Active, TypeOK0
  <2> QED BY <1>17, <2>1 DEF ListenerReturns, CountInv
<1>18. ASSUME NEW c \in Closers, CloseBegins(c) PROVE CountInv'
  <2>1. Active' = Active
    BY <1>18 DEF CloseBegins, Active, TypeOK0
  <2> QED BY <1>18, <2>1 DEF CloseBegins, CountInv
<1>19. ASSUME NEW c \in Closers, CloseChannel(c) PROVE CountInv'
  <2>1. Active' = Active
    BY <1>19 DEF CloseChannel, Active, TypeOK0
  <2> QED BY <1>19, <2>1 DEF CloseChannel, CountInv
<1>20. ASSUME NEW c \in Closers, CloseChecksStarted(c) PROVE CountInv'
  <2>1. Active' = Active
    BY <1>20 DEF CloseChecksStarted, Active, TypeOK0
  <2> QED BY <1>20, <2>1 DEF CloseChecksStarted, CountInv
<1>21. ASSUME NEW c \in Closers, CloseWaits(c) PROVE CountInv'
  <2>1. Active' = Active
    BY <1>21 DEF CloseWaits, Active, TypeOK0
  <2> QED BY <1>21, <2>1 DEF CloseWaits, CountInv
<1>22. ASSUME NEW c \in Closers, CloseDrains(c) PROVE CountInv'
  <2>1. Active' = Active
    BY <1>22 DEF CloseDrains, Active, TypeOK0
  <2> QED BY <1>22, <2>1 DEF CloseDrains, CountInv
<1>23. ASSUME NEW c \in Closers, CloseDrained(c) PROVE CountInv'
  <2>1. Active' = Active
    BY <1>23 DEF CloseDrained, Active, TypeOK0
  <2> QED BY <1>23, <2>1 DEF CloseDrained, CountInv
<1>24. ASSUME NEW c \in Closers, CloseTimesOut(c) PROVE CountInv'
  <2>1. Active' = Active
    BY <1>24 DEF CloseTimesOut, Active, TypeOK0
  <2> QED BY <1>24, <2>1 DEF CloseTimesOut, CountInv
<1> QED BY <1>1, <1>2, <1>3, <1>4, <1>5, <1>6, <1>7, <1>8, <1>9, <1>10, <1>11, <1>12,
           <1>13, <1>14, <1>15, <1>16, <1>17, <1>18, <1>19, <1>20, <1>21, <1>22, <1>23,
           <1>24
       DEF Next, SubscribeStep, PublishStep, WorkerStep, CloseStep

PoolIInv == TypeOK0 /\ HandInv /\ RegisteredInv /\ PoolInv /\ CountInv

LEMMA PoolInit == Init => PoolIInv
<1> SUFFICES ASSUME Init PROVE PoolIInv
    OBVIOUS
<1>1. Active = {}
    BY DEF Init, Active
<1>2. CountInv
    BY <1>1, FS_EmptySet DEF Init, CountInv
<1>3. TypeOK0
  <2>1. calls \in [Listeners -> [Events -> Nat]]
    BY DEF Init
  <2>2. audience \in [Events -> [Listeners -> {"none", "launch", "register", "on", "off"}]]
    BY DEF Init
  <2>3. eventCh \in Seq(Events)
    BY DEF Init
  <2> QED BY <2>1, <2>2, <2>3, EventBusAssumption DEF Init, TypeOK0
<1>4. HandInv /\ RegisteredInv /\ PoolInv
    BY DEF Init, HandInv, RegisteredInv, PoolInv
<1> QED BY <1>2, <1>3, <1>4 DEF PoolIInv

LEMMA PoolIsTyped == PoolIInv => TypeOK
<1> SUFFICES ASSUME PoolIInv PROVE TypeOK
    OBVIOUS
<1>1. IsFiniteSet(Active)
    BY FS_Subset, EventBusAssumption DEF Active
<1>2. waiting \in Nat
    BY <1>1, FS_CardinalityType DEF PoolIInv, CountInv
<1> QED BY <1>2 DEF PoolIInv, TypeOK0, TypeOK

\* Every variable keeps its type; in particular wg.Done is never called more
\* often than wg.Add allows.
THEOREM TypeCorrect == Spec => []TypeOK
<1>1. PoolIInv /\ [Next]_vars => PoolIInv'
    BY TypeStep, RegisteredStep, PoolStep, CountStep DEF PoolIInv
<1> QED BY <1>1, PoolInit, PoolIsTyped, PTL DEF Spec

-----------------------------------------------------------------------------
(* publishMu.                                                              *)

Closing == {"closed", "wait", "drain", "returned", "abandoned"}

\* A publisher inside Publish keeps the channel open: the closer waits for it,
\* and after the flag is set no publisher comes in.
LockInv ==
    /\ \A c \in Closers : closer[c] \in Closing \cup {"lock"} => closed
    /\ chClosed => closed
    /\ \A c \in Closers : closer[c] \in Closing => chClosed
    /\ chClosed => \A e \in Events : pub[e] # "stamped"
    /\ PublishNeverPanics

LEMMA LockStep == TypeOK0 /\ LockInv /\ [Next]_vars => LockInv'
<1> SUFFICES ASSUME TypeOK0, LockInv, [Next]_vars PROVE LockInv'
    OBVIOUS
<1> USE DEF busVars, pubVars, closeVars, workerVars
<1>1. CASE UNCHANGED vars
    BY <1>1 DEF vars, LockInv, Closing, PublishNeverPanics, TypeOK0
<1>2. ASSUME NEW l \in Listeners, EnsureStarted(l) PROVE LockInv'
    BY <1>2 DEF EnsureStarted, LockInv, Closing, PublishNeverPanics, TypeOK0
<1>3. ASSUME NEW l \in Listeners, LaunchWorkers(l) PROVE LockInv'
    BY <1>3 DEF LaunchWorkers, LockInv, Closing, PublishNeverPanics, TypeOK0
<1>4. ASSUME NEW l \in Listeners, Register(l) PROVE LockInv'
    BY <1>4 DEF Register, LockInv, Closing, PublishNeverPanics, TypeOK0
<1>5. ASSUME NEW l \in Listeners, Unsubscribe(l) PROVE LockInv'
    BY <1>5 DEF Unsubscribe, LockInv, Closing, PublishNeverPanics, TypeOK0
<1>6. CASE Clear
    BY <1>6 DEF Clear, LockInv, Closing, PublishNeverPanics, TypeOK0
<1>7. ASSUME NEW e \in Events, PublishStamps(e) PROVE LockInv'
    BY <1>7 DEF PublishStamps, LockInv, Closing, PublishNeverPanics, TypeOK0
<1>8. ASSUME NEW e \in Events, PublishRefused(e) PROVE LockInv'
    BY <1>8 DEF PublishRefused, LockInv, Closing, PublishNeverPanics, TypeOK0
<1>9. ASSUME NEW e \in Events, PublishSends(e) PROVE LockInv'
    BY <1>9 DEF PublishSends, LockInv, Closing, PublishNeverPanics, TypeOK0
<1>10. ASSUME NEW w \in Workers, WorkerReceives(w) PROVE LockInv'
    BY <1>10 DEF WorkerReceives, LockInv, Closing, PublishNeverPanics, TypeOK0
<1>11. ASSUME NEW w \in Workers, Dispatch(w) PROVE LockInv'
    BY <1>11 DEF Dispatch, LockInv, Closing, PublishNeverPanics, TypeOK0
<1>12. ASSUME NEW w \in Workers, Dispatched(w) PROVE LockInv'
    BY <1>12 DEF Dispatched, LockInv, Closing, PublishNeverPanics, TypeOK0
<1>13. ASSUME NEW w \in Workers, Invoke(w) PROVE LockInv'
    BY <1>13 DEF Invoke, LockInv, Closing, PublishNeverPanics, TypeOK0
<1>14. ASSUME NEW w \in Workers, SkipLeaking(w) PROVE LockInv'
    BY <1>14 DEF SkipLeaking, LockInv, Closing, PublishNeverPanics, TypeOK0
<1>15. ASSUME NEW w \in Workers, ListenerTimesOut(w) PROVE LockInv'
    BY <1>15 DEF ListenerTimesOut, LockInv, Closing, PublishNeverPanics, TypeOK0
<1>16. ASSUME NEW w \in Workers, WorkerExits(w) PROVE LockInv'
    BY <1>16 DEF WorkerExits, LockInv, Closing, PublishNeverPanics, TypeOK0
<1>17. ASSUME NEW w \in Workers, ListenerReturns(w) PROVE LockInv'
    BY <1>17 DEF ListenerReturns, LockInv, Closing, PublishNeverPanics, TypeOK0
<1>18. ASSUME NEW c \in Closers, CloseBegins(c) PROVE LockInv'
    BY <1>18 DEF CloseBegins, LockInv, Closing, PublishNeverPanics, TypeOK0
<1>19. ASSUME NEW c \in Closers, CloseChannel(c) PROVE LockInv'
    BY <1>19 DEF CloseChannel, PublishMu, LockInv, Closing, PublishNeverPanics, TypeOK0
<1>20. ASSUME NEW c \in Closers, CloseChecksStarted(c) PROVE LockInv'
    BY <1>20 DEF CloseChecksStarted, LockInv, Closing, PublishNeverPanics, TypeOK0
<1>21. ASSUME NEW c \in Closers, CloseWaits(c) PROVE LockInv'
    BY <1>21 DEF CloseWaits, LockInv, Closing, PublishNeverPanics, TypeOK0
<1>22. ASSUME NEW c \in Closers, CloseDrains(c) PROVE LockInv'
    BY <1>22 DEF CloseDrains, LockInv, Closing, PublishNeverPanics, TypeOK0
<1>23. ASSUME NEW c \in Closers, CloseDrained(c) PROVE LockInv'
    BY <1>23 DEF CloseDrained, LockInv, Closing, PublishNeverPanics, TypeOK0
<1>24. ASSUME NEW c \in Closers, CloseTimesOut(c) PROVE LockInv'
    BY <1>24 DEF CloseTimesOut, LockInv, Closing, PublishNeverPanics, TypeOK0
<1> QED BY <1>1, <1>2, <1>3, <1>4, <1>5, <1>6, <1>7, <1>8, <1>9, <1>10, <1>11, <1>12,
           <1>13, <1>14, <1>15, <1>16, <1>17, <1>18, <1>19, <1>20, <1>21, <1>22, <1>23,
           <1>24
       DEF Next, SubscribeStep, PublishStep, WorkerStep, CloseStep

LEMMA LockInit == Init => LockInv
BY DEF Init, LockInv, Closing, PublishNeverPanics

\* No Publish sends on the closed channel, whatever it raced with.
THEOREM PublishIsSafe == Spec => []PublishNeverPanics
<1>1. PoolIInv /\ LockInv /\ [Next]_vars => (PoolIInv /\ LockInv)'
    BY TypeStep, RegisteredStep, PoolStep, CountStep, LockStep DEF PoolIInv
<1>2. LockInv => PublishNeverPanics
    BY DEF LockInv
<1> QED BY <1>1, <1>2, PoolInit, LockInit, PTL DEF Spec

-----------------------------------------------------------------------------
(* Strikes.                                                                *)

Running(l) == {w \in Workers : callee[w] = l}

StrikesLimit == MaxLeakCount + Cardinality(Workers) - 1

\* A worker that runs a listener may still add a strike to it.
StrikesInv == \A l \in Listeners : leakCount[l] + Cardinality(Running(l)) <= StrikesLimit

LEMMA RunningFinite ==
    \A l \in Listeners : /\ IsFiniteSet(Running(l))
                         /\ Cardinality(Running(l)) \in Nat
                         /\ Cardinality(Running(l)) <= Cardinality(Workers)
BY FS_Subset, FS_CardinalityType, EventBusAssumption DEF Running

LEMMA WorkersCounted == Cardinality(Workers) \in Nat /\ Cardinality(Workers) >= 1
BY FS_CardinalityType, FS_EmptySet, EventBusAssumption

LEMMA StrikesStep == TypeOK0 /\ HandInv /\ StrikesInv /\ [Next]_vars => StrikesInv'
<1> SUFFICES ASSUME TypeOK0, HandInv, StrikesInv, [Next]_vars PROVE StrikesInv'
    OBVIOUS
<1> USE DEF busVars, pubVars, closeVars, workerVars
<1>1. CASE UNCHANGED vars
    BY <1>1 DEF vars, StrikesInv, Running
<1>2. ASSUME NEW l \in Listeners, EnsureStarted(l) PROVE StrikesInv'
  <2>1. UNCHANGED <<leakCount, callee>>
    BY <1>2 DEF EnsureStarted
  <2> QED BY <2>1 DEF StrikesInv, Running
<1>3. ASSUME NEW l \in Listeners, LaunchWorkers(l) PROVE StrikesInv'
  <2>1. UNCHANGED <<leakCount, callee>>
    BY <1>3 DEF LaunchWorkers
  <2> QED BY <2>1 DEF StrikesInv, Running
<1>4. ASSUME NEW l \in Listeners, Register(l) PROVE StrikesInv'
  <2>1. UNCHANGED <<leakCount, callee>>
    BY <1>4 DEF Register
  <2> QED BY <2>1 DEF StrikesInv, Running
<1>5. ASSUME NEW l \in Listeners, Unsubscribe(l) PROVE StrikesInv'
  <2>1. UNCHANGED <<leakCount, callee>>
    BY <1>5 DEF Unsubscribe
  <2> QED BY <2>1 DEF StrikesInv, Running
<1>6. CASE Clear
  <2>1. UNCHANGED <<leakCount, callee>>
    BY <1>6 DEF Clear
  <2> QED BY <2>1 DEF StrikesInv, Running
<1>7. ASSUME NEW e \in Events, PublishStamps(e) PROVE StrikesInv'
  <2>1. UNCHANGED <<leakCount, callee>>
    BY <1>7 DEF PublishStamps
  <2> QED BY <2>1 DEF StrikesInv, Running
<1>8. ASSUME NEW e \in Events, PublishRefused(e) PROVE StrikesInv'
  <2>1. UNCHANGED <<leakCount, callee>>
    BY <1>8 DEF PublishRefused
  <2> QED BY <2>1 DEF StrikesInv, Running
<1>9. ASSUME NEW e \in Events, PublishSends(e) PROVE StrikesInv'
  <2>1. UNCHANGED <<leakCount, callee>>
    BY <1>9 DEF PublishSends
  <2> QED BY <2>1 DEF StrikesInv, Running
<1>10. ASSUME NEW w \in Workers, WorkerReceives(w) PROVE StrikesInv'
  <2>1. UNCHANGED <<leakCount, callee>>
    BY <1>10 DEF WorkerReceives
  <2> QED BY <2>1 DEF StrikesInv, Running
<1>11. ASSUME NEW w \in Workers, Dispatch(w) PROVE StrikesInv'
  <2>1. UNCHANGED <<leakCount, callee>>
    BY <1>11 DEF Dispatch
  <2> QED BY <2>1 DEF StrikesInv, Running
<1>12. ASSUME NEW w \in Workers, Dispatched(w) PROVE StrikesInv'
  <2>1. UNCHANGED <<leakCount, callee>>
    BY <1>12 DEF Dispatched
  <2> QED BY <2>1 DEF StrikesInv, Running
<1>13. ASSUME NEW w \in Workers, Invoke(w) PROVE StrikesInv'
  <2>1. PICK l \in Listeners : leakCount[l] < MaxLeakCount /\ callee' = [callee EXCEPT ![w] = l]
    BY <1>13 DEF Invoke, NextListener
  <2>2. ASSUME NEW k \in Listeners
        PROVE  leakCount'[k] + Cardinality(Running(k)') <= StrikesLimit
    <3>1. IsFiniteSet(Running(k)') /\ Cardinality(Running(k)') <= Cardinality(Workers)
      BY FS_Subset, EventBusAssumption DEF Running
    <3>2. CASE k = l
      <4>1. leakCount[k] \in Nat /\ leakCount'[k] = leakCount[k] /\ leakCount[k] < MaxLeakCount
        BY <1>13, <2>1, <3>2 DEF Invoke, TypeOK0
      <4>2. Cardinality(Running(k)') \in Nat
        BY <3>1, FS_CardinalityType
      <4> QED BY <3>1, <4>1, <4>2, WorkersCounted, EventBusAssumption DEF StrikesLimit
    <3>3. CASE k # l
      <4>1. callee[w] = NoListener
        BY <1>13 DEF Invoke, HandInv
      <4>2. Running(k)' = Running(k)
        BY <2>1, <3>3, <4>1, EventBusAssumption DEF Running, TypeOK0
      <4> QED BY <1>13, <4>2 DEF Invoke, StrikesInv
    <3> QED BY <3>2, <3>3
  <2>3. StrikesLimit' = StrikesLimit
    BY DEF StrikesLimit
  <2> QED BY <2>2, <2>3 DEF StrikesInv
<1>14. ASSUME NEW w \in Workers, SkipLeaking(w) PROVE StrikesInv'
  <2>1. UNCHANGED <<leakCount, callee>>
    BY <1>14 DEF SkipLeaking
  <2> QED BY <2>1 DEF StrikesInv, Running
<1>15. ASSUME NEW w \in Workers, ListenerTimesOut(w) PROVE StrikesInv'
  <2>1. callee[w] \in Listeners
    BY <1>15 DEF ListenerTimesOut, HandInv, TypeOK0
  <2>2. ASSUME NEW k \in Listeners
        PROVE  leakCount'[k] + Cardinality(Running(k)') <= StrikesLimit
    <3>1. CASE k = callee[w]
      <4>1. w \in Running(k) /\ Running(k)' = Running(k) \ {w}
        BY <1>15, <3>1, EventBusAssumption DEF ListenerTimesOut, Running, TypeOK0
      <4>2. Cardinality(Running(k)') = Cardinality(Running(k)) - 1
        BY <4>1, RunningFinite, FS_RemoveElement
      <4>3. leakCount'[k] = leakCount[k] + 1 /\ leakCount[k] \in Nat
        BY <1>15, <3>1 DEF ListenerTimesOut, TypeOK0
      <4> QED BY <4>2, <4>3, RunningFinite, WorkersCounted, EventBusAssumption
              DEF StrikesInv, StrikesLimit
    <3>2. CASE k # callee[w]
      <4>1. Running(k)' = Running(k)
        BY <1>15, <3>2, EventBusAssumption DEF ListenerTimesOut, Running, TypeOK0
      <4>2. leakCount'[k] = leakCount[k]
        BY <1>15, <3>2 DEF ListenerTimesOut, TypeOK0
      <4> QED BY <4>1, <4>2 DEF StrikesInv
    <3> QED BY <3>1, <3>2
  <2> QED BY <2>2 DEF StrikesInv, StrikesLimit
<1>16. ASSUME NEW w \in Workers, WorkerExits(w) PROVE StrikesInv'
  <2>1. UNCHANGED <<leakCount, callee>>
    BY <1>16 DEF WorkerExits
  <2> QED BY <2>1 DEF StrikesInv, Running
<1>17. ASSUME NEW w \in Workers, ListenerReturns(w) PROVE StrikesInv'
  <2>1. ASSUME NEW k \in Listeners
        PROVE  leakCount'[k] + Cardinality(Running(k)') <= StrikesLimit
    <3>1. Running(k)' \subseteq Running(k)
      BY <1>17, EventBusAssumption DEF ListenerReturns, Running, TypeOK0
    <3>2. Cardinality(Running(k)') \in Nat /\ Cardinality(Running(k)') <= Cardinality(Running(k))
      BY <3>1, RunningFinite, FS_Subset, FS_CardinalityType
    <3>3. leakCount'[k] = leakCount[k] /\ leakCount[k] \in Nat
      BY <1>17 DEF ListenerReturns, TypeOK0
    <3> QED BY <3>2, <3>3, RunningFinite, WorkersCounted, EventBusAssumption
            DEF StrikesInv, StrikesLimit
  <2> QED BY <2>1 DEF StrikesInv, StrikesLimit
<1>18. ASSUME NEW c \in Closers, CloseBegins(c) PROVE StrikesInv'
  <2>1. UNCHANGED <<leakCount, callee>>
    BY <1>18 DEF CloseBegins
  <2> QED BY <2>1 DEF StrikesInv, Running
<1>19. ASSUME NEW c \in Closers, CloseChannel(c) PROVE StrikesInv'
  <2>1. UNCHANGED <<leakCount, callee>>
    BY <1>19 DEF CloseChannel
  <2> QED BY <2>1 DEF StrikesInv, Running
<1>20. ASSUME NEW c \in Closers, CloseChecksStarted(c) PROVE StrikesInv'
  <2>1. UNCHANGED <<leakCount, callee>>
    BY <1>20 DEF CloseChecksStarted
  <2> QED BY <2>1 DEF StrikesInv, Running
<1>21. ASSUME NEW c \in Closers, CloseWaits(c) PROVE StrikesInv'
  <2>1. UNCHANGED <<leakCount, callee>>
    BY <1>21 DEF CloseWaits
  <2> QED BY <2>1 DEF StrikesInv, Running
<1>22. ASSUME NEW c \in Closers, CloseDrains(c) PROVE StrikesInv'
  <2>1. UNCHANGED <<leakCount, callee>>
    BY <1>22 DEF CloseDrains
  <2> QED BY <2>1 DEF StrikesInv, Running
<1>23. ASSUME NEW c \in Closers, CloseDrained(c) PROVE StrikesInv'
  <2>1. UNCHANGED <<leakCount, callee>>
    BY <1>23 DEF CloseDrained
  <2> QED BY <2>1 DEF StrikesInv, Running
<1>24. ASSUME NEW c \in Closers, CloseTimesOut(c) PROVE StrikesInv'
  <2>1. UNCHANGED <<leakCount, callee>>
    BY <1>24 DEF CloseTimesOut
  <2> QED BY <2>1 DEF StrikesInv, Running
<1> QED BY <1>1, <1>2, <1>3, <1>4, <1>5, <1>6, <1>7, <1>8, <1>9, <1>10, <1>11, <1>12,
           <1>13, <1>14, <1>15, <1>16, <1>17, <1>18, <1>19, <1>20, <1>21, <1>22, <1>23,
           <1>24
       DEF Next, SubscribeStep, PublishStep, WorkerStep, CloseStep

LEMMA StrikesInit == Init => StrikesInv
<1> SUFFICES ASSUME Init, NEW l \in Listeners
             PROVE  leakCount[l] + Cardinality(Running(l)) <= StrikesLimit
    BY DEF StrikesInv
<1>1. Running(l) = {}
    BY EventBusAssumption DEF Init, Running
<1>2. leakCount[l] = 0
    BY DEF Init
<1> QED BY <1>1, <1>2, FS_EmptySet, WorkersCounted, EventBusAssumption DEF StrikesLimit

\* A listener that hangs takes at most maxLeakCount strikes and one more from
\* each of the other workers, however their checks and timeouts interleave.
THEOREM StrikesAreBounded == Spec => []StrikesBounded
<1>1. PoolIInv /\ StrikesInv /\ [Next]_vars => (PoolIInv /\ StrikesInv)'
    BY TypeStep, RegisteredStep, PoolStep, CountStep, StrikesStep DEF PoolIInv
<1>2. PoolIInv /\ StrikesInv => StrikesBounded
  <2> SUFFICES ASSUME PoolIInv, StrikesInv, NEW l \in Listeners
               PROVE  leakCount[l] <= MaxLeakCount + Cardinality(Workers) - 1
    BY DEF StrikesBounded
  <2>1. leakCount[l] \in Nat
    BY DEF PoolIInv, TypeOK0
  <2> QED BY <2>1, RunningFinite, WorkersCounted, EventBusAssumption
          DEF StrikesInv, StrikesLimit
<1> QED BY <1>1, <1>2, PoolInit, StrikesInit, PTL DEF Spec

-----------------------------------------------------------------------------
(* Where an event is: nowhere before it is accepted, then once in the      *)
(* channel, then in the hand of one worker.                                *)

Queued(e) == \E i \in 1 .. Len(eventCh) : eventCh[i] = e

PlaceInv ==
    /\ \A e \in Events : pub[e] # "accepted" =>
          /\ ~Queued(e)
          /\ \A w \in Workers : hand[w] # e
          /\ \A l \in Listeners : calls[l][e] = 0
    /\ \A i, j \in 1 .. Len(eventCh) : eventCh[i] = eventCh[j] => i = j
    /\ \A e \in Events : Queued(e) =>
          /\ \A w \in Workers : hand[w] # e
          /\ \A l \in Listeners : calls[l][e] = 0
    /\ \A w, v \in Workers : hand[w] = hand[v] /\ hand[w] # NoEvent => w = v

\* A listener still to be invoked with an event has not been invoked with it.
TurnInv ==
    \A w \in Workers :
        /\ worker[w] = "dispatch" => \A l \in Listeners : calls[l][hand[w]] = 0
        /\ \A l \in todo[w] : calls[l][hand[w]] = 0

\* Taking the head of the channel: the queue is one event shorter.
LEMMA Dequeue ==
    ASSUME TypeOK0, PlaceInv, eventCh # <<>>, eventCh' = Tail(eventCh)
    PROVE  /\ Head(eventCh) \in Events
           /\ Queued(Head(eventCh))
           /\ \A e \in Events : Queued(e)' <=> Queued(e) /\ e # Head(eventCh)
           /\ \A i, j \in 1 .. Len(eventCh') : eventCh'[i] = eventCh'[j] => i = j
<1>1. /\ eventCh \in Seq(Events) /\ Len(eventCh) \in Nat /\ Len(eventCh) > 0
      /\ Head(eventCh) = eventCh[1]
      /\ Len(eventCh') = Len(eventCh) - 1
      /\ \A i \in 1 .. Len(eventCh') : eventCh'[i] = eventCh[i + 1]
    BY DEF TypeOK0
<1>2. Head(eventCh) \in Events /\ Queued(Head(eventCh))
    BY <1>1 DEF Queued
<1>3. ASSUME NEW e \in Events PROVE Queued(e)' <=> Queued(e) /\ e # Head(eventCh)
  <2>1. ASSUME Queued(e)' PROVE Queued(e) /\ e # Head(eventCh)
    <3>1. PICK i \in 1 .. Len(eventCh') : eventCh'[i] = e
      BY <2>1 DEF Queued
    <3>2. i + 1 \in 1 .. Len(eventCh) /\ i + 1 # 1 /\ 1 \in 1 .. Len(eventCh) /\ eventCh[i + 1] = e
      BY <1>1, <3>1
    <3> QED BY <1>1, <3>2 DEF Queued, PlaceInv
  <2>2. ASSUME Queued(e), e # Head(eventCh) PROVE Queued(e)'
    <3>1. PICK i \in 1 .. Len(eventCh) : eventCh[i] = e
      BY <2>2 DEF Queued
    <3>2. i - 1 \in 1 .. Len(eventCh') /\ eventCh'[i - 1] = e
      BY <1>1, <2>2, <3>1
    <3> QED BY <3>2 DEF Queued
  <2> QED BY <2>1, <2>2
<1>4. ASSUME NEW i \in 1 .. Len(eventCh'), NEW j \in 1 .. Len(eventCh'), eventCh'[i] = eventCh'[j]
      PROVE  i = j
  <2>1. i + 1 \in 1 .. Len(eventCh) /\ j + 1 \in 1 .. Len(eventCh) /\ eventCh[i + 1] = eventCh[j + 1]
    BY <1>1, <1>4
  <2> QED BY <2>1 DEF PlaceInv
<1> QED BY <1>2, <1>3, <1>4

\* Appending an event that is not queued.
LEMMA Enqueue ==
    ASSUME TypeOK0, PlaceInv, NEW x \in Events, ~Queued(x), eventCh' = Append(eventCh, x)
    PROVE  /\ \A e \in Events : Queued(e)' <=> Queued(e) \/ e = x
           /\ \A i, j \in 1 .. Len(eventCh') : eventCh'[i] = eventCh'[j] => i = j
<1>1. /\ eventCh \in Seq(Events) /\ Len(eventCh) \in Nat
      /\ Len(eventCh') = Len(eventCh) + 1
      /\ \A i \in 1 .. Len(eventCh) : eventCh'[i] = eventCh[i]
      /\ eventCh'[Len(eventCh) + 1] = x
    BY DEF TypeOK0
<1>2. ASSUME NEW e \in Events PROVE Queued(e)' <=> Queued(e) \/ e = x
  <2>1. ASSUME Queued(e)' PROVE Queued(e) \/ e = x
    <3>1. PICK i \in 1 .. Len(eventCh') : eventCh'[i] = e
      BY <2>1 DEF Queued
    <3>2. i \in 1 .. Len(eventCh) \/ i = Len(eventCh) + 1
      BY <1>1, <3>1
    <3> QED BY <1>1, <3>1, <3>2 DEF Queued
  <2>2. ASSUME Queued(e) PROVE Queued(e)'
    <3>1. PICK i \in 1 .. Len(eventCh) : eventCh[i] = e
      BY <2>2 DEF Queued
    <3>2. i \in 1 .. Len(eventCh')
      BY <1>1
    <3> QED BY <1>1, <3>1, <3>2 DEF Queued
  <2>3. Queued(x)'
    BY <1>1 DEF Queued
  <2> QED BY <2>1, <2>2, <2>3
<1>3. ASSUME NEW i \in 1 .. Len(eventCh'), NEW j \in 1 .. Len(eventCh'), eventCh'[i] = eventCh'[j]
      PROVE  i = j
  <2>1. i \in 1 .. Len(eventCh) \/ i = Len(eventCh) + 1
    BY <1>1
  <2>2. j \in 1 .. Len(eventCh) \/ j = Len(eventCh) + 1
    BY <1>1
  <2> QED BY <1>1, <1>3, <2>1, <2>2 DEF Queued, PlaceInv
<1> QED BY <1>2, <1>3

LEMMA PlaceStep == TypeOK0 /\ HandInv /\ PlaceInv /\ [Next]_vars => PlaceInv'
<1> SUFFICES ASSUME TypeOK0, HandInv, PlaceInv, [Next]_vars PROVE PlaceInv'
    OBVIOUS
<1> USE DEF busVars, pubVars, closeVars, workerVars
<1>1. CASE UNCHANGED vars
    BY <1>1 DEF vars, PlaceInv, Queued
<1>2. ASSUME NEW l \in Listeners, EnsureStarted(l) PROVE PlaceInv'
  <2>1. UNCHANGED <<eventCh, hand, calls>> /\ \A x \in Events : pub'[x] # "accepted" => pub[x] # "accepted"
    BY <1>2 DEF EnsureStarted, TypeOK0
  <2> QED BY <2>1 DEF PlaceInv, Queued
<1>3. ASSUME NEW l \in Listeners, LaunchWorkers(l) PROVE PlaceInv'
  <2>1. UNCHANGED <<eventCh, hand, calls>> /\ \A x \in Events : pub'[x] # "accepted" => pub[x] # "accepted"
    BY <1>3 DEF LaunchWorkers, TypeOK0
  <2> QED BY <2>1 DEF PlaceInv, Queued
<1>4. ASSUME NEW l \in Listeners, Register(l) PROVE PlaceInv'
  <2>1. UNCHANGED <<eventCh, hand, calls>> /\ \A x \in Events : pub'[x] # "accepted" => pub[x] # "accepted"
    BY <1>4 DEF Register, TypeOK0
  <2> QED BY <2>1 DEF PlaceInv, Queued
<1>5. ASSUME NEW l \in Listeners, Unsubscribe(l) PROVE PlaceInv'
  <2>1. UNCHANGED <<eventCh, hand, calls>> /\ \A x \in Events : pub'[x] # "accepted" => pub[x] # "accepted"
    BY <1>5 DEF Unsubscribe, TypeOK0
  <2> QED BY <2>1 DEF PlaceInv, Queued
<1>6. CASE Clear
  <2>1. UNCHANGED <<eventCh, hand, calls>> /\ \A x \in Events : pub'[x] # "accepted" => pub[x] # "accepted"
    BY <1>6 DEF Clear, TypeOK0
  <2> QED BY <2>1 DEF PlaceInv, Queued
<1>7. ASSUME NEW e \in Events, PublishStamps(e) PROVE PlaceInv'
  <2>1. UNCHANGED <<eventCh, hand, calls>> /\ \A x \in Events : pub'[x] # "accepted" => pub[x] # "accepted"
    BY <1>7 DEF PublishStamps, TypeOK0
  <2> QED BY <2>1 DEF PlaceInv, Queued
<1>8. ASSUME NEW e \in Events, PublishRefused(e) PROVE PlaceInv'
  <2>1. UNCHANGED <<eventCh, hand, calls>> /\ \A x \in Events : pub'[x] # "accepted" => pub[x] # "accepted"
    BY <1>8 DEF PublishRefused, TypeOK0
  <2> QED BY <2>1 DEF PlaceInv, Queued
<1>9. ASSUME NEW e \in Events, PublishSends(e) PROVE PlaceInv'
  <2>1. CASE pub'[e] # "accepted"
    <3>1. UNCHANGED <<eventCh, hand, calls>> /\ \A x \in Events : pub'[x] # "accepted" => pub[x] # "accepted"
      BY <1>9, <2>1 DEF PublishSends, TypeOK0
    <3> QED BY <3>1 DEF PlaceInv, Queued
  <2>2. CASE pub'[e] = "accepted"
    <3>1. eventCh' = Append(eventCh, e) /\ UNCHANGED <<hand, calls>> /\ pub[e] # "accepted"
      BY <1>9, <2>2 DEF PublishSends
    <3>2. \A x \in Events : pub'[x] # "accepted" => pub[x] # "accepted" /\ x # e
      BY <1>9, <2>2 DEF PublishSends, TypeOK0
    <3>3. ~Queued(e)
      BY <3>1 DEF PlaceInv
    <3>4. /\ \A x \in Events : Queued(x)' <=> Queued(x) \/ x = e
          /\ \A i, j \in 1 .. Len(eventCh') : eventCh'[i] = eventCh'[j] => i = j
      BY <3>1, <3>3, Enqueue
    <3> QED BY <3>1, <3>2, <3>4 DEF PlaceInv
  <2> QED BY <2>1, <2>2
<1>10. ASSUME NEW w \in Workers, WorkerReceives(w) PROVE PlaceInv'
  <2>1. /\ Head(eventCh) \in Events /\ Queued(Head(eventCh))
        /\ \A e \in Events : Queued(e)' <=> Queued(e) /\ e # Head(eventCh)
        /\ \A i, j \in 1 .. Len(eventCh') : eventCh'[i] = eventCh'[j] => i = j
    BY <1>10, Dequeue DEF WorkerReceives
  <2>2. UNCHANGED <<pub, calls>>
    BY <1>10 DEF WorkerReceives
  <2>3. \A v \in Workers : hand'[v] = IF v = w THEN Head(eventCh) ELSE hand[v]
    BY <1>10 DEF WorkerReceives, TypeOK0
  <2>4. \A e \in Events : pub'[e] # "accepted" =>
          ~Queued(e)' /\ (\A v \in Workers : hand'[v] # e) /\ \A l \in Listeners : calls'[l][e] = 0
    BY <2>1, <2>2, <2>3 DEF PlaceInv
  <2>5. \A e \in Events : Queued(e)' =>
          (\A v \in Workers : hand'[v] # e) /\ \A l \in Listeners : calls'[l][e] = 0
    BY <2>1, <2>2, <2>3 DEF PlaceInv
  <2>6. \A u, v \in Workers : hand'[u] = hand'[v] /\ hand'[u] # NoEvent => u = v
    BY <2>1, <2>3 DEF PlaceInv
  <2> QED BY <2>1, <2>4, <2>5, <2>6 DEF PlaceInv
<1>11. ASSUME NEW w \in Workers, Dispatch(w) PROVE PlaceInv'
  <2>1. UNCHANGED <<eventCh, hand, calls>> /\ \A x \in Events : pub'[x] # "accepted" => pub[x] # "accepted"
    BY <1>11 DEF Dispatch, TypeOK0
  <2> QED BY <2>1 DEF PlaceInv, Queued
<1>12. ASSUME NEW w \in Workers, Dispatched(w) PROVE PlaceInv'
  <2>1. UNCHANGED <<eventCh, calls, pub>> /\ \A v \in Workers : hand'[v] = IF v = w THEN NoEvent ELSE hand[v]
    BY <1>12 DEF Dispatched, TypeOK0
  <2> QED BY <2>1, EventBusAssumption DEF PlaceInv, Queued
<1>13. ASSUME NEW w \in Workers, Invoke(w) PROVE PlaceInv'
  <2>1. UNCHANGED <<eventCh, hand, pub>> /\ hand[w] \in Events
    BY <1>13 DEF Invoke, HandInv, TypeOK0
  <2>2. \A l \in Listeners, e \in Events : e # hand[w] => calls'[l][e] = calls[l][e]
    BY <1>13 DEF Invoke, TypeOK0
  <2>3. pub[hand[w]] = "accepted" /\ ~Queued(hand[w])
    BY <2>1 DEF PlaceInv
  <2> QED BY <2>1, <2>2, <2>3 DEF PlaceInv, Queued
<1>14. ASSUME NEW w \in Workers, SkipLeaking(w) PROVE PlaceInv'
  <2>1. UNCHANGED <<eventCh, hand, calls>> /\ \A x \in Events : pub'[x] # "accepted" => pub[x] # "accepted"
    BY <1>14 DEF SkipLeaking, TypeOK0
  <2> QED BY <2>1 DEF PlaceInv, Queued
<1>15. ASSUME NEW w \in Workers, ListenerTimesOut(w) PROVE PlaceInv'
  <2>1. UNCHANGED <<eventCh, hand, calls>> /\ \A x \in Events : pub'[x] # "accepted" => pub[x] # "accepted"
    BY <1>15 DEF ListenerTimesOut, TypeOK0
  <2> QED BY <2>1 DEF PlaceInv, Queued
<1>16. ASSUME NEW w \in Workers, WorkerExits(w) PROVE PlaceInv'
  <2>1. UNCHANGED <<eventCh, hand, calls>> /\ \A x \in Events : pub'[x] # "accepted" => pub[x] # "accepted"
    BY <1>16 DEF WorkerExits, TypeOK0
  <2> QED BY <2>1 DEF PlaceInv, Queued
<1>17. ASSUME NEW w \in Workers, ListenerReturns(w) PROVE PlaceInv'
  <2>1. UNCHANGED <<eventCh, hand, calls>> /\ \A x \in Events : pub'[x] # "accepted" => pub[x] # "accepted"
    BY <1>17 DEF ListenerReturns, TypeOK0
  <2> QED BY <2>1 DEF PlaceInv, Queued
<1>18. ASSUME NEW c \in Closers, CloseBegins(c) PROVE PlaceInv'
  <2>1. UNCHANGED <<eventCh, hand, calls>> /\ \A x \in Events : pub'[x] # "accepted" => pub[x] # "accepted"
    BY <1>18 DEF CloseBegins, TypeOK0
  <2> QED BY <2>1 DEF PlaceInv, Queued
<1>19. ASSUME NEW c \in Closers, CloseChannel(c) PROVE PlaceInv'
  <2>1. UNCHANGED <<eventCh, hand, calls>> /\ \A x \in Events : pub'[x] # "accepted" => pub[x] # "accepted"
    BY <1>19 DEF CloseChannel, TypeOK0
  <2> QED BY <2>1 DEF PlaceInv, Queued
<1>20. ASSUME NEW c \in Closers, CloseChecksStarted(c) PROVE PlaceInv'
  <2>1. UNCHANGED <<eventCh, hand, calls>> /\ \A x \in Events : pub'[x] # "accepted" => pub[x] # "accepted"
    BY <1>20 DEF CloseChecksStarted, TypeOK0
  <2> QED BY <2>1 DEF PlaceInv, Queued
<1>21. ASSUME NEW c \in Closers, CloseWaits(c) PROVE PlaceInv'
  <2>1. UNCHANGED <<eventCh, hand, calls>> /\ \A x \in Events : pub'[x] # "accepted" => pub[x] # "accepted"
    BY <1>21 DEF CloseWaits, TypeOK0
  <2> QED BY <2>1 DEF PlaceInv, Queued
<1>22. ASSUME NEW c \in Closers, CloseDrains(c) PROVE PlaceInv'
  <2>1. /\ \A e \in Events : Queued(e)' <=> Queued(e) /\ e # Head(eventCh)
        /\ \A i, j \in 1 .. Len(eventCh') : eventCh'[i] = eventCh'[j] => i = j
    BY <1>22, Dequeue DEF CloseDrains
  <2>2. UNCHANGED <<pub, calls, hand>>
    BY <1>22 DEF CloseDrains
  <2> QED BY <2>1, <2>2 DEF PlaceInv
<1>23. ASSUME NEW c \in Closers, CloseDrained(c) PROVE PlaceInv'
  <2>1. UNCHANGED <<eventCh, hand, calls>> /\ \A x \in Events : pub'[x] # "accepted" => pub[x] # "accepted"
    BY <1>23 DEF CloseDrained, TypeOK0
  <2> QED BY <2>1 DEF PlaceInv, Queued
<1>24. ASSUME NEW c \in Closers, CloseTimesOut(c) PROVE PlaceInv'
  <2>1. UNCHANGED <<eventCh, hand, calls>> /\ \A x \in Events : pub'[x] # "accepted" => pub[x] # "accepted"
    BY <1>24 DEF CloseTimesOut, TypeOK0
  <2> QED BY <2>1 DEF PlaceInv, Queued
<1> QED BY <1>1, <1>2, <1>3, <1>4, <1>5, <1>6, <1>7, <1>8, <1>9, <1>10, <1>11, <1>12,
           <1>13, <1>14, <1>15, <1>16, <1>17, <1>18, <1>19, <1>20, <1>21, <1>22, <1>23,
           <1>24
       DEF Next, SubscribeStep, PublishStep, WorkerStep, CloseStep

LEMMA TurnStep == TypeOK0 /\ HandInv /\ PoolInv /\ PlaceInv /\ TurnInv /\ [Next]_vars => TurnInv'
<1> SUFFICES ASSUME TypeOK0, HandInv, PoolInv, PlaceInv, TurnInv, [Next]_vars PROVE TurnInv'
    OBVIOUS
<1> USE DEF busVars, pubVars, closeVars, workerVars
<1>1. CASE UNCHANGED vars
    BY <1>1 DEF vars, TurnInv
<1>2. ASSUME NEW l \in Listeners, EnsureStarted(l) PROVE TurnInv'
    BY <1>2 DEF EnsureStarted, TurnInv, TypeOK0, HandInv
<1>3. ASSUME NEW l \in Listeners, LaunchWorkers(l) PROVE TurnInv'
    BY <1>3 DEF LaunchWorkers, TurnInv, TypeOK0, HandInv, PoolInv
<1>4. ASSUME NEW l \in Listeners, Register(l) PROVE TurnInv'
    BY <1>4 DEF Register, TurnInv, TypeOK0, HandInv
<1>5. ASSUME NEW l \in Listeners, Unsubscribe(l) PROVE TurnInv'
    BY <1>5 DEF Unsubscribe, TurnInv, TypeOK0, HandInv
<1>6. CASE Clear
    BY <1>6 DEF Clear, TurnInv, TypeOK0, HandInv
<1>7. ASSUME NEW e \in Events, PublishStamps(e) PROVE TurnInv'
    BY <1>7 DEF PublishStamps, TurnInv, TypeOK0, HandInv
<1>8. ASSUME NEW e \in Events, PublishRefused(e) PROVE TurnInv'
    BY <1>8 DEF PublishRefused, TurnInv, TypeOK0, HandInv
<1>9. ASSUME NEW e \in Events, PublishSends(e) PROVE TurnInv'
    BY <1>9 DEF PublishSends, TurnInv, TypeOK0, HandInv
<1>10. ASSUME NEW w \in Workers, WorkerReceives(w) PROVE TurnInv'
  <2>1. Head(eventCh) \in Events /\ Queued(Head(eventCh))
    BY <1>10, Dequeue DEF WorkerReceives
  <2>2. \A l \in Listeners : calls[l][Head(eventCh)] = 0
    BY <2>1 DEF PlaceInv
  <2>3. todo[w] = {}
    BY <1>10 DEF WorkerReceives, HandInv
  <2>4. UNCHANGED <<todo, calls>>
    BY <1>10 DEF WorkerReceives
  <2>5. \A v \in Workers : /\ hand'[v] = IF v = w THEN Head(eventCh) ELSE hand[v]
                           /\ v # w => worker'[v] = worker[v]
    BY <1>10 DEF WorkerReceives, TypeOK0
  <2> QED BY <2>2, <2>3, <2>4, <2>5 DEF TurnInv
<1>11. ASSUME NEW w \in Workers, Dispatch(w) PROVE TurnInv'
    BY <1>11 DEF Dispatch, TurnInv, TypeOK0, HandInv
<1>12. ASSUME NEW w \in Workers, Dispatched(w) PROVE TurnInv'
    BY <1>12 DEF Dispatched, TurnInv, TypeOK0, HandInv
<1>13. ASSUME NEW w \in Workers, Invoke(w) PROVE TurnInv'
  <2>1. PICK l \in Listeners : /\ NextListener(w, l)
                               /\ todo' = [todo EXCEPT ![w] = todo[w] \ {l}]
                               /\ calls' = [calls EXCEPT ![l][hand[w]] = calls[l][hand[w]] + 1]
    BY <1>13 DEF Invoke
  <2>2. UNCHANGED hand /\ worker[w] = "invoke" /\ hand[w] \in Events
    BY <1>13 DEF Invoke, HandInv, TypeOK0
  <2>3. ASSUME NEW v \in Workers, v # w, NEW k \in Listeners PROVE calls'[k][hand[v]] = calls[k][hand[v]]
    <3>1. hand[v] # hand[w]
      BY <2>2, <2>3, EventBusAssumption DEF PlaceInv
    <3> QED BY <2>1, <3>1 DEF TypeOK0
  <2>4. ASSUME NEW v \in Workers, v # w
        PROVE  /\ worker'[v] = "dispatch" => \A k \in Listeners : calls'[k][hand'[v]] = 0
               /\ \A k \in todo'[v] : calls'[k][hand'[v]] = 0
    <3>1. worker'[v] = worker[v] /\ todo'[v] = todo[v] /\ todo[v] \subseteq Listeners
      BY <1>13, <2>1, <2>4 DEF Invoke, TypeOK0
    <3> QED BY <2>2, <2>3, <2>4, <3>1 DEF TurnInv
  <2>5. worker'[w] = "running" /\ \A k \in todo'[w] : calls'[k][hand'[w]] = 0
    BY <1>13, <2>1, <2>2 DEF Invoke, TurnInv, TypeOK0
  <2> QED BY <2>4, <2>5 DEF TurnInv
<1>14. ASSUME NEW w \in Workers, SkipLeaking(w) PROVE TurnInv'
    BY <1>14 DEF SkipLeaking, TurnInv, TypeOK0, HandInv
<1>15. ASSUME NEW w \in Workers, ListenerTimesOut(w) PROVE TurnInv'
    BY <1>15 DEF ListenerTimesOut, TurnInv, TypeOK0, HandInv
<1>16. ASSUME NEW w \in Workers, WorkerExits(w) PROVE TurnInv'
    BY <1>16 DEF WorkerExits, TurnInv, TypeOK0, HandInv
<1>17. ASSUME NEW w \in Workers, ListenerReturns(w) PROVE TurnInv'
    BY <1>17 DEF ListenerReturns, TurnInv, TypeOK0, HandInv
<1>18. ASSUME NEW c \in Closers, CloseBegins(c) PROVE TurnInv'
    BY <1>18 DEF CloseBegins, TurnInv, TypeOK0, HandInv
<1>19. ASSUME NEW c \in Closers, CloseChannel(c) PROVE TurnInv'
    BY <1>19 DEF CloseChannel, TurnInv, TypeOK0, HandInv
<1>20. ASSUME NEW c \in Closers, CloseChecksStarted(c) PROVE TurnInv'
    BY <1>20 DEF CloseChecksStarted, TurnInv, TypeOK0, HandInv
<1>21. ASSUME NEW c \in Closers, CloseWaits(c) PROVE TurnInv'
    BY <1>21 DEF CloseWaits, TurnInv, TypeOK0, HandInv
<1>22. ASSUME NEW c \in Closers, CloseDrains(c) PROVE TurnInv'
    BY <1>22 DEF CloseDrains, TurnInv, TypeOK0, HandInv
<1>23. ASSUME NEW c \in Closers, CloseDrained(c) PROVE TurnInv'
    BY <1>23 DEF CloseDrained, TurnInv, TypeOK0, HandInv
<1>24. ASSUME NEW c \in Closers, CloseTimesOut(c) PROVE TurnInv'
    BY <1>24 DEF CloseTimesOut, TurnInv, TypeOK0, HandInv
<1> QED BY <1>1, <1>2, <1>3, <1>4, <1>5, <1>6, <1>7, <1>8, <1>9, <1>10, <1>11, <1>12,
           <1>13, <1>14, <1>15, <1>16, <1>17, <1>18, <1>19, <1>20, <1>21, <1>22, <1>23,
           <1>24
       DEF Next, SubscribeStep, PublishStep, WorkerStep, CloseStep

LEMMA OneCallStep == TypeOK0 /\ HandInv /\ TurnInv /\ OneCallPerEvent /\ [Next]_vars => OneCallPerEvent'
<1> SUFFICES ASSUME TypeOK0, HandInv, TurnInv, OneCallPerEvent, [Next]_vars PROVE OneCallPerEvent'
    OBVIOUS
<1> USE DEF busVars, pubVars, closeVars, workerVars
<1>1. CASE UNCHANGED vars
    BY <1>1 DEF vars, OneCallPerEvent
<1>2. ASSUME NEW l \in Listeners, EnsureStarted(l) PROVE OneCallPerEvent'
    BY <1>2 DEF EnsureStarted, OneCallPerEvent
<1>3. ASSUME NEW l \in Listeners, LaunchWorkers(l) PROVE OneCallPerEvent'
    BY <1>3 DEF LaunchWorkers, OneCallPerEvent
<1>4. ASSUME NEW l \in Listeners, Register(l) PROVE OneCallPerEvent'
    BY <1>4 DEF Register, OneCallPerEvent
<1>5. ASSUME NEW l \in Listeners, Unsubscribe(l) PROVE OneCallPerEvent'
    BY <1>5 DEF Unsubscribe, OneCallPerEvent
<1>6. CASE Clear
    BY <1>6 DEF Clear, OneCallPerEvent
<1>7. ASSUME NEW e \in Events, PublishStamps(e) PROVE OneCallPerEvent'
    BY <1>7 DEF PublishStamps, OneCallPerEvent
<1>8. ASSUME NEW e \in Events, PublishRefused(e) PROVE OneCallPerEvent'
    BY <1>8 DEF PublishRefused, OneCallPerEvent
<1>9. ASSUME NEW e \in Events, PublishSends(e) PROVE OneCallPerEvent'
    BY <1>9 DEF PublishSends, OneCallPerEvent
<1>10. ASSUME NEW w \in Workers, WorkerReceives(w) PROVE OneCallPerEvent'
    BY <1>10 DEF WorkerReceives, OneCallPerEvent
<1>11. ASSUME NEW w \in Workers, Dispatch(w) PROVE OneCallPerEvent'
    BY <1>11 DEF Dispatch, OneCallPerEvent
<1>12. ASSUME NEW w \in Workers, Dispatched(w) PROVE OneCallPerEvent'
    BY <1>12 DEF Dispatched, OneCallPerEvent
<1>13. ASSUME NEW w \in Workers, Invoke(w) PROVE OneCallPerEvent'
  <2>1. PICK l \in Listeners : l \in todo[w] /\ calls' = [calls EXCEPT ![l][hand[w]] = calls[l][hand[w]] + 1]
    BY <1>13 DEF Invoke, NextListener
  <2>2. hand[w] \in Events /\ calls[l][hand[w]] = 0
    BY <1>13, <2>1 DEF Invoke, HandInv, TurnInv, TypeOK0
  <2> QED BY <2>1, <2>2 DEF OneCallPerEvent, TypeOK0
<1>14. ASSUME NEW w \in Workers, SkipLeaking(w) PROVE OneCallPerEvent'
    BY <1>14 DEF SkipLeaking, OneCallPerEvent
<1>15. ASSUME NEW w \in Workers, ListenerTimesOut(w) PROVE OneCallPerEvent'
    BY <1>15 DEF ListenerTimesOut, OneCallPerEvent
<1>16. ASSUME NEW w \in Workers, WorkerExits(w) PROVE OneCallPerEvent'
    BY <1>16 DEF WorkerExits, OneCallPerEvent
<1>17. ASSUME NEW w \in Workers, ListenerReturns(w) PROVE OneCallPerEvent'
    BY <1>17 DEF ListenerReturns, OneCallPerEvent
<1>18. ASSUME NEW c \in Closers, CloseBegins(c) PROVE OneCallPerEvent'
    BY <1>18 DEF CloseBegins, OneCallPerEvent
<1>19. ASSUME NEW c \in Closers, CloseChannel(c) PROVE OneCallPerEvent'
    BY <1>19 DEF CloseChannel, OneCallPerEvent
<1>20. ASSUME NEW c \in Closers, CloseChecksStarted(c) PROVE OneCallPerEvent'
    BY <1>20 DEF CloseChecksStarted, OneCallPerEvent
<1>21. ASSUME NEW c \in Closers, CloseWaits(c) PROVE OneCallPerEvent'
    BY <1>21 DEF CloseWaits, OneCallPerEvent
<1>22. ASSUME NEW c \in Closers, CloseDrains(c) PROVE OneCallPerEvent'
    BY <1>22 DEF CloseDrains, OneCallPerEvent
<1>23. ASSUME NEW c \in Closers, CloseDrained(c) PROVE OneCallPerEvent'
    BY <1>23 DEF CloseDrained, OneCallPerEvent
<1>24. ASSUME NEW c \in Closers, CloseTimesOut(c) PROVE OneCallPerEvent'
    BY <1>24 DEF CloseTimesOut, OneCallPerEvent
<1> QED BY <1>1, <1>2, <1>3, <1>4, <1>5, <1>6, <1>7, <1>8, <1>9, <1>10, <1>11, <1>12,
           <1>13, <1>14, <1>15, <1>16, <1>17, <1>18, <1>19, <1>20, <1>21, <1>22, <1>23,
           <1>24
       DEF Next, SubscribeStep, PublishStep, WorkerStep, CloseStep

DeliveryIInv == PoolIInv /\ LockInv /\ PlaceInv /\ TurnInv

LEMMA DeliveryInit == Init => DeliveryIInv /\ OneCallPerEvent
<1> SUFFICES ASSUME Init PROVE DeliveryIInv /\ OneCallPerEvent
    OBVIOUS
<1>1. PlaceInv
    BY EventBusAssumption DEF Init, PlaceInv, Queued
<1>2. TurnInv
    BY DEF Init, TurnInv
<1>3. OneCallPerEvent
    BY DEF Init, OneCallPerEvent
<1> QED BY <1>1, <1>2, <1>3, PoolInit, LockInit DEF DeliveryIInv

LEMMA DeliveryStep == DeliveryIInv /\ [Next]_vars => DeliveryIInv'
BY TypeStep, RegisteredStep, PoolStep, CountStep, LockStep, PlaceStep, TurnStep
   DEF DeliveryIInv, PoolIInv

\* No listener is invoked twice with an event.
THEOREM CallsAreUnique == Spec => []OneCallPerEvent
<1>1. DeliveryIInv /\ OneCallPerEvent /\ [Next]_vars => (DeliveryIInv /\ OneCallPerEvent)'
    BY DeliveryStep, OneCallStep DEF DeliveryIInv, PoolIInv
<1> QED BY <1>1, DeliveryInit, PTL DEF Spec

-----------------------------------------------------------------------------
(* Unsubscription.                                                         *)

\* An event enqueued after l was removed never comes near l.
SilentInv ==
    \A l \in Listeners, e \in Events : audience[e][l] = "off" =>
        /\ subscription[l] = "off"
        /\ calls[l][e] = 0
        /\ \A w \in Workers : hand[w] = e => l \notin todo[w]

LEMMA SilentStep == TypeOK0 /\ HandInv /\ RegisteredInv /\ PlaceInv /\ SilentInv /\ [Next]_vars => SilentInv'
<1> SUFFICES ASSUME TypeOK0, HandInv, RegisteredInv, PlaceInv, SilentInv, [Next]_vars PROVE SilentInv'
    OBVIOUS
<1> USE DEF busVars, pubVars, closeVars, workerVars
<1>1. CASE UNCHANGED vars
    BY <1>1 DEF vars, SilentInv
<1>2. ASSUME NEW l \in Listeners, EnsureStarted(l) PROVE SilentInv'
    BY <1>2 DEF EnsureStarted, SilentInv, TypeOK0
<1>3. ASSUME NEW l \in Listeners, LaunchWorkers(l) PROVE SilentInv'
    BY <1>3 DEF LaunchWorkers, SilentInv, TypeOK0
<1>4. ASSUME NEW l \in Listeners, Register(l) PROVE SilentInv'
    BY <1>4 DEF Register, SilentInv, TypeOK0
<1>5. ASSUME NEW l \in Listeners, Unsubscribe(l) PROVE SilentInv'
    BY <1>5 DEF Unsubscribe, SilentInv, TypeOK0
<1>6. CASE Clear
    BY <1>6 DEF Clear, SilentInv, RegisteredInv, TypeOK0
<1>7. ASSUME NEW e \in Events, PublishStamps(e) PROVE SilentInv'
    BY <1>7 DEF PublishStamps, SilentInv, TypeOK0
<1>8. ASSUME NEW e \in Events, PublishRefused(e) PROVE SilentInv'
    BY <1>8 DEF PublishRefused, SilentInv, TypeOK0
<1>9. ASSUME NEW e \in Events, PublishSends(e) PROVE SilentInv'
  <2>1. CASE pub'[e] # "accepted"
    BY <1>9, <2>1 DEF PublishSends, SilentInv, TypeOK0
  <2>2. CASE pub'[e] = "accepted"
    <3>1. /\ UNCHANGED <<subscription, calls, hand, todo>> /\ pub[e] # "accepted"
          /\ audience' = [audience EXCEPT ![e] = subscription]
      BY <1>9, <2>2 DEF PublishSends, TypeOK0
    <3>2. (\A l \in Listeners : calls[l][e] = 0) /\ \A w \in Workers : hand[w] # e
      BY <3>1 DEF PlaceInv
    <3> QED BY <3>1, <3>2 DEF SilentInv, TypeOK0
  <2> QED BY <2>1, <2>2
<1>10. ASSUME NEW w \in Workers, WorkerReceives(w) PROVE SilentInv'
  <2>1. todo[w] = {} /\ UNCHANGED <<subscription, audience, calls, todo>>
    BY <1>10 DEF WorkerReceives, HandInv
  <2>2. \A v \in Workers : v # w => hand'[v] = hand[v]
    BY <1>10 DEF WorkerReceives, TypeOK0
  <2> QED BY <2>1, <2>2 DEF SilentInv
<1>11. ASSUME NEW w \in Workers, Dispatch(w) PROVE SilentInv'
  <2>1. UNCHANGED <<subscription, audience, calls, hand>>
    BY <1>11 DEF Dispatch
  <2>2. \A v \in Workers : todo'[v] \subseteq IF v = w THEN registered ELSE todo[v]
    BY <1>11 DEF Dispatch, TypeOK0
  <2> QED BY <2>1, <2>2 DEF SilentInv, RegisteredInv
<1>12. ASSUME NEW w \in Workers, Dispatched(w) PROVE SilentInv'
  <2>1. UNCHANGED <<subscription, audience, calls, todo>>
    BY <1>12 DEF Dispatched
  <2>2. \A v \in Workers : hand'[v] = IF v = w THEN NoEvent ELSE hand[v]
    BY <1>12 DEF Dispatched, TypeOK0
  <2> QED BY <2>1, <2>2, EventBusAssumption DEF SilentInv
<1>13. ASSUME NEW w \in Workers, Invoke(w) PROVE SilentInv'
  <2>1. PICK l \in Listeners : /\ l \in todo[w]
                               /\ todo' = [todo EXCEPT ![w] = todo[w] \ {l}]
                               /\ calls' = [calls EXCEPT ![l][hand[w]] = calls[l][hand[w]] + 1]
    BY <1>13 DEF Invoke, NextListener
  <2>2. UNCHANGED <<subscription, audience, hand>>
    BY <1>13 DEF Invoke
  <2>3. \A k \in Listeners, e \in Events : k # l \/ e # hand[w] => calls'[k][e] = calls[k][e]
    BY <2>1 DEF TypeOK0
  <2>4. \A v \in Workers : todo'[v] \subseteq todo[v]
    BY <2>1 DEF TypeOK0
  <2> QED BY <2>1, <2>2, <2>3, <2>4 DEF SilentInv
<1>14. ASSUME NEW w \in Workers, SkipLeaking(w) PROVE SilentInv'
  <2>1. \A v \in Workers : todo'[v] \subseteq todo[v]
    BY <1>14 DEF SkipLeaking, TypeOK0
  <2> QED BY <1>14, <2>1 DEF SkipLeaking, SilentInv
<1>15. ASSUME NEW w \in Workers, ListenerTimesOut(w) PROVE SilentInv'
    BY <1>15 DEF ListenerTimesOut, SilentInv, TypeOK0
<1>16. ASSUME NEW w \in Workers, WorkerExits(w) PROVE SilentInv'
    BY <1>16 DEF WorkerExits, SilentInv, TypeOK0
<1>17. ASSUME NEW w \in Workers, ListenerReturns(w) PROVE SilentInv'
    BY <1>17 DEF ListenerReturns, SilentInv, TypeOK0
<1>18. ASSUME NEW c \in Closers, CloseBegins(c) PROVE SilentInv'
    BY <1>18 DEF CloseBegins, SilentInv, TypeOK0
<1>19. ASSUME NEW c \in Closers, CloseChannel(c) PROVE SilentInv'
    BY <1>19 DEF CloseChannel, SilentInv, TypeOK0
<1>20. ASSUME NEW c \in Closers, CloseChecksStarted(c) PROVE SilentInv'
    BY <1>20 DEF CloseChecksStarted, SilentInv, TypeOK0
<1>21. ASSUME NEW c \in Closers, CloseWaits(c) PROVE SilentInv'
    BY <1>21 DEF CloseWaits, SilentInv, TypeOK0
<1>22. ASSUME NEW c \in Closers, CloseDrains(c) PROVE SilentInv'
    BY <1>22 DEF CloseDrains, SilentInv, TypeOK0
<1>23. ASSUME NEW c \in Closers, CloseDrained(c) PROVE SilentInv'
    BY <1>23 DEF CloseDrained, SilentInv, TypeOK0
<1>24. ASSUME NEW c \in Closers, CloseTimesOut(c) PROVE SilentInv'
    BY <1>24 DEF CloseTimesOut, SilentInv, TypeOK0
<1> QED BY <1>1, <1>2, <1>3, <1>4, <1>5, <1>6, <1>7, <1>8, <1>9, <1>10, <1>11, <1>12,
           <1>13, <1>14, <1>15, <1>16, <1>17, <1>18, <1>19, <1>20, <1>21, <1>22, <1>23,
           <1>24
       DEF Next, SubscribeStep, PublishStep, WorkerStep, CloseStep

\* A listener that has left is not invoked with anything published later.
THEOREM UnsubscribedIsLeftAlone == Spec => []UnsubscribedIsSilent
<1>1. Init => SilentInv
    BY DEF Init, SilentInv
<1>2. DeliveryIInv /\ SilentInv /\ [Next]_vars => (DeliveryIInv /\ SilentInv)'
    BY DeliveryStep, SilentStep DEF DeliveryIInv, PoolIInv
<1>3. SilentInv => UnsubscribedIsSilent
    BY DEF SilentInv, UnsubscribedIsSilent
<1> QED BY <1>1, <1>2, <1>3, DeliveryInit, PTL DEF Spec

-----------------------------------------------------------------------------
(* Close.                                                                  *)

\* e was enqueued with l registered and no launch under way.
InAudience(l, e) ==
    /\ pub[e] = "accepted" /\ audience[e][l] = "on"
    /\ \A k \in Listeners : audience[e][k] # "launch"

\* e is still on its way to l.
OnItsWay(l, e) ==
    \/ Queued(e)
    \/ \E w \in Workers : hand[w] = e /\ (worker[w] = "dispatch" \/ l \in todo[w])

\* Workers exit only from a channel that is closed and empty, an event for
\* somebody has workers, and Close drains the channel itself only when no
\* event in it is for anybody.
CloseInv ==
    /\ \A w \in Workers : worker[w] = "exited" => chClosed /\ eventCh = <<>>
    /\ ~started => \A e \in Events, l \in Listeners : audience[e][l] = "none"
    /\ \A l \in Listeners, e \in Events : InAudience(l, e) => \A w \in Workers : worker[w] # "none"
    /\ \A c \in Closers : closer[c] = "drain" =>
          \A l \in Listeners, e \in Events : ~InAudience(l, e)
    /\ \A c \in Closers : closer[c] = "returned" =>
          \A l \in Listeners, e \in Events : InAudience(l, e) => \A w \in Workers : worker[w] = "exited"

OwedInv ==
    \A l \in Listeners, e \in Events :
        /\ InAudience(l, e) /\ subscription[l] = "on" /\ Wants(l, e)
        /\ leakCount[l] < MaxLeakCount
        => calls[l][e] > 0 \/ OnItsWay(l, e)

LEMMA CloseInvStep == TypeOK0 /\ PoolInv /\ CountInv /\ LockInv /\ CloseInv /\ [Next]_vars => CloseInv'
<1> SUFFICES ASSUME TypeOK0, PoolInv, CountInv, LockInv, CloseInv, [Next]_vars PROVE CloseInv'
    OBVIOUS
<1> USE DEF busVars, pubVars, closeVars, workerVars
<1>1. CASE UNCHANGED vars
    BY <1>1 DEF vars, CloseInv, InAudience
<1>2. ASSUME NEW l \in Listeners, EnsureStarted(l) PROVE CloseInv'
  <2>1. \A l0 \in Listeners, x \in Events : InAudience(l0, x)' <=> InAudience(l0, x)
    BY <1>2 DEF EnsureStarted, InAudience
  <2> QED BY <1>2, <2>1 DEF EnsureStarted, CloseInv, TypeOK0
<1>3. ASSUME NEW l \in Listeners, LaunchWorkers(l) PROVE CloseInv'
  <2>1. \A l0 \in Listeners, e \in Events : InAudience(l0, e)' <=> InAudience(l0, e)
    BY <1>3 DEF LaunchWorkers, InAudience
  <2>2. \A l0 \in Listeners, e \in Events : ~InAudience(l0, e)
    BY <1>3, EventBusAssumption DEF LaunchWorkers, PoolInv, CloseInv
  <2>3. started
    BY <1>3 DEF LaunchWorkers, PoolInv
  <2> QED BY <1>3, <2>1, <2>2, <2>3 DEF LaunchWorkers, CloseInv
<1>4. ASSUME NEW l \in Listeners, Register(l) PROVE CloseInv'
  <2>1. \A l0 \in Listeners, x \in Events : InAudience(l0, x)' <=> InAudience(l0, x)
    BY <1>4 DEF Register, InAudience
  <2> QED BY <1>4, <2>1 DEF Register, CloseInv, TypeOK0
<1>5. ASSUME NEW l \in Listeners, Unsubscribe(l) PROVE CloseInv'
  <2>1. \A l0 \in Listeners, x \in Events : InAudience(l0, x)' <=> InAudience(l0, x)
    BY <1>5 DEF Unsubscribe, InAudience
  <2> QED BY <1>5, <2>1 DEF Unsubscribe, CloseInv, TypeOK0
<1>6. CASE Clear
  <2>1. \A l0 \in Listeners, x \in Events : InAudience(l0, x)' <=> InAudience(l0, x)
    BY <1>6 DEF Clear, InAudience
  <2> QED BY <1>6, <2>1 DEF Clear, CloseInv, TypeOK0
<1>7. ASSUME NEW e \in Events, PublishStamps(e) PROVE CloseInv'
  <2>1. \A l0 \in Listeners, x \in Events : InAudience(l0, x)' => InAudience(l0, x)
    BY <1>7 DEF PublishStamps, InAudience, TypeOK0
  <2> QED BY <1>7, <2>1 DEF PublishStamps, CloseInv, TypeOK0
<1>8. ASSUME NEW e \in Events, PublishRefused(e) PROVE CloseInv'
  <2>1. \A l0 \in Listeners, x \in Events : InAudience(l0, x)' => InAudience(l0, x)
    BY <1>8 DEF PublishRefused, InAudience, TypeOK0
  <2> QED BY <1>8, <2>1 DEF PublishRefused, CloseInv, TypeOK0
<1>9. ASSUME NEW e \in Events, PublishSends(e) PROVE CloseInv'
  <2>1. CASE pub'[e] # "accepted"
    <3>1. UNCHANGED <<eventCh, audience, worker, closer, chClosed, started>>
      BY <1>9, <2>1 DEF PublishSends, TypeOK0
    <3>2. \A l0 \in Listeners, x \in Events : InAudience(l0, x)' => InAudience(l0, x)
      BY <1>9, <2>1, <3>1 DEF PublishSends, InAudience, TypeOK0
    <3> QED BY <3>1, <3>2 DEF CloseInv
  <2>2. CASE pub'[e] = "accepted"
    <3>1. ~chClosed /\ UNCHANGED <<subscription, worker, closer, chClosed, started>>
      BY <1>9, <2>2 DEF PublishSends, TypeOK0
    <3>2. \A c \in Closers : closer[c] \notin {"drain", "returned"}
      BY <3>1 DEF LockInv, Closing
    <3>3. audience' = [audience EXCEPT ![e] = subscription]
      BY <1>9, <2>2 DEF PublishSends, TypeOK0
    <3>4. ~started => \A x \in Events, l0 \in Listeners : audience'[x][l0] = "none"
      BY <3>3 DEF CloseInv, PoolInv, TypeOK0
    <3>5. ASSUME NEW l0 \in Listeners, NEW x \in Events, InAudience(l0, x)'
          PROVE  \A w \in Workers : worker[w] # "none"
      <4>1. CASE x # e
        <5>1. InAudience(l0, x)
          BY <1>9, <3>5, <4>1 DEF PublishSends, InAudience, TypeOK0
        <5> QED BY <5>1 DEF CloseInv
      <4>2. CASE x = e
        <5>1. subscription[l0] = "on" /\ \A k \in Listeners : subscription[k] # "launch"
          BY <3>3, <3>5, <4>2 DEF InAudience, TypeOK0
        <5>2. started
          BY <5>1 DEF PoolInv, TypeOK0
        <5> QED BY <5>1, <5>2 DEF PoolInv
      <4> QED BY <4>1, <4>2
    <3>6. \A w \in Workers : worker[w] # "exited"
      BY <3>1 DEF CloseInv
    <3> QED BY <3>1, <3>2, <3>4, <3>5, <3>6 DEF CloseInv
  <2> QED BY <2>1, <2>2
<1>10. ASSUME NEW w \in Workers, WorkerReceives(w) PROVE CloseInv'
  <2>1. \A l0 \in Listeners, x \in Events : InAudience(l0, x)' <=> InAudience(l0, x)
    BY <1>10 DEF WorkerReceives, InAudience
  <2>2. \A v \in Workers : worker[v] # "exited"
    BY <1>10 DEF WorkerReceives, CloseInv
  <2> QED BY <1>10, <2>1, <2>2, EventBusAssumption DEF WorkerReceives, CloseInv, TypeOK0
<1>11. ASSUME NEW w \in Workers, Dispatch(w) PROVE CloseInv'
  <2>1. \A l0 \in Listeners, x \in Events : InAudience(l0, x)' <=> InAudience(l0, x)
    BY <1>11 DEF Dispatch, InAudience
  <2> QED BY <1>11, <2>1 DEF Dispatch, CloseInv, TypeOK0
<1>12. ASSUME NEW w \in Workers, Dispatched(w) PROVE CloseInv'
  <2>1. \A l0 \in Listeners, x \in Events : InAudience(l0, x)' <=> InAudience(l0, x)
    BY <1>12 DEF Dispatched, InAudience
  <2> QED BY <1>12, <2>1 DEF Dispatched, CloseInv, TypeOK0
<1>13. ASSUME NEW w \in Workers, Invoke(w) PROVE CloseInv'
  <2>1. \A l0 \in Listeners, x \in Events : InAudience(l0, x)' <=> InAudience(l0, x)
    BY <1>13 DEF Invoke, InAudience
  <2> QED BY <1>13, <2>1 DEF Invoke, CloseInv, TypeOK0
<1>14. ASSUME NEW w \in Workers, SkipLeaking(w) PROVE CloseInv'
  <2>1. \A l0 \in Listeners, x \in Events : InAudience(l0, x)' <=> InAudience(l0, x)
    BY <1>14 DEF SkipLeaking, InAudience
  <2> QED BY <1>14, <2>1 DEF SkipLeaking, CloseInv, TypeOK0
<1>15. ASSUME NEW w \in Workers, ListenerTimesOut(w) PROVE CloseInv'
  <2>1. \A l0 \in Listeners, x \in Events : InAudience(l0, x)' <=> InAudience(l0, x)
    BY <1>15 DEF ListenerTimesOut, InAudience
  <2> QED BY <1>15, <2>1 DEF ListenerTimesOut, CloseInv, TypeOK0
<1>16. ASSUME NEW w \in Workers, WorkerExits(w) PROVE CloseInv'
  <2>1. \A l0 \in Listeners, x \in Events : InAudience(l0, x)' <=> InAudience(l0, x)
    BY <1>16 DEF WorkerExits, InAudience
  <2> QED BY <1>16, <2>1 DEF WorkerExits, CloseInv, TypeOK0
<1>17. ASSUME NEW w \in Workers, ListenerReturns(w) PROVE CloseInv'
  <2>1. \A l0 \in Listeners, x \in Events : InAudience(l0, x)' <=> InAudience(l0, x)
    BY <1>17 DEF ListenerReturns, InAudience
  <2> QED BY <1>17, <2>1 DEF ListenerReturns, CloseInv, TypeOK0
<1>18. ASSUME NEW c \in Closers, CloseBegins(c) PROVE CloseInv'
  <2>1. \A l0 \in Listeners, x \in Events : InAudience(l0, x)' <=> InAudience(l0, x)
    BY <1>18 DEF CloseBegins, InAudience
  <2> QED BY <1>18, <2>1 DEF CloseBegins, CloseInv, TypeOK0
<1>19. ASSUME NEW c \in Closers, CloseChannel(c) PROVE CloseInv'
  <2>1. \A l0 \in Listeners, x \in Events : InAudience(l0, x)' <=> InAudience(l0, x)
    BY <1>19 DEF CloseChannel, InAudience
  <2> QED BY <1>19, <2>1 DEF CloseChannel, CloseInv, TypeOK0
<1>20. ASSUME NEW c \in Closers, CloseChecksStarted(c) PROVE CloseInv'
  <2>1. \A l0 \in Listeners, x \in Events : InAudience(l0, x)' <=> InAudience(l0, x)
    BY <1>20 DEF CloseChecksStarted, InAudience
  <2>2. ~started => \A l0 \in Listeners, x \in Events : ~InAudience(l0, x)
    BY DEF CloseInv, InAudience
  <2>3. UNCHANGED <<chClosed, eventCh, worker, started, audience>>
    BY <1>20 DEF CloseChecksStarted
  <2>4. \A d \in Closers : closer'[d] \in {closer[d], "wait"} \/ (closer'[d] = "drain" /\ ~started)
    BY <1>20 DEF CloseChecksStarted, TypeOK0
  <2> QED BY <2>1, <2>2, <2>3, <2>4 DEF CloseInv
<1>21. ASSUME NEW c \in Closers, CloseWaits(c) PROVE CloseInv'
  <2>1. \A l0 \in Listeners, x \in Events : InAudience(l0, x)' <=> InAudience(l0, x)
    BY <1>21 DEF CloseWaits, InAudience
  <2>2. IsFiniteSet(Active) /\ Cardinality(Active) = 0
    BY <1>21, FS_Subset, EventBusAssumption DEF CloseWaits, CountInv, Active
  <2>3. \A w \in Workers : worker[w] \in {"none", "exited"}
    BY <2>2, FS_EmptySet DEF Active
  <2> QED BY <1>21, <2>1, <2>3 DEF CloseWaits, CloseInv, TypeOK0
<1>22. ASSUME NEW c \in Closers, CloseDrains(c) PROVE CloseInv'
  <2>1. \A l0 \in Listeners, x \in Events : InAudience(l0, x)' <=> InAudience(l0, x)
    BY <1>22 DEF CloseDrains, InAudience
  <2>2. \A v \in Workers : worker[v] # "exited"
    BY <1>22 DEF CloseDrains, CloseInv
  <2> QED BY <1>22, <2>1, <2>2, EventBusAssumption DEF CloseDrains, CloseInv, TypeOK0
<1>23. ASSUME NEW c \in Closers, CloseDrained(c) PROVE CloseInv'
  <2>1. \A l0 \in Listeners, x \in Events : InAudience(l0, x)' <=> InAudience(l0, x)
    BY <1>23 DEF CloseDrained, InAudience
  <2> QED BY <1>23, <2>1 DEF CloseDrained, CloseInv, TypeOK0
<1>24. ASSUME NEW c \in Closers, CloseTimesOut(c) PROVE CloseInv'
  <2>1. \A l0 \in Listeners, x \in Events : InAudience(l0, x)' <=> InAudience(l0, x)
    BY <1>24 DEF CloseTimesOut, InAudience
  <2> QED BY <1>24, <2>1 DEF CloseTimesOut, CloseInv, TypeOK0
<1> QED BY <1>1, <1>2, <1>3, <1>4, <1>5, <1>6, <1>7, <1>8, <1>9, <1>10, <1>11, <1>12,
           <1>13, <1>14, <1>15, <1>16, <1>17, <1>18, <1>19, <1>20, <1>21, <1>22, <1>23,
           <1>24
       DEF Next, SubscribeStep, PublishStep, WorkerStep, CloseStep

\* A subscription that has been on does not come back.
JoinedInv ==
    \A l \in Listeners, e \in Events : audience[e][l] = "on" => subscription[l] \in {"on", "off"}

LEMMA JoinedStep == TypeOK0 /\ JoinedInv /\ [Next]_vars => JoinedInv'
<1> SUFFICES ASSUME TypeOK0, JoinedInv, [Next]_vars PROVE JoinedInv'
    OBVIOUS
<1> USE DEF busVars, pubVars, closeVars, workerVars
<1>1. CASE UNCHANGED vars
    BY <1>1 DEF vars, JoinedInv
<1>2. ASSUME NEW l \in Listeners, EnsureStarted(l) PROVE JoinedInv'
    BY <1>2 DEF EnsureStarted, JoinedInv, TypeOK0
<1>3. ASSUME NEW l \in Listeners, LaunchWorkers(l) PROVE JoinedInv'
    BY <1>3 DEF LaunchWorkers, JoinedInv, TypeOK0
<1>4. ASSUME NEW l \in Listeners, Register(l) PROVE JoinedInv'
    BY <1>4 DEF Register, JoinedInv, TypeOK0
<1>5. ASSUME NEW l \in Listeners, Unsubscribe(l) PROVE JoinedInv'
    BY <1>5 DEF Unsubscribe, JoinedInv, TypeOK0
<1>6. CASE Clear
    BY <1>6 DEF Clear, JoinedInv, TypeOK0
<1>7. ASSUME NEW e \in Events, PublishStamps(e) PROVE JoinedInv'
    BY <1>7 DEF PublishStamps, JoinedInv, TypeOK0
<1>8. ASSUME NEW e \in Events, PublishRefused(e) PROVE JoinedInv'
    BY <1>8 DEF PublishRefused, JoinedInv, TypeOK0
<1>9. ASSUME NEW e \in Events, PublishSends(e) PROVE JoinedInv'
  <2>1. \A x \in Events : audience'[x] = audience[x] \/ audience'[x] = subscription
    BY <1>9 DEF PublishSends, TypeOK0
  <2> QED BY <1>9, <2>1 DEF PublishSends, JoinedInv
<1>10. ASSUME NEW w \in Workers, WorkerReceives(w) PROVE JoinedInv'
    BY <1>10 DEF WorkerReceives, JoinedInv, TypeOK0
<1>11. ASSUME NEW w \in Workers, Dispatch(w) PROVE JoinedInv'
    BY <1>11 DEF Dispatch, JoinedInv, TypeOK0
<1>12. ASSUME NEW w \in Workers, Dispatched(w) PROVE JoinedInv'
    BY <1>12 DEF Dispatched, JoinedInv, TypeOK0
<1>13. ASSUME NEW w \in Workers, Invoke(w) PROVE JoinedInv'
    BY <1>13 DEF Invoke, JoinedInv, TypeOK0
<1>14. ASSUME NEW w \in Workers, SkipLeaking(w) PROVE JoinedInv'
    BY <1>14 DEF SkipLeaking, JoinedInv, TypeOK0
<1>15. ASSUME NEW w \in Workers, ListenerTimesOut(w) PROVE JoinedInv'
    BY <1>15 DEF ListenerTimesOut, JoinedInv, TypeOK0
<1>16. ASSUME NEW w \in Workers, WorkerExits(w) PROVE JoinedInv'
    BY <1>16 DEF WorkerExits, JoinedInv, TypeOK0
<1>17. ASSUME NEW w \in Workers, ListenerReturns(w) PROVE JoinedInv'
    BY <1>17 DEF ListenerReturns, JoinedInv, TypeOK0
<1>18. ASSUME NEW c \in Closers, CloseBegins(c) PROVE JoinedInv'
    BY <1>18 DEF CloseBegins, JoinedInv, TypeOK0
<1>19. ASSUME NEW c \in Closers, CloseChannel(c) PROVE JoinedInv'
    BY <1>19 DEF CloseChannel, JoinedInv, TypeOK0
<1>20. ASSUME NEW c \in Closers, CloseChecksStarted(c) PROVE JoinedInv'
    BY <1>20 DEF CloseChecksStarted, JoinedInv, TypeOK0
<1>21. ASSUME NEW c \in Closers, CloseWaits(c) PROVE JoinedInv'
    BY <1>21 DEF CloseWaits, JoinedInv, TypeOK0
<1>22. ASSUME NEW c \in Closers, CloseDrains(c) PROVE JoinedInv'
    BY <1>22 DEF CloseDrains, JoinedInv, TypeOK0
<1>23. ASSUME NEW c \in Closers, CloseDrained(c) PROVE JoinedInv'
    BY <1>23 DEF CloseDrained, JoinedInv, TypeOK0
<1>24. ASSUME NEW c \in Closers, CloseTimesOut(c) PROVE JoinedInv'
    BY <1>24 DEF CloseTimesOut, JoinedInv, TypeOK0
<1> QED BY <1>1, <1>2, <1>3, <1>4, <1>5, <1>6, <1>7, <1>8, <1>9, <1>10, <1>11, <1>12,
           <1>13, <1>14, <1>15, <1>16, <1>17, <1>18, <1>19, <1>20, <1>21, <1>22, <1>23,
           <1>24
       DEF Next, SubscribeStep, PublishStep, WorkerStep, CloseStep

LEMMA OwedStep == TypeOK0 /\ HandInv /\ RegisteredInv /\ PoolInv /\ PlaceInv /\ CloseInv /\ JoinedInv /\ OwedInv /\ [Next]_vars => OwedInv'
<1> SUFFICES ASSUME TypeOK0, HandInv, RegisteredInv, PoolInv, PlaceInv, CloseInv, JoinedInv, OwedInv, [Next]_vars PROVE OwedInv'
    OBVIOUS
<1> USE DEF busVars, pubVars, closeVars, workerVars
<1>1. CASE UNCHANGED vars
    BY <1>1 DEF vars, Wants, OwedInv, InAudience, OnItsWay, Queued
<1>2. ASSUME NEW l \in Listeners, EnsureStarted(l) PROVE OwedInv'
  <2>1. UNCHANGED <<pub, audience, calls, eventCh, hand, worker, todo, leakCount>>
    BY <1>2 DEF EnsureStarted
  <2>2. \A k \in Listeners : subscription'[k] = "on" => subscription[k] = "on"
    BY <1>2 DEF EnsureStarted, TypeOK0
  <2> QED BY <2>1, <2>2 DEF OwedInv, InAudience, OnItsWay, Queued
<1>3. ASSUME NEW l \in Listeners, LaunchWorkers(l) PROVE OwedInv'
  <2>1. \A l0 \in Listeners, e \in Events : InAudience(l0, e)' <=> InAudience(l0, e)
    BY <1>3 DEF LaunchWorkers, InAudience
  <2>2. \A l0 \in Listeners, e \in Events : ~InAudience(l0, e)
    BY <1>3, EventBusAssumption DEF LaunchWorkers, PoolInv, CloseInv
  <2> QED BY <2>1, <2>2 DEF OwedInv
<1>4. ASSUME NEW l \in Listeners, Register(l) PROVE OwedInv'
  <2>1. UNCHANGED <<pub, audience, calls, eventCh, hand, worker, todo, leakCount>>
    BY <1>4 DEF Register
  <2>2. \A k \in Listeners : subscription'[k] = "on" => subscription[k] = "on" \/ k = l
    BY <1>4 DEF Register, TypeOK0
  <2>3. \A e \in Events : audience[e][l] # "on"
    BY <1>4 DEF Register, JoinedInv
  <2> QED BY <2>1, <2>2, <2>3 DEF OwedInv, InAudience, OnItsWay, Queued
<1>5. ASSUME NEW l \in Listeners, Unsubscribe(l) PROVE OwedInv'
  <2>1. UNCHANGED <<pub, audience, calls, eventCh, hand, worker, todo, leakCount>>
    BY <1>5 DEF Unsubscribe
  <2>2. \A k \in Listeners : subscription'[k] = "on" => subscription[k] = "on"
    BY <1>5 DEF Unsubscribe, TypeOK0
  <2> QED BY <2>1, <2>2 DEF OwedInv, InAudience, OnItsWay, Queued
<1>6. CASE Clear
  <2>1. UNCHANGED <<pub, audience, calls, eventCh, hand, worker, todo, leakCount>>
    BY <1>6 DEF Clear
  <2>2. \A k \in Listeners : subscription'[k] = "on" => subscription[k] = "on"
    BY <1>6 DEF Clear, TypeOK0
  <2> QED BY <2>1, <2>2 DEF OwedInv, InAudience, OnItsWay, Queued
<1>7. ASSUME NEW e \in Events, PublishStamps(e) PROVE OwedInv'
  <2>1. UNCHANGED <<audience, calls, eventCh, hand, worker, todo, leakCount, subscription>>
    BY <1>7 DEF PublishStamps
  <2>2. \A x \in Events : pub'[x] = "accepted" => pub[x] = "accepted"
    BY <1>7 DEF PublishStamps, TypeOK0
  <2> QED BY <2>1, <2>2 DEF OwedInv, InAudience, OnItsWay, Queued
<1>8. ASSUME NEW e \in Events, PublishRefused(e) PROVE OwedInv'
  <2>1. UNCHANGED <<audience, calls, eventCh, hand, worker, todo, leakCount, subscription>>
    BY <1>8 DEF PublishRefused
  <2>2. \A x \in Events : pub'[x] = "accepted" => pub[x] = "accepted"
    BY <1>8 DEF PublishRefused, TypeOK0
  <2> QED BY <2>1, <2>2 DEF OwedInv, InAudience, OnItsWay, Queued
<1>9. ASSUME NEW e \in Events, PublishSends(e) PROVE OwedInv'
  <2>1. UNCHANGED <<subscription, calls, hand, worker, todo, leakCount>>
    BY <1>9 DEF PublishSends
  <2>2. \A x \in Events : Queued(x) => Queued(x)'
    <3>1. CASE pub'[e] = "accepted"
      <4>1. eventCh' = Append(eventCh, e) /\ ~Queued(e)
        BY <1>9, <3>1 DEF PublishSends, PlaceInv
      <4> QED BY <4>1, Enqueue
    <3>2. CASE pub'[e] # "accepted"
      BY <1>9, <3>2 DEF PublishSends, Queued
    <3> QED BY <3>1, <3>2
  <2>3. ASSUME NEW k \in Listeners, NEW x \in Events, InAudience(k, x)', subscription[k] = "on",
               Wants(k, x), leakCount[k] < MaxLeakCount
        PROVE  calls[k][x] > 0 \/ OnItsWay(k, x)'
    <3>1. CASE x = e
      <4>1. eventCh' = Append(eventCh, e) /\ ~Queued(e)
        BY <1>9, <2>3, <3>1 DEF PublishSends, PlaceInv, InAudience
      <4>2. Queued(e)'
        BY <4>1, Enqueue
      <4> QED BY <3>1, <4>2 DEF OnItsWay
    <3>2. CASE x # e
      <4>1. InAudience(k, x)
        BY <1>9, <2>3, <3>2 DEF PublishSends, InAudience, TypeOK0
      <4>2. calls[k][x] > 0 \/ OnItsWay(k, x)
        BY <2>3, <4>1 DEF OwedInv
      <4> QED BY <2>1, <2>2, <4>2 DEF OnItsWay
    <3> QED BY <3>1, <3>2
  <2> QED BY <2>1, <2>3 DEF OwedInv, Wants
<1>10. ASSUME NEW w \in Workers, WorkerReceives(w) PROVE OwedInv'
  <2>1. ASSUME NEW k \in Listeners, NEW x \in Events, InAudience(k, x)', subscription'[k] = "on",
               Wants(k, x), leakCount'[k] < MaxLeakCount
        PROVE  calls'[k][x] > 0 \/ OnItsWay(k, x)'
    <3>1. InAudience(k, x) /\ subscription[k] = "on"
      BY <1>10, <2>1 DEF WorkerReceives, InAudience
    <3>2. calls[k][x] > 0 \/ OnItsWay(k, x)
      BY <1>10, <2>1, <3>1 DEF WorkerReceives, OwedInv
    <3>3. UNCHANGED calls /\ \A e \in Events : Queued(e)' <=> Queued(e) /\ e # Head(eventCh)
      BY <1>10, Dequeue DEF WorkerReceives
    <3>4. hand'[w] = Head(eventCh) /\ worker'[w] = "dispatch"
      BY <1>10 DEF WorkerReceives, TypeOK0
    <3>5. \A v \in Workers : hand[v] = x /\ (worker[v] = "dispatch" \/ k \in todo[v]) =>
            hand'[v] = x /\ (worker'[v] = "dispatch" \/ k \in todo'[v])
      BY <1>10 DEF WorkerReceives, HandInv, TypeOK0
    <3> QED BY <3>2, <3>3, <3>4, <3>5 DEF OnItsWay
  <2> QED BY <2>1 DEF OwedInv, Wants
<1>11. ASSUME NEW w \in Workers, Dispatch(w) PROVE OwedInv'
  <2>1. ASSUME NEW k \in Listeners, NEW x \in Events, InAudience(k, x)', subscription'[k] = "on",
               Wants(k, x), leakCount'[k] < MaxLeakCount
        PROVE  calls'[k][x] > 0 \/ OnItsWay(k, x)'
    <3>1. InAudience(k, x) /\ subscription[k] = "on"
      BY <1>11, <2>1 DEF Dispatch, InAudience
    <3>2. calls[k][x] > 0 \/ OnItsWay(k, x)
      BY <1>11, <2>1, <3>1 DEF Dispatch, OwedInv
    <3>3. UNCHANGED <<calls, eventCh, hand>>
      BY <1>11 DEF Dispatch
    <3>4. \A v \in Workers : hand[v] = x /\ (worker[v] = "dispatch" \/ k \in todo[v]) =>
            worker'[v] = "dispatch" \/ k \in todo'[v]
      BY <1>11, <2>1, <3>1 DEF Dispatch, RegisteredInv, TypeOK0
    <3> QED BY <3>2, <3>3, <3>4 DEF OnItsWay, Queued
  <2> QED BY <2>1 DEF OwedInv, Wants
<1>12. ASSUME NEW w \in Workers, Dispatched(w) PROVE OwedInv'
  <2>1. ASSUME NEW k \in Listeners, NEW x \in Events, InAudience(k, x)', subscription'[k] = "on",
               Wants(k, x), leakCount'[k] < MaxLeakCount
        PROVE  calls'[k][x] > 0 \/ OnItsWay(k, x)'
    <3>1. InAudience(k, x) /\ subscription[k] = "on"
      BY <1>12, <2>1 DEF Dispatched, InAudience
    <3>2. calls[k][x] > 0 \/ OnItsWay(k, x)
      BY <1>12, <2>1, <3>1 DEF Dispatched, OwedInv
    <3>3. UNCHANGED <<calls, eventCh, todo>>
      BY <1>12 DEF Dispatched
    <3>4. \A v \in Workers : hand[v] = x /\ (worker[v] = "dispatch" \/ k \in todo[v]) =>
            hand'[v] = x /\ (worker'[v] = "dispatch" \/ k \in todo'[v])
      BY <1>12 DEF Dispatched, TypeOK0
    <3> QED BY <3>2, <3>3, <3>4 DEF OnItsWay, Queued
  <2> QED BY <2>1 DEF OwedInv, Wants
<1>13. ASSUME NEW w \in Workers, Invoke(w) PROVE OwedInv'
  <2>1. ASSUME NEW k \in Listeners, NEW x \in Events, InAudience(k, x)', subscription'[k] = "on",
               Wants(k, x), leakCount'[k] < MaxLeakCount
        PROVE  calls'[k][x] > 0 \/ OnItsWay(k, x)'
    <3>1. InAudience(k, x) /\ subscription[k] = "on"
      BY <1>13, <2>1 DEF Invoke, InAudience
    <3>2. calls[k][x] > 0 \/ OnItsWay(k, x)
      BY <1>13, <2>1, <3>1 DEF Invoke, OwedInv
    <3>3. UNCHANGED <<eventCh, hand>>
      BY <1>13 DEF Invoke
    <3>4. PICK l \in Listeners : /\ todo' = [todo EXCEPT ![w] = todo[w] \ {l}]
                                 /\ calls' = [calls EXCEPT ![l][hand[w]] = calls[l][hand[w]] + 1]
      BY <1>13 DEF Invoke
    <3>5. hand[w] \in Events /\ worker[w] = "invoke"
      BY <1>13 DEF Invoke, HandInv, TypeOK0
    <3>6. calls[k][x] \in Nat /\ calls'[k][x] = IF k = l /\ x = hand[w] THEN calls[k][x] + 1 ELSE calls[k][x]
      BY <3>4, <3>5 DEF TypeOK0
    <3>7. \A v \in Workers : hand[v] = x /\ (worker[v] = "dispatch" \/ k \in todo[v]) =>
            worker'[v] = "dispatch" \/ k \in todo'[v] \/ (k = l /\ x = hand[w])
      BY <1>13, <3>4, <3>5 DEF Invoke, TypeOK0
    <3> QED BY <3>2, <3>3, <3>6, <3>7 DEF OnItsWay, Queued
  <2> QED BY <2>1 DEF OwedInv, Wants
<1>14. ASSUME NEW w \in Workers, SkipLeaking(w) PROVE OwedInv'
  <2>1. ASSUME NEW k \in Listeners, NEW x \in Events, InAudience(k, x)', subscription'[k] = "on",
               Wants(k, x), leakCount'[k] < MaxLeakCount
        PROVE  calls'[k][x] > 0 \/ OnItsWay(k, x)'
    <3>1. InAudience(k, x) /\ subscription[k] = "on"
      BY <1>14, <2>1 DEF SkipLeaking, InAudience
    <3>2. calls[k][x] > 0 \/ OnItsWay(k, x)
      BY <1>14, <2>1, <3>1 DEF SkipLeaking, OwedInv
    <3>3. UNCHANGED <<calls, eventCh, hand, worker, leakCount>>
      BY <1>14 DEF SkipLeaking
    <3>4. \A v \in Workers : k \in todo[v] => k \in todo'[v]
      BY <1>14, <2>1, <3>3, EventBusAssumption DEF SkipLeaking, TypeOK0
    <3> QED BY <3>2, <3>3, <3>4 DEF OnItsWay, Queued
  <2> QED BY <2>1 DEF OwedInv, Wants
<1>15. ASSUME NEW w \in Workers, ListenerTimesOut(w) PROVE OwedInv'
  <2>1. ASSUME NEW k \in Listeners, NEW x \in Events, InAudience(k, x)', subscription'[k] = "on",
               Wants(k, x), leakCount'[k] < MaxLeakCount
        PROVE  calls'[k][x] > 0 \/ OnItsWay(k, x)'
    <3>1. InAudience(k, x) /\ subscription[k] = "on"
      BY <1>15, <2>1 DEF ListenerTimesOut, InAudience
    <3>2. leakCount[k] < MaxLeakCount
      BY <1>15, <2>1, EventBusAssumption DEF ListenerTimesOut, HandInv, TypeOK0
    <3>3. calls[k][x] > 0 \/ OnItsWay(k, x)
      BY <2>1, <3>1, <3>2 DEF OwedInv
    <3>4. UNCHANGED <<calls, eventCh, hand, todo>>
      BY <1>15 DEF ListenerTimesOut
    <3>5. \A v \in Workers : worker[v] = "dispatch" => worker'[v] = "dispatch"
      BY <1>15 DEF ListenerTimesOut, TypeOK0
    <3> QED BY <3>3, <3>4, <3>5 DEF OnItsWay, Queued
  <2> QED BY <2>1 DEF OwedInv, Wants
<1>16. ASSUME NEW w \in Workers, WorkerExits(w) PROVE OwedInv'
  <2>1. ASSUME NEW k \in Listeners, NEW x \in Events, InAudience(k, x)', subscription'[k] = "on",
               Wants(k, x), leakCount'[k] < MaxLeakCount
        PROVE  calls'[k][x] > 0 \/ OnItsWay(k, x)'
    <3>1. InAudience(k, x) /\ subscription[k] = "on"
      BY <1>16, <2>1 DEF WorkerExits, InAudience
    <3>2. calls[k][x] > 0 \/ OnItsWay(k, x)
      BY <1>16, <2>1, <3>1 DEF WorkerExits, OwedInv
    <3>3. UNCHANGED <<calls, eventCh, hand, todo>>
      BY <1>16 DEF WorkerExits
    <3>4. \A v \in Workers : worker[v] = "dispatch" => worker'[v] = "dispatch"
      BY <1>16 DEF WorkerExits, TypeOK0
    <3> QED BY <3>2, <3>3, <3>4 DEF OnItsWay, Queued
  <2> QED BY <2>1 DEF OwedInv, Wants
<1>17. ASSUME NEW w \in Workers, ListenerReturns(w) PROVE OwedInv'
  <2>1. ASSUME NEW k \in Listeners, NEW x \in Events, InAudience(k, x)', subscription'[k] = "on",
               Wants(k, x), leakCount'[k] < MaxLeakCount
        PROVE  calls'[k][x] > 0 \/ OnItsWay(k, x)'
    <3>1. InAudience(k, x) /\ subscription[k] = "on"
      BY <1>17, <2>1 DEF ListenerReturns, InAudience
    <3>2. calls[k][x] > 0 \/ OnItsWay(k, x)
      BY <1>17, <2>1, <3>1 DEF ListenerReturns, OwedInv
    <3>3. UNCHANGED <<calls, eventCh, hand, todo>>
      BY <1>17 DEF ListenerReturns
    <3>4. \A v \in Workers : worker[v] = "dispatch" => worker'[v] = "dispatch"
      BY <1>17 DEF ListenerReturns, TypeOK0
    <3> QED BY <3>2, <3>3, <3>4 DEF OnItsWay, Queued
  <2> QED BY <2>1 DEF OwedInv, Wants
<1>18. ASSUME NEW c \in Closers, CloseBegins(c) PROVE OwedInv'
    BY <1>18 DEF CloseBegins, OwedInv, InAudience, OnItsWay, Queued
<1>19. ASSUME NEW c \in Closers, CloseChannel(c) PROVE OwedInv'
    BY <1>19 DEF CloseChannel, OwedInv, InAudience, OnItsWay, Queued
<1>20. ASSUME NEW c \in Closers, CloseChecksStarted(c) PROVE OwedInv'
    BY <1>20 DEF CloseChecksStarted, OwedInv, InAudience, OnItsWay, Queued
<1>21. ASSUME NEW c \in Closers, CloseWaits(c) PROVE OwedInv'
    BY <1>21 DEF CloseWaits, OwedInv, InAudience, OnItsWay, Queued
<1>22. ASSUME NEW c \in Closers, CloseDrains(c) PROVE OwedInv'
  <2>1. \A k \in Listeners, e \in Events : InAudience(k, e)' <=> InAudience(k, e)
    BY <1>22 DEF CloseDrains, InAudience
  <2>2. \A k \in Listeners, e \in Events : ~InAudience(k, e)
    BY <1>22 DEF CloseDrains, CloseInv
  <2> QED BY <2>1, <2>2 DEF OwedInv
<1>23. ASSUME NEW c \in Closers, CloseDrained(c) PROVE OwedInv'
    BY <1>23 DEF CloseDrained, OwedInv, InAudience, OnItsWay, Queued
<1>24. ASSUME NEW c \in Closers, CloseTimesOut(c) PROVE OwedInv'
    BY <1>24 DEF CloseTimesOut, OwedInv, InAudience, OnItsWay, Queued
<1> QED BY <1>1, <1>2, <1>3, <1>4, <1>5, <1>6, <1>7, <1>8, <1>9, <1>10, <1>11, <1>12,
           <1>13, <1>14, <1>15, <1>16, <1>17, <1>18, <1>19, <1>20, <1>21, <1>22, <1>23,
           <1>24
       DEF Next, SubscribeStep, PublishStep, WorkerStep, CloseStep

\* Close does not return in time before what was accepted has been delivered.
THEOREM CleanCloseHasDelivered == Spec => []CleanCloseDelivers
<1> DEFINE IInv == DeliveryIInv /\ CloseInv /\ JoinedInv /\ OwedInv
<1>1. Init => CloseInv /\ JoinedInv /\ OwedInv
    BY DEF Init, CloseInv, JoinedInv, OwedInv, InAudience
<1>2. IInv /\ [Next]_vars => IInv'
    BY DeliveryStep, CloseInvStep, JoinedStep, OwedStep DEF DeliveryIInv, PoolIInv
<1>3. IInv => CleanCloseDelivers
  <2> SUFFICES ASSUME IInv, NEW c \in Closers, NEW l \in Listeners, NEW e \in Events,
                      closer[c] = "returned", InAudience(l, e), subscription[l] = "on",
                      Wants(l, e), leakCount[l] < MaxLeakCount
               PROVE  calls[l][e] > 0
    BY DEF CleanCloseDelivers, InAudience
  <2>1. \A w \in Workers : worker[w] = "exited"
    BY DEF CloseInv
  <2>2. eventCh = <<>>
    BY <2>1, EventBusAssumption DEF CloseInv
  <2>3. \A w \in Workers : hand[w] = NoEvent
    BY <2>1 DEF DeliveryIInv, PoolIInv, HandInv
  <2>4. ~OnItsWay(l, e)
    BY <2>2, <2>3, EventBusAssumption DEF OnItsWay, Queued
  <2> QED BY <2>4 DEF OwedInv
<1> QED BY <1>1, <1>2, <1>3, DeliveryInit, PTL DEF Spec

\* Dispatch is exact: no event twice, none to a listener that had left, and no
\* listener is waited for beyond its strikes (bus.go dispatch).
THEOREM DispatchIsExact == Spec => []DispatchExact
BY CallsAreUnique, UnsubscribedIsLeftAlone, StrikesAreBounded, PTL DEF DispatchExact
=============================================================================
