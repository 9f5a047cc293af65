------------------------- MODULE MCPRegistryProofs -------------------------
(***************************************************************************)
(* The registry and its clients, for any number of callers, admins,        *)
(* servers and clients, any limit and any number of retries.               *)
(*                                                                         *)
(* A result is that of the caller's own call: an id is given out once by a *)
(* connection, so what travels with it and what waits for it belong to one *)
(* call, however late the reply comes.                                     *)
(*                                                                         *)
(* No connection is lost, and the limit is kept: a client has one owner,   *)
(* the table, the caller that makes it or the admin that closes it, and    *)
(* each owner but a replacement has a slot.                                *)
(***************************************************************************)
EXTENDS MCPRegistry, FiniteSetTheorems, WellFoundedInduction, TLAPS

-----------------------------------------------------------------------------
(* The types, and what the locals of a caller hold at its label.           *)

ClientType ==
    /\ transport \in Transports
    /\ conn \in [Clients -> {"none", "starting", "up", "deaf", "dead", "closed"}]
    /\ nextID \in [Clients -> Nat] /\ id \in [Callers -> Nat]
    /\ table \in [Clients -> SUBSET [id : Nat, chan : Callers]]
    /\ wire \subseteq [type : {"request", "reply"}, client : Clients, id : Nat, call : Callers]
    /\ attempt \in [Callers -> 0 .. MaxRetries]
    /\ reply \in [Callers -> Callers \cup {None}] /\ result \in [Callers -> Callers \cup {None}]

ControlType ==
    /\ at \in [Callers -> Labels] /\ using \in [Callers -> Clients \cup {None}]
    /\ mine \in [Callers -> Clients \cup {None}]
    /\ target \in [Callers -> Servers \cup {None}] /\ refresh \in [Callers -> BOOLEAN]

RegistryType ==
    /\ servers \subseteq Servers /\ indexed \subseteq Servers
    /\ closed \in BOOLEAN /\ overtaken \in BOOLEAN
    /\ clients \in [Servers -> Clients \cup {None}]
    /\ limit \in Limits /\ slots \in 0 .. limit
    /\ mu \in Callers \cup Admins \cup {None}
    /\ admin \in [Admins -> [at : {"idle", "close", "returned"}, todo : SUBSET Clients]]
    /\ replaced \in BOOLEAN

LEMMA TypeParts == TypeOK <=> ClientType /\ ControlType /\ RegistryType
BY DEF TypeOK, ClientType, ControlType, RegistryType

\* The labels at which a caller has a client of its own in hand.
InHand == {"init", "broken", "install", "discard"}

LocalsAt(c) ==
    /\ at[c] # "idle" => target[c] \in Servers
    /\ at[c] \in {"ready", "send", "wait", "list", "discard", "refresh"} => using[c] \in Clients
    /\ mine[c] # None <=> at[c] \in InHand
    /\ at[c] = "refresh" => mu = c

LocalsInv == \A c \in Callers : LocalsAt(c)

\* The clients that somebody has to close one day.
Owned == {k \in Clients : \/ \E s \in Servers : clients[s] = k
                          \/ \E c \in Callers : mine[c] = k
                          \/ \E a \in Admins : k \in admin[a].todo}

TypeInv == ClientType /\ ControlType /\ RegistryType /\ LocalsInv /\ IsFiniteSet(Owned)

callerVars == <<at, using, mine, target, refresh>>
connVars == <<transport, conn, nextID, table, wire, requestVars>>
tableVars == <<servers, clients, indexed, closed, overtaken, limit, slots, mu, admin, replaced>>

-----------------------------------------------------------------------------
(* Arithmetic of the slots.                                                *)

LEMMA SlotBounds ==
    ASSUME RegistryType, NEW n \in Nat
    PROVE  /\ Released(n) \in 0 .. limit /\ Released(n) <= slots
           /\ n <= slots => Released(n) = slots - n
           /\ (limit > 0 => slots # limit) => Acquired \in 0 .. limit
           /\ limit > 0 => Acquired = slots + 1
<1>1. limit \in Nat /\ slots \in 0 .. limit
    BY RegistryAssumption DEF RegistryType
<1> QED BY <1>1 DEF Released, Acquired

LEMMA FreshIs ==
    ASSUME ClientType, \E j \in Clients : conn[j] = "none"
    PROVE  Fresh \in Clients /\ conn[Fresh] = "none"
<1> DEFINE T == {k \in Clients : conn[k] = "none"}
<1>1. T # {} /\ T \subseteq Nat
    BY ClientAssumption
<1>2. PICK k \in T : \A j \in T : ~(<<j, k>> \in OpToRel(<, Nat))
    BY <1>1, NatLessThanWellFounded, WFMin
<1>3. ASSUME NEW j \in T PROVE k <= j
  <2>1. k \in Nat /\ j \in Nat
    BY <1>1
  <2>2. ~(j < k)
    <3> SUFFICES ASSUME j < k PROVE FALSE
        OBVIOUS
    <3>1. <<j, k>> \in {s \in Nat \X Nat : s[1] < s[2]}
      BY <2>1
    <3> QED BY <3>1, <1>2 DEF OpToRel
  <2> QED BY <2>1, <2>2
<1>4. \E i \in Clients : conn[i] = "none" /\ \A j \in Clients : conn[j] = "none" => i <= j
    BY <1>3
<1> QED BY <1>4 DEF Fresh

-----------------------------------------------------------------------------
(* Type correctness, one lemma per group of actions.                       *)

LEMMA OwnedKept ==
    ASSUME IsFiniteSet(Owned), Owned' \subseteq Owned PROVE IsFiniteSet(Owned')
BY FS_Subset

LEMMA OwnedSame == ASSUME UNCHANGED <<clients, mine, admin>> PROVE Owned' = Owned
BY DEF Owned

LEMMA ClientTypeSame == ASSUME ClientType, UNCHANGED connVars PROVE ClientType'
BY DEF ClientType, connVars, requestVars

LEMMA RegistryTypeSame == ASSUME RegistryType, UNCHANGED tableVars PROVE RegistryType'
BY DEF RegistryType, tableVars

\* A caller goes from one label to another.
LEMMA CallerMoves ==
    ASSUME ControlType, LocalsInv, NEW c \in Callers, NEW l \in Labels,
           at' = [at EXCEPT ![c] = l],
           using' \in [Callers -> Clients \cup {None}], mine' \in [Callers -> Clients \cup {None}],
           target' \in [Callers -> Servers \cup {None}],
           \A d \in Callers \ {c} : /\ using'[d] = using[d] /\ mine'[d] = mine[d]
                                    /\ target'[d] = target[d]
                                    /\ at[d] = "refresh" => mu' = d,
           l # "idle" => target'[c] \in Servers,
           l \in {"ready", "send", "wait", "list", "discard", "refresh"} => using'[c] \in Clients,
           mine'[c] # None <=> l \in InHand,
           l = "refresh" => mu' = c
    PROVE  at' \in [Callers -> Labels] /\ LocalsInv'
<1>1. at' \in [Callers -> Labels]
    BY DEF ControlType
<1>2. \A d \in Callers : at'[d] = IF d = c THEN l ELSE at[d]
    BY DEF ControlType
<1>3. ASSUME NEW d \in Callers PROVE LocalsAt(d)'
  <2>1. CASE d = c
    BY <1>2, <2>1 DEF LocalsAt
  <2>2. CASE d # c
    BY <1>2, <2>2 DEF LocalsAt, LocalsInv
  <2> QED BY <2>1, <2>2
<1> QED BY <1>1, <1>3 DEF LocalsInv

\* The steps of GetClientForTool that leave the clients and the slots alone.
LEMMA LookupType ==
    ASSUME TypeInv, NEW c \in Callers,
           \/ \E s \in Servers : GetClientForTool(c, s)
           \/ FetchServerTools(c) \/ UpdateToolsResult(c) \/ LookUp(c)
    PROVE  TypeInv'
<1> USE DEF TypeInv
<1>1. UNCHANGED <<connVars, servers, clients, closed, overtaken, limit, slots, mu, mine, admin, replaced,
                  using>>
    BY DEF GetClientForTool, FetchServerTools, UpdateToolsResult, LookUp, UsingUnchanged,
           TableUnchanged, registryVars, connVars
<1>2. ClientType'
    BY <1>1, ClientTypeSame DEF connVars
<1>3. \/ UNCHANGED target
      \/ \E s \in Servers : target' = [target EXCEPT ![c] = s]
    BY DEF GetClientForTool, FetchServerTools, UpdateToolsResult, LookUp, UsingUnchanged,
           TableUnchanged, registryVars
<1>4. target' \in [Callers -> Servers \cup {None}] /\ \A d \in Callers \ {c} : target'[d] = target[d]
    BY <1>3 DEF ControlType
<1>5. \E l \in {"try", "failed", "index", "lookup"} : at' = [at EXCEPT ![c] = l]
    BY DEF GetClientForTool, FetchServerTools, UpdateToolsResult, LookUp, Goes
<1>6. at[c] \in {"idle", "list", "index", "lookup"} /\ target'[c] \in Servers
  <2>1. CASE \E s \in Servers : GetClientForTool(c, s)
    BY <2>1 DEF GetClientForTool, ControlType
  <2>2. CASE FetchServerTools(c) \/ UpdateToolsResult(c) \/ LookUp(c)
    <3>1. at[c] \in {"list", "index", "lookup"} /\ UNCHANGED target
      BY <2>2 DEF FetchServerTools, UpdateToolsResult, LookUp, registryVars
    <3> QED BY <3>1 DEF LocalsInv, LocalsAt
  <2> QED BY <2>1, <2>2
<1>7. indexed' \subseteq Servers
  <2>1. indexed' \subseteq indexed \cup {target'[c]}
    BY DEF GetClientForTool, FetchServerTools, UpdateToolsResult, LookUp, TableUnchanged, registryVars
  <2> QED BY <1>6, <2>1 DEF RegistryType
<1>8. refresh' \in [Callers -> BOOLEAN]
  <2>1. UNCHANGED refresh \/ \E b \in BOOLEAN : refresh' = [refresh EXCEPT ![c] = b]
    <3>1. CASE \E s \in Servers : GetClientForTool(c, s)
      BY <3>1, Zenon DEF GetClientForTool
    <3>2. CASE FetchServerTools(c) \/ UpdateToolsResult(c)
      BY <3>2 DEF FetchServerTools, UpdateToolsResult, registryVars
    <3>3. CASE LookUp(c)
      BY <3>3, Zenon DEF LookUp
    <3> QED BY <3>1, <3>2, <3>3
  <2> QED BY <2>1 DEF ControlType
<1>9. at' \in [Callers -> Labels] /\ LocalsInv'
  <2>1. PICK l \in {"try", "failed", "index", "lookup"} : at' = [at EXCEPT ![c] = l]
    BY <1>5
  <2>2. l \in Labels /\ l \notin InHand
    BY DEF Labels, InHand
  <2>3. mine'[c] = None
    BY <1>1, <1>6 DEF LocalsInv, LocalsAt, InHand
  <2>4. \A d \in Callers \ {c} : at[d] = "refresh" => mu' = d
    BY <1>1 DEF LocalsInv, LocalsAt
  <2>5. using' \in [Callers -> Clients \cup {None}] /\ mine' \in [Callers -> Clients \cup {None}]
    BY <1>1 DEF ControlType
  <2>6. \A d \in Callers \ {c} : using'[d] = using[d] /\ mine'[d] = mine[d]
    BY <1>1
  <2> QED BY <1>4, <1>6, <2>1, <2>2, <2>3, <2>4, <2>5, <2>6, CallerMoves
<1>10. ControlType'
    BY <1>1, <1>4, <1>8, <1>9 DEF ControlType
<1>11. RegistryType'
    BY <1>1, <1>7 DEF RegistryType
<1> QED BY <1>1, <1>2, <1>9, <1>10, <1>11, OwnedSame

LEMMA TypeInit == Init => TypeInv
<1> SUFFICES ASSUME Init PROVE TypeInv
    OBVIOUS
<1>1. ClientType
    BY ClientAssumption DEF Init, ClientInit, ClientType
<1>2. ControlType
    BY DEF Init, ClientInit, ControlType, Labels
<1>3. RegistryType
  <2>1. limit \in Nat /\ slots = 0
    BY RegistryAssumption DEF Init
  <2>2. admin \in [Admins -> [at : {"idle", "close", "returned"}, todo : SUBSET Clients]]
    BY DEF Init
  <2>3. closed \in BOOLEAN /\ overtaken \in BOOLEAN /\ replaced \in BOOLEAN
    BY DEF Init
  <2> QED BY <2>1, <2>2, <2>3 DEF Init, RegistryType
<1>4. LocalsInv
    BY DEF Init, ClientInit, LocalsInv, LocalsAt, InHand
<1>5. Owned = {}
    BY ClientAssumption DEF Init, Owned
<1>6. IsFiniteSet(Owned)
    BY <1>5, FS_EmptySet
<1> QED BY <1>1, <1>2, <1>3, <1>4, <1>6 DEF TypeInv

\* The steps that look at the table, and take a slot.
LEMMA TakeSlotType ==
    ASSUME TypeInv, NEW c \in Callers, TryGetExistingClient(c) \/ AcquireProcessSlot(c)
    PROVE  TypeInv'
<1> USE DEF TypeInv
<1>1. UNCHANGED <<connVars, servers, clients, indexed, closed, overtaken, limit, mu, mine, target,
                  refresh, admin, replaced>>
    BY DEF TryGetExistingClient, AcquireProcessSlot, UsingUnchanged, TableUnchanged, registryVars, connVars
<1>2. ClientType'
    BY <1>1, ClientTypeSame DEF connVars
<1>3. at[c] \in {"try", "local"} /\ target[c] \in Servers /\ mine[c] = None
    BY DEF TryGetExistingClient, AcquireProcessSlot, LocalsInv, LocalsAt, InHand
<1>4. clients[target[c]] \in Clients \cup {None}
    BY <1>3 DEF RegistryType
<1>5. \E l \in {"list", "ready", "failed", "local", "check"} :
         /\ at' = [at EXCEPT ![c] = l]
         /\ \/ using' = using /\ l \notin {"list", "ready"}
            \/ \E k \in Clients : using' = [using EXCEPT ![c] = k]
  <2>1. CASE TryGetExistingClient(c) /\ ~closed /\ Live(target[c])
    <3>1. clients[target[c]] \in Clients
      BY <1>4, <2>1 DEF Live
    <3>2. using' = [using EXCEPT ![c] = clients[target[c]]]
      BY <2>1 DEF TryGetExistingClient, Returns
    <3>3. at' = [at EXCEPT ![c] = "list"] \/ at' = [at EXCEPT ![c] = "ready"]
      BY <2>1 DEF TryGetExistingClient, Returns, Goes
    <3> QED BY <3>1, <3>2, <3>3
  <2>2. CASE TryGetExistingClient(c) /\ ~(~closed /\ Live(target[c]))
    <3>1. using' = using /\ (at' = [at EXCEPT ![c] = "failed"] \/ at' = [at EXCEPT ![c] = "local"])
      BY <2>2 DEF TryGetExistingClient, Goes
    <3> QED BY <3>1
  <2>3. CASE AcquireProcessSlot(c)
    <3>1. using' = using /\ (at' = [at EXCEPT ![c] = "failed"] \/ at' = [at EXCEPT ![c] = "check"])
      BY <2>3 DEF AcquireProcessSlot, Goes, UsingUnchanged
    <3> QED BY <3>1
  <2> QED BY <2>1, <2>2, <2>3
<1>6. slots' \in 0 .. limit
  <2>1. limit \in Nat /\ slots \in 0 .. limit /\ 0 \in Nat
    BY RegistryAssumption DEF RegistryType
  <2>2. slots' = slots \/ (slots' = Acquired /\ (limit > 0 => slots # limit))
    BY DEF TryGetExistingClient, AcquireProcessSlot, registryVars
  <2> QED BY <2>1, <2>2, SlotBounds
<1>7. /\ at' \in [Callers -> Labels] /\ LocalsInv' /\ using' \in [Callers -> Clients \cup {None}]
  <2>1. PICK l \in {"list", "ready", "failed", "local", "check"} :
         /\ at' = [at EXCEPT ![c] = l]
         /\ \/ using' = using /\ l \notin {"list", "ready"}
            \/ \E k \in Clients : using' = [using EXCEPT ![c] = k]
    BY <1>5
  <2>2. l \in Labels /\ l \notin InHand /\ l \notin {"refresh", "discard", "send", "wait"}
    BY DEF Labels, InHand
  <2>3. using' \in [Callers -> Clients \cup {None}] /\ \A d \in Callers \ {c} : using'[d] = using[d]
    BY <2>1 DEF ControlType
  <2>4. l \in {"list", "ready"} => using'[c] \in Clients
    BY <2>1 DEF ControlType
  <2>5. \A d \in Callers \ {c} : at[d] = "refresh" => mu' = d
    BY <1>1 DEF LocalsInv, LocalsAt
  <2>6. mine' \in [Callers -> Clients \cup {None}] /\ target' \in [Callers -> Servers \cup {None}]
    BY <1>1 DEF ControlType
  <2>7. \A d \in Callers \ {c} : mine'[d] = mine[d] /\ target'[d] = target[d]
    BY <1>1
  <2>8. mine'[c] = None /\ target'[c] \in Servers
    BY <1>1, <1>3
  <2> QED BY <2>1, <2>2, <2>3, <2>4, <2>5, <2>6, <2>7, <2>8, CallerMoves
<1>8. ControlType'
    BY <1>1, <1>7 DEF ControlType
<1>9. RegistryType'
    BY <1>1, <1>6 DEF RegistryType
<1> QED BY <1>1, <1>2, <1>7, <1>8, <1>9, OwnedSame

\* A client is made.
LEMMA CreateType ==
    ASSUME TypeInv, NEW c \in Callers, CreateNewClient(c)
    PROVE  TypeInv'
<1> USE DEF TypeInv
<1>1. UNCHANGED <<transport, nextID, table, wire, requestVars, servers, clients, indexed, closed,
                  overtaken, limit, mu, target, refresh, admin>>
    BY DEF CreateNewClient, TableUnchanged
<1>2. at[c] = "check" /\ target[c] \in Servers /\ mine[c] = None /\ c # None
    BY ClientAssumption DEF CreateNewClient, LocalsInv, LocalsAt, InHand
<1>3. \A d \in Callers \ {c} : at[d] = "refresh" => mu' = d
    BY <1>1 DEF LocalsInv, LocalsAt
<1>4. target' \in [Callers -> Servers \cup {None}] /\ target'[c] \in Servers
    BY <1>1, <1>2 DEF ControlType
<1>5. SlotsReplacing(c) \in 0 .. limit /\ Released(1) \in 0 .. limit
  <2>1. Released(1) \in 0 .. limit /\ slots \in 0 .. limit
    BY SlotBounds DEF RegistryType
  <2> QED BY <2>1 DEF SlotsReplacing
<1>6. CASE Live(target[c])
  <2>1. clients[target[c]] \in Clients
    BY <1>2, <1>6 DEF Live, RegistryType
  <2>2. /\ using' = [using EXCEPT ![c] = clients[target[c]]] /\ slots' = Released(1)
        /\ UNCHANGED <<conn, mine, replaced>>
    BY <1>6 DEF CreateNewClient, Returns
  <2>3. PICK l \in {"list", "ready"} : at' = [at EXCEPT ![c] = l]
    BY <1>6 DEF CreateNewClient, Returns, Goes
  <2>4. l \in Labels /\ l \notin InHand /\ l # "refresh"
    BY DEF Labels, InHand
  <2>5. using' \in [Callers -> Clients \cup {None}] /\ using'[c] \in Clients
    BY <2>1, <2>2 DEF ControlType
  <2>6. \A d \in Callers \ {c} : using'[d] = using[d] /\ mine'[d] = mine[d] /\ target'[d] = target[d]
    BY <1>1, <2>2 DEF ControlType
  <2>7. mine' \in [Callers -> Clients \cup {None}] /\ mine'[c] = None
    BY <1>2, <2>2 DEF ControlType
  <2>8. at' \in [Callers -> Labels] /\ LocalsInv'
    BY <1>3, <1>4, <2>3, <2>4, <2>5, <2>6, <2>7, CallerMoves
  <2>9. ClientType'
    BY <1>1, <2>2 DEF ClientType, requestVars
  <2>10. ControlType'
    BY <1>1, <1>4, <2>5, <2>7, <2>8 DEF ControlType
  <2>11. slots' \in 0 .. limit'
    BY <1>1, <1>5, <2>2
  <2>12. RegistryType'
    BY <1>1, <2>2, <2>11 DEF RegistryType
  <2> QED BY <1>1, <2>2, <2>8, <2>9, <2>10, <2>12, OwnedSame
<1>7. CASE ~Live(target[c])
  <2>1. /\ \E j \in Clients : conn[j] = "none"
        /\ slots' = SlotsReplacing(c)
        /\ replaced' = (replaced \/ clients[target[c]] # None)
        /\ conn' = [conn EXCEPT ![Fresh] = "starting"]
        /\ mine' = [mine EXCEPT ![c] = Fresh]
        /\ UNCHANGED using
    BY <1>7 DEF CreateNewClient
  <2>2. Fresh \in Clients /\ conn[Fresh] = "none" /\ Fresh # None
    BY <2>1, FreshIs, ClientAssumption
  <2>3. PICK l \in {"init", "broken"} : at' = [at EXCEPT ![c] = l]
    BY <1>7 DEF CreateNewClient, Goes
  <2>4. l \in Labels /\ l \in InHand /\ l # "refresh"
    BY DEF Labels, InHand
  <2>5. using' \in [Callers -> Clients \cup {None}]
    BY <2>1 DEF ControlType
  <2>6. \A d \in Callers \ {c} : using'[d] = using[d] /\ mine'[d] = mine[d] /\ target'[d] = target[d]
    BY <1>1, <2>1 DEF ControlType
  <2>7. mine' \in [Callers -> Clients \cup {None}] /\ mine'[c] # None
    BY <2>1, <2>2 DEF ControlType
  <2>8. at' \in [Callers -> Labels] /\ LocalsInv'
    BY <1>3, <1>4, <2>3, <2>4, <2>5, <2>6, <2>7, CallerMoves
  <2>9. ClientType'
    BY <1>1, <2>1, <2>2 DEF ClientType, requestVars
  <2>10. ControlType'
    BY <1>1, <1>4, <2>5, <2>7, <2>8 DEF ControlType
  <2>11. slots' \in 0 .. limit'
    BY <1>1, <1>5, <2>1
  <2>12. replaced' \in BOOLEAN
    BY <2>1, Zenon
  <2>13. RegistryType'
    BY <1>1, <2>11, <2>12 DEF RegistryType
  <2>14. Owned' \subseteq Owned \cup {Fresh}
    <3> SUFFICES ASSUME NEW k \in Owned', k # Fresh PROVE k \in Owned
        OBVIOUS
    <3>1. \A d \in Callers : mine'[d] = k => mine[d] = k
      BY <2>1 DEF ControlType
    <3> QED BY <1>1, <3>1 DEF Owned
  <2>15. IsFiniteSet(Owned')
    BY <2>14, FS_AddElement, FS_Subset
  <2> QED BY <2>8, <2>9, <2>10, <2>13, <2>15
<1> QED BY <1>6, <1>7

\* The initialization of a client.
LEMMA InitializeType ==
    ASSUME TypeInv, NEW c \in Callers, InitializeFails(c) \/ Initialize(c)
    PROVE  TypeInv'
<1> USE DEF TypeInv
<1>1. UNCHANGED <<transport, nextID, table, wire, requestVars, servers, clients, indexed, closed,
                  overtaken, limit, mu, using, target, refresh, admin, replaced>>
    BY DEF InitializeFails, Initialize, TableUnchanged, registryVars
<1>2. at[c] \in InHand /\ target[c] \in Servers /\ mine[c] \in Clients
    BY DEF InitializeFails, Initialize, LocalsInv, LocalsAt, InHand, ControlType
<1>3. \E x \in {"up", "closed"} : conn' = [conn EXCEPT ![mine[c]] = x]
    BY DEF InitializeFails, Initialize
<1>4. ClientType'
    BY <1>1, <1>2, <1>3 DEF ClientType, requestVars
<1>5. \/ at' = [at EXCEPT ![c] = "failed"] /\ Forgets(c) /\ slots' = Released(1)
      \/ at' = [at EXCEPT ![c] = "install"] /\ UNCHANGED <<mine, slots>>
    BY DEF InitializeFails, Initialize, Goes, registryVars
<1>6. mine' \in [Callers -> Clients \cup {None}] /\ \A d \in Callers \ {c} : mine'[d] = mine[d]
    BY <1>5 DEF ControlType, Forgets
<1>7. \E l \in {"failed", "install"} : at' = [at EXCEPT ![c] = l] /\ (mine'[c] # None <=> l \in InHand)
  <2>1. CASE at' = [at EXCEPT ![c] = "failed"] /\ Forgets(c)
    BY <2>1 DEF Forgets, ControlType, InHand
  <2>2. CASE at' = [at EXCEPT ![c] = "install"] /\ UNCHANGED mine
    BY <1>2, <2>2, ClientAssumption DEF InHand
  <2> QED BY <1>5, <2>1, <2>2
<1>8. at' \in [Callers -> Labels] /\ LocalsInv'
  <2>1. PICK l \in {"failed", "install"} : /\ at' = [at EXCEPT ![c] = l]
                                           /\ mine'[c] # None <=> l \in InHand
    BY <1>7
  <2>2. l \in Labels
    BY DEF Labels
  <2>3. \A d \in Callers \ {c} : at[d] = "refresh" => mu' = d
    BY <1>1 DEF LocalsInv, LocalsAt
  <2>4. using' \in [Callers -> Clients \cup {None}] /\ target' \in [Callers -> Servers \cup {None}]
    BY <1>1 DEF ControlType
  <2>5. target'[c] \in Servers /\ \A d \in Callers \ {c} : using'[d] = using[d] /\ target'[d] = target[d]
    BY <1>1, <1>2
  <2> QED BY <1>6, <2>1, <2>2, <2>3, <2>4, <2>5, CallerMoves
<1>9. ControlType'
    BY <1>1, <1>6, <1>8 DEF ControlType
<1>10. slots' \in 0 .. limit'
  <2>1. slots' = slots \/ slots' = Released(1)
    BY <1>5
  <2> QED BY <1>1, <2>1, SlotBounds DEF RegistryType
<1>11. RegistryType'
    BY <1>1, <1>10 DEF RegistryType
<1>12. Owned' \subseteq Owned
  <2>1. \A d \in Callers : mine'[d] # None => mine'[d] = mine[d]
    BY <1>5 DEF Forgets, ControlType
  <2> QED BY <1>1, <2>1, ClientAssumption DEF Owned
<1> QED BY <1>4, <1>8, <1>9, <1>11, <1>12, OwnedKept

\* The client is put into the table, or closed, and the tools are listed.
LEMMA InstallType ==
    ASSUME TypeInv, NEW c \in Callers, Install(c)
    PROVE  TypeInv'
<1> USE DEF TypeInv
<1>1. UNCHANGED <<connVars, servers, indexed, closed, overtaken, limit, slots, target, refresh, admin,
                  replaced>>
    BY DEF Install, connVars
<1>2. at[c] = "install" /\ target[c] \in Servers /\ mine[c] \in Clients
    BY DEF Install, LocalsInv, LocalsAt, InHand, ControlType
<1>3. mu = None /\ c # None /\ mu \notin Callers
    BY ClientAssumption DEF Install
<1>4. \A d \in Callers : at[d] # "refresh"
    BY <1>3 DEF LocalsInv, LocalsAt
<1>5. ClientType'
    BY <1>1, ClientTypeSame DEF connVars
<1>6. target' \in [Callers -> Servers \cup {None}] /\ target'[c] \in Servers
    BY <1>1, <1>2 DEF ControlType
<1>7. CASE Live(target[c])
  <2>1. clients[target[c]] \in Clients
    BY <1>2, <1>7 DEF Live, RegistryType
  <2>2. /\ at' = [at EXCEPT ![c] = "discard"] /\ using' = [using EXCEPT ![c] = clients[target[c]]]
        /\ UNCHANGED <<clients, mu, mine>>
    BY <1>7 DEF Install, Goes
  <2>3. using' \in [Callers -> Clients \cup {None}] /\ using'[c] \in Clients
    BY <2>1, <2>2 DEF ControlType
  <2>4. mine' \in [Callers -> Clients \cup {None}] /\ mine'[c] # None
    BY <1>2, <2>2, ClientAssumption DEF ControlType
  <2>5. \A d \in Callers \ {c} : using'[d] = using[d] /\ mine'[d] = mine[d] /\ target'[d] = target[d]
    BY <1>1, <2>2 DEF ControlType
  <2>6. "discard" \in Labels /\ "discard" \in InHand
    BY DEF Labels, InHand
  <2>7. at' \in [Callers -> Labels] /\ LocalsInv'
    BY <1>4, <1>6, <2>2, <2>3, <2>4, <2>5, <2>6, CallerMoves
  <2>8. ControlType'
    BY <1>1, <1>6, <2>3, <2>4, <2>7 DEF ControlType
  <2>9. RegistryType'
    BY <1>1, <2>2 DEF RegistryType
  <2> QED BY <1>1, <1>5, <2>2, <2>7, <2>8, <2>9, OwnedSame
<1>8. CASE ~Live(target[c])
  <2>1. /\ clients' = [clients EXCEPT ![target[c]] = mine[c]]
        /\ mu' = c /\ using' = [using EXCEPT ![c] = mine[c]] /\ mine' = [mine EXCEPT ![c] = None]
        /\ at' = [at EXCEPT ![c] = "refresh"]
    BY <1>8 DEF Install, Goes, Forgets
  <2>2. using' \in [Callers -> Clients \cup {None}] /\ using'[c] \in Clients
    BY <1>2, <2>1 DEF ControlType
  <2>3. mine' \in [Callers -> Clients \cup {None}] /\ mine'[c] = None
    BY <2>1 DEF ControlType
  <2>4. \A d \in Callers \ {c} : using'[d] = using[d] /\ mine'[d] = mine[d] /\ target'[d] = target[d]
    BY <1>1, <2>1 DEF ControlType
  <2>5. "refresh" \in Labels /\ "refresh" \notin InHand
    BY DEF Labels, InHand
  <2>6. at' \in [Callers -> Labels] /\ LocalsInv'
    BY <1>4, <1>6, <2>1, <2>2, <2>3, <2>4, <2>5, CallerMoves
  <2>7. ControlType'
    BY <1>1, <1>6, <2>2, <2>3, <2>6 DEF ControlType
  <2>8. clients' \in [Servers -> Clients \cup {None}]
    BY <1>2, <2>1 DEF RegistryType
  <2>9. RegistryType'
    BY <1>1, <2>1, <2>8 DEF RegistryType
  <2>10. Owned' \subseteq Owned
    <3>1. \A s \in Servers : clients'[s] = clients[s] \/ clients'[s] = mine[c]
      BY <1>2, <2>1 DEF RegistryType
    <3>2. \A d \in Callers : mine'[d] # None => mine'[d] = mine[d]
      BY <2>1 DEF ControlType
    <3> QED BY <1>1, <3>1, <3>2, ClientAssumption DEF Owned
  <2> QED BY <1>5, <2>6, <2>7, <2>9, <2>10, OwnedKept
<1> QED BY <1>7, <1>8

LEMMA DiscardType ==
    ASSUME TypeInv, NEW c \in Callers, Discard(c)
    PROVE  TypeInv'
<1> USE DEF TypeInv
<1>1. UNCHANGED <<transport, nextID, table, requestVars, servers, clients, indexed, closed,
                  overtaken, limit, mu, target, refresh, admin, replaced>>
    BY DEF Discard, TableUnchanged
<1>2. at[c] = "discard" /\ target[c] \in Servers /\ using[c] \in Clients
    BY DEF Discard, LocalsInv, LocalsAt
<1>3. /\ conn' \in [Clients -> {"none", "starting", "up", "deaf", "dead", "closed"}]
      /\ wire' \subseteq wire
    BY DEF Discard, Close, ClientType
<1>4. ClientType'
    BY <1>1, <1>3 DEF ClientType, requestVars
<1>5. mine' = [mine EXCEPT ![c] = None] /\ using' = [using EXCEPT ![c] = using[c]]
    BY DEF Discard, Forgets, Returns
<1>6. mine' \in [Callers -> Clients \cup {None}] /\ mine'[c] = None /\ UNCHANGED using
    BY <1>5 DEF ControlType
<1>7. PICK l \in {"list", "ready"} : at' = [at EXCEPT ![c] = l]
    BY DEF Discard, Returns, Goes
<1>8. l \in Labels /\ l \notin InHand /\ l # "refresh"
    BY DEF Labels, InHand
<1>9. \A d \in Callers \ {c} : /\ using'[d] = using[d] /\ mine'[d] = mine[d] /\ target'[d] = target[d]
                               /\ at[d] = "refresh" => mu' = d
    BY <1>1, <1>5, <1>6 DEF ControlType, LocalsInv, LocalsAt
<1>10. using' \in [Callers -> Clients \cup {None}] /\ target' \in [Callers -> Servers \cup {None}]
    BY <1>1, <1>6 DEF ControlType
<1>11. using'[c] \in Clients /\ target'[c] \in Servers
    BY <1>1, <1>2, <1>6
<1>12. at' \in [Callers -> Labels] /\ LocalsInv'
    BY <1>6, <1>7, <1>8, <1>9, <1>10, <1>11, CallerMoves
<1>13. ControlType'
    BY <1>1, <1>6, <1>10, <1>12 DEF ControlType
<1>14. slots' \in 0 .. limit'
    BY <1>1, SlotBounds DEF Discard
<1>15. RegistryType'
    BY <1>1, <1>14 DEF RegistryType
<1>16. Owned' \subseteq Owned
  <2>1. \A d \in Callers : mine'[d] # None => mine'[d] = mine[d]
    BY <1>5 DEF ControlType
  <2> QED BY <1>1, <2>1, ClientAssumption DEF Owned
<1> QED BY <1>4, <1>12, <1>13, <1>15, <1>16, OwnedKept

LEMMA RefreshType ==
    ASSUME TypeInv, NEW c \in Callers, RefreshToolIndex(c)
    PROVE  TypeInv'
<1> USE DEF TypeInv
<1>1. UNCHANGED <<connVars, servers, clients, closed, overtaken, limit, slots, mine, target, refresh,
                  admin, replaced>>
    BY DEF RefreshToolIndex, connVars
<1>2. at[c] = "refresh" /\ mu = c /\ target[c] \in Servers /\ using[c] \in Clients /\ mine[c] = None
    BY DEF RefreshToolIndex, LocalsInv, LocalsAt, InHand
<1>3. ClientType'
    BY <1>1, ClientTypeSame DEF connVars
<1>4. mu' = None /\ using' = [using EXCEPT ![c] = using[c]] /\ UNCHANGED using
    BY DEF RefreshToolIndex, Returns, ControlType
<1>5. PICK l \in {"list", "ready"} : at' = [at EXCEPT ![c] = l]
    BY DEF RefreshToolIndex, Returns, Goes
<1>6. l \in Labels /\ l \notin InHand /\ l # "refresh"
    BY DEF Labels, InHand
<1>7. \A d \in Callers \ {c} : /\ using'[d] = using[d] /\ mine'[d] = mine[d] /\ target'[d] = target[d]
                               /\ at[d] = "refresh" => mu' = d
    BY <1>1, <1>2, <1>4 DEF LocalsInv, LocalsAt
<1>8. /\ using' \in [Callers -> Clients \cup {None}] /\ target' \in [Callers -> Servers \cup {None}]
      /\ mine' \in [Callers -> Clients \cup {None}]
    BY <1>1, <1>4 DEF ControlType
<1>9. using'[c] \in Clients /\ target'[c] \in Servers /\ mine'[c] = None
    BY <1>1, <1>2, <1>4
<1>10. at' \in [Callers -> Labels] /\ LocalsInv'
    BY <1>5, <1>6, <1>7, <1>8, <1>9, CallerMoves
<1>11. ControlType'
    BY <1>1, <1>8, <1>10 DEF ControlType
<1>12. indexed' \subseteq Servers
    BY <1>2 DEF RefreshToolIndex, RegistryType
<1>13. RegistryType'
    BY <1>1, <1>4, <1>12 DEF RegistryType
<1> QED BY <1>1, <1>3, <1>10, <1>11, <1>13, OwnedSame

\* What the steps of a tool call do to the caller.
LEMMA RequestControl ==
    ASSUME NEW c \in Callers, RequestStep(c)
    PROVE  /\ at[c] \in {"ready", "send", "wait"}
           /\ UNCHANGED <<transport, conn>>
           /\ \/ /\ \E l \in {"send", "wait"} : at' = [at EXCEPT ![c] = l]
                 /\ UNCHANGED using
              \/ /\ \E l \in {"failed", "done"} : at' = [at EXCEPT ![c] = l]
                 /\ using' = [using EXCEPT ![c] = None]
<1>1. CASE CallTool(c)
    BY <1>1 DEF CallTool, Ends
<1>2. CASE SendRequest(c)
    BY <1>2 DEF SendRequest
<1>3. CASE SendFails(c)
    BY <1>3 DEF SendFails, AttemptFails, Ends
<1>4. CASE ReceiveReply(c)
    BY <1>4 DEF ReceiveReply, AttemptFails, Ends
<1>5. CASE RequestTimeout(c)
    BY <1>5 DEF RequestTimeout, AttemptFails, Ends
<1>6. CASE ContextDone(c)
    BY <1>6 DEF ContextDone, Ends
<1> QED BY <1>1, <1>2, <1>3, <1>4, <1>5, <1>6 DEF RequestStep

\* What they do to its requests.
LEMMA RequestData ==
    ASSUME ClientType, NEW c \in Callers, using[c] \in Clients, RequestStep(c)
    PROVE  ClientType'
<1>1. UNCHANGED <<transport, conn>>
    BY RequestControl
<1>2. attempt' \in [Callers -> 0 .. MaxRetries]
  <2>1. \/ UNCHANGED attempt
        \/ attempt' = [attempt EXCEPT ![c] = 0]
        \/ attempt[c] < MaxRetries /\ attempt' = [attempt EXCEPT ![c] = attempt[c] + 1]
    BY DEF RequestStep, CallTool, SendRequest, SendFails, ReceiveReply, RequestTimeout, ContextDone,
           AttemptFails, Ends
  <2>2. MaxRetries \in Nat /\ attempt[c] \in 0 .. MaxRetries
    BY ClientAssumption DEF ClientType
  <2> QED BY <2>1, <2>2 DEF ClientType
<1>3. CASE CallTool(c) \/ SendFails(c)
  <2>1. UNCHANGED <<table, wire, id, reply, result>>
    BY <1>3 DEF CallTool, SendFails
  <2>2. nextID' = nextID \/ nextID' = [nextID EXCEPT ![using[c]] = @ + 1]
    BY <1>3 DEF CallTool, SendFails
  <2>3. nextID' \in [Clients -> Nat]
    BY <2>2 DEF ClientType
  <2> QED BY <1>1, <1>2, <2>1, <2>3 DEF ClientType
<1>4. CASE SendRequest(c)
  <2> DEFINE n == FreshID(c)
  <2>1. n \in Nat
    BY DEF FreshID, ClientType
  <2>2. /\ nextID' = [nextID EXCEPT ![using[c]] = @ + 1]
        /\ id' = [id EXCEPT ![c] = n]
        /\ table' = [table EXCEPT ![using[c]] = {e \in @ : e.id # n} \cup {[id |-> n, chan |-> c]}]
        /\ wire' \subseteq wire \cup {[type |-> "request", client |-> using[c], id |-> n, call |-> c]}
        /\ UNCHANGED <<reply, result>>
    BY <1>4 DEF SendRequest
  <2> HIDE DEF n
  <2>3. nextID' \in [Clients -> Nat] /\ id' \in [Callers -> Nat]
    BY <2>1, <2>2 DEF ClientType
  <2>4. table' \in [Clients -> SUBSET [id : Nat, chan : Callers]]
    BY <2>1, <2>2 DEF ClientType
  <2>5. wire' \subseteq [type : {"request", "reply"}, client : Clients, id : Nat, call : Callers]
    BY <2>1, <2>2 DEF ClientType
  <2> QED BY <1>1, <1>2, <2>2, <2>3, <2>4, <2>5 DEF ClientType
<1>5. CASE ReceiveReply(c) \/ RequestTimeout(c) \/ ContextDone(c)
  <2>1. Deleted(c) /\ UNCHANGED <<nextID, wire>>
    BY <1>5 DEF ReceiveReply, RequestTimeout, ContextDone
  <2>2. result' = result \/ result' = [result EXCEPT ![c] = reply[c]]
    BY <1>5 DEF ReceiveReply, RequestTimeout, ContextDone
  <2>3. id' \in [Callers -> Nat] /\ reply' \in [Callers -> Callers \cup {None}]
    BY <2>1 DEF Deleted, ClientType
  <2>4. table' \in [Clients -> SUBSET [id : Nat, chan : Callers]]
    BY <2>1 DEF Deleted, ClientType
  <2>5. result' \in [Callers -> Callers \cup {None}]
    BY <2>2 DEF ClientType
  <2> QED BY <1>1, <1>2, <2>1, <2>3, <2>4, <2>5 DEF ClientType
<1> QED BY <1>3, <1>4, <1>5 DEF RequestStep

LEMMA RequestType ==
    ASSUME TypeInv, NEW c \in Callers, RequestStep(c), UNCHANGED registryVars
    PROVE  TypeInv'
<1> USE DEF TypeInv
<1>1. UNCHANGED <<servers, clients, indexed, closed, overtaken, limit, slots, mu, mine, target, refresh,
                  admin, replaced>>
    BY DEF registryVars
<1>2. at[c] \in {"ready", "send", "wait"}
    BY RequestControl
<1>3. using[c] \in Clients /\ target[c] \in Servers /\ mine[c] = None
    BY <1>2 DEF LocalsInv, LocalsAt, InHand
<1>4. ClientType'
    BY <1>3, RequestData
<1>5. PICK l \in {"send", "wait", "failed", "done"} :
         /\ at' = [at EXCEPT ![c] = l]
         /\ \/ UNCHANGED using
            \/ using' = [using EXCEPT ![c] = None] /\ l \in {"failed", "done"}
  <2>1. \/ /\ \E l \in {"send", "wait"} : at' = [at EXCEPT ![c] = l]
           /\ UNCHANGED using
        \/ /\ \E l \in {"failed", "done"} : at' = [at EXCEPT ![c] = l]
           /\ using' = [using EXCEPT ![c] = None]
    BY RequestControl
  <2> QED BY <2>1
<1>6. l \in Labels /\ l \notin InHand /\ l \notin {"ready", "list", "discard", "refresh"}
    BY DEF Labels, InHand
<1>7. using' \in [Callers -> Clients \cup {None}] /\ \A d \in Callers \ {c} : using'[d] = using[d]
    BY <1>5 DEF ControlType
<1>8. l \in {"send", "wait"} => using'[c] \in Clients
    BY <1>3, <1>5
<1>9. \A d \in Callers \ {c} : /\ mine'[d] = mine[d] /\ target'[d] = target[d]
                               /\ at[d] = "refresh" => mu' = d
    BY <1>1 DEF LocalsInv, LocalsAt
<1>10. /\ mine' \in [Callers -> Clients \cup {None}] /\ target' \in [Callers -> Servers \cup {None}]
       /\ mine'[c] = None /\ target'[c] \in Servers
    BY <1>1, <1>3 DEF ControlType
<1>11. at' \in [Callers -> Labels] /\ LocalsInv'
    BY <1>5, <1>6, <1>7, <1>8, <1>9, <1>10, CallerMoves
<1>12. ControlType'
    BY <1>1, <1>7, <1>10, <1>11 DEF ControlType
<1>13. RegistryType'
    BY <1>1, RegistryTypeSame DEF tableVars
<1> QED BY <1>1, <1>4, <1>11, <1>12, <1>13, OwnedSame

LEMMA ServerType ==
    ASSUME TypeInv, ServerStep, UNCHANGED registryVars
    PROVE  TypeInv'
<1> USE DEF TypeInv
<1>1. UNCHANGED <<servers, clients, indexed, closed, overtaken, limit, slots, mu, mine, target, refresh,
                  admin, replaced>>
    BY DEF registryVars
<1>2. UNCHANGED <<transport, nextID, at, using, id, attempt, result>>
    BY DEF ServerStep, ServerHandles, HandleMessage, Dies, ReaderStops, requestVars
<1>3. ClientType'
  <2>1. ASSUME NEW m \in wire, ServerHandles(m) PROVE ClientType'
    <3>1. UNCHANGED <<conn, table, reply>>
      BY <2>1 DEF ServerHandles
    <3>2. wire' \subseteq [type : {"request", "reply"}, client : Clients, id : Nat, call : Callers]
      BY <2>1 DEF ServerHandles, ClientType
    <3> QED BY <1>2, <3>1, <3>2 DEF ClientType
  <2>2. ASSUME NEW m \in wire, HandleMessage(m) PROVE ClientType'
    <3>1. m.call \in Callers /\ wire' \subseteq wire /\ UNCHANGED conn
      BY <2>2 DEF HandleMessage, ClientType
    <3>2. reply' \in [Callers -> Callers \cup {None}]
      BY <2>2, <3>1 DEF HandleMessage, ClientType
    <3>3. table' \in [Clients -> SUBSET [id : Nat, chan : Callers]]
      BY <2>2 DEF HandleMessage, ClientType
    <3> QED BY <1>2, <3>1, <3>2, <3>3 DEF ClientType
  <2>3. ASSUME NEW k \in Clients, Dies(k) \/ ReaderStops(k) PROVE ClientType'
    <3>1. wire' \subseteq wire /\ UNCHANGED <<table, reply>>
      BY <2>3 DEF Dies, ReaderStops, requestVars
    <3>2. conn' \in [Clients -> {"none", "starting", "up", "deaf", "dead", "closed"}]
      BY <2>3 DEF Dies, ReaderStops, ClientType
    <3> QED BY <1>2, <3>1, <3>2 DEF ClientType
  <2> QED BY <2>1, <2>2, <2>3 DEF ServerStep
<1>4. ControlType' /\ LocalsInv'
    BY <1>1, <1>2 DEF ControlType, LocalsInv, LocalsAt
<1>5. RegistryType'
    BY <1>1, RegistryTypeSame DEF tableVars
<1> QED BY <1>1, <1>3, <1>4, <1>5, OwnedSame

\* The admins.
LEMMA AdminControl ==
    ASSUME ControlType, LocalsInv, UNCHANGED <<at, using, mine, target, refresh>>,
           mu \in Callers => UNCHANGED mu
    PROVE  ControlType' /\ LocalsInv'
BY DEF ControlType, LocalsInv, LocalsAt

LEMMA AdminType ==
    ASSUME TypeInv,
           \/ \E s \in Servers : RegisterServer(s)
           \/ \E a \in Admins : \/ \E s \in Servers : UnregisterServer(a, s)
                                \/ CloseRegistry(a) \/ CloseClients(a)
    PROVE  TypeInv'
<1> USE DEF TypeInv
<1>1. None \notin Callers /\ None \notin Admins /\ Callers \cap Admins = {} /\ None \notin Clients
    BY ClientAssumption, RegistryAssumption
<1>2. ASSUME NEW s \in Servers, RegisterServer(s) PROVE TypeInv'
  <2>1. UNCHANGED <<clientVars, clients, indexed, closed, overtaken, limit, slots, mu, mine, target,
                    refresh, admin, replaced>>
    BY <1>2 DEF RegisterServer
  <2>2. servers' \subseteq Servers
    BY <1>2 DEF RegisterServer, RegistryType
  <2>3. RegistryType'
    BY <2>1, <2>2 DEF RegistryType
  <2> QED BY <2>1, <2>3, ClientTypeSame, AdminControl, OwnedSame DEF clientVars, connVars, requestVars
<1>3. ASSUME NEW a \in Admins, NEW s \in Servers, UnregisterServer(a, s) PROVE TypeInv'
  <2>1. UNCHANGED <<clientVars, closed, overtaken, limit, slots, mu, mine, target, refresh, replaced>>
    BY <1>3 DEF UnregisterServer
  <2>2. /\ servers' \subseteq servers /\ indexed' \subseteq indexed
        /\ clients' = [clients EXCEPT ![s] = None]
        /\ admin' = [admin EXCEPT ![a] = [at |-> "close", todo |-> {clients[s]} \ {None}]]
    BY <1>3 DEF UnregisterServer
  <2>3. {clients[s]} \ {None} \subseteq Clients
    BY DEF RegistryType
  <2>4. admin' \in [Admins -> [at : {"idle", "close", "returned"}, todo : SUBSET Clients]]
    BY <2>2, <2>3 DEF RegistryType
  <2>5. RegistryType'
    BY <2>1, <2>2, <2>4 DEF RegistryType
  <2>6. Owned' \subseteq Owned
    <3>1. \A t \in Servers : clients'[t] # None => clients'[t] = clients[t]
      BY <2>2 DEF RegistryType
    <3>2. \A b \in Admins, k \in Clients : k \in admin'[b].todo => k \in admin[b].todo \/ k = clients[s]
      BY <2>2 DEF RegistryType
    <3> QED BY <1>1, <2>1, <3>1, <3>2 DEF Owned
  <2> QED BY <2>1, <2>5, <2>6, ClientTypeSame, AdminControl, OwnedKept
          DEF clientVars, connVars, requestVars
<1>4. ASSUME NEW a \in Admins, CloseRegistry(a) PROVE TypeInv'
  <2>1. UNCHANGED <<clientVars, servers, clients, indexed, limit, slots, mine, target, refresh, replaced>>
    BY <1>4 DEF CloseRegistry
  <2>2. mu = None /\ mu' \in {None, a} /\ closed' = TRUE /\ overtaken' \in BOOLEAN
    BY <1>4 DEF CloseRegistry
  <2> DEFINE All == {clients[s] : s \in Servers} \ {None}
  <2>3. All \subseteq Clients
    BY DEF RegistryType
  <2>4. \/ admin' = [admin EXCEPT ![a].at = "returned"]
        \/ admin' = [admin EXCEPT ![a] = [at |-> "close", todo |-> All]]
    BY <1>4 DEF CloseRegistry
  <2>5. admin' \in [Admins -> [at : {"idle", "close", "returned"}, todo : SUBSET Clients]]
    BY <2>3, <2>4 DEF RegistryType
  <2>6. RegistryType'
    BY <2>1, <2>2, <2>5 DEF RegistryType
  <2>7. Owned' \subseteq Owned
    <3>1. \A b \in Admins, k \in Clients : k \in admin'[b].todo => k \in admin[b].todo \/ k \in All
      BY <2>4 DEF RegistryType
    <3>2. \A k \in All : \E s \in Servers : clients[s] = k
      OBVIOUS
    <3> QED BY <2>1, <3>1, <3>2 DEF Owned
  <2> QED BY <1>1, <2>1, <2>2, <2>6, <2>7, ClientTypeSame, AdminControl, OwnedKept
          DEF clientVars, connVars, requestVars
<1>5. ASSUME NEW a \in Admins, CloseClients(a) PROVE TypeInv'
  <2>1. UNCHANGED <<transport, nextID, table, at, using, requestVars, servers, closed, overtaken, limit,
                    mine, target, refresh, replaced>>
    BY <1>5 DEF CloseClients
  <2>2. /\ conn' \in [Clients -> {"none", "starting", "up", "deaf", "dead", "closed"}]
        /\ wire' \subseteq wire
    BY <1>5 DEF CloseClients, Close, ClientType
  <2>3. ClientType'
    BY <2>1, <2>2 DEF ClientType, requestVars
  <2>4. admin' = [admin EXCEPT ![a] = [at |-> "returned", todo |-> {}]]
    BY <1>5 DEF CloseClients
  <2>5. admin' \in [Admins -> [at : {"idle", "close", "returned"}, todo : SUBSET Clients]]
    BY <2>4 DEF RegistryType
  <2>6. \/ mu = a /\ mu' = None /\ indexed' = {} /\ clients' = [s \in Servers |-> None]
        \/ mu # a /\ UNCHANGED <<mu, indexed, clients>>
    BY <1>5 DEF CloseClients
  <2>7. admin[a].todo \subseteq Owned
    BY DEF Owned, RegistryType
  <2>8. Cardinality(admin[a].todo) \in Nat
    BY <2>7, FS_Subset, FS_CardinalityType
  <2>9. slots' \in 0 .. limit'
    BY <1>5, <2>1, <2>8, SlotBounds DEF CloseClients
  <2>10. RegistryType'
    BY <2>1, <2>5, <2>6, <2>9 DEF RegistryType
  <2>11. Owned' \subseteq Owned
    <3>1. \A t \in Servers : clients'[t] # None => clients'[t] = clients[t]
      BY <2>6
    <3>2. \A b \in Admins : admin'[b].todo \subseteq admin[b].todo
      BY <2>4 DEF RegistryType
    <3> QED BY <1>1, <2>1, <3>1, <3>2 DEF Owned
  <2> QED BY <1>1, <2>1, <2>3, <2>6, <2>10, <2>11, AdminControl, OwnedKept
<1> QED BY <1>2, <1>3, <1>4, <1>5

LEMMA TypeNext == TypeInv /\ [Next]_vars => TypeInv'
<1> SUFFICES ASSUME TypeInv, [Next]_vars PROVE TypeInv'
    OBVIOUS
<1>1. ASSUME NEW c \in Callers, \/ \E s \in Servers : GetClientForTool(c, s)
                                \/ GetClientStep(c)
      PROVE  TypeInv'
    BY <1>1, LookupType, TakeSlotType, CreateType, InitializeType, InstallType, DiscardType, RefreshType
       DEF GetClientStep
<1>2. ASSUME NEW c \in Callers, RequestStep(c), UNCHANGED registryVars PROVE TypeInv'
    BY <1>2, RequestType
<1>3. CASE UNCHANGED vars
  <2>1. UNCHANGED <<connVars, tableVars, at, using, mine, target, refresh, clients, admin, mu>>
    BY <1>3 DEF vars, clientVars, registryVars, requestVars, connVars, tableVars
  <2>2. ControlType' /\ LocalsInv'
    BY <2>1 DEF TypeInv, ControlType, LocalsInv, LocalsAt
  <2> QED BY <2>1, <2>2, ClientTypeSame, RegistryTypeSame, OwnedSame DEF TypeInv
<1> QED BY <1>1, <1>2, <1>3, ServerType, AdminType DEF Next

\* The variables hold what the code can put there; the semaphore never gives
\* back more than was taken, and never takes more than its capacity
\* (registry.go acquireProcessSlot, releaseProcessSlot).
THEOREM TypeIsCorrect == Spec => []TypeOK
<1>1. TypeInv => TypeOK
    BY TypeParts DEF TypeInv
<1> QED BY <1>1, TypeInit, TypeNext, PTL DEF Spec

-----------------------------------------------------------------------------
(* Replies and calls.                                                      *)

\* An id is given out once by a connection: what is pending and what travels
\* under one id are of one call.
IdsInv ==
    /\ \A k \in Clients : \A e \in table[k] : e.id <= nextID[k]
    /\ \A m \in wire : m.id <= nextID[m.client]
    /\ \A m \in wire : \A e \in table[m.client] : e.id = m.id => e.chan = m.call

\* What is in a response channel is the answer to the call that reads it.
RepliesInv == \A c \in Callers : reply[c] # None => at[c] = "wait" /\ reply[c] = c

RequestInv == IdsInv /\ RepliesInv /\ AnswerIsOwn /\ TableIsWaitedFor

\* The steps that send nothing, deliver nothing and end no wait.
LEMMA QuietRequests ==
    ASSUME TypeInv, RequestInv, UNCHANGED <<nextID, table, requestVars>>, wire' \subseteq wire,
           \A d \in Callers : /\ at[d] = "wait" => at'[d] = "wait" /\ using'[d] = using[d]
                              /\ at'[d] = "done" => at[d] = "done"
    PROVE  RequestInv'
<1>1. UNCHANGED <<id, reply, result>>
    BY DEF requestVars
<1>2. IdsInv'
    BY DEF RequestInv, IdsInv
<1>3. RepliesInv' /\ AnswerIsOwn'
    BY <1>1 DEF RequestInv, RepliesInv, AnswerIsOwn
<1>4. \A k \in Clients : \A e \in table[k] : e.chan \in Callers
    BY DEF TypeInv, ClientType
<1>5. TableIsWaitedFor'
    BY <1>1, <1>4 DEF RequestInv, TableIsWaitedFor
<1> QED BY <1>2, <1>3, <1>5 DEF RequestInv

LEMMA GetClientIsQuiet ==
    ASSUME TypeInv, RequestInv, NEW c \in Callers,
           (\E s \in Servers : GetClientForTool(c, s)) \/ GetClientStep(c)
    PROVE  RequestInv'
<1>1. at[c] \notin {"wait", "done"}
    BY DEF GetClientForTool, GetClientStep, FetchServerTools, UpdateToolsResult, LookUp,
           TryGetExistingClient, AcquireProcessSlot, CreateNewClient, InitializeFails, Initialize,
           Install, Discard, RefreshToolIndex
<1>2. UNCHANGED <<nextID, table, requestVars>>
    BY DEF GetClientForTool, GetClientStep, FetchServerTools, UpdateToolsResult, LookUp, UsingUnchanged,
           TryGetExistingClient, AcquireProcessSlot, CreateNewClient, InitializeFails, Initialize,
           Install, Discard, RefreshToolIndex
<1>3. wire' \subseteq wire
    BY DEF GetClientForTool, GetClientStep, FetchServerTools, UpdateToolsResult, LookUp, UsingUnchanged,
           TryGetExistingClient, AcquireProcessSlot, CreateNewClient, InitializeFails, Initialize,
           Install, Discard, RefreshToolIndex, Close
<1>4. \E l \in Labels \ {"wait", "done"} : at' = [at EXCEPT ![c] = l]
  <2>1. CASE \E s \in Servers : GetClientForTool(c, s)
    BY <2>1 DEF GetClientForTool, Goes, Labels
  <2>2. CASE FetchServerTools(c) \/ UpdateToolsResult(c) \/ LookUp(c)
    BY <2>2 DEF FetchServerTools, UpdateToolsResult, LookUp, Goes, Labels
  <2>3. CASE TryGetExistingClient(c) \/ AcquireProcessSlot(c)
    BY <2>3 DEF TryGetExistingClient, AcquireProcessSlot, Returns, Goes, Labels
  <2>4. CASE CreateNewClient(c)
    BY <2>4 DEF CreateNewClient, Returns, Goes, Labels
  <2>5. CASE InitializeFails(c) \/ Initialize(c)
    BY <2>5 DEF InitializeFails, Initialize, Goes, Labels
  <2>6. CASE Install(c) \/ Discard(c) \/ RefreshToolIndex(c)
    BY <2>6 DEF Install, Discard, RefreshToolIndex, Returns, Goes, Labels
  <2> QED BY <2>1, <2>2, <2>3, <2>4, <2>5, <2>6 DEF GetClientStep
<1>5. UNCHANGED using \/ \E k : using' = [using EXCEPT ![c] = k]
    BY DEF GetClientForTool, GetClientStep, FetchServerTools, UpdateToolsResult, LookUp, UsingUnchanged,
           TryGetExistingClient, AcquireProcessSlot, CreateNewClient, InitializeFails, Initialize,
           Install, Discard, RefreshToolIndex, Returns
<1>6. \A d \in Callers \ {c} : using'[d] = using[d] /\ at'[d] = at[d]
    BY <1>4, <1>5 DEF TypeInv, ControlType
<1>7. at'[c] # "done"
    BY <1>4 DEF TypeInv, ControlType
<1> QED BY <1>1, <1>2, <1>3, <1>6, <1>7, QuietRequests

\* A request is sent, under an id that nobody knows.
LEMMA SendAnswers ==
    ASSUME TypeInv, RequestInv, NEW c \in Callers, SendRequest(c)
    PROVE  RequestInv'
<1> DEFINE k == using[c]
<1> DEFINE n == FreshID(c)
<1> DEFINE req == [type |-> "request", client |-> k, id |-> n, call |-> c]
<1> DEFINE new == [id |-> n, chan |-> c]
<1>1. k \in Clients /\ at[c] = "send"
    BY DEF SendRequest, TypeInv, LocalsInv, LocalsAt
<1>2. /\ at' = [at EXCEPT ![c] = "wait"]
      /\ nextID' = [nextID EXCEPT ![k] = @ + 1]
      /\ id' = [id EXCEPT ![c] = n]
      /\ table' = [table EXCEPT ![k] = {e \in @ : e.id # n} \cup {new}]
      /\ wire' \subseteq wire \cup {req}
      /\ UNCHANGED <<using, reply, result>>
    BY DEF SendRequest
<1>3. n = nextID[k] + 1 /\ nextID[k] \in Nat
    BY <1>1 DEF FreshID, TypeInv, ClientType
<1>4. req.client = k /\ req.id = n /\ req.call = c /\ new.id = n /\ new.chan = c
    OBVIOUS
<1> HIDE DEF n, k, req, new
<1>5. at \in [Callers -> Labels] /\ nextID \in [Clients -> Nat] /\ id \in [Callers -> Nat]
    BY DEF TypeInv, ClientType, ControlType
<1>6. \A j \in Clients : nextID'[j] \in Nat /\ nextID[j] \in Nat /\ nextID[j] <= nextID'[j]
    BY <1>2, <1>3, <1>5
<1>7. nextID'[k] = n /\ n \in Nat
    BY <1>1, <1>2, <1>3, <1>5
<1>8. \A j \in Clients : \A e \in table'[j] :
         (e \in table[j] /\ e.id \in Nat /\ e.chan \in Callers) \/ (j = k /\ e = new)
    BY <1>1, <1>2 DEF TypeInv, ClientType
<1>9. \A j \in Clients : \A e \in table[j] : e.id \in Nat /\ e.id <= nextID[j] /\ e.chan # c
    BY <1>1 DEF RequestInv, IdsInv, TableIsWaitedFor, TypeInv, ClientType
<1>10. \A m \in wire : m.client \in Clients /\ m.id \in Nat /\ m.id <= nextID[m.client]
    BY DEF RequestInv, IdsInv, TypeInv, ClientType
<1>11. IdsInv'
  <2>1. ASSUME NEW j \in Clients, NEW e \in table'[j] PROVE e.id <= nextID'[j]
    <3>1. CASE j = k /\ e = new
      BY <1>4, <1>7, <3>1
    <3>2. CASE e \in table[j]
      <4>1. e.id \in Nat /\ e.id <= nextID[j] /\ nextID[j] <= nextID'[j]
        BY <1>6, <1>9, <3>2
      <4> QED BY <1>6, <4>1
    <3> QED BY <1>8, <3>1, <3>2
  <2>2. ASSUME NEW m \in wire' PROVE m.id <= nextID'[m.client]
    <3>1. CASE m = req
      BY <1>4, <1>7, <3>1
    <3>2. CASE m \in wire
      BY <1>6, <1>10, <3>2
    <3> QED BY <1>2, <3>1, <3>2
  <2>3. ASSUME NEW m \in wire', NEW e \in table'[m.client], e.id = m.id PROVE e.chan = m.call
    <3>1. CASE m = req
      <4>1. e \in table'[k] /\ e.id = n
        BY <1>4, <2>3, <3>1
      <4>2. e \in table[k] => e.id <= nextID[k]
        BY <1>1, <1>9
      <4>3. e = new
        BY <1>1, <1>3, <1>8, <4>1, <4>2
      <4> QED BY <1>4, <3>1, <4>3
    <3>2. CASE m \in wire
      <4>1. m.client \in Clients /\ m.id \in Nat /\ m.id <= nextID[m.client]
        BY <1>10, <3>2
      <4>2. CASE m.client = k /\ e = new
        BY <1>3, <1>4, <2>3, <4>1, <4>2
      <4>3. CASE e \in table[m.client]
        BY <2>3, <3>2, <4>3 DEF RequestInv, IdsInv
      <4> QED BY <1>8, <4>1, <4>2, <4>3
    <3> QED BY <1>2, <3>1, <3>2
  <2> QED BY <2>1, <2>2, <2>3 DEF IdsInv
<1>12. \A d \in Callers : at'[d] = IF d = c THEN "wait" ELSE at[d]
    BY <1>2, <1>5
<1>13. RepliesInv' /\ AnswerIsOwn'
    BY <1>2, <1>12 DEF RequestInv, RepliesInv, AnswerIsOwn
<1>14. TableIsWaitedFor'
  <2>1. ASSUME NEW j \in Clients, NEW e \in table'[j]
        PROVE  at'[e.chan] = "wait" /\ using'[e.chan] = j /\ e.id = id'[e.chan]
    <3>1. CASE j = k /\ e = new
      BY <1>2, <1>4, <1>5, <1>12, <3>1 DEF k
    <3>2. CASE e \in table[j] /\ e.chan \in Callers
      <4>1. e.chan # c /\ at[e.chan] = "wait" /\ using[e.chan] = j /\ e.id = id[e.chan]
        BY <1>9, <3>2 DEF RequestInv, TableIsWaitedFor
      <4> QED BY <1>2, <1>5, <1>12, <3>2, <4>1
    <3> QED BY <1>8, <3>1, <3>2
  <2> QED BY <2>1 DEF TableIsWaitedFor
<1> QED BY <1>11, <1>13, <1>14 DEF RequestInv

\* An attempt ends and takes what it had registered with it.
LEMMA DeletedAnswers ==
    ASSUME TypeInv, RequestInv, NEW c \in Callers, NEW l \in Labels \ {"wait"},
           using[c] \in Clients, Deleted(c), at' = [at EXCEPT ![c] = l],
           \A d \in Callers \ {c} : using'[d] = using[d] /\ result'[d] = result[d],
           l = "done" => result'[c] = c, UNCHANGED <<nextID, wire>>
    PROVE  RequestInv'
<1>1. /\ table' = [table EXCEPT ![using[c]] = @ \ {Entry(c)}]
      /\ id' = [id EXCEPT ![c] = 0] /\ reply' = [reply EXCEPT ![c] = None]
    BY DEF Deleted
<1>2. /\ at \in [Callers -> Labels] /\ id \in [Callers -> Nat] /\ reply \in [Callers -> Callers \cup {None}]
      /\ table \in [Clients -> SUBSET [id : Nat, chan : Callers]]
    BY DEF TypeInv, ClientType, ControlType
<1>3. \A j \in Clients : table'[j] \subseteq table[j]
    BY <1>1, <1>2
<1>4. \A m \in wire : m.client \in Clients
    BY DEF TypeInv, ClientType
<1>5. IdsInv'
    BY <1>3, <1>4 DEF RequestInv, IdsInv
<1>6. \A d \in Callers : at'[d] = IF d = c THEN l ELSE at[d]
    BY <1>2
<1>7. \A d \in Callers : reply'[d] = IF d = c THEN None ELSE reply[d]
    BY <1>1, <1>2
<1>8. RepliesInv' /\ AnswerIsOwn'
    BY <1>6, <1>7 DEF RequestInv, RepliesInv, AnswerIsOwn
<1>9. TableIsWaitedFor'
  <2>1. ASSUME NEW j \in Clients, NEW e \in table'[j]
        PROVE  at'[e.chan] = "wait" /\ using'[e.chan] = j /\ e.id = id'[e.chan]
    <3>1. e \in table[j] /\ e \in [id : Nat, chan : Callers]
      BY <1>2, <1>3
    <3>2. at[e.chan] = "wait" /\ using[e.chan] = j /\ e.id = id[e.chan]
      BY <3>1 DEF RequestInv, TableIsWaitedFor
    <3>3. e.chan # c
      <4> SUFFICES ASSUME e.chan = c PROVE FALSE
          OBVIOUS
      <4>1. e = Entry(c) /\ j = using[c]
        BY <3>1, <3>2 DEF Entry
      <4> QED BY <1>1, <1>2, <4>1
    <3> QED BY <1>1, <1>2, <1>6, <3>1, <3>2, <3>3
  <2> QED BY <2>1 DEF TableIsWaitedFor
<1> QED BY <1>5, <1>8, <1>9 DEF RequestInv

LEMMA RequestAnswers ==
    ASSUME TypeInv, RequestInv, NEW c \in Callers, RequestStep(c)
    PROVE  RequestInv'
<1>1. at[c] \in {"ready", "send", "wait"} /\ using[c] \in Clients
    BY RequestControl DEF TypeInv, LocalsInv, LocalsAt
<1>2. \A d \in Callers \ {c} : using'[d] = using[d] /\ at'[d] = at[d]
    BY RequestControl DEF TypeInv, ControlType
<1>3. CASE CallTool(c) \/ SendFails(c)
  <2>1. UNCHANGED <<table, wire, id, reply, result>> /\ at[c] # "wait"
    BY <1>3 DEF CallTool, SendFails
  <2>2. nextID' = nextID \/ nextID' = [nextID EXCEPT ![using[c]] = @ + 1]
    BY <1>3 DEF CallTool, SendFails
  <2>3. \A k \in Clients : nextID[k] \in Nat /\ nextID'[k] \in Nat /\ nextID[k] <= nextID'[k]
    BY <2>2 DEF TypeInv, ClientType
  <2>4. at' = [at EXCEPT ![c] = "send"] \/ at' = [at EXCEPT ![c] = "failed"]
    BY <1>3 DEF CallTool, SendFails, AttemptFails, Ends
  <2>5. at'[c] \in {"send", "failed"}
    BY <2>4 DEF TypeInv, ControlType
  <2>6. IdsInv'
    <3>1. \A k \in Clients : \A e \in table[k] : e.id \in Nat /\ e.id <= nextID[k]
      BY DEF RequestInv, IdsInv, TypeInv, ClientType
    <3>2. \A m \in wire : m.client \in Clients /\ m.id \in Nat /\ m.id <= nextID[m.client]
      BY DEF RequestInv, IdsInv, TypeInv, ClientType
    <3>3. \A k \in Clients : \A e \in table'[k] : e.id <= nextID'[k]
      BY <2>1, <2>3, <3>1
    <3>4. \A m \in wire' : m.id <= nextID'[m.client]
      BY <2>1, <2>3, <3>2
    <3> QED BY <2>1, <3>3, <3>4 DEF RequestInv, IdsInv
  <2>7. RepliesInv' /\ AnswerIsOwn'
    BY <1>2, <2>1, <2>5 DEF RequestInv, RepliesInv, AnswerIsOwn
  <2>8. TableIsWaitedFor'
    <3>1. \A k \in Clients : \A e \in table[k] : e.chan \in Callers
      BY DEF TypeInv, ClientType
    <3> QED BY <1>2, <2>1, <3>1 DEF RequestInv, TableIsWaitedFor
  <2> QED BY <2>6, <2>7, <2>8 DEF RequestInv
<1>4. CASE SendRequest(c)
    BY <1>4, SendAnswers
<1>5. CASE ReceiveReply(c) \/ RequestTimeout(c) \/ ContextDone(c)
  <2>1. Deleted(c) /\ UNCHANGED <<nextID, wire>>
    BY <1>5 DEF ReceiveReply, RequestTimeout, ContextDone
  <2>2. \/ UNCHANGED result /\ \E l \in {"send", "failed"} : at' = [at EXCEPT ![c] = l]
        \/ /\ at' = [at EXCEPT ![c] = "done"] /\ reply[c] # None
           /\ result' = [result EXCEPT ![c] = reply[c]]
    BY <1>5 DEF ReceiveReply, RequestTimeout, ContextDone, AttemptFails, Ends
  <2>3. PICK l \in {"send", "failed", "done"} :
           at' = [at EXCEPT ![c] = l] /\ (l = "done" => result'[c] = c)
    <3>1. reply[c] # None => reply[c] = c
      BY DEF RequestInv, RepliesInv
    <3> QED BY <2>2, <3>1 DEF TypeInv, ClientType
  <2>4. \A d \in Callers \ {c} : result'[d] = result[d]
    BY <2>2 DEF TypeInv, ClientType
  <2>5. l \in Labels \ {"wait"}
    BY DEF Labels
  <2> QED BY <1>1, <1>2, <2>1, <2>3, <2>4, <2>5, DeletedAnswers
<1> QED BY <1>3, <1>4, <1>5 DEF RequestStep

LEMMA ServerAnswers ==
    ASSUME TypeInv, RequestInv, ServerStep
    PROVE  RequestInv'
<1>1. UNCHANGED <<transport, nextID, at, using, id, attempt, result>>
    BY DEF ServerStep, ServerHandles, HandleMessage, Dies, ReaderStops, requestVars
<1>2. ASSUME NEW m \in wire, ServerHandles(m) PROVE RequestInv'
  <2> DEFINE ans == [m EXCEPT !.type = "reply"]
  <2>1. wire' \subseteq wire \cup {ans} /\ UNCHANGED <<table, reply>>
    BY <1>2 DEF ServerHandles
  <2>2. ans.client = m.client /\ ans.id = m.id /\ ans.call = m.call
    BY DEF TypeInv, ClientType
  <2> HIDE DEF ans
  <2>3. IdsInv'
    <3>1. \A j \in Clients : \A e \in table'[j] : e.id <= nextID'[j]
      BY <1>1, <2>1 DEF RequestInv, IdsInv
    <3>2. \A w \in wire' : \E v \in wire : w.client = v.client /\ w.id = v.id /\ w.call = v.call
      BY <2>1, <2>2
    <3>3. \A w \in wire' : w.id <= nextID'[w.client]
      BY <1>1, <3>2 DEF RequestInv, IdsInv
    <3>4. \A w \in wire' : \A e \in table'[w.client] : e.id = w.id => e.chan = w.call
      BY <2>1, <3>2 DEF RequestInv, IdsInv
    <3> QED BY <3>1, <3>3, <3>4 DEF IdsInv
  <2> QED BY <1>1, <2>1, <2>3 DEF RequestInv, RepliesInv, AnswerIsOwn, TableIsWaitedFor
<1>3. ASSUME NEW m \in wire, HandleMessage(m) PROVE RequestInv'
  <2>1. /\ wire' \subseteq wire
        /\ reply' = [c \in Callers |-> IF [id |-> m.id, chan |-> c] \in table[m.client] /\ reply[c] = None
                                       THEN m.call ELSE reply[c]]
        /\ table' = table \/ table' = [table EXCEPT ![m.client] = {e \in @ : e.id # m.id}]
    BY <1>3 DEF HandleMessage
  <2>2. m.client \in Clients /\ m.id \in Nat /\ m.call \in Callers
    BY DEF TypeInv, ClientType
  <2>3. \A j \in Clients : table'[j] \subseteq table[j]
    BY <2>1, <2>2 DEF TypeInv, ClientType
  <2>4. \A w \in wire : w.client \in Clients
    BY DEF TypeInv, ClientType
  <2>5. IdsInv'
    BY <1>1, <2>1, <2>3, <2>4 DEF RequestInv, IdsInv
  <2>6. RepliesInv'
    <3> SUFFICES ASSUME NEW c \in Callers, reply'[c] # None PROVE at'[c] = "wait" /\ reply'[c] = c
        BY DEF RepliesInv
    <3>1. CASE [id |-> m.id, chan |-> c] \in table[m.client] /\ reply[c] = None
      <4> DEFINE e == [id |-> m.id, chan |-> c]
      <4>1. e \in table[m.client] /\ e.id = m.id /\ e.chan = c
        BY <3>1
      <4>2. reply'[c] = m.call
        BY <2>1, <3>1
      <4> HIDE DEF e
      <4>3. m.call = c
        BY <4>1 DEF RequestInv, IdsInv
      <4>4. at[c] = "wait"
        BY <2>2, <4>1 DEF RequestInv, TableIsWaitedFor
      <4> QED BY <1>1, <4>2, <4>3, <4>4
    <3>2. CASE ~([id |-> m.id, chan |-> c] \in table[m.client] /\ reply[c] = None)
      <4>1. reply'[c] = reply[c]
        BY <2>1, <3>2
      <4> QED BY <1>1, <4>1 DEF RequestInv, RepliesInv
    <3> QED BY <3>1, <3>2
  <2>7. AnswerIsOwn' /\ TableIsWaitedFor'
    BY <1>1, <2>3 DEF RequestInv, AnswerIsOwn, TableIsWaitedFor
  <2> QED BY <2>5, <2>6, <2>7 DEF RequestInv
<1>4. ASSUME NEW k \in Clients, Dies(k) \/ ReaderStops(k) PROVE RequestInv'
  <2>1. wire' \subseteq wire /\ UNCHANGED <<table, requestVars>>
    BY <1>4 DEF Dies, ReaderStops
  <2> QED BY <1>1, <2>1, QuietRequests
<1> QED BY <1>2, <1>3, <1>4 DEF ServerStep

LEMMA AdminIsQuiet ==
    ASSUME TypeInv, RequestInv,
           \/ \E s \in Servers : RegisterServer(s)
           \/ \E a \in Admins : \/ \E s \in Servers : UnregisterServer(a, s)
                                \/ CloseRegistry(a) \/ CloseClients(a)
    PROVE  RequestInv'
<1>1. UNCHANGED <<nextID, table, requestVars, at, using>> /\ wire' \subseteq wire
    BY DEF RegisterServer, UnregisterServer, CloseRegistry, CloseClients, Close, clientVars
<1> QED BY <1>1, QuietRequests

LEMMA RequestInit == Init => RequestInv
BY ClientAssumption
   DEF Init, ClientInit, RequestInv, IdsInv, RepliesInv, AnswerIsOwn, TableIsWaitedFor

LEMMA RequestNext == TypeInv /\ RequestInv /\ [Next]_vars => RequestInv'
<1> SUFFICES ASSUME TypeInv, RequestInv, [Next]_vars PROVE RequestInv'
    OBVIOUS
<1>1. CASE UNCHANGED vars
  <2>1. UNCHANGED <<nextID, table, wire, requestVars, at, using>>
    BY <1>1 DEF vars, clientVars
  <2> QED BY <2>1, QuietRequests
<1> QED BY <1>1, GetClientIsQuiet, RequestAnswers, ServerAnswers, AdminIsQuiet DEF Next

\* A result is that of the caller's own call, and a pending entry has a caller
\* that waits for it: the ids of a connection are never given out twice, and
\* every way out of an attempt takes its entry with it (client.go sendRequest).
THEOREM ResultsAreOwn == Spec => []AnswersMatch
<1>1. TypeInv /\ RequestInv => AnswersMatch
    BY TypeParts DEF TypeInv, RequestInv, AnswersMatch
<1>2. Init => TypeInv /\ RequestInv
    BY TypeInit, RequestInit
<1>3. TypeInv /\ RequestInv /\ [Next]_vars => (TypeInv /\ RequestInv)'
    BY TypeNext, RequestNext
<1> QED BY <1>1, <1>2, <1>3, PTL DEF Spec

-----------------------------------------------------------------------------
(* Owners.                                                                 *)

\* A client is owned once: by the table, by the caller that makes it or by the
\* admin that closes it.  Close has the clients in the table on its list too,
\* and holds the lock until it has emptied the table.
OneOwner ==
    /\ \A s, t \in Servers : clients[s] # None /\ clients[s] = clients[t] => s = t
    /\ \A c, d \in Callers : mine[c] # None /\ mine[c] = mine[d] => c = d
    /\ \A s \in Servers, c \in Callers : clients[s] # None => clients[s] # mine[c]
    /\ \A a \in Admins, c \in Callers : mine[c] \notin admin[a].todo
    /\ \A a, b \in Admins : a # b => admin[a].todo \cap admin[b].todo = {}
    /\ \A a \in Admins, s \in Servers : clients[s] \in admin[a].todo => mu = a

ClosingInv ==
    \A a \in Admins :
        /\ admin[a].todo # {} => admin[a].at = "close"
        /\ mu = a => /\ admin[a].at = "close"
                     /\ \A s \in Servers : clients[s] # None => clients[s] \in admin[a].todo

Made == {"up", "deaf", "dead", "closed"}
Making == {"init", "broken"}

\* How far the connection of a client is, by who owns it.
ConnInv ==
    /\ \A s \in Servers : clients[s] # None => conn[clients[s]] \in Made
    /\ \A a \in Admins : \A k \in admin[a].todo : conn[k] \in Made
    /\ \A c \in Callers : mine[c] # None => IF at[c] \in Making THEN conn[mine[c]] = "starting"
                                            ELSE conn[mine[c]] \in Made
    /\ transport = "sse" => \A k \in Clients : conn[k] # "deaf"

\* An open connection has an owner.
Kept ==
    \A k \in Clients : Running(k) =>
        \/ \E s \in Servers : clients[s] = k
        \/ \E c \in Callers : mine[c] = k
        \/ \E a \in Admins : k \in admin[a].todo

OwnerInv == OneOwner /\ ClosingInv /\ ConnInv /\ Kept

LEMMA OrphanIsUnowned == Kept <=> \A k \in Clients : Running(k) => k \in Owned
BY DEF Kept, Owned

LEMMA OwnerInit == Init => OwnerInv
<1> SUFFICES ASSUME Init PROVE OwnerInv
    OBVIOUS
<1>1. None \notin Callers /\ None \notin Admins /\ Callers \cap Admins = {} /\ None \notin Clients
    BY ClientAssumption, RegistryAssumption
<1>2. OneOwner
    BY <1>1 DEF Init, OneOwner
<1>3. ClosingInv
    BY <1>1 DEF Init, ClosingInv
<1>4. ConnInv /\ Kept
    BY <1>1 DEF Init, ClientInit, ConnInv, Kept, Running
<1> QED BY <1>2, <1>3, <1>4 DEF OwnerInv

\* The steps that leave the owners alone; a connection may be lost.
LEMMA OwnersSame ==
    ASSUME TypeInv, OwnerInv, UNCHANGED <<clients, mine, admin, mu, transport>>,
           \A c \in Callers : mine[c] # None => (at'[c] \in Making <=> at[c] \in Making),
           \A k \in Clients : \/ conn'[k] = conn[k]
                              \/ conn[k] \in {"up", "deaf"} /\ conn'[k] = "dead"
                              \/ conn[k] = "up" /\ conn'[k] = "deaf" /\ transport = "stdio"
    PROVE  OwnerInv'
<1>1. OneOwner'
    BY DEF OwnerInv, OneOwner
<1>2. ClosingInv'
    BY DEF OwnerInv, ClosingInv
<1>3. \A k \in Clients : conn[k] \in Made => conn'[k] \in Made
    BY DEF Made
<1>4. \A k \in Clients : conn[k] = "starting" => conn'[k] = "starting"
    OBVIOUS
<1>5. \A s \in Servers : clients'[s] # None => conn'[clients'[s]] \in Made
    BY <1>3 DEF OwnerInv, ConnInv, TypeInv, RegistryType
<1>6. \A a \in Admins : \A k \in admin'[a].todo : conn'[k] \in Made
    BY <1>3 DEF OwnerInv, ConnInv, TypeInv, RegistryType
<1>7. \A c \in Callers : mine'[c] # None => IF at'[c] \in Making THEN conn'[mine'[c]] = "starting"
                                            ELSE conn'[mine'[c]] \in Made
    BY <1>3, <1>4 DEF OwnerInv, ConnInv, TypeInv, ControlType
<1>8. transport' = "sse" => \A k \in Clients : conn'[k] # "deaf"
    BY DEF OwnerInv, ConnInv
<1>9. ConnInv'
    BY <1>5, <1>6, <1>7, <1>8 DEF ConnInv
<1>10. \A k \in Clients : Running(k)' => Running(k)
    BY DEF Running
<1>11. Kept'
    BY <1>10 DEF OwnerInv, Kept
<1> QED BY <1>1, <1>2, <1>9, <1>11 DEF OwnerInv

LEMMA QuietOwners ==
    ASSUME TypeInv, OwnerInv, NEW c \in Callers,
           \/ \E s \in Servers : GetClientForTool(c, s)
           \/ FetchServerTools(c) \/ UpdateToolsResult(c) \/ LookUp(c)
           \/ TryGetExistingClient(c) \/ AcquireProcessSlot(c)
           \/ CreateNewClient(c) /\ Live(target[c])
           \/ RequestStep(c) /\ UNCHANGED registryVars
    PROVE  OwnerInv'
<1>1. UNCHANGED <<clients, mine, admin, mu, transport, conn>>
  <2>1. CASE RequestStep(c) /\ UNCHANGED registryVars
    BY <2>1, RequestControl DEF registryVars
  <2>2. CASE CreateNewClient(c) /\ Live(target[c])
    BY <2>2 DEF CreateNewClient, TableUnchanged
  <2> QED BY <2>1, <2>2 DEF GetClientForTool, FetchServerTools, UpdateToolsResult, LookUp,
             TryGetExistingClient, AcquireProcessSlot, registryVars, TableUnchanged, UsingUnchanged
<1>2. at[c] \notin InHand
  <2>1. CASE RequestStep(c)
    BY <2>1, RequestControl DEF InHand
  <2> QED BY <2>1 DEF GetClientForTool, FetchServerTools, UpdateToolsResult, LookUp,
             TryGetExistingClient, AcquireProcessSlot, CreateNewClient, InHand
<1>3. mine[c] = None
    BY <1>2 DEF TypeInv, LocalsInv, LocalsAt
<1>4. \E l : at' = [at EXCEPT ![c] = l]
  <2>1. CASE RequestStep(c)
    BY <2>1, RequestControl
  <2>2. CASE CreateNewClient(c) /\ Live(target[c])
    BY <2>2 DEF CreateNewClient, Returns, Goes
  <2>3. CASE TryGetExistingClient(c) \/ AcquireProcessSlot(c)
    BY <2>3 DEF TryGetExistingClient, AcquireProcessSlot, Returns, Goes
  <2> QED BY <2>1, <2>2, <2>3 DEF GetClientForTool, FetchServerTools, UpdateToolsResult, LookUp, Goes
<1>5. \A d \in Callers \ {c} : at'[d] = at[d]
    BY <1>4 DEF TypeInv, ControlType
<1>6. \A d \in Callers : mine[d] # None => at'[d] = at[d]
    BY <1>3, <1>5
<1> QED BY <1>1, <1>6, OwnersSame

LEMMA ServerOwners ==
    ASSUME TypeInv, OwnerInv, ServerStep, UNCHANGED registryVars
    PROVE  OwnerInv'
<1>1. UNCHANGED <<clients, mine, admin, mu, transport, at>>
    BY DEF ServerStep, ServerHandles, HandleMessage, Dies, ReaderStops, registryVars
<1>2. \A k \in Clients : \/ conn'[k] = conn[k]
                         \/ conn[k] \in {"up", "deaf"} /\ conn'[k] = "dead"
                         \/ conn[k] = "up" /\ conn'[k] = "deaf" /\ transport = "stdio"
    BY DEF ServerStep, ServerHandles, HandleMessage, Dies, ReaderStops, TypeInv, ClientType
<1> QED BY <1>1, <1>2, OwnersSame

\* A client is made: nobody else has it.
LEMMA CreateOwners ==
    ASSUME TypeInv, OwnerInv, NEW c \in Callers, CreateNewClient(c), ~Live(target[c])
    PROVE  /\ OwnerInv'
           /\ Fresh \in Clients /\ Owned' \subseteq Owned \cup {Fresh}
<1> DEFINE k == Fresh
<1>1. /\ \E j \in Clients : conn[j] = "none"
      /\ conn' = [conn EXCEPT ![k] = "starting"] /\ mine' = [mine EXCEPT ![c] = k]
      /\ UNCHANGED <<clients, admin, mu, transport>>
    BY DEF CreateNewClient, TableUnchanged
<1>2. k \in Clients /\ conn[k] = "none" /\ k # None
    BY <1>1, FreshIs, ClientAssumption DEF TypeInv
<1>3. \E l \in Making : at' = [at EXCEPT ![c] = l]
    BY DEF CreateNewClient, Goes, Making
<1> HIDE DEF k
<1>4. \A d \in Callers : /\ mine'[d] = IF d = c THEN k ELSE mine[d]
                         /\ d # c => at'[d] = at[d]
                         /\ at'[c] \in Making
    BY <1>1, <1>3 DEF TypeInv, ControlType
<1>5. \A j \in Clients : conn'[j] = IF j = k THEN "starting" ELSE conn[j]
    BY <1>1 DEF TypeInv, ClientType
<1>6. \A s \in Servers : clients[s] # k
    BY <1>2 DEF OwnerInv, ConnInv, Made
<1>7. \A a \in Admins : k \notin admin[a].todo
    BY <1>2 DEF OwnerInv, ConnInv, Made
<1>8. \A d \in Callers : mine[d] # k
    BY <1>2 DEF OwnerInv, ConnInv, Made
<1>9. OneOwner'
  <2>1. \A s, t \in Servers : clients'[s] # None /\ clients'[s] = clients'[t] => s = t
    BY <1>1 DEF OwnerInv, OneOwner
  <2>2. \A d, e \in Callers : mine'[d] # None /\ mine'[d] = mine'[e] => d = e
    BY <1>4, <1>8 DEF OwnerInv, OneOwner
  <2>3. \A s \in Servers, d \in Callers : clients'[s] # None => clients'[s] # mine'[d]
    BY <1>1, <1>4, <1>6 DEF OwnerInv, OneOwner
  <2>4. \A a \in Admins, d \in Callers : mine'[d] \notin admin'[a].todo
    BY <1>1, <1>4, <1>7 DEF OwnerInv, OneOwner
  <2>5. \A a, b \in Admins : a # b => admin'[a].todo \cap admin'[b].todo = {}
    BY <1>1 DEF OwnerInv, OneOwner
  <2>6. \A a \in Admins, s \in Servers : clients'[s] \in admin'[a].todo => mu' = a
    BY <1>1 DEF OwnerInv, OneOwner
  <2> QED BY <2>1, <2>2, <2>3, <2>4, <2>5, <2>6 DEF OneOwner
<1>10. ClosingInv'
    BY <1>1 DEF OwnerInv, ClosingInv
<1>11. ConnInv'
  <2>1. \A s \in Servers : clients'[s] # None => conn'[clients'[s]] \in Made
    BY <1>1, <1>5, <1>6 DEF OwnerInv, ConnInv, TypeInv, RegistryType
  <2>2. \A a \in Admins : \A j \in admin'[a].todo : conn'[j] \in Made
    BY <1>1, <1>5, <1>7 DEF OwnerInv, ConnInv, TypeInv, RegistryType
  <2>3. \A d \in Callers : mine'[d] # None => IF at'[d] \in Making THEN conn'[mine'[d]] = "starting"
                                              ELSE conn'[mine'[d]] \in Made
    BY <1>2, <1>4, <1>5, <1>8 DEF OwnerInv, ConnInv, TypeInv, ControlType
  <2>4. transport' = "sse" => \A j \in Clients : conn'[j] # "deaf"
    BY <1>1, <1>5 DEF OwnerInv, ConnInv
  <2> QED BY <2>1, <2>2, <2>3, <2>4 DEF ConnInv
<1>12. Kept'
  <2> SUFFICES ASSUME NEW j \in Clients, Running(j)'
               PROVE  \/ \E s \in Servers : clients'[s] = j
                      \/ \E d \in Callers : mine'[d] = j
                      \/ \E a \in Admins : j \in admin'[a].todo
      BY DEF Kept
  <2>1. CASE j = k
    BY <1>4, <2>1
  <2>2. CASE j # k
    <3>1. Running(j)
      BY <1>5, <2>2 DEF Running
    <3>2. mine[c] = None
      BY DEF CreateNewClient, TypeInv, LocalsInv, LocalsAt, InHand
    <3> QED BY <1>1, <1>4, <3>1, <3>2, ClientAssumption DEF OwnerInv, Kept
  <2> QED BY <2>1, <2>2
<1>13. Owned' \subseteq Owned \cup {k}
    BY <1>1, <1>4 DEF Owned
<1> QED BY <1>2, <1>9, <1>10, <1>11, <1>12, <1>13 DEF OwnerInv, k

\* A caller closes the client it made.
LEMMA DropOwners ==
    ASSUME TypeInv, OwnerInv, NEW c \in Callers, mine[c] \in Clients,
           UNCHANGED <<clients, admin, mu, transport>>, mine' = [mine EXCEPT ![c] = None],
           \A j \in Clients : conn'[j] = IF j = mine[c] THEN "closed" ELSE conn[j],
           \A d \in Callers \ {c} : at'[d] = at[d]
    PROVE  OwnerInv' /\ Owned' \subseteq Owned \ {mine[c]} /\ mine[c] \in Owned
<1> DEFINE k == mine[c]
<1>1. k \in Clients /\ k # None
    BY ClientAssumption
<1>2. \A d \in Callers : mine'[d] = IF d = c THEN None ELSE mine[d]
    BY DEF TypeInv, ControlType
<1>3. \A d \in Callers \ {c} : mine[d] # k
    BY <1>1 DEF OwnerInv, OneOwner
<1>4. \A s \in Servers : clients[s] # k
    BY <1>1 DEF OwnerInv, OneOwner
<1>5. \A a \in Admins : k \notin admin[a].todo
    BY DEF OwnerInv, OneOwner
<1>6. None \notin Clients /\ \A a \in Admins : admin[a].todo \subseteq Clients
    BY ClientAssumption DEF TypeInv, RegistryType
<1>7. \A j \in Clients : conn'[j] = IF j = k THEN "closed" ELSE conn[j]
    OBVIOUS
<1>8. k \in Owned
    BY <1>1 DEF Owned
<1> HIDE DEF k
<1>9. OneOwner'
  <2>1. \A d, e \in Callers : mine'[d] # None /\ mine'[d] = mine'[e] => d = e
    BY <1>2 DEF OwnerInv, OneOwner
  <2>2. \A s \in Servers, d \in Callers : clients'[s] # None => clients'[s] # mine'[d]
    BY <1>2 DEF OwnerInv, OneOwner
  <2>3. \A a \in Admins, d \in Callers : mine'[d] \notin admin'[a].todo
    BY <1>2, <1>6 DEF OwnerInv, OneOwner
  <2> QED BY <2>1, <2>2, <2>3 DEF OwnerInv, OneOwner
<1>10. ClosingInv'
    BY DEF OwnerInv, ClosingInv
<1>11. ConnInv'
  <2>1. \A s \in Servers : clients'[s] # None => conn'[clients'[s]] \in Made
    BY <1>7, <1>4 DEF OwnerInv, ConnInv, TypeInv, RegistryType
  <2>2. \A a \in Admins : \A j \in admin'[a].todo : conn'[j] \in Made
    BY <1>7, <1>5, <1>6 DEF OwnerInv, ConnInv
  <2>3. \A d \in Callers : mine'[d] # None => IF at'[d] \in Making THEN conn'[mine'[d]] = "starting"
                                              ELSE conn'[mine'[d]] \in Made
    BY <1>2, <1>3, <1>7 DEF OwnerInv, ConnInv, TypeInv, ControlType
  <2>4. transport' = "sse" => \A j \in Clients : conn'[j] # "deaf"
    BY <1>7 DEF OwnerInv, ConnInv
  <2> QED BY <2>1, <2>2, <2>3, <2>4 DEF ConnInv
<1>12. Kept'
  <2> SUFFICES ASSUME NEW j \in Clients, Running(j)'
               PROVE  \/ \E s \in Servers : clients'[s] = j
                      \/ \E d \in Callers : mine'[d] = j
                      \/ \E a \in Admins : j \in admin'[a].todo
      BY DEF Kept
  <2>1. j # k /\ Running(j)
    BY <1>7 DEF Running
  <2> QED BY <1>2, <2>1 DEF OwnerInv, Kept, k
<1>13. Owned' \subseteq Owned \ {k}
    BY <1>1, <1>2, <1>3, <1>4, <1>5, <1>6 DEF Owned
<1> QED BY <1>8, <1>9, <1>10, <1>11, <1>12, <1>13 DEF OwnerInv, k

LEMMA DroppedOwners ==
    ASSUME TypeInv, OwnerInv, NEW c \in Callers, InitializeFails(c) \/ Discard(c)
    PROVE  OwnerInv' /\ Owned' \subseteq Owned \ {mine[c]} /\ mine[c] \in Owned
<1>1. mine[c] \in Clients
  <2>1. at[c] \in InHand
    BY DEF InitializeFails, Discard, InHand
  <2> QED BY <2>1 DEF TypeInv, LocalsInv, LocalsAt, ControlType
<1>2. UNCHANGED <<clients, admin, mu, transport>> /\ mine' = [mine EXCEPT ![c] = None]
    BY DEF InitializeFails, Discard, TableUnchanged, Forgets
<1>3. \A j \in Clients : conn'[j] = IF j = mine[c] THEN "closed" ELSE conn[j]
    BY <1>1 DEF InitializeFails, Discard, Close, TypeInv, ClientType
<1>4. \E l : at' = [at EXCEPT ![c] = l]
    BY DEF InitializeFails, Discard, Returns, Goes
<1>5. \A d \in Callers \ {c} : at'[d] = at[d]
    BY <1>4 DEF TypeInv, ControlType
<1> QED BY <1>1, <1>2, <1>3, <1>5, DropOwners

LEMMA InitializeOwners ==
    ASSUME TypeInv, OwnerInv, NEW c \in Callers, Initialize(c)
    PROVE  OwnerInv'
<1> DEFINE k == mine[c]
<1>1. k \in Clients /\ k # None
    BY ClientAssumption DEF Initialize, TypeInv, LocalsInv, LocalsAt, InHand, ControlType
<1>2. /\ UNCHANGED <<clients, mine, admin, mu, transport>> /\ conn' = [conn EXCEPT ![k] = "up"]
      /\ at' = [at EXCEPT ![c] = "install"] /\ at[c] = "init"
    BY DEF Initialize, Goes, registryVars
<1>3. \A d \in Callers \ {c} : mine[d] # k
    BY <1>1 DEF OwnerInv, OneOwner
<1>4. \A s \in Servers : clients[s] # k
    BY <1>1 DEF OwnerInv, OneOwner
<1>5. \A a \in Admins : k \notin admin[a].todo /\ admin[a].todo \subseteq Clients
    BY DEF OwnerInv, OneOwner, TypeInv, RegistryType
<1>6. conn[k] = "starting"
    BY <1>1, <1>2 DEF OwnerInv, ConnInv, Making
<1> HIDE DEF k
<1>7. \A j \in Clients : conn'[j] = IF j = k THEN "up" ELSE conn[j]
    BY <1>2 DEF TypeInv, ClientType
<1>8. \A d \in Callers : at'[d] = IF d = c THEN "install" ELSE at[d]
    BY <1>2 DEF TypeInv, ControlType
<1>9. OneOwner' /\ ClosingInv'
    BY <1>2 DEF OwnerInv, OneOwner, ClosingInv
<1>10. ConnInv'
  <2>1. \A s \in Servers : clients'[s] # None => conn'[clients'[s]] \in Made
    BY <1>2, <1>4, <1>7 DEF OwnerInv, ConnInv, TypeInv, RegistryType
  <2>2. \A a \in Admins : \A j \in admin'[a].todo : conn'[j] \in Made
    BY <1>2, <1>5, <1>7 DEF OwnerInv, ConnInv
  <2>3. ASSUME NEW d \in Callers, mine'[d] # None
        PROVE  IF at'[d] \in Making THEN conn'[mine'[d]] = "starting" ELSE conn'[mine'[d]] \in Made
    <3>1. CASE d = c
      BY <1>1, <1>2, <1>7, <1>8, <3>1 DEF k, Making, Made
    <3>2. CASE d # c
      <4>1. mine[d] \in Clients /\ mine[d] # k /\ mine'[d] = mine[d] /\ at'[d] = at[d]
        BY <1>2, <1>3, <1>8, <2>3, <3>2 DEF TypeInv, ControlType
      <4> QED BY <1>7, <2>3, <4>1 DEF OwnerInv, ConnInv
    <3> QED BY <3>1, <3>2
  <2>4. transport' = "sse" => \A j \in Clients : conn'[j] # "deaf"
    BY <1>2, <1>7 DEF OwnerInv, ConnInv
  <2> QED BY <2>1, <2>2, <2>3, <2>4 DEF ConnInv
<1>11. \A j \in Clients : Running(j)' => Running(j)
    BY <1>6, <1>7 DEF Running
<1>12. Kept'
    BY <1>2, <1>11 DEF OwnerInv, Kept
<1> QED BY <1>9, <1>10, <1>12 DEF OwnerInv

\* A client that is not alive and was initialized is not open.
LEMMA DeadIsDown ==
    ASSUME OwnerInv, TypeInv, NEW s \in Servers, clients[s] # None, ~Live(s)
    PROVE  ~Running(clients[s])
<1>1. clients[s] \in Clients /\ transport \in {"stdio", "sse"}
    BY ClientAssumption DEF TypeInv, RegistryType, ClientType
<1>2. conn[clients[s]] \in Made /\ (transport = "sse" => conn[clients[s]] # "deaf")
    BY <1>1 DEF OwnerInv, ConnInv
<1>3. ~IsAlive(clients[s])
    BY DEF Live
<1> QED BY <1>1, <1>2, <1>3 DEF IsAlive, Made, Running

LEMMA InstallOwners ==
    ASSUME TypeInv, OwnerInv, NEW c \in Callers, Install(c)
    PROVE  OwnerInv' /\ Owned' \subseteq Owned
<1> DEFINE k == mine[c]
<1> DEFINE t == target[c]
<1>1. k \in Clients /\ k # None /\ t \in Servers
    BY ClientAssumption DEF Install, TypeInv, LocalsInv, LocalsAt, InHand, ControlType
<1>2. at[c] = "install" /\ mu = None /\ UNCHANGED <<conn, transport, admin>>
    BY DEF Install
<1>3. None \notin Admins /\ Callers \cap Admins = {} /\ None \notin Clients
    BY ClientAssumption, RegistryAssumption
<1>4. CASE Live(t)
  <2>1. UNCHANGED <<clients, mu, mine>> /\ at' = [at EXCEPT ![c] = "discard"]
    BY <1>4 DEF Install, Goes
  <2>2. \A d \in Callers : at'[d] \in Making <=> at[d] \in Making
    BY <1>2, <2>1 DEF TypeInv, ControlType, Making
  <2>3. OwnerInv'
    BY <1>2, <2>1, <2>2, OwnersSame
  <2> QED BY <1>2, <2>1, <2>3, OwnedSame
<1>5. CASE ~Live(t)
  <2>1. /\ clients' = [clients EXCEPT ![t] = k] /\ mu' = c /\ mine' = [mine EXCEPT ![c] = None]
        /\ at' = [at EXCEPT ![c] = "refresh"]
    BY <1>5 DEF Install, Goes, Forgets
  <2>2. \A d \in Callers \ {c} : mine[d] # k
    BY <1>1 DEF OwnerInv, OneOwner
  <2>3. \A s \in Servers : clients[s] # k
    BY <1>1 DEF OwnerInv, OneOwner
  <2>4. \A a \in Admins : k \notin admin[a].todo /\ admin[a].todo \subseteq Clients
    BY DEF OwnerInv, OneOwner, TypeInv, RegistryType
  <2>5. conn[k] \in Made
    BY <1>1, <1>2 DEF OwnerInv, ConnInv, Making
  <2>6. clients[t] # None => ~Running(clients[t])
    BY <1>1, <1>5, DeadIsDown
  <2> HIDE DEF k, t
  <2>7. \A s \in Servers : clients'[s] = IF s = t THEN k ELSE clients[s]
    BY <1>1, <2>1 DEF TypeInv, RegistryType
  <2>8. \A d \in Callers : /\ mine'[d] = IF d = c THEN None ELSE mine[d]
                           /\ d # c => at'[d] = at[d]
    BY <2>1 DEF TypeInv, ControlType
  <2>9. OneOwner'
    <3>1. \A s, u \in Servers : clients'[s] # None /\ clients'[s] = clients'[u] => s = u
      BY <2>3, <2>7 DEF OwnerInv, OneOwner
    <3>2. \A d, e \in Callers : mine'[d] # None /\ mine'[d] = mine'[e] => d = e
      BY <2>8 DEF OwnerInv, OneOwner
    <3>3. \A s \in Servers, d \in Callers : clients'[s] # None => clients'[s] # mine'[d]
      BY <1>1, <2>2, <2>7, <2>8 DEF OwnerInv, OneOwner
    <3>4. \A a \in Admins, d \in Callers : mine'[d] \notin admin'[a].todo
      BY <1>2, <1>3, <2>4, <2>8 DEF OwnerInv, OneOwner
    <3>5. \A a, b \in Admins : a # b => admin'[a].todo \cap admin'[b].todo = {}
      BY <1>2 DEF OwnerInv, OneOwner
    <3>6. \A a \in Admins, s \in Servers : clients'[s] \notin admin'[a].todo
      BY <1>2, <1>3, <2>4, <2>7 DEF OwnerInv, OneOwner
    <3> QED BY <3>1, <3>2, <3>3, <3>4, <3>5, <3>6 DEF OneOwner
  <2>10. ClosingInv'
    <3>1. \A a \in Admins : mu' # a
      BY <1>3, <2>1
    <3> QED BY <1>2, <3>1 DEF OwnerInv, ClosingInv
  <2>11. ConnInv'
    <3>1. \A s \in Servers : clients'[s] # None => conn'[clients'[s]] \in Made
      BY <1>2, <2>5, <2>7 DEF OwnerInv, ConnInv
    <3>2. \A a \in Admins : \A j \in admin'[a].todo : conn'[j] \in Made
      BY <1>2 DEF OwnerInv, ConnInv
    <3>3. \A d \in Callers : mine'[d] # None => IF at'[d] \in Making THEN conn'[mine'[d]] = "starting"
                                                ELSE conn'[mine'[d]] \in Made
      BY <1>2, <2>8 DEF OwnerInv, ConnInv
    <3>4. transport' = "sse" => \A j \in Clients : conn'[j] # "deaf"
      BY <1>2 DEF OwnerInv, ConnInv
    <3> QED BY <3>1, <3>2, <3>3, <3>4 DEF ConnInv
  <2>12. Kept'
    <3> SUFFICES ASSUME NEW j \in Clients, Running(j)'
                 PROVE  \/ \E s \in Servers : clients'[s] = j
                        \/ \E d \in Callers : mine'[d] = j
                        \/ \E a \in Admins : j \in admin'[a].todo
        BY DEF Kept
    <3>1. Running(j)
      BY <1>2 DEF Running
    <3>2. CASE j = k
      BY <1>1, <2>7, <3>2
    <3>3. CASE j # k
      <4>1. \/ \E s \in Servers : clients[s] = j
            \/ \E d \in Callers : mine[d] = j
            \/ \E a \in Admins : j \in admin[a].todo
        BY <3>1 DEF OwnerInv, Kept
      <4>2. \A s \in Servers : clients[s] = j => s # t
        BY <1>3, <2>6, <3>1
      <4> QED BY <1>2, <2>7, <2>8, <3>3, <4>1, <4>2 DEF k
    <3> QED BY <3>2, <3>3
  <2>13. Owned' \subseteq Owned
    BY <1>2, <1>3, <2>7, <2>8 DEF Owned, k
  <2> QED BY <2>9, <2>10, <2>11, <2>12, <2>13 DEF OwnerInv
<1> QED BY <1>4, <1>5

LEMMA RefreshOwners ==
    ASSUME TypeInv, OwnerInv, NEW c \in Callers, RefreshToolIndex(c)
    PROVE  OwnerInv'
<1>1. at[c] = "refresh" /\ mu = c /\ mu' = None /\ UNCHANGED <<clients, mine, admin, conn, transport>>
    BY DEF RefreshToolIndex, TypeInv, LocalsInv, LocalsAt
<1>2. None \notin Admins /\ Callers \cap Admins = {}
    BY RegistryAssumption
<1>3. \E l \in {"list", "ready"} : at' = [at EXCEPT ![c] = l]
    BY DEF RefreshToolIndex, Returns, Goes
<1>4. \A d \in Callers : at'[d] \in Making <=> at[d] \in Making
    BY <1>1, <1>3 DEF TypeInv, ControlType, Making
<1>5. OneOwner'
    BY <1>1, <1>2 DEF OwnerInv, OneOwner
<1>6. ClosingInv'
    BY <1>1, <1>2 DEF OwnerInv, ClosingInv
<1>7. ConnInv'
    BY <1>1, <1>4 DEF OwnerInv, ConnInv
<1>8. Kept'
    BY <1>1 DEF OwnerInv, Kept, Running
<1> QED BY <1>5, <1>6, <1>7, <1>8 DEF OwnerInv

LEMMA UnregisterOwners ==
    ASSUME TypeInv, OwnerInv, NEW a \in Admins, NEW u \in Servers, UnregisterServer(a, u)
    PROVE  OwnerInv' /\ Owned' \subseteq Owned
<1> DEFINE k == clients[u]
<1>1. /\ admin[a].at = "idle" /\ mu = None
      /\ UNCHANGED <<conn, transport, mu, mine, at>>
      /\ clients' = [clients EXCEPT ![u] = None]
      /\ admin' = [admin EXCEPT ![a] = [at |-> "close", todo |-> {k} \ {None}]]
    BY DEF UnregisterServer, clientVars
<1>2. None \notin Admins /\ None \notin Clients
    BY ClientAssumption, RegistryAssumption
<1>3. \A s \in Servers : clients'[s] = IF s = u THEN None ELSE clients[s]
    BY <1>1 DEF TypeInv, RegistryType
<1>4. /\ admin'[a].todo = {k} \ {None} /\ admin'[a].at = "close"
      /\ \A b \in Admins \ {a} : admin'[b] = admin[b]
    BY <1>1 DEF TypeInv, RegistryType
<1>5. \A b \in Admins : admin[b].todo \subseteq Clients
    BY DEF TypeInv, RegistryType
<1>6. \A s \in Servers, b \in Admins : clients[s] \notin admin[b].todo
    BY <1>1, <1>2 DEF OwnerInv, OneOwner
<1>7. OneOwner'
  <2>1. \A s, t \in Servers : clients'[s] # None /\ clients'[s] = clients'[t] => s = t
    BY <1>3 DEF OwnerInv, OneOwner
  <2>2. \A d, e \in Callers : mine'[d] # None /\ mine'[d] = mine'[e] => d = e
    BY <1>1 DEF OwnerInv, OneOwner
  <2>3. \A s \in Servers, d \in Callers : clients'[s] # None => clients'[s] # mine'[d]
    BY <1>1, <1>3 DEF OwnerInv, OneOwner
  <2>4. \A b \in Admins, d \in Callers : mine'[d] \notin admin'[b].todo
    BY <1>1, <1>4 DEF OwnerInv, OneOwner
  <2>5. \A b, e \in Admins : b # e => admin'[b].todo \cap admin'[e].todo = {}
    <3>1. \A b \in Admins \ {a} : k \notin admin[b].todo
      BY <1>6
    <3> QED BY <1>4, <3>1 DEF OwnerInv, OneOwner
  <2>6. \A b \in Admins, s \in Servers : clients'[s] \notin admin'[b].todo
    <3>1. ASSUME NEW b \in Admins, NEW s \in Servers PROVE clients'[s] \notin admin'[b].todo
      <4>1. CASE b = a
        <5>1. s # u /\ clients[s] = k /\ k # None => FALSE
          BY DEF OwnerInv, OneOwner
        <5> QED BY <1>3, <1>4, <4>1, <5>1
      <4>2. CASE b # a
        BY <1>2, <1>3, <1>4, <1>5, <1>6, <4>2
      <4> QED BY <4>1, <4>2
    <3> QED BY <3>1
  <2> QED BY <2>1, <2>2, <2>3, <2>4, <2>5, <2>6 DEF OneOwner
<1>8. ClosingInv'
  <2>1. \A b \in Admins : mu' # b
    BY <1>1, <1>2
  <2> QED BY <1>4, <2>1 DEF OwnerInv, ClosingInv
<1>9. ConnInv'
  <2>1. \A s \in Servers : clients'[s] # None => conn'[clients'[s]] \in Made
    BY <1>1, <1>3 DEF OwnerInv, ConnInv
  <2>2. \A b \in Admins : \A j \in admin'[b].todo : conn'[j] \in Made
    BY <1>1, <1>4 DEF OwnerInv, ConnInv
  <2> QED BY <1>1, <2>1, <2>2 DEF OwnerInv, ConnInv
<1>10. Kept'
  <2> SUFFICES ASSUME NEW j \in Clients, Running(j)'
               PROVE  \/ \E s \in Servers : clients'[s] = j
                      \/ \E d \in Callers : mine'[d] = j
                      \/ \E b \in Admins : j \in admin'[b].todo
      BY DEF Kept
  <2>1. Running(j) /\ j # None
    BY <1>1, <1>2 DEF Running
  <2>2. \/ \E s \in Servers : clients[s] = j
        \/ \E d \in Callers : mine[d] = j
        \/ \E b \in Admins : j \in admin[b].todo
    BY <2>1 DEF OwnerInv, Kept
  <2>3. admin[a].todo = {}
    BY <1>1 DEF OwnerInv, ClosingInv
  <2> QED BY <1>1, <1>3, <1>4, <2>1, <2>2, <2>3
<1>11. Owned' \subseteq Owned
    BY <1>1, <1>2, <1>3, <1>4 DEF Owned
<1> QED BY <1>7, <1>8, <1>9, <1>10, <1>11 DEF OwnerInv

LEMMA CloseOwners ==
    ASSUME TypeInv, OwnerInv, NEW a \in Admins, CloseRegistry(a)
    PROVE  OwnerInv' /\ Owned' \subseteq Owned
<1>1. /\ admin[a].at = "idle" /\ mu = None
      /\ UNCHANGED <<conn, transport, clients, mine, at>>
    BY DEF CloseRegistry, clientVars
<1>2. None \notin Admins /\ None \notin Clients
    BY ClientAssumption, RegistryAssumption
<1>3. admin[a].todo = {}
    BY <1>1 DEF OwnerInv, ClosingInv
<1>4. \A s \in Servers, b \in Admins : clients[s] \notin admin[b].todo
    BY <1>1, <1>2 DEF OwnerInv, OneOwner
<1> DEFINE All == {clients[s] : s \in Servers} \ {None}
<1>5. \/ mu' = None /\ admin'[a].todo = {}
      \/ mu' = a /\ admin'[a].todo = All /\ admin'[a].at = "close"
    BY <1>1, <1>3 DEF CloseRegistry, TypeInv, RegistryType
<1>6. \A b \in Admins \ {a} : admin'[b] = admin[b]
    BY DEF CloseRegistry, TypeInv, RegistryType
<1>7. \A k : k \in All <=> k # None /\ \E s \in Servers : clients[s] = k
    OBVIOUS
<1> HIDE DEF All
<1>8. OneOwner'
  <2>1. \A b \in Admins, d \in Callers : mine'[d] \notin admin'[b].todo
    BY <1>1, <1>5, <1>6, <1>7 DEF OwnerInv, OneOwner
  <2>2. \A b, e \in Admins : b # e => admin'[b].todo \cap admin'[e].todo = {}
    <3>1. \A b \in Admins : All \cap admin[b].todo = {}
      BY <1>4, <1>7
    <3> QED BY <1>5, <1>6, <3>1 DEF OwnerInv, OneOwner
  <2>3. \A b \in Admins, s \in Servers : clients'[s] \in admin'[b].todo => mu' = b
    BY <1>1, <1>4, <1>5, <1>6
  <2> QED BY <1>1, <2>1, <2>2, <2>3 DEF OwnerInv, OneOwner
<1>9. ClosingInv'
    BY <1>1, <1>2, <1>5, <1>6, <1>7 DEF OwnerInv, ClosingInv
<1>10. ConnInv'
  <2>1. \A b \in Admins : \A j \in admin'[b].todo : conn'[j] \in Made
    BY <1>1, <1>5, <1>6, <1>7 DEF OwnerInv, ConnInv
  <2> QED BY <1>1, <2>1 DEF OwnerInv, ConnInv
<1>11. Kept'
    BY <1>1, <1>3, <1>6 DEF OwnerInv, Kept, Running
<1>12. Owned' \subseteq Owned
    BY <1>1, <1>5, <1>6, <1>7 DEF Owned
<1> QED BY <1>8, <1>9, <1>10, <1>11, <1>12 DEF OwnerInv

LEMMA ClosedOwners ==
    ASSUME TypeInv, OwnerInv, NEW a \in Admins, CloseClients(a)
    PROVE  /\ OwnerInv'
           /\ admin[a].todo \subseteq Owned /\ Owned' \subseteq Owned \ admin[a].todo
<1> DEFINE S == admin[a].todo
<1>1. /\ UNCHANGED <<transport, mine, at>>
      /\ conn' = [j \in Clients |-> IF j \in S THEN "closed" ELSE conn[j]]
      /\ admin' = [admin EXCEPT ![a] = [at |-> "returned", todo |-> {}]]
    BY DEF CloseClients, Close
<1>2. \/ mu = a /\ mu' = None /\ clients' = [s \in Servers |-> None]
      \/ mu # a /\ UNCHANGED <<mu, clients>>
    BY DEF CloseClients
<1>3. None \notin Admins /\ None \notin Clients /\ \A b \in Admins : admin[b].todo \subseteq Clients
    BY ClientAssumption, RegistryAssumption DEF TypeInv, RegistryType
<1>4. /\ admin'[a].todo = {} /\ \A b \in Admins \ {a} : admin'[b] = admin[b]
    BY <1>1 DEF TypeInv, RegistryType
<1>5. \A s \in Servers : clients'[s] # None => clients'[s] = clients[s] /\ clients[s] \notin S
    BY <1>2 DEF OwnerInv, OneOwner
<1>6. \A b \in Admins \ {a} : admin[b].todo \cap S = {}
    BY DEF OwnerInv, OneOwner
<1>7. \A d \in Callers : mine[d] \notin S
    BY DEF OwnerInv, OneOwner
<1>8. S \subseteq Owned
    BY <1>3 DEF Owned
<1>9. mu = a => \A s \in Servers : clients[s] # None => clients[s] \in S
    BY DEF OwnerInv, ClosingInv
<1> HIDE DEF S
<1>10. OneOwner'
  <2>1. \A s, t \in Servers : clients'[s] # None /\ clients'[s] = clients'[t] => s = t
    BY <1>5 DEF OwnerInv, OneOwner
  <2>2. \A d, e \in Callers : mine'[d] # None /\ mine'[d] = mine'[e] => d = e
    BY <1>1 DEF OwnerInv, OneOwner
  <2>3. \A s \in Servers, d \in Callers : clients'[s] # None => clients'[s] # mine'[d]
    BY <1>1, <1>5 DEF OwnerInv, OneOwner
  <2>4. \A b \in Admins, d \in Callers : mine'[d] \notin admin'[b].todo
    BY <1>1, <1>4 DEF OwnerInv, OneOwner
  <2>5. \A b, e \in Admins : b # e => admin'[b].todo \cap admin'[e].todo = {}
    BY <1>4 DEF OwnerInv, OneOwner
  <2>6. \A b \in Admins, s \in Servers : clients'[s] \in admin'[b].todo => mu' = b
    BY <1>2, <1>3, <1>4 DEF OwnerInv, OneOwner
  <2> QED BY <2>1, <2>2, <2>3, <2>4, <2>5, <2>6 DEF OneOwner
<1>11. ClosingInv'
    BY <1>2, <1>3, <1>4 DEF OwnerInv, ClosingInv
<1>12. ConnInv'
  <2>1. \A j \in Clients : conn'[j] = IF j \in S THEN "closed" ELSE conn[j]
    BY <1>1
  <2>2. \A s \in Servers : clients'[s] # None => conn'[clients'[s]] \in Made
    BY <1>5, <2>1 DEF OwnerInv, ConnInv, TypeInv, RegistryType
  <2>3. \A b \in Admins : \A j \in admin'[b].todo : conn'[j] \in Made
    BY <1>3, <1>4, <2>1 DEF OwnerInv, ConnInv, Made
  <2>4. \A d \in Callers : mine'[d] # None => IF at'[d] \in Making THEN conn'[mine'[d]] = "starting"
                                              ELSE conn'[mine'[d]] \in Made
    BY <1>1, <1>7, <2>1 DEF OwnerInv, ConnInv, TypeInv, ControlType
  <2>5. transport' = "sse" => \A j \in Clients : conn'[j] # "deaf"
    BY <1>1, <2>1 DEF OwnerInv, ConnInv
  <2> QED BY <2>2, <2>3, <2>4, <2>5 DEF ConnInv
<1>13. Kept'
  <2> SUFFICES ASSUME NEW j \in Clients, Running(j)'
               PROVE  \/ \E s \in Servers : clients'[s] = j
                      \/ \E d \in Callers : mine'[d] = j
                      \/ \E b \in Admins : j \in admin'[b].todo
      BY DEF Kept
  <2>1. Running(j) /\ j \notin S /\ j # None
    BY <1>1, <1>3 DEF Running
  <2>2. \/ \E s \in Servers : clients[s] = j
        \/ \E d \in Callers : mine[d] = j
        \/ \E b \in Admins : j \in admin[b].todo
    BY <2>1 DEF OwnerInv, Kept
  <2> QED BY <1>1, <1>2, <1>4, <1>9, <2>1, <2>2 DEF S
<1>14. Owned' \subseteq Owned \ S
    BY <1>1, <1>3, <1>4, <1>5, <1>6, <1>7 DEF Owned
<1> QED BY <1>8, <1>10, <1>11, <1>12, <1>13, <1>14 DEF OwnerInv, S

LEMMA OwnerNext == TypeInv /\ OwnerInv /\ [Next]_vars => OwnerInv'
<1> SUFFICES ASSUME TypeInv, OwnerInv, [Next]_vars PROVE OwnerInv'
    OBVIOUS
<1>1. ASSUME NEW c \in Callers, \/ \E s \in Servers : GetClientForTool(c, s)
                                \/ GetClientStep(c)
                                \/ RequestStep(c) /\ UNCHANGED registryVars
      PROVE  OwnerInv'
    BY <1>1, QuietOwners, CreateOwners, DroppedOwners, InitializeOwners, InstallOwners, RefreshOwners
       DEF GetClientStep
<1>2. ASSUME NEW s \in Servers, RegisterServer(s) PROVE OwnerInv'
  <2>1. UNCHANGED <<clients, mine, admin, mu, transport, at, conn>>
    BY <1>2 DEF RegisterServer, clientVars
  <2> QED BY <2>1, OwnersSame
<1>3. CASE UNCHANGED vars
  <2>1. UNCHANGED <<clients, mine, admin, mu, transport, at, conn>>
    BY <1>3 DEF vars, clientVars, registryVars
  <2> QED BY <2>1, OwnersSame
<1> QED BY <1>1, <1>2, <1>3, ServerOwners, UnregisterOwners, CloseOwners, ClosedOwners DEF Next

\* A Close that overtook nobody: no caller is on its way to the table, and what
\* is still in it is about to be closed.
ClosedInv ==
    closed /\ ~overtaken =>
        /\ \A c \in Callers : at[c] \notin OnTheWay
        /\ \A s \in Servers : clients[s] # None => \E a \in Admins : clients[s] \in admin[a].todo

\* Behind the test of r.closed nobody starts towards the table of a closed
\* registry.
LEMMA CallerClosed ==
    ASSUME TypeInv, ClosedInv, NEW c \in Callers,
           \/ \E s \in Servers : GetClientForTool(c, s)
           \/ GetClientStep(c)
           \/ RequestStep(c) /\ UNCHANGED registryVars
    PROVE  ClosedInv'
<1>1. UNCHANGED <<closed, overtaken, admin>>
    BY DEF GetClientForTool, GetClientStep, FetchServerTools, UpdateToolsResult, LookUp, TryGetExistingClient,
           AcquireProcessSlot, CreateNewClient, InitializeFails, Initialize, Install, Discard,
           RefreshToolIndex,
           TableUnchanged, registryVars
<1> SUFFICES ASSUME closed, ~overtaken
             PROVE  /\ \A d \in Callers : at'[d] \notin OnTheWay
                    /\ UNCHANGED clients
    BY <1>1 DEF ClosedInv
<1>2. at[c] \notin OnTheWay
    BY DEF ClosedInv
<1>3. UNCHANGED clients /\ \E l \in Labels \ OnTheWay : at' = [at EXCEPT ![c] = l]
  <2>1. CASE RequestStep(c) /\ UNCHANGED registryVars
    BY <2>1, RequestControl DEF registryVars, Labels, OnTheWay
  <2>2. CASE TryGetExistingClient(c)
    BY <2>2 DEF TryGetExistingClient, Goes, registryVars, Labels, OnTheWay
  <2>3. CASE \E s \in Servers : GetClientForTool(c, s)
    BY <2>3 DEF GetClientForTool, Goes, TableUnchanged, Labels, OnTheWay
  <2>4. CASE FetchServerTools(c) \/ UpdateToolsResult(c) \/ LookUp(c)
    BY <2>4 DEF FetchServerTools, UpdateToolsResult, LookUp, Goes, TableUnchanged, registryVars, Labels, OnTheWay
  <2>5. CASE Discard(c) \/ RefreshToolIndex(c)
    BY <2>5 DEF Discard, RefreshToolIndex, Returns, Goes, TableUnchanged, Labels, OnTheWay
  <2>6. ~(AcquireProcessSlot(c) \/ CreateNewClient(c) \/ InitializeFails(c) \/ Initialize(c) \/ Install(c))
    BY <1>2 DEF AcquireProcessSlot, CreateNewClient, InitializeFails, Initialize, Install, OnTheWay
  <2> QED BY <2>1, <2>2, <2>3, <2>4, <2>5, <2>6 DEF GetClientStep
<1>4. \A d \in Callers : at'[d] \notin OnTheWay
    BY <1>3 DEF ClosedInv, TypeInv, ControlType
<1> QED BY <1>3, <1>4

\* Close takes the whole table on its list, and empties it when it is done.
LEMMA AdminClosed ==
    ASSUME TypeInv, OwnerInv, ClosedInv, NEW a \in Admins,
           (\E s \in Servers : UnregisterServer(a, s)) \/ CloseRegistry(a) \/ CloseClients(a)
    PROVE  ClosedInv'
<1>1. CASE \E s \in Servers : UnregisterServer(a, s)
    BY <1>1 DEF UnregisterServer, ClosedInv
<1>2. CASE CloseRegistry(a)
  <2>1. UNCHANGED <<at, clients>>
    BY <1>2 DEF CloseRegistry, clientVars
  <2>2. CASE closed
    <3>1. overtaken' = overtaken /\ admin' = [admin EXCEPT ![a].at = "returned"]
      BY <1>2, <2>2 DEF CloseRegistry, TypeInv, RegistryType
    <3>2. \A b \in Admins : admin'[b].todo = admin[b].todo
      BY <3>1 DEF TypeInv, RegistryType
    <3> QED BY <2>1, <2>2, <3>1, <3>2 DEF ClosedInv
  <2>3. CASE ~closed
    <3>1. ~overtaken' => \A c \in Callers : at[c] \notin OnTheWay
      BY <1>2, <2>3 DEF CloseRegistry
    <3>2. admin' = [admin EXCEPT ![a] = [at |-> "close", todo |-> {clients[s] : s \in Servers} \ {None}]]
      BY <1>2, <2>3 DEF CloseRegistry
    <3>3. admin'[a].todo = {clients[s] : s \in Servers} \ {None}
      BY <3>2 DEF TypeInv, RegistryType
    <3>4. \A s \in Servers : clients[s] # None => clients[s] \in admin'[a].todo
      BY <3>3
    <3> QED BY <2>1, <3>1, <3>4 DEF ClosedInv
  <2> QED BY <2>2, <2>3
<1>3. CASE CloseClients(a)
  <2>1. /\ UNCHANGED <<at, closed, overtaken>> /\ admin' = [admin EXCEPT ![a] = [at |-> "returned", todo |-> {}]]
        /\ (mu = a /\ clients' = [s \in Servers |-> None]) \/ (mu # a /\ UNCHANGED clients)
    BY <1>3 DEF CloseClients
  <2>2. \A b \in Admins \ {a} : admin'[b].todo = admin[b].todo
    BY <2>1 DEF TypeInv, RegistryType
  <2>3. \A b \in Admins, s \in Servers : clients[s] \in admin[b].todo => mu = b
    BY DEF OwnerInv, OneOwner
  <2>4. CASE mu = a
    BY <2>1, <2>4 DEF ClosedInv
  <2>5. CASE mu # a
    BY <2>1, <2>2, <2>3, <2>5 DEF ClosedInv
  <2> QED BY <2>4, <2>5
<1> QED BY <1>1, <1>2, <1>3

LEMMA ClosedNext == TypeInv /\ OwnerInv /\ ClosedInv /\ [Next]_vars => ClosedInv'
<1> SUFFICES ASSUME TypeInv, OwnerInv, ClosedInv, [Next]_vars PROVE ClosedInv'
    OBVIOUS
<1>1. ASSUME UNCHANGED <<closed, overtaken, at, clients, admin>> PROVE ClosedInv'
    BY <1>1 DEF ClosedInv
<1>2. CASE ServerStep /\ UNCHANGED registryVars
    BY <1>1, <1>2 DEF ServerStep, ServerHandles, HandleMessage, Dies, ReaderStops, registryVars
<1>3. CASE \E s \in Servers : RegisterServer(s)
    BY <1>1, <1>3 DEF RegisterServer, clientVars
<1>4. CASE UNCHANGED vars
    BY <1>1, <1>4 DEF vars, clientVars, registryVars
<1> QED BY <1>2, <1>3, <1>4, CallerClosed, AdminClosed DEF Next

\* No connection is lost: whoever holds a client that is open is the one who
\* will close it or has put it where Close finds it, and a Close that overtook
\* no caller leaves none open (registry.go createNewClient, UnregisterServer,
\* Close).
THEOREM NothingIsOrphaned == Spec => []NoOrphan
<1>1. TypeInv /\ OwnerInv /\ ClosedInv => NoOrphan
  <2> SUFFICES ASSUME OwnerInv, ClosedInv, NEW k \in Clients, Running(k)
               PROVE  \/ (closed => overtaken) /\ \E s \in Servers : clients[s] = k
                      \/ \E c \in Callers : mine[c] = k
                      \/ \E a \in Admins : k \in admin[a].todo
      BY DEF NoOrphan
  <2>1. k # None
    BY ClientAssumption
  <2> QED BY <2>1 DEF OwnerInv, Kept, ClosedInv
<1>2. Init => TypeInv /\ OwnerInv /\ ClosedInv
  <2>1. Init => ClosedInv
    BY DEF Init, ClosedInv
  <2> QED BY <2>1, TypeInit, OwnerInit
<1>3. TypeInv /\ OwnerInv /\ ClosedInv /\ [Next]_vars => (TypeInv /\ OwnerInv /\ ClosedInv)'
    BY TypeNext, OwnerNext, ClosedNext
<1> QED BY <1>1, <1>2, <1>3, PTL DEF Spec

-----------------------------------------------------------------------------
(* The limit.                                                              *)

\* Callers that have taken a slot and made no client yet.
Waiting == {c \in Callers : at[c] = "check"}

\* Without a replacement, each of those and each client that is owned has a slot.
SlotInv ==
    /\ IsFiniteSet(Waiting)
    /\ limit > 0 /\ ~replaced => Cardinality(Waiting) + Cardinality(Owned) <= slots

LEMMA SlotNumbers ==
    ASSUME TypeInv, IsFiniteSet(Waiting)
    PROVE  /\ limit \in Nat /\ slots \in Nat /\ slots <= limit
           /\ Cardinality(Waiting) \in Nat /\ Cardinality(Owned) \in Nat
<1>1. limit \in Nat /\ slots \in 0 .. limit
    BY RegistryAssumption DEF TypeInv, RegistryType
<1> QED BY <1>1, FS_CardinalityType DEF TypeInv

LEMMA SlotsKept ==
    ASSUME TypeInv, SlotInv, Waiting' \subseteq Waiting, Owned' \subseteq Owned,
           UNCHANGED <<limit, slots, replaced>>
    PROVE  SlotInv'
<1>1. IsFiniteSet(Waiting') /\ Cardinality(Waiting') <= Cardinality(Waiting)
    BY FS_Subset DEF SlotInv
<1>2. IsFiniteSet(Owned') /\ Cardinality(Owned') <= Cardinality(Owned)
    BY FS_Subset DEF TypeInv
<1>3. Cardinality(Waiting') \in Nat /\ Cardinality(Owned') \in Nat
    BY <1>1, <1>2, FS_CardinalityType
<1>4. slots \in Nat /\ Cardinality(Waiting) \in Nat /\ Cardinality(Owned) \in Nat
    BY SlotNumbers DEF SlotInv
<1>5. SUFFICES ASSUME limit > 0, ~replaced
               PROVE  Cardinality(Waiting') + Cardinality(Owned') <= slots
    BY <1>1 DEF SlotInv
<1>6. Cardinality(Waiting) + Cardinality(Owned) <= slots
    BY <1>5 DEF SlotInv
<1> QED BY <1>1, <1>2, <1>3, <1>4, <1>6

\* The owners lose a set of clients, and its slots are released.
LEMMA SlotsReleased ==
    ASSUME TypeInv, SlotInv, UNCHANGED Waiting, UNCHANGED <<limit, replaced>>,
           NEW S, S \subseteq Owned, Owned' \subseteq Owned \ S, slots' = Released(Cardinality(S))
    PROVE  SlotInv'
<1>1. IsFiniteSet(S) /\ Cardinality(S) <= Cardinality(Owned)
    BY FS_Subset DEF TypeInv
<1>2. Cardinality(S) \in Nat
    BY <1>1, FS_CardinalityType
<1>3. S = Owned \cap S
    OBVIOUS
<1>4. IsFiniteSet(Owned \ S) /\ Cardinality(Owned \ S) = Cardinality(Owned) - Cardinality(S)
    BY <1>3, FS_Difference DEF TypeInv
<1>5. IsFiniteSet(Owned') /\ Cardinality(Owned') <= Cardinality(Owned \ S)
    BY <1>4, FS_Subset
<1>6. Cardinality(Owned') \in Nat /\ Cardinality(Owned \ S) \in Nat
    BY <1>4, <1>5, FS_CardinalityType
<1>7. slots \in Nat /\ Cardinality(Waiting) \in Nat /\ Cardinality(Owned) \in Nat
    BY SlotNumbers DEF SlotInv
<1>8. SUFFICES ASSUME limit > 0, ~replaced
               PROVE  Cardinality(Waiting) + Cardinality(Owned') <= slots'
    BY DEF SlotInv
<1>9. Cardinality(Waiting) + Cardinality(Owned) <= slots
    BY <1>8 DEF SlotInv
<1>10. slots' = slots - Cardinality(S)
    BY <1>1, <1>2, <1>7, <1>9, SlotBounds DEF TypeInv
<1> QED BY <1>1, <1>2, <1>4, <1>5, <1>6, <1>7, <1>9, <1>10

\* The label of one caller changes.
LEMMA WaitingMoves ==
    ASSUME ControlType, NEW c \in Callers, NEW l, at' = [at EXCEPT ![c] = l]
    PROVE  Waiting' = IF l = "check" THEN Waiting \cup {c} ELSE Waiting \ {c}
<1>1. \A d \in Callers : at'[d] = IF d = c THEN l ELSE at[d]
    BY DEF ControlType
<1> QED BY <1>1 DEF Waiting

LEMMA SlotsAcquired ==
    ASSUME TypeInv, SlotInv, NEW c \in Callers, AcquireProcessSlot(c)
    PROVE  SlotInv'
<1>1. UNCHANGED <<limit, replaced, clients, mine, admin>> /\ at[c] = "local"
    BY DEF AcquireProcessSlot, TableUnchanged
<1>2. Owned' = Owned
    BY <1>1, OwnedSame
<1>3. CASE UNCHANGED slots /\ Goes(c, "failed")
  <2>1. Waiting' = Waiting \ {c}
    BY <1>3, WaitingMoves, "failed" # "check" DEF TypeInv, Goes
  <2>2. Waiting' \subseteq Waiting
    BY <2>1
  <2> QED BY <1>1, <1>2, <1>3, <2>2, SlotsKept
<1>4. CASE slots' = Acquired /\ Goes(c, "check")
  <2>1. Waiting' = Waiting \cup {c}
    BY <1>4, WaitingMoves DEF TypeInv, Goes
  <2>2. c \notin Waiting
    BY <1>1 DEF Waiting
  <2>3. IsFiniteSet(Waiting') /\ Cardinality(Waiting') = Cardinality(Waiting) + 1
    BY <2>1, <2>2, FS_AddElement DEF SlotInv
  <2>4. slots \in Nat /\ Cardinality(Waiting) \in Nat /\ Cardinality(Owned) \in Nat
    BY SlotNumbers DEF SlotInv
  <2>5. SUFFICES ASSUME limit > 0, ~replaced
                 PROVE  Cardinality(Waiting') + Cardinality(Owned') <= slots'
    BY <1>1, <2>3 DEF SlotInv
  <2>6. Cardinality(Waiting) + Cardinality(Owned) <= slots
    BY <2>5 DEF SlotInv
  <2>7. slots' = slots + 1
    BY <1>4, <2>5 DEF Acquired
  <2> QED BY <1>2, <2>3, <2>4, <2>6, <2>7
<1> QED BY <1>3, <1>4 DEF AcquireProcessSlot

\* A slot goes from a caller that waits to the client it makes, or back.
LEMMA SlotsCreated ==
    ASSUME TypeInv, OwnerInv, SlotInv, NEW c \in Callers, CreateNewClient(c)
    PROVE  SlotInv'
<1>1. UNCHANGED <<limit, clients, admin>> /\ at[c] = "check" /\ c \in Waiting
    BY DEF CreateNewClient, TableUnchanged, Waiting
<1>2. PICK l \in Labels \ {"check"} : at' = [at EXCEPT ![c] = l]
    BY DEF CreateNewClient, Returns, Goes, Labels
<1>3. Waiting' = Waiting \ {c}
    BY <1>2, WaitingMoves DEF TypeInv
<1>4. IsFiniteSet(Waiting') /\ Cardinality(Waiting') = Cardinality(Waiting) - 1
    BY <1>1, <1>3, FS_RemoveElement DEF SlotInv
<1>5. Cardinality(Waiting') \in Nat
    BY <1>4, FS_CardinalityType
<1>6. slots \in Nat /\ Cardinality(Waiting) \in Nat /\ Cardinality(Owned) \in Nat
    BY SlotNumbers DEF SlotInv
<1>7. CASE Live(target[c])
  <2>1. UNCHANGED <<mine, replaced>> /\ slots' = Released(1)
    BY <1>7 DEF CreateNewClient
  <2>2. Owned' = Owned
    BY <1>1, <2>1, OwnedSame
  <2>3. SUFFICES ASSUME limit > 0, ~replaced
                 PROVE  Cardinality(Waiting') + Cardinality(Owned') <= slots'
    BY <1>1, <1>4, <2>1 DEF SlotInv
  <2>4. Cardinality(Waiting) + Cardinality(Owned) <= slots
    BY <2>3 DEF SlotInv
  <2>5. slots' = slots - 1
    BY <1>4, <1>5, <1>6, <2>1, <2>4 DEF Released
  <2> QED BY <1>4, <1>5, <1>6, <2>2, <2>4, <2>5
<1>8. CASE ~Live(target[c])
  <2>1. Fresh \in Clients /\ Owned' \subseteq Owned \cup {Fresh}
    BY <1>8, CreateOwners
  <2>2. IsFiniteSet(Owned \cup {Fresh}) /\ Cardinality(Owned \cup {Fresh}) <= Cardinality(Owned) + 1
    <3>1. /\ IsFiniteSet(Owned \cup {Fresh})
          /\ Cardinality(Owned \cup {Fresh}) = IF Fresh \in Owned THEN Cardinality(Owned)
                                               ELSE Cardinality(Owned) + 1
      BY FS_AddElement DEF TypeInv
    <3> QED BY <1>6, <3>1
  <2>3. IsFiniteSet(Owned') /\ Cardinality(Owned') <= Cardinality(Owned \cup {Fresh})
    BY <2>1, <2>2, FS_Subset
  <2>4. Cardinality(Owned') \in Nat /\ Cardinality(Owned \cup {Fresh}) \in Nat
    BY <2>2, <2>3, FS_CardinalityType
  <2>5. /\ slots' = IF clients[target[c]] # None THEN Released(1) ELSE slots
        /\ replaced' = (replaced \/ clients[target[c]] # None)
    BY <1>8 DEF CreateNewClient, SlotsReplacing
  <2>6. SUFFICES ASSUME limit > 0, ~replaced'
                 PROVE  Cardinality(Waiting') + Cardinality(Owned') <= slots'
    BY <1>1, <1>4 DEF SlotInv
  <2>7. ~replaced /\ clients[target[c]] = None
    BY <2>5, <2>6, Zenon
  <2>8. Cardinality(Waiting) + Cardinality(Owned) <= slots
    BY <2>6, <2>7 DEF SlotInv
  <2>9. slots' = slots
    BY <2>5, <2>7
  <2> QED BY <1>4, <1>5, <1>6, <2>2, <2>3, <2>4, <2>8, <2>9
<1> QED BY <1>7, <1>8

LEMMA SlotsDropped ==
    ASSUME TypeInv, OwnerInv, SlotInv, NEW c \in Callers, InitializeFails(c) \/ Discard(c)
    PROVE  SlotInv'
<1>1. Owned' \subseteq Owned \ {mine[c]} /\ mine[c] \in Owned
    BY DroppedOwners
<1>2. UNCHANGED <<limit, replaced>> /\ slots' = Released(1)
    BY DEF InitializeFails, Discard, TableUnchanged
<1>3. at[c] # "check" /\ \E l \in Labels \ {"check"} : at' = [at EXCEPT ![c] = l]
    BY DEF InitializeFails, Discard, Returns, Goes, Labels
<1>4. Waiting' = Waiting
    BY <1>3, WaitingMoves DEF TypeInv, Waiting
<1>5. Cardinality({mine[c]}) = 1
    BY FS_Singleton
<1> QED BY <1>1, <1>2, <1>4, <1>5, SlotsReleased

\* The other steps of a caller take no slot, and leave the owners.
LEMMA SlotsLeft ==
    ASSUME TypeInv, OwnerInv, SlotInv, NEW c \in Callers,
           \/ \E s \in Servers : GetClientForTool(c, s)
           \/ FetchServerTools(c) \/ UpdateToolsResult(c) \/ LookUp(c) \/ TryGetExistingClient(c)
           \/ Initialize(c) \/ Install(c) \/ RefreshToolIndex(c)
           \/ RequestStep(c) /\ UNCHANGED registryVars
    PROVE  SlotInv'
<1>1. UNCHANGED <<limit, slots, replaced>>
    BY DEF GetClientForTool, FetchServerTools, UpdateToolsResult, LookUp, TryGetExistingClient,
           Initialize, Install, RefreshToolIndex, TableUnchanged, registryVars
<1>2. Owned' \subseteq Owned
  <2>1. CASE Install(c)
    BY <2>1, InstallOwners
  <2>2. CASE ~Install(c)
    <3>1. UNCHANGED <<clients, mine, admin>>
      BY <2>2 DEF GetClientForTool, FetchServerTools, UpdateToolsResult, LookUp, TryGetExistingClient,
                  Initialize, RefreshToolIndex, TableUnchanged, registryVars
    <3> QED BY <3>1, OwnedSame
  <2> QED BY <2>1, <2>2
<1>3. \E l \in Labels \ {"check"} : at' = [at EXCEPT ![c] = l]
  <2>1. CASE RequestStep(c)
    BY <2>1, RequestControl DEF Labels
  <2>2. CASE (\E s \in Servers : GetClientForTool(c, s)) \/ FetchServerTools(c) \/ UpdateToolsResult(c)
             \/ LookUp(c) \/ TryGetExistingClient(c)
    BY <2>2 DEF GetClientForTool, FetchServerTools, UpdateToolsResult, LookUp, TryGetExistingClient,
                Returns, Goes, Labels
  <2>3. CASE Initialize(c) \/ Install(c) \/ RefreshToolIndex(c)
    BY <2>3 DEF Initialize, Install, RefreshToolIndex, Returns, Goes, Labels
  <2> QED BY <2>1, <2>2, <2>3
<1>4. Waiting' \subseteq Waiting
    BY <1>3, WaitingMoves DEF TypeInv
<1> QED BY <1>1, <1>2, <1>4, SlotsKept

LEMMA SlotsElsewhere ==
    ASSUME TypeInv, OwnerInv, SlotInv,
           \/ ServerStep /\ UNCHANGED registryVars
           \/ \E s \in Servers : RegisterServer(s)
           \/ \E a \in Admins : \/ \E s \in Servers : UnregisterServer(a, s)
                                \/ CloseRegistry(a) \/ CloseClients(a)
           \/ UNCHANGED vars
    PROVE  SlotInv'
<1>1. UNCHANGED <<at, limit, replaced>>
    BY DEF ServerStep, ServerHandles, HandleMessage, Dies, ReaderStops, RegisterServer,
           UnregisterServer, CloseRegistry, CloseClients, registryVars, clientVars, vars
<1>2. Waiting' = Waiting
    BY <1>1 DEF Waiting
<1>3. ASSUME NEW a \in Admins, CloseClients(a) PROVE SlotInv'
  <2>1. slots' = Released(Cardinality(admin[a].todo))
    BY <1>3 DEF CloseClients
  <2> QED BY <1>1, <1>2, <1>3, <2>1, ClosedOwners, SlotsReleased
<1>4. CASE ~ \E a \in Admins : CloseClients(a)
  <2>1. UNCHANGED slots
    BY <1>4 DEF ServerStep, ServerHandles, HandleMessage, Dies, ReaderStops, RegisterServer,
                UnregisterServer, CloseRegistry, registryVars, vars
  <2>2. Owned' \subseteq Owned
    <3>1. ASSUME NEW a \in Admins, CloseRegistry(a) \/ \E s \in Servers : UnregisterServer(a, s)
          PROVE  Owned' \subseteq Owned
      BY <3>1, CloseOwners, UnregisterOwners
    <3>2. CASE \/ ServerStep /\ UNCHANGED registryVars
               \/ \E s \in Servers : RegisterServer(s)
               \/ UNCHANGED vars
      <4>1. UNCHANGED <<clients, mine, admin>>
        BY <3>2 DEF RegisterServer, registryVars, vars
      <4> QED BY <4>1, OwnedSame
    <3> QED BY <1>4, <3>1, <3>2
  <2> QED BY <1>1, <1>2, <2>1, <2>2, SlotsKept
<1> QED BY <1>3, <1>4

LEMMA SlotNext == TypeInv /\ OwnerInv /\ SlotInv /\ [Next]_vars => SlotInv'
<1> SUFFICES ASSUME TypeInv, OwnerInv, SlotInv, [Next]_vars PROVE SlotInv'
    OBVIOUS
<1>1. ASSUME NEW c \in Callers, \/ \E s \in Servers : GetClientForTool(c, s)
                                \/ GetClientStep(c)
                                \/ RequestStep(c) /\ UNCHANGED registryVars
      PROVE  SlotInv'
    BY <1>1, SlotsAcquired, SlotsCreated, SlotsDropped, SlotsLeft DEF GetClientStep
<1> QED BY <1>1, SlotsElsewhere DEF Next

LEMMA SlotInit == Init => SlotInv
<1> SUFFICES ASSUME Init PROVE SlotInv
    OBVIOUS
<1>1. Waiting = {}
    BY DEF Init, ClientInit, Waiting
<1>2. Owned = {}
    BY ClientAssumption DEF Init, Owned
<1>3. slots = 0
    BY DEF Init
<1> QED BY <1>1, <1>2, <1>3, FS_EmptySet DEF SlotInv

\* MaxProcesses bounds the open connections while no dead client has been
\* replaced: every slot that is given back is one that its client, or its
\* caller, had (registry.go acquireProcessSlot, releaseProcessSlot).
THEOREM LimitIsKept == Spec => []WithinLimit
<1>1. TypeInv /\ OwnerInv /\ SlotInv => WithinLimit
  <2> SUFFICES ASSUME TypeInv, OwnerInv, SlotInv, limit > 0, ~replaced
               PROVE  Cardinality({k \in Clients : Running(k)}) <= limit
      BY DEF WithinLimit
  <2> DEFINE R == {k \in Clients : Running(k)}
  <2>1. R \subseteq Owned
    BY OrphanIsUnowned DEF OwnerInv
  <2>2. IsFiniteSet(R) /\ Cardinality(R) <= Cardinality(Owned)
    BY <2>1, FS_Subset DEF TypeInv
  <2>3. Cardinality(R) \in Nat
    BY <2>2, FS_CardinalityType
  <2>4. Cardinality(Waiting) + Cardinality(Owned) <= slots
    BY DEF SlotInv
  <2>5. /\ limit \in Nat /\ slots \in Nat /\ slots <= limit
        /\ Cardinality(Waiting) \in Nat /\ Cardinality(Owned) \in Nat
    BY SlotNumbers DEF SlotInv
  <2> HIDE DEF R
  <2>6. Cardinality(R) <= limit
    BY <2>2, <2>3, <2>4, <2>5
  <2> QED BY <2>6 DEF R
<1>2. Init => TypeInv /\ OwnerInv /\ SlotInv
    BY TypeInit, OwnerInit, SlotInit
<1>3. TypeInv /\ OwnerInv /\ SlotInv /\ [Next]_vars => (TypeInv /\ OwnerInv /\ SlotInv)'
    BY TypeNext, OwnerNext, SlotNext
<1> QED BY <1>1, <1>2, <1>3, PTL DEF Spec
=============================================================================
