----------------------------- MODULE MCPRegistry -----------------------------
(***************************************************************************)
(* The MCP registry (runtime/mcp/registry.go) over its clients: callers    *)
(* that look for the client of a tool, make it when there is none, and     *)
(* call the tool (runtime/tools/mcp_executor.go), while others register    *)
(* and unregister servers and close the registry.                          *)
(*                                                                         *)
(* Each server has one tool, and is named for it.  An action is a section  *)
(* under r.mu or a call of a client; r.mu is held over several actions     *)
(* only by the caller that installed a client, until its ListTools has     *)
(* returned, and by Close.  Of a refresh of all servers (ListAllTools) a   *)
(* caller runs the goroutine of its own server.  Forks of a registry, with *)
(* them GetClient's fall-through to the parent, and the streamable HTTP    *)
(* transport, whose client has no connection, are left out.                *)
(***************************************************************************)
EXTENDS MCPClient

CONSTANTS Servers,
          Admins,        \* goroutines that call UnregisterServer or Close, each once
          Limits         \* the values options.MaxProcesses may have, 0 for no limit

ASSUME RegistryAssumption ==
    /\ Limits \subseteq Nat /\ None \notin Admins /\ Callers \cap Admins = {}

VARIABLES
    servers,    \* r.servers: the registered ones
    clients,    \* r.clients
    indexed,    \* the servers whose tools are in r.toolIndex
    closed,     \* r.closed
    overtaken,  \* Close ran while a caller was past the test of r.closed
    limit,      \* r.processSem: its capacity, 0 if it is nil; fixed
    slots,      \* how many slots of r.processSem are taken
    mu,         \* who holds r.mu for writing
    mine,       \* mine[c]: newClient, the client it is making
    target,     \* target[c]: the server of the tool that the caller wants
    refresh,    \* refresh[c]: the caller runs refreshAllToolIndices
    admin,      \* admin[a]: its control, and the clients it has yet to close
    replaced    \* some caller found a dead client in the table and replaced it

registryVars == <<servers, clients, indexed, closed, overtaken, limit, slots, mu, mine, target,
                  refresh, admin, replaced>>
vars == <<clientVars, registryVars>>

Init ==
    /\ ClientInit
    /\ servers = Servers
    /\ clients = [s \in Servers |-> None]
    /\ limit \in Limits
    /\ indexed = {} /\ closed = FALSE /\ overtaken = FALSE /\ slots = 0 /\ mu = None
    /\ mine = [c \in Callers |-> None] /\ target = [c \in Callers |-> None]
    /\ refresh = [c \in Callers |-> FALSE]
    /\ admin = [a \in Admins |-> [at |-> "idle", todo |-> {}]]
    /\ replaced = FALSE

\* The client of a server that is in the table, if it is alive.
Live(s) == clients[s] # None /\ IsAlive(clients[s])

Goes(c, label) == at' = [at EXCEPT ![c] = label]

\* GetClient has returned a client: the refresh lists its tools, the call of
\* the tool is made.
Returns(c, k) ==
    /\ using' = [using EXCEPT ![c] = k]
    /\ Goes(c, IF refresh[c] THEN "list" ELSE "ready")

\* acquireProcessSlot: nothing to take without a limit.
Acquired == IF limit > 0 THEN slots + 1 ELSE slots

\* releaseProcessSlot: no slot taken is not an error.
Released(n) == IF n <= slots THEN slots - n ELSE 0

\* The client a caller makes, and the end of its being made.
Fresh == CHOOSE k \in Clients : conn[k] = "none" /\ \A j \in Clients : conn[j] = "none" => k <= j
Forgets(c) == mine' = [mine EXCEPT ![c] = None]

UsingUnchanged == UNCHANGED <<transport, conn, nextID, table, wire, using, requestVars>>
TableUnchanged == UNCHANGED <<servers, clients, indexed, closed, overtaken, limit>>

-----------------------------------------------------------------------------
(* GetClientForTool.                                                       *)

\* The tool index knows the server, or every server is asked first.
GetClientForTool(c, s) ==
    /\ at[c] = "idle" /\ mu = None
    /\ target' = [target EXCEPT ![c] = s]
    /\ refresh' = [refresh EXCEPT ![c] = s \notin indexed]
    /\ Goes(c, IF s \in indexed \cup servers THEN "try" ELSE "failed")
    /\ UsingUnchanged /\ TableUnchanged /\ UNCHANGED <<slots, mu, mine, admin, replaced>>

\* fetchServerTools: ListTools of a client that may have gone meanwhile.
FetchServerTools(c) ==
    /\ at[c] = "list"
    /\ Goes(c, IF IsAlive(using[c]) THEN "index" ELSE "failed")
    /\ UsingUnchanged /\ UNCHANGED registryVars

\* updateToolsResult.  A ListTools that failed has returned no tools and no
\* error (EnableGracefulDegradation).
UpdateToolsResult(c) ==
    /\ at[c] = "index" /\ mu = None
    /\ indexed' \in {indexed, indexed \cup {target[c]}}
    /\ Goes(c, "lookup")
    /\ UsingUnchanged
    /\ UNCHANGED <<servers, clients, closed, overtaken, limit, slots, mu, mine, target, refresh,
                   admin, replaced>>

\* The second look at the index.
LookUp(c) ==
    /\ at[c] = "lookup" /\ mu = None
    /\ refresh' = [refresh EXCEPT ![c] = FALSE]
    /\ Goes(c, IF target[c] \in indexed THEN "try" ELSE "failed")
    /\ UsingUnchanged /\ TableUnchanged /\ UNCHANGED <<slots, mu, mine, target, admin, replaced>>

-----------------------------------------------------------------------------
(* GetClient and createNewClient.                                          *)

\* tryGetExistingClient.
TryGetExistingClient(c) ==
    /\ at[c] = "try" /\ mu = None
    /\ IF ~closed /\ Live(target[c]) THEN Returns(c, clients[target[c]])
       ELSE Goes(c, IF closed THEN "failed" ELSE "local") /\ UNCHANGED using
    /\ UNCHANGED <<transport, conn, nextID, table, wire, requestVars, registryVars>>

\* The server must be registered, and a slot free.
AcquireProcessSlot(c) ==
    /\ at[c] = "local" /\ mu = None
    /\ IF target[c] \notin servers \/ (limit > 0 /\ slots = limit)
       THEN UNCHANGED slots /\ Goes(c, "failed")
       ELSE slots' = Acquired /\ Goes(c, "check")
    /\ UsingUnchanged /\ TableUnchanged /\ UNCHANGED <<mu, mine, target, refresh, admin, replaced>>

\* Mutant: the slot is given back although nothing is replaced.
SlotsReplacingNothing(c) == Released(1)

\* The extra slot of a replacement.
SlotsReplacing(c) == IF clients[target[c]] # None THEN Released(1) ELSE slots

\* The first check under the lock: another caller's client is used and the slot
\* given back; a dead one is about to be replaced, and the slot given back as
\* well.  The server may have been unregistered: its configuration is empty.
CreateNewClient(c) ==
    /\ at[c] = "check" /\ mu = None
    /\ LET k == clients[target[c]]
       IN  IF Live(target[c])
           THEN /\ Returns(c, k) /\ slots' = Released(1)
                /\ UNCHANGED <<conn, mine, replaced>>
           ELSE /\ \E j \in Clients : conn[j] = "none"      \* the bound on clients
                /\ slots' = SlotsReplacing(c)
                /\ replaced' = (replaced \/ k # None)
                /\ conn' = [conn EXCEPT ![Fresh] = "starting"]
                /\ mine' = [mine EXCEPT ![c] = Fresh]
                /\ Goes(c, IF target[c] \in servers THEN "init" ELSE "broken")
                /\ UNCHANGED using
    /\ UNCHANGED <<transport, nextID, table, wire, requestVars, mu, target, refresh, admin>>
    /\ TableUnchanged

\* Initialize fails, and leaves nothing open.
InitializeFails(c) ==
    /\ at[c] \in {"init", "broken"}
    /\ conn' = [conn EXCEPT ![mine[c]] = "closed"] /\ Forgets(c)
    /\ slots' = Released(1)
    /\ Goes(c, "failed")
    /\ UNCHANGED <<transport, nextID, table, wire, using, requestVars, mu, target, refresh, admin,
                   replaced>>
    /\ TableUnchanged

Initialize(c) ==
    /\ at[c] = "init"
    /\ conn' = [conn EXCEPT ![mine[c]] = "up"]
    /\ Goes(c, "install")
    /\ UNCHANGED <<transport, nextID, table, wire, using, requestVars, registryVars>>

\* Mutant: the last check is left out.
InstallUnchecked(c) ==
    /\ at[c] = "install" /\ mu = None
    /\ clients' = [clients EXCEPT ![target[c]] = mine[c]]
    /\ mu' = c /\ using' = [using EXCEPT ![c] = mine[c]] /\ Forgets(c)
    /\ Goes(c, "refresh")
    /\ UNCHANGED <<transport, conn, nextID, table, wire, requestVars, servers, indexed, closed,
                   overtaken, limit, slots, target, refresh, admin, replaced>>

\* The final check: who finds another's client alive closes his own.  The lock
\* is kept for the refresh of the tool index.
Install(c) ==
    /\ at[c] = "install" /\ mu = None
    /\ IF Live(target[c])
       THEN /\ Goes(c, "discard") /\ using' = [using EXCEPT ![c] = clients[target[c]]]
            /\ UNCHANGED <<clients, mu, mine>>
       ELSE /\ clients' = [clients EXCEPT ![target[c]] = mine[c]]
            /\ mu' = c /\ using' = [using EXCEPT ![c] = mine[c]] /\ Forgets(c)
            /\ Goes(c, "refresh")
    /\ UNCHANGED <<transport, conn, nextID, table, wire, requestVars, servers, indexed, closed,
                   overtaken, limit, slots, target, refresh, admin, replaced>>

\* The loser closes his client and uses the other's.
Discard(c) ==
    /\ at[c] = "discard"
    /\ Close({mine[c]}) /\ Forgets(c) /\ slots' = Released(1) /\ Returns(c, using[c])
    /\ UNCHANGED <<transport, nextID, table, requestVars, mu, target, refresh, admin, replaced>>
    /\ TableUnchanged

\* refreshToolIndexForServer: a ListTools that failed empties the index of the
\* server, one on a client that is gone leaves it.
RefreshToolIndex(c) ==
    /\ at[c] = "refresh"
    /\ indexed' \in IF IsAlive(using[c]) THEN {indexed \cup {target[c]}, indexed \ {target[c]}}
                    ELSE {indexed}
    /\ mu' = None /\ Returns(c, using[c])
    /\ UNCHANGED <<transport, conn, nextID, table, wire, requestVars, servers, clients, closed,
                   overtaken, limit, slots, mine, target, refresh, admin, replaced>>

GetClientStep(c) ==
    \/ FetchServerTools(c) \/ UpdateToolsResult(c) \/ LookUp(c)
    \/ TryGetExistingClient(c) \/ AcquireProcessSlot(c) \/ CreateNewClient(c)
    \/ InitializeFails(c) \/ Initialize(c) \/ Install(c) \/ Discard(c) \/ RefreshToolIndex(c)

-----------------------------------------------------------------------------
(* RegisterServer, UnregisterServer and Close.                             *)

RegisterServer(s) ==
    /\ mu = None /\ ~closed /\ s \notin servers
    /\ servers' = servers \cup {s}
    /\ UNCHANGED <<clientVars, clients, indexed, closed, overtaken, limit, slots, mu, mine, target,
                   refresh, admin, replaced>>

UnregisterServer(a, s) ==
    /\ admin[a].at = "idle" /\ mu = None /\ ~closed
    /\ servers' = servers \ {s} /\ indexed' = indexed \ {s}
    /\ clients' = [clients EXCEPT ![s] = None]
    /\ admin' = [admin EXCEPT ![a] = [at |-> "close", todo |-> {clients[s]} \ {None}]]
    /\ UNCHANGED <<clientVars, closed, overtaken, limit, slots, mu, mine, target, refresh, replaced>>

\* The labels from the test of r.closed to the table: nothing on the way looks
\* at it again.
OnTheWay == {"local", "check", "init", "broken", "install"}

\* The registry's Close keeps r.mu to its end.
CloseRegistry(a) ==
    /\ admin[a].at = "idle" /\ mu = None
    /\ closed' = TRUE
    /\ overtaken' = (overtaken \/ (~closed /\ \E c \in Callers : at[c] \in OnTheWay))
    /\ IF closed THEN admin' = [admin EXCEPT ![a].at = "returned"] /\ UNCHANGED mu
       ELSE /\ admin' = [admin EXCEPT ![a] = [at |-> "close",
                             todo |-> {clients[s] : s \in Servers} \ {None}]]
            /\ mu' = a
    /\ UNCHANGED <<clientVars, servers, clients, indexed, limit, slots, mine, target, refresh, replaced>>

\* The clients are closed and their slots released; Close clears the tables.
CloseClients(a) ==
    /\ admin[a].at = "close"
    /\ Close(admin[a].todo)
    /\ slots' = Released(Cardinality(admin[a].todo))
    /\ admin' = [admin EXCEPT ![a] = [at |-> "returned", todo |-> {}]]
    /\ IF mu = a
       THEN mu' = None /\ indexed' = {} /\ clients' = [s \in Servers |-> None]
       ELSE UNCHANGED <<mu, indexed, clients>>
    /\ UNCHANGED <<transport, nextID, table, at, using, requestVars, servers, closed, overtaken, limit,
                   mine, target, refresh, replaced>>

-----------------------------------------------------------------------------
Next ==
    \/ \E c \in Callers : \/ \E s \in Servers : GetClientForTool(c, s)
                          \/ GetClientStep(c)
                          \/ RequestStep(c) /\ UNCHANGED registryVars
    \/ ServerStep /\ UNCHANGED registryVars
    \/ \E s \in Servers : RegisterServer(s)
    \/ \E a \in Admins : \/ \E s \in Servers : UnregisterServer(a, s)
                         \/ CloseRegistry(a) \/ CloseClients(a)

Spec == Init /\ [][Next]_vars

-----------------------------------------------------------------------------
(* Properties.                                                             *)

Labels == {"idle", "try", "local", "check", "init", "broken", "install", "discard", "refresh",
           "list", "index", "lookup", "ready", "send", "wait", "done", "failed"}

\* Every variable holds what the code can put there; the semaphore stays within
\* its capacity.
TypeOK ==
    /\ transport \in Transports
    /\ conn \in [Clients -> {"none", "starting", "up", "deaf", "dead", "closed"}]
    /\ nextID \in [Clients -> Nat] /\ id \in [Callers -> Nat]
    /\ table \in [Clients -> SUBSET [id : Nat, chan : Callers]]
    /\ wire \subseteq [type : {"request", "reply"}, client : Clients, id : Nat, call : Callers]
    /\ at \in [Callers -> Labels] /\ using \in [Callers -> Clients \cup {None}]
    /\ attempt \in [Callers -> 0 .. MaxRetries]
    /\ reply \in [Callers -> Callers \cup {None}] /\ result \in [Callers -> Callers \cup {None}]
    /\ servers \subseteq Servers /\ indexed \subseteq Servers
    /\ closed \in BOOLEAN /\ overtaken \in BOOLEAN
    /\ clients \in [Servers -> Clients \cup {None}]
    /\ limit \in Limits /\ slots \in 0 .. limit
    /\ mu \in Callers \cup Admins \cup {None}
    /\ mine \in [Callers -> Clients \cup {None}]
    /\ target \in [Callers -> Servers \cup {None}] /\ refresh \in [Callers -> BOOLEAN]
    /\ admin \in [Admins -> [at : {"idle", "close", "returned"}, todo : SUBSET Clients]]
    /\ replaced \in BOOLEAN

\* The result a caller returns is that of its own call, although callers share
\* a connection and a timed-out request is sent again while its first reply is
\* still under way (client.go sendRequest, sse_transport.go deliver).
AnswerIsOwn == \A c \in Callers : at[c] = "done" => result[c] = c

\* The pending table holds only requests that someone waits for: no return of
\* sendRequest leaves an entry behind (client.go, the deferred Delete;
\* sse_transport.go, cancel and deliver).
TableIsWaitedFor ==
    \A k \in Clients : \A e \in table[k] : at[e.chan] = "wait" /\ using[e.chan] = k /\ e.id = id[e.chan]

\* No connection is lost: one that is open is in a table where Close or
\* UnregisterServer will find it, in the hands of the caller that makes it, or
\* about to be closed.  Of two callers that made a client for one server the
\* loser closes his (registry.go createNewClient).  A closed registry has no
\* client, with one exception: a caller was making one when Close ran.  Its
\* last check does not look at r.closed, the client goes into the table that
\* Close has emptied, and no later Close or UnregisterServer touches it.
NoOrphan ==
    \A k \in Clients : Running(k) =>
        \/ (closed => overtaken) /\ \E s \in Servers : clients[s] = k
        \/ \E c \in Callers : mine[c] = k
        \/ \E a \in Admins : k \in admin[a].todo

\* MaxProcesses bounds the connections that are open, as long as no client was
\* found dead and replaced (registry.go createNewClient: the replacement gives
\* back a slot that the failure or the loss of a race gives back again).
WithinLimit ==
    limit > 0 /\ ~replaced => Cardinality({k \in Clients : Running(k)}) <= limit

\* Replies and callers match: a result goes to the call it is of, and the table
\* holds only requests somebody waits for (client.go sendRequestLocked).
AnswersMatch == TypeOK /\ AnswerIsOwn /\ TableIsWaitedFor
=============================================================================
