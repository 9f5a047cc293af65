------------------------------ MODULE MCPClient ------------------------------
(***************************************************************************)
(* The MCP clients: StdioClient (runtime/mcp/client.go), a JSON-RPC        *)
(* connection to a child process, and SSEClient (sse_client.go,            *)
(* sse_transport.go), one over an event stream.  Clients are numbered in   *)
(* the order they are made.  Of the requests that travel over a connection *)
(* the calls of tools are modelled message by message: their ids, the      *)
(* table of pending requests, the reply that comes after its request timed *)
(* out and was sent again.  The handshake of Initialize and ListTools are  *)
(* their outcomes.                                                         *)
(*                                                                         *)
(* checkHealth tests c.cmd and c.cmd.Process, which nothing sets back to   *)
(* nil once the process has started: a dead process is healthy, and        *)
(* reconnect with what it calls (client.go, lines 398 to 598) is never     *)
(* reached.  It is not modelled.                                           *)
(***************************************************************************)
EXTENDS Naturals, FiniteSets

CONSTANTS Callers,       \* goroutines that call a tool, each once
          Clients,       \* 1 .. n, enough for two clients of every caller
          MaxRetries,    \* options.MaxRetries
          Transports,    \* the transports the server may be configured with
          None           \* no client, no caller

ASSUME ClientAssumption ==
    /\ None \notin Callers \cup Clients /\ Clients \subseteq Nat /\ MaxRetries \in Nat
    /\ Transports \subseteq {"stdio", "sse"}

VARIABLES
    transport,  \* ServerConfig.Transport(): fixed
    conn,       \* conn[k]: the connection of a client
    nextID,     \* nextID[k]
    table,      \* table[k]: pendingReqs, the ids and whose channel they lead to
    wire,       \* the messages under way, in both directions
    at,         \* at[c]: the control of a caller
    using,      \* using[c]: the client that GetClient gave it
    id,         \* id[c]: the id of its attempt
    attempt,    \* attempt[c]
    reply,      \* reply[c]: the contents of its response channel
    result      \* result[c]: the caller whose call the result it returned is of

requestVars == <<id, attempt, reply, result>>
clientVars  == <<transport, conn, nextID, table, wire, at, using, requestVars>>

ClientInit ==
    /\ transport \in Transports
    /\ conn = [k \in Clients |-> "none"]
    /\ nextID = [k \in Clients |-> 0]
    /\ table = [k \in Clients |-> {}]
    /\ wire = {}
    /\ at = [c \in Callers |-> "idle"]
    /\ using = [c \in Callers |-> None]
    /\ id = [c \in Callers |-> 0] /\ attempt = [c \in Callers |-> 0]
    /\ reply = [c \in Callers |-> None] /\ result = [c \in Callers |-> None]

\* A closed client is not alive.  An SSE client sees that its stream has ended;
\* a stdio client does not see that its process died, or that its reader
\* stopped at a line over 1 MB.
IsAlive(k) == conn[k] \in IF transport = "stdio" THEN {"up", "deaf", "dead"} ELSE {"up"}

\* The process or the stream is open.
Running(k) == conn[k] \in {"starting", "up", "deaf"}

-----------------------------------------------------------------------------
(* A tool call: sendRequestWithRetry and sendRequest.                      *)

Entry(c) == [id |-> id[c], chan |-> c]

\* The attempt is over: defer pendingReqs.Delete(id), and its channel is gone.
Deleted(c) ==
    /\ table' = [table EXCEPT ![using[c]] = @ \ {Entry(c)}]
    /\ id' = [id EXCEPT ![c] = 0] /\ reply' = [reply EXCEPT ![c] = None]

\* The call returns; its locals are gone.
Ends(c, label) ==
    /\ at' = [at EXCEPT ![c] = label]
    /\ using' = [using EXCEPT ![c] = None] /\ attempt' = [attempt EXCEPT ![c] = 0]

\* CallTool: checkHealth of a stdio client, checkAlive of an SSE client.
CallTool(c) ==
    /\ at[c] = "ready"
    /\ IF IsAlive(using[c]) THEN at' = [at EXCEPT ![c] = "send"] /\ UNCHANGED <<using, attempt>>
       ELSE Ends(c, "failed")
    /\ UNCHANGED <<transport, conn, nextID, table, wire, id, reply, result>>

\* A failed attempt is followed by another one, but not for an SSE client and
\* not after the last.
AttemptFails(c) ==
    IF transport = "stdio" /\ attempt[c] < MaxRetries
    THEN /\ at' = [at EXCEPT ![c] = "send"] /\ UNCHANGED using
         /\ attempt' = [attempt EXCEPT ![c] = @ + 1]
    ELSE Ends(c, "failed")

\* Mutant: the id is the number of the attempt.
FreshIDLocal(c) == attempt[c] + 1

FreshID(c) == nextID[using[c]] + 1

\* sendRequest registers the id and writes the message.  The POST of an SSE
\* client may be accepted although its stream has ended.
SendRequest(c) ==
    /\ at[c] = "send"
    /\ conn[using[c]] \in {"up", "deaf"} \/ transport = "sse"
    /\ LET n == FreshID(c)
       IN  /\ nextID' = [nextID EXCEPT ![using[c]] = @ + 1]
           /\ id' = [id EXCEPT ![c] = n]
           /\ table' = [table EXCEPT ![using[c]] =
                           {e \in @ : e.id # n} \cup {[id |-> n, chan |-> c]}]
           /\ wire' = IF conn[using[c]] \notin {"up", "deaf"} THEN wire
                      ELSE wire \cup {[type |-> "request", client |-> using[c], id |-> n, call |-> c]}
    /\ at' = [at EXCEPT ![c] = "wait"]
    /\ UNCHANGED <<transport, conn, using, attempt, reply, result>>

\* The write fails: the pipe is broken or closed, the POST is refused.
SendFails(c) ==
    /\ at[c] = "send"
    /\ conn[using[c]] \in {"dead", "closed"} \/ transport = "sse"
    /\ AttemptFails(c)
    /\ nextID' = [nextID EXCEPT ![using[c]] = @ + 1]
    /\ UNCHANGED <<transport, conn, table, wire, id, reply, result>>

\* The response channel has the reply.
ReceiveReply(c) ==
    /\ at[c] = "wait" /\ reply[c] # None
    /\ \/ /\ result' = [result EXCEPT ![c] = reply[c]]
          /\ Ends(c, "done")
       \/ AttemptFails(c) /\ UNCHANGED result     \* a JSON-RPC error
    /\ Deleted(c)
    /\ UNCHANGED <<transport, conn, nextID, wire>>

\* options.RequestTimeout, of a stdio client only.
RequestTimeout(c) ==
    /\ at[c] = "wait" /\ transport = "stdio"
    /\ AttemptFails(c)
    /\ Deleted(c)
    /\ UNCHANGED <<transport, conn, nextID, wire, result>>

\* The caller's context ends, in the wait for the reply or between attempts.
ContextDone(c) ==
    /\ at[c] = "wait" \/ (at[c] = "send" /\ attempt[c] > 0)
    /\ Ends(c, "failed")
    /\ Deleted(c)
    /\ UNCHANGED <<transport, conn, nextID, wire, result>>

RequestStep(c) == \/ CallTool(c) \/ SendRequest(c) \/ SendFails(c) \/ ReceiveReply(c)
                  \/ RequestTimeout(c) \/ ContextDone(c)

-----------------------------------------------------------------------------
(* The server and the reader.                                              *)

\* The server runs the tool and answers; nobody reads it when the reader has
\* stopped.
ServerHandles(m) ==
    /\ m.type = "request"
    /\ wire' = (wire \ {m}) \cup {n \in {[m EXCEPT !.type = "reply"]} : conn[m.client] = "up"}
    /\ UNCHANGED <<transport, conn, nextID, table, at, using, id, attempt, reply, result>>

\* readLoop and handleMessage: a reply goes to the channel of its id, if the id
\* is pending and the channel empty, and is dropped otherwise.  The SSE reader
\* takes the id out of the table.
HandleMessage(m) ==
    /\ m.type = "reply"
    /\ wire' = wire \ {m}
    /\ reply' = [c \in Callers |->
                    IF [id |-> m.id, chan |-> c] \in table[m.client] /\ reply[c] = None
                    THEN m.call ELSE reply[c]]
    /\ table' = IF transport = "stdio" THEN table
                ELSE [table EXCEPT ![m.client] = {e \in @ : e.id # m.id}]
    /\ UNCHANGED <<transport, conn, nextID, at, using, id, attempt, result>>

\* The process exits, the stream ends: what the server had not answered is lost,
\* what is in the pipe of a process is still read.
Dies(k) ==
    /\ conn[k] \in {"up", "deaf"}
    /\ conn' = [conn EXCEPT ![k] = "dead"]
    /\ wire' = {m \in wire : m.client = k => m.type = "reply" /\ transport = "stdio"}
    /\ UNCHANGED <<transport, nextID, table, at, using, requestVars>>

\* The reader of a stdio client gives up at a line that is too long.
ReaderStops(k) ==
    /\ transport = "stdio" /\ conn[k] = "up"
    /\ conn' = [conn EXCEPT ![k] = "deaf"]
    /\ wire' = {m \in wire : m.client = k => m.type = "request"}
    /\ UNCHANGED <<transport, nextID, table, at, using, requestVars>>

ServerStep == \/ \E m \in wire : ServerHandles(m) \/ HandleMessage(m)
              \/ \E k \in Clients : Dies(k) \/ ReaderStops(k)

\* Client.Close, of every client of S: idempotent; the process is killed, the
\* pipes and the stream are closed.
Close(S) ==
    /\ conn' = [k \in Clients |-> IF k \in S THEN "closed" ELSE conn[k]]
    /\ wire' = {m \in wire : m.client \notin S}
=============================================================================
