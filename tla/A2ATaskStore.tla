---------------------------- MODULE A2ATaskStore ----------------------------
(***************************************************************************)
(* The task store of the A2A server (server/a2a/task_store.go):            *)
(* InMemoryTaskStore, one lock around every operation, so every operation  *)
(* is one atomic action.  A task is its status and whether it carries      *)
(* artifacts.  "none" is an ID not handed out yet, "evicted" one that      *)
(* EvictTerminal removed; both are IDs the map does not hold.  Task IDs    *)
(* are random (generateID) and never used twice.                           *)
(*                                                                         *)
(* Time is abstracted: any terminal task may be older than the cutoff of   *)
(* an eviction pass, as the TTL is a parameter of the server.              *)
(***************************************************************************)
CONSTANT Tasks            \* the task IDs

VARIABLES status,         \* status[t]: the task's state
          artifacts       \* artifacts[t]: whether artifacts were added

storeVars == <<status, artifacts>>

\* The states of runtime/a2a/types.go.
TaskStates == {"submitted", "working", "completed", "failed", "canceled",
               "input_required", "auth_required", "rejected"}

terminalStates == {"completed", "failed", "canceled", "rejected"}

\* The edges SetState accepts; a terminal state has none.
validTransitions ==
    [s \in TaskStates |->
        CASE s = "submitted" -> {"working"}
          [] s = "working" ->
                {"completed", "failed", "canceled", "input_required",
                 "auth_required", "rejected"}
          [] s \in {"input_required", "auth_required"} -> {"working", "canceled"}
          [] OTHER -> {}]

Present(t) == status[t] \in TaskStates

StoreInit == /\ status = [t \in Tasks |-> "none"]
             /\ artifacts = [t \in Tasks |-> FALSE]

Create(t) == /\ status[t] = "none"
             /\ status' = [status EXCEPT ![t] = "submitted"]
             /\ UNCHANGED artifacts

Transitions(t, s) == /\ Present(t)
                     /\ status[t] \notin terminalStates
                     /\ s \in validTransitions[status[t]]

\* Mutant of SetState: the transition table is not consulted.
SetStateUnchecked(t, s) ==
    /\ status' = IF Present(t) THEN [status EXCEPT ![t] = s] ELSE status
    /\ UNCHANGED artifacts

\* SetState: an edge that is not allowed, a terminal task and a missing one
\* give an error and change nothing.  Every caller logs the error and goes on.
SetState(t, s) ==
    /\ status' = IF Transitions(t, s) THEN [status EXCEPT ![t] = s] ELSE status
    /\ UNCHANGED artifacts

\* AddArtifacts looks only at whether the task exists, not at its state.
AddArtifacts(t) ==
    /\ artifacts' = [artifacts EXCEPT ![t] = @ \/ Present(t)]
    /\ UNCHANGED status

\* Cancel does not go through validTransitions: it accepts every state that
\* is not terminal, "submitted" too.
CanCancel(t) == Present(t) /\ status[t] \notin terminalStates

Cancel(t) ==
    /\ status' = IF CanCancel(t) THEN [status EXCEPT ![t] = "canceled"] ELSE status
    /\ UNCHANGED artifacts

\* EvictTerminal with a cutoff that the tasks of `old` are older than.
EvictTerminal(old) ==
    /\ \A t \in old : status[t] \in terminalStates
    /\ status' = [t \in Tasks |-> IF t \in old THEN "evicted" ELSE status[t]]
    /\ artifacts' = [t \in Tasks |-> t \notin old /\ artifacts[t]]
=============================================================================
