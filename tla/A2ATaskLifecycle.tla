-------------------------- MODULE A2ATaskLifecycle --------------------------
(***************************************************************************)
(* What a client that polls tasks/get may ever see of a task: the contract *)
(* that the A2A server's handlers, goroutines, cancellations and evictions *)
(* together implement.  It is narrower than the store's transition table:  *)
(* no handler sets auth_required or rejected, and none takes a task from   *)
(* input_required back to working, because a tool result starts a task of  *)
(* its own.                                                                *)
(***************************************************************************)
CONSTANT Tasks

VARIABLE status

Submit(t) == /\ status[t] = "none"
             /\ status' = [status EXCEPT ![t] = "submitted"]

Work(t) == /\ status[t] = "submitted"
           /\ status' = [status EXCEPT ![t] = "working"]

Settle(t) == /\ status[t] = "working"
             /\ \E s \in {"completed", "failed", "input_required"} :
                    status' = [status EXCEPT ![t] = s]

Abort(t) == /\ status[t] \in {"submitted", "working", "input_required"}
            /\ status' = [status EXCEPT ![t] = "canceled"]

Expire == \E old \in SUBSET Tasks :
             /\ \A t \in old : status[t] \in {"completed", "failed", "canceled"}
             /\ status' = [t \in Tasks |-> IF t \in old THEN "evicted" ELSE status[t]]

Init == status = [t \in Tasks |-> "none"]

Next == \/ \E t \in Tasks : Submit(t) \/ Work(t) \/ Settle(t) \/ Abort(t)
        \/ Expire

Spec == Init /\ [][Next]_status
=============================================================================
