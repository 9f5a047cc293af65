---------------------------- MODULE ToolApproval ----------------------------
(***************************************************************************)
(* What the human-in-the-loop gate promises about one tool call of the     *)
(* model: the contract that the checker of a duplex session, the pending   *)
(* store, the reviewers and the duplex stream together implement.  A gated *)
(* call is held until one reviewer decides it or it expires; its handler   *)
(* runs only once and only when approved; the model gets at most one       *)
(* answer, and only after the decision.                                    *)
(*                                                                         *)
(* The one way round the gate is written down, not hidden: a call that     *)
(* arrives while Capacity others are held, or that a failing store does    *)
(* not take, is not held but run (the checker's early return when Add      *)
(* fails).                                                                 *)
(***************************************************************************)
EXTENDS FiniteSets, Naturals

CONSTANTS Calls,       \* the tool calls of the model
          Gated,       \* those whose check function asks for approval
          Capacity,    \* how many calls may be held
          MayFail      \* whether the store may fail to hold one

VARIABLE call          \* call[c]: where the call is

Held == {c \in Calls : call[c] = "held"}

Move(c, from, to) == call[c] = from /\ call' = [call EXCEPT ![c] = to]

Hold(c) == c \in Gated /\ Cardinality(Held) < Capacity /\ Move(c, "new", "held")

RunUngated(c) == /\ c \notin Gated \/ Cardinality(Held) >= Capacity \/ MayFail
                 /\ Move(c, "new", "run")

Decide(c) == Move(c, "held", "approved") \/ Move(c, "held", "rejected")

Run(c) == Move(c, "approved", "run")

Expire == \E S \in SUBSET Held :
             call' = [c \in Calls |-> IF c \in S THEN "expired" ELSE call[c]]

Answer == \E S \in SUBSET {c \in Calls : call[c] \in {"run", "rejected"}} :
             call' = [c \in Calls |-> IF c \in S THEN "answered" ELSE call[c]]

Init == call = [c \in Calls |-> "new"]

Next == \/ \E c \in Calls : Hold(c) \/ RunUngated(c) \/ Decide(c) \/ Run(c)
        \/ Expire
        \/ Answer

Spec == Init /\ [][Next]_call
=============================================================================
