----------------------------- MODULE MCEventBus -----------------------------
(* The model-checking instance of EventBus: l1 listens to one event type,  *)
(* which e1 and e3 have and e2 has not.                                    *)
EXTENDS EventBus, TLC

CONSTANTS l1, e1, e2, e3, w1, w2, c1

Topics == [l \in Listeners |-> "message"]
Types == [e \in Events |-> IF e = e2 THEN "tool" ELSE "message"]
=============================================================================
