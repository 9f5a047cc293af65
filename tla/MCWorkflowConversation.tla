----------------------- MODULE MCWorkflowConversation -----------------------
(* The model-checking instance of WorkflowConversation: a draft that is     *)
(* reviewed, perhaps after a question to somebody outside.                  *)
EXTENDS WorkflowConversation

CONSTANTS u1, u2, draft, review, ask, done, next, back

ReviewEdges ==
    {[from |-> draft,  on |-> next, to |-> review],
     [from |-> review, on |-> next, to |-> done],
     [from |-> review, on |-> back, to |-> draft],
     [from |-> draft,  on |-> back, to |-> ask],
     [from |-> ask,    on |-> next, to |-> draft]}

VisitLimits == [s \in States |-> IF s = draft THEN 2 ELSE 1]
Redirects == [s \in States |-> IF s = review THEN draft ELSE None]
=============================================================================
