------------------------ MODULE MCDuplexConversation ------------------------
(* The model-checking instance of DuplexConversation: one sender, one      *)
(* closer, and two reviewers of one gated call.                            *)
EXTENDS DuplexConversation

CONSTANTS s1, r1, r2, k1, c1
=============================================================================
