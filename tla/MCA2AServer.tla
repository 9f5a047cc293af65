---------------------------- MODULE MCA2AServer ----------------------------
(* Instances of A2AServer for TLC.                                         *)
EXTENDS A2AServer, TLC

CONSTANTS t1, t2, c1, s1, s2

OneTask == {t1}
TwoTasks == {t1, t2}
SendTask == {t2}
OneContext == {c1}
NoSubs == {}
TwoSubs == {s1, s2}

SubSymmetry == Permutations({s1, s2})
=============================================================================
