--------------------------- MODULE MCStagePipeline ---------------------------
(* A router feeds a stage that may fail and, past it, the merge behind it.   *)
EXTENDS StagePipeline

MCStages == {"router", "map", "merge"}
MCEdges == {<<"router", "map">>, <<"map", "merge">>, <<"router", "merge">>}
MCKind == [s \in MCStages |-> s]

\* The way of the track through the map, and of the one past it.
MCTrack(d) ==
    <<<<Input, "input">>, <<<<"router", d>>, d>>>>
    \o (IF d = "map" THEN <<<<Shared("map"), d>>>> ELSE <<>>)
    \o <<<<Shared("merge"), d>>, <<Output, d>>>>
MCPlaces == UNION {{MCTrack(d)[i] : i \in DOMAIN MCTrack(d)} : d \in {"map", "merge"}}
MCWay == [x \in MCPlaces |->
    LET t == MCTrack(IF x[2] = "input" THEN "map" ELSE x[2])
        k == CHOOSE i \in DOMAIN t : t[i] = x
    IN  {t[i] : i \in 1 .. k - 1}]

\* The graph is one of those that the proofs about order and failures speak of.
ASSUME OneWay(MCWay) /\ OnlyMergesBehind({"map", "merge"})
=============================================================================
