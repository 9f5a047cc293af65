-------------------------- MODULE PendingToolStore --------------------------
(***************************************************************************)
(* The two stores of the human-in-the-loop gate: MemoryPendingStore        *)
(* (sdk/tools/memory.go), the bounded table of calls that await a          *)
(* decision, and ResolvedStore (sdk/tools/pending.go), the decisions not   *)
(* yet sent to the model.  Each has one lock around every operation, so    *)
(* every operation is one atomic action.  The Redis store differs in two   *)
(* ways: its Claim is a GETDEL and it has no limit.                        *)
(*                                                                         *)
(* Time is abstracted: any held call may be older than the TTL when the    *)
(* cleanup loop passes.                                                    *)
(***************************************************************************)
EXTENDS Naturals, FiniteSets

CONSTANT MaxPending       \* maxPending

VARIABLES pending,        \* the calls held
          resolved        \* the calls decided, their resolutions not popped yet

StoreInit == pending = {} /\ resolved = {}

Full == Cardinality(pending) >= MaxPending

Add(c) == ~Full /\ pending' = pending \cup {c}

Get(c) == c \in pending

\* Claim removes and returns the call: of two callers one finds it.
Claim(c) == c \in pending /\ pending' = pending \ {c}

RemoveExpired(S) == S \subseteq pending /\ pending' = pending \ S

ResolvedAdd(c) == resolved' = resolved \cup {c}

PopAll == resolved' = {}
=============================================================================
