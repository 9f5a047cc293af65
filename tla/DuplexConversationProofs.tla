---------------------- MODULE DuplexConversationProofs ----------------------
(***************************************************************************)
(* Three results, each for any number of senders, reviewers, closers and   *)
(* calls and any capacities.                                               *)
(*                                                                         *)
(* SendChunk cannot panic.  The argument is the discipline of c.mu: a      *)
(* sender in its send is a reader, a closer past the lock is the writer    *)
(* and has waited for the readers, so the input channel is closed only     *)
(* while nobody sends on it, and stays without senders afterwards.         *)
(*                                                                         *)
(* Review is honoured.  The argument follows one call through the places   *)
(* it can be in; every step moves it to a place it was not in and takes it *)
(* out of the one it was in, so it runs once and is answered once.         *)
(*                                                                         *)
(* The conversation implements the approval contract: the same invariant,  *)
(* and a step of the contract for every step that moves a call.            *)
(***************************************************************************)
EXTENDS DuplexConversation, SequenceTheorems, FiniteSetTheorems,
        WellFoundedInduction, TLAPS

\* The controls of senders and closers.
ControlsOK ==
    /\ sender \in [Senders -> {"idle", "sending"}]
    /\ closer \in [Closers -> {"idle", "close", "clear", "eos", "closing", "cancel",
                               "returned"}]

\* Who is in the middle of a send holds c.mu for reading.
SendersRead == \A s \in Senders : sender[s] = "sending" => s \in readers

\* Who is in the middle of Close or Clear holds or awaits c.mu for writing.
ClosersWrite == \A k \in Closers : closer[k] \notin {"idle", "returned"} => writer = k

\* A closer that has c.mu has no reader beside it.
LockExcludes == \A k \in Closers : closer[k] \in {"eos", "closing", "cancel"} => readers = {}

\* No reader is left on a closed session.
ReadersSeeOpen == closed => readers = {}

LockInv == ControlsOK /\ SendersRead /\ ClosersWrite /\ LockExcludes /\ ReadersSeeOpen
           /\ SendersNeverPanic

lockDiscipline == <<writer, readers, sender, closer, closed>>

-----------------------------------------------------------------------------
LEMMA InitLockInv == Init => LockInv
BY DEF Init, LockInv, ControlsOK, SendersRead, ClosersWrite, LockExcludes, ReadersSeeOpen,
       SendersNeverPanic

\* A step that leaves the lock, the controls and the session's flag alone, and
\* is not the panic of a sender.
LEMMA NeutralStep ==
    ASSUME LockInv, UNCHANGED lockDiscipline, panic' # "sender"
    PROVE  LockInv'
BY DEF LockInv, ControlsOK, SendersRead, ClosersWrite, LockExcludes, ReadersSeeOpen,
       SendersNeverPanic, lockDiscipline

LEMMA SendChunkStep ==
    ASSUME LockInv, NEW s \in Senders, SendChunk(s)
    PROVE  LockInv'
<1>1. /\ sender[s] = "idle" /\ writer = None /\ ~closed
      /\ sender' = [sender EXCEPT ![s] = "sending"] /\ readers' = readers \cup {s}
      /\ UNCHANGED <<writer, closer, closed, panic>>
  BY DEF SendChunk, SendChunkHolding, Alive, sessionVars
<1>2. ControlsOK'
  BY <1>1 DEF LockInv, ControlsOK
<1>3. SendersRead'
  BY <1>1 DEF LockInv, ControlsOK, SendersRead
<1>4. ClosersWrite'
  BY <1>1 DEF LockInv, ClosersWrite
<1>5. LockExcludes'
  <2>1. \A k \in Closers : closer[k] \in {"idle", "returned"}
    BY <1>1, DuplexAssumption DEF LockInv, ClosersWrite
  <2>2. \A k \in Closers : closer'[k] \notin {"eos", "closing", "cancel"}
    BY <1>1, <2>1
  <2>3. QED
    BY <2>2 DEF LockExcludes
<1>6. ReadersSeeOpen' /\ SendersNeverPanic'
  BY <1>1 DEF LockInv, ReadersSeeOpen, SendersNeverPanic
<1>7. QED
  BY <1>2, <1>3, <1>4, <1>5, <1>6 DEF LockInv

LEMMA SendChunkReturnsStep ==
    ASSUME LockInv, NEW s \in Senders, SendChunkReturns(s)
    PROVE  LockInv'
<1>1. /\ sender[s] = "sending"
      /\ sender' = [sender EXCEPT ![s] = "idle"] /\ readers' = readers \ {s}
      /\ UNCHANGED <<writer, closer, closed>>
  BY DEF SendChunkReturns, sessionVars
<1>2. ~closed
  BY <1>1 DEF LockInv, SendersRead, ReadersSeeOpen
<1>3. panic' # "sender"
  BY <1>2 DEF SendChunkReturns, SendInput, Alive
<1>4. ControlsOK' /\ SendersRead'
  BY <1>1 DEF LockInv, ControlsOK, SendersRead
<1>5. ClosersWrite' /\ LockExcludes' /\ ReadersSeeOpen'
  BY <1>1 DEF LockInv, ClosersWrite, LockExcludes, ReadersSeeOpen
<1>6. QED
  BY <1>3, <1>4, <1>5 DEF LockInv, SendersNeverPanic

LEMMA LocksStep ==
    ASSUME LockInv, NEW k \in Closers, NEW op \in {"close", "clear"}, Locks(k, op)
    PROVE  LockInv'
<1>1. /\ closer[k] = "idle" /\ writer = None /\ writer' = k
      /\ closer' = [closer EXCEPT ![k] = op]
      /\ UNCHANGED <<readers, sender, closed, panic>>
  BY DEF Locks, CloseUnchanged, Alive, sessionVars
<1>2. ControlsOK' /\ SendersRead' /\ ReadersSeeOpen' /\ SendersNeverPanic'
  BY <1>1 DEF LockInv, ControlsOK, SendersRead, ReadersSeeOpen, SendersNeverPanic
<1>3. \A j \in Closers : closer[j] \in {"idle", "returned"}
  BY <1>1, DuplexAssumption DEF LockInv, ClosersWrite
<1>4. ClosersWrite' /\ LockExcludes'
  BY <1>1, <1>3 DEF LockInv, ControlsOK, ClosersWrite, LockExcludes
<1>5. QED
  BY <1>2, <1>4 DEF LockInv

\* A step of the closer that has the lock, or waits for the last reader.
LEMMA CloserStepStep ==
    ASSUME LockInv, NEW k \in Closers, CloserStep(k)
    PROVE  LockInv'
<1>1. /\ closer[k] \notin {"idle", "returned"} /\ readers = {}
      /\ \E at \in {"eos", "closing", "cancel", "returned"} :
            /\ closer' = [closer EXCEPT ![k] = at]
            /\ writer' = IF at = "returned" THEN None ELSE writer
      /\ UNCHANGED <<readers, sender, panic>>
  <2>1. CASE CloseLocked(k)
    BY <2>1 DEF CloseLocked, CloseUnchanged, Alive
  <2>2. CASE ClearLocked(k)
    BY <2>2 DEF ClearLocked, CloseUnchanged, Alive
  <2>3. CASE Drain(k)
    BY <2>3 DEF Drain, CloseUnchanged, Alive, lockVars, LockInv, LockExcludes
  <2>4. CASE ClosesInput(k)
    BY <2>4 DEF ClosesInput, CloseUnchanged, Alive, lockVars, LockInv, LockExcludes
  <2>5. CASE Cancels(k)
    BY <2>5 DEF Cancels, CloseUnchanged, Alive, LockInv, LockExcludes
  <2>6. QED
    BY <2>1, <2>2, <2>3, <2>4, <2>5 DEF CloserStep
<1>2. ControlsOK' /\ SendersRead' /\ SendersNeverPanic'
  BY <1>1 DEF LockInv, ControlsOK, SendersRead, SendersNeverPanic
<1>3. \A j \in Closers : j # k => closer[j] \in {"idle", "returned"}
  BY <1>1 DEF LockInv, ClosersWrite
<1>4. ClosersWrite'
  BY <1>1, <1>3 DEF LockInv, ControlsOK, ClosersWrite
<1>5. LockExcludes' /\ ReadersSeeOpen'
  BY <1>1 DEF LockExcludes, ReadersSeeOpen
<1>6. QED
  BY <1>2, <1>4, <1>5 DEF LockInv

-----------------------------------------------------------------------------
\* The other goroutines never touch the lock, the controls or the flag, and
\* their panics are their own.
LEMMA ExecNeutral ==
    ASSUME panic # "sender", ExecStep \/ ExecForwards \/ ExecFails
    PROVE  UNCHANGED lockDiscipline /\ panic' # "sender"
<1>1. UNCHANGED lockDiscipline
  BY DEF ExecStep, ExecForwards, ExecFails, ExecReceives, ExecPipelineEnds, ExecCancelled,
         ExecHolds, ExecRuns, ExecSendsResults, ExecUnchanged, lockVars, sessionVars,
         lockDiscipline
<1>2. panic' # "sender"
  BY DEF ExecStep, ExecForwards, ExecFails, ExecReceives, ExecPipelineEnds, ExecCancelled,
         ExecHolds, ExecRuns, ExecSendsResults, SendInput, Alive
<1>3. QED
  BY <1>1, <1>2

LEMMA StageNeutral ==
    ASSUME panic # "sender",
           \/ StageStep \/ FwdStep \/ ProviderSpeaks \/ ProviderFails \/ ProviderCloses
           \/ \E S \in Messages : ProviderCalls(S)
    PROVE  UNCHANGED lockDiscipline /\ panic' # "sender"
<1>1. StageUnchanged
  BY DEF StageStep, FwdStep, ProviderSpeaks, ProviderFails, ProviderCloses, ProviderCalls,
         StageReceivesFirst, StageBuffers, StageOpens, StageFailedEnds, StageStops, StageEnds,
         FwdReceives, FwdCancelled, FwdRecords, FwdSends, RespForwards, RespEnds
<1>2. panic' # "sender"
  BY DEF StageStep, FwdStep, ProviderSpeaks, ProviderFails, ProviderCloses, ProviderCalls,
         StageReceivesFirst, StageBuffers, StageOpens, StageFailedEnds, StageStops, StageEnds,
         FwdReceives, FwdCancelled, FwdRecords, FwdSends, RespForwards, RespEnds, Alive
<1>3. QED
  BY <1>1, <1>2 DEF StageUnchanged, lockVars, sessionVars, lockDiscipline

LEMMA ReviewNeutral ==
    ASSUME panic # "sender", Expires \/ \E r \in Reviewers : ReviewerStep(r)
    PROVE  UNCHANGED lockDiscipline /\ panic' # "sender"
<1>1. ReviewUnchanged
  BY DEF ReviewerStep, Expires, ResolvePeeks, RejectTool, ResolveClaims, Resolves,
         ContinueDuplex, SubmitToolResults
<1>2. panic' # "sender"
  BY DEF ReviewerStep, Expires, ResolvePeeks, RejectTool, ResolveClaims, Resolves,
         ContinueDuplex, SubmitToolResults, SendInput, Alive
<1>3. QED
  BY <1>1, <1>2 DEF ReviewUnchanged, lockVars, sessionVars, lockDiscipline

LEMMA NextLockInv == LockInv /\ [Next]_vars => LockInv'
<1> SUFFICES ASSUME LockInv, [Next]_vars
             PROVE  LockInv'
  OBVIOUS
<1> panic # "sender"
  BY DEF LockInv, SendersNeverPanic
<1>1. CASE \E s \in Senders : SendChunk(s) \/ SendChunkReturns(s)
  BY <1>1, SendChunkStep, SendChunkReturnsStep
<1>2. CASE ExecStep \/ ExecForwards \/ ExecFails
  BY <1>2, ExecNeutral, NeutralStep
<1>3. CASE \/ StageStep \/ FwdStep \/ ProviderSpeaks \/ ProviderFails \/ ProviderCloses
           \/ \E S \in Messages : ProviderCalls(S)
  BY <1>3, StageNeutral, NeutralStep
<1>4. CASE Expires \/ \E r \in Reviewers : ReviewerStep(r)
  BY <1>4, ReviewNeutral, NeutralStep
<1>5. CASE \E k \in Closers : Locks(k, "close") \/ Locks(k, "clear") \/ CloserStep(k)
  BY <1>5, LocksStep, CloserStepStep
<1>6. CASE UNCHANGED vars
  BY <1>6, NeutralStep DEF vars, lockVars, sessionVars, lockDiscipline
<1>7. QED
  BY <1>1, <1>2, <1>3, <1>4, <1>5, <1>6 DEF Next

\* SendChunk never sends on a closed input channel, however many senders,
\* reviewers and closers there are (duplex_session.go SendChunk, Close).
THEOREM NoSenderPanics == Spec => []SendersNeverPanic
<1>1. LockInv => SendersNeverPanic
  BY DEF LockInv
<1>2. QED
  BY <1>1, InitLockInv, NextLockInv, PTL DEF Spec
-----------------------------------------------------------------------------
(***************************************************************************)
(* A tool call on its way.  Until the checker has seen it a call is in one *)
(* message of the model; from then on it is in at most one of nine places, *)
(* and the last seven are reached only when its handler has run or a       *)
(* reviewer has rejected it.                                               *)
(***************************************************************************)
Places == {"pending", "claimed", "resolved", "batch", "input", "replay", "exec", "fwd",
           "answered"}

Claimers(c) == {r \in Reviewers : /\ reviewer[r].at \in {"approved", "rejected"}
                                  /\ reviewer[r].call = c}

InPlace(p, c) ==
    \/ p = "pending" /\ c \in pending
    \/ p = "claimed" /\ Claimers(c) # {}
    \/ p = "resolved" /\ c \in resolved
    \/ p = "batch" /\ Holders(c) # {}
    \/ p = "input" /\ Queued(input, c) # {}
    \/ p = "replay" /\ Queued(replay, c) # {}
    \/ p = "exec" /\ c \in exec.results
    \/ p = "fwd" /\ c \in fwd.calls
    \/ p = "answered" /\ c \in answered

Single(S) == \A x, y \in S : x = y

\* The call is in at most one place, and there only once.
OnePlace(c) ==
    /\ \A p, q \in Places : InPlace(p, c) /\ InPlace(q, c) => p = q
    /\ Single(Claimers(c)) /\ Single(Holders(c))
    /\ Single(Queued(input, c)) /\ Single(Queued(replay, c))

\* Until the checker has seen it, it is in one message and nowhere else.
ProposedOnce(c) ==
    /\ gate[c] = "new" => \A p \in Places : ~InPlace(p, c)
    /\ gate[c] # "new" => c \notin exec.todo
    /\ \A i \in DOMAIN out : c \in out[i].calls => gate[c] = "new" /\ c \notin exec.todo
    /\ \A i, j \in DOMAIN out : c \in out[i].calls /\ c \in out[j].calls => i = j

\* What was decided about it so far.
Decided(c) ==
    /\ gate[c] = "new" => ran[c] = 0 /\ verdict[c] = "none"
    /\ ran[c] <= 1 /\ (ran[c] = 1 => verdict[c] = "approved" \/ gate[c] = "passed")
    /\ c \in pending => gate[c] = "held" /\ verdict[c] = "none" /\ ran[c] = 0
    /\ \A r \in Claimers(c) : verdict[c] = reviewer[r].at /\ ran[c] = 0
    /\ \A p \in Places \ {"pending", "claimed"} :
           InPlace(p, c) => ran[c] = 1 \/ verdict[c] = "rejected"

CallInv == \A c \in Calls : OnePlace(c) /\ ProposedOnce(c) /\ Decided(c)

\* What the stage may find on its input.
InputKinds == {"audio", "eos", "results"}

KindInv == /\ \A i \in DOMAIN input : input[i].kind \in InputKinds
           /\ \A i \in DOMAIN replay : replay[i].kind \in InputKinds
           /\ \A r \in Reviewers : reviewer[r].at \in {"peeked", "approved", "rejected"} =>
                  reviewer[r].call \in Calls
           /\ IsFiniteSet(pending)
-----------------------------------------------------------------------------
(* Elements and queues of elements.                                        *)

Kinds == {"audio", "text", "eos", "results", "calls", "error", "record"}

LEMMA ElemFields ==
    ASSUME NEW e \in Elems
    PROVE  e.kind \in Kinds /\ e.calls \in SUBSET Calls
BY DEF Elems, Elem, Kinds

LEMMA ElemMade ==
    ASSUME NEW k \in Kinds, NEW S \in SUBSET Calls
    PROVE  Elem(k, S) \in Elems /\ Elem(k, S).kind = k /\ Elem(k, S).calls = S
<1>1. Elem(k, S) \in Elems
    BY SMT DEF Elems, Kinds
<1>2. Elem(k, S).kind = k /\ Elem(k, S).calls = S
    BY DEF Elem
<1> QED BY <1>1, <1>2

\* What the head, the tail and an append do to the elements of a queue.
LEMMA QueueTail ==
    ASSUME NEW S, NEW q \in Seq(S), q # <<>>
    PROVE  /\ Head(q) \in S /\ Head(q) = q[1] /\ 1 \in DOMAIN q
           /\ Tail(q) \in Seq(S) /\ Len(Tail(q)) = Len(q) - 1
           /\ DOMAIN q = 1 .. Len(q) /\ DOMAIN Tail(q) = 1 .. Len(q) - 1
           /\ Len(q) \in Nat
           /\ \A i \in DOMAIN Tail(q) : i + 1 \in DOMAIN q /\ Tail(q)[i] = q[i + 1]
<1>1. /\ Head(q) \in S /\ Tail(q) \in Seq(S) /\ Len(Tail(q)) = Len(q) - 1
      /\ Head(q) = q[1] /\ Len(q) \in Nat /\ Len(q) > 0
    BY HeadTailProperties, LenProperties, EmptySeq
<1>2. DOMAIN q = 1 .. Len(q) /\ DOMAIN Tail(q) = 1 .. Len(q) - 1
    BY <1>1, LenProperties
<1>3. \A i \in 1 .. Len(q) - 1 : Tail(q)[i] = q[i + 1]
    BY <1>1
<1> QED BY <1>1, <1>2, <1>3

LEMMA QueueAppend ==
    ASSUME NEW S, NEW q \in Seq(S), NEW e \in S
    PROVE  /\ Append(q, e) \in Seq(S) /\ Len(Append(q, e)) = Len(q) + 1
           /\ DOMAIN q = 1 .. Len(q) /\ DOMAIN Append(q, e) = 1 .. Len(q) + 1
           /\ Len(q) \in Nat
           /\ \A i \in DOMAIN q : Append(q, e)[i] = q[i]
           /\ Append(q, e)[Len(q) + 1] = e
BY AppendProperties, LenProperties

\* A queue with its i-th element taken out.
LEMMA QueueRemove ==
    ASSUME NEW S, NEW q \in Seq(S), NEW i \in 1 .. Len(q)
    PROVE  LET d == SubSeq(q, 1, i - 1) \o SubSeq(q, i + 1, Len(q))
           IN  /\ d \in Seq(S) /\ DOMAIN d = 1 .. Len(q) - 1
               /\ \A j \in 1 .. Len(q) - 1 : d[j] = q[IF j < i THEN j ELSE j + 1]
<1> DEFINE a == SubSeq(q, 1, i - 1)
           b == SubSeq(q, i + 1, Len(q))
           n == Len(q)
<1>1. n \in Nat /\ i \in Nat /\ 1 <= i /\ i <= n /\ DOMAIN q = 1 .. n
    BY LenProperties
<1>2. /\ a \in Seq(S) /\ Len(a) = i - 1
      /\ \A j \in 1 .. i - 1 : a[j] = q[j]
  <2>1. \A j \in 1 .. i - 1 : q[j] \in S
    BY <1>1, ElementOfSeq
  <2>2. /\ a \in Seq(S) /\ Len(a) = IF 1 <= i - 1 THEN (i - 1) - 1 + 1 ELSE 0
        /\ \A j \in 1 .. (i - 1) - 1 + 1 : a[j] = q[1 + j - 1]
    BY <1>1, <2>1, SubSeqProperties
  <2> HIDE DEF a
  <2> QED BY <1>1, <2>2
<1>3. /\ b \in Seq(S) /\ Len(b) = n - i
      /\ \A j \in 1 .. n - i : b[j] = q[i + j]
  <2>1. \A j \in i + 1 .. n : q[j] \in S
    BY <1>1, ElementOfSeq
  <2>2. /\ b \in Seq(S) /\ Len(b) = IF i + 1 <= n THEN n - (i + 1) + 1 ELSE 0
        /\ \A j \in 1 .. n - (i + 1) + 1 : b[j] = q[(i + 1) + j - 1]
    BY <1>1, <2>1, SubSeqProperties
  <2> HIDE DEF b, n
  <2>3. ASSUME NEW j \in 1 .. n - i PROVE b[j] = q[i + j]
    <3>1. j \in 1 .. n - (i + 1) + 1 /\ (i + 1) + j - 1 = i + j
      BY <1>1
    <3> QED BY <3>1, <2>2
  <2> QED BY <1>1, <2>2, <2>3
<1> DEFINE d == a \o b
<1>4. /\ d \in Seq(S) /\ Len(d) = Len(a) + Len(b)
      /\ \A j \in 1 .. Len(a) + Len(b) : d[j] = IF j <= Len(a) THEN a[j] ELSE b[j - Len(a)]
    BY <1>2, <1>3, ConcatProperties
<1> HIDE DEF a, b, d, n
<1>5. DOMAIN d = 1 .. n - 1
    BY <1>1, <1>2, <1>3, <1>4, LenProperties
<1>6. ASSUME NEW j \in 1 .. n - 1 PROVE d[j] = q[IF j < i THEN j ELSE j + 1]
  <2>1. CASE j < i
    <3>1. j <= Len(a) /\ j \in 1 .. Len(a) + Len(b) /\ j \in 1 .. i - 1
      BY <2>1, <1>1, <1>2, <1>3
    <3> QED BY <2>1, <3>1, <1>2, <1>4
  <2>2. CASE ~(j < i)
    <3>1. /\ ~(j <= Len(a)) /\ j \in 1 .. Len(a) + Len(b) /\ j - Len(a) \in 1 .. n - i
          /\ i + (j - Len(a)) = j + 1
      BY <2>2, <1>1, <1>2, <1>3
    <3> QED BY <2>2, <3>1, <1>3, <1>4
  <2> QED BY <2>1, <2>2
<1> QED BY <1>4, <1>5, <1>6 DEF d, a, b, n

LEMMA LeastNatural ==
    ASSUME NEW T, T \subseteq Nat, T # {}
    PROVE  \E i \in T : \A j \in T : i <= j
<1>1. PICK i \in T : \A j \in T : ~(<<j, i>> \in OpToRel(<, Nat))
    BY NatLessThanWellFounded, WFMin
<1>2. ASSUME NEW j \in T PROVE i <= j
  <2>1. i \in Nat /\ j \in Nat
    OBVIOUS
  <2>2. ~(j < i)
    <3> SUFFICES ASSUME j < i PROVE FALSE
        OBVIOUS
    <3>1. <<j, i>> \in {s \in Nat \X Nat : s[1] < s[2]}
      BY <2>1
    <3> QED BY <3>1, <1>1 DEF OpToRel
  <2> QED BY <2>1, <2>2
<1> QED BY <1>2

LEMMA AudioFinite ==
    ASSUME NEW q \in Seq(Elems)
    PROVE  IsFiniteSet(Audio(q)) /\ Cardinality(Audio(q)) \in Nat
<1>1. Len(q) \in Nat /\ DOMAIN q = 1 .. Len(q)
    BY LenProperties
<1>2. IsFiniteSet(1 .. Len(q))
    BY <1>1, FS_Interval
<1>3. Audio(q) \subseteq 1 .. Len(q)
    BY <1>1 DEF Audio
<1> QED BY <1>2, <1>3, FS_Subset, FS_CardinalityType

\* What the buffer does: it keeps the elements of the queue and the new one in
\* their order, one of the audio elements excepted when there are too many.
LEMMA BufferedIs ==
    ASSUME NEW q \in Seq(Elems), NEW e \in Elems, Cardinality(Audio(q)) <= MaxBuffered
    PROVE  /\ Buffered(q, e) \in Seq(Elems)
           /\ Cardinality(Audio(Buffered(q, e))) <= MaxBuffered
           /\ \E f \in [DOMAIN Buffered(q, e) -> DOMAIN Append(q, e)] :
                 /\ \A j \in DOMAIN Buffered(q, e) : Buffered(q, e)[j] = Append(q, e)[f[j]]
                 /\ \A j, k \in DOMAIN Buffered(q, e) : f[j] = f[k] => j = k
<1> DEFINE all == Append(q, e)
           r == Buffered(q, e)
<1>1. all \in Seq(Elems) /\ Len(all) \in Nat /\ DOMAIN all = 1 .. Len(all)
    BY AppendProperties, LenProperties
<1>2. IsFiniteSet(Audio(all)) /\ Cardinality(Audio(all)) \in Nat
    BY <1>1, AudioFinite
<1>3. Cardinality(Audio(all)) <= MaxBuffered + 1
  <2>1. Audio(all) \subseteq Audio(q) \cup {Len(q) + 1}
    BY QueueAppend DEF Audio
  <2>2. /\ IsFiniteSet(Audio(q) \cup {Len(q) + 1})
        /\ Cardinality(Audio(q) \cup {Len(q) + 1}) <= Cardinality(Audio(q)) + 1
    <3> DEFINE A == Audio(q)
               x == Len(q) + 1
    <3>1. IsFiniteSet(A) /\ Cardinality(A) \in Nat
      BY AudioFinite
    <3> HIDE DEF A, x
    <3>2. /\ IsFiniteSet(A \cup {x})
          /\ Cardinality(A \cup {x}) = IF x \in A THEN Cardinality(A) ELSE Cardinality(A) + 1
      BY <3>1, FS_AddElement
    <3> QED BY <3>1, <3>2 DEF A, x
  <2>3. Cardinality(Audio(all)) <= Cardinality(Audio(q) \cup {Len(q) + 1})
    BY <2>1, <2>2, FS_Subset
  <2>4. Cardinality(Audio(q) \cup {Len(q) + 1}) \in Nat /\ Cardinality(Audio(q)) \in Nat
    BY <2>2, AudioFinite, FS_CardinalityType
  <2> HIDE DEF all
  <2> QED BY <1>2, <2>2, <2>3, <2>4, DuplexAssumption
<1>4. CASE Cardinality(Audio(all)) <= MaxBuffered
  <2>1. r = all
    BY <1>4 DEF Buffered
  <2>2. [j \in DOMAIN r |-> j] \in [DOMAIN r -> DOMAIN all]
    BY <2>1
  <2>3. \E f \in [DOMAIN r -> DOMAIN all] :
            /\ \A j \in DOMAIN r : r[j] = all[f[j]]
            /\ \A j, k \in DOMAIN r : f[j] = f[k] => j = k
    <3> WITNESS [j \in DOMAIN r |-> j] \in [DOMAIN r -> DOMAIN all]
    <3> HIDE DEF r, all
    <3> QED BY <2>1
  <2> HIDE DEF r, all
  <2> QED BY <2>1, <2>3, <1>1, <1>4 DEF r, all
<1>5. CASE ~(Cardinality(Audio(all)) <= MaxBuffered)
  <2> DEFINE i == CHOOSE i \in Audio(all) : \A j \in Audio(all) : i <= j
             n == Len(all)
             f == [j \in 1 .. n - 1 |-> IF j < i THEN j ELSE j + 1]
  <2>1. Audio(all) # {} /\ Audio(all) \subseteq Nat
    <3>1. Cardinality({}) = 0
      BY FS_EmptySet
    <3>2. Audio(all) \subseteq 1 .. Len(all)
      BY <1>1 DEF Audio
    <3>3. MaxBuffered \in Nat
      BY DuplexAssumption
    <3>4. Audio(all) # {}
      BY SMTT(40), <3>1, <3>3, <1>5
    <3> QED BY <3>2, <3>4, <1>1
  <2>2. i \in Audio(all) /\ i \in 1 .. n
    <3>1. \E k \in Audio(all) : \A j \in Audio(all) : k <= j
      BY <2>1, LeastNatural
    <3>2. i \in Audio(all)
      BY <3>1
    <3> QED BY <3>2, <1>1 DEF Audio
  <2>3. r = SubSeq(all, 1, i - 1) \o SubSeq(all, i + 1, n)
    BY <1>5 DEF Buffered
  <2> HIDE DEF i, all, r
  <2>4. /\ r \in Seq(Elems) /\ DOMAIN r = 1 .. n - 1
        /\ \A j \in 1 .. n - 1 : r[j] = all[IF j < i THEN j ELSE j + 1]
    BY <2>2, <2>3, <1>1, QueueRemove
  <2>5. f \in [DOMAIN r -> DOMAIN all]
    BY <2>2, <2>4, <1>1
  <2>6. /\ \A j \in DOMAIN r : r[j] = all[f[j]]
        /\ \A j, k \in DOMAIN r : f[j] = f[k] => j = k
    BY <2>2, <2>4, <1>1
  <2>7. \A j \in DOMAIN r : f[j] # i
    BY <2>2, <2>4, <1>1
  <2> HIDE DEF f
  <2>8. Cardinality(Audio(r)) <= MaxBuffered
    <3> DEFINE T == Audio(all) \ {i}
               g == [j \in Audio(r) |-> f[j]]
    <3>1. Audio(r) \subseteq DOMAIN r
      BY DEF Audio
    <3>2. g \in [Audio(r) -> T]
      BY <3>1, <2>5, <2>6, <2>7 DEF Audio
    <3>3. g \in Injection(Audio(r), T)
      BY <3>1, <3>2, <2>6 DEF Injection, IsInjective
    <3>4. IsFiniteSet(T) /\ Cardinality(T) = Cardinality(Audio(all)) - 1
      BY <1>2, <2>2, FS_RemoveElement
    <3>5. Cardinality(Audio(r)) <= Cardinality(T)
      BY <3>3, <3>4, FS_Injection
    <3>6. Cardinality(Audio(r)) \in Nat
      BY <2>4, AudioFinite
    <3> HIDE DEF T
    <3> QED BY <3>4, <3>5, <3>6, <1>2, <1>3, DuplexAssumption
  <2> QED BY <2>4, <2>5, <2>6, <2>8 DEF r, all
<1> QED BY <1>4, <1>5

-----------------------------------------------------------------------------
(* The types, with the kinds of element on the two sides of the stage.     *)

Inputs(q) == \A i \in DOMAIN q : q[i].kind \in InputKinds

LEMMA InputsTail ==
    ASSUME NEW q \in Seq(Elems), Inputs(q), q # <<>>
    PROVE  Inputs(Tail(q)) /\ Head(q) \in Elems /\ Head(q).kind \in InputKinds
<1>1. Inputs(Tail(q))
    BY QueueTail, Zenon DEF Inputs
<1> QED BY <1>1, QueueTail DEF Inputs

LEMMA InputsAppend ==
    ASSUME NEW q \in Seq(Elems), Inputs(q), NEW e \in Elems, e.kind \in InputKinds
    PROVE  Inputs(Append(q, e))
<1> DEFINE a == Append(q, e)
           n == Len(q)
<1>1. /\ DOMAIN q = 1 .. n /\ DOMAIN a = 1 .. n + 1 /\ n \in Nat
      /\ \A i \in DOMAIN q : a[i] = q[i]
      /\ a[n + 1] = e
    BY QueueAppend
<1> HIDE DEF a, n
<1>2. ASSUME NEW i \in DOMAIN a PROVE a[i].kind \in InputKinds
  <2>1. i \in DOMAIN q \/ i = n + 1
    BY <1>1
  <2> QED BY <1>1, <2>1 DEF Inputs
<1> QED BY <1>2 DEF Inputs, a

LEMMA InputsBuffered ==
    ASSUME NEW q \in Seq(Elems), Inputs(q), NEW e \in Elems, e.kind \in InputKinds,
           Cardinality(Audio(q)) <= MaxBuffered
    PROVE  Inputs(Buffered(q, e))
<1> DEFINE r == Buffered(q, e)
           a == Append(q, e)
<1>1. Inputs(a)
    BY InputsAppend
<1>2. PICK f \in [DOMAIN r -> DOMAIN a] : \A j \in DOMAIN r : r[j] = a[f[j]]
    BY BufferedIs
<1> HIDE DEF r, a
<1>3. ASSUME NEW j \in DOMAIN r PROVE r[j].kind \in InputKinds
    BY <1>1, <1>2 DEF Inputs
<1> QED BY <1>3 DEF Inputs, r

LEMMA EmptyQueue == <<>> \in Seq(Elems) /\ Inputs(<<>>) /\ Cardinality(Audio(<<>>)) <= MaxBuffered
<1>1. <<>> \in Seq(Elems) /\ DOMAIN <<>> = {}
    BY EmptySeq
<1>2. Audio(<<>>) = {}
    BY <1>1 DEF Audio
<1>3. Cardinality(Audio(<<>>)) = 0 /\ MaxBuffered \in Nat
    BY <1>2, FS_EmptySet, DuplexAssumption
<1>4. Inputs(<<>>)
    BY <1>1 DEF Inputs
<1> QED BY <1>1, <1>3, <1>4

TypeInv == TypeOK /\ KindInv

\* What a send on the input channel leaves behind.
LEMMA SendInputType ==
    ASSUME TypeInv, NEW k \in InputKinds, NEW S \in SUBSET Calls,
           NEW who \in {"sender", "exec", "reviewer"}, SendInput(Elem(k, S), who)
    PROVE  /\ input' \in Seq(Elems) /\ Len(input') <= InputCap /\ Inputs(input')
           /\ panic' \in {"no", "sender", "exec", "reviewer", "stage"}
<1> DEFINE e == Elem(k, S)
<1>1. e \in Elems /\ e.kind = k
  <2>1. k \in Kinds
    BY DEF InputKinds, Kinds
  <2> QED BY <2>1, ElemMade
<1> HIDE DEF e
<1>2. /\ input \in Seq(Elems) /\ Len(input) <= InputCap /\ Inputs(input)
      /\ panic \in {"no", "sender", "exec", "reviewer", "stage"}
    BY DEF TypeInv, TypeOK, KindInv, Inputs
<1>3. SendInput(e, who)
    BY DEF e
<1>4. CASE closed
    BY <1>2, <1>3, <1>4 DEF SendInput
<1>5. CASE ~closed
  <2>1. Len(input) < InputCap /\ input' = Append(input, e) /\ UNCHANGED panic
    BY <1>3, <1>5 DEF SendInput
  <2>2. Append(input, e) \in Seq(Elems) /\ Len(Append(input, e)) = Len(input) + 1 /\ Len(input) \in Nat
    BY <1>1, <1>2, QueueAppend
  <2>3. Inputs(Append(input, e))
    BY <1>1, <1>2, InputsAppend
  <2> DEFINE a == Append(input, e)
  <2>4. Len(a) <= InputCap
    <3> DEFINE n == Len(input)
    <3>1. n \in Nat /\ n < InputCap /\ InputCap \in Nat /\ Len(a) = n + 1
      BY <2>1, <2>2, DuplexAssumption
    <3> HIDE DEF a, n
    <3> QED BY <3>1
  <2> QED BY <1>2, <2>1, <2>2, <2>3, <2>4
<1> QED BY <1>4, <1>5

\* The same for the pipeline's output.
LEMMA OutType ==
    ASSUME TypeInv, NEW k \in Kinds, NEW S \in SUBSET Calls,
           Len(out) < OutCap, out' = Append(out, Elem(k, S))
    PROVE  out' \in Seq(Elems) /\ Len(out') <= OutCap
<1> DEFINE e == Elem(k, S)
           a == Append(out, e)
           n == Len(out)
<1>1. e \in Elems
    BY ElemMade
<1> HIDE DEF e
<1>2. out \in Seq(Elems) /\ n < OutCap /\ OutCap \in Nat
    BY DuplexAssumption DEF TypeInv, TypeOK
<1>3. a \in Seq(Elems) /\ Len(a) = n + 1 /\ n \in Nat
    BY <1>1, <1>2, QueueAppend
<1>4. out' = a
    BY DEF e
<1> HIDE DEF a, n
<1> QED BY <1>2, <1>3, <1>4

LEMMA TypeInit == Init => TypeInv
<1> SUFFICES ASSUME Init PROVE TypeInv
    OBVIOUS
<1>1. /\ input \in Seq(Elems) /\ out \in Seq(Elems) /\ replay \in Seq(Elems)
      /\ Inputs(input) /\ Inputs(replay) /\ Cardinality(Audio(replay)) <= MaxBuffered
    BY EmptyQueue DEF Init
<1>2. Len(input) <= InputCap /\ Len(out) <= OutCap
    BY EmptySeq, DuplexAssumption DEF Init
<1>3. IsFiniteSet(pending)
    BY FS_EmptySet DEF Init, StoreInit
<1>4. TypeOK
    BY <1>1, <1>2 DEF Init, TypeOK, StoreInit
<1> QED BY <1>1, <1>3, <1>4 DEF Init, TypeInv, KindInv, Inputs

LEMMA SenderType ==
    ASSUME TypeInv, NEW s \in Senders, SendChunk(s) \/ SendChunkReturns(s)
    PROVE  TypeInv'
<1>1. CASE SendChunk(s)
  <2>1. /\ readers' = readers \cup {s} /\ sender' = [sender EXCEPT ![s] = "sending"]
        /\ exec' = [exec EXCEPT !.at = IF @ = "none" THEN "loop" ELSE @]
        /\ stage' = IF exec.at = "none" THEN "first" ELSE stage
        /\ UNCHANGED <<writer, convClosed, closer, closed, cancelled, input, out, replay, fwd,
                       reviewer, verdict, gate, ran, answered, pending, resolved, panic>>
    BY <1>1 DEF SendChunk, SendChunkHolding, Alive, sessionVars, reviewVars, callVars, storeVars
  <2>2. /\ readers' \subseteq Senders /\ sender' \in [Senders -> {"idle", "sending"}]
        /\ stage' \in {"none", "first", "opening", "failed", "running", "grace", "ended"}
    BY <2>1 DEF TypeInv, TypeOK
  <2>3. exec' \in [at : {"none", "loop", "tools", "results", "forward", "error", "exited"},
                   todo : SUBSET Calls, results : SUBSET Calls, held : BOOLEAN]
    BY <2>1 DEF TypeInv, TypeOK
  <2>4. TypeOK'
    BY <2>1, <2>2, <2>3 DEF TypeInv, TypeOK
  <2>5. KindInv'
    BY <2>1 DEF TypeInv, KindInv
  <2> QED BY <2>4, <2>5 DEF TypeInv
<1>2. CASE SendChunkReturns(s)
  <2>1. /\ readers' = readers \ {s} /\ sender' = [sender EXCEPT ![s] = "idle"]
        /\ UNCHANGED <<writer, convClosed, closer, closed, cancelled, out, exec, stage, replay, fwd,
                       reviewer, verdict, gate, ran, answered, pending, resolved>>
        /\ SendInput(Elem("audio", {}), "sender") \/ (UNCHANGED input /\ Alive)
    BY <1>2 DEF SendChunkReturns, sessionVars, stageVars, reviewVars, callVars, storeVars
  <2>2. /\ input' \in Seq(Elems) /\ Len(input') <= InputCap /\ Inputs(input')
        /\ panic' \in {"no", "sender", "exec", "reviewer", "stage"}
    <3>1. CASE SendInput(Elem("audio", {}), "sender")
      BY <3>1, SendInputType DEF InputKinds
    <3>2. CASE UNCHANGED input /\ Alive
      BY <3>2 DEF Alive, TypeInv, TypeOK, KindInv, Inputs
    <3> QED BY <2>1, <3>1, <3>2
  <2>3. TypeOK'
    BY <2>1, <2>2 DEF TypeInv, TypeOK
  <2>4. KindInv'
    BY <2>1, <2>2 DEF TypeInv, KindInv, Inputs
  <2> QED BY <2>3, <2>4 DEF TypeInv
<1> QED BY <1>1, <1>2

LEMMA NextToolType ==
    ASSUME NEW T \in SUBSET Calls, NEW R \in SUBSET Calls, NEW h \in BOOLEAN
    PROVE  /\ NextTool(T, R, h) \in
                 [at : {"none", "loop", "tools", "results", "forward", "error", "exited"},
                  todo : SUBSET Calls, results : SUBSET Calls, held : BOOLEAN]
           /\ NextTool(T, R, h).todo = T /\ NextTool(T, R, h).results = R
BY DEF NextTool

LEMMA ExecType ==
    ASSUME TypeInv, ExecStep \/ ExecForwards \/ ExecFails
    PROVE  TypeInv'
<1> DEFINE Exec == [at : {"none", "loop", "tools", "results", "forward", "error", "exited"},
                    todo : SUBSET Calls, results : SUBSET Calls, held : BOOLEAN]
<1>0. exec \in Exec
    BY DEF TypeInv, TypeOK
<1>1. CASE ExecReceives
  <2>1. /\ out # <<>> /\ out' = Tail(out)
        /\ exec' = [exec EXCEPT !.at = CASE Head(out).kind = "calls" -> "tools"
                                         [] Head(out).kind = "error" -> "error"
                                         [] OTHER -> "forward",
                                !.todo = Head(out).calls]
    BY <1>1 DEF ExecReceives
  <2>2. UNCHANGED <<writer, readers, convClosed, sender, closer, closed, cancelled, input, stage,
                    replay, fwd, reviewer, verdict, gate, ran, answered, pending, resolved, panic>>
    BY <1>1 DEF ExecReceives, ExecUnchanged, Alive, lockVars, sessionVars, stageVars, reviewVars,
                callVars, storeVars
  <2>3. out' \in Seq(Elems) /\ Len(out') <= OutCap /\ Head(out) \in Elems
    <3> DEFINE n == Len(out)
               t == Tail(out)
    <3>1. out \in Seq(Elems) /\ n <= OutCap /\ OutCap \in Nat
      BY DuplexAssumption DEF TypeInv, TypeOK
    <3>2. t \in Seq(Elems) /\ Len(t) = n - 1 /\ n \in Nat /\ Head(out) \in Elems
      BY <2>1, <3>1, QueueTail
    <3>3. out' = t
      BY <2>1
    <3> HIDE DEF n, t
    <3> QED BY <3>1, <3>2, <3>3
  <2>4. exec' \in Exec
    <3>1. Head(out).calls \in SUBSET Calls
      BY <2>3, ElemFields
    <3> QED BY <1>0, <2>1, <3>1
  <2>5. TypeOK'
    BY <2>2, <2>3, <2>4 DEF TypeInv, TypeOK
  <2>6. KindInv'
    BY <2>2 DEF TypeInv, KindInv
  <2> QED BY <2>5, <2>6 DEF TypeInv
<1>2. CASE ExecPipelineEnds \/ ExecCancelled \/ ExecForwards \/ ExecFails
  <2>1. UNCHANGED <<writer, readers, convClosed, sender, closer, closed, cancelled, input, out, stage,
                    replay, fwd, reviewer, verdict, gate, ran, answered, pending, resolved, panic>>
    BY <1>2 DEF ExecPipelineEnds, ExecCancelled, ExecForwards, ExecFails, ExecUnchanged, Alive,
                lockVars, sessionVars, stageVars, reviewVars, callVars, storeVars
  <2>2. exec' \in Exec
    BY <1>0, <1>2 DEF ExecPipelineEnds, ExecCancelled, ExecForwards, ExecFails
  <2>3. TypeOK'
    BY <2>1, <2>2 DEF TypeInv, TypeOK
  <2>4. KindInv'
    BY <2>1 DEF TypeInv, KindInv
  <2> QED BY <2>3, <2>4 DEF TypeInv
<1>3. ASSUME NEW c \in Calls, ExecHolds(c) PROVE TypeInv'
  <2>1. /\ pending' = pending \cup {c} /\ gate' = [gate EXCEPT ![c] = "held"]
        /\ exec' = NextTool(exec.todo \ {c}, exec.results, TRUE)
    BY <1>3 DEF ExecHolds, Add
  <2>0. UNCHANGED <<writer, readers, convClosed, sender, closer, closed, cancelled, input, out,
                    stage, replay, fwd, reviewer, verdict, ran, answered, resolved, panic>>
    BY <1>3 DEF ExecHolds, Add, ExecUnchanged, Alive, lockVars, sessionVars, stageVars, reviewVars
  <2>2. exec' \in Exec
    BY <1>0, <2>1, NextToolType
  <2>3. TypeOK'
    <3>1. gate' \in [Calls -> {"new", "held", "passed"}] /\ pending' \subseteq Calls
      BY <2>1 DEF TypeInv, TypeOK
    <3> QED BY <2>0, <2>2, <3>1 DEF TypeInv, TypeOK
  <2>4. IsFiniteSet(pending')
    BY <2>1, FS_AddElement DEF TypeInv, KindInv
  <2>5. KindInv'
    BY <2>0, <2>4 DEF TypeInv, KindInv
  <2> QED BY <2>3, <2>5 DEF TypeInv
<1>4. ASSUME NEW c \in Calls, ExecRuns(c) PROVE TypeInv'
  <2>1. /\ gate' = [gate EXCEPT ![c] = "passed"] /\ ran' = [ran EXCEPT ![c] = @ + 1]
        /\ exec' = NextTool(exec.todo \ {c}, exec.results \cup {c}, exec.held)
    BY <1>4 DEF ExecRuns
  <2>0. UNCHANGED <<writer, readers, convClosed, sender, closer, closed, cancelled, input, out,
                    stage, replay, fwd, reviewer, verdict, answered, pending, resolved, panic>>
    BY <1>4 DEF ExecRuns, ExecUnchanged, Alive, lockVars, sessionVars, stageVars, reviewVars,
                storeVars
  <2>2. exec' \in Exec
    <3>1. exec.held \in BOOLEAN
      BY <1>0, Zenon
    <3>2. exec.todo \ {c} \in SUBSET Calls /\ exec.results \cup {c} \in SUBSET Calls
      BY <1>0
    <3> HIDE DEF Exec
    <3> QED BY <2>1, <3>1, <3>2, NextToolType, Zenon DEF Exec
  <2>3. ran' \in [Calls -> Nat] /\ gate' \in [Calls -> {"new", "held", "passed"}]
    BY <2>1 DEF TypeInv, TypeOK
  <2>4. TypeOK'
    BY <2>0, <2>2, <2>3 DEF TypeInv, TypeOK
  <2>5. KindInv'
    BY <2>0 DEF TypeInv, KindInv
  <2> QED BY <2>4, <2>5 DEF TypeInv
<1>5. CASE ExecSendsResults
  <2>1. /\ SendInput(Elem("results", exec.results), "exec")
        /\ exec' = NextTool({}, {}, exec.held)
        /\ UNCHANGED <<writer, readers, convClosed, sender, closer, closed, cancelled, out,
                       stage, replay, fwd, reviewer, verdict, gate, ran, answered, pending, resolved>>
    BY <1>5 DEF ExecSendsResults, ExecUnchanged, lockVars, sessionVars, stageVars, reviewVars,
                callVars, storeVars
  <2>2. exec' \in Exec /\ exec.results \in SUBSET Calls
    BY <1>0, <2>1, NextToolType
  <2>3. /\ input' \in Seq(Elems) /\ Len(input') <= InputCap /\ Inputs(input')
        /\ panic' \in {"no", "sender", "exec", "reviewer", "stage"}
    BY <2>1, <2>2, SendInputType DEF InputKinds
  <2>4. TypeOK'
    BY <2>1, <2>2, <2>3 DEF TypeInv, TypeOK
  <2>5. KindInv'
    BY <2>1, <2>3 DEF TypeInv, KindInv, Inputs
  <2> QED BY <2>4, <2>5 DEF TypeInv
<1> QED BY <1>1, <1>2, <1>3, <1>4, <1>5 DEF ExecStep

\* What TypeInv says of the variables that the stage and its input loop change.
StageType ==
    /\ input \in Seq(Elems) /\ Len(input) <= InputCap /\ Inputs(input)
    /\ out \in Seq(Elems) /\ Len(out) <= OutCap
    /\ stage \in {"none", "first", "opening", "failed", "running", "grace", "ended"}
    /\ replay \in Seq(Elems) /\ Inputs(replay) /\ Cardinality(Audio(replay)) <= MaxBuffered
    /\ fwd \in [at : {"none", "reading", "recording", "sending", "finished", "cancelled"},
                calls : SUBSET Calls]
    /\ answered \subseteq Calls
    /\ panic \in {"no", "sender", "exec", "reviewer", "stage"}

LEMMA StageTyped == TypeInv => StageType
BY DEF TypeInv, TypeOK, KindInv, Inputs, StageType

LEMMA StageFrame ==
    ASSUME TypeInv, StageUnchanged, StageType'
    PROVE  TypeInv'
<1>1. UNCHANGED <<writer, readers, convClosed, sender, closer, closed, cancelled, exec, reviewer,
                  verdict, gate, ran, pending, resolved>>
    BY DEF StageUnchanged, lockVars, sessionVars, reviewVars, storeVars
<1>2. TypeOK'
    BY <1>1 DEF TypeInv, TypeOK, StageType
<1>3. KindInv'
    BY <1>1 DEF TypeInv, KindInv, StageType, Inputs
<1> QED BY <1>2, <1>3 DEF TypeInv

\* The head of a typed queue, and what is left of it.
LEMMA TakeType ==
    ASSUME NEW q \in Seq(Elems), Inputs(q), q # <<>>, NEW n \in Nat, Len(q) <= n
    PROVE  /\ Head(q) \in Elems /\ Head(q).kind \in InputKinds /\ Head(q).calls \in SUBSET Calls
           /\ Tail(q) \in Seq(Elems) /\ Inputs(Tail(q)) /\ Len(Tail(q)) <= n
<1> DEFINE t == Tail(q)
           l == Len(q)
           m == Len(t)
<1>1. t \in Seq(Elems) /\ m = l - 1 /\ l \in Nat /\ l <= n
    BY QueueTail
<1>2. Head(q) \in Elems /\ Head(q).kind \in InputKinds /\ Inputs(t)
    BY InputsTail
<1>3. Head(q).calls \in SUBSET Calls
    BY <1>2, ElemFields
<1>4. m <= n
  <2> HIDE DEF l, m
  <2> QED BY <1>1
<1> QED BY <1>1, <1>2, <1>3, <1>4

LEMMA StageStepType ==
    ASSUME TypeInv, StageReceivesFirst \/ StageBuffers \/ StageOpens \/ StageFailedEnds \/ StageEnds
    PROVE  TypeInv'
<1> USE StageTyped
<1>0. InputCap \in Nat
    BY DuplexAssumption
<1>1. ASSUME input # <<>>, NEW q \in Seq(Elems), Inputs(q), Cardinality(Audio(q)) <= MaxBuffered,
             replay' = Buffered(q, Head(input)), input' = Tail(input)
      PROVE  /\ input' \in Seq(Elems) /\ Len(input') <= InputCap /\ Inputs(input')
             /\ replay' \in Seq(Elems) /\ Inputs(replay')
             /\ Cardinality(Audio(replay')) <= MaxBuffered
  <2>1. /\ Head(input) \in Elems /\ Head(input).kind \in InputKinds
        /\ Tail(input) \in Seq(Elems) /\ Inputs(Tail(input)) /\ Len(Tail(input)) <= InputCap
    BY <1>0, <1>1, TakeType DEF StageType
  <2> DEFINE e == Head(input)
             t == Tail(input)
  <2> HIDE DEF e, t
  <2>2. Buffered(q, e) \in Seq(Elems) /\ Cardinality(Audio(Buffered(q, e))) <= MaxBuffered
    BY <1>1, <2>1, BufferedIs DEF e
  <2>3. Inputs(Buffered(q, e))
    BY <1>1, <2>1, InputsBuffered DEF e
  <2>4. replay' = Buffered(q, e) /\ input' = t
    BY <1>1 DEF e, t
  <2> QED BY <2>1, <2>2, <2>3, <2>4 DEF e, t
<1>2. CASE StageReceivesFirst
  <2>1. StageUnchanged /\ UNCHANGED <<out, fwd, answered, panic>>
    BY <1>2 DEF StageReceivesFirst, Alive
  <2>2. StageType'
    <3>1. CASE stage' = "opening" /\ input # <<>> /\ replay' = Buffered(<<>>, Head(input))
               /\ input' = Tail(input)
      <4>1. /\ input' \in Seq(Elems) /\ Len(input') <= InputCap /\ Inputs(input')
            /\ replay' \in Seq(Elems) /\ Inputs(replay')
            /\ Cardinality(Audio(replay')) <= MaxBuffered
        BY <3>1, <1>1, EmptyQueue
      <4> QED BY <2>1, <3>1, <4>1 DEF StageType, Inputs, Audio
    <3>2. CASE stage' = "ended" /\ UNCHANGED <<replay, input>>
      BY <2>1, <3>2 DEF StageType, Inputs
    <3> QED BY <1>2, <3>1, <3>2 DEF StageReceivesFirst
  <2> QED BY <2>1, <2>2, StageFrame
<1>3. CASE StageBuffers
  <2>1. StageUnchanged /\ UNCHANGED <<out, stage, fwd, answered, panic>>
    BY <1>3 DEF StageBuffers, Alive
  <2>2. /\ input' \in Seq(Elems) /\ Len(input') <= InputCap /\ Inputs(input')
        /\ replay' \in Seq(Elems) /\ Inputs(replay')
        /\ Cardinality(Audio(replay')) <= MaxBuffered
    BY <1>1, <1>3 DEF StageBuffers, StageType
  <2>3. StageType'
    BY <2>1, <2>2 DEF StageType, Inputs, Audio
  <2> QED BY <2>1, <2>3, StageFrame
<1>4. CASE StageOpens \/ StageFailedEnds \/ StageEnds
  <2>1. StageUnchanged /\ UNCHANGED <<input, out, replay, answered, panic>>
    BY <1>4 DEF StageOpens, StageFailedEnds, StageEnds, Alive
  <2>2. /\ stage' \in {"none", "first", "opening", "failed", "running", "grace", "ended"}
        /\ fwd' \in [at : {"none", "reading", "recording", "sending", "finished", "cancelled"},
                     calls : SUBSET Calls]
    BY <1>4 DEF StageOpens, StageFailedEnds, StageEnds, StageType
  <2>3. StageType'
    BY <2>1, <2>2 DEF StageType, Inputs
  <2> QED BY <2>1, <2>3, StageFrame
<1> QED BY <1>2, <1>3, <1>4

\* An element goes out.
LEMMA RespType ==
    ASSUME TypeInv, StageUnchanged, UNCHANGED <<input, replay, fwd, answered, panic>>,
           stage' \in {"none", "first", "opening", "failed", "running", "grace", "ended"},
           \/ UNCHANGED out
           \/ \E k \in Kinds, S \in SUBSET Calls : Len(out) < OutCap /\ out' = Append(out, Elem(k, S))
    PROVE  TypeInv'
<1>1. out' \in Seq(Elems) /\ Len(out') <= OutCap
  <2>1. CASE UNCHANGED out
    BY <2>1, StageTyped DEF StageType
  <2>2. CASE \E k \in Kinds, S \in SUBSET Calls : Len(out) < OutCap /\ out' = Append(out, Elem(k, S))
    BY <2>2, OutType
  <2> QED BY <2>1, <2>2
<1>2. StageType'
    BY <1>1, StageTyped DEF StageType, Inputs
<1> QED BY <1>2, StageFrame

LEMMA ProviderType ==
    ASSUME TypeInv, \/ StageStops \/ ProviderSpeaks \/ ProviderFails \/ ProviderCloses
                    \/ \E S \in Messages : ProviderCalls(S)
    PROVE  TypeInv'
<1> DEFINE Sends(k, S) == Len(out) < OutCap /\ out' = Append(out, Elem(k, S))
<1>0. stage \in {"none", "first", "opening", "failed", "running", "grace", "ended"}
    BY StageTyped DEF StageType
<1>1. CASE RespEnds
  <2>1. /\ StageUnchanged /\ UNCHANGED <<input, replay, fwd, answered, panic>> /\ stage' = "grace"
        /\ UNCHANGED out \/ Sends("text", {})
    BY <1>1 DEF RespEnds, Alive
  <2> QED BY <2>1, RespType DEF Kinds
<1>2. CASE ProviderSpeaks \/ ProviderFails
  <2>1. /\ StageUnchanged /\ UNCHANGED <<input, replay, fwd, answered, panic>>
        /\ stage' = "grace" \/ stage' = stage
        /\ Sends("text", {}) \/ Sends("error", {})
    BY <1>2 DEF ProviderSpeaks, ProviderFails, RespForwards, Alive
  <2> QED BY <1>0, <2>1, RespType DEF Kinds
<1>3. ASSUME NEW S \in Messages, ProviderCalls(S) PROVE TypeInv'
  <2>1. /\ StageUnchanged /\ UNCHANGED <<input, replay, fwd, answered, panic>> /\ stage' = stage
        /\ Sends("calls", S)
    BY <1>3 DEF ProviderCalls, RespForwards, Alive
  <2>2. S \in SUBSET Calls /\ "calls" \in Kinds
    BY DuplexAssumption DEF Kinds
  <2> QED BY <1>0, <2>1, <2>2, RespType
<1> QED BY <1>1, <1>2, <1>3 DEF StageStops, ProviderCloses

LEMMA FwdType ==
    ASSUME TypeInv, FwdStep
    PROVE  TypeInv'
<1> DEFINE Fwd == [at : {"none", "reading", "recording", "sending", "finished", "cancelled"},
                   calls : SUBSET Calls]
<1>0. StageType /\ fwd \in Fwd /\ InputCap \in Nat
    BY StageTyped, DuplexAssumption DEF StageType
<1>1. ASSUME NEW e, e.kind \in InputKinds, e.calls \in SUBSET Calls, FwdTakes(e)
      PROVE  fwd' \in Fwd
  <2>1. CASE e.kind = "eos"
    BY <1>0, <1>1, <2>1 DEF FwdTakes
  <2>2. CASE e.kind = "audio"
    BY <1>0, <1>1, <2>2 DEF FwdTakes
  <2>3. CASE e.kind = "results"
    BY <1>0, <1>1, <2>3 DEF FwdTakes
  <2> QED BY <1>1, <2>1, <2>2, <2>3 DEF InputKinds
<1>2. CASE FwdReceives
  <2>1. StageUnchanged /\ UNCHANGED <<out, stage, answered, panic>>
    BY <1>2 DEF FwdReceives, Alive
  <2>2. CASE replay # <<>> /\ FwdTakes(Head(replay)) /\ replay' = Tail(replay) /\ UNCHANGED input
    <3>1. Len(replay) \in Nat /\ Len(replay) <= Len(replay)
      BY <1>0, LenProperties DEF StageType
    <3>2. /\ Head(replay).kind \in InputKinds /\ Head(replay).calls \in SUBSET Calls
          /\ Tail(replay) \in Seq(Elems) /\ Inputs(Tail(replay))
      BY <1>0, <2>2, <3>1, TakeType DEF StageType
    <3>3. fwd' \in Fwd
      BY <1>1, <2>2, <3>2
    <3>4. Cardinality(Audio(Tail(replay))) <= MaxBuffered
      <4> DEFINE A == Audio(replay)
                 B == Audio(Tail(replay))
                 g == [i \in B |-> i + 1]
      <4>1. IsFiniteSet(A) /\ Cardinality(A) \in Nat /\ IsFiniteSet(B) /\ Cardinality(B) \in Nat
        BY <1>0, <3>2, AudioFinite DEF StageType
      <4>2. \A i \in B : i \in Nat /\ i + 1 \in A
        <5>1. /\ DOMAIN Tail(replay) = 1 .. Len(replay) - 1
              /\ \A i \in DOMAIN Tail(replay) :
                     i + 1 \in DOMAIN replay /\ Tail(replay)[i] = replay[i + 1]
          BY <1>0, <2>2, QueueTail DEF StageType
        <5>2. ASSUME NEW i \in B PROVE i \in Nat /\ i + 1 \in A
          <6>1. i \in DOMAIN Tail(replay) /\ Tail(replay)[i].kind = "audio"
            BY DEF Audio
          <6>2. i + 1 \in DOMAIN replay /\ replay[i + 1].kind = "audio"
            BY <5>1, <6>1
          <6>3. i \in Nat
            BY <5>1, <6>1, <3>1
          <6> QED BY <6>2, <6>3 DEF Audio
        <5> QED BY <5>2
      <4> HIDE DEF A, B
      <4>3. g \in Injection(B, A)
        BY <4>2 DEF Injection, IsInjective
      <4>4. Cardinality(B) <= Cardinality(A)
        BY <4>1, <4>3, FS_Injection
      <4>5. Cardinality(A) <= MaxBuffered /\ MaxBuffered \in Nat
        BY <1>0, DuplexAssumption DEF StageType, A
      <4>6. Cardinality(B) <= MaxBuffered
        BY <4>1, <4>4, <4>5
      <4> QED BY <4>6 DEF B
    <3> DEFINE t == Tail(replay)
    <3>5. replay' = t /\ t \in Seq(Elems) /\ Inputs(t) /\ Cardinality(Audio(t)) <= MaxBuffered
      BY <2>2, <3>2, <3>4
    <3> HIDE DEF t
    <3>6. replay' \in Seq(Elems) /\ Inputs(replay') /\ Cardinality(Audio(replay')) <= MaxBuffered
      BY <3>5
    <3>7. UNCHANGED input
      BY <2>2
    <3>8. StageType'
      BY <1>0, <2>1, <3>3, <3>6, <3>7 DEF StageType, Inputs, Audio
    <3> QED BY <2>1, <3>8, StageFrame
  <2>3. CASE input # <<>> /\ FwdTakes(Head(input)) /\ input' = Tail(input) /\ UNCHANGED replay
    <3>1. /\ Head(input).kind \in InputKinds /\ Head(input).calls \in SUBSET Calls
          /\ Tail(input) \in Seq(Elems) /\ Inputs(Tail(input)) /\ Len(Tail(input)) <= InputCap
      BY <1>0, <2>3, TakeType DEF StageType
    <3>2. fwd' \in Fwd
      BY <1>1, <2>3, <3>1
    <3> DEFINE t == Tail(input)
    <3>3. input' = t /\ t \in Seq(Elems) /\ Inputs(t) /\ Len(t) <= InputCap
      BY <2>3, <3>1
    <3> HIDE DEF t
    <3>4. UNCHANGED replay
      BY <2>3
    <3>5. StageType'
      BY <1>0, <2>1, <3>2, <3>3, <3>4 DEF StageType, Inputs
    <3> QED BY <2>1, <3>5, StageFrame
  <2>4. CASE fwd' = [fwd EXCEPT !.at = "finished"] /\ UNCHANGED <<replay, input>>
    <3>1. fwd' \in Fwd
      BY <1>0, <2>4
    <3>2. UNCHANGED <<replay, input>>
      BY <2>4
    <3>3. StageType'
      BY <1>0, <2>1, <3>1, <3>2 DEF StageType, Inputs
    <3> QED BY <2>1, <3>3, StageFrame
  <2> QED BY <1>2, <2>2, <2>3, <2>4 DEF FwdReceives
<1>3. CASE FwdCancelled
  <2>1. /\ StageUnchanged /\ UNCHANGED <<input, out, stage, replay, answered, panic>>
        /\ fwd' = [fwd EXCEPT !.at = "cancelled"]
    BY <1>3 DEF FwdCancelled, Alive
  <2>2. fwd' \in Fwd
    BY <1>0, <2>1
  <2>3. StageType'
    BY <1>0, <2>1, <2>2 DEF StageType, Inputs
  <2> QED BY <2>1, <2>3, StageFrame
<1>4. CASE FwdRecords
  <2>1. /\ StageUnchanged /\ UNCHANGED <<input, stage, replay, answered>>
        /\ fwd' = [fwd EXCEPT !.at = "sending"]
    BY <1>4 DEF FwdRecords
  <2>2. fwd' \in Fwd
    BY <1>0, <2>1
  <2>3. /\ out' \in Seq(Elems) /\ Len(out') <= OutCap
        /\ panic' \in {"no", "sender", "exec", "reviewer", "stage"}
    <3>1. CASE panic' = "stage" /\ UNCHANGED out
      BY <1>0, <3>1 DEF StageType
    <3>2. CASE Len(out) < OutCap /\ out' = Append(out, Elem("record", {})) /\ UNCHANGED panic
      BY <1>0, <3>2, OutType DEF StageType, Kinds
    <3> QED BY <1>4, <3>1, <3>2 DEF FwdRecords
  <2>4. UNCHANGED <<input, stage, replay, answered>>
    BY <2>1
  <2>5. StageType'
    BY <1>0, <2>2, <2>3, <2>4 DEF StageType, Inputs
  <2> QED BY <2>1, <2>5, StageFrame
<1>5. CASE FwdSends
  <2>1. /\ StageUnchanged /\ UNCHANGED <<input, out, stage, replay, panic>>
        /\ fwd' = [at |-> "reading", calls |-> {}]
        /\ answered' = answered \cup fwd.calls \/ UNCHANGED answered
    BY <1>5 DEF FwdSends, Alive
  <2>2. fwd' \in Fwd /\ answered' \subseteq Calls
    BY <1>0, <2>1 DEF StageType
  <2>3. UNCHANGED <<input, out, stage, replay, panic>>
    BY <2>1
  <2>4. StageType'
    BY <1>0, <2>2, <2>3 DEF StageType, Inputs
  <2> QED BY <2>1, <2>4, StageFrame
<1> QED BY <1>2, <1>3, <1>4, <1>5 DEF FwdStep

ReviewerRecords == [at : {"idle", "peeked", "approved", "rejected", "submitting"},
                    call : Calls \cup {None}, batch : SUBSET Calls]

\* What TypeInv says of the variables that the reviewers and the stores change.
ReviewType ==
    /\ input \in Seq(Elems) /\ Len(input) <= InputCap /\ Inputs(input)
    /\ reviewer \in [Reviewers -> ReviewerRecords]
    /\ \A r \in Reviewers : reviewer[r].at \in {"peeked", "approved", "rejected"} =>
           reviewer[r].call \in Calls
    /\ verdict \in [Calls -> {"none", "approved", "rejected"}]
    /\ ran \in [Calls -> Nat]
    /\ pending \subseteq Calls /\ IsFiniteSet(pending) /\ resolved \subseteq Calls
    /\ panic \in {"no", "sender", "exec", "reviewer", "stage"}

LEMMA ReviewTyped == TypeInv => ReviewType
BY DEF TypeInv, TypeOK, KindInv, Inputs, ReviewType, ReviewerRecords

LEMMA ReviewFrame ==
    ASSUME TypeInv, ReviewUnchanged, ReviewType'
    PROVE  TypeInv'
<1>1. UNCHANGED <<writer, readers, convClosed, sender, closer, closed, cancelled, out, exec, stage,
                  replay, fwd, gate, answered>>
    BY DEF ReviewUnchanged, lockVars, sessionVars, stageVars
<1>2. TypeOK'
    BY <1>1 DEF TypeInv, TypeOK, ReviewType, ReviewerRecords
<1>3. KindInv'
    BY <1>1 DEF TypeInv, KindInv, ReviewType, Inputs
<1> QED BY <1>2, <1>3 DEF TypeInv

\* A reviewer comes to another control, with another call or batch in hand.
LEMMA ReviewerMoves ==
    ASSUME ReviewType, NEW r \in Reviewers, NEW v \in ReviewerRecords,
           v.at \in {"peeked", "approved", "rejected"} => v.call \in Calls,
           reviewer' = [reviewer EXCEPT ![r] = v]
    PROVE  /\ reviewer' \in [Reviewers -> ReviewerRecords]
           /\ \A s \in Reviewers : reviewer'[s].at \in {"peeked", "approved", "rejected"} =>
                  reviewer'[s].call \in Calls
<1> USE DEF ReviewType
<1>1. reviewer' \in [Reviewers -> ReviewerRecords]
    OBVIOUS
<1>2. \A s \in Reviewers : reviewer'[s] = IF s = r THEN v ELSE reviewer[s]
    OBVIOUS
<1> QED BY <1>1, <1>2

LEMMA ReviewerType ==
    ASSUME TypeInv, NEW r \in Reviewers, ReviewerStep(r)
    PROVE  TypeInv'
<1> DEFINE v == reviewer[r]
<1>0. ReviewType /\ v \in ReviewerRecords
    BY ReviewTyped DEF ReviewType
<1>1. ASSUME NEW c \in Calls, ResolvePeeks(r, c) PROVE TypeInv'
  <2> DEFINE w == [v EXCEPT !.at = "peeked", !.call = c]
  <2>1. /\ ReviewUnchanged /\ UNCHANGED <<input, verdict, ran, pending, resolved, panic>>
        /\ reviewer' = [reviewer EXCEPT ![r] = w]
    BY <1>1 DEF ResolvePeeks, storeVars, Alive
  <2>2. w \in ReviewerRecords /\ w.call \in Calls
    BY <1>0 DEF ReviewerRecords
  <2> HIDE DEF w
  <2>3. ReviewType'
    BY <1>0, <2>1, <2>2, ReviewerMoves DEF ReviewType, Inputs
  <2> QED BY <2>1, <2>3, ReviewFrame
<1>2. ASSUME NEW c \in Calls, RejectTool(r, c) PROVE TypeInv'
  <2> DEFINE w == [v EXCEPT !.at = "rejected", !.call = c]
  <2>1. /\ ReviewUnchanged /\ UNCHANGED <<input, ran, resolved, panic>>
        /\ pending' = pending \ {c} /\ verdict' = [verdict EXCEPT ![c] = "rejected"]
        /\ reviewer' = [reviewer EXCEPT ![r] = w]
    BY <1>2 DEF RejectTool, Claim, Alive
  <2>2. w \in ReviewerRecords /\ w.call \in Calls
    BY <1>0 DEF ReviewerRecords
  <2> HIDE DEF w
  <2>3. /\ pending' \subseteq Calls /\ IsFiniteSet(pending')
        /\ verdict' \in [Calls -> {"none", "approved", "rejected"}]
    BY <1>0, <2>1, FS_Subset DEF ReviewType
  <2>4. ReviewType'
    BY <1>0, <2>1, <2>2, <2>3, ReviewerMoves DEF ReviewType, Inputs
  <2> QED BY <2>1, <2>4, ReviewFrame
<1>3. CASE ResolveClaims(r)
  <2> DEFINE w == [v EXCEPT !.at = "approved"]
             u == [v EXCEPT !.at = "idle", !.call = None]
  <2>1. ReviewUnchanged /\ UNCHANGED <<input, ran, resolved, panic>> /\ v.at = "peeked"
    BY <1>3 DEF ResolveClaims, Alive
  <2>2. v.call \in Calls
    BY <1>0, <2>1 DEF ReviewType
  <2>3. CASE /\ pending' = pending \ {v.call} /\ verdict' = [verdict EXCEPT ![v.call] = "approved"]
             /\ reviewer' = [reviewer EXCEPT ![r] = w]
    <3>1. w \in ReviewerRecords /\ w.call \in Calls
      BY <1>0, <2>2 DEF ReviewerRecords
    <3>2. /\ pending' \subseteq Calls /\ IsFiniteSet(pending')
          /\ verdict' \in [Calls -> {"none", "approved", "rejected"}]
      BY <1>0, <2>2, <2>3, FS_Subset DEF ReviewType
    <3>3. reviewer' = [reviewer EXCEPT ![r] = w]
      BY <2>3
    <3> HIDE DEF w, v
    <3>4. ReviewType'
      BY <1>0, <2>1, <3>1, <3>2, <3>3, ReviewerMoves DEF ReviewType, Inputs
    <3> QED BY <2>1, <3>4, ReviewFrame
  <2>4. CASE UNCHANGED <<pending, verdict>> /\ reviewer' = [reviewer EXCEPT ![r] = u]
    <3>1. u \in ReviewerRecords /\ u.at = "idle"
      BY <1>0 DEF ReviewerRecords
    <3> HIDE DEF u, v
    <3>4. ReviewType'
      BY <1>0, <2>1, <2>4, <3>1, ReviewerMoves DEF ReviewType, Inputs
    <3> QED BY <2>1, <3>4, ReviewFrame
  <2> QED BY <1>3, <2>3, <2>4 DEF ResolveClaims, Claim
<1>4. CASE Resolves(r)
  <2> DEFINE u == [v EXCEPT !.at = "idle", !.call = None]
  <2>1. /\ ReviewUnchanged /\ UNCHANGED <<input, verdict, pending, panic>>
        /\ v.at \in {"approved", "rejected"} /\ resolved' = resolved \cup {v.call}
        /\ ran' = [ran EXCEPT ![v.call] = IF v.at = "approved" THEN @ + 1 ELSE @]
        /\ reviewer' = [reviewer EXCEPT ![r] = u]
    BY <1>4 DEF Resolves, ResolvedAdd, Alive
  <2>2. v.call \in Calls
    BY <1>0, <2>1 DEF ReviewType
  <2>3. ran' \in [Calls -> Nat] /\ resolved' \subseteq Calls
    BY <1>0, <2>1, <2>2 DEF ReviewType
  <2>4. u \in ReviewerRecords /\ u.at = "idle"
    BY <1>0 DEF ReviewerRecords
  <2>5. /\ UNCHANGED <<input, verdict, pending, panic>>
        /\ reviewer' = [reviewer EXCEPT ![r] = u]
    BY <2>1
  <2> HIDE DEF u, v
  <2>6. ReviewType'
    BY <1>0, <2>3, <2>4, <2>5, ReviewerMoves DEF ReviewType, Inputs
  <2> QED BY <2>1, <2>6, ReviewFrame
<1>5. CASE ContinueDuplex(r)
  <2> DEFINE w == [v EXCEPT !.at = "submitting", !.batch = resolved]
  <2>1. /\ ReviewUnchanged /\ UNCHANGED <<input, verdict, ran, pending, panic>>
        /\ resolved' = {}
        /\ UNCHANGED reviewer \/ reviewer' = [reviewer EXCEPT ![r] = w]
    BY <1>5 DEF ContinueDuplex, PopAll, Alive
  <2>2. w \in ReviewerRecords /\ w.at = "submitting"
    BY <1>0 DEF ReviewerRecords, ReviewType
  <2> HIDE DEF w, v
  <2>3. CASE UNCHANGED reviewer
    <3>1. ReviewType'
      BY <1>0, <2>1, <2>3 DEF ReviewType, Inputs
    <3> QED BY <2>1, <3>1, ReviewFrame
  <2>4. CASE reviewer' = [reviewer EXCEPT ![r] = w]
    <3>1. ReviewType'
      BY <1>0, <2>1, <2>2, <2>4, ReviewerMoves DEF ReviewType, Inputs
    <3> QED BY <2>1, <3>1, ReviewFrame
  <2> QED BY <2>1, <2>3, <2>4
<1>6. CASE SubmitToolResults(r)
  <2> DEFINE w == [v EXCEPT !.at = "idle", !.batch = {}]
  <2>1. /\ ReviewUnchanged /\ UNCHANGED <<verdict, ran, pending, resolved>>
        /\ reviewer' = [reviewer EXCEPT ![r] = w]
    BY <1>6 DEF SubmitToolResults, storeVars
  <2>2. w \in ReviewerRecords /\ w.at = "idle" /\ v.batch \in SUBSET Calls
    BY <1>0 DEF ReviewerRecords
  <2>3. /\ input' \in Seq(Elems) /\ Len(input') <= InputCap /\ Inputs(input')
        /\ panic' \in {"no", "sender", "exec", "reviewer", "stage"}
    <3>1. CASE SendInput(Elem("results", v.batch), "reviewer")
      BY <2>2, <3>1, SendInputType DEF InputKinds
    <3>2. CASE UNCHANGED input /\ Alive
      BY <1>0, <3>2 DEF Alive, ReviewType, Inputs
    <3> QED BY <1>6, <3>1, <3>2 DEF SubmitToolResults
  <2> HIDE DEF w, v
  <2>4. ReviewType'
    BY <1>0, <2>1, <2>2, <2>3, ReviewerMoves DEF ReviewType, Inputs
  <2> QED BY <2>1, <2>4, ReviewFrame
<1> QED BY <1>1, <1>2, <1>3, <1>4, <1>5, <1>6 DEF ReviewerStep

LEMMA ExpiresType ==
    ASSUME TypeInv, Expires
    PROVE  TypeInv'
<1>1. PICK S \in SUBSET pending : pending' = pending \ S
    BY DEF Expires, RemoveExpired
<1>2. ReviewUnchanged /\ UNCHANGED <<input, reviewer, verdict, ran, resolved, panic>>
    BY DEF Expires, Alive, reviewVars
<1>3. pending' \subseteq Calls /\ IsFiniteSet(pending')
    BY <1>1, ReviewTyped, FS_Subset DEF ReviewType
<1>4. ReviewType'
    BY <1>2, <1>3, ReviewTyped DEF ReviewType, Inputs
<1> QED BY <1>2, <1>4, ReviewFrame

LEMMA CloserType ==
    ASSUME TypeInv, NEW k \in Closers, Locks(k, "close") \/ Locks(k, "clear") \/ CloserStep(k)
    PROVE  TypeInv'
<1>1. UNCHANGED <<readers, sender, out, exec, stage, replay, fwd, reviewer, verdict, gate, ran,
                  answered, pending, resolved, panic>>
    BY DEF Locks, CloserStep, CloseLocked, ClearLocked, Drain, ClosesInput, Cancels, CloseUnchanged,
           Alive, lockVars, stageVars, reviewVars, callVars, storeVars
<1>2. /\ input' \in Seq(Elems) /\ Len(input') <= InputCap /\ Inputs(input')
  <2>1. CASE UNCHANGED input
    BY <2>1, StageTyped DEF StageType
  <2>2. CASE Len(input) < InputCap /\ input' = Append(input, Elem("eos", {}))
    <3> DEFINE e == Elem("eos", {})
               a == Append(input, e)
               n == Len(input)
    <3>1. e \in Elems /\ e.kind \in InputKinds
      BY ElemMade DEF Kinds, InputKinds
    <3> HIDE DEF e
    <3>2. a \in Seq(Elems) /\ Len(a) = n + 1 /\ n \in Nat /\ Inputs(a)
      BY <3>1, QueueAppend, InputsAppend, StageTyped DEF StageType
    <3>3. input' = a /\ n < InputCap /\ InputCap \in Nat
      BY <2>2, DuplexAssumption DEF e
    <3> HIDE DEF a, n
    <3> QED BY <3>2, <3>3
  <2> QED BY <2>1, <2>2
       DEF Locks, CloserStep, CloseLocked, ClearLocked, Drain, ClosesInput, Cancels, sessionVars
<1>3. /\ writer' \in Closers \cup {None} /\ convClosed' \in BOOLEAN
      /\ closed' \in BOOLEAN /\ cancelled' \in BOOLEAN
  <2>1. /\ writer' \in {writer, None, k}
        /\ convClosed' = TRUE \/ convClosed' = convClosed
        /\ closed' = TRUE \/ closed' = closed
        /\ cancelled' = TRUE \/ cancelled' = cancelled
    BY DEF Locks, CloserStep, CloseLocked, ClearLocked, Drain, ClosesInput, Cancels,
           lockVars, sessionVars
  <2>2. /\ writer \in Closers \cup {None} /\ convClosed \in BOOLEAN
        /\ closed \in BOOLEAN /\ cancelled \in BOOLEAN
    BY DEF TypeInv, TypeOK
  <2>3. writer' \in Closers \cup {None}
    BY <2>1, <2>2
  <2>4. convClosed' \in BOOLEAN /\ closed' \in BOOLEAN /\ cancelled' \in BOOLEAN
    BY <2>1, <2>2, Zenon
  <2> QED BY <2>3, <2>4
<1>4. closer' \in [Closers -> {"idle", "close", "clear", "eos", "closing", "cancel", "returned"}]
  <2>1. \E x \in {"idle", "close", "clear", "eos", "closing", "cancel", "returned"} :
            closer' = [closer EXCEPT ![k] = x]
    BY DEF Locks, CloserStep, CloseLocked, ClearLocked, Drain, ClosesInput, Cancels
  <2> QED BY <2>1 DEF TypeInv, TypeOK
<1>5. TypeOK'
  BY <1>1, <1>2, <1>3, <1>4 DEF TypeInv, TypeOK
<1>6. KindInv'
  BY <1>1, <1>2 DEF TypeInv, KindInv, Inputs
<1> QED BY <1>5, <1>6 DEF TypeInv

LEMMA TypeNext == TypeInv /\ [Next]_vars => TypeInv'
<1> SUFFICES ASSUME TypeInv, [Next]_vars PROVE TypeInv'
    OBVIOUS
<1>1. CASE \E s \in Senders : SendChunk(s) \/ SendChunkReturns(s)
  BY <1>1, SenderType
<1>2. CASE ExecStep \/ ExecForwards \/ ExecFails
  BY <1>2, ExecType
<1>3. CASE StageStep \/ ProviderSpeaks \/ ProviderFails \/ ProviderCloses
           \/ \E S \in Messages : ProviderCalls(S)
  BY <1>3, StageStepType, ProviderType DEF StageStep
<1>4. CASE FwdStep
  BY <1>4, FwdType
<1>5. CASE Expires \/ \E r \in Reviewers : ReviewerStep(r)
  BY <1>5, ExpiresType, ReviewerType
<1>6. CASE \E k \in Closers : Locks(k, "close") \/ Locks(k, "clear") \/ CloserStep(k)
  BY <1>6, CloserType
<1>7. CASE UNCHANGED vars
  <2>1. UNCHANGED <<writer, readers, convClosed, sender, closer, closed, cancelled, input, out, exec,
                    stage, replay, fwd, reviewer, verdict, gate, ran, answered, pending, resolved, panic>>
    BY <1>7 DEF vars, lockVars, sessionVars, stageVars, reviewVars, callVars, storeVars
  <2>2. TypeOK'
    BY <2>1 DEF TypeInv, TypeOK
  <2>3. KindInv'
    BY <2>1 DEF TypeInv, KindInv
  <2> QED BY <2>2, <2>3 DEF TypeInv
<1> QED BY <1>1, <1>2, <1>3, <1>4, <1>5, <1>6, <1>7 DEF Next

-----------------------------------------------------------------------------
(* A tool result in a queue.                                               *)

Carries(e, c) == e.kind = "results" /\ c \in e.calls

LEMMA QueuedTail ==
    ASSUME NEW q \in Seq(Elems), q # <<>>, NEW c, Single(Queued(q, c))
    PROVE  /\ Single(Queued(Tail(q), c))
           /\ Queued(Tail(q), c) # {} => Queued(q, c) # {} /\ ~Carries(Head(q), c)
           /\ Carries(Head(q), c) => Queued(q, c) # {}
<1> DEFINE t == Tail(q)
           h == Head(q)
<1>1. /\ h = q[1] /\ 1 \in DOMAIN q /\ DOMAIN t = 1 .. Len(q) - 1 /\ Len(q) \in Nat
      /\ \A i \in DOMAIN t : i + 1 \in DOMAIN q /\ t[i] = q[i + 1]
    BY QueueTail
<1> HIDE DEF t, h
<1>2. \A i \in Queued(t, c) : i \in Nat /\ i >= 1 /\ i + 1 \in Queued(q, c)
  <2> TAKE i \in Queued(t, c)
  <2>1. i \in DOMAIN t /\ t[i].kind = "results" /\ c \in t[i].calls
    BY DEF Queued
  <2>2. i \in Nat /\ i >= 1
    BY <1>1, <2>1
  <2> QED BY <1>1, <2>1, <2>2 DEF Queued
<1>3. Carries(h, c) => 1 \in Queued(q, c)
    BY <1>1 DEF Carries, Queued
<1>4. Single(Queued(t, c))
  <2> SUFFICES ASSUME NEW x \in Queued(t, c), NEW y \in Queued(t, c) PROVE x = y
      BY DEF Single
  <2>1. x \in Nat /\ y \in Nat /\ x + 1 = y + 1
    BY <1>2 DEF Single
  <2> QED BY <2>1
<1>5. ASSUME NEW i \in Queued(t, c) PROVE Queued(q, c) # {} /\ ~Carries(h, c)
  <2>1. i \in Nat /\ i >= 1 /\ i + 1 \in Queued(q, c)
    BY <1>2
  <2>2. Carries(h, c) => i + 1 = 1
    BY <1>3, <2>1 DEF Single
  <2> QED BY <2>1, <2>2
<1>6. Queued(t, c) # {} => Queued(q, c) # {} /\ ~Carries(h, c)
    BY <1>5
<1> QED BY <1>3, <1>4, <1>6 DEF t, h

LEMMA QueuedAppend ==
    ASSUME NEW q \in Seq(Elems), NEW e \in Elems, NEW c, Single(Queued(q, c))
    PROVE  /\ Queued(Append(q, e), c) # {} => Queued(q, c) # {} \/ Carries(e, c)
           /\ (Carries(e, c) => Queued(q, c) = {}) => Single(Queued(Append(q, e), c))
<1> DEFINE a == Append(q, e)
           n == Len(q)
<1>1. /\ DOMAIN q = 1 .. n /\ DOMAIN a = 1 .. n + 1 /\ n \in Nat
      /\ \A i \in DOMAIN q : a[i] = q[i]
      /\ a[n + 1] = e
    BY QueueAppend
<1> HIDE DEF a, n
<1>2. \A i \in Queued(a, c) : i \in Queued(q, c) \/ (i = n + 1 /\ Carries(e, c))
  <2> TAKE i \in Queued(a, c)
  <2>1. i \in DOMAIN a /\ a[i].kind = "results" /\ c \in a[i].calls
    BY DEF Queued
  <2>2. i \in DOMAIN q \/ i = n + 1
    BY <1>1, <2>1
  <2> QED BY <1>1, <2>1, <2>2 DEF Queued, Carries
<1>3. Queued(a, c) # {} => Queued(q, c) # {} \/ Carries(e, c)
    BY <1>2
<1>4. ASSUME Carries(e, c) => Queued(q, c) = {} PROVE Single(Queued(a, c))
    BY <1>2, <1>4 DEF Single
<1> QED BY <1>3, <1>4 DEF a

LEMMA QueuedBuffered ==
    ASSUME NEW q \in Seq(Elems), NEW e \in Elems, NEW c, Cardinality(Audio(q)) <= MaxBuffered,
           Single(Queued(q, c)), Carries(e, c) => Queued(q, c) = {}
    PROVE  /\ Queued(Buffered(q, e), c) # {} => Queued(q, c) # {} \/ Carries(e, c)
           /\ Single(Queued(Buffered(q, e), c))
<1> DEFINE a == Append(q, e)
           b == Buffered(q, e)
<1>1. /\ Queued(a, c) # {} => Queued(q, c) # {} \/ Carries(e, c)
      /\ Single(Queued(a, c))
    BY QueuedAppend
<1>2. PICK f \in [DOMAIN b -> DOMAIN a] :
          /\ \A j \in DOMAIN b : b[j] = a[f[j]]
          /\ \A j, k \in DOMAIN b : f[j] = f[k] => j = k
    BY BufferedIs
<1> HIDE DEF a, b
<1>3. \A j \in Queued(b, c) : j \in DOMAIN b /\ f[j] \in Queued(a, c)
    BY <1>2 DEF Queued
<1>4. Single(Queued(b, c))
    BY <1>1, <1>2, <1>3 DEF Single
<1> QED BY <1>1, <1>3, <1>4 DEF b

-----------------------------------------------------------------------------
(* One call, one step.                                                     *)

CallOK(c) == OnePlace(c) /\ ProposedOnce(c) /\ Decided(c)

\* The places a call reaches when it has been decided.
Settled == Places \ {"pending", "claimed"}

\* The messages on the output that carry the call are among the old ones.
OutKept(c) == \A i \in DOMAIN out' : c \in out'[i].calls => i \in DOMAIN out /\ c \in out[i].calls

\* A call that was decided moves on, or stays, or is lost.
LEMMA Moved ==
    ASSUME NEW c \in Calls, CallOK(c), NEW from \in Settled, NEW to \in Settled,
           \A p \in Places \ {to} : InPlace(p, c)' => InPlace(p, c),
           InPlace(to, c)' => InPlace(to, c) \/ (InPlace(from, c) /\ ~InPlace(from, c)'),
           Single(Claimers(c))', Single(Holders(c))', Single(Queued(input, c))',
           Single(Queued(replay, c))',
           \A r \in Claimers(c)' : r \in Claimers(c) /\ reviewer'[r].at = reviewer[r].at,
           gate'[c] = gate[c], verdict'[c] = verdict[c], ran'[c] = ran[c],
           c \in exec'.todo => c \in exec.todo, OutKept(c)
    PROVE  CallOK(c)'
<1>1. OnePlace(c) /\ ProposedOnce(c) /\ Decided(c) /\ from \in Places /\ to \in Places
    BY DEF CallOK, Settled
<1>2. ASSUME NEW p \in Places, InPlace(p, c)'
      PROVE  InPlace(p, c) \/ (p = to /\ InPlace(from, c) /\ ~InPlace(from, c)')
    BY <1>2
<1>3. ASSUME NEW p \in Places, NEW q \in Places, InPlace(p, c)', InPlace(q, c)' PROVE p = q
    BY <1>1, <1>2, <1>3 DEF OnePlace
<1>4. OnePlace(c)'
    BY <1>3 DEF OnePlace
<1>5. ProposedOnce(c)'
  <2>1. gate'[c] = "new" => \A p \in Places : ~InPlace(p, c)'
    BY <1>1, <1>2 DEF ProposedOnce
  <2>2. gate'[c] # "new" => c \notin exec'.todo
    BY <1>1 DEF ProposedOnce
  <2>3. \A i \in DOMAIN out' : c \in out'[i].calls => gate'[c] = "new" /\ c \notin exec'.todo
    BY <1>1 DEF ProposedOnce, OutKept
  <2>4. \A i, j \in DOMAIN out' : c \in out'[i].calls /\ c \in out'[j].calls => i = j
    BY <1>1 DEF ProposedOnce, OutKept
  <2> QED BY <2>1, <2>2, <2>3, <2>4 DEF ProposedOnce
<1>6. Decided(c)'
  <2>1. c \in pending' => c \in pending
    <3>1. "pending" \in Places \ {to}
      BY DEF Settled, Places
    <3>2. InPlace("pending", c)' => InPlace("pending", c)
      BY <3>1
    <3> QED BY <3>2 DEF InPlace
  <2>2. \A p \in Places \ {"pending", "claimed"} :
            InPlace(p, c)' => ran'[c] = 1 \/ verdict'[c] = "rejected"
    <3> TAKE p \in Places \ {"pending", "claimed"}
    <3>1. InPlace(p, c)' => InPlace(p, c) \/ InPlace(from, c)
      BY <1>2
    <3> QED BY <1>1, <3>1 DEF Decided, Settled
  <2>3. \A r \in Claimers(c)' : verdict'[c] = reviewer'[r].at /\ ran'[c] = 0
    BY <1>1 DEF Decided
  <2> QED BY <1>1, <2>1, <2>2, <2>3 DEF Decided
<1> QED BY <1>4, <1>5, <1>6 DEF CallOK

LEMMA CallInvIs == CallInv <=> \A c \in Calls : CallOK(c)
BY DEF CallInv, CallOK

\* The results in a queue stay what they are, or become fewer.
Shrinks(q, p, c) == (Queued(p, c) # {} => Queued(q, c) # {}) /\ Single(Queued(p, c))

\* A step that moves no call.
LEMMA CallsCalm ==
    ASSUME CallInv, UNCHANGED <<pending, resolved, reviewer, answered, gate, verdict, ran>>,
           exec'.results = exec.results, exec'.todo = exec.todo, fwd'.calls = fwd.calls,
           \A c \in Calls : OutKept(c) /\ Shrinks(input, input', c) /\ Shrinks(replay, replay', c)
    PROVE  CallInv'
<1> SUFFICES ASSUME NEW c \in Calls PROVE CallOK(c)'
    BY DEF CallInv, CallOK
<1>1. CallOK(c)
    BY CallInvIs
<1>2. Claimers(c)' = Claimers(c) /\ Holders(c)' = Holders(c)
    BY DEF Claimers, Holders
<1>3. \A p \in Places : InPlace(p, c)' => InPlace(p, c)
    BY <1>2 DEF InPlace, Places, Shrinks
<1>4. "answered" \in Settled
    BY DEF Settled, Places
<1>5. /\ Single(Claimers(c))' /\ Single(Holders(c))' /\ Single(Queued(input, c))'
      /\ Single(Queued(replay, c))'
    BY <1>1, <1>2 DEF CallOK, OnePlace, Shrinks
<1>6. \A r \in Claimers(c)' : r \in Claimers(c) /\ reviewer'[r].at = reviewer[r].at
    BY <1>2
<1>7. Settled \subseteq Places
    BY DEF Settled
<1> HIDE DEF Settled
<1> QED BY <1>1, <1>3, <1>4, <1>5, <1>6, <1>7, Moved

LEMMA OutStays == ASSUME UNCHANGED out PROVE \A c \in Calls : OutKept(c)
BY DEF OutKept

LEMMA OutGrows ==
    ASSUME TypeInv, NEW k \in Kinds, NEW S \in SUBSET Calls, out' = Append(out, Elem(k, S)),
           NEW c, c \notin S
    PROVE  OutKept(c)
<1> DEFINE e == Elem(k, S)
           a == Append(out, e)
           n == Len(out)
<1>1. e \in Elems /\ e.calls = S
    BY ElemMade
<1> HIDE DEF e
<1>2. /\ DOMAIN out = 1 .. n /\ DOMAIN a = 1 .. n + 1 /\ n \in Nat
      /\ \A i \in DOMAIN out : a[i] = out[i]
      /\ a[n + 1] = e
    BY <1>1, QueueAppend DEF TypeInv, TypeOK
<1>3. out' = a
    BY DEF e
<1> HIDE DEF a, n
<1>4. ASSUME NEW i \in DOMAIN a, c \in a[i].calls PROVE i \in DOMAIN out /\ c \in out[i].calls
  <2>1. i \in DOMAIN out \/ i = n + 1
    BY <1>2
  <2>2. i # n + 1
    BY <1>1, <1>2, <1>4
  <2> QED BY <1>2, <1>4, <2>1, <2>2
<1> QED BY <1>3, <1>4 DEF OutKept

LEMMA QueueStays ==
    ASSUME CallInv, NEW c \in Calls
    PROVE  Shrinks(input, input, c) /\ Shrinks(replay, replay, c)
BY DEF CallInv, OnePlace, Shrinks

\* An element that is not a tool result joins the input.
LEMMA InputGrows ==
    ASSUME TypeInv, CallInv, NEW c \in Calls,
           UNCHANGED input \/ \E k \in {"audio", "eos"} : input' = Append(input, Elem(k, {}))
    PROVE  Shrinks(input, input', c)
<1>1. CASE UNCHANGED input
    BY <1>1, QueueStays
<1>2. ASSUME NEW k \in {"audio", "eos"}, input' = Append(input, Elem(k, {}))
      PROVE  Shrinks(input, input', c)
  <2> DEFINE e == Elem(k, {})
  <2>1. e \in Elems /\ e.kind = k
    BY ElemMade DEF Kinds
  <2>2. ~Carries(e, c)
    BY <2>1 DEF Carries
  <2> HIDE DEF e
  <2>3. input \in Seq(Elems) /\ Single(Queued(input, c))
    BY DEF TypeInv, TypeOK, CallInv, OnePlace
  <2> DEFINE a == Append(input, e)
  <2>4. (Queued(a, c) # {} => Queued(input, c) # {}) /\ Single(Queued(a, c))
    BY <2>1, <2>2, <2>3, QueuedAppend
  <2>5. input' = a
    BY <1>2 DEF e
  <2> HIDE DEF a
  <2> QED BY <2>4, <2>5 DEF Shrinks
<1> QED BY <1>1, <1>2

LEMMA SenderCalls ==
    ASSUME TypeInv, CallInv, NEW s \in Senders, SendChunk(s) \/ SendChunkReturns(s)
    PROVE  CallInv'
<1>1. UNCHANGED <<pending, resolved, reviewer, answered, gate, verdict, ran, out, replay, fwd>>
    BY DEF SendChunk, SendChunkHolding, SendChunkReturns, stageVars, reviewVars, callVars, storeVars
<1>2. exec'.results = exec.results /\ exec'.todo = exec.todo
    BY DEF SendChunk, SendChunkHolding, SendChunkReturns, TypeInv, TypeOK
<1>3. UNCHANGED input \/ input' = Append(input, Elem("audio", {}))
    BY DEF SendChunk, SendChunkHolding, SendChunkReturns, SendInput
<1>4. \A c \in Calls : OutKept(c) /\ Shrinks(input, input', c) /\ Shrinks(replay, replay', c)
    BY <1>1, <1>3, OutStays, InputGrows, QueueStays
<1> QED BY <1>1, <1>2, <1>4, CallsCalm

LEMMA CloserCalls ==
    ASSUME TypeInv, CallInv, NEW k \in Closers,
           Locks(k, "close") \/ Locks(k, "clear") \/ CloserStep(k)
    PROVE  CallInv'
<1>1. UNCHANGED <<pending, resolved, reviewer, answered, gate, verdict, ran, out, replay, fwd, exec>>
    BY DEF Locks, CloserStep, CloseLocked, ClearLocked, Drain, ClosesInput, Cancels, CloseUnchanged,
           stageVars, reviewVars, callVars, storeVars
<1>2. UNCHANGED input \/ input' = Append(input, Elem("eos", {}))
    BY DEF Locks, CloserStep, CloseLocked, ClearLocked, Drain, ClosesInput, Cancels, sessionVars
<1>3. \A c \in Calls : OutKept(c) /\ Shrinks(input, input', c) /\ Shrinks(replay, replay', c)
    BY <1>1, <1>2, OutStays, InputGrows, QueueStays
<1> QED BY <1>1, <1>3, CallsCalm

\* The steps of the stage that only open, fail, end or send what carries no call.
LEMMA StageCalm ==
    ASSUME TypeInv, CallInv, \/ StageOpens \/ StageFailedEnds \/ StageEnds \/ StageStops
                             \/ ProviderSpeaks \/ ProviderFails \/ ProviderCloses
                             \/ FwdCancelled \/ FwdRecords
    PROVE  CallInv'
<1>1. UNCHANGED <<pending, resolved, reviewer, answered, gate, verdict, ran, input, replay, exec>>
    BY DEF StageOpens, StageFailedEnds, StageEnds, StageStops, RespEnds, ProviderSpeaks, ProviderFails,
           ProviderCloses, RespForwards, FwdCancelled, FwdRecords, StageUnchanged, reviewVars, storeVars
<1>2. fwd'.calls = fwd.calls
    BY DEF StageOpens, StageFailedEnds, StageEnds, StageStops, RespEnds, ProviderSpeaks, ProviderFails,
           ProviderCloses, RespForwards, FwdCancelled, FwdRecords, TypeInv, TypeOK
<1>3. UNCHANGED out \/ \E k \in {"text", "error", "record"} : out' = Append(out, Elem(k, {}))
    BY DEF StageOpens, StageFailedEnds, StageEnds, StageStops, RespEnds, ProviderSpeaks, ProviderFails,
           ProviderCloses, RespForwards, FwdCancelled, FwdRecords
<1>4. \A c \in Calls : OutKept(c)
  <2>1. \A k \in {"text", "error", "record"} : k \in Kinds
    BY DEF Kinds
  <2> QED BY <1>3, <2>1, OutStays, OutGrows
<1>5. \A c \in Calls : Shrinks(input, input', c) /\ Shrinks(replay, replay', c)
    BY <1>1, QueueStays
<1> QED BY <1>1, <1>2, <1>4, <1>5, CallsCalm

\* Every other step leaves some of what a call depends on alone: what is left
\* of it follows from the places that change.
LEMMA CallMoves ==
    ASSUME TypeInv, CallInv, NEW c \in Calls, NEW from \in Settled, NEW to \in Settled,
           UNCHANGED <<gate, verdict, ran>>, exec'.todo \subseteq exec.todo, OutKept(c),
           \A r \in Reviewers : reviewer'[r].at \in {"approved", "rejected"} =>
               reviewer'[r].at = reviewer[r].at /\ reviewer'[r].call = reviewer[r].call,
           \A p \in Places \ {"claimed", to} : InPlace(p, c)' => InPlace(p, c),
           InPlace(to, c)' => InPlace(to, c) \/ (InPlace(from, c) /\ ~InPlace(from, c)'),
           Single(Holders(c))', Single(Queued(input, c))', Single(Queued(replay, c))'
    PROVE  CallOK(c)'
<1>1. CallOK(c)
    BY CallInvIs
<1>2. \A r \in Claimers(c)' : r \in Claimers(c) /\ reviewer'[r].at = reviewer[r].at
    BY DEF Claimers
<1>3. Single(Claimers(c))'
    BY <1>1, <1>2 DEF CallOK, OnePlace, Single
<1>4. InPlace("claimed", c)' => InPlace("claimed", c)
    BY <1>2 DEF InPlace
<1>5. \A p \in Places \ {to} : InPlace(p, c)' => InPlace(p, c)
    BY <1>4
<1>6. gate'[c] = gate[c] /\ verdict'[c] = verdict[c] /\ ran'[c] = ran[c]
    OBVIOUS
<1> QED BY <1>1, <1>2, <1>3, <1>5, <1>6, Moved

LEMMA SettledPlaces ==
    {"resolved", "batch", "input", "replay", "exec", "fwd", "answered"} \subseteq Settled
BY DEF Settled, Places

LEMMA QueueFacts ==
    ASSUME TypeInv, CallInv, NEW c \in Calls
    PROVE  /\ input \in Seq(Elems) /\ replay \in Seq(Elems) /\ out \in Seq(Elems)
           /\ Single(Queued(input, c)) /\ Single(Queued(replay, c)) /\ Single(Holders(c))
           /\ Cardinality(Audio(replay)) <= MaxBuffered
BY DEF TypeInv, TypeOK, CallInv, OnePlace

\* Two places never hold the call.
LEMMA Elsewhere ==
    ASSUME CallInv, NEW c \in Calls, NEW p \in Places, NEW q \in Places, p # q, InPlace(p, c)
    PROVE  ~InPlace(q, c)
BY DEF CallInv, OnePlace

\* The input loop and the drain goroutine take the head of the input, the
\* results in it go to the replay buffer.
LEMMA BufferCalls ==
    ASSUME TypeInv, CallInv, input # <<>>, input' = Tail(input),
           NEW q \in {<<>>, replay}, replay' = Buffered(q, Head(input)),
           UNCHANGED <<pending, resolved, reviewer, answered, gate, verdict, ran, out, exec, fwd>>
    PROVE  CallInv'
<1> SUFFICES ASSUME NEW c \in Calls PROVE CallOK(c)'
    BY DEF CallInv, CallOK
<1>1. /\ input \in Seq(Elems) /\ Single(Queued(input, c)) /\ Single(Holders(c))
      /\ q \in Seq(Elems) /\ Single(Queued(q, c)) /\ Cardinality(Audio(q)) <= MaxBuffered
  <2>1. Queued(<<>>, c) = {}
    BY EmptySeq DEF Queued
  <2>2. Single(Queued(<<>>, c))
    BY <2>1 DEF Single
  <2> QED BY <2>2, QueueFacts, EmptyQueue
<1> DEFINE e == Head(input)
           t == Tail(input)
           b == Buffered(q, e)
<1>2. e \in Elems
    BY <1>1, QueueTail
<1>3. /\ Single(Queued(t, c))
      /\ Queued(t, c) # {} => Queued(input, c) # {} /\ ~Carries(e, c)
      /\ Carries(e, c) => Queued(input, c) # {}
    BY <1>1, QueuedTail
<1>4. Queued(q, c) # {} => Queued(replay, c) # {}
  <2>1. Queued(<<>>, c) = {}
    BY EmptySeq DEF Queued
  <2> QED BY <2>1
<1>5. Carries(e, c) => Queued(q, c) = {}
  <2>1. Queued(input, c) # {} => Queued(replay, c) = {}
    <3>1. InPlace("input", c) <=> Queued(input, c) # {}
      BY DEF InPlace
    <3>2. InPlace("replay", c) <=> Queued(replay, c) # {}
      BY DEF InPlace
    <3>3. "input" \in Places /\ "replay" \in Places
      BY DEF Places
    <3> QED BY <3>1, <3>2, <3>3, Elsewhere
  <2> QED BY <1>3, <1>4, <2>1
<1> HIDE DEF e
<1>6. (Queued(b, c) # {} => Queued(q, c) # {} \/ Carries(e, c)) /\ Single(Queued(b, c))
    BY <1>1, <1>2, <1>5, QueuedBuffered
<1>7. input' = t /\ replay' = b
    BY DEF e
<1> HIDE DEF t, b
<1>8. Single(Queued(input, c))' /\ Single(Queued(replay, c))' /\ Single(Holders(c))'
    BY <1>1, <1>3, <1>6, <1>7 DEF Holders
<1>9. \A p \in Places \ {"claimed", "replay"} : InPlace(p, c)' => InPlace(p, c)
  <2>1. Holders(c)' = Holders(c)
    BY DEF Holders
  <2> QED BY <1>3, <1>7, <2>1 DEF InPlace
<1>10. InPlace("replay", c)' => InPlace("replay", c) \/ (InPlace("input", c) /\ ~InPlace("input", c)')
    BY <1>3, <1>4, <1>6, <1>7 DEF InPlace
<1>11. OutKept(c)
    BY OutStays
<1> QED BY <1>8, <1>9, <1>10, <1>11, SettledPlaces, CallMoves

LEMMA StageCalls ==
    ASSUME TypeInv, CallInv, StageReceivesFirst \/ StageBuffers
    PROVE  CallInv'
<1>1. UNCHANGED <<pending, resolved, reviewer, answered, gate, verdict, ran, out, exec, fwd>>
    BY DEF StageReceivesFirst, StageBuffers, StageUnchanged, reviewVars, storeVars
<1>2. CASE UNCHANGED <<input, replay>>
    BY <1>1, <1>2, OutStays, QueueStays, CallsCalm
<1>3. CASE input # <<>> /\ input' = Tail(input) /\ replay' = Buffered(<<>>, Head(input))
    BY <1>1, <1>3, BufferCalls
<1>4. CASE input # <<>> /\ input' = Tail(input) /\ replay' = Buffered(replay, Head(input))
    BY <1>1, <1>4, BufferCalls
<1> QED BY <1>2, <1>3, <1>4 DEF StageReceivesFirst, StageBuffers

\* What the input loop has in hand after it took an element.
LEMMA FwdTakesCalls ==
    ASSUME TypeInv, NEW e, e.kind \in InputKinds, FwdTakes(e)
    PROVE  \/ fwd'.calls = fwd.calls /\ \A c : ~Carries(e, c)
           \/ \A c : c \in fwd'.calls <=> Carries(e, c)
<1>1. CASE e.kind = "eos"
  BY <1>1 DEF FwdTakes, Carries, TypeInv, TypeOK
<1>2. CASE e.kind = "audio"
  BY <1>2 DEF FwdTakes, Carries, TypeInv, TypeOK
<1>3. CASE e.kind = "results"
  BY <1>3 DEF FwdTakes, Carries
<1> QED BY <1>1, <1>2, <1>3 DEF InputKinds

LEMMA FwdReceivesCalls ==
    ASSUME TypeInv, CallInv, FwdReceives
    PROVE  CallInv'
<1>1. UNCHANGED <<pending, resolved, reviewer, answered, gate, verdict, ran, out, exec>>
    BY DEF FwdReceives, StageUnchanged, reviewVars, storeVars
<1>2. CASE UNCHANGED <<input, replay>> /\ fwd'.calls = fwd.calls
    BY <1>1, <1>2, OutStays, QueueStays, CallsCalm
<1>3. ASSUME NEW q \in Seq(Elems), Inputs(q), q # <<>>, FwdTakes(Head(q)), NEW from,
             \/ from = "input" /\ q = input /\ input' = Tail(q) /\ UNCHANGED replay
             \/ from = "replay" /\ q = replay /\ replay' = Tail(q) /\ UNCHANGED input
      PROVE  CallInv'
  <2> SUFFICES ASSUME NEW c \in Calls PROVE CallOK(c)'
      BY DEF CallInv, CallOK
  <2> DEFINE e == Head(q)
             t == Tail(q)
  <2>1. e.kind \in InputKinds
    BY <1>3, InputsTail
  <2>2. \/ fwd'.calls = fwd.calls /\ \A d : ~Carries(e, d)
        \/ \A d : d \in fwd'.calls <=> Carries(e, d)
    BY <1>3, <2>1, FwdTakesCalls
  <2>3. Single(Queued(q, c)) /\ Single(Holders(c)) /\ Single(Queued(input, c))
        /\ Single(Queued(replay, c))
    BY <1>3, QueueFacts
  <2>4. /\ Single(Queued(t, c))
        /\ Queued(t, c) # {} => Queued(q, c) # {} /\ ~Carries(e, c)
        /\ Carries(e, c) => Queued(q, c) # {}
    BY <1>3, <2>3, QueuedTail
  <2>5. \/ from = "input" /\ q = input /\ input' = t /\ UNCHANGED replay
        \/ from = "replay" /\ q = replay /\ replay' = t /\ UNCHANGED input
    BY <1>3
  <2> HIDE DEF e, t
  <2>6. Single(Queued(input, c))' /\ Single(Queued(replay, c))' /\ Single(Holders(c))'
    BY <1>1, <2>3, <2>4, <2>5 DEF Holders
  <2>7. \A p \in Places \ {"claimed", "fwd"} : InPlace(p, c)' => InPlace(p, c)
    <3>1. Holders(c)' = Holders(c)
      BY <1>1 DEF Holders
    <3> QED BY <1>1, <2>4, <2>5, <3>1 DEF InPlace
  <2>8. InPlace("fwd", c)' => InPlace("fwd", c) \/ (InPlace(from, c) /\ ~InPlace(from, c)')
    BY <2>2, <2>4, <2>5 DEF InPlace
  <2>9. OutKept(c) /\ from \in Settled /\ "fwd" \in Settled
    BY <1>1, <2>5, OutStays, SettledPlaces
  <2> QED BY <1>1, <2>6, <2>7, <2>8, <2>9, CallMoves
<1>4. /\ input \in Seq(Elems) /\ Inputs(input) /\ replay \in Seq(Elems) /\ Inputs(replay)
    BY StageTyped DEF StageType
<1>5. CASE replay # <<>> /\ FwdTakes(Head(replay)) /\ replay' = Tail(replay) /\ UNCHANGED input
    BY <1>3, <1>4, <1>5
<1>6. CASE input # <<>> /\ FwdTakes(Head(input)) /\ input' = Tail(input) /\ UNCHANGED replay
    BY <1>3, <1>4, <1>6
<1>7. CASE fwd' = [fwd EXCEPT !.at = "finished"] /\ UNCHANGED <<replay, input>>
    BY <1>2, <1>7 DEF TypeInv, TypeOK
<1> QED BY <1>5, <1>6, <1>7 DEF FwdReceives

LEMMA FwdSendsCalls ==
    ASSUME TypeInv, CallInv, FwdSends
    PROVE  CallInv'
<1> SUFFICES ASSUME NEW c \in Calls PROVE CallOK(c)'
    BY DEF CallInv, CallOK
<1>1. /\ UNCHANGED <<pending, resolved, reviewer, gate, verdict, ran, out, exec, input, replay>>
      /\ fwd'.calls = {} /\ answered' \subseteq answered \cup fwd.calls
    BY DEF FwdSends, StageUnchanged, reviewVars, storeVars
<1>2. Holders(c)' = Holders(c)
    BY <1>1 DEF Holders
<1>3. \A p \in Places \ {"claimed", "answered"} : InPlace(p, c)' => InPlace(p, c)
    BY <1>1, <1>2 DEF InPlace
<1>4. InPlace("answered", c)' => InPlace("answered", c) \/ (InPlace("fwd", c) /\ ~InPlace("fwd", c)')
    BY <1>1 DEF InPlace
<1>5. Single(Queued(input, c))' /\ Single(Queued(replay, c))' /\ Single(Holders(c))'
    BY <1>1, <1>2, QueueFacts
<1>6. OutKept(c)
    BY <1>1, OutStays
<1> QED BY <1>1, <1>3, <1>4, <1>5, <1>6, SettledPlaces, CallMoves

\* A batch of results joins the input, or the closed channel panics.
LEMMA ResultsJoin ==
    ASSUME TypeInv, CallInv, NEW S \in SUBSET Calls, NEW who, SendInput(Elem("results", S), who),
           NEW c \in Calls, c \in S => Queued(input, c) = {}
    PROVE  Single(Queued(input', c)) /\ (Queued(input', c) # {} => Queued(input, c) # {} \/ c \in S)
<1> DEFINE e == Elem("results", S)
           a == Append(input, e)
<1>1. e \in Elems /\ e.calls = S
    BY ElemMade DEF Kinds
<1>2. Carries(e, c) => c \in S
    BY <1>1 DEF Carries
<1>3. input' = a \/ UNCHANGED input
    BY DEF SendInput
<1> HIDE DEF e
<1>4. /\ Queued(a, c) # {} => Queued(input, c) # {} \/ Carries(e, c)
      /\ Single(Queued(a, c))
    BY <1>1, <1>2, QueueFacts, QueuedAppend
<1> HIDE DEF a
<1> QED BY <1>2, <1>3, <1>4, QueueFacts

LEMMA ExecSendsCalls ==
    ASSUME TypeInv, CallInv, ExecSendsResults
    PROVE  CallInv'
<1> SUFFICES ASSUME NEW c \in Calls PROVE CallOK(c)'
    BY DEF CallInv, CallOK
<1>1. /\ UNCHANGED <<pending, resolved, reviewer, answered, gate, verdict, ran, out, fwd, replay>>
      /\ SendInput(Elem("results", exec.results), "exec")
      /\ exec'.results = {} /\ exec'.todo = {}
    BY DEF ExecSendsResults, ExecUnchanged, NextTool, stageVars, reviewVars, callVars, storeVars
<1>2. exec.results \in SUBSET Calls
    BY DEF TypeInv, TypeOK
<1>3. c \in exec.results => Queued(input, c) = {}
  <2>1. InPlace("exec", c) <=> c \in exec.results
    BY DEF InPlace
  <2>2. InPlace("input", c) <=> Queued(input, c) # {}
    BY DEF InPlace
  <2>3. "input" \in Places /\ "exec" \in Places
    BY DEF Places
  <2> QED BY <2>1, <2>2, <2>3, Elsewhere
<1>4. /\ Single(Queued(input', c))
      /\ Queued(input', c) # {} => Queued(input, c) # {} \/ c \in exec.results
    BY <1>1, <1>2, <1>3, ResultsJoin
<1>5. Holders(c)' = Holders(c)
    BY <1>1 DEF Holders
<1>6. \A p \in Places \ {"claimed", "input"} : InPlace(p, c)' => InPlace(p, c)
    BY <1>1, <1>5 DEF InPlace
<1>7. InPlace("input", c)' => InPlace("input", c) \/ (InPlace("exec", c) /\ ~InPlace("exec", c)')
    BY <1>1, <1>4 DEF InPlace
<1>8. Single(Queued(input, c))' /\ Single(Queued(replay, c))' /\ Single(Holders(c))'
    BY <1>1, <1>4, <1>5, QueueFacts
<1>9. OutKept(c)
    BY <1>1, OutStays
<1> QED BY <1>1, <1>6, <1>7, <1>8, <1>9, SettledPlaces, CallMoves

LEMMA SubmitCalls ==
    ASSUME TypeInv, CallInv, NEW r \in Reviewers, SubmitToolResults(r)
    PROVE  CallInv'
<1> SUFFICES ASSUME NEW c \in Calls PROVE CallOK(c)'
    BY DEF CallInv, CallOK
<1> DEFINE S == reviewer[r].batch
<1>1. /\ UNCHANGED <<pending, resolved, exec, answered, gate, verdict, ran, out, fwd, replay>>
      /\ SendInput(Elem("results", S), "reviewer") \/ UNCHANGED input
      /\ reviewer' = [reviewer EXCEPT ![r].at = "idle", ![r].batch = {}]
    BY DEF SubmitToolResults, ReviewUnchanged, stageVars, storeVars
<1>2. reviewer \in [Reviewers -> ReviewerRecords] /\ S \in SUBSET Calls
    BY ReviewTyped DEF ReviewType, ReviewerRecords
<1>3. \A s \in Reviewers :
          /\ reviewer'[s].batch = IF s = r THEN {} ELSE reviewer[s].batch
          /\ reviewer'[s].at = IF s = r THEN "idle" ELSE reviewer[s].at
          /\ reviewer'[s].call = reviewer[s].call
    BY <1>1, <1>2 DEF ReviewerRecords
<1>4. c \in S => Queued(input, c) = {} /\ r \in Holders(c)
  <2>1. c \in S => r \in Holders(c)
    BY DEF Holders
  <2>2. InPlace("batch", c) <=> Holders(c) # {}
    BY DEF InPlace
  <2>3. InPlace("input", c) <=> Queued(input, c) # {}
    BY DEF InPlace
  <2>4. "input" \in Places /\ "batch" \in Places
    BY DEF Places
  <2> HIDE DEF S
  <2> QED BY <2>1, <2>2, <2>3, <2>4, Elsewhere
<1>5. /\ Single(Queued(input', c))
      /\ Queued(input', c) # {} => Queued(input, c) # {} \/ c \in S
  <2> HIDE DEF S
  <2>1. CASE SendInput(Elem("results", S), "reviewer")
    BY <1>2, <1>4, <2>1, ResultsJoin
  <2>2. CASE UNCHANGED input
    BY <2>2, QueueFacts
  <2> QED BY <1>1, <2>1, <2>2
<1>6. Holders(c)' \subseteq Holders(c) \ {r}
    BY <1>3 DEF Holders
<1>7. Single(Holders(c))
    BY QueueFacts
<1>8. Single(Holders(c)')
    BY <1>6, <1>7 DEF Single
<1>9. c \in S => Holders(c)' = {}
    BY <1>4, <1>6, <1>7 DEF Single
<1>10. \A p \in Places \ {"claimed", "input"} : InPlace(p, c)' => InPlace(p, c)
    BY <1>1, <1>6 DEF InPlace
<1> HIDE DEF S
<1>11. InPlace("input", c)' => InPlace("input", c) \/ (InPlace("batch", c) /\ ~InPlace("batch", c)')
    BY <1>4, <1>5, <1>9 DEF InPlace
<1>12. Single(Queued(input, c))' /\ Single(Queued(replay, c))' /\ Single(Holders(c))'
  <2>1. Single(Queued(replay, c))
    BY QueueFacts
  <2> QED BY <1>1, <1>5, <1>8, <2>1 DEF Single
<1>13. OutKept(c)
    BY <1>1, OutStays
<1>14. \A s \in Reviewers : reviewer'[s].at \in {"approved", "rejected"} =>
           reviewer'[s].at = reviewer[s].at /\ reviewer'[s].call = reviewer[s].call
    BY <1>3
<1> QED BY <1>1, <1>10, <1>11, <1>12, <1>13, <1>14, SettledPlaces, CallMoves

LEMMA ContinueCalls ==
    ASSUME TypeInv, CallInv, NEW r \in Reviewers, ContinueDuplex(r)
    PROVE  CallInv'
<1> SUFFICES ASSUME NEW c \in Calls PROVE CallOK(c)'
    BY DEF CallInv, CallOK
<1>1. /\ UNCHANGED <<pending, exec, answered, gate, verdict, ran, out, fwd, replay, input>>
      /\ resolved' = {} /\ reviewer[r].at = "idle"
      /\ \/ UNCHANGED reviewer
         \/ reviewer' = [reviewer EXCEPT ![r].at = "submitting", ![r].batch = resolved]
    BY DEF ContinueDuplex, PopAll, ReviewUnchanged, stageVars
<1>2. reviewer \in [Reviewers -> ReviewerRecords]
    BY ReviewTyped DEF ReviewType
<1>3. \A s \in Reviewers : s # r => reviewer'[s] = reviewer[s]
    BY <1>1, <1>2
<1>4. \/ UNCHANGED reviewer
      \/ reviewer'[r].batch = resolved /\ reviewer'[r].at = "submitting"
    BY <1>1, <1>2 DEF ReviewerRecords
<1>5. c \in resolved => Holders(c) = {}
  <2>1. InPlace("batch", c) <=> Holders(c) # {}
    BY DEF InPlace
  <2>2. InPlace("resolved", c) <=> c \in resolved
    BY DEF InPlace
  <2>3. "batch" \in Places /\ "resolved" \in Places
    BY DEF Places
  <2> QED BY <2>1, <2>2, <2>3, Elsewhere
<1>6. Holders(c)' \subseteq Holders(c) \cup (IF c \in resolved THEN {r} ELSE {})
    BY <1>3, <1>4 DEF Holders
<1>7. Single(Holders(c))
    BY QueueFacts
<1>8. Single(Holders(c)')
    BY <1>5, <1>6, <1>7 DEF Single
<1>9. \A p \in Places \ {"claimed", "batch"} : InPlace(p, c)' => InPlace(p, c)
    BY <1>1 DEF InPlace
<1>10. InPlace("batch", c)' =>
           InPlace("batch", c) \/ (InPlace("resolved", c) /\ ~InPlace("resolved", c)')
    BY <1>1, <1>6 DEF InPlace
<1>11. Single(Queued(input, c))' /\ Single(Queued(replay, c))' /\ Single(Holders(c))'
  <2>1. Single(Queued(replay, c)) /\ Single(Queued(input, c))
    BY QueueFacts
  <2> QED BY <1>1, <1>8, <2>1 DEF Single
<1>12. OutKept(c)
    BY <1>1, OutStays
<1>13. \A s \in Reviewers : reviewer'[s].at \in {"approved", "rejected"} =>
           reviewer'[s].at = reviewer[s].at /\ reviewer'[s].call = reviewer[s].call
    BY <1>3, <1>4
<1> QED BY <1>1, <1>9, <1>10, <1>11, <1>12, <1>13, SettledPlaces, CallMoves

\* A step that changes the store of held calls and the reviewers' controls, and
\* decides none.
LEMMA ReviewCalm ==
    ASSUME TypeInv, CallInv, pending' \subseteq pending,
           UNCHANGED <<resolved, input, replay, out, exec, fwd, gate, verdict, ran, answered>>,
           \A s \in Reviewers :
               /\ reviewer'[s].at \in {"approved", "rejected"} =>
                      reviewer'[s].at = reviewer[s].at /\ reviewer'[s].call = reviewer[s].call
               /\ reviewer'[s].batch = reviewer[s].batch
    PROVE  CallInv'
<1> SUFFICES ASSUME NEW c \in Calls PROVE CallOK(c)'
    BY DEF CallInv, CallOK
<1>1. Holders(c)' = Holders(c)
    BY DEF Holders
<1>2. \A p \in Places \ {"claimed"} : InPlace(p, c)' => InPlace(p, c)
    BY <1>1 DEF InPlace
<1>3. Single(Queued(input, c))' /\ Single(Queued(replay, c))' /\ Single(Holders(c))'
    BY <1>1, QueueFacts
<1>4. OutKept(c)
    BY OutStays
<1>5. "answered" \in Settled /\ "answered" \in Places \ {"claimed"}
    BY DEF Settled, Places
<1> QED BY <1>2, <1>3, <1>4, <1>5, CallMoves

\* A reviewer claims a held call and decides it.
LEMMA ClaimCalls ==
    ASSUME TypeInv, CallInv, NEW r \in Reviewers, NEW c \in Calls, NEW v \in {"approved", "rejected"},
           c \in pending, pending' = pending \ {c}, reviewer[r].at \in {"idle", "peeked"},
           \A s \in Reviewers : /\ reviewer'[s].at = IF s = r THEN v ELSE reviewer[s].at
                                /\ reviewer'[s].call = IF s = r THEN c ELSE reviewer[s].call
                                /\ reviewer'[s].batch = reviewer[s].batch,
           verdict' = [verdict EXCEPT ![c] = v],
           UNCHANGED <<resolved, input, replay, out, exec, fwd, gate, ran, answered>>
    PROVE  CallInv'
<1> SUFFICES ASSUME NEW d \in Calls PROVE CallOK(d)'
    BY DEF CallInv, CallOK
<1>1. CallOK(d)
    BY CallInvIs
<1>2. Holders(d)' = Holders(d)
    BY DEF Holders
<1>3. \A p \in Places \ {"claimed"} : InPlace(p, d)' => InPlace(p, d)
    BY <1>2 DEF InPlace
<1>4. Single(Queued(input, d))' /\ Single(Queued(replay, d))' /\ Single(Holders(d))'
    BY <1>2, QueueFacts
<1>5. OutKept(d)
    BY OutStays
<1>6. CASE d # c
  <2>1. \A s \in Claimers(d)' : s \in Claimers(d) /\ reviewer'[s].at = reviewer[s].at
    BY <1>6 DEF Claimers
  <2>2. InPlace("claimed", d)' => InPlace("claimed", d)
    BY <2>1 DEF InPlace
  <2>3. Single(Claimers(d))'
    BY <1>1, <2>1 DEF CallOK, OnePlace, Single
  <2>4. verdict'[d] = verdict[d]
    BY <1>6 DEF TypeInv, TypeOK
  <2>5. "answered" \in Settled /\ \A p \in Places : InPlace(p, d)' => InPlace(p, d)
    BY <1>3, <2>2 DEF Settled, Places
  <2>6. Settled \subseteq Places
    BY DEF Settled
  <2> HIDE DEF Settled
  <2> QED BY <1>1, <1>4, <1>5, <2>1, <2>3, <2>4, <2>5, <2>6, Moved
<1>7. CASE d = c
  <2>1. /\ gate[d] = "held" /\ ran[d] = 0 /\ verdict'[d] = v
        /\ InPlace("pending", d) /\ "pending" \in Places /\ "claimed" \in Places
    BY <1>1, <1>7 DEF CallOK, Decided, InPlace, Places, TypeInv, TypeOK
  <2>2. \A p \in Places : p # "pending" => ~InPlace(p, d)
    BY <2>1, Elsewhere
  <2>3. ~InPlace("pending", d)'
    BY <1>7 DEF InPlace
  <2>4. \A p \in Places : InPlace(p, d)' => p = "claimed"
    BY <1>3, <2>2, <2>3
  <2>5. Claimers(d) = {}
    BY <2>1, <2>2 DEF InPlace
  <2>6. \A s \in Claimers(d)' : s = r
    BY <1>7, <2>5 DEF Claimers
  <2>7. Single(Claimers(d))'
    BY <2>6 DEF Single
  <2>8. OnePlace(d)'
    BY <1>4, <2>4, <2>7 DEF OnePlace
  <2>9. ProposedOnce(d)'
    BY <1>1, <2>1 DEF CallOK, ProposedOnce
  <2>10. Decided(d)'
    <3>1. \A s \in Claimers(d)' : verdict'[d] = reviewer'[s].at /\ ran'[d] = 0
      BY <2>1, <2>6
    <3>2. \A p \in Places \ {"pending", "claimed"} : ~InPlace(p, d)'
      BY <2>4
    <3>3. d \notin pending'
      BY <1>7
    <3>4. gate'[d] = "held" /\ ran'[d] = 0
      BY <2>1
    <3> QED BY <3>1, <3>2, <3>3, <3>4 DEF Decided
  <2> QED BY <2>8, <2>9, <2>10 DEF CallOK
<1> QED BY <1>6, <1>7

\* The decision is carried out: the handler runs, or not, and the resolution
\* waits in the resolved store.
LEMMA ResolvesCalls ==
    ASSUME TypeInv, CallInv, NEW r \in Reviewers, Resolves(r)
    PROVE  CallInv'
<1> DEFINE c == reviewer[r].call
<1>1. /\ UNCHANGED <<pending, verdict, exec, answered, gate, out, fwd, replay, input>>
      /\ resolved' = resolved \cup {c} /\ reviewer[r].at \in {"approved", "rejected"}
      /\ ran' = [ran EXCEPT ![c] = IF reviewer[r].at = "approved" THEN @ + 1 ELSE @]
      /\ reviewer' = [reviewer EXCEPT ![r].at = "idle", ![r].call = None]
    BY DEF Resolves, ResolvedAdd, ReviewUnchanged, stageVars
<1>2. /\ reviewer \in [Reviewers -> ReviewerRecords] /\ c \in Calls
      /\ ran \in [Calls -> Nat] /\ verdict \in [Calls -> {"none", "approved", "rejected"}]
    BY <1>1, ReviewTyped DEF ReviewType
<1>3. \A s \in Reviewers :
          /\ reviewer'[s].at = IF s = r THEN "idle" ELSE reviewer[s].at
          /\ s # r => reviewer'[s].call = reviewer[s].call
          /\ reviewer'[s].batch = reviewer[s].batch
    BY <1>1, <1>2 DEF ReviewerRecords
<1> SUFFICES ASSUME NEW d \in Calls PROVE CallOK(d)'
    BY DEF CallInv, CallOK
<1>4. CallOK(d)
    BY CallInvIs
<1>5. Holders(d)' = Holders(d)
    BY <1>3 DEF Holders
<1>6. \A s \in Claimers(d)' : s \in Claimers(d) \ {r} /\ reviewer'[s].at = reviewer[s].at
    BY <1>3 DEF Claimers
<1>7. InPlace("claimed", d)' => InPlace("claimed", d)
    BY <1>6 DEF InPlace
<1>8. \A p \in Places \ {"resolved"} : InPlace(p, d)' => InPlace(p, d)
    BY <1>1, <1>5, <1>7 DEF InPlace
<1>9. /\ Single(Queued(input, d))' /\ Single(Queued(replay, d))' /\ Single(Holders(d))'
      /\ Single(Claimers(d))'
  <2>1. Single(Claimers(d))
    BY <1>4 DEF CallOK, OnePlace
  <2>2. Single(Claimers(d)')
    BY <1>6, <2>1 DEF Single
  <2> QED BY <1>1, <1>5, <2>2, QueueFacts
<1>10. OutKept(d)
    BY <1>1, OutStays
<1>11. CASE d # c
  <2>1. ran'[d] = ran[d]
    BY <1>1, <1>2, <1>11
  <2>2. InPlace("resolved", d)' => InPlace("resolved", d)
    BY <1>1, <1>11 DEF InPlace
  <2>3. "resolved" \in Settled
    BY SettledPlaces
  <2>4. \A s \in Claimers(d)' : s \in Claimers(d) /\ reviewer'[s].at = reviewer[s].at
    BY <1>6
  <2>5. gate'[d] = gate[d] /\ verdict'[d] = verdict[d] /\ (d \in exec'.todo => d \in exec.todo)
    BY <1>1
  <2> HIDE DEF c
  <2> QED BY <1>4, <1>8, <1>9, <1>10, <2>1, <2>2, <2>3, <2>4, <2>5, Moved
<1>12. CASE d = c
  <2>1. r \in Claimers(d)
    BY <1>1, <1>12 DEF Claimers
  <2>2. /\ verdict[d] = reviewer[r].at /\ ran[d] = 0 /\ gate[d] # "new"
        /\ InPlace("claimed", d) /\ "claimed" \in Places /\ "resolved" \in Places
    BY <1>4, <2>1 DEF CallOK, Decided, ProposedOnce, InPlace, Places
  <2>3. \A p \in Places : p # "claimed" => ~InPlace(p, d)
    BY <2>2, Elsewhere
  <2>4. Claimers(d)' = {}
    <3>1. \A s \in Claimers(d) : s = r
      BY <1>4, <2>1 DEF CallOK, OnePlace, Single
    <3> QED BY <1>6, <3>1
  <2>5. ~InPlace("claimed", d)'
    BY <2>4 DEF InPlace
  <2>6. \A p \in Places : InPlace(p, d)' => p = "resolved"
    BY <1>8, <2>3, <2>5
  <2>7. OnePlace(d)'
    BY <1>9, <2>6 DEF OnePlace
  <2>8. ProposedOnce(d)'
    BY <1>1, <1>4, <2>2 DEF CallOK, ProposedOnce
  <2>9. \/ reviewer[r].at = "approved" /\ ran'[d] = 1
        \/ reviewer[r].at = "rejected" /\ ran'[d] = 0
    BY <1>1, <1>2, <1>12, <2>2
  <2>10. d \notin pending'
    BY <1>1, <2>3 DEF InPlace, Places
  <2>11. Decided(d)'
    BY <1>1, <2>2, <2>4, <2>9, <2>10 DEF Decided
  <2> QED BY <2>7, <2>8, <2>11 DEF CallOK
<1> QED BY <1>11, <1>12

LEMMA ReviewerCalls ==
    ASSUME TypeInv, CallInv, NEW r \in Reviewers, ReviewerStep(r)
    PROVE  CallInv'
<1>0. /\ reviewer \in [Reviewers -> ReviewerRecords]
      /\ reviewer[r].at = "peeked" => reviewer[r].call \in Calls
    BY ReviewTyped DEF ReviewType
<1>1. ASSUME NEW c \in Calls, ResolvePeeks(r, c) PROVE CallInv'
  <2>1. /\ UNCHANGED <<resolved, pending, input, replay, out, exec, fwd, gate, verdict, ran, answered>>
        /\ reviewer' = [reviewer EXCEPT ![r].at = "peeked", ![r].call = c]
    BY <1>1 DEF ResolvePeeks, ReviewUnchanged, stageVars, storeVars
  <2>2. \A s \in Reviewers : /\ s # r => reviewer'[s] = reviewer[s]
                             /\ reviewer'[r].at = "peeked" /\ reviewer'[r].batch = reviewer[r].batch
    BY <1>0, <2>1 DEF ReviewerRecords
  <2> QED BY <2>1, <2>2, ReviewCalm
<1>2. ASSUME NEW c \in Calls, RejectTool(r, c) PROVE CallInv'
  <2>1. /\ UNCHANGED <<resolved, input, replay, out, exec, fwd, gate, ran, answered>>
        /\ reviewer[r].at = "idle" /\ c \in pending /\ pending' = pending \ {c}
        /\ verdict' = [verdict EXCEPT ![c] = "rejected"]
        /\ reviewer' = [reviewer EXCEPT ![r].at = "rejected", ![r].call = c]
    BY <1>2 DEF RejectTool, Claim, ReviewUnchanged, stageVars
  <2>2. \A s \in Reviewers : /\ reviewer'[s].at = IF s = r THEN "rejected" ELSE reviewer[s].at
                             /\ reviewer'[s].call = IF s = r THEN c ELSE reviewer[s].call
                             /\ reviewer'[s].batch = reviewer[s].batch
    BY <1>0, <2>1 DEF ReviewerRecords
  <2> QED BY <2>1, <2>2, ClaimCalls
<1>3. CASE ResolveClaims(r)
  <2> DEFINE c == reviewer[r].call
  <2>1. /\ UNCHANGED <<resolved, input, replay, out, exec, fwd, gate, ran, answered>>
        /\ reviewer[r].at = "peeked"
    BY <1>3 DEF ResolveClaims, ReviewUnchanged, stageVars
  <2>2. CASE /\ c \in pending /\ pending' = pending \ {c}
             /\ verdict' = [verdict EXCEPT ![c] = "approved"]
             /\ reviewer' = [reviewer EXCEPT ![r].at = "approved"]
    <3>1. \A s \in Reviewers : /\ reviewer'[s].at = IF s = r THEN "approved" ELSE reviewer[s].at
                               /\ reviewer'[s].call = IF s = r THEN c ELSE reviewer[s].call
                               /\ reviewer'[s].batch = reviewer[s].batch
      BY <1>0, <2>2 DEF ReviewerRecords
    <3>2. c \in Calls /\ reviewer[r].at \in {"idle", "peeked"}
      BY <1>0, <2>1
    <3>3. /\ c \in pending /\ pending' = pending \ {c}
          /\ verdict' = [verdict EXCEPT ![c] = "approved"]
      BY <2>2
    <3> HIDE DEF c
    <3> QED BY <2>1, <3>1, <3>2, <3>3, ClaimCalls
  <2>3. CASE /\ reviewer' = [reviewer EXCEPT ![r].at = "idle", ![r].call = None]
             /\ UNCHANGED <<pending, verdict>>
    <3>1. \A s \in Reviewers : /\ s # r => reviewer'[s] = reviewer[s]
                               /\ reviewer'[r].at = "idle" /\ reviewer'[r].batch = reviewer[r].batch
      BY <1>0, <2>3 DEF ReviewerRecords
    <3> QED BY <2>1, <2>3, <3>1, ReviewCalm
  <2> QED BY <1>3, <2>2, <2>3 DEF ResolveClaims, Claim
<1> QED BY <1>1, <1>2, <1>3, ResolvesCalls, ContinueCalls, SubmitCalls DEF ReviewerStep

LEMMA ExpiresCalls ==
    ASSUME TypeInv, CallInv, Expires
    PROVE  CallInv'
<1>1. /\ UNCHANGED <<resolved, input, replay, out, exec, fwd, gate, verdict, ran, answered, reviewer>>
      /\ pending' \subseteq pending
    BY DEF Expires, RemoveExpired, ReviewUnchanged, reviewVars, stageVars
<1> QED BY <1>1, ReviewCalm

\* The messages on the output and the tool calls in hand change, nothing else.
LEMMA ProposalCalls ==
    ASSUME TypeInv, CallInv, exec'.results = exec.results,
           UNCHANGED <<pending, resolved, reviewer, answered, gate, verdict, ran, input, replay, fwd>>,
           \A c \in Calls :
               /\ gate[c] # "new" => c \notin exec'.todo
               /\ \A i \in DOMAIN out' : c \in out'[i].calls => gate[c] = "new" /\ c \notin exec'.todo
               /\ \A i, j \in DOMAIN out' : c \in out'[i].calls /\ c \in out'[j].calls => i = j
    PROVE  CallInv'
<1> SUFFICES ASSUME NEW c \in Calls PROVE CallOK(c)'
    BY DEF CallInv, CallOK
<1>1. CallOK(c)
    BY CallInvIs
<1>2. Claimers(c)' = Claimers(c) /\ Holders(c)' = Holders(c)
    BY DEF Claimers, Holders
<1>3. \A p \in Places : InPlace(p, c)' <=> InPlace(p, c)
    BY <1>2 DEF InPlace, Places
<1>4. OnePlace(c)'
    BY <1>1, <1>2, <1>3 DEF CallOK, OnePlace
<1>5. ProposedOnce(c)'
    BY <1>1, <1>3 DEF CallOK, ProposedOnce
<1>6. Decided(c)'
    BY <1>1, <1>2, <1>3 DEF CallOK, Decided
<1> QED BY <1>4, <1>5, <1>6 DEF CallOK

LEMMA ExecReceivesCalls ==
    ASSUME TypeInv, CallInv, ExecReceives
    PROVE  CallInv'
<1>1. /\ UNCHANGED <<pending, resolved, reviewer, answered, gate, verdict, ran, input, replay, fwd>>
      /\ out # <<>> /\ out' = Tail(out)
    BY DEF ExecReceives, ExecUnchanged, stageVars, reviewVars, callVars, storeVars
<1>2. exec'.results = exec.results /\ exec'.todo = Head(out).calls
    BY DEF ExecReceives, TypeInv, TypeOK
<1> DEFINE t == Tail(out)
           h == Head(out)
<1>3. /\ h = out[1] /\ 1 \in DOMAIN out /\ DOMAIN t = 1 .. Len(out) - 1 /\ Len(out) \in Nat
      /\ \A i \in DOMAIN t : i + 1 \in DOMAIN out /\ t[i] = out[i + 1]
    BY <1>1, QueueTail DEF TypeInv, TypeOK
<1>4. out' = t /\ exec'.todo = h.calls
    BY <1>1, <1>2
<1> HIDE DEF t, h
<1>5. \A i \in DOMAIN t : i \in Nat /\ i >= 1
    BY <1>3
<1>6. ASSUME NEW c \in Calls
      PROVE  /\ gate[c] # "new" => c \notin exec'.todo
             /\ \A i \in DOMAIN out' : c \in out'[i].calls => gate[c] = "new" /\ c \notin exec'.todo
             /\ \A i, j \in DOMAIN out' : c \in out'[i].calls /\ c \in out'[j].calls => i = j
  <2>1. ProposedOnce(c)
    BY DEF CallInv
  <2>2. \A i \in DOMAIN out : c \in out[i].calls => gate[c] = "new" /\ c \notin exec.todo
    BY <2>1 DEF ProposedOnce
  <2>3. \A i, j \in DOMAIN out : c \in out[i].calls /\ c \in out[j].calls => i = j
    BY <2>1 DEF ProposedOnce
  <2>4. gate[c] # "new" => c \notin exec'.todo
    BY <1>3, <1>4, <2>2
  <2>5. ASSUME NEW i \in DOMAIN t, c \in t[i].calls PROVE gate[c] = "new" /\ c \notin h.calls
    <3>1. i + 1 \in DOMAIN out /\ c \in out[i + 1].calls /\ i \in Nat /\ i >= 1
      BY <1>3, <1>5, <2>5
    <3>2. c \in h.calls => i + 1 = 1
      BY <1>3, <2>3, <3>1
    <3>3. i + 1 # 1
      BY <3>1
    <3> QED BY <2>2, <3>1, <3>2, <3>3
  <2>6. ASSUME NEW i \in DOMAIN t, NEW j \in DOMAIN t, c \in t[i].calls, c \in t[j].calls
        PROVE  i = j
    <3>1. i + 1 \in DOMAIN out /\ c \in out[i + 1].calls /\ j + 1 \in DOMAIN out
          /\ c \in out[j + 1].calls
      BY <1>3, <2>6
    <3>2. i + 1 = j + 1
      BY <2>3, <3>1
    <3> QED BY <1>5, <3>2
  <2> QED BY <1>4, <2>4, <2>5, <2>6
<1> QED BY <1>1, <1>2, <1>6, ProposalCalls

LEMMA ProviderCallsCalls ==
    ASSUME TypeInv, CallInv, NEW S \in Messages, ProviderCalls(S)
    PROVE  CallInv'
<1>1. /\ UNCHANGED <<pending, resolved, reviewer, answered, gate, verdict, ran, input, replay, fwd,
                     exec>>
      /\ S \cap Proposed = {} /\ out' = Append(out, Elem("calls", S))
    BY DEF ProviderCalls, RespForwards, StageUnchanged, reviewVars, storeVars
<1> DEFINE e == Elem("calls", S)
           a == Append(out, e)
           n == Len(out)
<1>2. e \in Elems /\ e.calls = S
    BY ElemMade, DuplexAssumption DEF Kinds
<1> HIDE DEF e
<1>3. /\ DOMAIN out = 1 .. n /\ DOMAIN a = 1 .. n + 1 /\ n \in Nat
      /\ \A i \in DOMAIN out : a[i] = out[i]
      /\ a[n + 1] = e
    BY <1>2, QueueAppend DEF TypeInv, TypeOK
<1>4. out' = a
    BY <1>1 DEF e
<1> HIDE DEF a, n
<1>5. \A i \in DOMAIN a : i \in DOMAIN out \/ i = n + 1
    BY <1>3
<1>6. ASSUME NEW c \in Calls
      PROVE  /\ gate[c] # "new" => c \notin exec'.todo
             /\ \A i \in DOMAIN out' : c \in out'[i].calls => gate[c] = "new" /\ c \notin exec'.todo
             /\ \A i, j \in DOMAIN out' : c \in out'[i].calls /\ c \in out'[j].calls => i = j
  <2>1. ProposedOnce(c)
    BY DEF CallInv
  <2>2. /\ gate[c] # "new" => c \notin exec.todo
        /\ \A i \in DOMAIN out : c \in out[i].calls => gate[c] = "new" /\ c \notin exec.todo
        /\ \A i, j \in DOMAIN out : c \in out[i].calls /\ c \in out[j].calls => i = j
    BY <2>1 DEF ProposedOnce
  <2>3. c \in S => /\ gate[c] = "new" /\ c \notin exec.todo
                   /\ \A i \in DOMAIN out : c \notin out[i].calls
    BY <1>1 DEF Proposed
  <2>4. \A i \in DOMAIN a : c \in a[i].calls => gate[c] = "new" /\ c \notin exec.todo
    BY <1>2, <1>3, <1>5, <2>2, <2>3
  <2>5. \A i, j \in DOMAIN a : c \in a[i].calls /\ c \in a[j].calls => i = j
    BY <1>2, <1>3, <1>5, <2>2, <2>3
  <2> QED BY <1>1, <1>4, <2>2, <2>4, <2>5
<1> QED BY <1>1, <1>6, ProposalCalls

\* The checker meets a call of the message in hand: it is held, or run.
LEMMA ExecDecidesCalls ==
    ASSUME TypeInv, CallInv, NEW c \in Calls, c \in exec.todo, NEW x \in {"held", "passed"},
           gate' = [gate EXCEPT ![c] = x], exec'.todo = exec.todo \ {c},
           exec'.results = exec.results \cup (IF x = "passed" THEN {c} ELSE {}),
           pending' = pending \cup (IF x = "held" THEN {c} ELSE {}),
           ran' = IF x = "passed" THEN [ran EXCEPT ![c] = @ + 1] ELSE ran,
           UNCHANGED <<resolved, reviewer, answered, verdict, input, replay, fwd, out>>
    PROVE  CallInv'
<1> SUFFICES ASSUME NEW d \in Calls PROVE CallOK(d)'
    BY DEF CallInv, CallOK
<1> DEFINE to == IF x = "held" THEN "pending" ELSE "exec"
<1>1. CallOK(d)
    BY CallInvIs
<1>2. Claimers(d)' = Claimers(d) /\ Holders(d)' = Holders(d)
    BY DEF Claimers, Holders
<1>3. /\ Single(Queued(input, d))' /\ Single(Queued(replay, d))' /\ Single(Holders(d))'
      /\ Single(Claimers(d))'
    BY <1>1, <1>2, QueueFacts DEF CallOK, OnePlace
<1>4. OutKept(d)
    BY OutStays
<1>5. gate \in [Calls -> {"new", "held", "passed"}] /\ ran \in [Calls -> Nat]
    BY DEF TypeInv, TypeOK
<1>6. CASE d # c
  <2>1. \A p \in Places : InPlace(p, d)' => InPlace(p, d)
    BY <1>2, <1>6 DEF InPlace, Places
  <2>2. gate'[d] = gate[d] /\ ran'[d] = ran[d] /\ verdict'[d] = verdict[d]
    BY <1>5, <1>6
  <2>3. "answered" \in Settled /\ "answered" \in Places
    BY DEF Settled, Places
  <2>4. \A r \in Claimers(d)' : r \in Claimers(d) /\ reviewer'[r].at = reviewer[r].at
    BY <1>2
  <2> QED BY <1>1, <1>3, <1>4, <2>1, <2>2, <2>3, <2>4, Moved
<1>7. CASE d = c
  <2>1. gate[d] = "new"
    BY <1>1, <1>7 DEF CallOK, ProposedOnce
  <2>2. (\A p \in Places : ~InPlace(p, d)) /\ ran[d] = 0 /\ verdict[d] = "none"
    BY <1>1, <2>1 DEF CallOK, ProposedOnce, Decided
  <2>3. \A p \in Places : InPlace(p, d)' => p = to
    BY <1>2, <2>2 DEF InPlace, Places
  <2>4. OnePlace(d)'
    BY <1>3, <2>3 DEF OnePlace
  <2>5. gate'[d] = x /\ (x = "held" => ran'[d] = 0) /\ (x = "passed" => ran'[d] = 1)
    BY <1>5, <1>7, <2>2
  <2>6. ProposedOnce(d)'
    <3>1. \A i \in DOMAIN out : d \notin out[i].calls
      BY <1>1, <1>7 DEF CallOK, ProposedOnce
    <3> QED BY <1>7, <2>5, <3>1 DEF ProposedOnce
  <2>7. Claimers(d)' = {}
    BY <1>2, <2>2 DEF InPlace, Places
  <2>8. d \in pending' => x = "held"
    BY <2>2 DEF InPlace, Places
  <2>9. \A p \in Places \ {"pending", "claimed"} : InPlace(p, d)' => x = "passed"
    BY <2>3
  <2>10. verdict'[d] = "none"
    BY <2>2
  <2>11. Decided(d)'
    BY <2>5, <2>7, <2>8, <2>9, <2>10 DEF Decided
  <2> QED BY <2>4, <2>6, <2>11 DEF CallOK
<1> QED BY <1>6, <1>7

LEMMA ExecCalls ==
    ASSUME TypeInv, CallInv, ExecStep \/ ExecForwards \/ ExecFails
    PROVE  CallInv'
<1>1. CASE ExecPipelineEnds \/ ExecCancelled \/ ExecForwards \/ ExecFails
  <2>1. UNCHANGED <<pending, resolved, reviewer, answered, gate, verdict, ran, input, out, replay, fwd>>
    BY <1>1 DEF ExecPipelineEnds, ExecCancelled, ExecForwards, ExecFails, ExecUnchanged, stageVars,
                reviewVars, callVars, storeVars
  <2>2. exec'.results = exec.results /\ exec'.todo = exec.todo
    BY <1>1 DEF ExecPipelineEnds, ExecCancelled, ExecForwards, ExecFails, TypeInv, TypeOK
  <2> QED BY <2>1, <2>2, OutStays, QueueStays, CallsCalm
<1>2. ASSUME NEW c \in Calls, ExecHolds(c) PROVE CallInv'
  <2>1. /\ UNCHANGED <<resolved, reviewer, answered, verdict, ran, input, out, replay, fwd>>
        /\ c \in exec.todo /\ pending' = pending \cup {c} /\ gate' = [gate EXCEPT ![c] = "held"]
        /\ exec'.todo = exec.todo \ {c} /\ exec'.results = exec.results
    BY <1>2 DEF ExecHolds, Add, NextTool, ExecUnchanged, stageVars, reviewVars
  <2> QED BY <2>1, ExecDecidesCalls
<1>3. ASSUME NEW c \in Calls, ExecRuns(c) PROVE CallInv'
  <2>1. /\ UNCHANGED <<pending, resolved, reviewer, answered, verdict, input, out, replay, fwd>>
        /\ c \in exec.todo /\ gate' = [gate EXCEPT ![c] = "passed"]
        /\ ran' = [ran EXCEPT ![c] = @ + 1]
        /\ exec'.todo = exec.todo \ {c} /\ exec'.results = exec.results \cup {c}
    BY <1>3 DEF ExecRuns, NextTool, ExecUnchanged, stageVars, reviewVars, storeVars
  <2> QED BY <2>1, ExecDecidesCalls
<1> QED BY <1>1, <1>2, <1>3, ExecReceivesCalls, ExecSendsCalls DEF ExecStep

LEMMA CallInit == Init => CallInv
<1> SUFFICES ASSUME Init, NEW c \in Calls PROVE CallOK(c)
    BY DEF CallInv, CallOK
<1>1. Claimers(c) = {} /\ Holders(c) = {} /\ Queued(input, c) = {} /\ Queued(replay, c) = {}
  <2>1. Queued(<<>>, c) = {}
    BY EmptySeq DEF Queued
  <2> QED BY <2>1 DEF Init, Claimers, Holders
<1>2. \A p \in Places : ~InPlace(p, c)
    BY <1>1 DEF Init, StoreInit, InPlace
<1>3. OnePlace(c)
    BY <1>1, <1>2 DEF OnePlace, Single
<1>4. ProposedOnce(c)
  <2>1. DOMAIN out = {}
    BY EmptySeq DEF Init
  <2> QED BY <1>2, <2>1 DEF Init, ProposedOnce
<1>5. Decided(c)
    BY <1>1, <1>2 DEF Init, StoreInit, Decided
<1> QED BY <1>3, <1>4, <1>5 DEF CallOK

LEMMA CallNext == TypeInv /\ CallInv /\ [Next]_vars => CallInv'
<1> SUFFICES ASSUME TypeInv, CallInv, [Next]_vars PROVE CallInv'
    OBVIOUS
<1>1. CASE \E s \in Senders : SendChunk(s) \/ SendChunkReturns(s)
  BY <1>1, SenderCalls
<1>2. CASE ExecStep \/ ExecForwards \/ ExecFails
  BY <1>2, ExecCalls
<1>3. CASE StageStep \/ ProviderSpeaks \/ ProviderFails \/ ProviderCloses
  BY <1>3, StageCalls, StageCalm DEF StageStep
<1>4. CASE FwdStep
  BY <1>4, FwdReceivesCalls, FwdSendsCalls, StageCalm DEF FwdStep
<1>5. CASE \E S \in Messages : ProviderCalls(S)
  BY <1>5, ProviderCallsCalls
<1>6. CASE Expires \/ \E r \in Reviewers : ReviewerStep(r)
  BY <1>6, ExpiresCalls, ReviewerCalls
<1>7. CASE \E k \in Closers : Locks(k, "close") \/ Locks(k, "clear") \/ CloserStep(k)
  BY <1>7, CloserCalls
<1>8. CASE UNCHANGED vars
  <2>1. UNCHANGED <<pending, resolved, reviewer, answered, gate, verdict, ran, input, out, replay, fwd,
                    exec>>
    BY <1>8 DEF vars, stageVars, reviewVars, callVars, storeVars
  <2> QED BY <2>1, OutStays, QueueStays, CallsCalm
<1> QED BY <1>1, <1>2, <1>3, <1>4, <1>5, <1>6, <1>7, <1>8 DEF Next

-----------------------------------------------------------------------------
(* What follows.                                                           *)

LEMMA SingleCardinality ==
    ASSUME NEW S, Single(S)
    PROVE  Cardinality(S) = IF S = {} THEN 0 ELSE 1
<1>1. CASE S = {}
    BY <1>1, FS_EmptySet
<1>2. CASE S # {}
  <2>1. PICK x \in S : TRUE
    BY <1>2
  <2>2. S = {x}
    BY <2>1 DEF Single
  <2> QED BY <1>2, <2>2, FS_Singleton
<1> QED BY <1>1, <1>2

\* Seven places, of which at most one holds the call, count at most one.
LEMMA AtMostOne ==
    ASSUME CallInv, NEW c \in Calls
    PROVE  In(c, resolved) + Cardinality(Holders(c)) + Cardinality(Queued(input, c))
            + Cardinality(Queued(replay, c)) + In(c, exec.results) + In(c, fwd.calls)
            + In(c, answered) <= 1
<1> DEFINE N(p) == IF InPlace(p, c) THEN 1 ELSE 0
<1>1. OnePlace(c)
    BY DEF CallInv
<1>2. /\ Cardinality(Holders(c)) = N("batch") /\ Cardinality(Queued(input, c)) = N("input")
      /\ Cardinality(Queued(replay, c)) = N("replay")
    BY <1>1, SingleCardinality DEF OnePlace, InPlace
<1>3. /\ In(c, resolved) = N("resolved") /\ In(c, exec.results) = N("exec")
      /\ In(c, fwd.calls) = N("fwd") /\ In(c, answered) = N("answered")
    BY DEF In, InPlace
<1> DEFINE P == {"resolved", "batch", "input", "replay", "exec", "fwd", "answered"}
<1>4. \A p, q \in P : InPlace(p, c) /\ InPlace(q, c) => p = q
    BY <1>1 DEF OnePlace, Places
<1>5. N("resolved") + N("batch") + N("input") + N("replay") + N("exec") + N("fwd") + N("answered") <= 1
  <2>1. CASE \A p \in P : ~InPlace(p, c)
    BY <2>1
  <2>2. ASSUME NEW p \in P, InPlace(p, c)
        PROVE  N("resolved") + N("batch") + N("input") + N("replay") + N("exec") + N("fwd")
                   + N("answered") <= 1
    <3>1. \A q \in P : q # p => ~InPlace(q, c)
      BY <1>4, <2>2
    <3> QED BY <3>1
  <2> QED BY <2>1, <2>2
<1> QED BY <1>2, <1>3, <1>5

\* Review works, for any number of calls, reviewers, senders and closers and any
\* capacities: a handler runs at most once and, for a call that was held, only
\* after an approval, and a call has at most one result on its way to the
\* provider (conversation_tools.go, sdk/tools/pending.go).
THEOREM ReviewIsHonoured == Spec => []ReviewHonoured
<1>1. Init => TypeInv /\ CallInv
  BY TypeInit, CallInit
<1>2. TypeInv /\ CallInv /\ [Next]_vars => (TypeInv /\ CallInv)'
  BY TypeNext, CallNext
<1>3. TypeInv /\ CallInv => ReviewHonoured
  <2> SUFFICES ASSUME TypeInv, CallInv PROVE ReviewHonoured
      OBVIOUS
  <2>1. TypeOK
    BY DEF TypeInv
  <2>2. GateHonoured
    BY DEF CallInv, Decided, GateHonoured
  <2>3. OneResultPerCall
    BY AtMostOne DEF OneResultPerCall
  <2> QED BY <2>1, <2>2, <2>3 DEF ReviewHonoured
<1> QED BY <1>1, <1>2, <1>3, PTL DEF Spec

-----------------------------------------------------------------------------
(* The refinement.  A call's state in the contract is read off the places: *)
(* held while it is in the store, expired when it left it undecided.       *)

StateOf(c) == IF c \in answered                THEN "answered"
              ELSE IF ran[c] > 0               THEN "run"
              ELSE IF verdict[c] # "none"      THEN verdict[c]
              ELSE IF c \in pending            THEN "held"
              ELSE IF gate[c] = "held"         THEN "expired" ELSE "new"

LEMMA CallStateIs == CallState = [c \in Calls |-> StateOf(c)]
BY DEF CallState, StateOf

\* The calls the contract holds are those in the store.
LEMMA HeldIsPending == TypeInv /\ CallInv => Approval!Held = pending
<1> SUFFICES ASSUME TypeInv, CallInv PROVE Approval!Held = pending
    OBVIOUS
<1>1. Approval!Held = {c \in Calls : CallState[c] = "held"}
    BY DEF Approval!Held
<1>2. ASSUME NEW c \in Calls PROVE CallState[c] = "held" <=> c \in pending
  <2>1. CallState[c] = StateOf(c)
    BY CallStateIs
  <2>2. c \in pending => verdict[c] = "none" /\ ran[c] = 0
    BY DEF CallInv, Decided
  <2>3. c \in pending => c \notin answered
    <3>1. c \in pending => InPlace("pending", c)
      BY DEF InPlace
    <3>2. InPlace("answered", c) <=> c \in answered
      BY DEF InPlace
    <3>3. "pending" \in Places /\ "answered" \in Places
      BY DEF Places
    <3> QED BY <3>1, <3>2, <3>3, Elsewhere
  <2>4. verdict[c] \in {"none", "approved", "rejected"}
    BY DEF TypeInv, TypeOK
  <2> QED BY <2>1, <2>2, <2>3, <2>4 DEF StateOf
<1>3. pending \subseteq Calls
    BY DEF TypeInv, TypeOK
<1> QED BY <1>1, <1>2, <1>3

\* A step that changes nothing a call's state depends on.
LEMMA Stutters ==
    ASSUME UNCHANGED <<answered, ran, verdict, pending, gate>>
    PROVE  UNCHANGED CallState
BY DEF CallState

\* Only the state of one call changes.
LEMMA StateMoves ==
    ASSUME NEW c \in Calls, NEW x, StateOf(c)' = x,
           \A d \in Calls \ {c} : StateOf(d)' = StateOf(d)
    PROVE  CallState' = [CallState EXCEPT ![c] = x]
<1>1. CallState = [d \in Calls |-> StateOf(d)] /\ CallState' = [d \in Calls |-> StateOf(d)']
    BY CallStateIs DEF CallState, StateOf
<1> DEFINE f == [d \in Calls |-> StateOf(d)]
           g == [d \in Calls |-> StateOf(d)']
<1>2. g = [f EXCEPT ![c] = x]
    OBVIOUS
<1> QED BY <1>1, <1>2

\* The state of a call in each of the places the moves start from.
LEMMA StateAt ==
    ASSUME TypeInv, CallInv, NEW c \in Calls
    PROVE  /\ gate[c] = "new" => StateOf(c) = "new" /\ c \notin answered /\ c \notin pending
                                 /\ ran[c] = 0 /\ verdict[c] = "none"
           /\ c \in pending => StateOf(c) = "held" /\ c \notin answered
                               /\ ran[c] = 0 /\ verdict[c] = "none" /\ gate[c] = "held"
           /\ c \in fwd.calls => StateOf(c) \in {"run", "rejected"}
           /\ \A r \in Claimers(c) : /\ StateOf(c) = reviewer[r].at /\ c \notin answered
                                     /\ ran[c] = 0
<1>1. OnePlace(c) /\ ProposedOnce(c) /\ Decided(c) /\ ran[c] \in Nat
    BY DEF CallInv, TypeInv, TypeOK
<1>2. /\ InPlace("pending", c) <=> c \in pending
      /\ InPlace("answered", c) <=> c \in answered
      /\ InPlace("fwd", c) <=> c \in fwd.calls
      /\ InPlace("claimed", c) <=> Claimers(c) # {}
    BY DEF InPlace
<1>3. {"pending", "answered", "fwd", "claimed"} \subseteq Places
    BY DEF Places
<1>4. gate[c] = "new" => c \notin answered /\ c \notin pending /\ ran[c] = 0 /\ verdict[c] = "none"
    BY <1>1, <1>2, <1>3 DEF ProposedOnce, Decided
<1>5. c \in pending => c \notin answered /\ ran[c] = 0 /\ verdict[c] = "none" /\ gate[c] = "held"
    BY <1>1, <1>2, <1>3, Elsewhere DEF Decided
<1>6. c \in fwd.calls => c \notin answered /\ (ran[c] = 1 \/ verdict[c] = "rejected")
    BY <1>1, <1>2, <1>3, Elsewhere DEF Decided
<1>7. \A r \in Claimers(c) : c \notin answered /\ ran[c] = 0 /\ verdict[c] = reviewer[r].at
                             /\ reviewer[r].at \in {"approved", "rejected"}
    BY <1>1, <1>2, <1>3, Elsewhere DEF Decided, Claimers
<1> QED BY <1>1, <1>4, <1>5, <1>6, <1>7 DEF StateOf

\* The contract counts with the same Cardinality.
LEMMA SameCardinality == ASSUME NEW S PROVE Approval!Cardinality(S) = Cardinality(S)
BY Zenon DEF Approval!Cardinality, Cardinality

LEMMA ApprovalHolds ==
    ASSUME TypeInv, CallInv, NEW c \in Calls, ExecHolds(c)
    PROVE  Approval!Hold(c)
<1>1. /\ c \in exec.todo /\ c \in Gated /\ ~Full /\ pending' = pending \cup {c}
      /\ gate' = [gate EXCEPT ![c] = "held"] /\ UNCHANGED <<ran, answered, verdict>>
    BY DEF ExecHolds, Add, ExecUnchanged, reviewVars
<1>2. gate[c] = "new"
    BY <1>1 DEF CallInv, ProposedOnce
<1>3. StateOf(c) = "new" /\ c \notin answered /\ ran[c] = 0 /\ verdict[c] = "none"
    BY <1>2, StateAt
<1>4. StateOf(c)' = "held"
    BY <1>1, <1>3 DEF StateOf
<1>5. \A d \in Calls \ {c} : StateOf(d)' = StateOf(d)
    BY <1>1 DEF StateOf, TypeInv, TypeOK
<1>6. CallState' = [CallState EXCEPT ![c] = "held"]
    BY <1>4, <1>5, StateMoves
<1>7. CallState[c] = "new"
    BY <1>3, CallStateIs
<1>8. Approval!Cardinality(Approval!Held) < MaxPending
  <2>1. Cardinality(pending) \in Nat /\ MaxPending \in Nat
    BY FS_CardinalityType, DuplexAssumption DEF TypeInv, KindInv
  <2>2. Cardinality(pending) < MaxPending
    BY <1>1, <2>1 DEF Full
  <2> QED BY <2>2, HeldIsPending, SameCardinality
<1> QED BY <1>1, <1>6, <1>7, <1>8 DEF Approval!Hold, Approval!Move

LEMMA ApprovalRunsUngated ==
    ASSUME TypeInv, CallInv, NEW c \in Calls, ExecRuns(c)
    PROVE  Approval!RunUngated(c)
<1>1. /\ c \in exec.todo /\ (c \notin Gated \/ Full \/ AddMayFail)
      /\ gate' = [gate EXCEPT ![c] = "passed"] /\ ran' = [ran EXCEPT ![c] = @ + 1]
      /\ UNCHANGED <<pending, answered, verdict>>
    BY DEF ExecRuns, ExecUnchanged, reviewVars, storeVars
<1>2. gate[c] = "new"
    BY <1>1 DEF CallInv, ProposedOnce
<1>3. StateOf(c) = "new" /\ c \notin answered /\ ran[c] = 0 /\ verdict[c] = "none"
    BY <1>2, StateAt
<1>4. ran \in [Calls -> Nat] /\ gate \in [Calls -> {"new", "held", "passed"}]
    BY DEF TypeInv, TypeOK
<1>5. ran'[c] = 1
    BY <1>1, <1>3, <1>4
<1>6. StateOf(c)' = "run"
    BY <1>1, <1>3, <1>5 DEF StateOf
<1>7. \A d \in Calls \ {c} : StateOf(d)' = StateOf(d)
    BY <1>1, <1>4 DEF StateOf
<1>8. CallState' = [CallState EXCEPT ![c] = "run"]
    BY <1>6, <1>7, StateMoves
<1>9. CallState[c] = "new"
    BY <1>3, CallStateIs
<1>10. c \notin Gated \/ Approval!Cardinality(Approval!Held) >= MaxPending \/ AddMayFail
    BY <1>1, HeldIsPending, SameCardinality DEF Full
<1> QED BY <1>8, <1>9, <1>10 DEF Approval!RunUngated, Approval!Move

LEMMA ApprovalDecides ==
    ASSUME TypeInv, CallInv, NEW c \in Calls, NEW v \in {"approved", "rejected"},
           c \in pending, pending' = pending \ {c}, verdict' = [verdict EXCEPT ![c] = v],
           UNCHANGED <<answered, ran, gate>>
    PROVE  Approval!Decide(c)
<1>1. StateOf(c) = "held" /\ c \notin answered /\ ran[c] = 0
    BY StateAt
<1>2. verdict \in [Calls -> {"none", "approved", "rejected"}]
    BY DEF TypeInv, TypeOK
<1>3. StateOf(c)' = v
    BY <1>1, <1>2 DEF StateOf
<1>4. \A d \in Calls \ {c} : StateOf(d)' = StateOf(d)
    BY <1>2 DEF StateOf
<1>5. CallState' = [CallState EXCEPT ![c] = v]
    BY <1>3, <1>4, StateMoves
<1>6. CallState[c] = "held"
    BY <1>1, CallStateIs
<1> QED BY <1>5, <1>6 DEF Approval!Decide, Approval!Move

LEMMA ApprovalReviews ==
    ASSUME TypeInv, CallInv, NEW r \in Reviewers, ReviewerStep(r)
    PROVE  [Approval!Next]_CallState
<1>0. UNCHANGED <<answered, gate>>
    BY DEF ReviewerStep, ResolvePeeks, RejectTool, ResolveClaims, Resolves, ContinueDuplex,
           SubmitToolResults, ReviewUnchanged
<1>1. ASSUME NEW c \in Calls, RejectTool(r, c) PROVE Approval!Next
  <2>1. Approval!Decide(c)
    BY <1>0, <1>1, ApprovalDecides DEF RejectTool, Claim
  <2> QED BY <2>1 DEF Approval!Next
<1>2. CASE ResolveClaims(r)
  <2> DEFINE c == reviewer[r].call
  <2>1. reviewer[r].at = "peeked" /\ UNCHANGED ran
    BY <1>2 DEF ResolveClaims
  <2>2. c \in Calls
    BY <2>1, ReviewTyped DEF ReviewType
  <2>3. CASE c \in pending /\ pending' = pending \ {c} /\ verdict' = [verdict EXCEPT ![c] = "approved"]
    <3> HIDE DEF c
    <3>1. Approval!Decide(c)
      BY <1>0, <2>1, <2>2, <2>3, ApprovalDecides
    <3> QED BY <2>2, <3>1 DEF Approval!Next
  <2>4. CASE UNCHANGED <<pending, verdict>>
    BY <1>0, <2>1, <2>4, Stutters
  <2> QED BY <1>2, <2>3, <2>4 DEF ResolveClaims, Claim
<1>3. CASE Resolves(r)
  <2> DEFINE c == reviewer[r].call
  <2>1. /\ reviewer[r].at \in {"approved", "rejected"} /\ UNCHANGED <<verdict, pending>>
        /\ ran' = [ran EXCEPT ![c] = IF reviewer[r].at = "approved" THEN @ + 1 ELSE @]
    BY <1>3 DEF Resolves
  <2>2. c \in Calls /\ ran \in [Calls -> Nat]
    BY <2>1, ReviewTyped DEF ReviewType
  <2>3. r \in Claimers(c)
    BY <2>1 DEF Claimers
  <2>4. StateOf(c) = reviewer[r].at /\ c \notin answered /\ ran[c] = 0
    BY <2>2, <2>3, StateAt
  <2>5. CASE reviewer[r].at = "rejected"
    <3>1. ran' = ran
      BY <2>1, <2>2, <2>5
    <3> QED BY <1>0, <2>1, <3>1, Stutters
  <2>6. CASE reviewer[r].at = "approved"
    <3>1. ran'[c] = 1 /\ \A d \in Calls \ {c} : ran'[d] = ran[d]
      BY <2>1, <2>2, <2>4, <2>6
    <3>2. StateOf(c) = "approved"
      BY <2>4, <2>6
    <3>3. UNCHANGED <<verdict, pending, answered, gate>>
      BY <1>0, <2>1
    <3> HIDE DEF c
    <3>4. \A d \in Calls \ {c} : StateOf(d)' = StateOf(d)
      BY <3>1, <3>3 DEF StateOf
    <3>5. CallState' = [CallState EXCEPT ![c] = "run"]
      <4>1. CallState = [d \in Calls |-> StateOf(d)] /\ CallState' = [d \in Calls |-> StateOf(d)']
        BY CallStateIs DEF CallState, StateOf
      <4>2. CallState'[c] = "run"
        BY <2>2, <2>4, <3>1, <3>3 DEF CallState
      <4>3. \A d \in Calls \ {c} : CallState'[d] = CallState[d]
        BY <3>4, <4>1
      <4> QED BY <2>2, <4>1, <4>2, <4>3
    <3>6. CallState[c] = "approved"
      BY <2>2, <3>2, CallStateIs
    <3>7. Approval!Run(c)
      BY <3>5, <3>6 DEF Approval!Run, Approval!Move
    <3> QED BY <2>2, <3>7 DEF Approval!Next
  <2> QED BY <2>1, <2>5, <2>6
<1>4. CASE \/ \E c \in Calls : ResolvePeeks(r, c)
           \/ ContinueDuplex(r) \/ SubmitToolResults(r)
  <2>1. UNCHANGED <<ran, verdict, pending>>
    BY <1>4 DEF ResolvePeeks, ContinueDuplex, SubmitToolResults, storeVars
  <2> QED BY <1>0, <2>1, Stutters
<1> QED BY <1>1, <1>2, <1>3, <1>4 DEF ReviewerStep

LEMMA ApprovalExpires ==
    ASSUME TypeInv, CallInv, Expires
    PROVE  Approval!Next
<1>1. PICK S \in SUBSET pending : pending' = pending \ S
    BY DEF Expires, RemoveExpired
<1>2. UNCHANGED <<answered, ran, verdict, gate>> /\ pending \subseteq Calls
    BY DEF Expires, ReviewUnchanged, reviewVars, TypeInv, TypeOK
<1>3. ASSUME NEW c \in Calls PROVE StateOf(c)' = IF c \in S THEN "expired" ELSE StateOf(c)
  <2>1. CASE c \in S
    <3>1. c \notin answered /\ ran[c] = 0 /\ verdict[c] = "none" /\ gate[c] = "held"
      BY <2>1, StateAt
    <3> QED BY <1>1, <1>2, <2>1, <3>1 DEF StateOf
  <2>2. CASE c \notin S
    BY <1>1, <1>2, <2>2 DEF StateOf
  <2> QED BY <2>1, <2>2
<1>4. CallState' = [c \in Calls |-> IF c \in S THEN "expired" ELSE CallState[c]]
  <2>1. CallState = [c \in Calls |-> StateOf(c)] /\ CallState' = [c \in Calls |-> StateOf(c)']
    BY CallStateIs DEF CallState, StateOf
  <2> QED BY <1>3, <2>1
<1>5. S \in SUBSET Approval!Held
    BY HeldIsPending
<1>6. Approval!Expire
    BY <1>4, <1>5 DEF Approval!Expire
<1> QED BY <1>6 DEF Approval!Next

LEMMA ApprovalAnswers ==
    ASSUME TypeInv, CallInv, FwdSends
    PROVE  [Approval!Next]_CallState
<1>1. /\ UNCHANGED <<ran, verdict, pending, gate>>
      /\ answered' = answered \cup fwd.calls \/ UNCHANGED answered
    BY DEF FwdSends, StageUnchanged, reviewVars, storeVars
<1>2. CASE UNCHANGED answered
    BY <1>1, <1>2, Stutters
<1>3. CASE answered' = answered \cup fwd.calls
  <2> DEFINE S == fwd.calls
  <2>1. S \subseteq Calls
    BY DEF TypeInv, TypeOK
  <2>2. \A c \in S : CallState[c] \in {"run", "rejected"}
    BY <2>1, StateAt, CallStateIs
  <2>3. \A c \in Calls : StateOf(c)' = IF c \in S THEN "answered" ELSE StateOf(c)
    BY <1>1, <1>3 DEF StateOf
  <2>4. CallState' = [c \in Calls |-> IF c \in S THEN "answered" ELSE CallState[c]]
    <3>1. CallState = [c \in Calls |-> StateOf(c)] /\ CallState' = [c \in Calls |-> StateOf(c)']
      BY CallStateIs DEF CallState, StateOf
    <3> QED BY <2>3, <3>1
  <2>5. S \in SUBSET {c \in Calls : CallState[c] \in {"run", "rejected"}}
    BY <2>1, <2>2
  <2> HIDE DEF S
  <2>6. Approval!Answer
    BY <2>4, <2>5 DEF Approval!Answer
  <2> QED BY <2>6 DEF Approval!Next
<1> QED BY <1>1, <1>2, <1>3

LEMMA ApprovalStep == TypeInv /\ CallInv /\ [Next]_vars => [Approval!Next]_CallState
<1> SUFFICES ASSUME TypeInv, CallInv, [Next]_vars PROVE [Approval!Next]_CallState
    OBVIOUS
<1>1. CASE \E s \in Senders : SendChunk(s) \/ SendChunkReturns(s)
  <2>1. UNCHANGED <<answered, ran, verdict, pending, gate>>
    BY <1>1 DEF SendChunk, SendChunkHolding, SendChunkReturns, reviewVars, callVars, storeVars
  <2> QED BY <2>1, Stutters
<1>2. ASSUME NEW c \in Calls, ExecHolds(c) \/ ExecRuns(c) PROVE Approval!Next
  <2>1. Approval!Hold(c) \/ Approval!RunUngated(c)
    BY <1>2, ApprovalHolds, ApprovalRunsUngated
  <2> QED BY <2>1 DEF Approval!Next
<1>3. CASE \/ ExecReceives \/ ExecPipelineEnds \/ ExecCancelled \/ ExecSendsResults \/ ExecForwards
           \/ ExecFails
  <2>1. UNCHANGED <<answered, ran, verdict, pending, gate>>
    BY <1>3 DEF ExecReceives, ExecPipelineEnds, ExecCancelled, ExecSendsResults, ExecForwards,
                ExecFails, ExecUnchanged, reviewVars, callVars, storeVars
  <2> QED BY <2>1, Stutters
<1>4. CASE \/ StageStep \/ FwdReceives \/ FwdCancelled \/ FwdRecords
           \/ ProviderSpeaks \/ ProviderFails \/ ProviderCloses
           \/ \E S \in Messages : ProviderCalls(S)
  <2>1. UNCHANGED <<answered, ran, verdict, pending, gate>>
    BY <1>4 DEF StageStep, StageReceivesFirst, StageBuffers, StageOpens, StageFailedEnds, StageStops,
                StageEnds, RespEnds, RespForwards, FwdReceives, FwdCancelled, FwdRecords,
                ProviderSpeaks, ProviderFails, ProviderCloses, ProviderCalls, StageUnchanged,
                reviewVars, storeVars
  <2> QED BY <2>1, Stutters
<1>5. CASE FwdSends
  BY <1>5, ApprovalAnswers
<1>6. CASE \E r \in Reviewers : ReviewerStep(r)
  BY <1>6, ApprovalReviews
<1>7. CASE Expires
  BY <1>7, ApprovalExpires
<1>8. CASE \E k \in Closers : Locks(k, "close") \/ Locks(k, "clear") \/ CloserStep(k)
  <2>1. UNCHANGED <<answered, ran, verdict, pending, gate>>
    BY <1>8 DEF Locks, CloserStep, CloseLocked, ClearLocked, Drain, ClosesInput, Cancels,
                CloseUnchanged, reviewVars, callVars, storeVars
  <2> QED BY <2>1, Stutters
<1>9. CASE UNCHANGED vars
  <2>1. UNCHANGED <<answered, ran, verdict, pending, gate>>
    BY <1>9 DEF vars, reviewVars, callVars, storeVars
  <2> QED BY <2>1, Stutters
<1> QED BY <1>1, <1>2, <1>3, <1>4, <1>5, <1>6, <1>7, <1>8, <1>9 DEF Next, ExecStep, FwdStep

\* The conversation implements the approval contract: whatever the reviewers,
\* the cleanup of the store, the session's goroutine and the stage do at once, a
\* call is held, decided once, run after an approval only and answered after
\* the decision, and passes the gate unheld only when the store refuses it.
THEOREM ConversationImplementsApproval == Spec => ImplementsApproval
<1>1. Init => Approval!Init
  BY DEF Init, StoreInit, CallState, Approval!Init
<1>2. Init => TypeInv /\ CallInv
  BY TypeInit, CallInit
<1>3. TypeInv /\ CallInv /\ [Next]_vars => (TypeInv /\ CallInv)'
  BY TypeNext, CallNext
<1>4. TypeInv /\ CallInv /\ [Next]_vars => [Approval!Next]_CallState
  BY ApprovalStep
<1> QED BY <1>1, <1>2, <1>3, <1>4, PTL DEF Spec, ImplementsApproval, Approval!Spec
=============================================================================
