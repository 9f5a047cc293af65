------------------------ MODULE TurnPersistenceProofs ------------------------
(***************************************************************************)
(* What is kept of the turns, for any number of turns and rounds, any      *)
(* window and any number of faults.                                        *)
(*                                                                         *)
(* The messages of a turn are a tail of those in its hands, numbered       *)
(* without a gap.  With a message log, the place of a message in the       *)
(* hands of the tool loop and the length of the store say whether it is    *)
(* stored: what is appended has a place past the end of the store.  Until  *)
(* something goes wrong, the store is a prefix of what the loop has.       *)
(* Without a log, a turn is stored by the one step that ends it.           *)
(***************************************************************************)
EXTENDS TurnPersistence, FiniteSetTheorems, TLAPS

-----------------------------------------------------------------------------
(* The types, and how far a turn is at its label.                          *)

Past == {"seed", "round", "tools", "persist", "next", "emit", "save", "write"}
Labels == Over \cup Past \cup {"load"}
Excusable == {"overlap", "window", "load", "seed", "append", "compact", "cancel", "save", "expired"}

SaidAt(t) ==
    /\ at[t] = "idle" => said[t] = 0 /\ round[t] = 0 /\ msgs[t] = <<>>
    /\ at[t] = "load" => Len(msgs[t]) = 1
    /\ at[t] \in {"idle", "load"} => persisted[t] = 0
    /\ at[t] = "seed" => persisted[t] = Len(msgs[t])
    /\ at[t] \in {"load", "seed"} => said[t] = 1 /\ round[t] = 0
    /\ at[t] = "round" => said[t] <= 2 * round[t] - 1
    /\ at[t] = "tools" => said[t] <= 2 * round[t]
    /\ at[t] \in {"persist", "next"} => said[t] <= 2 * round[t] + 1
    /\ at[t] \in {"idle", "load", "seed", "round", "tools", "next"} => then[t] = "next"

SaidInv == \A t \in Turns : SaidAt(t)

\* Two turns under way have each spoilt the other.
OverlapInv == \A t, u \in Active : t # u => "overlap" \in spoilt[t]

-----------------------------------------------------------------------------
(* The messages in the hands of a turn.                                    *)

\* A message that its turn has said, and had somewhere to take it from.
Known(m) == at[m.of] \notin {"idle", "load"} /\ m.n <= said[m.of]

\* The turn's own messages are a tail, numbered up to the last one it said;
\* unless it lost some, it has them all.
MsgsAt(t) ==
    /\ \A i \in DOMAIN msgs[t] :
          IF i > Len(msgs[t]) - said[t]
          THEN msgs[t][i].of = t /\ msgs[t][i].n = said[t] - Len(msgs[t]) + i
          ELSE msgs[t][i].of # t /\ Known(msgs[t][i])
    /\ spoilt[t] \cap {"load", "compact"} = {} => said[t] <= Len(msgs[t])

\* What the save stage has collected is the turn's own and in order; unless the
\* turn lost some, it is everything.
NewAt(t) ==
    /\ \A i \in DOMAIN new[t] : new[t][i].of = t /\ new[t][i].n <= said[t]
    /\ \A i, j \in DOMAIN new[t] : i < j => new[t][i].n < new[t][j].n
    /\ at[t] \in {"save", "write"} /\ spoilt[t] \cap {"load", "compact", "cancel"} = {} =>
          Len(new[t]) = said[t] /\ \A i \in DOMAIN new[t] : new[t][i].n = i

KnownInv ==
    /\ \A i \in DOMAIN store : Known(store[i])
    /\ \A t \in Turns : \A i \in DOMAIN snapshot[t] : Known(snapshot[t][i])

\* Only fullSave loads what it writes back.
WriteInv == \A t \in Turns : at[t] = "write" => mode = "bulk"

HandsInv == (\A t \in Turns : MsgsAt(t) /\ NewAt(t)) /\ KnownInv /\ WriteInv

-----------------------------------------------------------------------------
(* The order of the store.                                                 *)

\* With a log: what is stored of a turn is not past the end of the store in the
\* turn's hands, and no more is the history, unless the conversation expired;
\* what the tool loop takes for stored is.
PlaceAt(t) ==
    /\ spoilt[t] \cap {"seed", "expired"} = {} =>
          /\ \A j \in DOMAIN store :
                store[j].of = t => store[j].n <= said[t] - Len(msgs[t]) + Len(store)
          /\ at[t] \in Past \ {"seed"} => persisted[t] <= Len(store)
    /\ \A i \in DOMAIN msgs[t] :
          i <= Len(msgs[t]) - said[t] =>
              i <= Len(store) \/ "expired" \in spoilt[msgs[t][i].of]

\* Without one: only a turn that has returned is stored.
Returned == {"done", "suspended"}
Ordered(q) == \A i, j \in DOMAIN q : i < j /\ q[i].of = q[j].of => q[i].n < q[j].n
SavedIn(q) == Ordered(q) /\ \A i \in DOMAIN q : at[q[i].of] \in Returned
SavedInv == SavedIn(store) /\ \A t \in Turns : SavedIn(snapshot[t])

OrderInv == IF mode = "log" THEN (\A t \in Turns : PlaceAt(t)) /\ NothingTwice ELSE SavedInv

-----------------------------------------------------------------------------
(* What of a turn is stored.                                               *)

\* A sequence has the messages of a turn up to the k-th.
Holds(q, t, k) == \A n \in 1 .. k : \E i \in DOMAIN q : q[i].of = t /\ q[i].n = n

\* With a log, of a turn that nothing went wrong for but an append: the store is
\* a prefix of what it has, up to lastPersistedSeq at least, and all of it
\* between the rounds.
PrefixAt(t) ==
    /\ Len(store) <= Len(msgs[t]) /\ \A i \in DOMAIN store : store[i] = msgs[t][i]
    /\ IF at[t] = "seed" THEN persisted[t] = Len(msgs[t]) ELSE persisted[t] <= Len(store)
    /\ at[t] \notin {"seed", "tools", "persist"} /\ "append" \notin spoilt[t] =>
          Len(store) = Len(msgs[t])

\* The calls of a round are followed by their results, but for the last ones
\* while they run or when the loop gives up or suspends.
CallsAt(t) ==
    at[t] \in Past \cup {"load"} =>
        \A i \in DOMAIN msgs[t] :
            msgs[t][i].of = t /\ msgs[t][i].kind = "calls" =>
                i < Len(msgs[t]) \/ at[t] = "tools" \/ then[t] \in {"abort", "suspend"}

\* And in the store.
RoundsAt(t) ==
    \A i \in DOMAIN store :
        store[i].of = t /\ store[i].kind = "calls" =>
            \E j \in DOMAIN store : store[j].of = t /\ store[j].n = store[i].n + 1

LogExcuses == {"overlap", "window", "load", "seed", "compact", "expired"}

\* The slice behind lastPersistedSeq is in range.
RangeAt(t) ==
    at[t] \in Past /\ spoilt[t] \cap {"overlap", "window", "load", "compact"} = {} =>
        Len(store) <= Len(msgs[t]) /\ persisted[t] <= Len(msgs[t])

LogAt(t) ==
    /\ at[t] \in Past /\ spoilt[t] \cap LogExcuses = {} => PrefixAt(t)
    /\ /\ at[t] \in Past \cup {"lost"} /\ then[t] \in {"next", "emit"}
       /\ spoilt[t] \cap LogExcuses = {}
       => RoundsAt(t)

LogInv == mode = "log" => \A t \in Turns : CallsAt(t) /\ RangeAt(t) /\ LogAt(t)

\* In bulk: a snapshot is the store, until the store expires, and has every
\* turn that returned, but for those it overlaps.
CurrentInv ==
    \A t \in Turns : at[t] = "write" /\ "overlap" \notin spoilt[t] => snapshot[t] = store \/ store = <<>>

StoredInv ==
    \A u \in Turns :
        at[u] \in Returned /\ spoilt[u] \cap Excuses = {} =>
            /\ Holds(store, u, said[u])
            /\ mode = "bulk" => \A t \in Turns : at[t] = "write" => Holds(snapshot[t], u, said[u])

-----------------------------------------------------------------------------
(* Sequences.                                                              *)

LEMMA SubSeqIs ==
    ASSUME NEW M, NEW q \in Seq(M), NEW a \in Nat, NEW b \in Nat, a >= 1, b <= Len(q)
    PROVE  /\ SubSeq(q, a, b) \in Seq(M)
           /\ Len(SubSeq(q, a, b)) = IF a <= b THEN b - a + 1 ELSE 0
           /\ \A i \in 1 .. Len(SubSeq(q, a, b)) : SubSeq(q, a, b)[i] = q[a + i - 1]
<1>1. Len(q) \in Nat /\ \A i \in 1 .. Len(q) : q[i] \in M
    OBVIOUS
<1>2. \A i \in 1 .. b - a + 1 : a + i - 1 \in 1 .. Len(q)
    BY <1>1
<1>3. SubSeq(q, a, b) = [i \in 1 .. (b - a + 1) |-> q[a + i - 1]]
    OBVIOUS
<1>4. CASE a <= b
  <2>1. b - a + 1 \in Nat
    BY <1>4
  <2> QED BY SMTT(40), <1>1, <1>2, <1>3, <1>4, <2>1
<1>5. CASE ~(a <= b)
  <2>1. SubSeq(q, a, b) = <<>>
    BY <1>3, <1>5
  <2> QED BY <2>1, <1>5
<1> QED BY <1>4, <1>5

LEMMA ConcatIs ==
    ASSUME NEW M, NEW p \in Seq(M), NEW q \in Seq(M)
    PROVE  /\ p \o q \in Seq(M) /\ Len(p \o q) = Len(p) + Len(q)
           /\ \A i \in 1 .. Len(p) : (p \o q)[i] = p[i]
           /\ \A i \in 1 .. Len(p \o q) : i > Len(p) => (p \o q)[i] = q[i - Len(p)]
OBVIOUS

LEMMA AppendIs ==
    ASSUME NEW M, NEW p \in Seq(M), NEW m \in M
    PROVE  /\ Append(p, m) \in Seq(M) /\ Len(Append(p, m)) = Len(p) + 1
           /\ \A i \in 1 .. Len(p) : Append(p, m)[i] = p[i]
           /\ Append(p, m)[Len(p) + 1] = m
OBVIOUS

LEMMA DomainIs == ASSUME NEW M, NEW q \in Seq(M) PROVE DOMAIN q = 1 .. Len(q) /\ Len(q) \in Nat
OBVIOUS

\* r is the store with the messages of ms past off after it.
Extends(r, ms, off) ==
    /\ r \in Seq(Messages)
    /\ Len(r) = Len(store) + (IF off < Len(ms) THEN Len(ms) - off ELSE 0)
    /\ \A j \in 1 .. Len(store) : r[j] = store[j]
    /\ \A j \in 1 .. Len(r) :
          j > Len(store) => j - Len(store) + off \in 1 .. Len(ms) /\ r[j] = ms[j - Len(store) + off]

\* LogAppend appends what has a place past the end of the store.
LEMMA LogAppendIs ==
    ASSUME store \in Seq(Messages), NEW ms \in Seq(Messages), NEW start \in Nat, start <= Len(ms)
    PROVE  Extends(LogAppend(start, SubSeq(ms, start + 1, Len(ms))), ms,
                   IF start > Len(store) THEN start ELSE Len(store))
<1> DEFINE rest == SubSeq(ms, start + 1, Len(ms))
           skip == IF start > Len(store) THEN 0 ELSE Len(store) - start
           off  == IF start > Len(store) THEN start ELSE Len(store)
           tail == SubSeq(rest, skip + 1, Len(rest))
           r    == LogAppend(start, rest)
<1>1. Len(store) \in Nat /\ Len(ms) \in Nat /\ skip \in Nat /\ off \in Nat /\ off = start + skip
    BY DomainIs
<1>2. rest \in Seq(Messages) /\ Len(rest) = Len(ms) - start
      /\ \A i \in 1 .. Len(rest) : rest[i] = ms[start + i]
  <2>1. start + 1 \in Nat /\ start + 1 >= 1
    OBVIOUS
  <2> HIDE DEF rest
  <2>2. /\ rest \in Seq(Messages)
        /\ Len(rest) = IF start + 1 <= Len(ms) THEN Len(ms) - (start + 1) + 1 ELSE 0
        /\ \A i \in 1 .. Len(rest) : rest[i] = ms[start + 1 + i - 1]
    BY <1>1, <2>1, SubSeqIs DEF rest
  <2>3. \A i \in 1 .. Len(rest) : start + 1 + i - 1 = start + i
    BY <2>2
  <2> QED BY <1>1, <2>2, <2>3
<1>3. r = IF skip >= Len(rest) THEN store ELSE store \o tail
    BY DEF LogAppend
<1> HIDE DEF rest, skip, off, tail, r
<1>4. CASE skip >= Len(rest)
  <2>1. r = store /\ ~(off < Len(ms))
    BY <1>1, <1>2, <1>3, <1>4
  <2> QED BY <1>1, <2>1 DEF Extends, r, rest, off
<1>5. CASE ~(skip >= Len(rest))
  <2>1. /\ tail \in Seq(Messages) /\ Len(tail) = Len(rest) - skip
        /\ \A i \in 1 .. Len(tail) : tail[i] = rest[skip + i]
    <3> DEFINE from == skip + 1
    <3>1. from \in Nat /\ from >= 1 /\ Len(rest) \in Nat /\ Len(rest) <= Len(rest)
      BY <1>1, <1>2
    <3> HIDE DEF from
    <3>4. /\ SubSeq(rest, from, Len(rest)) \in Seq(Messages)
          /\ Len(SubSeq(rest, from, Len(rest))) = IF from <= Len(rest) THEN Len(rest) - from + 1 ELSE 0
          /\ \A i \in 1 .. Len(SubSeq(rest, from, Len(rest))) :
                SubSeq(rest, from, Len(rest))[i] = rest[from + i - 1]
      <4>1. rest \in Seq(Messages)
        BY <1>2
      <4> QED BY <3>1, <4>1, SubSeqIs
    <3>2. /\ tail \in Seq(Messages)
          /\ Len(tail) = IF skip + 1 <= Len(rest) THEN Len(rest) - (skip + 1) + 1 ELSE 0
          /\ \A i \in 1 .. Len(tail) : tail[i] = rest[skip + 1 + i - 1]
      BY <3>4 DEF tail, from
    <3>3. \A i \in 1 .. Len(tail) : skip + 1 + i - 1 = skip + i
      BY <1>1, <3>2
    <3> QED BY <1>1, <1>2, <1>5, <3>1, <3>2, <3>3 DEF from
  <2>2. r = store \o tail
    BY <1>3, <1>5
  <2>3. /\ r \in Seq(Messages) /\ Len(r) = Len(store) + Len(tail)
        /\ \A i \in 1 .. Len(store) : r[i] = store[i]
        /\ \A i \in 1 .. Len(r) : i > Len(store) => r[i] = tail[i - Len(store)]
    BY <2>1, <2>2, ConcatIs
  <2>4. Len(tail) = Len(ms) - off /\ off < Len(ms)
    BY <1>1, <1>2, <1>5, <2>1
  <2>5. ASSUME NEW j \in 1 .. Len(r), j > Len(store)
        PROVE  j - Len(store) + off \in 1 .. Len(ms) /\ r[j] = ms[j - Len(store) + off]
    <3>0. /\ Len(store) \in Nat /\ Len(rest) \in Nat /\ skip \in Nat /\ off = start + skip /\ j \in Nat
          /\ Len(tail) = Len(rest) - skip /\ Len(r) = Len(store) + Len(tail) /\ j <= Len(r)
      <4>1. Len(rest) \in Nat /\ Len(r) \in Nat
        BY <1>2, <2>3, DomainIs
      <4> QED BY <1>1, <2>1, <2>3, <4>1
    <3>1. j - Len(store) \in 1 .. Len(tail) /\ skip + (j - Len(store)) \in 1 .. Len(rest)
      BY <2>5, <3>0
    <3>2. start + (skip + (j - Len(store))) = j - Len(store) + off
      BY <3>0
    <3>3. r[j] = tail[j - Len(store)] /\ tail[j - Len(store)] = rest[skip + (j - Len(store))]
      BY <2>1, <2>3, <2>5, <3>1
    <3>4. rest[skip + (j - Len(store))] = ms[start + (skip + (j - Len(store)))]
      BY <1>2, <3>1
    <3>5. j - Len(store) + off \in 1 .. Len(ms)
      BY <1>1, <2>1, <2>4, <2>5, <3>1
    <3> QED BY <3>2, <3>3, <3>4, <3>5
  <2> QED BY <1>1, <2>3, <2>4, <2>5 DEF Extends, r, rest, off
<1> QED BY <1>4, <1>5

LEMMA SeedIs ==
    ASSUME store \in Seq(Messages), NEW ms \in Seq(Messages)
    PROVE  Extends(LogAppend(0, ms), ms, Len(store))
<1> DEFINE all == SubSeq(ms, 0 + 1, Len(ms))
<1>1. all = ms
    OBVIOUS
<1>2. Len(ms) \in Nat /\ Len(store) \in Nat
    BY DomainIs
<1>3. Extends(LogAppend(0, all), ms, IF 0 > Len(store) THEN 0 ELSE Len(store))
    BY <1>2, LogAppendIs
<1> HIDE DEF all
<1> QED BY <1>1, <1>2, <1>3

-----------------------------------------------------------------------------
(* Type correctness.                                                       *)

ControlType ==
    /\ mode \in Modes /\ window \in Windows
    /\ at \in [Turns -> Labels]
    /\ then \in [Turns -> {"next", "emit", "suspend", "abort"}]
    /\ persisted \in [Turns -> Nat] /\ round \in [Turns -> 0 .. MaxRounds]
    /\ said \in [Turns -> 0 .. 2 * MaxRounds + 1]
    /\ faults \in 0 .. MaxFaults
    /\ spoilt \in [Turns -> SUBSET Excusable]

SeqType ==
    /\ store \in Seq(Messages)
    /\ msgs \in [Turns -> Seq(Messages)] /\ new \in [Turns -> Seq(Messages)]
    /\ snapshot \in [Turns -> Seq(Messages)]

LEMMA TypeParts == TypeOK <=> ControlType /\ SeqType
<1>1. Labels = Over \cup {"load", "seed", "round", "tools", "persist", "next", "emit", "save", "write"}
    BY DEF Labels, Past
<1> QED BY <1>1 DEF TypeOK, ControlType, SeqType, Excusable

LEMMA HistoryIs ==
    ASSUME ControlType, SeqType
    PROVE  /\ History \in Seq(Messages) /\ Len(History) <= Len(store)
           /\ \A i \in 1 .. Len(History) : History[i] = store[Len(store) - Len(History) + i]
           /\ Len(History) = Len(store) => History = store
<1>1. window \in Nat /\ store \in Seq(Messages) /\ Len(store) \in Nat
    BY PersistenceAssumption DEF ControlType, SeqType
<1>2. CASE window = 0 \/ Len(store) <= window
  <2>1. History = store
    BY <1>2 DEF History
  <2> QED BY <1>1, <2>1
<1>3. CASE ~(window = 0 \/ Len(store) <= window)
  <2> DEFINE a == Len(store) - window + 1
             b == Len(store)
  <2>1. a \in Nat /\ b \in Nat /\ a >= 1 /\ b <= Len(store) /\ a <= b
    BY <1>1, <1>3
  <2>2. History = SubSeq(store, a, b)
    BY <1>3 DEF History
  <2>3. b - a + 1 = window /\ b = Len(store) /\ window < b
    BY <1>1, <1>3
  <2>4. \A i \in Nat : a + i - 1 = b - window + i
    BY <1>1
  <2> HIDE DEF a, b
  <2>5. /\ History \in Seq(Messages) /\ Len(History) = b - a + 1
        /\ \A i \in 1 .. Len(History) : History[i] = store[a + i - 1]
    BY <1>1, <2>1, <2>2, SubSeqIs
  <2>6. Len(History) = window
    BY <2>3, <2>5
  <2> QED BY <1>1, <2>3, <2>4, <2>5, <2>6
<1> QED BY <1>2, <1>3

LEMMA WithoutIs ==
    ASSUME SeqType, NEW t \in Turns, NEW n \in Nat
    PROVE  SubSeq(msgs[t], n + 1, Len(msgs[t])) \in Seq(Messages)
<1> DEFINE a == n + 1
<1>1. a \in Nat /\ a >= 1 /\ msgs[t] \in Seq(Messages)
    BY DEF SeqType
<1>2. Len(msgs[t]) \in Nat /\ Len(msgs[t]) <= Len(msgs[t])
    BY <1>1, DomainIs
<1> HIDE DEF a
<1>3. SubSeq(msgs[t], a, Len(msgs[t])) \in Seq(Messages)
    BY <1>1, <1>2, SubSeqIs
<1> QED BY <1>3 DEF a

LEMMA OwnType == ASSUME SeqType, NEW t \in Turns PROVE Own(t) \in Seq(Messages)
<1> DEFINE loaded == {i \in DOMAIN msgs[t] : msgs[t][i].of # t}
<1>1. msgs[t] \in Seq(Messages) /\ DOMAIN msgs[t] = 1 .. Len(msgs[t]) /\ Len(msgs[t]) \in Nat
    BY DomainIs DEF SeqType
<1>2. IsFiniteSet(1 .. Len(msgs[t]))
    BY <1>1, FS_Interval
<1>3. Cardinality(loaded) \in Nat
    BY <1>1, <1>2, FS_Subset, FS_CardinalityType
<1> HIDE DEF loaded
<1>4. SubSeq(msgs[t], Cardinality(loaded) + 1, Len(msgs[t])) \in Seq(Messages)
    BY <1>3, WithoutIs
<1> QED BY <1>4 DEF Own, Without, loaded

LEMMA SaysType ==
    ASSUME ControlType, SeqType, NEW t \in Turns, NEW kind \in Kinds, Says(t, kind)
    PROVE  /\ Message(t, kind) \in Messages
           /\ msgs' \in [Turns -> Seq(Messages)] /\ Len(msgs'[t]) = Len(msgs[t]) + 1
           /\ \A u \in Turns \ {t} : msgs'[u] = msgs[u] /\ said'[u] = said[u]
           /\ said'[t] = said[t] + 1 /\ DOMAIN said' = Turns
           /\ \A i \in 1 .. Len(msgs[t]) : msgs'[t][i] = msgs[t][i]
           /\ msgs'[t][Len(msgs[t]) + 1] = Message(t, kind)
<1>1. said[t] \in Nat /\ msgs[t] \in Seq(Messages) /\ msgs \in [Turns -> Seq(Messages)]
    BY PersistenceAssumption DEF ControlType, SeqType
<1>2. Message(t, kind) \in Messages
    BY <1>1 DEF Message, Messages
<1> DEFINE m == Message(t, kind)
           q == Append(msgs[t], m)
<1>3. msgs' = [msgs EXCEPT ![t] = q] /\ said' = [said EXCEPT ![t] = @ + 1]
    BY DEF Says
<1> HIDE DEF m
<1>4. /\ q \in Seq(Messages) /\ Len(q) = Len(msgs[t]) + 1
      /\ \A i \in 1 .. Len(msgs[t]) : q[i] = msgs[t][i]
      /\ q[Len(msgs[t]) + 1] = m
    BY <1>1, <1>2, AppendIs DEF m
<1> HIDE DEF q
<1>5. msgs' \in [Turns -> Seq(Messages)] /\ msgs'[t] = q
    BY <1>1, <1>3, <1>4
<1>6. \A u \in Turns \ {t} : msgs'[u] = msgs[u]
    BY <1>1, <1>3
<1>7. /\ \A u \in Turns \ {t} : said'[u] = said[u]
      /\ said'[t] = said[t] + 1 /\ DOMAIN said' = Turns
    BY <1>1, <1>3 DEF ControlType
<1> QED BY <1>2, <1>4, <1>5, <1>6, <1>7 DEF m

\* What the steps write to the store.
LEMMA SeedWrites ==
    ASSUME SeqType, NEW t \in Turns
    PROVE  Extends(LogAppend(0, msgs[t]), msgs[t], Len(store))
BY SeedIs DEF SeqType

LEMMA PersistWrites ==
    ASSUME ControlType, SeqType, NEW t \in Turns, persisted[t] <= Len(msgs[t])
    PROVE  Extends(LogAppend(persisted[t], Unsaved(t)), msgs[t],
                   IF persisted[t] > Len(store) THEN persisted[t] ELSE Len(store))
<1>1. persisted[t] \in Nat /\ msgs[t] \in Seq(Messages) /\ store \in Seq(Messages)
    BY DEF ControlType, SeqType
<1> QED BY <1>1, LogAppendIs DEF Unsaved

LEMMA SeqTypeStep ==
    ASSUME ControlType, SeqType, NEW t \in Turns,
           Send(t) \/ TurnStep(t) \/ \E u \in Turns : Resume(t, u)
    PROVE  SeqType'
<1>1. /\ store \in Seq(Messages) /\ msgs \in [Turns -> Seq(Messages)]
      /\ new \in [Turns -> Seq(Messages)] /\ snapshot \in [Turns -> Seq(Messages)]
    BY DEF SeqType
<1> DEFINE H == Seq(Messages)
<1>2. ASSUME NEW kind \in Kinds, Says(t, kind) PROVE msgs' \in [Turns -> H]
    BY <1>2, SaysType
<1>3. <<>> \in H
    OBVIOUS
<1>4. \A k \in {"user", "calls", "results", "answer"} : k \in Kinds
    BY DEF Kinds
<1>5. CASE Send(t)
    BY <1>1, <1>2, <1>4, <1>5 DEF Send, Starts, SeqType
<1>6. CASE \E u \in Turns : Resume(t, u)
    BY <1>1, <1>2, <1>4, <1>6 DEF Resume, Starts, SeqType
<1>7. CASE Load(t)
  <2>1. History \o msgs[t] \in H
    BY <1>1, HistoryIs, ConcatIs
  <2>2. msgs' \in [Turns -> H]
    <3> HIDE DEF H
    <3> QED BY <1>1, <1>7, <2>1 DEF Load, H
  <2> QED BY <1>1, <1>7, <2>2 DEF Load, SeqType
<1>8. CASE LoadFails(t)
  <2>1. msgs' \in [Turns -> H]
    <3> HIDE DEF H
    <3> QED BY <1>1, <1>3, <1>8 DEF LoadFails, H
  <2> QED BY <1>1, <1>8, <2>1 DEF LoadFails, SeqType
<1>9. CASE PreSeedLog(t)
  <2>1. LogAppend(0, msgs[t]) \in H
    BY SeedWrites DEF Extends
  <2>2. store' \in H
    BY <1>1, <1>9, <2>1 DEF PreSeedLog
  <2> QED BY <1>1, <1>9, <2>2 DEF PreSeedLog, SeqType
<1>10. CASE PreSeedFails(t)
  <2>1. LogAppend(0, msgs[t]) \in H
    BY SeedWrites DEF Extends
  <2>2. store' \in H
    BY <1>1, <1>10, <2>1 DEF PreSeedFails
  <2> QED BY <1>1, <1>10, <2>2 DEF PreSeedFails, SeqType
<1>11. CASE RoundFails(t)
    BY <1>1, <1>11 DEF RoundFails, SeqType
<1>12. CASE ModelAnswers(t)
    BY <1>1, <1>2, <1>4, <1>12 DEF ModelAnswers, SeqType
<1>13. CASE ModelCalls(t)
    BY <1>1, <1>2, <1>4, <1>13 DEF ModelCalls, SeqType
<1>14. CASE ExecuteToolCalls(t)
    BY <1>1, <1>2, <1>4, <1>14 DEF ExecuteToolCalls, SeqType
<1>15. CASE PersistMessages(t)
  <2>1. store' \in H
    <3>1. CASE mode = "log" /\ persisted[t] < Len(msgs[t])
      <4>1. LogAppend(persisted[t], Unsaved(t)) \in H
        BY <1>15, <3>1, PersistWrites DEF PersistMessages, Extends
      <4> QED BY <1>15, <3>1, <4>1 DEF PersistMessages
    <3>2. CASE ~(mode = "log" /\ persisted[t] < Len(msgs[t]))
      BY <1>1, <1>15, <3>2 DEF PersistMessages
    <3> QED BY <3>1, <3>2
  <2> QED BY <1>1, <1>15, <2>1 DEF PersistMessages, SeqType
<1>16. CASE PersistFails(t)
  <2>1. persisted[t] \in Nat /\ Len(msgs[t]) \in Nat
    BY <1>1, DomainIs DEF ControlType
  <2>2. persisted[t] <= Len(msgs[t])
    BY <1>16, <2>1 DEF PersistFails
  <2>3. LogAppend(persisted[t], Unsaved(t)) \in H
    BY <2>2, PersistWrites DEF Extends
  <2>4. store' \in H
    BY <1>1, <1>16, <2>3 DEF PersistFails
  <2> QED BY <1>1, <1>16, <2>4 DEF PersistFails, SeqType
<1>17. CASE PersistPanics(t)
    BY <1>1, <1>17 DEF PersistPanics, SeqType
<1>18. CASE NextRound(t)
  <2>1. CASE UNCHANGED msgs
    BY <1>1, <1>18, <2>1 DEF NextRound, SeqType
  <2>2. CASE \E k \in 1 .. Len(msgs[t]) - Pinned :
                msgs' = [msgs EXCEPT ![t] = SubSeq(@, k + 1, Len(@))]
    <3>1. Len(msgs[t]) \in Nat /\ Pinned \in Nat
      BY <1>1, DomainIs, PersistenceAssumption
    <3>2. PICK k \in 1 .. Len(msgs[t]) - Pinned :
                msgs' = [msgs EXCEPT ![t] = SubSeq(@, k + 1, Len(@))]
      BY <2>2
    <3>3. k \in Nat
      BY <3>1
    <3>4. SubSeq(msgs[t], k + 1, Len(msgs[t])) \in H
      BY <3>3, WithoutIs
    <3>5. msgs' \in [Turns -> H]
      <4> HIDE DEF H
      <4> QED BY <1>1, <3>2, <3>4 DEF H
    <3> QED BY <1>1, <1>18, <3>5 DEF NextRound, SeqType
  <2> QED BY <1>18, <2>1, <2>2 DEF NextRound
<1>19. CASE Emit(t)
  <2>1. Own(t) \in H
    BY OwnType
  <2>2. \A k \in 0 .. Len(Own(t)) : SubSeq(Own(t), 1, k) \in H
    <3> SUFFICES ASSUME NEW k \in 0 .. Len(Own(t)) PROVE SubSeq(Own(t), 1, k) \in H
        OBVIOUS
    <3> DEFINE q == Own(t)
    <3> HIDE DEF q
    <3>1. q \in Seq(Messages) /\ k \in 0 .. Len(q)
      BY <2>1 DEF q
    <3>2. Len(q) \in Nat
      BY <3>1, DomainIs
    <3>3. k \in Nat /\ k <= Len(q)
      BY <3>1, <3>2
    <3>4. SubSeq(q, 1, k) \in Seq(Messages)
      BY <3>1, <3>3, SubSeqIs
    <3> QED BY <3>4 DEF q
  <2>3. new' \in [Turns -> H]
    <3> HIDE DEF H
    <3> QED BY <1>1, <1>19, <2>1, <2>2 DEF Emit, H
  <2> QED BY <1>1, <1>19, <2>3 DEF Emit, SeqType
<1>20. CASE Save(t)
  <2>1. store \o new[t] \in H
    BY <1>1, ConcatIs
  <2>2. store' \in H
    BY <1>1, <1>20, <2>1 DEF Save
  <2>3. snapshot' \in [Turns -> H]
    <3> HIDE DEF H
    <3> QED BY <1>1, <1>20 DEF Save, H
  <2> QED BY <1>1, <1>20, <2>2, <2>3 DEF Save, SeqType
<1>21. CASE FullSave(t)
  <2>1. snapshot[t] \o new[t] \in H
    BY <1>1, ConcatIs
  <2>2. store' \in H
    BY <1>1, <1>21, <2>1 DEF FullSave, Written
  <2> QED BY <1>1, <1>21, <2>2 DEF FullSave, SeqType
<1>22. CASE SaveFails(t)
    BY <1>1, <1>22 DEF SaveFails, SeqType
<1> QED BY <1>5, <1>6, <1>7, <1>8, <1>9, <1>10, <1>11, <1>12, <1>13, <1>14, <1>15, <1>16, <1>17,
           <1>18, <1>19, <1>20, <1>21, <1>22 DEF TurnStep

\* Nothing of another turn changes, except its label: from "suspended" to "done".
Others(t) ==
    \A u \in Turns \ {t} :
        /\ at'[u] = at[u] \/ (at[u] = "suspended" /\ at'[u] = "done")
        /\ then'[u] = then[u] /\ msgs'[u] = msgs[u] /\ persisted'[u] = persisted[u]
        /\ round'[u] = round[u] /\ said'[u] = said[u] /\ new'[u] = new[u]
        /\ snapshot'[u] = snapshot[u]

LEMMA OthersStay ==
    ASSUME ControlType, SeqType, NEW t \in Turns,
           \/ Send(t)
           \/ TurnStep(t) /\ ~PersistPanics(t)
           \/ \E u \in Turns : Resume(t, u)
    PROVE  Others(t)
<1>1. at \in [Turns -> Labels] /\ \A u \in Turns : at[u] = "suspended" => at[u] # "idle"
    BY DEF ControlType
<1>2. CASE Send(t)
    BY <1>2 DEF ControlType, SeqType, Others, Send, Starts, Says, Goes
<1>3. CASE \E u \in Turns : Resume(t, u)
    BY <1>1, <1>3 DEF ControlType, SeqType, Others, Resume, Starts, Says
<1>4. CASE Load(t) \/ LoadFails(t) \/ PreSeedLog(t) \/ PreSeedFails(t) \/ RoundFails(t)
    BY SMTT(40), <1>4 DEF ControlType, SeqType, Others, Load, LoadFails, PreSeedLog, PreSeedFails, RoundFails, Goes
<1>5. CASE ModelAnswers(t) \/ ModelCalls(t) \/ ExecuteToolCalls(t)
    BY SMTT(40), <1>5 DEF ControlType, SeqType, Others, ModelAnswers, ModelCalls, ExecuteToolCalls, Says, Goes
<1>6. CASE PersistMessages(t) \/ PersistFails(t) \/ NextRound(t)
    BY <1>6 DEF ControlType, SeqType, Others, PersistMessages, PersistFails, NextRound, Persisted, Goes
<1>7. CASE Emit(t) \/ Save(t) \/ FullSave(t) \/ SaveFails(t)
    BY <1>7 DEF ControlType, SeqType, Others, Emit, Save, FullSave, SaveFails, Ends, Goes
<1> QED BY <1>2, <1>3, <1>4, <1>5, <1>6, <1>7 DEF TurnStep

LEMMA SaidFrame ==
    ASSUME SaidInv, NEW t \in Turns, Others(t), SaidAt(t)'
    PROVE  SaidInv'
BY DEF SaidInv, SaidAt, Others

LEMMA ControlStep ==
    ASSUME ControlType, SeqType, SaidInv, NEW t \in Turns,
           \/ Send(t)
           \/ TurnStep(t) /\ ~PersistPanics(t)
           \/ \E u \in Turns : Resume(t, u)
    PROVE  ControlType' /\ SaidInv'
<1>1. Others(t)
    BY OthersStay
<1>2. MaxRounds \in Nat \ {0} /\ MaxFaults \in Nat
    BY PersistenceAssumption
<1>3. /\ said[t] \in 0 .. 2 * MaxRounds + 1 /\ round[t] \in 0 .. MaxRounds /\ at[t] \in Labels
      /\ msgs[t] \in Seq(Messages) /\ Len(msgs[t]) \in Nat
    BY DomainIs DEF ControlType, SeqType
<1>4. SaidAt(t)
    BY DEF SaidInv
<1>5. \A fs \in SUBSET Excusable : Spoil(t, fs) => spoilt' \in [Turns -> SUBSET Excusable]
    BY DEF ControlType, Spoil
<1>6. \A l \in Labels : Goes(t, l) => at' \in [Turns -> Labels] /\ at'[t] = l
    BY DEF ControlType, Goes
<1>7. /\ Labels = {"idle", "done", "suspended", "failed", "lost", "panic", "load", "seed", "round",
                   "tools", "persist", "next", "emit", "save", "write"}
      /\ Excusable = {"overlap", "window", "load", "seed", "append", "compact", "cancel", "save", "expired"}
    BY DEF Labels, Over, Past, Excusable
<1>8. Fault => faults' \in 0 .. MaxFaults
    BY <1>2 DEF ControlType, Fault
<1>9. ASSUME NEW kind \in Kinds, Says(t, kind), said[t] + 1 <= 2 * MaxRounds + 1
      PROVE  said' \in [Turns -> 0 .. 2 * MaxRounds + 1] /\ said'[t] = said[t] + 1
             /\ Len(msgs'[t]) = Len(msgs[t]) + 1
  <2>1. said'[t] = said[t] + 1 /\ Len(msgs'[t]) = Len(msgs[t]) + 1
    BY <1>9, SaysType
  <2>2. said' = [said EXCEPT ![t] = @ + 1] /\ said \in [Turns -> 0 .. 2 * MaxRounds + 1]
    BY <1>9 DEF Says, ControlType
  <2>3. said[t] + 1 \in 0 .. 2 * MaxRounds + 1
    BY <1>2, <1>3, <1>9
  <2> QED BY <2>1, <2>2, <2>3
<1>10. \A k \in {"user", "calls", "results", "answer"} : k \in Kinds
    BY DEF Kinds
<1>11. CASE Send(t) \/ \E u \in Turns : Resume(t, u)
  <2>1. at[t] = "idle" /\ said[t] = 0 /\ msgs[t] = <<>>
    BY <1>4, <1>11 DEF Send, Resume, Starts, SaidAt
  <2>2. PICK kind \in Kinds : Starts(t, kind)
    BY <1>10, <1>11 DEF Send, Resume
  <2>3. /\ said' \in [Turns -> 0 .. 2 * MaxRounds + 1] /\ said'[t] = said[t] + 1
        /\ Len(msgs'[t]) = Len(msgs[t]) + 1
    BY <1>2, <1>9, <2>1, <2>2 DEF Starts
  <2>4. at' \in [Turns -> Labels] /\ at'[t] = "load"
    <3>1. CASE Send(t)
      BY <1>6, <1>7, <3>1 DEF Send
    <3>2. CASE \E u \in Turns : Resume(t, u)
      BY <1>7, <2>1, <3>2 DEF Resume, ControlType
    <3> QED BY <1>11, <3>1, <3>2
  <2>5. faults' \in 0 .. MaxFaults /\ spoilt' \in [Turns -> SUBSET Excusable]
    BY <1>7, <1>8, <2>2 DEF Starts, ControlType
  <2>6. ControlType'
    BY <2>2, <2>3, <2>4, <2>5 DEF Starts, ControlType, config
  <2>7. round'[t] = 0 /\ then'[t] = "next" /\ persisted'[t] = 0
    BY <1>4, <2>1, <2>2 DEF Starts, SaidAt
  <2> QED BY <1>1, <2>1, <2>3, <2>4, <2>6, <2>7, SaidFrame DEF SaidAt
<1>12. CASE Load(t)
  <2>1. at[t] = "load" /\ at' \in [Turns -> Labels] /\ at'[t] = "seed"
    BY <1>6, <1>7, <1>12 DEF Load
  <2>2. spoilt' \in [Turns -> SUBSET Excusable]
    BY <1>5, <1>7, <1>12 DEF Load
  <2>3. Len(msgs'[t]) \in Nat
    BY <1>12, SeqTypeStep, DomainIs DEF TurnStep, SeqType
  <2>4. ControlType'
    BY <1>12, <2>1, <2>2, <2>3 DEF Load, ControlType, config
  <2>5. persisted'[t] = Len(msgs'[t])
    BY <1>12 DEF Load, ControlType
  <2> QED BY <1>1, <1>4, <1>12, <2>1, <2>4, <2>5, SaidFrame DEF Load, SaidAt
<1>13. CASE LoadFails(t)
  <2>1. at[t] = "load" /\ at' \in [Turns -> Labels] /\ at'[t] = "seed"
    BY <1>6, <1>7, <1>13 DEF LoadFails
  <2>2. ControlType'
    BY <1>5, <1>7, <1>8, <1>13, <2>1 DEF LoadFails, ControlType, config
  <2>3. persisted'[t] = 0 /\ Len(msgs'[t]) = 0
    BY <1>4, <1>13, <2>1 DEF LoadFails, SeqType, SaidAt
  <2> QED BY <1>1, <1>4, <1>13, <2>1, <2>2, <2>3, SaidFrame DEF LoadFails, SaidAt
<1>14. CASE PreSeedLog(t)
  <2>1. at[t] = "seed" /\ at' \in [Turns -> Labels] /\ at'[t] = "round"
    BY <1>6, <1>7, <1>14 DEF PreSeedLog
  <2>2. NewTotal(0, msgs[t]) \in Nat
    BY SeedWrites, DomainIs DEF NewTotal, Extends
  <2>3. persisted' \in [Turns -> Nat]
    BY <1>14, <2>2 DEF PreSeedLog, ControlType
  <2>4. round' \in [Turns -> 0 .. MaxRounds] /\ round'[t] = 1
    BY <1>2, <1>14 DEF PreSeedLog, ControlType
  <2>5. ControlType'
    BY <1>14, <2>1, <2>3, <2>4 DEF PreSeedLog, ControlType, config
  <2> QED BY <1>1, <1>4, <1>14, <2>1, <2>4, <2>5, SaidFrame DEF PreSeedLog, SaidAt
<1>15. CASE PreSeedFails(t)
  <2>1. at[t] = "seed" /\ at' \in [Turns -> Labels] /\ at'[t] = "round"
    BY <1>6, <1>7, <1>15 DEF PreSeedFails
  <2>2. round' \in [Turns -> 0 .. MaxRounds] /\ round'[t] = 1
    BY <1>2, <1>15 DEF PreSeedFails, ControlType
  <2>3. ControlType'
    BY <1>5, <1>7, <1>8, <1>15, <2>1, <2>2 DEF PreSeedFails, ControlType, config
  <2> QED BY <1>1, <1>4, <1>15, <2>1, <2>2, <2>3, SaidFrame DEF PreSeedFails, SaidAt
<1>16. CASE RoundFails(t)
  <2>1. at' \in [Turns -> Labels] /\ at'[t] = "failed"
    BY <1>6, <1>7, <1>16 DEF RoundFails
  <2>2. ControlType'
    BY <1>16, <2>1 DEF RoundFails, ControlType, config
  <2> QED BY <1>1, <2>1, <2>2, SaidFrame DEF SaidAt
<1>17. CASE ModelAnswers(t)
  <2>1. at[t] = "round" /\ at' \in [Turns -> Labels] /\ at'[t] = "persist"
    BY <1>6, <1>7, <1>17 DEF ModelAnswers
  <2>2. said' \in [Turns -> 0 .. 2 * MaxRounds + 1] /\ said'[t] <= 2 * round'[t] + 1
    BY <1>2, <1>3, <1>4, <1>9, <1>10, <1>17, <2>1 DEF ModelAnswers, SaidAt
  <2>3. ControlType'
    BY <1>17, <2>1, <2>2 DEF ModelAnswers, ControlType, config
  <2> QED BY <1>1, <2>1, <2>2, <2>3, SaidFrame DEF SaidAt
<1>18. CASE ModelCalls(t)
  <2>1. at[t] = "round" /\ said[t] <= 2 * round[t] - 1 /\ then[t] = "next" /\ Says(t, "calls")
    BY <1>4, <1>18 DEF ModelCalls, SaidAt
  <2>2. said' \in [Turns -> 0 .. 2 * MaxRounds + 1] /\ said'[t] = said[t] + 1
    BY <1>2, <1>3, <1>9, <1>10, <2>1
  <2>3. at' \in [Turns -> Labels] /\ at'[t] \in {"tools", "persist"}
    BY <1>6, <1>7, <1>18 DEF ModelCalls
  <2>4. then' \in [Turns -> {"next", "emit", "suspend", "abort"}]
        /\ (at'[t] = "tools" => then'[t] = "next")
    BY <1>6, <1>7, <1>18, <2>1 DEF ModelCalls, ControlType
  <2>5. ControlType'
    BY <1>18, <2>2, <2>3, <2>4 DEF ModelCalls, ControlType, config
  <2>6. said'[t] <= 2 * round'[t] /\ said'[t] <= 2 * round'[t] + 1
    BY <1>3, <1>18, <2>1, <2>2 DEF ModelCalls
  <2> QED BY <1>1, <2>3, <2>4, <2>5, <2>6, SaidFrame DEF SaidAt
<1>19. CASE ExecuteToolCalls(t)
  <2>1. at[t] = "tools" /\ said[t] <= 2 * round[t]
    BY <1>4, <1>19 DEF ExecuteToolCalls, SaidAt
  <2>2. said' \in [Turns -> 0 .. 2 * MaxRounds + 1] /\ said'[t] <= 2 * round[t] + 1
    <3>1. CASE Says(t, "results")
      BY <1>2, <1>3, <1>9, <1>10, <2>1, <3>1
    <3>2. CASE UNCHANGED said
      BY <1>3, <2>1, <3>2 DEF ControlType
    <3> QED BY <1>19, <3>1, <3>2 DEF ExecuteToolCalls
  <2>3. at' \in [Turns -> Labels] /\ at'[t] \in {"persist", "failed"}
    BY <1>6, <1>7, <1>19 DEF ExecuteToolCalls
  <2>4. then' \in [Turns -> {"next", "emit", "suspend", "abort"}]
    BY <1>19 DEF ExecuteToolCalls, ControlType
  <2>5. ControlType'
    BY <1>19, <2>2, <2>3, <2>4 DEF ExecuteToolCalls, ControlType, config
  <2> QED BY <1>1, <1>19, <2>2, <2>3, <2>5, SaidFrame DEF ExecuteToolCalls, SaidAt
<1>20. CASE PersistMessages(t)
  <2>1. at[t] = "persist" /\ at' \in [Turns -> Labels] /\ at'[t] \in {"next", "failed", "emit"}
        /\ (at'[t] = "next" => then[t] = "next")
    BY <1>6, <1>7, <1>20 DEF PersistMessages, Persisted
  <2>2. persisted' \in [Turns -> Nat]
    <3>1. CASE mode = "log" /\ persisted[t] < Len(msgs[t])
      <4>1. NewTotal(persisted[t], Unsaved(t)) \in Nat
        BY <1>20, <3>1, PersistWrites, DomainIs DEF PersistMessages, Extends, NewTotal
      <4> QED BY <1>20, <3>1, <4>1 DEF PersistMessages, ControlType
    <3>2. CASE ~(mode = "log" /\ persisted[t] < Len(msgs[t]))
      BY <1>20, <3>2 DEF PersistMessages, ControlType
    <3> QED BY <3>1, <3>2
  <2>3. spoilt' \in [Turns -> SUBSET Excusable]
    BY <1>20 DEF PersistMessages, ControlType
  <2>4. ControlType'
    BY <1>20, <2>1, <2>2, <2>3 DEF PersistMessages, ControlType, config
  <2> QED BY <1>1, <1>4, <1>20, <2>1, <2>4, SaidFrame DEF PersistMessages, SaidAt
<1>21. CASE PersistFails(t)
  <2>1. at[t] = "persist" /\ at' \in [Turns -> Labels] /\ at'[t] \in {"next", "failed", "emit"}
        /\ (at'[t] = "next" => then[t] = "next")
    BY <1>6, <1>7, <1>21 DEF PersistFails, Persisted
  <2>2. ControlType'
    BY <1>5, <1>7, <1>8, <1>21, <2>1 DEF PersistFails, ControlType, config
  <2> QED BY <1>1, <1>4, <1>21, <2>1, <2>2, SaidFrame DEF PersistFails, SaidAt
<1>22. CASE NextRound(t)
  <2>1. at[t] = "next" /\ then[t] = "next" /\ said[t] <= 2 * round[t] + 1
    BY <1>4, <1>22 DEF NextRound, SaidAt
  <2>2. /\ at' \in [Turns -> Labels] /\ round' \in [Turns -> 0 .. MaxRounds]
        /\ at'[t] = "failed" \/ (at'[t] = "round" /\ round'[t] = round[t] + 1)
    <3>1. CASE LastRound(t)
      BY <1>6, <1>7, <1>22, <3>1 DEF NextRound, ControlType
    <3>2. CASE ~LastRound(t)
      <4>1. round[t] + 1 \in 0 .. MaxRounds
        BY <1>2, <1>3, <3>2 DEF LastRound
      <4> QED BY <1>6, <1>7, <1>22, <3>2, <4>1 DEF NextRound, ControlType
    <3> QED BY <3>1, <3>2
  <2>3. spoilt' \in [Turns -> SUBSET Excusable] /\ faults' \in 0 .. MaxFaults
    BY <1>5, <1>7, <1>8, <1>22 DEF NextRound, ControlType
  <2>4. ControlType'
    BY <1>22, <2>2, <2>3 DEF NextRound, ControlType, config
  <2>5. at'[t] = "round" => said'[t] <= 2 * round'[t] - 1
    BY <1>3, <1>22, <2>1, <2>2 DEF NextRound
  <2> QED BY <1>1, <1>22, <2>1, <2>2, <2>4, <2>5, SaidFrame DEF NextRound, SaidAt
<1>23. CASE Emit(t)
  <2>1. at' \in [Turns -> Labels] /\ at'[t] = "save"
    BY <1>6, <1>7, <1>23 DEF Emit
  <2>2. spoilt' \in [Turns -> SUBSET Excusable] /\ faults' \in 0 .. MaxFaults
    BY <1>5, <1>7, <1>8, <1>23 DEF Emit, ControlType
  <2>3. ControlType'
    BY <1>23, <2>1, <2>2 DEF Emit, ControlType, config
  <2> QED BY <1>1, <2>1, <2>3, SaidFrame DEF SaidAt
<1>24. CASE Save(t) \/ FullSave(t) \/ SaveFails(t)
  <2>1. at' \in [Turns -> Labels] /\ at'[t] \in {"write", "suspended", "done"}
    BY <1>6, <1>7, <1>24 DEF Save, FullSave, SaveFails, Ends
  <2>2. spoilt' \in [Turns -> SUBSET Excusable] /\ faults' \in 0 .. MaxFaults
    BY <1>5, <1>7, <1>8, <1>24 DEF Save, FullSave, SaveFails, ControlType
  <2>3. ControlType'
    BY <1>24, <2>1, <2>2 DEF Save, FullSave, SaveFails, ControlType, config
  <2> QED BY <1>1, <2>1, <2>3, SaidFrame DEF SaidAt
<1> QED BY <1>11, <1>12, <1>13, <1>14, <1>15, <1>16, <1>17, <1>18, <1>19, <1>20, <1>21, <1>22,
           <1>23, <1>24 DEF TurnStep

\* The steps that end every turn under way, and the end of the store.
LEMMA WorldStep ==
    ASSUME ControlType, SeqType, SaidInv,
           Crash \/ Expires \/ \E t \in Turns : PersistPanics(t)
    PROVE  /\ ControlType' /\ SeqType' /\ SaidInv'
           /\ \A u \in Turns : at'[u] = at[u] \/ (at[u] \notin Over /\ at'[u] \in {"lost", "panic"})
           /\ UNCHANGED <<config, then, msgs, persisted, round, said, new, snapshot>>
<1>1. /\ Labels = {"idle", "done", "suspended", "failed", "lost", "panic", "load", "seed", "round",
                   "tools", "persist", "next", "emit", "save", "write"}
      /\ Over = {"idle", "done", "suspended", "failed", "lost", "panic"}
    BY DEF Labels, Over, Past
<1>2. \A u \in Turns : at'[u] = at[u] \/ (at[u] \notin Over /\ at'[u] \in {"lost", "panic"})
  <2>1. CASE Crash
    BY <1>1, <2>1 DEF Crash, Active
  <2>2. CASE Expires
    BY <2>2 DEF Expires
  <2>3. CASE \E t \in Turns : PersistPanics(t)
    BY <1>1, <2>3 DEF PersistPanics, Active
  <2> QED BY <2>1, <2>2, <2>3
<1>3. UNCHANGED <<config, then, msgs, persisted, round, said, new, snapshot>>
    BY DEF Crash, Expires, PersistPanics
<1>4. at' \in [Turns -> Labels]
  <2>1. CASE Crash
    BY <1>1, <2>1 DEF Crash, ControlType
  <2>2. CASE Expires
    BY <2>2 DEF Expires, ControlType
  <2>3. CASE \E t \in Turns : PersistPanics(t)
    BY <1>1, <2>3 DEF PersistPanics, ControlType
  <2> QED BY <2>1, <2>2, <2>3
<1>5. faults' \in 0 .. MaxFaults
    BY SMTT(40), PersistenceAssumption DEF Crash, Expires, PersistPanics, Fault, ControlType
<1>6. spoilt' \in [Turns -> SUBSET Excusable]
  <2>1. spoilt \in [Turns -> SUBSET Excusable] /\ "expired" \in Excusable
    BY DEF ControlType, Excusable
  <2>2. CASE Expires
    BY <2>1, <2>2 DEF Expires
  <2>3. CASE UNCHANGED spoilt
    BY <2>1, <2>3
  <2> QED BY <2>2, <2>3 DEF Crash, PersistPanics
<1>7. ControlType'
    BY <1>3, <1>4, <1>5, <1>6 DEF ControlType, config
<1>8. store' \in Seq(Messages)
  <2>1. store' = store \/ store' = <<>>
    BY DEF Crash, Expires, PersistPanics
  <2>2. <<>> \in Seq(Messages) /\ store \in Seq(Messages)
    BY DEF SeqType
  <2> QED BY <2>1, <2>2, Zenon
<1>9. SeqType'
    BY <1>3, <1>8 DEF SeqType
<1>10. ASSUME NEW u \in Turns PROVE SaidAt(u)'
  <2>1. /\ SaidAt(u) /\ msgs'[u] = msgs[u] /\ said'[u] = said[u] /\ round'[u] = round[u]
        /\ then'[u] = then[u] /\ persisted'[u] = persisted[u]
    BY <1>3 DEF SaidInv
  <2>2. CASE at'[u] = at[u]
    BY <2>1, <2>2 DEF SaidAt
  <2>3. CASE at'[u] \in {"lost", "panic"}
    BY <2>3 DEF SaidAt
  <2> QED BY <1>2, <2>2, <2>3
<1> QED BY <1>2, <1>3, <1>7, <1>9, <1>10 DEF SaidInv

\* What went wrong for a turn stays known, but for an append that is made up.
LEMMA SpoiltGrows ==
    ASSUME ControlType, Next
    PROVE  \A u \in Turns : spoilt[u] \ {"append"} \subseteq spoilt'[u]
<1>1. spoilt \in [Turns -> SUBSET Excusable]
    BY DEF ControlType
<1>2. CASE Crash \/ Expires
    BY <1>2 DEF Crash, Expires
<1>3. ASSUME NEW t \in Turns,
             Send(t) \/ TurnStep(t) \/ \E u \in Turns : Resume(t, u)
      PROVE  \A u \in Turns : spoilt[u] \ {"append"} \subseteq spoilt'[u]
  <2>1. CASE Send(t) \/ \E u \in Turns : Resume(t, u)
    BY <2>1 DEF Send, Resume, Starts
  <2>2. \A fs : Spoil(t, fs) => \A u \in Turns : spoilt[u] \ {"append"} \subseteq spoilt'[u]
    BY <1>1 DEF Spoil
  <2>3. CASE PersistMessages(t)
    BY <1>1, <2>3 DEF PersistMessages
  <2>4. CASE Load(t) \/ LoadFails(t) \/ PreSeedLog(t) \/ PreSeedFails(t) \/ RoundFails(t)
    BY <2>2, <2>4 DEF Load, LoadFails, PreSeedLog, PreSeedFails, RoundFails
  <2>5. CASE ModelAnswers(t) \/ ModelCalls(t) \/ ExecuteToolCalls(t) \/ PersistFails(t) \/ PersistPanics(t)
    BY <2>2, <2>5 DEF ModelAnswers, ModelCalls, ExecuteToolCalls, PersistFails, PersistPanics
  <2>6. CASE NextRound(t) \/ Emit(t) \/ Save(t) \/ FullSave(t) \/ SaveFails(t)
    BY <2>2, <2>6 DEF NextRound, Emit, Save, FullSave, SaveFails
  <2> QED BY <1>3, <2>1, <2>3, <2>4, <2>5, <2>6 DEF TurnStep
<1> QED BY <1>2, <1>3 DEF Next

\* The labels a turn goes through: it begins at "load", and never begins again.
LEMMA LabelsMove ==
    ASSUME ControlType, NEW t \in Turns, TurnStep(t), ~PersistPanics(t)
    PROVE  /\ at[t] \in Past \cup {"load"}
           /\ at'[t] \in Past \cup {"failed", "done", "suspended"}
           /\ at' = [at EXCEPT ![t] = at'[t]]
<1>1. at \in [Turns -> Labels]
    BY DEF ControlType
<1>2. \A l : Goes(t, l) => at'[t] = l /\ at' = [at EXCEPT ![t] = at'[t]]
    BY <1>1 DEF Goes
<1>3. CASE Load(t) \/ LoadFails(t) \/ PreSeedLog(t) \/ PreSeedFails(t) \/ RoundFails(t)
    BY <1>2, <1>3 DEF Past, Load, LoadFails, PreSeedLog, PreSeedFails, RoundFails
<1>4. CASE ModelAnswers(t) \/ ModelCalls(t) \/ ExecuteToolCalls(t) \/ PersistMessages(t) \/ PersistFails(t)
    BY <1>2, <1>4 DEF Past, ModelAnswers, ModelCalls, ExecuteToolCalls, PersistMessages, PersistFails, Persisted
<1>5. CASE NextRound(t) \/ Emit(t) \/ Save(t) \/ FullSave(t) \/ SaveFails(t)
    BY <1>2, <1>5 DEF Past, NextRound, Emit, Save, FullSave, SaveFails, Ends
<1> QED BY <1>3, <1>4, <1>5 DEF TurnStep

LEMMA OverlapStep ==
    ASSUME ControlType, SeqType, OverlapInv, Next PROVE OverlapInv'
<1>1. ASSUME Active' \subseteq Active PROVE OverlapInv'
    BY <1>1, SpoiltGrows DEF OverlapInv, Active
<1>2. Past \cap Over = {} /\ "load" \notin Over
    BY DEF Past, Over
<1>3. CASE Crash \/ Expires
  <2>1. Active' \subseteq Active
    BY <1>3 DEF Crash, Expires, Active
  <2> QED BY <1>1, <2>1
<1>4. ASSUME NEW t \in Turns, TurnStep(t) PROVE OverlapInv'
  <2>1. CASE PersistPanics(t)
    <3>1. Active' \subseteq Active
      BY <2>1 DEF PersistPanics, Active, Over
    <3> QED BY <1>1, <3>1
  <2>2. CASE ~PersistPanics(t)
    <3>1. Active' \subseteq Active
      BY <1>2, <1>4, <2>2, LabelsMove DEF Active, ControlType
    <3> QED BY <1>1, <3>1
  <2> QED BY <2>1, <2>2
<1>5. ASSUME NEW t \in Turns, NEW kind, Starts(t, kind),
             Send(t) \/ \E u \in Turns : Resume(t, u)
      PROVE  OverlapInv'
  <2>1. Active' \subseteq Active \cup {t}
    <3>1. at \in [Turns -> Labels] /\ "done" \in Over
      BY DEF ControlType, Over
    <3> QED BY <1>5, <3>1 DEF Active, Send, Resume, Goes
  <2>2. CASE Active = {}
    BY <2>1, <2>2 DEF OverlapInv
  <2>3. CASE Active # {}
    <3>1. \A u \in Active \cup {t} : "overlap" \in spoilt'[u]
      BY <1>5, <2>3 DEF Starts, Active
    <3> QED BY <2>1, <3>1 DEF OverlapInv
  <2> QED BY <2>2, <2>3
<1> QED BY <1>3, <1>4, <1>5 DEF Next, Send, Resume

LEMMA TypeInit == Init => ControlType /\ SeqType /\ SaidInv /\ OverlapInv
<1> SUFFICES ASSUME Init PROVE ControlType /\ SeqType /\ SaidInv /\ OverlapInv
    OBVIOUS
<1>1. ControlType
    BY PersistenceAssumption DEF Init, ControlType, Labels, Over
<1>2. <<>> \in Seq(Messages)
    OBVIOUS
<1>3. SeqType
    BY <1>2 DEF Init, SeqType
<1>4. SaidInv /\ OverlapInv
    BY DEF Init, SaidInv, SaidAt, OverlapInv, Active, Over
<1> QED BY <1>1, <1>3, <1>4

\* The types, for the proofs that follow.
Typed == ControlType /\ SeqType /\ SaidInv /\ OverlapInv

LEMMA TypedStep == ASSUME Typed, [Next]_vars PROVE Typed'
<1>1. CASE UNCHANGED vars
  <2>1. UNCHANGED <<mode, window, store, at, then, msgs, persisted, round, said, new, snapshot, spoilt, faults>>
    BY <1>1 DEF vars, config
  <2> QED BY <2>1 DEF Typed, ControlType, SeqType, SaidInv, SaidAt, OverlapInv, Active
<1>2. CASE Crash \/ Expires
    BY <1>2, WorldStep, OverlapStep DEF Typed, Next
<1>3. ASSUME NEW t \in Turns, Send(t) \/ TurnStep(t) \/ \E u \in Turns : Resume(t, u)
      PROVE  Typed'
  <2>1. OverlapInv'
    BY <1>3, OverlapStep DEF Typed, Next
  <2>2. CASE PersistPanics(t)
    BY <2>1, <2>2, WorldStep DEF Typed
  <2>3. CASE ~PersistPanics(t)
    BY <1>3, <2>1, <2>3, ControlStep, SeqTypeStep DEF Typed
  <2> QED BY <2>2, <2>3
<1> QED BY <1>1, <1>2, <1>3 DEF Next

\* Type correctness: every variable holds what the code can put there, and the
\* tool loop keeps to its rounds (stages_provider.go, toolPolicy.MaxRounds).
THEOREM TypeIsCorrect == Spec => []TypeOK
<1>1. Init => Typed
    BY TypeInit DEF Typed
<1>2. Typed /\ [Next]_vars => Typed'
    BY TypedStep
<1>3. Typed => TypeOK
    BY TypeParts DEF Typed
<1> QED BY <1>1, <1>2, <1>3, PTL DEF Spec

-----------------------------------------------------------------------------
(* What a turn has in its hands is what turns have said.                   *)

LEMMA Lengths ==
    ASSUME SeqType
    PROVE  /\ DOMAIN store = 1 .. Len(store) /\ Len(store) \in Nat
           /\ \A i \in 1 .. Len(store) : store[i] \in Messages
           /\ \A t \in Turns :
                 /\ DOMAIN msgs[t] = 1 .. Len(msgs[t]) /\ Len(msgs[t]) \in Nat
                 /\ \A i \in 1 .. Len(msgs[t]) : msgs[t][i] \in Messages
                 /\ DOMAIN new[t] = 1 .. Len(new[t]) /\ Len(new[t]) \in Nat
                 /\ \A i \in 1 .. Len(new[t]) : new[t][i] \in Messages
                 /\ DOMAIN snapshot[t] = 1 .. Len(snapshot[t]) /\ Len(snapshot[t]) \in Nat
                 /\ \A i \in 1 .. Len(snapshot[t]) : snapshot[t][i] \in Messages
<1>1. \A q \in Seq(Messages) : /\ DOMAIN q = 1 .. Len(q) /\ Len(q) \in Nat
                               /\ \A i \in 1 .. Len(q) : q[i] \in Messages
    OBVIOUS
<1>2. store \in Seq(Messages)
      /\ \A t \in Turns : msgs[t] \in Seq(Messages) /\ new[t] \in Seq(Messages) /\ snapshot[t] \in Seq(Messages)
    BY DEF SeqType
<1> QED BY <1>1, <1>2

LEMMA MessageFields ==
    ASSUME NEW m \in Messages PROVE m.of \in Turns /\ m.n \in Nat /\ m.n >= 1
BY DEF Messages

LEMMA SaidType == ASSUME ControlType, NEW t \in Turns PROVE said[t] \in Nat /\ at[t] \in Labels
BY PersistenceAssumption DEF ControlType

\* A turn only says more.
LEMMA SaidGrows ==
    ASSUME Typed, Next
    PROVE  \A u \in Turns : said'[u] \in Nat /\ said[u] <= said'[u]
<1>1. ControlType /\ SeqType /\ ControlType'
    BY TypedStep DEF Typed
<1>2. \A u \in Turns : said[u] \in Nat /\ said'[u] \in Nat
    BY <1>1, PersistenceAssumption DEF ControlType
<1>3. ASSUME NEW t \in Turns, NEW kind \in Kinds, Says(t, kind)
      PROVE  \A u \in Turns : said[u] <= said'[u]
  <2>1. said'[t] = said[t] + 1 /\ \A u \in Turns \ {t} : said'[u] = said[u]
    BY <1>1, <1>3, SaysType
  <2> QED BY <1>2, <2>1
<1>4. \A k \in {"user", "calls", "results", "answer"} : k \in Kinds
    BY DEF Kinds
<1>5. ASSUME UNCHANGED said PROVE \A u \in Turns : said[u] <= said'[u]
    BY <1>2, <1>5
<1>6. \A t \in Turns : Send(t) \/ (\E u \in Turns : Resume(t, u)) => \E k \in Kinds : Says(t, k)
    BY <1>4, Zenon DEF Send, Resume, Starts
<1>7. \A t \in Turns : TurnStep(t) => UNCHANGED said \/ \E k \in Kinds : Says(t, k)
  <2> SUFFICES ASSUME NEW t \in Turns, TurnStep(t) PROVE UNCHANGED said \/ \E k \in Kinds : Says(t, k)
      OBVIOUS
  <2>1. CASE ModelAnswers(t) \/ ModelCalls(t) \/ ExecuteToolCalls(t)
    BY <1>4, <2>1 DEF ModelAnswers, ModelCalls, ExecuteToolCalls
  <2>2. CASE Load(t) \/ LoadFails(t) \/ PreSeedLog(t) \/ PreSeedFails(t) \/ RoundFails(t)
             \/ PersistMessages(t) \/ PersistFails(t) \/ PersistPanics(t)
    BY <2>2 DEF Load, LoadFails, PreSeedLog, PreSeedFails, RoundFails, PersistMessages, PersistFails, PersistPanics
  <2>3. CASE NextRound(t) \/ Emit(t) \/ Save(t) \/ FullSave(t) \/ SaveFails(t)
    BY <2>3 DEF NextRound, Emit, Save, FullSave, SaveFails
  <2> QED BY <2>1, <2>2, <2>3 DEF TurnStep
<1>8. Crash \/ Expires => UNCHANGED said
    BY DEF Crash, Expires
<1> QED BY <1>2, <1>3, <1>5, <1>6, <1>7, <1>8 DEF Next

\* No turn goes back before its load.
LEMMA LoadedStays ==
    ASSUME Typed, Next, NEW u \in Turns, at[u] \notin {"idle", "load"}
    PROVE  at'[u] \notin {"idle", "load"}
<1>1. ControlType /\ SeqType
    BY DEF Typed
<1>2. CASE Crash \/ Expires \/ \E t \in Turns : PersistPanics(t)
    BY <1>2, WorldStep DEF Typed
<1>3. ASSUME NEW t \in Turns, ~PersistPanics(t), TurnStep(t) PROVE at'[u] \notin {"idle", "load"}
  <2>1. CASE u = t
    BY <1>1, <1>3, <2>1, LabelsMove DEF Past
  <2>2. CASE u # t
    BY <1>1, <1>3, <2>2, OthersStay DEF Others
  <2> QED BY <2>1, <2>2
<1>4. ASSUME NEW t \in Turns, Send(t) \/ \E v \in Turns : Resume(t, v)
      PROVE at'[u] \notin {"idle", "load"}
  <2>1. u # t
    BY <1>4 DEF Send, Resume, Starts
  <2> QED BY <1>1, <1>4, <2>1, OthersStay DEF Others
<1> QED BY <1>2, <1>3, <1>4 DEF Next

LEMMA KnownStays ==
    ASSUME Typed, Next, NEW m \in Messages, Known(m)
    PROVE  Known(m)'
<1>1. m.of \in Turns /\ m.n \in Nat /\ said[m.of] \in Nat
    BY MessageFields, SaidType DEF Typed
<1>2. said'[m.of] \in Nat /\ said[m.of] <= said'[m.of]
    BY <1>1, SaidGrows
<1>3. at'[m.of] \notin {"idle", "load"}
    BY <1>1, LoadedStays DEF Known
<1> QED BY <1>1, <1>2, <1>3 DEF Known

LEMMA HandsKnown ==
    ASSUME Typed, NEW t \in Turns, MsgsAt(t), at[t] \notin {"idle", "load"}
    PROVE  \A i \in 1 .. Len(msgs[t]) : Known(msgs[t][i])
<1>1. said[t] \in Nat /\ Len(msgs[t]) \in Nat /\ DOMAIN msgs[t] = 1 .. Len(msgs[t])
    BY SaidType, Lengths DEF Typed
<1> QED BY <1>1 DEF MsgsAt, Known

\* The save stage collects the tail of a turn's own messages.
LEMMA OwnIs ==
    ASSUME Typed, NEW t \in Turns, MsgsAt(t)
    PROVE  /\ Own(t) \in Seq(Messages) /\ Len(Own(t)) <= Len(msgs[t]) /\ Len(Own(t)) <= said[t]
           /\ said[t] <= Len(msgs[t]) => Len(Own(t)) = said[t]
           /\ \A i \in 1 .. Len(Own(t)) :
                 Own(t)[i].of = t /\ Own(t)[i].n = said[t] - Len(Own(t)) + i
<1>1. /\ said[t] \in Nat /\ Len(msgs[t]) \in Nat /\ DOMAIN msgs[t] = 1 .. Len(msgs[t])
      /\ msgs[t] \in Seq(Messages)
    BY SaidType, Lengths DEF Typed, SeqType
<1> DEFINE c == IF said[t] <= Len(msgs[t]) THEN Len(msgs[t]) - said[t] ELSE 0
           loaded == {i \in DOMAIN msgs[t] : msgs[t][i].of # t}
           a == c + 1
<1>2. c \in Nat /\ c <= Len(msgs[t]) /\ a \in Nat /\ a >= 1
    BY <1>1
<1>3. loaded = 1 .. c
    BY <1>1 DEF MsgsAt
<1>4. Cardinality(1 .. c) = IF 1 > c THEN 0 ELSE c - 1 + 1
  <2> HIDE DEF c
  <2> QED BY <1>2, FS_Interval
<1>5. Cardinality(loaded) = c
  <2> HIDE DEF c, loaded
  <2> QED BY <1>2, <1>3, <1>4
<1>6. Own(t) = SubSeq(msgs[t], a, Len(msgs[t]))
  <2> HIDE DEF c
  <2> QED BY <1>5 DEF Own, Without
<1>7. Len(msgs[t]) - c <= said[t] /\ (said[t] <= Len(msgs[t]) => Len(msgs[t]) - c = said[t])
    BY <1>1
<1>8. \A i \in 1 .. Len(msgs[t]) - c :
         /\ a + i - 1 \in DOMAIN msgs[t] /\ a + i - 1 > Len(msgs[t]) - said[t]
         /\ said[t] - Len(msgs[t]) + (a + i - 1) = said[t] - (Len(msgs[t]) - c) + i
    BY SMTT(40), <1>1
<1> HIDE DEF a
<1>9. /\ Own(t) \in Seq(Messages)
      /\ Len(Own(t)) = IF a <= Len(msgs[t]) THEN Len(msgs[t]) - a + 1 ELSE 0
      /\ \A i \in 1 .. Len(Own(t)) : Own(t)[i] = msgs[t][a + i - 1]
    BY <1>1, <1>2, <1>6, SubSeqIs
<1>10. Len(Own(t)) = Len(msgs[t]) - c
    BY <1>1, <1>2, <1>9 DEF a
<1> HIDE DEF c
<1>11. ASSUME NEW i \in 1 .. Len(Own(t))
       PROVE  Own(t)[i].of = t /\ Own(t)[i].n = said[t] - Len(Own(t)) + i
  <2>1. /\ a + i - 1 \in DOMAIN msgs[t] /\ a + i - 1 > Len(msgs[t]) - said[t]
        /\ said[t] - Len(msgs[t]) + (a + i - 1) = said[t] - Len(Own(t)) + i
    BY <1>8, <1>10
  <2>2. Own(t)[i] = msgs[t][a + i - 1]
    BY <1>9
  <2> QED BY <2>1, <2>2 DEF MsgsAt
<1> QED BY <1>1, <1>2, <1>7, <1>9, <1>10, <1>11

LEMMA MsgsStay ==
    ASSUME Typed, Next, NEW u \in Turns, MsgsAt(u), msgs'[u] = msgs[u], said'[u] = said[u]
    PROVE  MsgsAt(u)'
<1>1. /\ DOMAIN msgs[u] = 1 .. Len(msgs[u]) /\ \A i \in DOMAIN msgs[u] : msgs[u][i] \in Messages
      /\ spoilt[u] \ {"append"} \subseteq spoilt'[u]
    BY Lengths, SpoiltGrows DEF Typed
<1>2. \A i \in DOMAIN msgs[u] : Known(msgs[u][i]) => Known(msgs[u][i])'
  <2> SUFFICES ASSUME NEW i \in DOMAIN msgs[u], Known(msgs[u][i]) PROVE Known(msgs[u][i])'
      OBVIOUS
  <2>1. ASSUME NEW m \in Messages, Known(m) PROVE at'[m.of] \notin {"idle", "load"} /\ m.n <= said'[m.of]
    BY <2>1, KnownStays DEF Known
  <2>2. msgs[u][i] \in Messages
    BY <1>1
  <2>3. at'[msgs[u][i].of] \notin {"idle", "load"} /\ msgs[u][i].n <= said'[msgs[u][i].of]
    BY <2>1, <2>2
  <2> QED BY <2>3 DEF Known
<1>3. \A i \in DOMAIN msgs'[u] :
         IF i > Len(msgs'[u]) - said'[u]
         THEN msgs'[u][i].of = u /\ msgs'[u][i].n = said'[u] - Len(msgs'[u]) + i
         ELSE msgs'[u][i].of # u /\ Known(msgs[u][i])'
    BY <1>2 DEF MsgsAt
<1>4. spoilt'[u] \cap {"load", "compact"} = {} => said'[u] <= Len(msgs'[u])
    BY <1>1 DEF MsgsAt
<1> QED BY <1>3, <1>4 DEF MsgsAt, Known

\* The same for messages that are in no variable: Known is about at and said.
LEMMA KnownNext ==
    ASSUME Typed, Next
    PROVE  \A m \in Messages : Known(m) => at'[m.of] \notin {"idle", "load"} /\ m.n <= said'[m.of]
BY KnownStays DEF Known

LEMMA MsgsSplit ==
    ASSUME Typed, NEW t \in Turns, MsgsAt(t), NEW i \in 1 .. Len(msgs[t])
    PROVE  /\ i > Len(msgs[t]) - said[t] =>
                 msgs[t][i].of = t /\ msgs[t][i].n = said[t] - Len(msgs[t]) + i
           /\ ~(i > Len(msgs[t]) - said[t]) => msgs[t][i].of # t /\ Known(msgs[t][i])
<1>1. i \in DOMAIN msgs[t]
    BY Lengths DEF Typed
<1> QED BY <1>1 DEF MsgsAt

LEMMA MsgsSays ==
    ASSUME Typed, Next, NEW t \in Turns, MsgsAt(t), NEW kind \in Kinds, Says(t, kind)
    PROVE  MsgsAt(t)'
<1>1. /\ Len(msgs[t]) \in Nat /\ said[t] \in Nat /\ DOMAIN msgs[t] = 1 .. Len(msgs[t])
      /\ \A i \in 1 .. Len(msgs[t]) : msgs[t][i] \in Messages
    BY Lengths, SaidType DEF Typed
<1>2. /\ Len(msgs'[t]) = Len(msgs[t]) + 1 /\ said'[t] = said[t] + 1
      /\ \A i \in 1 .. Len(msgs[t]) : msgs'[t][i] = msgs[t][i]
      /\ msgs'[t][Len(msgs[t]) + 1] = Message(t, kind)
    BY SaysType DEF Typed
<1>3. DOMAIN msgs'[t] = 1 .. Len(msgs'[t])
    BY TypedStep, Lengths DEF Typed
<1>4. Message(t, kind).of = t /\ Message(t, kind).n = said[t] + 1
    BY DEF Message
<1>5. ASSUME NEW i \in 1 .. Len(msgs[t])
      PROVE  IF i > Len(msgs'[t]) - said'[t]
             THEN msgs'[t][i].of = t /\ msgs'[t][i].n = said'[t] - Len(msgs'[t]) + i
             ELSE /\ msgs'[t][i].of # t
                  /\ at'[msgs'[t][i].of] \notin {"idle", "load"}
                  /\ msgs'[t][i].n <= said'[msgs'[t][i].of]
  <2>1. msgs'[t][i] = msgs[t][i] /\ msgs[t][i] \in Messages
    BY <1>1, <1>2
  <2>2. Len(msgs'[t]) - said'[t] = Len(msgs[t]) - said[t] /\ said'[t] - Len(msgs'[t]) + i = said[t] - Len(msgs[t]) + i
    <3>1. i \in Int /\ Len(msgs[t]) \in Nat /\ said[t] \in Nat
      BY <1>1
    <3>2. Len(msgs'[t]) = Len(msgs[t]) + 1 /\ said'[t] = said[t] + 1
      BY <1>2
    <3>3. \A a, b, j \in Int : (a + 1) - (b + 1) = a - b /\ (b + 1) - (a + 1) + j = b - a + j
      OBVIOUS
    <3> DEFINE a == Len(msgs[t])
               b == said[t]
               c == Len(msgs'[t])
               d == said'[t]
    <3>4. a \in Int /\ b \in Int /\ c = a + 1 /\ d = b + 1
      BY <3>1, <3>2
    <3> HIDE DEF a, b, c, d
    <3>5. c - d = a - b /\ d - c + i = b - a + i
      BY <3>1, <3>3, <3>4
    <3> QED BY <3>5 DEF a, b, c, d
  <2>3. /\ i > Len(msgs[t]) - said[t] =>
              msgs[t][i].of = t /\ msgs[t][i].n = said[t] - Len(msgs[t]) + i
        /\ ~(i > Len(msgs[t]) - said[t]) => msgs[t][i].of # t /\ Known(msgs[t][i])
    BY MsgsSplit
  <2> QED BY <2>1, <2>2, <2>3, KnownNext
<1>6. /\ Len(msgs[t]) + 1 > Len(msgs'[t]) - said'[t]
      /\ said'[t] - Len(msgs'[t]) + (Len(msgs[t]) + 1) = said[t] + 1
    BY <1>1, <1>2
<1>7. ASSUME NEW i \in DOMAIN msgs'[t]
      PROVE  IF i > Len(msgs'[t]) - said'[t]
             THEN msgs'[t][i].of = t /\ msgs'[t][i].n = said'[t] - Len(msgs'[t]) + i
             ELSE /\ msgs'[t][i].of # t
                  /\ at'[msgs'[t][i].of] \notin {"idle", "load"}
                  /\ msgs'[t][i].n <= said'[msgs'[t][i].of]
  <2>1. i \in 1 .. Len(msgs[t]) \/ i = Len(msgs[t]) + 1
    BY <1>1, <1>2, <1>3
  <2> QED BY <1>2, <1>4, <1>5, <1>6, <2>1
<1>8. spoilt'[t] \cap {"load", "compact"} = {} => said'[t] <= Len(msgs'[t])
  <2>1. spoilt[t] \ {"append"} \subseteq spoilt'[t]
    BY SpoiltGrows DEF Typed
  <2> QED BY SMTT(40), <1>1, <1>2, <2>1 DEF MsgsAt
<1> QED BY <1>7, <1>8 DEF MsgsAt, Known

LEMMA MsgsLoad ==
    ASSUME Typed, Next, NEW t \in Turns, MsgsAt(t), KnownInv, Load(t)
    PROVE  MsgsAt(t)'
<1>1. /\ Len(msgs[t]) = 1 /\ said[t] = 1 /\ at[t] = "load" /\ msgs[t] \in Seq(Messages)
      /\ DOMAIN msgs[t] = 1 .. 1 /\ Len(store) \in Nat /\ DOMAIN store = 1 .. Len(store)
      /\ \A i \in 1 .. Len(store) : store[i] \in Messages
    BY Lengths DEF Typed, SaidInv, SaidAt, Load, SeqType
<1>2. /\ History \in Seq(Messages) /\ Len(History) <= Len(store)
      /\ \A i \in 1 .. Len(History) : History[i] = store[Len(store) - Len(History) + i]
    BY HistoryIs DEF Typed
<1>3. Len(History) \in Nat
    BY <1>2, DomainIs
<1>4. msgs'[t] = History \o msgs[t] /\ said'[t] = said[t]
    BY DEF Load, Typed, SeqType
<1>11. /\ Len(History \o msgs[t]) = Len(History) + Len(msgs[t])
       /\ \A i \in 1 .. Len(History) : (History \o msgs[t])[i] = History[i]
       /\ \A i \in 1 .. Len(History \o msgs[t]) :
             i > Len(History) => (History \o msgs[t])[i] = msgs[t][i - Len(History)]
  <2>1. History \in Seq(Messages) /\ msgs[t] \in Seq(Messages)
    BY <1>1, <1>2
  <2> QED BY <2>1, ConcatIs
<1>5. /\ Len(msgs'[t]) = Len(History) + 1
      /\ \A i \in 1 .. Len(History) : msgs'[t][i] = History[i]
      /\ \A i \in 1 .. Len(msgs'[t]) : i > Len(History) => msgs'[t][i] = msgs[t][i - Len(History)]
    BY <1>1, <1>4, <1>11
<1>6. DOMAIN msgs'[t] = 1 .. Len(msgs'[t])
    BY TypedStep, Lengths DEF Typed
<1>7. msgs[t][1].of = t /\ msgs[t][1].n = 1
    BY <1>1 DEF MsgsAt
<1>8. ASSUME NEW i \in 1 .. Len(History)
      PROVE  /\ msgs'[t][i].of # t /\ at'[msgs'[t][i].of] \notin {"idle", "load"}
             /\ msgs'[t][i].n <= said'[msgs'[t][i].of]
  <2> DEFINE j == Len(store) - Len(History) + i
  <2>1. j \in 1 .. Len(store)
    BY <1>1, <1>2, <1>3
  <2>2. msgs'[t][i] = store[j] /\ store[j] \in Messages /\ Known(store[j])
    BY <1>1, <1>2, <1>5, <2>1 DEF KnownInv
  <2> QED BY <1>1, <2>2, KnownNext DEF Known
<1>9. /\ Len(msgs'[t]) - said'[t] = Len(History) /\ said'[t] <= Len(msgs'[t])
      /\ said'[t] - Len(msgs'[t]) + (Len(History) + 1) = 1
    BY <1>1, <1>3, <1>4, <1>5
<1>10. ASSUME NEW i \in DOMAIN msgs'[t]
      PROVE  IF i > Len(msgs'[t]) - said'[t]
             THEN msgs'[t][i].of = t /\ msgs'[t][i].n = said'[t] - Len(msgs'[t]) + i
             ELSE /\ msgs'[t][i].of # t
                  /\ at'[msgs'[t][i].of] \notin {"idle", "load"}
                  /\ msgs'[t][i].n <= said'[msgs'[t][i].of]
  <2>1. i \in 1 .. Len(History) \/ i = Len(History) + 1
    BY <1>3, <1>5, <1>6
  <2>2. CASE i \in 1 .. Len(History)
    BY <1>3, <1>8, <1>9, <2>2
  <2>3. CASE i = Len(History) + 1
    <3>1. i - Len(History) = 1 /\ i > Len(History) /\ i \in 1 .. Len(msgs'[t])
      BY <1>3, <1>5, <2>3
    <3>2. msgs'[t][i] = msgs[t][1]
      BY <1>5, <3>1
    <3> QED BY <1>7, <1>9, <2>3, <3>1, <3>2
  <2> QED BY <2>1, <2>2, <2>3
<1> QED BY <1>9, <1>10 DEF MsgsAt, Known

LEMMA CutIs ==
    ASSUME NEW M, NEW q \in Seq(M), NEW k \in Nat, k <= Len(q)
    PROVE  /\ Len(SubSeq(q, k + 1, Len(q))) = Len(q) - k
           /\ \A i \in 1 .. Len(SubSeq(q, k + 1, Len(q))) : SubSeq(q, k + 1, Len(q))[i] = q[k + i]
<1> DEFINE a == k + 1
           r == SubSeq(q, a, Len(q))
<1>1. a \in Nat /\ a >= 1 /\ Len(q) \in Nat /\ Len(q) <= Len(q) /\ \A i \in Nat : a + i - 1 = k + i
    BY DomainIs
<1> HIDE DEF a
<1>2. /\ Len(r) = IF a <= Len(q) THEN Len(q) - a + 1 ELSE 0
      /\ \A i \in 1 .. Len(r) : r[i] = q[a + i - 1]
    BY <1>1, SubSeqIs
<1> HIDE DEF r
<1>3. Len(r) = Len(q) - k
    BY <1>1, <1>2 DEF a
<1>4. \A i \in 1 .. Len(r) : r[i] = q[k + i]
  <2>1. \A i \in 1 .. Len(r) : i \in Nat
    BY <1>1, <1>3
  <2> QED BY <1>1, <1>2, <2>1
<1> QED BY <1>3, <1>4 DEF r, a

\* Compaction removes messages from the front.
LEMMA MsgsCut ==
    ASSUME Typed, Next, NEW t \in Turns, MsgsAt(t), NEW k \in Nat, k <= Len(msgs[t]),
           Len(msgs'[t]) = Len(msgs[t]) - k,
           \A i \in 1 .. Len(msgs'[t]) : msgs'[t][i] = msgs[t][k + i],
           "compact" \in spoilt'[t], said'[t] = said[t]
    PROVE  MsgsAt(t)'
<1>1. /\ Len(msgs[t]) \in Nat /\ said[t] \in Nat /\ DOMAIN msgs[t] = 1 .. Len(msgs[t])
      /\ \A i \in 1 .. Len(msgs[t]) : msgs[t][i] \in Messages
    BY Lengths, SaidType DEF Typed
<1>8. DOMAIN msgs'[t] = 1 .. Len(msgs'[t])
    BY TypedStep, Lengths DEF Typed
<1>9. ASSUME NEW i \in DOMAIN msgs'[t]
      PROVE  IF i > Len(msgs'[t]) - said'[t]
             THEN msgs'[t][i].of = t /\ msgs'[t][i].n = said'[t] - Len(msgs'[t]) + i
             ELSE /\ msgs'[t][i].of # t
                  /\ at'[msgs'[t][i].of] \notin {"idle", "load"}
                  /\ msgs'[t][i].n <= said'[msgs'[t][i].of]
  <2> DEFINE j == k + i
  <2>1. /\ j \in 1 .. Len(msgs[t]) /\ (i > Len(msgs'[t]) - said'[t] <=> j > Len(msgs[t]) - said[t])
        /\ said'[t] - Len(msgs'[t]) + i = said[t] - Len(msgs[t]) + j
    BY SMTT(40), <1>1, <1>8
  <2>2. msgs'[t][i] = msgs[t][j] /\ msgs[t][j] \in Messages
    BY <1>1, <1>8, <2>1
  <2> HIDE DEF j
  <2>3. /\ j > Len(msgs[t]) - said[t] =>
              msgs[t][j].of = t /\ msgs[t][j].n = said[t] - Len(msgs[t]) + j
        /\ ~(j > Len(msgs[t]) - said[t]) => msgs[t][j].of # t /\ Known(msgs[t][j])
    BY <2>1, MsgsSplit
  <2> QED BY <2>1, <2>2, <2>3, KnownNext
<1> QED BY <1>9 DEF MsgsAt, Known

LEMMA MsgsStep ==
    ASSUME Typed, HandsInv, Next, NEW u \in Turns PROVE MsgsAt(u)'
<1>1. /\ ControlType /\ SeqType /\ MsgsAt(u) /\ KnownInv
      /\ \A k \in {"user", "calls", "results", "answer"} : k \in Kinds
    BY DEF Typed, HandsInv, Kinds
<1>2. ASSUME msgs'[u] = msgs[u], said'[u] = said[u] PROVE MsgsAt(u)'
    BY <1>1, <1>2, MsgsStay
<1>3. CASE Crash \/ Expires \/ \E t \in Turns : PersistPanics(t)
    BY <1>2, <1>3, WorldStep DEF Typed
<1>4. ASSUME NEW t \in Turns, t # u,
             \/ Send(t)
             \/ TurnStep(t) /\ ~PersistPanics(t)
             \/ \E v \in Turns : Resume(t, v)
      PROVE  MsgsAt(u)'
    BY <1>1, <1>2, <1>4, OthersStay DEF Others
<1>5. ASSUME NEW kind \in Kinds, Says(u, kind) PROVE MsgsAt(u)'
    BY <1>1, <1>5, MsgsSays
<1>6. CASE Send(u) \/ \E v \in Turns : Resume(u, v)
    BY <1>1, <1>5, <1>6 DEF Send, Resume, Starts
<1>7. CASE Load(u)
    BY <1>1, <1>7, MsgsLoad
<1>8. CASE LoadFails(u)
  <2>1. msgs'[u] = <<>> /\ DOMAIN msgs'[u] = {} /\ "load" \in spoilt'[u]
    BY <1>1, <1>8 DEF LoadFails, Spoil, ControlType, SeqType
  <2> QED BY <2>1 DEF MsgsAt
<1>9. CASE \/ PreSeedLog(u) \/ PreSeedFails(u) \/ RoundFails(u) \/ PersistMessages(u) \/ PersistFails(u)
           \/ Emit(u) \/ Save(u) \/ FullSave(u) \/ SaveFails(u)
  <2>1. UNCHANGED <<msgs, said>>
    BY <1>9 DEF PreSeedLog, PreSeedFails, RoundFails, PersistMessages, PersistFails, Emit, Save, FullSave, SaveFails
  <2> QED BY <1>2, <2>1
<1>10. CASE ModelAnswers(u) \/ ModelCalls(u) \/ ExecuteToolCalls(u)
    BY <1>1, <1>2, <1>5, <1>10 DEF ModelAnswers, ModelCalls, ExecuteToolCalls
<1>11. CASE NextRound(u)
  <2>1. CASE UNCHANGED msgs
    BY <1>2, <1>11, <2>1 DEF NextRound
  <2>2. CASE /\ \E k \in 1 .. Len(msgs[u]) - Pinned :
                    msgs' = [msgs EXCEPT ![u] = SubSeq(@, k + 1, Len(@))]
             /\ Spoil(u, {"compact"})
    <3>1. PICK k \in 1 .. Len(msgs[u]) - Pinned : msgs' = [msgs EXCEPT ![u] = SubSeq(@, k + 1, Len(@))]
      BY <2>2
    <3>2. Len(msgs[u]) \in Nat /\ Pinned \in Nat /\ msgs \in [Turns -> Seq(Messages)]
      BY <1>1, Lengths, PersistenceAssumption DEF SeqType
    <3>3. k \in Nat /\ k <= Len(msgs[u]) /\ msgs[u] \in Seq(Messages)
      BY <3>2
    <3>4. msgs'[u] = SubSeq(msgs[u], k + 1, Len(msgs[u]))
      BY <3>1, <3>2
    <3>5. /\ Len(SubSeq(msgs[u], k + 1, Len(msgs[u]))) = Len(msgs[u]) - k
          /\ \A i \in 1 .. Len(SubSeq(msgs[u], k + 1, Len(msgs[u]))) :
                SubSeq(msgs[u], k + 1, Len(msgs[u]))[i] = msgs[u][k + i]
      BY <3>3, CutIs
    <3>6. "compact" \in spoilt'[u] /\ said'[u] = said[u]
      BY <1>1, <1>11, <2>2 DEF NextRound, Spoil, ControlType
    <3> DEFINE r == msgs'[u]
    <3>7. Len(r) = Len(msgs[u]) - k /\ \A i \in 1 .. Len(r) : r[i] = msgs[u][k + i]
      BY <3>4, <3>5, Zenon
    <3> QED BY <1>1, <3>3, <3>6, <3>7, MsgsCut
  <2> QED BY <1>11, <2>1, <2>2 DEF NextRound
<1> QED BY <1>3, <1>4, <1>6, <1>7, <1>8, <1>9, <1>10, <1>11 DEF Next, TurnStep

LEMMA NewStep ==
    ASSUME Typed, HandsInv, Next, NEW u \in Turns PROVE NewAt(u)'
<1>1. /\ ControlType /\ SeqType /\ NewAt(u) /\ MsgsAt(u) /\ said[u] \in Nat
      /\ said'[u] \in Nat /\ said[u] <= said'[u] /\ spoilt[u] \ {"append"} \subseteq spoilt'[u]
      /\ DOMAIN new[u] = 1 .. Len(new[u]) /\ \A i \in DOMAIN new[u] : new[u][i].n \in Nat
    BY Lengths, SaidType, SaidGrows, SpoiltGrows, MessageFields DEF Typed, HandsInv
<1>2. ASSUME new'[u] = new[u],
             at'[u] \in {"save", "write"} => said'[u] = said[u] /\ (at[u] = "save" \/ at[u] = at'[u])
      PROVE NewAt(u)'
  <2>1. \A i \in DOMAIN new'[u] : new'[u][i].of = u /\ new'[u][i].n <= said'[u]
    BY <1>1, <1>2 DEF NewAt
  <2>2. \A i, j \in DOMAIN new'[u] : i < j => new'[u][i].n < new'[u][j].n
    BY <1>2, <1>1 DEF NewAt
  <2>3. at'[u] \in {"save", "write"} /\ spoilt'[u] \cap {"load", "compact", "cancel"} = {} =>
          Len(new'[u]) = said'[u] /\ \A i \in DOMAIN new'[u] : new'[u][i].n = i
    BY <1>1, <1>2 DEF NewAt
  <2> QED BY <2>1, <2>2, <2>3 DEF NewAt
<1>3. CASE Crash \/ Expires \/ \E t \in Turns : PersistPanics(t)
  <2>1. new'[u] = new[u] /\ said'[u] = said[u] /\ (at'[u] = at[u] \/ at'[u] \in {"lost", "panic"})
    BY <1>3, WorldStep DEF Typed
  <2> QED BY <1>2, <2>1
<1>4. ASSUME NEW t \in Turns, t # u,
             \/ Send(t)
             \/ TurnStep(t) /\ ~PersistPanics(t)
             \/ \E v \in Turns : Resume(t, v)
      PROVE  NewAt(u)'
  <2>1. new'[u] = new[u] /\ said'[u] = said[u] /\ (at'[u] = at[u] \/ at'[u] = "done")
    BY <1>1, <1>4, OthersStay DEF Others
  <2> QED BY <1>2, <2>1
<1>5. CASE Send(u) \/ \E v \in Turns : Resume(u, v)
  <2>1. new'[u] = new[u] /\ at'[u] = "load"
    <3>1. CASE Send(u)
      BY <3>1, <1>1 DEF Send, Starts, Goes, ControlType
    <3>2. CASE \E v \in Turns : Resume(u, v)
      BY <3>2, <1>1 DEF Resume, Starts, ControlType
    <3> QED BY <1>5, <3>1, <3>2
  <2> QED BY <1>2, <2>1
<1>6. CASE Emit(u)
  <2> DEFINE q == Own(u)
  <2>1. /\ q \in Seq(Messages) /\ Len(q) <= said[u]
        /\ said[u] <= Len(msgs[u]) => Len(q) = said[u]
        /\ \A i \in 1 .. Len(q) : q[i].of = u /\ q[i].n = said[u] - Len(q) + i
    BY <1>1, OwnIs
  <2>2. Len(q) \in Nat /\ DOMAIN q = 1 .. Len(q) /\ said'[u] = said[u]
    BY <1>6, <2>1, DomainIs DEF Emit
  <2>3. ASSUME new'[u] = q PROVE NewAt(u)'
    <3> HIDE DEF q
    <3>1. \A i \in DOMAIN q : q[i].of = u /\ q[i].n <= said'[u]
      BY <1>1, <2>1, <2>2
    <3>2. \A i, j \in DOMAIN q : i < j => q[i].n < q[j].n
      BY <1>1, <2>1, <2>2
    <3>3. spoilt'[u] \cap {"load", "compact", "cancel"} = {} =>
             Len(q) = said'[u] /\ \A i \in DOMAIN q : q[i].n = i
      <4> SUFFICES ASSUME spoilt'[u] \cap {"load", "compact", "cancel"} = {}
                   PROVE  Len(q) = said'[u] /\ \A i \in DOMAIN q : q[i].n = i
          OBVIOUS
      <4>1. said[u] <= Len(msgs[u])
        BY <1>1 DEF MsgsAt
      <4> QED BY <1>1, <2>1, <2>2, <4>1
    <3> QED BY <2>3, <3>1, <3>2, <3>3 DEF NewAt
  <2>4. ASSUME NEW k \in 0 .. Len(q), new'[u] = SubSeq(q, 1, k), Spoil(u, {"cancel"}) PROVE NewAt(u)'
    <3> DEFINE r == SubSeq(q, 1, k)
    <3> HIDE DEF q
    <3>1. k \in Nat /\ k <= Len(q)
      BY <2>2
    <3>2. /\ r \in Seq(Messages) /\ Len(r) = IF 1 <= k THEN k - 1 + 1 ELSE 0
          /\ \A i \in 1 .. Len(r) : r[i] = q[1 + i - 1]
      BY <2>1, <3>1, SubSeqIs
    <3> HIDE DEF r
    <3>3. Len(r) = k /\ DOMAIN r = 1 .. k /\ \A i \in 1 .. k : 1 + i - 1 = i
      BY <3>1, <3>2, DomainIs
    <3>4. \A i \in 1 .. k : i \in 1 .. Len(q) /\ r[i] = q[i]
      BY <2>2, <3>1, <3>2, <3>3
    <3>5. "cancel" \in spoilt'[u]
      BY <1>1, <2>4 DEF Spoil, ControlType
    <3>6. \A i \in DOMAIN r : r[i].of = u /\ r[i].n <= said'[u]
      BY <1>1, <2>1, <2>2, <3>3, <3>4
    <3>7. \A i, j \in DOMAIN r : i < j => r[i].n < r[j].n
      BY <1>1, <2>1, <2>2, <3>3, <3>4
    <3>8. new'[u] = r
      BY <2>4 DEF r
    <3> QED BY <3>5, <3>6, <3>7, <3>8 DEF NewAt
  <2>5. new'[u] = q \/ \E k \in 0 .. Len(q) : new'[u] = SubSeq(q, 1, k) /\ Spoil(u, {"cancel"})
    <3> DEFINE H == Seq(Messages)
    <3>1. new \in [Turns -> H]
      BY <1>1 DEF SeqType
    <3> HIDE DEF H, q
    <3> QED BY <1>6, <3>1 DEF Emit, q
  <2> QED BY <2>3, <2>4, <2>5
<1>7. CASE \/ Load(u) \/ LoadFails(u) \/ PreSeedLog(u) \/ PreSeedFails(u) \/ RoundFails(u)
           \/ ModelAnswers(u) \/ ModelCalls(u) \/ ExecuteToolCalls(u) \/ PersistMessages(u)
           \/ PersistFails(u) \/ NextRound(u)
  <2>1. UNCHANGED new
    BY <1>7 DEF Load, LoadFails, PreSeedLog, PreSeedFails, RoundFails, ModelAnswers, ModelCalls,
                ExecuteToolCalls, PersistMessages, PersistFails, NextRound
  <2>2. at'[u] \notin {"save", "write"}
    BY <1>1, <1>7 DEF Load, LoadFails, PreSeedLog, PreSeedFails, RoundFails, ModelAnswers, ModelCalls,
                ExecuteToolCalls, PersistMessages, PersistFails, NextRound, Goes, Persisted, ControlType
  <2> QED BY <1>2, <2>1, <2>2
<1>8. CASE Save(u) \/ FullSave(u) \/ SaveFails(u)
  <2>1. UNCHANGED <<new, said>>
    BY <1>8 DEF Save, FullSave, SaveFails
  <2>2. at'[u] \in {"save", "write"} => at[u] = "save"
    BY <1>1, <1>8 DEF Save, FullSave, SaveFails, Ends, Goes, ControlType
  <2> QED BY <1>2, <2>1, <2>2
<1> QED BY <1>3, <1>4, <1>5, <1>6, <1>7, <1>8 DEF Next, TurnStep

-----------------------------------------------------------------------------
(* How the store changes.                                                  *)

LEMMA ConfigStays == ASSUME Next PROVE UNCHANGED <<mode, window>>
<1>1. UNCHANGED config
  <2>1. CASE Crash \/ Expires
    BY <2>1 DEF Crash, Expires
  <2>2. ASSUME NEW t \in Turns, Send(t) \/ \E u \in Turns : Resume(t, u) PROVE UNCHANGED config
    BY <2>2 DEF Send, Resume, Starts
  <2>3. ASSUME NEW t \in Turns, TurnStep(t) PROVE UNCHANGED config
    BY <2>3 DEF TurnStep, Load, LoadFails, PreSeedLog, PreSeedFails, RoundFails, ModelAnswers, ModelCalls,
                ExecuteToolCalls, PersistMessages, PersistFails, PersistPanics, NextRound, Emit, Save,
                FullSave, SaveFails
  <2> QED BY <2>1, <2>2, <2>3 DEF Next
<1> QED BY <1>1 DEF config

\* A round is written, or the history: what has a place past the end of the store.
LogStep(t) == PreSeedLog(t) \/ PreSeedFails(t) \/ PersistMessages(t) \/ PersistFails(t)
LogWrites(t) ==
    \E off \in Nat :
        /\ off >= Len(store) /\ Extends(store', msgs[t], off)
        /\ off = Len(store) \/ (at[t] = "persist" /\ persisted[t] > Len(store))

LEMMA LogSteps ==
    ASSUME Typed, NEW t \in Turns, LogStep(t)
    PROVE  /\ store' = store \/ (mode = "log" /\ LogWrites(t))
           /\ UNCHANGED <<msgs, said, new, snapshot>>
           /\ at[t] \in {"seed", "persist"} /\ at'[t] \in {"round", "next", "failed", "emit"}
<1>1. ControlType /\ SeqType /\ Len(store) \in Nat /\ persisted[t] \in Nat /\ Len(msgs[t]) \in Nat
    BY Lengths DEF Typed, ControlType
<1>2. UNCHANGED <<msgs, said, new, snapshot>>
    BY DEF LogStep, PreSeedLog, PreSeedFails, PersistMessages, PersistFails
<1>3. at[t] \in {"seed", "persist"} /\ at'[t] \in {"round", "next", "failed", "emit"}
    BY <1>1 DEF LogStep, PreSeedLog, PreSeedFails, PersistMessages, PersistFails, Persisted, Goes, ControlType
<1>4. CASE PreSeedLog(t) \/ PreSeedFails(t)
  <2>1. Extends(LogAppend(0, msgs[t]), msgs[t], Len(store))
    BY <1>1, SeedWrites
  <2>2. store' = store \/ (mode = "log" /\ store' = LogAppend(0, msgs[t]))
    BY <1>4 DEF PreSeedLog, PreSeedFails, Seeds
  <2> QED BY <1>1, <1>2, <1>3, <2>1, <2>2 DEF LogWrites
<1>5. CASE PersistMessages(t) \/ PersistFails(t)
  <2> DEFINE off == IF persisted[t] > Len(store) THEN persisted[t] ELSE Len(store)
  <2>1. off \in Nat /\ off >= Len(store)
    BY <1>1
  <2>2. mode = "log" => persisted[t] <= Len(msgs[t])
    BY <1>1, <1>5 DEF PersistMessages, PersistFails
  <2>3. mode = "log" => Extends(LogAppend(persisted[t], Unsaved(t)), msgs[t], off)
    BY <1>1, <2>2, PersistWrites
  <2>4. store' = store \/ (mode = "log" /\ store' = LogAppend(persisted[t], Unsaved(t)))
    BY <1>5 DEF PersistMessages, PersistFails
  <2>5. off = Len(store) \/ (at[t] = "persist" /\ persisted[t] > Len(store))
    BY <1>5 DEF PersistMessages, PersistFails
  <2> HIDE DEF off
  <2> QED BY <1>2, <1>3, <2>1, <2>3, <2>4, <2>5 DEF LogWrites
<1> QED BY <1>4, <1>5 DEF LogStep

\* The steps that leave the store alone.
QuietStep(t) ==
    \/ Send(t) \/ Load(t) \/ LoadFails(t) \/ RoundFails(t) \/ ModelAnswers(t) \/ ModelCalls(t)
    \/ ExecuteToolCalls(t) \/ NextRound(t) \/ Emit(t) \/ SaveFails(t)
    \/ \E u \in Turns : Resume(t, u)

LEMMA QuietSteps ==
    ASSUME NEW t \in Turns, QuietStep(t) PROVE UNCHANGED <<store, snapshot>>
BY DEF QuietStep, Send, Load, LoadFails, RoundFails, ModelAnswers, ModelCalls, ExecuteToolCalls, NextRound,
       Emit, SaveFails, Resume, Starts

\* The steps, by what they do to the store.
LEMMA StepKinds ==
    ASSUME Next
    PROVE  \/ Crash \/ Expires \/ \E t \in Turns : PersistPanics(t)
           \/ \E t \in Turns : (QuietStep(t) \/ LogStep(t) \/ Save(t) \/ FullSave(t)) /\ ~PersistPanics(t)
BY DEF Next, TurnStep, QuietStep, LogStep

LEMMA IsTurnStep ==
    ASSUME NEW t \in Turns, QuietStep(t) \/ LogStep(t) \/ Save(t) \/ FullSave(t), ~PersistPanics(t)
    PROVE  /\ Next
           /\ \/ Send(t)
              \/ TurnStep(t) /\ ~PersistPanics(t)
              \/ \E u \in Turns : Resume(t, u)
BY DEF Next, TurnStep, QuietStep, LogStep

LEMMA SaveSteps ==
    ASSUME Typed, NEW t \in Turns, Save(t)
    PROVE  /\ UNCHANGED <<msgs, said, new>> /\ at[t] = "save"
           /\ \/ UNCHANGED <<store, snapshot>> /\ (new[t] = <<>> \/ mode = "log") /\ at'[t] \in Returned
              \/ /\ mode = "append" /\ store' = store \o new[t] /\ UNCHANGED snapshot
                 /\ at'[t] \in Returned
              \/ /\ mode = "bulk" /\ UNCHANGED store /\ at'[t] = "write"
                 /\ snapshot' = [snapshot EXCEPT ![t] = store]
<1>1. at \in [Turns -> Labels] /\ mode \in {"log", "append", "bulk"}
    BY PersistenceAssumption DEF Typed, ControlType
<1>2. Ends(t) => at'[t] \in Returned
    BY <1>1 DEF Ends, Goes, Returned
<1>3. Goes(t, "write") => at'[t] = "write"
    BY <1>1 DEF Goes
<1> QED BY <1>1, <1>2, <1>3 DEF Save

LEMMA FullSaveSteps ==
    ASSUME Typed, NEW t \in Turns, FullSave(t)
    PROVE  /\ UNCHANGED <<msgs, said, new, snapshot>> /\ at[t] = "write" /\ at'[t] \in Returned
           /\ store' = snapshot[t] \o new[t]
<1>1. at \in [Turns -> Labels]
    BY DEF Typed, ControlType
<1>2. Ends(t) => at'[t] \in Returned
    BY <1>1 DEF Ends, Goes, Returned
<1> QED BY <1>2 DEF FullSave, Written

LEMMA EntersWrite ==
    ASSUME Typed, Next, NEW u \in Turns, at'[u] = "write", at[u] # "write"
    PROVE  mode = "bulk" /\ Save(u) /\ store' = store /\ snapshot'[u] = store
<1>1. CASE Crash \/ Expires \/ \E t \in Turns : PersistPanics(t)
    BY <1>1, WorldStep DEF Typed
<1>2. ASSUME NEW t \in Turns, QuietStep(t) \/ LogStep(t) \/ Save(t) \/ FullSave(t), ~PersistPanics(t)
      PROVE  mode = "bulk" /\ Save(u) /\ store' = store /\ snapshot'[u] = store
  <2>1. Others(t)
    BY <1>2, IsTurnStep, OthersStay DEF Typed
  <2>2. u = t
    BY <2>1 DEF Others
  <2>3. snapshot \in [Turns -> Seq(Messages)]
    BY DEF Typed, SeqType
  <2>4. CASE Save(t)
    BY <2>2, <2>3, <2>4, SaveSteps DEF Returned
  <2>5. CASE FullSave(t)
    BY <2>2, <2>5, FullSaveSteps DEF Returned
  <2>6. CASE LogStep(t)
    BY <2>2, <2>6, LogSteps
  <2>7. CASE QuietStep(t)
    <3>1. at \in [Turns -> Labels]
      BY DEF Typed, ControlType
    <3> QED BY <2>2, <2>7, <3>1 DEF QuietStep, Send, Load, LoadFails, RoundFails, ModelAnswers, ModelCalls,
            ExecuteToolCalls, NextRound, Emit, SaveFails, Resume, Ends, Goes
  <2> QED BY <1>2, <2>4, <2>5, <2>6, <2>7
<1> QED BY <1>1, <1>2, StepKinds

LEMMA WriteStep == ASSUME Typed, WriteInv, Next PROVE WriteInv'
BY ConfigStays, EntersWrite DEF WriteInv

\* What is in the store after a step comes from the store or from the hands of
\* the turn that took it.
LEMMA StoreSources ==
    ASSUME Typed, Next, NEW i \in 1 .. Len(store')
    PROVE  \/ \E j \in 1 .. Len(store) : store'[i] = store[j]
           \/ \E t \in Turns : /\ at[t] \in Past
                               /\ \/ \E j \in 1 .. Len(msgs[t]) : store'[i] = msgs[t][j]
                                  \/ \E j \in 1 .. Len(new[t]) : store'[i] = new[t][j]
                                  \/ \E j \in 1 .. Len(snapshot[t]) : store'[i] = snapshot[t][j]
<1>1. /\ ControlType /\ SeqType /\ Len(store) \in Nat /\ store \in Seq(Messages)
      /\ store' \in Seq(Messages) /\ Len(store') \in Nat
      /\ \A t \in Turns : Len(new[t]) \in Nat /\ Len(snapshot[t]) \in Nat
      /\ \A t \in Turns : new[t] \in Seq(Messages) /\ snapshot[t] \in Seq(Messages)
    BY Lengths, TypedStep DEF Typed, SeqType
<1>2. ASSUME UNCHANGED store PROVE \E j \in 1 .. Len(store) : store'[i] = store[j]
    BY <1>2
<1>3. CASE Crash \/ \E t \in Turns : PersistPanics(t)
    BY <1>2, <1>3 DEF Crash, PersistPanics
<1>4. CASE Expires
  <2>1. store' = <<>>
    BY <1>4 DEF Expires
  <2> QED BY <2>1
<1>5. ASSUME NEW p \in Seq(Messages), NEW q \in Seq(Messages), store' = p \o q
      PROVE  (\E j \in 1 .. Len(p) : store'[i] = p[j]) \/ (\E j \in 1 .. Len(q) : store'[i] = q[j])
  <2>1. Len(p) \in Nat /\ Len(q) \in Nat
    BY DomainIs
  <2>2. /\ Len(p \o q) = Len(p) + Len(q)
        /\ \A j \in 1 .. Len(p) : (p \o q)[j] = p[j]
        /\ \A j \in 1 .. Len(p \o q) : j > Len(p) => (p \o q)[j] = q[j - Len(p)]
    BY ConcatIs
  <2>3. i \in 1 .. Len(p) + Len(q)
    BY <1>5, <2>2
  <2>4. CASE i <= Len(p)
    BY <1>5, <2>1, <2>2, <2>3, <2>4
  <2>5. CASE i > Len(p)
    <3>1. i - Len(p) \in 1 .. Len(q)
      BY <2>1, <2>3, <2>5
    <3>2. store'[i] = q[i - Len(p)]
      BY <1>5, <2>2, <2>3, <2>5
    <3> QED BY <3>1, <3>2
  <2> QED BY <2>1, <2>3, <2>4, <2>5
<1>6. ASSUME NEW t \in Turns, QuietStep(t) PROVE \E j \in 1 .. Len(store) : store'[i] = store[j]
    BY <1>2, <1>6, QuietSteps
<1>7. ASSUME NEW t \in Turns, LogStep(t)
      PROVE  \/ \E j \in 1 .. Len(store) : store'[i] = store[j]
             \/ at[t] \in Past /\ \E j \in 1 .. Len(msgs[t]) : store'[i] = msgs[t][j]
  <2>1. /\ store' = store \/ LogWrites(t)
        /\ at[t] \in {"seed", "persist"}
    BY <1>7, LogSteps
  <2>2. ASSUME NEW off \in Nat, Extends(store', msgs[t], off)
        PROVE  \/ \E j \in 1 .. Len(store) : store'[i] = store[j]
               \/ \E j \in 1 .. Len(msgs[t]) : store'[i] = msgs[t][j]
    <3>1. i \in 1 .. Len(store) \/ i > Len(store)
      BY <1>1
    <3>2. i \in 1 .. Len(store) => store'[i] = store[i]
      BY <2>2 DEF Extends
    <3>3. i > Len(store) => /\ i - Len(store) + off \in 1 .. Len(msgs[t])
                            /\ store'[i] = msgs[t][i - Len(store) + off]
      BY <2>2 DEF Extends
    <3> QED BY <3>1, <3>2, <3>3
  <2> QED BY <1>2, <2>1, <2>2 DEF LogWrites, Past
<1>8. ASSUME NEW t \in Turns, Save(t)
      PROVE  \/ \E j \in 1 .. Len(store) : store'[i] = store[j]
             \/ at[t] \in Past /\ \E j \in 1 .. Len(new[t]) : store'[i] = new[t][j]
  <2>1. at[t] = "save" /\ (store' = store \/ store' = store \o new[t])
    BY <1>8, SaveSteps
  <2> QED BY <1>1, <1>2, <1>5, <2>1 DEF Past
<1>9. ASSUME NEW t \in Turns, FullSave(t)
      PROVE  /\ at[t] \in Past
             /\ \/ \E j \in 1 .. Len(snapshot[t]) : store'[i] = snapshot[t][j]
                \/ \E j \in 1 .. Len(new[t]) : store'[i] = new[t][j]
  <2>1. at[t] = "write" /\ store' = snapshot[t] \o new[t]
    BY <1>9, FullSaveSteps
  <2> QED BY <1>1, <1>5, <2>1 DEF Past
<1> QED BY <1>3, <1>4, <1>6, <1>7, <1>8, <1>9, StepKinds

\* A snapshot is the store, or was one before.
LEMMA SnapshotSources ==
    ASSUME Typed, Next, NEW t \in Turns
    PROVE  snapshot'[t] = snapshot[t] \/ (snapshot'[t] = store /\ store' = store /\ Save(t))
<1>1. snapshot \in [Turns -> Seq(Messages)]
    BY DEF Typed, SeqType
<1>2. CASE Crash \/ Expires \/ \E u \in Turns : PersistPanics(u)
    BY <1>2 DEF Crash, Expires, PersistPanics
<1>3. ASSUME NEW u \in Turns, QuietStep(u) \/ LogStep(u) \/ FullSave(u) PROVE snapshot'[t] = snapshot[t]
    BY <1>3, QuietSteps, LogSteps, FullSaveSteps
<1>4. ASSUME NEW u \in Turns, Save(u)
      PROVE  snapshot'[t] = snapshot[t] \/ (snapshot'[t] = store /\ store' = store /\ Save(t))
    BY <1>1, <1>4 DEF Save
<1> QED BY <1>2, <1>3, <1>4, StepKinds

LEMMA NewKnown ==
    ASSUME Typed, NEW t \in Turns, NewAt(t), at[t] \in Past, NEW j \in 1 .. Len(new[t])
    PROVE  Known(new[t][j]) /\ new[t][j] \in Messages
<1>1. j \in DOMAIN new[t] /\ new[t][j] \in Messages
    BY Lengths DEF Typed
<1> QED BY <1>1 DEF NewAt, Known, Past

LEMMA KnownStep == ASSUME Typed, HandsInv, Next PROVE KnownInv'
<1>1. /\ ControlType /\ SeqType /\ SeqType'
      /\ DOMAIN store' = 1 .. Len(store') /\ DOMAIN store = 1 .. Len(store)
      /\ \A t \in Turns : DOMAIN snapshot[t] = 1 .. Len(snapshot[t])
      /\ \A t \in Turns : DOMAIN snapshot'[t] = 1 .. Len(snapshot'[t])
      /\ \A j \in 1 .. Len(store) : store[j] \in Messages
      /\ \A t \in Turns : /\ \A j \in 1 .. Len(msgs[t]) : msgs[t][j] \in Messages
                          /\ \A j \in 1 .. Len(snapshot[t]) : snapshot[t][j] \in Messages
  <2>1. SeqType /\ SeqType' /\ ControlType
    BY TypedStep DEF Typed
  <2> QED BY <2>1, Lengths
<1>2. \A j \in 1 .. Len(store) : Known(store[j])
    BY <1>1 DEF HandsInv, KnownInv
<1>3. \A t \in Turns : \A j \in 1 .. Len(snapshot[t]) : Known(snapshot[t][j])
    BY <1>1 DEF HandsInv, KnownInv
<1>4. \A t \in Turns : at[t] \in Past =>
         /\ \A j \in 1 .. Len(msgs[t]) : Known(msgs[t][j])
         /\ \A j \in 1 .. Len(new[t]) : Known(new[t][j]) /\ new[t][j] \in Messages
    BY HandsKnown, NewKnown DEF HandsInv, Past
<1>5. ASSUME NEW i \in 1 .. Len(store') PROVE Known(store[i])'
  <2>1. store'[i] \in Messages /\ Known(store'[i])
    BY SMTT(40), <1>1, <1>2, <1>3, <1>4, StoreSources
  <2>2. at'[store'[i].of] \notin {"idle", "load"} /\ store'[i].n <= said'[store'[i].of]
    BY <2>1, KnownNext
  <2> QED BY <2>2 DEF Known
<1>6. ASSUME NEW t \in Turns, NEW i \in 1 .. Len(snapshot'[t]) PROVE Known(snapshot[t][i])'
  <2>1. snapshot'[t][i] \in Messages /\ Known(snapshot'[t][i])
    BY <1>1, <1>2, <1>3, SnapshotSources
  <2>2. at'[snapshot'[t][i].of] \notin {"idle", "load"} /\ snapshot'[t][i].n <= said'[snapshot'[t][i].of]
    BY <2>1, KnownNext
  <2> QED BY <2>2 DEF Known
<1> QED BY <1>1, <1>5, <1>6 DEF KnownInv

LEMMA HandsStep == ASSUME Typed, HandsInv, Next PROVE HandsInv'
<1>1. WriteInv' /\ KnownInv'
    BY WriteStep, KnownStep DEF HandsInv
<1>2. \A t \in Turns : MsgsAt(t)'
    BY MsgsStep
<1>3. \A t \in Turns : NewAt(t)'
    BY NewStep
<1> QED BY <1>1, <1>2, <1>3 DEF HandsInv

LEMMA HandsInit == Init => HandsInv
<1> SUFFICES ASSUME Init PROVE HandsInv
    OBVIOUS
<1>1. /\ \A t \in Turns : msgs[t] = <<>> /\ new[t] = <<>> /\ snapshot[t] = <<>> /\ said[t] = 0 /\ at[t] = "idle"
      /\ store = <<>>
    BY DEF Init
<1>2. DOMAIN <<>> = {} /\ Len(<<>>) = 0
    OBVIOUS
<1> QED BY <1>1, <1>2 DEF HandsInv, MsgsAt, NewAt, KnownInv, WriteInv

-----------------------------------------------------------------------------
(* With a log nothing is stored twice.                                     *)

\* Nothing of a turn is stored before its load.
LEMMA NotYetStored ==
    ASSUME Typed, HandsInv, NEW t \in Turns, at[t] \in {"idle", "load"}
    PROVE  \A j \in DOMAIN store : store[j].of # t
BY DEF HandsInv, KnownInv, Known

LEMMA PlaceStays ==
    ASSUME Typed, HandsInv, Next, NEW u \in Turns, PlaceAt(u), UNCHANGED store,
           msgs'[u] = msgs[u], said'[u] = said[u],
           at'[u] \in Past \ {"seed"} => persisted'[u] <= Len(store')
                                        \/ "seed" \in spoilt'[u] \/ "expired" \in spoilt'[u]
    PROVE  PlaceAt(u)'
<1>1. \A v \in Turns : spoilt[v] \ {"append"} \subseteq spoilt'[v]
    BY SpoiltGrows DEF Typed
<1>2. DOMAIN msgs[u] = 1 .. Len(msgs[u]) /\ \A i \in DOMAIN msgs[u] : msgs[u][i].of \in Turns
    BY Lengths, MessageFields DEF Typed
<1>3. spoilt'[u] \cap {"seed", "expired"} = {} => spoilt[u] \cap {"seed", "expired"} = {}
    BY <1>1
<1>4. \A i \in DOMAIN msgs[u] :
         "expired" \in spoilt[msgs[u][i].of] => "expired" \in spoilt'[msgs[u][i].of]
    BY <1>1, <1>2
<1> QED BY <1>3, <1>4 DEF PlaceAt

LEMMA PlaceSays ==
    ASSUME Typed, HandsInv, Next, NEW t \in Turns, PlaceAt(t), UNCHANGED <<store, persisted>>,
           NEW kind \in Kinds, Says(t, kind),
           at'[t] \in Past \ {"seed"} => at[t] \in Past \ {"seed"}
    PROVE  PlaceAt(t)'
<1>1. /\ Len(msgs[t]) \in Nat /\ said[t] \in Nat /\ DOMAIN msgs[t] = 1 .. Len(msgs[t])
      /\ Len(store) \in Nat
    BY Lengths, SaidType DEF Typed
<1>2. /\ Len(msgs'[t]) = Len(msgs[t]) + 1 /\ said'[t] = said[t] + 1
      /\ \A i \in 1 .. Len(msgs[t]) : msgs'[t][i] = msgs[t][i]
    BY SaysType DEF Typed
<1>3. DOMAIN msgs'[t] = 1 .. Len(msgs'[t])
    BY TypedStep, Lengths DEF Typed
<1>4. \A v \in Turns : spoilt[v] \ {"append"} \subseteq spoilt'[v]
    BY SpoiltGrows DEF Typed
<1>5. \A i \in DOMAIN msgs[t] : msgs[t][i].of \in Turns
    BY Lengths, MessageFields DEF Typed
<1> DEFINE a == Len(msgs[t])
           b == said[t]
           c == Len(msgs'[t])
           d == said'[t]
           n == Len(store)
<1>6. a \in Nat /\ b \in Nat /\ c = a + 1 /\ d = b + 1 /\ n \in Nat
    BY <1>1, <1>2
<1>7. c - d = a - b /\ d - c + n = b - a + n
  <2> HIDE DEF a, b, c, d, n
  <2> QED BY <1>6
<1>8. \A i \in 1 .. c : i <= c - d => i \in 1 .. a /\ i <= a - b
  <2> HIDE DEF a, b, c, d
  <2> QED BY <1>6
<1>9. ASSUME spoilt'[t] \cap {"seed", "expired"} = {}
      PROVE  /\ \A j \in DOMAIN store' :
                   store'[j].of = t => store'[j].n <= said'[t] - Len(msgs'[t]) + Len(store')
             /\ at'[t] \in Past \ {"seed"} => persisted'[t] <= Len(store')
  <2>1. spoilt[t] \cap {"seed", "expired"} = {}
    BY <1>4, <1>9
  <2>2. said'[t] - Len(msgs'[t]) + Len(store') = said[t] - Len(msgs[t]) + Len(store)
    BY <1>7
  <2>3. \A j \in DOMAIN store : store[j].of = t => store[j].n <= said[t] - Len(msgs[t]) + Len(store)
    BY <2>1 DEF PlaceAt
  <2>4. at[t] \in Past \ {"seed"} => persisted[t] <= Len(store)
    BY <2>1 DEF PlaceAt
  <2> QED BY <2>2, <2>3, <2>4
<1>10. ASSUME NEW i \in DOMAIN msgs'[t], i <= Len(msgs'[t]) - said'[t]
       PROVE  i <= Len(store') \/ "expired" \in spoilt'[msgs'[t][i].of]
  <2>1. i \in DOMAIN msgs[t] /\ i <= Len(msgs[t]) - said[t]
    BY <1>1, <1>3, <1>8, <1>10
  <2>2. msgs'[t][i] = msgs[t][i] /\ msgs[t][i].of \in Turns
    BY <1>1, <1>2, <1>5, <2>1
  <2>3. i <= Len(store) \/ "expired" \in spoilt[msgs[t][i].of]
    BY <2>1 DEF PlaceAt
  <2> QED BY <1>4, <2>2, <2>3
<1> QED BY <1>9, <1>10 DEF PlaceAt

LEMMA PlaceLoad ==
    ASSUME Typed, HandsInv, Next, NEW t \in Turns, PlaceAt(t), Load(t)
    PROVE  PlaceAt(t)'
<1>1. at[t] = "load" /\ at'[t] = "seed" /\ UNCHANGED <<store, said>>
    BY DEF Load, Goes, Typed, ControlType
<1>2. \A j \in DOMAIN store : store[j].of # t
    BY <1>1, NotYetStored
<1>3. /\ Len(msgs[t]) = 1 /\ said[t] = 1 /\ msgs[t] \in Seq(Messages)
      /\ History \in Seq(Messages) /\ Len(History) <= Len(store)
    BY <1>1, HistoryIs DEF Typed, SaidInv, SaidAt, SeqType
<1>9. Len(History) \in Nat /\ Len(store) \in Nat
    BY <1>3, DomainIs, Lengths DEF Typed
<1>4. msgs'[t] = History \o msgs[t] /\ Len(History) \in Nat /\ Len(store) \in Nat
    BY <1>9 DEF Load, Typed, SeqType
<1>5. Len(History \o msgs[t]) = Len(History) + Len(msgs[t])
  <2>1. History \in Seq(Messages) /\ msgs[t] \in Seq(Messages)
    BY <1>3
  <2> QED BY <2>1, ConcatIs
<1>6. Len(msgs'[t]) - said'[t] = Len(History)
    BY <1>1, <1>3, <1>4, <1>5
<1>7. \A i \in DOMAIN msgs'[t] : i \in Nat
  <2>1. DOMAIN msgs'[t] = 1 .. Len(msgs'[t]) /\ Len(msgs'[t]) \in Nat
    BY TypedStep, Lengths DEF Typed
  <2> QED BY <2>1
<1>8. \A i \in DOMAIN msgs'[t] : i <= Len(msgs'[t]) - said'[t] => i <= Len(store')
    BY <1>1, <1>3, <1>4, <1>6, <1>7
<1> QED BY <1>1, <1>2, <1>8 DEF PlaceAt

LEMMA PlaceCut ==
    ASSUME Typed, HandsInv, Next, NEW t \in Turns, PlaceAt(t), UNCHANGED <<store, persisted>>,
           NEW k \in Nat, k <= Len(msgs[t]), Len(msgs'[t]) = Len(msgs[t]) - k,
           \A i \in 1 .. Len(msgs'[t]) : msgs'[t][i] = msgs[t][k + i], said'[t] = said[t],
           at'[t] \in Past \ {"seed"} => at[t] \in Past \ {"seed"}
    PROVE  PlaceAt(t)'
<1>1. /\ Len(msgs[t]) \in Nat /\ said[t] \in Nat /\ DOMAIN msgs[t] = 1 .. Len(msgs[t])
      /\ Len(store) \in Nat /\ \A i \in DOMAIN msgs[t] : msgs[t][i].of \in Turns
      /\ DOMAIN store = 1 .. Len(store) /\ \A j \in DOMAIN store : store[j].n \in Nat
    BY Lengths, SaidType, MessageFields DEF Typed
<1>2. DOMAIN msgs'[t] = 1 .. Len(msgs'[t])
    BY TypedStep, Lengths DEF Typed
<1>3. \A v \in Turns : spoilt[v] \ {"append"} \subseteq spoilt'[v]
    BY SpoiltGrows DEF Typed
<1>4. ASSUME spoilt'[t] \cap {"seed", "expired"} = {}
      PROVE  /\ \A j \in DOMAIN store' :
                   store'[j].of = t => store'[j].n <= said'[t] - Len(msgs'[t]) + Len(store')
             /\ at'[t] \in Past \ {"seed"} => persisted'[t] <= Len(store')
  <2>1. spoilt[t] \cap {"seed", "expired"} = {}
    BY <1>3, <1>4
  <2>2. \A j \in DOMAIN store : store[j].of = t => store[j].n <= said[t] - Len(msgs[t]) + Len(store)
    BY <2>1 DEF PlaceAt
  <2>3. at[t] \in Past \ {"seed"} => persisted[t] <= Len(store)
    BY <2>1 DEF PlaceAt
  <2>4. said[t] - Len(msgs[t]) + Len(store) <= said'[t] - Len(msgs'[t]) + Len(store')
    BY <1>1
  <2> QED BY SMTT(40), <1>1, <2>2, <2>3, <2>4
<1>5. ASSUME NEW i \in DOMAIN msgs'[t], i <= Len(msgs'[t]) - said'[t]
      PROVE  i <= Len(store') \/ "expired" \in spoilt'[msgs'[t][i].of]
  <2>1. k + i \in DOMAIN msgs[t] /\ k + i <= Len(msgs[t]) - said[t] /\ i \in Nat
    BY SMTT(40), <1>1, <1>2, <1>5
  <2>2. msgs'[t][i] = msgs[t][k + i] /\ msgs[t][k + i].of \in Turns
    BY <1>1, <1>2, <2>1
  <2>3. k + i <= Len(store) \/ "expired" \in spoilt[msgs[t][k + i].of]
    BY <2>1 DEF PlaceAt
  <2>4. k + i <= Len(store) => i <= Len(store')
    BY <1>1, <2>1
  <2> QED BY <1>3, <2>2, <2>3, <2>4
<1> QED BY <1>4, <1>5 DEF PlaceAt

\* A round or the history is written by t.
LEMMA PlaceWrites ==
    ASSUME Typed, HandsInv, Next, NEW t \in Turns, LogStep(t), LogWrites(t), PlaceAt(t),
           NEW u \in Turns, PlaceAt(u), at'[u] \in Past \ {"seed"} => persisted'[u] <= Len(store')
                                                   \/ "seed" \in spoilt'[u] \/ "expired" \in spoilt'[u]
    PROVE  PlaceAt(u)'
<1>1. UNCHANGED <<msgs, said>> /\ at[t] \in {"seed", "persist"}
    BY LogSteps
<1>2. /\ \A v \in Turns : Len(msgs[v]) \in Nat /\ said[v] \in Nat /\ DOMAIN msgs[v] = 1 .. Len(msgs[v])
      /\ Len(store) \in Nat /\ DOMAIN store = 1 .. Len(store)
      /\ \A j \in DOMAIN store : store[j].n \in Nat
      /\ \A v \in Turns : \A i \in DOMAIN msgs[v] : msgs[v][i].of \in Turns /\ msgs[v][i].n \in Nat
    BY Lengths, SaidType, MessageFields DEF Typed
<1>3. DOMAIN store' = 1 .. Len(store') /\ Len(store') \in Nat
    BY TypedStep, Lengths DEF Typed
<1>4. \A v \in Turns : spoilt[v] \ {"append"} \subseteq spoilt'[v]
    BY SpoiltGrows DEF Typed
<1>5. PICK off \in Nat :
        /\ off >= Len(store) /\ Extends(store', msgs[t], off)
        /\ off = Len(store) \/ (at[t] = "persist" /\ persisted[t] > Len(store))
    BY DEF LogWrites
<1>6. /\ Len(store') = Len(store) + (IF off < Len(msgs[t]) THEN Len(msgs[t]) - off ELSE 0)
      /\ \A j \in 1 .. Len(store) : store'[j] = store[j]
      /\ \A j \in 1 .. Len(store') :
          j > Len(store) => /\ j - Len(store) + off \in 1 .. Len(msgs[t])
                            /\ store'[j] = msgs[t][j - Len(store) + off]
    BY <1>5 DEF Extends
<1>10. Len(store) \in Nat /\ Len(store') \in Nat /\ off >= Len(store)
    BY <1>2, <1>3, <1>5, Zenon
<1>11. off = Len(store) \/ (at[t] = "persist" /\ persisted[t] > Len(store))
    BY <1>5, Zenon
<1>7. Len(store) <= Len(store')
  <2>1. Len(store) \in Nat /\ Len(msgs[t]) \in Nat /\ off \in Nat
    BY <1>2
  <2>2. Len(store') = Len(store) + (IF off < Len(msgs[t]) THEN Len(msgs[t]) - off ELSE 0)
    BY <1>6
  <2> QED BY <2>1, <2>2
<1>8. ASSUME NEW j \in 1 .. Len(store'), store'[j].of = u, spoilt'[u] \cap {"seed", "expired"} = {}
      PROVE  store'[j].n <= said'[u] - Len(msgs'[u]) + Len(store')
  <2>1. spoilt[u] \cap {"seed", "expired"} = {}
    BY <1>4, <1>8
  <2>2. CASE j <= Len(store)
    <3>1. j \in DOMAIN store /\ store'[j] = store[j]
      BY <1>2, <1>6, <2>2
    <3>2. store[j].n <= said[u] - Len(msgs[u]) + Len(store)
      BY <1>8, <2>1, <3>1 DEF PlaceAt
    <3>3. said[u] - Len(msgs[u]) + Len(store) <= said'[u] - Len(msgs'[u]) + Len(store')
      BY <1>1, <1>2, <1>3, <1>7
    <3>4. store[j].n \in Nat /\ said[u] - Len(msgs[u]) + Len(store) \in Int
          /\ said'[u] - Len(msgs'[u]) + Len(store') \in Int
      BY <1>1, <1>2, <1>3, <3>1
    <3> QED BY <3>1, <3>2, <3>3, <3>4
  <2>3. CASE j > Len(store)
    <3> DEFINE i == j - Len(store) + off
    <3>1. i \in DOMAIN msgs[t] /\ i > Len(store) /\ store'[j] = msgs[t][i]
      <4>1. i \in 1 .. Len(msgs[t]) /\ store'[j] = msgs[t][i]
        BY <1>6, <2>3
      <4>2. j \in Nat /\ Len(store) \in Nat /\ off \in Nat /\ off >= Len(store)
        BY <1>10
      <4>3. i > Len(store)
        BY <2>3, <4>2
      <4> QED BY <1>2, <4>1, <4>3
    <3>9. i \in 1 .. Len(msgs[t])
      BY <1>2, <3>1
    <3> HIDE DEF i
    <3>2. CASE i <= Len(msgs[t]) - said[t]
      <4>1. i <= Len(store) \/ "expired" \in spoilt[msgs[t][i].of]
        BY <3>1, <3>2 DEF PlaceAt
      <4>2. "expired" \in spoilt[u]
        BY <1>2, <1>8, <3>1, <3>9, <4>1
      <4> QED BY <2>1, <4>2
    <3>3. CASE ~(i <= Len(msgs[t]) - said[t])
      <4>1. i > Len(msgs[t]) - said[t]
        BY <1>2, <3>3, <3>9
      <4>2. msgs[t][i].of = t /\ msgs[t][i].n = said[t] - Len(msgs[t]) + i
        BY <3>9, <4>1, MsgsSplit DEF HandsInv
      <4>3. u = t
        BY <1>8, <3>1, <4>2
      <4>4. off = Len(store)
        <5>1. at[t] = "persist" => persisted[t] <= Len(store)
          BY <2>1, <4>3 DEF PlaceAt, Past
        <5>2. persisted[t] \in Nat
          BY DEF Typed, ControlType
        <5> QED BY <1>10, <1>11, <5>1, <5>2
      <4>5. i = j
        BY <1>2, <1>3, <4>4 DEF i
      <4>6. said[t] - Len(msgs[t]) + j <= said'[u] - Len(msgs'[u]) + Len(store')
        BY <1>1, <1>2, <1>3, <4>3
      <4>7. store'[j].n = said[t] - Len(msgs[t]) + j
        BY <3>1, <4>2, <4>5, Zenon
      <4> QED BY <4>6, <4>7, Zenon
    <3> QED BY <3>2, <3>3
  <2> QED BY <1>2, <1>3, <2>2, <2>3
<1>9. ASSUME NEW i \in DOMAIN msgs'[u], i <= Len(msgs'[u]) - said'[u]
      PROVE  i <= Len(store') \/ "expired" \in spoilt'[msgs'[u][i].of]
  <2>1. i \in DOMAIN msgs[u] /\ i <= Len(msgs[u]) - said[u] /\ msgs'[u][i] = msgs[u][i] /\ i \in Nat
    BY <1>1, <1>2, <1>9
  <2>2. i <= Len(store) \/ "expired" \in spoilt[msgs[u][i].of]
    BY <2>1 DEF PlaceAt
  <2>3. msgs[u][i].of \in Turns
    BY <1>2, <2>1
  <2> QED BY <1>2, <1>3, <1>4, <1>7, <2>1, <2>2, <2>3
<1> QED BY <1>3, <1>8, <1>9 DEF PlaceAt

LEMMA ExtendsGrows ==
    ASSUME Typed, NEW t \in Turns, NEW off \in Nat, Extends(store', msgs[t], off)
    PROVE  /\ Len(store') \in Nat /\ Len(store) <= Len(store')
           /\ \A j \in 1 .. Len(store) : store'[j] = store[j]
           /\ off = Len(store) => Len(msgs[t]) <= Len(store')
<1>1. Len(store) \in Nat /\ Len(msgs[t]) \in Nat
    BY Lengths DEF Typed
<1>2. Len(store') = Len(store) + (IF off < Len(msgs[t]) THEN Len(msgs[t]) - off ELSE 0)
    BY DEF Extends
<1>3. Len(store') \in Nat /\ Len(store) <= Len(store') /\ (off = Len(store) => Len(msgs[t]) <= Len(store'))
    BY <1>1, <1>2
<1> QED BY <1>3 DEF Extends

\* The store keeps what it has, unless it expires or fullSave writes it back.
LEMMA StoreKept ==
    ASSUME Typed, Next, ~Expires, \A t \in Turns : ~FullSave(t)
    PROVE  /\ Len(store') \in Nat /\ Len(store) <= Len(store')
           /\ \A j \in 1 .. Len(store) : store'[j] = store[j]
<1>1. Len(store) \in Nat /\ store \in Seq(Messages) /\ \A t \in Turns : new[t] \in Seq(Messages)
    BY Lengths DEF Typed, SeqType
<1>2. CASE UNCHANGED store
    BY <1>1, <1>2
<1>3. ASSUME NEW t \in Turns, LogWrites(t)
      PROVE  /\ Len(store') \in Nat /\ Len(store) <= Len(store')
             /\ \A j \in 1 .. Len(store) : store'[j] = store[j]
    BY <1>3, ExtendsGrows DEF LogWrites
<1>4. ASSUME NEW t \in Turns, store' = store \o new[t]
      PROVE  /\ Len(store') \in Nat /\ Len(store) <= Len(store')
             /\ \A j \in 1 .. Len(store) : store'[j] = store[j]
  <2>1. new[t] \in Seq(Messages) /\ Len(new[t]) \in Nat
    BY <1>1, DomainIs
  <2>2. /\ Len(store \o new[t]) = Len(store) + Len(new[t])
        /\ \A j \in 1 .. Len(store) : (store \o new[t])[j] = store[j]
    BY <1>1, <2>1, ConcatIs
  <2> QED BY <1>1, <1>4, <2>1, <2>2
<1>5. CASE Crash \/ \E t \in Turns : PersistPanics(t)
    BY <1>2, <1>5 DEF Crash, PersistPanics
<1>6. ASSUME NEW t \in Turns, QuietStep(t) PROVE UNCHANGED store
    BY <1>6, QuietSteps
<1>7. ASSUME NEW t \in Turns, LogStep(t) PROVE UNCHANGED store \/ LogWrites(t)
    BY <1>7, LogSteps
<1>8. ASSUME NEW t \in Turns, Save(t) PROVE UNCHANGED store \/ store' = store \o new[t]
    BY <1>8, SaveSteps
<1> QED BY <1>2, <1>3, <1>4, <1>5, <1>6, <1>7, <1>8, StepKinds

LEMMA NoFullSave == ASSUME HandsInv, mode = "log" PROVE \A t \in Turns : ~FullSave(t)
BY DEF HandsInv, WriteInv, FullSave

\* What the tool loop takes for stored is stored.
LEMMA PersistedStep ==
    ASSUME Typed, HandsInv, mode = "log", Next, NEW u \in Turns, PlaceAt(u),
           at'[u] \in Past \ {"seed"}, spoilt'[u] \cap {"seed", "expired"} = {}
    PROVE  persisted'[u] <= Len(store')
<1>1. /\ spoilt[u] \cap {"seed", "expired"} = {} /\ persisted[u] \in Nat
      /\ Len(store) \in Nat /\ Len(msgs[u]) \in Nat /\ Past \cap Over = {}
  <2>1. spoilt[u] \ {"append"} \subseteq spoilt'[u]
    BY SpoiltGrows DEF Typed
  <2> QED BY <2>1, Lengths DEF Typed, ControlType, Past, Over
<1>2. at[u] \in Past \ {"seed"} => persisted[u] <= Len(store)
    BY <1>1 DEF PlaceAt
<1>3. CASE Expires
  <2>1. "expired" \in spoilt'[u]
    BY <1>3 DEF Expires, Past
  <2> QED BY <2>1
<1>4. CASE ~Expires
  <2>1. Len(store') \in Nat /\ Len(store) <= Len(store')
    BY <1>4, StoreKept, NoFullSave
  <2>2. ASSUME at[u] \in Past \ {"seed"}, persisted'[u] = persisted[u]
        PROVE  persisted'[u] <= Len(store')
    BY <1>1, <1>2, <2>1, <2>2
  <2>3. CASE Crash \/ \E t \in Turns : PersistPanics(t)
    <3>1. at'[u] = at[u] /\ persisted'[u] = persisted[u]
      BY <2>3, WorldStep DEF Typed, Past
    <3> QED BY <2>2, <3>1
  <2>4. ASSUME NEW t \in Turns, t # u, QuietStep(t) \/ LogStep(t) \/ Save(t) \/ FullSave(t), ~PersistPanics(t)
        PROVE  persisted'[u] <= Len(store')
    <3>1. at'[u] = at[u] /\ persisted'[u] = persisted[u]
      BY <2>4, IsTurnStep, OthersStay DEF Typed, Others, Past
    <3> QED BY <2>2, <3>1
  <2>5. CASE QuietStep(u) \/ Save(u)
    <3>1. at \in [Turns -> Labels]
      BY DEF Typed, ControlType
    <3>2. ~Load(u) /\ ~LoadFails(u) /\ ~Send(u) /\ \A v \in Turns : ~Resume(u, v)
      BY <1>1, <3>1 DEF Load, LoadFails, Send, Resume, Starts, Goes, Past
    <3>3. at[u] \in Past \ {"seed"} /\ persisted'[u] = persisted[u]
      BY <2>5, <3>2 DEF QuietStep, RoundFails, ModelAnswers, ModelCalls, ExecuteToolCalls, NextRound, Emit,
                        SaveFails, Save, Past
    <3> QED BY <2>2, <3>3
  <2>6. CASE PersistFails(u)
    BY <2>2, <2>6 DEF PersistFails, Past
  <2>7. CASE PreSeedFails(u)
    BY <2>7 DEF PreSeedFails, Spoil, Typed, ControlType
  <2>8. CASE PreSeedLog(u)
    <3>1. at[u] = "seed" /\ persisted[u] = Len(msgs[u])
      BY <2>8 DEF PreSeedLog, Typed, SaidInv, SaidAt
    <3>2. CASE Seeds(u)
      <4>1. Extends(LogAppend(0, msgs[u]), msgs[u], Len(store))
        BY SeedWrites DEF Typed
      <4>2. store' = LogAppend(0, msgs[u])
            /\ persisted'[u] = IF Len(store') > persisted[u] THEN Len(store') ELSE persisted[u]
        BY <2>8, <3>2 DEF PreSeedLog, NewTotal, Typed, ControlType
      <4>3. Len(msgs[u]) <= Len(store')
        BY <1>1, <4>1, <4>2, ExtendsGrows
      <4> QED BY <1>1, <2>1, <3>1, <4>2, <4>3
    <3>3. CASE ~Seeds(u)
      <4>1. persisted[u] = 0
        BY <1>1, <3>3 DEF Seeds
      <4>2. persisted'[u] = persisted[u]
        BY <2>8, <3>3 DEF PreSeedLog
      <4> QED BY <2>1, <4>1, <4>2
    <3> QED BY <3>2, <3>3
  <2>9. CASE PersistMessages(u)
    <3>1. CASE persisted[u] < Len(msgs[u])
      <4>1. persisted'[u] = Len(store')
        BY <2>9, <3>1 DEF PersistMessages, NewTotal, Typed, ControlType
      <4> QED BY <2>1, <4>1
    <3>2. CASE ~(persisted[u] < Len(msgs[u]))
      BY <2>2, <2>9, <3>2 DEF PersistMessages, Past
    <3> QED BY <3>1, <3>2
  <2> QED BY <1>4, <2>3, <2>4, <2>5, <2>6, <2>7, <2>8, <2>9, StepKinds, NoFullSave DEF LogStep
<1> QED BY <1>3, <1>4

LEMMA PlaceExpires ==
    ASSUME Typed, HandsInv, Expires, NEW u \in Turns
    PROVE  PlaceAt(u)'
<1>1. store' = <<>> /\ UNCHANGED <<msgs, said, at>>
    BY DEF Expires
<1>2. DOMAIN store' = {}
    BY <1>1
<1>3. at[u] \in Past => "expired" \in spoilt'[u]
    BY DEF Expires, Past
<1>4. ASSUME NEW i \in DOMAIN msgs[u], i <= Len(msgs[u]) - said[u] PROVE "expired" \in spoilt'[msgs[u][i].of]
  <2>1. /\ i \in 1 .. Len(msgs[u]) /\ Len(msgs[u]) \in Nat /\ said[u] \in Nat
        /\ msgs[u][i].of \in Turns
    BY Lengths, SaidType, MessageFields DEF Typed
  <2>2. ~(i > Len(msgs[u]) - said[u])
    BY <1>4, <2>1
  <2>3. Known(msgs[u][i])
    BY <2>1, <2>2, MsgsSplit DEF HandsInv
  <2> QED BY <2>1, <2>3 DEF Expires, Known
<1> QED BY <1>1, <1>2, <1>3, <1>4 DEF PlaceAt

LEMMA PlaceStep ==
    ASSUME Typed, HandsInv, mode = "log", \A t \in Turns : PlaceAt(t), Next, NEW u \in Turns
    PROVE  PlaceAt(u)'
<1>1. /\ ControlType /\ SeqType /\ PlaceAt(u) /\ at \in [Turns -> Labels]
      /\ \A k \in {"user", "calls", "results", "answer"} : k \in Kinds
    BY DEF Typed, ControlType, Kinds
<1>2. at'[u] \in Past \ {"seed"} => persisted'[u] <= Len(store')
                                  \/ "seed" \in spoilt'[u] \/ "expired" \in spoilt'[u]
    BY <1>1, PersistedStep
<1>3. ASSUME UNCHANGED store, msgs'[u] = msgs[u], said'[u] = said[u] PROVE PlaceAt(u)'
    BY <1>1, <1>2, <1>3, PlaceStays
<1>4. CASE Crash \/ \E t \in Turns : PersistPanics(t)
    BY <1>3, <1>4 DEF Crash, PersistPanics
<1>5. CASE Expires
    BY <1>5, PlaceExpires
<1>6. ASSUME NEW t \in Turns, LogStep(t) PROVE PlaceAt(u)'
  <2>1. UNCHANGED <<msgs, said>> /\ (UNCHANGED store \/ LogWrites(t))
    BY <1>6, LogSteps
  <2>2. CASE UNCHANGED store
    BY <1>3, <2>1, <2>2
  <2>3. CASE LogWrites(t)
    BY <1>1, <1>2, <1>6, <2>3, PlaceWrites
  <2> QED BY <2>1, <2>2, <2>3
<1>7. ASSUME NEW t \in Turns, Save(t) PROVE PlaceAt(u)'
  <2>1. UNCHANGED <<msgs, said, store>>
    BY <1>7, SaveSteps
  <2> QED BY <1>3, <2>1
<1>8. ASSUME NEW t \in Turns, t # u, QuietStep(t), ~PersistPanics(t) PROVE PlaceAt(u)'
  <2>1. UNCHANGED store /\ msgs'[u] = msgs[u] /\ said'[u] = said[u]
    BY <1>1, <1>8, QuietSteps, IsTurnStep, OthersStay DEF Others
  <2> QED BY <1>3, <2>1
<1>9. CASE QuietStep(u)
  <2>1. UNCHANGED store
    BY <1>9, QuietSteps
  <2>2. CASE Load(u)
    BY <1>1, <2>2, PlaceLoad
  <2>3. CASE LoadFails(u)
    <3>1. at[u] = "load" /\ at'[u] = "seed" /\ msgs'[u] = <<>>
      BY <1>1, <2>3 DEF LoadFails, Goes, SeqType
    <3>2. \A j \in DOMAIN store : store[j].of # u
      BY <3>1, NotYetStored
    <3>3. DOMAIN msgs'[u] = {}
      BY <3>1
    <3> QED BY <2>1, <3>1, <3>2, <3>3 DEF PlaceAt
  <2>4. ASSUME NEW kind \in Kinds, Says(u, kind), UNCHANGED persisted,
               at'[u] \in Past \ {"seed"} => at[u] \in Past \ {"seed"}
        PROVE  PlaceAt(u)'
    BY <1>1, <2>1, <2>4, PlaceSays
  <2>5. CASE Send(u) \/ \E v \in Turns : Resume(u, v)
    <3>1. \E kind \in Kinds : Says(u, kind) /\ UNCHANGED persisted
      BY <1>1, <2>5, Zenon DEF Send, Resume, Starts
    <3>2. at'[u] = "load"
      BY <1>1, <2>5 DEF Send, Resume, Starts, Goes
    <3> QED BY <2>4, <3>1, <3>2 DEF Past
  <2>6. CASE ModelAnswers(u) \/ ModelCalls(u) \/ ExecuteToolCalls(u)
    <3>1. at[u] \in Past \ {"seed"} /\ UNCHANGED persisted
      BY <2>6 DEF ModelAnswers, ModelCalls, ExecuteToolCalls, Past
    <3>2. (\E kind \in Kinds : Says(u, kind)) \/ UNCHANGED <<msgs, said>>
      BY <1>1, <2>6, Zenon DEF ModelAnswers, ModelCalls, ExecuteToolCalls
    <3> QED BY <1>3, <2>1, <2>4, <3>1, <3>2
  <2>7. CASE RoundFails(u) \/ Emit(u) \/ SaveFails(u)
    BY <1>3, <2>1, <2>7 DEF RoundFails, Emit, SaveFails
  <2>8. CASE NextRound(u)
    <3>1. CASE UNCHANGED msgs
      BY <1>3, <2>1, <2>8, <3>1 DEF NextRound
    <3>2. CASE \E k \in 1 .. Len(msgs[u]) - Pinned : msgs' = [msgs EXCEPT ![u] = SubSeq(@, k + 1, Len(@))]
      <4>1. PICK k \in 1 .. Len(msgs[u]) - Pinned : msgs' = [msgs EXCEPT ![u] = SubSeq(@, k + 1, Len(@))]
        BY <3>2
      <4>2. Len(msgs[u]) \in Nat /\ Pinned \in Nat /\ msgs \in [Turns -> Seq(Messages)]
        BY <1>1, Lengths, PersistenceAssumption DEF SeqType
      <4>3. k \in Nat /\ k <= Len(msgs[u]) /\ msgs[u] \in Seq(Messages)
        BY <4>2
      <4>4. msgs'[u] = SubSeq(msgs[u], k + 1, Len(msgs[u]))
        BY <4>1, <4>2
      <4>5. /\ Len(SubSeq(msgs[u], k + 1, Len(msgs[u]))) = Len(msgs[u]) - k
            /\ \A i \in 1 .. Len(SubSeq(msgs[u], k + 1, Len(msgs[u]))) :
                  SubSeq(msgs[u], k + 1, Len(msgs[u]))[i] = msgs[u][k + i]
        BY <4>3, CutIs
      <4>6. said'[u] = said[u] /\ UNCHANGED persisted /\ at[u] \in Past \ {"seed"}
        BY <2>8 DEF NextRound, Past
      <4> DEFINE r == msgs'[u]
      <4>7. Len(r) = Len(msgs[u]) - k /\ \A i \in 1 .. Len(r) : r[i] = msgs[u][k + i]
        BY <4>4, <4>5, Zenon
      <4> QED BY <1>1, <2>1, <4>3, <4>6, <4>7, PlaceCut
    <3> QED BY <2>8, <3>1, <3>2 DEF NextRound
  <2> QED BY <1>9, <2>2, <2>3, <2>5, <2>6, <2>7, <2>8 DEF QuietStep
<1> QED BY <1>4, <1>5, <1>6, <1>7, <1>8, <1>9, StepKinds, NoFullSave

LEMMA TwiceStep ==
    ASSUME Typed, HandsInv, mode = "log", \A t \in Turns : PlaceAt(t), NothingTwice, Next
    PROVE  NothingTwice'
<1>1. /\ Len(store) \in Nat /\ DOMAIN store = 1 .. Len(store) /\ DOMAIN store' = 1 .. Len(store')
      /\ Len(store') \in Nat /\ \A j \in 1 .. Len(store) : store[j].of \in Turns /\ store[j].n \in Nat
    BY Lengths, TypedStep, MessageFields DEF Typed
<1>2. \A v \in Turns : spoilt[v] \ {"append"} \subseteq spoilt'[v]
    BY SpoiltGrows DEF Typed
<1>3. CASE UNCHANGED store
    BY <1>1, <1>2, <1>3 DEF NothingTwice
<1>4. CASE Expires
  <2>1. DOMAIN store' = {}
    BY <1>4 DEF Expires
  <2> QED BY <2>1 DEF NothingTwice
<1>5. ASSUME NEW t \in Turns, LogStep(t), LogWrites(t) PROVE NothingTwice'
  <2>1. PICK off \in Nat :
          /\ off >= Len(store) /\ Extends(store', msgs[t], off)
          /\ off = Len(store) \/ (at[t] = "persist" /\ persisted[t] > Len(store))
    BY <1>5 DEF LogWrites
  <2>2. /\ Len(msgs[t]) \in Nat /\ said[t] \in Nat /\ DOMAIN msgs[t] = 1 .. Len(msgs[t])
        /\ MsgsAt(t) /\ PlaceAt(t) /\ persisted[t] \in Nat /\ at[t] \in {"seed", "persist"}
    BY <1>5, Lengths, SaidType, LogSteps DEF Typed, HandsInv, ControlType
  <2>3. \A j \in 1 .. Len(store) : store'[j] = store[j]
    BY <2>1 DEF Extends
  <2>4. ASSUME NEW j \in 1 .. Len(store'), j > Len(store), spoilt[store'[j].of] \cap {"seed", "expired"} = {}
        PROVE  /\ store'[j].of = t
               /\ store'[j].n = said[t] - Len(msgs[t]) + (j - Len(store) + off)
    <3> DEFINE i == j - Len(store) + off
    <3>1. i \in 1 .. Len(msgs[t]) /\ store'[j] = msgs[t][i]
      BY <2>1, <2>4 DEF Extends
    <3>2. j \in Nat /\ Len(store) \in Nat
      BY <1>1
    <3>3. off \in Nat /\ off >= Len(store)
      BY <2>1, Zenon
    <3>6. i > Len(store)
      BY <2>4, <3>2, <3>3
    <3> HIDE DEF i
    <3>4. CASE i <= Len(msgs[t]) - said[t]
      <4>1. i <= Len(store) \/ "expired" \in spoilt[msgs[t][i].of]
        BY <2>2, <3>1, <3>4 DEF PlaceAt
      <4> QED BY <1>1, <2>2, <2>4, <3>1, <3>6, <4>1
    <3>5. CASE ~(i <= Len(msgs[t]) - said[t])
      <4>1. i > Len(msgs[t]) - said[t]
        BY <2>2, <3>1, <3>5
      <4>2. msgs[t][i].of = t /\ msgs[t][i].n = said[t] - Len(msgs[t]) + i
        BY <2>2, <3>1, <4>1, MsgsSplit
      <4> QED BY <3>1, <4>2 DEF i
    <3> QED BY <3>4, <3>5
  <2>5. ASSUME NEW i \in 1 .. Len(store'), NEW j \in 1 .. Len(store'), i < j,
               store'[i].of = store'[j].of, spoilt'[store'[i].of] \cap {"seed", "expired"} = {},
               store'[i].of \in Turns
        PROVE  store'[i].n < store'[j].n
    <3>1. spoilt[store'[i].of] \cap {"seed", "expired"} = {}
      BY <1>2, <2>5
    <3>2. i \in Nat /\ j \in Nat
      BY <1>1
    <3>3. CASE j <= Len(store)
      <4>1. i \in 1 .. Len(store) /\ j \in 1 .. Len(store) /\ store'[i] = store[i] /\ store'[j] = store[j]
        BY <1>1, <2>3, <2>5, <3>2, <3>3
      <4> QED BY <1>1, <2>5, <3>1, <4>1 DEF NothingTwice
    <3>4. CASE j > Len(store) /\ i > Len(store)
      <4>1. /\ store'[i].n = said[t] - Len(msgs[t]) + (i - Len(store) + off)
            /\ store'[j].n = said[t] - Len(msgs[t]) + (j - Len(store) + off)
        BY <2>4, <2>5, <3>1, <3>4
      <4>2. said[t] \in Nat /\ Len(msgs[t]) \in Nat /\ Len(store) \in Nat /\ off \in Nat
        BY <1>1, <2>2
      <4> QED BY <2>5, <3>2, <4>1, <4>2
    <3>5. CASE j > Len(store) /\ i <= Len(store)
      <4>1. store'[j].of = t /\ store'[j].n = said[t] - Len(msgs[t]) + (j - Len(store) + off)
        BY <2>4, <2>5, <3>1, <3>5
      <4>2. i \in DOMAIN store /\ store'[i] = store[i] /\ store[i].of = t /\ store[i].n \in Nat
        BY <1>1, <2>3, <2>5, <3>2, <3>5, <4>1
      <4>3. store[i].n <= said[t] - Len(msgs[t]) + Len(store)
        BY <2>2, <3>1, <4>1, <4>2 DEF PlaceAt
      <4>4. said[t] \in Nat /\ Len(msgs[t]) \in Nat /\ Len(store) \in Nat /\ off \in Nat /\ off >= Len(store)
        BY <1>1, <2>1, <2>2
      <4>5. said[t] - Len(msgs[t]) + Len(store) < said[t] - Len(msgs[t]) + (j - Len(store) + off)
        BY <3>2, <3>5, <4>4
      <4>6. store[i].n < store'[j].n
        BY <3>2, <4>1, <4>2, <4>3, <4>4, <4>5
      <4> QED BY <4>2, <4>6
    <3> QED BY <1>1, <3>2, <3>3, <3>4, <3>5
  <2>6. \A i \in 1 .. Len(store') : store'[i].of \in Turns
    <3>1. store' \in Seq(Messages)
      BY TypedStep DEF Typed, SeqType
    <3>2. \A i \in 1 .. Len(store') : store'[i] \in Messages
      BY <3>1
    <3> QED BY <3>2, MessageFields
  <2> QED BY <1>1, <2>5, <2>6 DEF NothingTwice
<1>6. CASE Crash \/ \E t \in Turns : PersistPanics(t)
    BY <1>3, <1>6 DEF Crash, PersistPanics
<1>7. ASSUME NEW t \in Turns, QuietStep(t) \/ Save(t) PROVE UNCHANGED store
    BY <1>7, QuietSteps, SaveSteps
<1>8. ASSUME NEW t \in Turns, LogStep(t) PROVE NothingTwice'
    BY <1>3, <1>5, <1>8, LogSteps
<1> QED BY <1>3, <1>4, <1>6, <1>7, <1>8, StepKinds, NoFullSave

\* A turn that returned has returned.
LEMMA ReturnedStays ==
    ASSUME Typed, Next, NEW u \in Turns, at[u] \in Returned
    PROVE  at'[u] \in Returned
<1>1. at[u] \in {"suspended", "done"}
    BY DEF Returned
<1>2. CASE Crash \/ Expires \/ \E t \in Turns : PersistPanics(t)
    BY <1>1, <1>2, WorldStep DEF Typed, Over
<1>3. ASSUME NEW t \in Turns, QuietStep(t) \/ LogStep(t) \/ Save(t) \/ FullSave(t), ~PersistPanics(t)
      PROVE  at'[u] \in Returned
  <2>1. Others(t)
    BY <1>3, IsTurnStep, OthersStay DEF Typed
  <2>2. u # t
    BY <1>1, <1>3 DEF QuietStep, LogStep, Save, FullSave, Send, Load, LoadFails, RoundFails, ModelAnswers,
            ModelCalls, ExecuteToolCalls, NextRound, Emit, SaveFails, Resume, Starts, PreSeedLog, PreSeedFails,
            PersistMessages, PersistFails
  <2> QED BY <1>1, <2>1, <2>2 DEF Others, Returned
<1> QED BY <1>2, <1>3, StepKinds

LEMMA SavedStays ==
    ASSUME Typed, Next, NEW q \in Seq(Messages), SavedIn(q)
    PROVE  \A i \in DOMAIN q : at'[q[i].of] \in Returned
<1>1. ASSUME NEW i \in DOMAIN q PROVE at'[q[i].of] \in Returned
  <2>1. q[i] \in Messages /\ at[q[i].of] \in Returned
    BY DEF SavedIn
  <2> QED BY <2>1, MessageFields, ReturnedStays
<1> QED BY <1>1

\* A turn that returns is not stored yet, and all its messages follow at once.
LEMMA SavedAppend ==
    ASSUME Typed, Next, NEW t \in Turns, NewAt(t), at[t] \notin Returned, at'[t] \in Returned,
           NEW q \in Seq(Messages), SavedIn(q)
    PROVE  Ordered(q \o new[t]) /\ \A i \in DOMAIN (q \o new[t]) : at'[(q \o new[t])[i].of] \in Returned
<1> DEFINE r == q \o new[t]
<1>1. /\ new[t] \in Seq(Messages) /\ Len(q) \in Nat /\ DOMAIN q = 1 .. Len(q)
      /\ DOMAIN new[t] = 1 .. Len(new[t]) /\ Len(new[t]) \in Nat
    BY DEF Typed, SeqType
<1>2. /\ r \in Seq(Messages) /\ Len(r) = Len(q) + Len(new[t])
      /\ \A i \in 1 .. Len(q) : r[i] = q[i]
      /\ \A i \in 1 .. Len(r) : i > Len(q) => r[i] = new[t][i - Len(q)]
    BY <1>1, ConcatIs
<1>3. DOMAIN r = 1 .. Len(r) /\ Len(r) \in Nat
    BY <1>2
<1> HIDE DEF r
<1>4. ASSUME NEW i \in 1 .. Len(r)
      PROVE  \/ i \in 1 .. Len(q) /\ r[i] = q[i] /\ at[r[i].of] \in Returned /\ r[i].of # t
             \/ i \notin 1 .. Len(q) /\ i - Len(q) \in 1 .. Len(new[t]) /\ r[i] = new[t][i - Len(q)] /\ r[i].of = t
  <2>1. CASE i <= Len(q)
    <3>1. i \in 1 .. Len(q)
      BY <1>1, <1>3, <2>1
    <3> QED BY <1>1, <1>2, <3>1 DEF SavedIn
  <2>2. CASE i > Len(q)
    <3>1. i \notin 1 .. Len(q) /\ i - Len(q) \in 1 .. Len(new[t])
      BY <1>1, <1>2, <1>3, <2>2
    <3>2. r[i] = new[t][i - Len(q)]
      BY <1>2, <2>2
    <3>3. new[t][i - Len(q)].of = t
      BY <1>1, <3>1 DEF NewAt
    <3> QED BY <3>1, <3>2, <3>3, Zenon
  <2> QED BY <1>1, <1>3, <2>1, <2>2
<1>5. ASSUME NEW i \in 1 .. Len(r), NEW j \in 1 .. Len(r), i < j, r[i].of = r[j].of
      PROVE  r[i].n < r[j].n
  <2>1. CASE i \in 1 .. Len(q)
    <3>1. r[i] = q[i] /\ r[i].of # t
      BY <1>4, <2>1
    <3>2. j \in 1 .. Len(q) /\ r[j] = q[j]
      BY <1>4, <1>5, <3>1
    <3> QED BY <1>1, <1>5, <2>1, <3>1, <3>2 DEF SavedIn, Ordered
  <2>2. CASE i \notin 1 .. Len(q)
    <3>1. r[i].of = t /\ r[i] = new[t][i - Len(q)] /\ i - Len(q) \in 1 .. Len(new[t])
      BY <1>4, <2>2
    <3>2. r[j] = new[t][j - Len(q)] /\ j - Len(q) \in 1 .. Len(new[t])
      BY <1>4, <1>5, <3>1
    <3>3. i - Len(q) < j - Len(q)
      BY <1>1, <1>3, <1>5
    <3> QED BY <1>1, <3>1, <3>2, <3>3 DEF NewAt
  <2> QED BY <2>1, <2>2
<1>6. ASSUME NEW i \in 1 .. Len(r) PROVE at'[r[i].of] \in Returned
  <2>1. r[i].of = t \/ at[r[i].of] \in Returned
    BY <1>4
  <2>2. r[i].of \in Turns
    BY <1>2, MessageFields
  <2> QED BY <2>1, <2>2, ReturnedStays
<1> QED BY <1>3, <1>5, <1>6 DEF Ordered, r

LEMMA SavedStep ==
    ASSUME Typed, HandsInv, mode # "log", SavedInv, Next PROVE SavedInv'
<1>1. /\ store \in Seq(Messages) /\ snapshot \in [Turns -> Seq(Messages)]
      /\ SavedIn(store) /\ \A u \in Turns : SavedIn(snapshot[u]) /\ NewAt(u)
    BY DEF Typed, SeqType, SavedInv, HandsInv
<1>2. ASSUME NEW q \in Seq(Messages), SavedIn(q)
      PROVE  Ordered(q) /\ \A i \in DOMAIN q : at'[q[i].of] \in Returned
    BY <1>2, SavedStays DEF SavedIn
<1>3. \A u \in Turns : Ordered(snapshot'[u]) /\ \A i \in DOMAIN snapshot'[u] : at'[snapshot'[u][i].of] \in Returned
    BY <1>1, <1>2, SnapshotSources
<1>4. ASSUME NEW t \in Turns, NEW q \in Seq(Messages), SavedIn(q), store' = q \o new[t],
             at[t] \notin Returned, at'[t] \in Returned
      PROVE  Ordered(store') /\ \A i \in DOMAIN store' : at'[store'[i].of] \in Returned
    BY <1>1, <1>4, SavedAppend
<1>5. Ordered(store') /\ \A i \in DOMAIN store' : at'[store'[i].of] \in Returned
  <2>1. CASE UNCHANGED store
    BY <1>1, <1>2, <2>1
  <2>2. CASE Expires
    <3>1. DOMAIN store' = {}
      BY <2>2 DEF Expires
    <3> QED BY <3>1 DEF Ordered
  <2>3. CASE Crash \/ \E t \in Turns : PersistPanics(t)
    BY <2>1, <2>3 DEF Crash, PersistPanics
  <2>4. ASSUME NEW t \in Turns, QuietStep(t) \/ LogStep(t) PROVE UNCHANGED store
    BY <2>4, QuietSteps, LogSteps
  <2>5. ASSUME NEW t \in Turns, Save(t), store' # store
        PROVE  store' = store \o new[t] /\ at[t] = "save" /\ at'[t] \in Returned
    BY <2>5, SaveSteps
  <2>6. ASSUME NEW t \in Turns, FullSave(t)
        PROVE  store' = snapshot[t] \o new[t] /\ at[t] = "write" /\ at'[t] \in Returned
    BY <2>6, FullSaveSteps
  <2>7. "save" \notin Returned /\ "write" \notin Returned
    BY DEF Returned
  <2>8. ASSUME NEW t \in Turns, Save(t) \/ FullSave(t)
        PROVE  Ordered(store') /\ \A i \in DOMAIN store' : at'[store'[i].of] \in Returned
    BY <1>1, <1>4, <2>1, <2>5, <2>6, <2>7, <2>8
  <2> QED BY <2>1, <2>2, <2>3, <2>4, <2>8, StepKinds
<1> QED BY <1>3, <1>5 DEF SavedInv, SavedIn, Ordered

LEMMA OrderStep == ASSUME Typed, HandsInv, OrderInv, Next PROVE OrderInv'
<1>1. UNCHANGED mode
    BY ConfigStays
<1>2. CASE mode = "log"
  <2>1. (\A t \in Turns : PlaceAt(t)) /\ NothingTwice
    BY <1>2 DEF OrderInv
  <2>2. NothingTwice'
    BY <1>2, <2>1, TwiceStep
  <2>3. \A t \in Turns : PlaceAt(t)'
    BY <1>2, <2>1, PlaceStep
  <2> QED BY <1>1, <1>2, <2>2, <2>3 DEF OrderInv
<1>3. CASE mode # "log"
  <2>1. SavedInv'
    BY <1>3, SavedStep DEF OrderInv
  <2> QED BY <1>1, <1>3, <2>1 DEF OrderInv
<1> QED BY <1>2, <1>3

LEMMA OrderInit == Init => OrderInv
<1> SUFFICES ASSUME Init PROVE OrderInv
  OBVIOUS
<1>1. store = <<>> /\ \A t \in Turns : msgs[t] = <<>> /\ snapshot[t] = <<>> /\ at[t] = "idle"
    BY DEF Init
<1>2. \A t \in Turns : PlaceAt(t)
    BY <1>1 DEF PlaceAt, Past
<1> QED BY <1>1, <1>2 DEF OrderInv, NothingTwice, SavedInv, SavedIn, Ordered

\* What is proved together of every behaviour.
LEMMA Hands == Spec => [](Typed /\ HandsInv)
<1>1. Init => Typed /\ HandsInv
    BY TypeInit, HandsInit DEF Typed
<1>2. Typed /\ HandsInv /\ [Next]_vars => (Typed /\ HandsInv)'
  <2> SUFFICES ASSUME Typed, HandsInv, [Next]_vars PROVE Typed' /\ HandsInv'
    OBVIOUS
  <2>1. Typed'
    BY TypedStep
  <2>2. CASE Next
    BY <2>1, <2>2, HandsStep
  <2>3. CASE UNCHANGED vars
    BY <2>1, <2>3 DEF vars, config, HandsInv, MsgsAt, NewAt, KnownInv, WriteInv, Known
  <2> QED BY <2>1, <2>2, <2>3
<1> QED BY <1>1, <1>2, PTL DEF Spec

LEMMA Order == Spec => []OrderInv
<1>1. Typed /\ HandsInv /\ OrderInv /\ [Next]_vars => OrderInv'
  <2> SUFFICES ASSUME Typed, HandsInv, OrderInv, [Next]_vars PROVE OrderInv'
    OBVIOUS
  <2>1. CASE Next
    BY <2>1, OrderStep
  <2>2. CASE UNCHANGED vars
    BY <2>2 DEF vars, config, OrderInv, PlaceAt, NothingTwice, SavedInv, SavedIn, Ordered
  <2> QED BY <2>1, <2>2
<1> QED BY <1>1, OrderInit, Hands, PTL DEF Spec

\* Nothing is stored twice or out of order, in any of the three modes, however
\* turns overlap and whatever is sent again (memory.go LogAppend, stages_provider.go
\* preSeedLog and persistMessages, stages_save.go), except for a turn whose
\* pre-seed failed or under which the conversation expired.
THEOREM NothingIsStoredTwice == Spec => []NothingTwice
<1>1. OrderInv => NothingTwice
    BY DEF OrderInv, SavedInv, SavedIn, Ordered, NothingTwice
<1> QED BY <1>1, Order, PTL

-----------------------------------------------------------------------------
(* What is stored stays.                                                   *)

\* A turn that nothing overlaps makes every step while it is under way.
LEMMA Alone ==
    ASSUME Typed, Next, NEW u \in Turns, at[u] \notin Over, at'[u] \notin Over, "overlap" \notin spoilt'[u]
    PROVE  /\ Active = {u} /\ "overlap" \notin spoilt[u]
           /\ Expires \/ (TurnStep(u) /\ ~PersistPanics(u))
<1>1. at \in [Turns -> Labels] /\ spoilt \in [Turns -> SUBSET Excusable]
    BY DEF Typed, ControlType
<1>2. "overlap" \notin spoilt[u]
    BY SpoiltGrows DEF Typed
<1>3. Active = {u}
    BY <1>2 DEF Typed, OverlapInv, Active
<1>4. ASSUME NEW t \in Turns, NEW kind, Starts(t, kind) PROVE FALSE
    BY <1>1, <1>3, <1>4 DEF Starts
<1>5. ASSUME NEW t \in Turns, TurnStep(t), ~PersistPanics(t) PROVE t = u
  <2>1. at[t] \in Past \cup {"load"}
    BY <1>5, LabelsMove DEF Typed
  <2> QED BY <1>3, <2>1 DEF Active, Over, Past
<1>6. CASE Crash \/ \E t \in Turns : PersistPanics(t)
  <2>1. at'[u] \in {"lost", "panic"}
    BY <1>3, <1>6 DEF Crash, PersistPanics
  <2> QED BY <2>1 DEF Over
<1> QED BY <1>2, <1>3, <1>4, <1>5, <1>6 DEF Next, Send, Resume

LEMMA CurrentStep == ASSUME Typed, HandsInv, CurrentInv, Next PROVE CurrentInv'
<1>1. SUFFICES ASSUME NEW t \in Turns, at'[t] = "write", "overlap" \notin spoilt'[t]
               PROVE  snapshot'[t] = store' \/ store' = <<>>
    BY DEF CurrentInv
<1>2. CASE at[t] # "write"
    BY <1>1, <1>2, EntersWrite
<1>3. CASE at[t] = "write"
  <2>1. at[t] \notin Over /\ at'[t] \notin Over
    BY <1>1, <1>3 DEF Over
  <2>2. "overlap" \notin spoilt[t] /\ (Expires \/ (TurnStep(t) /\ ~PersistPanics(t)))
    BY <1>1, <2>1, Alone
  <2>3. CASE Expires
    BY <2>3 DEF Expires
  <2>4. CASE TurnStep(t)
    <3>1. FullSave(t) \/ SaveFails(t)
      BY <1>3, <2>4 DEF TurnStep, Load, LoadFails, PreSeedLog, PreSeedFails, RoundFails, ModelAnswers, ModelCalls,
            ExecuteToolCalls, PersistMessages, PersistFails, PersistPanics, NextRound, Emit, Save
    <3>2. at'[t] \in {"suspended", "done"}
      BY <3>1 DEF FullSave, SaveFails, Ends, Goes, Typed, ControlType
    <3> QED BY <1>1, <3>2
  <2> QED BY <2>2, <2>3, <2>4
<1> QED BY <1>2, <1>3

LEMMA Current == Spec => []CurrentInv
<1>1. Init => CurrentInv
    BY DEF Init, CurrentInv
<1>2. Typed /\ HandsInv /\ CurrentInv /\ [Next]_vars => CurrentInv'
  <2> SUFFICES ASSUME Typed, HandsInv, CurrentInv, [Next]_vars PROVE CurrentInv'
    OBVIOUS
  <2>1. CASE Next
    BY <2>1, CurrentStep
  <2>2. CASE UNCHANGED vars
    BY <2>2 DEF vars, config, CurrentInv
  <2> QED BY <2>1, <2>2
<1> QED BY <1>1, <1>2, Hands, PTL DEF Spec

LEMMA PrefixIs ==
    ASSUME NEW M, NEW p \in Seq(M), NEW q \in Seq(M), Len(p) <= Len(q), \A i \in 1 .. Len(p) : q[i] = p[i]
    PROVE  SubSeq(q, 1, Len(p)) = p
<1>1. /\ SubSeq(q, 1, Len(p)) \in Seq(M)
      /\ Len(SubSeq(q, 1, Len(p))) = IF 1 <= Len(p) THEN Len(p) - 1 + 1 ELSE 0
      /\ \A i \in 1 .. Len(SubSeq(q, 1, Len(p))) : SubSeq(q, 1, Len(p))[i] = q[1 + i - 1]
    BY SubSeqIs
<1> DEFINE r == SubSeq(q, 1, Len(p))
<1> HIDE DEF r
<1>2. r \in Seq(M) /\ Len(r) = Len(p) /\ \A i \in 1 .. Len(p) : r[i] = p[i]
    BY <1>1 DEF r
<1>3. r = p
    BY <1>2
<1> QED BY <1>3 DEF r

\* What is stored stays, at its place, until the conversation expires; only turns
\* that overlap on a store without append lose each other's messages
\* (stages_save.go fullSave, which writes back the state it has loaded).
THEOREM StoredStays == Spec => StoreOnlyGrows
<1> DEFINE Grows == \/ store' = <<>>
                    \/ Len(store) <= Len(store') /\ SubSeq(store', 1, Len(store)) = store
                    \/ mode = "bulk" /\ \E t \in Turns : "overlap" \in spoilt[t]
<1>1. Typed /\ HandsInv /\ CurrentInv /\ [Next]_vars => [Grows]_store
  <2> SUFFICES ASSUME Typed, HandsInv, CurrentInv, [Next]_vars, store' # store PROVE Grows
    OBVIOUS
  <2>1. Next
    BY DEF vars
  <2>2. store \in Seq(Messages) /\ store' \in Seq(Messages)
    BY TypedStep DEF Typed, SeqType
  <2>3. CASE Expires
    BY <2>3 DEF Expires
  <2>4. CASE ~Expires /\ \A t \in Turns : ~FullSave(t)
    <3>1. Len(store) <= Len(store') /\ \A j \in 1 .. Len(store) : store'[j] = store[j]
      BY <2>1, <2>4, StoreKept
    <3> QED BY <2>2, <3>1, PrefixIs
  <2>5. ASSUME NEW t \in Turns, FullSave(t) PROVE Grows
    <3>1. at[t] = "write" /\ store' = snapshot[t] \o new[t] /\ mode = "bulk"
      BY <2>5, FullSaveSteps DEF HandsInv, WriteInv
    <3>2. CASE "overlap" \in spoilt[t]
      BY <3>1, <3>2
    <3>3. CASE store = <<>>
      <4>1. Len(store) = 0 /\ Len(store') \in Nat
        BY <2>2, <3>3
      <4>2. Len(store) <= Len(store') /\ \A i \in 1 .. Len(store) : store'[i] = store[i]
        BY <4>1
      <4> QED BY <2>2, <4>2, PrefixIs
    <3>4. CASE snapshot[t] = store
      <4>1. new[t] \in Seq(Messages) /\ store' = store \o new[t] /\ Len(new[t]) \in Nat /\ Len(store) \in Nat
        BY <2>2, <3>1, <3>4 DEF Typed, SeqType
      <4>2. Len(store') = Len(store) + Len(new[t]) /\ \A i \in 1 .. Len(store) : store'[i] = store[i]
        BY <2>2, <4>1, ConcatIs
      <4>3. Len(store) <= Len(store')
        BY <4>1, <4>2
      <4> QED BY <2>2, <4>2, <4>3, PrefixIs
    <3> QED BY <3>1, <3>2, <3>3, <3>4 DEF CurrentInv
  <2> QED BY <2>3, <2>4, <2>5
<1> QED BY <1>1, Hands, Current, PTL DEF Spec, StoreOnlyGrows

-----------------------------------------------------------------------------
(* The tool calls of a round.                                              *)

LEMMA NextRoundIs ==
    ASSUME Typed, NEW u \in Turns, NextRound(u)
    PROVE  /\ UNCHANGED <<store, then, persisted, said>>
           /\ \/ UNCHANGED <<msgs, spoilt>>
              \/ /\ "compact" \in spoilt'[u]
                 /\ \E k \in Nat : /\ k <= Len(msgs[u]) /\ Len(msgs'[u]) = Len(msgs[u]) - k
                                   /\ \A i \in 1 .. Len(msgs'[u]) : msgs'[u][i] = msgs[u][k + i]
<1>1. UNCHANGED <<store, then, persisted, said>>
    BY DEF NextRound
<1>2. CASE UNCHANGED <<msgs, spoilt>>
    BY <1>1, <1>2
<1>3. CASE /\ \E k \in 1 .. Len(msgs[u]) - Pinned : msgs' = [msgs EXCEPT ![u] = SubSeq(@, k + 1, Len(@))]
           /\ Spoil(u, {"compact"})
  <2>1. PICK k \in 1 .. Len(msgs[u]) - Pinned : msgs' = [msgs EXCEPT ![u] = SubSeq(@, k + 1, Len(@))]
    BY <1>3
  <2>2. Len(msgs[u]) \in Nat /\ Pinned \in Nat /\ msgs \in [Turns -> Seq(Messages)]
    BY Lengths, PersistenceAssumption DEF Typed, SeqType
  <2>3. k \in Nat /\ k <= Len(msgs[u]) /\ msgs[u] \in Seq(Messages)
    BY <2>2
  <2>4. msgs'[u] = SubSeq(msgs[u], k + 1, Len(msgs[u]))
    BY <2>1, <2>2
  <2>5. /\ Len(SubSeq(msgs[u], k + 1, Len(msgs[u]))) = Len(msgs[u]) - k
        /\ \A i \in 1 .. Len(SubSeq(msgs[u], k + 1, Len(msgs[u]))) :
              SubSeq(msgs[u], k + 1, Len(msgs[u]))[i] = msgs[u][k + i]
    BY <2>3, CutIs
  <2>6. "compact" \in spoilt'[u]
    BY <1>3 DEF Spoil, Typed, ControlType
  <2> DEFINE r == msgs'[u]
  <2>7. Len(r) = Len(msgs[u]) - k /\ \A i \in 1 .. Len(r) : r[i] = msgs[u][k + i]
    BY <2>4, <2>5, Zenon
  <2> QED BY <1>1, <2>3, <2>6, <2>7
<1> QED BY <1>2, <1>3 DEF NextRound

LEMMA LoadIs ==
    ASSUME Typed, NEW t \in Turns, Load(t)
    PROVE  /\ UNCHANGED <<store, then, said>> /\ Len(History) \in Nat
           /\ Len(msgs'[t]) = Len(History) + Len(msgs[t])
           /\ \A i \in 1 .. Len(History) : msgs'[t][i] = History[i]
           /\ \A i \in 1 .. Len(msgs'[t]) : i > Len(History) => msgs'[t][i] = msgs[t][i - Len(History)]
           /\ persisted'[t] = Len(msgs'[t]) /\ at[t] = "load" /\ at'[t] = "seed"
           /\ "window" \in spoilt'[t] \/ History = store
<1>1. /\ History \in Seq(Messages) /\ msgs[t] \in Seq(Messages)
      /\ Len(History) = Len(store) => History = store
    BY HistoryIs DEF Typed, SeqType
<1>2. Len(History) \in Nat
    BY <1>1, DomainIs
<1>3. msgs'[t] = History \o msgs[t]
    BY DEF Load, Typed, SeqType
<1>4. /\ Len(History \o msgs[t]) = Len(History) + Len(msgs[t])
      /\ \A i \in 1 .. Len(History) : (History \o msgs[t])[i] = History[i]
      /\ \A i \in 1 .. Len(History \o msgs[t]) :
            i > Len(History) => (History \o msgs[t])[i] = msgs[t][i - Len(History)]
    BY <1>1, ConcatIs
<1>5. persisted'[t] = Len(msgs'[t]) /\ at[t] = "load" /\ at'[t] = "seed" /\ UNCHANGED <<store, then, said>>
    BY DEF Load, Goes, Typed, ControlType
<1>6. "window" \in spoilt'[t] \/ History = store
    BY <1>1 DEF Load, Spoil, Typed, ControlType
<1> HIDE DEF Typed
<1> QED BY <1>2, <1>3, <1>4, <1>5, <1>6, Zenon

LEMMA CallsSays ==
    ASSUME Typed, NEW t \in Turns, NEW kind \in Kinds, Says(t, kind)
    PROVE  \A i \in 1 .. Len(msgs'[t]) : msgs'[t][i].kind = "calls" => i < Len(msgs'[t]) \/ kind = "calls"
<1>1. /\ Len(msgs'[t]) = Len(msgs[t]) + 1 /\ msgs'[t][Len(msgs[t]) + 1] = Message(t, kind)
      /\ Len(msgs[t]) \in Nat
    BY SaysType, Lengths DEF Typed
<1>2. Message(t, kind).kind = kind
    BY DEF Message
<1>3. ASSUME NEW i \in 1 .. Len(msgs'[t]), msgs'[t][i].kind = "calls", ~(i < Len(msgs'[t]))
      PROVE  kind = "calls"
  <2>1. i = Len(msgs[t]) + 1
    BY <1>1, <1>3
  <2> QED BY <1>1, <1>2, <1>3, <2>1
<1> QED BY <1>3

\* Calls in the hands of the loop, at any label: where they may be the last.
Followed(t) ==
    \A i \in 1 .. Len(msgs[t]) : msgs[t][i].of = t /\ msgs[t][i].kind = "calls" => i < Len(msgs[t])

LEMMA CallsStep == ASSUME Typed, HandsInv, Next, NEW u \in Turns, CallsAt(u) PROVE CallsAt(u)'
<1>1. /\ DOMAIN msgs'[u] = 1 .. Len(msgs'[u]) /\ DOMAIN msgs[u] = 1 .. Len(msgs[u])
      /\ Len(msgs[u]) \in Nat /\ Len(msgs'[u]) \in Nat
      /\ at \in [Turns -> Labels] /\ then \in [Turns -> {"next", "emit", "suspend", "abort"}]
  <2>1. msgs'[u] \in Seq(Messages)
    BY TypedStep DEF Typed, SeqType
  <2> QED BY <2>1, Lengths DEF Typed, ControlType
<1>2. ASSUME at'[u] = at[u], then'[u] = then[u], msgs'[u] = msgs[u] PROVE CallsAt(u)'
    BY <1>2 DEF CallsAt
<1>3. ASSUME Followed(u)' PROVE CallsAt(u)'
    BY <1>1, <1>3 DEF Followed, CallsAt
<1>4. CASE Crash \/ Expires \/ \E t \in Turns : PersistPanics(t)
  <2>1. UNCHANGED <<then, msgs>> /\ (at'[u] = at[u] \/ at'[u] \in {"lost", "panic"})
    BY <1>4, WorldStep DEF Typed
  <2>2. CASE at'[u] \in {"lost", "panic"}
    BY <2>2 DEF CallsAt, Past
  <2> QED BY <1>2, <2>1, <2>2
<1>5. ASSUME NEW t \in Turns, t # u, QuietStep(t) \/ LogStep(t) \/ Save(t) \/ FullSave(t), ~PersistPanics(t)
      PROVE  CallsAt(u)'
  <2>1. then'[u] = then[u] /\ msgs'[u] = msgs[u] /\ (at'[u] = at[u] \/ at'[u] = "done")
    BY <1>5, IsTurnStep, OthersStay DEF Typed, Others
  <2>2. CASE at'[u] = "done"
    BY <2>2 DEF CallsAt, Past
  <2> QED BY <1>2, <2>1, <2>2
<1>6. ASSUME NEW kind \in {"user", "results", "answer"}, Says(u, kind) PROVE CallsAt(u)'
  <2>1. kind \in Kinds /\ kind # "calls"
    BY DEF Kinds
  <2>2. \A i \in 1 .. Len(msgs'[u]) : msgs'[u][i].kind = "calls" => i < Len(msgs'[u]) \/ kind = "calls"
    BY <1>6, <2>1, CallsSays
  <2>3. Followed(u)'
    BY <2>1, <2>2 DEF Followed
  <2> QED BY <1>3, <2>3
<1>7. CASE Send(u) \/ \E v \in Turns : Resume(u, v)
    BY <1>6, <1>7 DEF Send, Resume, Starts
<1>8. CASE ModelAnswers(u) \/ (ExecuteToolCalls(u) /\ Says(u, "results"))
    BY <1>6, <1>8 DEF ModelAnswers
<1>9. CASE ModelCalls(u)
  <2>1. at'[u] = "tools" \/ then'[u] = "abort"
    BY <1>1, <1>9 DEF ModelCalls, Goes
  <2> QED BY <2>1 DEF CallsAt
<1>10. CASE ExecuteToolCalls(u) /\ ~Says(u, "results")
  <2>1. at'[u] = "failed" \/ then'[u] = "suspend"
    BY <1>1, <1>10 DEF ExecuteToolCalls, Goes
  <2> QED BY <2>1 DEF CallsAt, Past
<1>11. CASE RoundFails(u) \/ Save(u) \/ FullSave(u) \/ SaveFails(u) \/ Emit(u) \/ LogStep(u)
  <2>1. UNCHANGED <<then, msgs>> /\ at[u] \in Past /\ at[u] # "tools" /\ at'[u] # "tools"
    BY <1>1, <1>11 DEF RoundFails, Save, FullSave, SaveFails, Emit, LogStep, PreSeedLog, PreSeedFails,
                       PersistMessages, PersistFails, Persisted, Ends, Goes, Past
  <2> QED BY <2>1 DEF CallsAt
<1>12. CASE LoadFails(u)
  <2>1. msgs'[u] = <<>>
    BY <1>12 DEF LoadFails, Typed, SeqType
  <2>2. DOMAIN msgs'[u] = {}
    BY <2>1
  <2> QED BY <2>2 DEF CallsAt
<1>13. CASE Load(u)
  <2>1. /\ Len(History) \in Nat /\ Len(msgs'[u]) = Len(History) + Len(msgs[u])
        /\ \A i \in 1 .. Len(History) : msgs'[u][i] = History[i]
        /\ \A i \in 1 .. Len(msgs'[u]) : i > Len(History) => msgs'[u][i] = msgs[u][i - Len(History)]
        /\ at[u] = "load" /\ then[u] = "next"
    BY <1>13, LoadIs DEF Typed, SaidInv, SaidAt
  <2>2. ASSUME NEW i \in 1 .. Len(History) PROVE History[i].of # u
    <3>1. /\ Len(History) <= Len(store) /\ Len(store) \in Nat /\ DOMAIN store = 1 .. Len(store)
          /\ History[i] = store[Len(store) - Len(History) + i]
      BY HistoryIs, Lengths DEF Typed
    <3>2. Len(store) - Len(History) + i \in DOMAIN store
      BY <2>1, <3>1
    <3> QED BY <2>1, <3>1, <3>2, NotYetStored
  <2>3. ASSUME NEW i \in 1 .. Len(msgs'[u]), msgs'[u][i].of = u, msgs'[u][i].kind = "calls"
        PROVE  i < Len(msgs'[u])
    <3>1. i > Len(History)
      <4>1. i \in 1 .. Len(History) \/ i > Len(History)
        BY <2>1
      <4> QED BY <2>1, <2>2, <2>3, <4>1
    <3>2. i - Len(History) \in 1 .. Len(msgs[u]) /\ msgs'[u][i] = msgs[u][i - Len(History)]
      BY <1>1, <2>1, <3>1
    <3>3. i - Len(History) < Len(msgs[u])
      BY <1>1, <2>1, <2>3, <3>2 DEF CallsAt
    <3> QED BY <1>1, <2>1, <3>3
  <2>4. Followed(u)'
    BY <2>3 DEF Followed
  <2> QED BY <1>3, <2>4
<1>14. CASE NextRound(u)
  <2>1. at[u] = "next" /\ then[u] = "next" /\ at[u] \in Past
    BY <1>14 DEF NextRound, Typed, SaidInv, SaidAt, Past
  <2>2. Followed(u)
    BY <1>1, <2>1 DEF CallsAt, Followed
  <2>3. CASE UNCHANGED msgs
    <3>1. Followed(u)'
      BY <2>2, <2>3 DEF Followed
    <3> QED BY <1>3, <3>1
  <2>4. CASE \E k \in Nat : /\ k <= Len(msgs[u]) /\ Len(msgs'[u]) = Len(msgs[u]) - k
                            /\ \A i \in 1 .. Len(msgs'[u]) : msgs'[u][i] = msgs[u][k + i]
    <3>1. PICK k \in Nat : /\ k <= Len(msgs[u]) /\ Len(msgs'[u]) = Len(msgs[u]) - k
                           /\ \A i \in 1 .. Len(msgs'[u]) : msgs'[u][i] = msgs[u][k + i]
      BY <2>4
    <3>2. ASSUME NEW i \in 1 .. Len(msgs'[u]), msgs'[u][i].of = u, msgs'[u][i].kind = "calls"
          PROVE  i < Len(msgs'[u])
      <4>1. k + i \in 1 .. Len(msgs[u])
        BY <1>1, <3>1
      <4>2. k + i < Len(msgs[u])
        BY <2>2, <3>1, <3>2, <4>1 DEF Followed
      <4> QED BY <1>1, <3>1, <4>2
    <3>3. Followed(u)'
      BY <3>2 DEF Followed
    <3> QED BY <1>3, <3>3
  <2> QED BY <1>14, <2>3, <2>4, NextRoundIs
<1>15. CASE QuietStep(u)
    BY <1>7, <1>8, <1>9, <1>10, <1>11, <1>12, <1>13, <1>14, <1>15 DEF QuietStep
<1> QED BY <1>4, <1>5, <1>11, <1>15, StepKinds

-----------------------------------------------------------------------------
(* The message log of a turn.                                              *)

LEMMA OnItsWay ==
    ASSUME Typed, Next, NEW u \in Turns, at'[u] \in Past
    PROVE  at[u] \in Past \cup {"load"}
<1>1. CASE Crash \/ Expires \/ \E t \in Turns : PersistPanics(t)
    BY <1>1, WorldStep DEF Typed, Past
<1>2. ASSUME NEW t \in Turns, TurnStep(t), ~PersistPanics(t) PROVE at[u] \in Past \cup {"load"}
  <2>1. CASE t = u
    BY <1>2, <2>1, LabelsMove DEF Typed
  <2>2. CASE t # u
    BY <1>2, <2>2, OthersStay DEF Typed, Others, Past
  <2> QED BY <2>1, <2>2
<1>3. ASSUME NEW t \in Turns, Send(t) \/ \E v \in Turns : Resume(t, v) PROVE at[u] \in Past \cup {"load"}
  <2>1. Others(t)
    BY <1>3, OthersStay DEF Typed
  <2>2. at \in [Turns -> Labels]
    BY DEF Typed, ControlType
  <2>3. u # t
    BY <1>3, <2>2 DEF Send, Resume, Starts, Goes, Past
  <2> QED BY <2>1, <2>3 DEF Others, Past
<1> QED BY <1>1, <1>2, <1>3 DEF Next

LEMMA AloneOnItsWay ==
    ASSUME Typed, Next, NEW u \in Turns, at'[u] \in Past, "overlap" \notin spoilt'[u]
    PROVE  /\ at[u] \in Past \cup {"load"}
           /\ Expires \/ (TurnStep(u) /\ ~PersistPanics(u))
<1>1. at[u] \in Past \cup {"load"}
    BY OnItsWay
<1>2. at[u] \notin Over /\ at'[u] \notin Over
    BY <1>1 DEF Past, Over
<1> QED BY <1>1, <1>2, Alone

\* The steps of a turn, by what they do to what it has.
LEMMA TurnSteps ==
    ASSUME Typed, NEW u \in Turns, TurnStep(u), ~PersistPanics(u)
    PROVE  \/ Load(u) \/ LoadFails(u) \/ LogStep(u) \/ NextRound(u) \/ Save(u) \/ FullSave(u)
           \/ /\ at[u] \in {"round", "tools"} /\ at'[u] \in {"tools", "persist", "failed"}
              /\ UNCHANGED <<store, persisted, spoilt>>
              /\ (\E kind \in Kinds : Says(u, kind)) \/ UNCHANGED <<msgs, said>>
           \/ UNCHANGED <<store, then, persisted, msgs, said>> /\ at[u] = "emit" /\ at'[u] = "save"
           \/ UNCHANGED <<store, then, persisted, msgs, said>> /\ at'[u] \in Over
<1>1. at \in [Turns -> Labels]
    BY DEF Typed, ControlType
<1>2. CASE ModelAnswers(u) \/ ModelCalls(u) \/ ExecuteToolCalls(u)
  <2>1. \A k \in {"user", "calls", "results", "answer"} : k \in Kinds
    BY DEF Kinds
  <2>2. (\E kind \in Kinds : Says(u, kind)) \/ UNCHANGED <<msgs, said>>
    BY <1>2, <2>1, Zenon DEF ModelAnswers, ModelCalls, ExecuteToolCalls
  <2>3. /\ at[u] \in {"round", "tools"} /\ at'[u] \in {"tools", "persist", "failed"}
        /\ UNCHANGED <<store, persisted, spoilt>>
    BY <1>1, <1>2 DEF ModelAnswers, ModelCalls, ExecuteToolCalls, Goes
  <2> QED BY <2>2, <2>3
<1>3. CASE Emit(u)
    BY <1>1, <1>3 DEF Emit, Goes
<1>4. CASE RoundFails(u) \/ SaveFails(u)
    BY <1>1, <1>4 DEF RoundFails, SaveFails, Ends, Goes, Over
<1> QED BY <1>2, <1>3, <1>4 DEF TurnStep, LogStep

\* lastPersistedSeq stays, or is what the store has.
LEMMA LogPersisted ==
    ASSUME Typed, NEW t \in Turns, LogStep(t)
    PROVE  persisted'[t] = persisted[t] \/ persisted'[t] = Len(store')
BY DEF LogStep, PreSeedLog, PreSeedFails, PersistMessages, PersistFails, NewTotal, Typed, ControlType

LEMMA RangeStep ==
    ASSUME Typed, HandsInv, mode = "log", Next, NEW u \in Turns, RangeAt(u) PROVE RangeAt(u)'
<1>1. SUFFICES ASSUME at'[u] \in Past, spoilt'[u] \cap {"overlap", "window", "load", "compact"} = {}
               PROVE  Len(store') <= Len(msgs'[u]) /\ persisted'[u] <= Len(msgs'[u])
    BY DEF RangeAt
<1>2. at[u] \in Past \cup {"load"} /\ (Expires \/ (TurnStep(u) /\ ~PersistPanics(u)))
    BY <1>1, AloneOnItsWay
<1>3. spoilt[u] \cap {"overlap", "window", "load", "compact"} = {}
  <2>1. spoilt[u] \ {"append"} \subseteq spoilt'[u]
    BY SpoiltGrows DEF Typed
  <2> QED BY <1>1, <2>1
<1>4. at[u] \in Past => Len(store) <= Len(msgs[u]) /\ persisted[u] <= Len(msgs[u])
    BY <1>3 DEF RangeAt
<1>5. Len(store) \in Nat /\ Len(msgs[u]) \in Nat /\ persisted[u] \in Nat /\ Past \cap Over = {}
    BY Lengths DEF Typed, ControlType, Past, Over
<1>6. CASE Expires
  <2>1. store' = <<>> /\ UNCHANGED <<at, msgs, persisted>>
    BY <1>6 DEF Expires
  <2>2. Len(store') = 0
    BY <2>1
  <2> QED BY <1>1, <1>4, <1>5, <2>1, <2>2
<1>7. CASE Load(u)
  <2>1. Len(msgs'[u]) = Len(store) + Len(msgs[u]) /\ store' = store /\ persisted'[u] = Len(msgs'[u])
    BY <1>1, <1>7, LoadIs
  <2> QED BY <1>5, <2>1
<1>8. CASE LoadFails(u)
    BY <1>1, <1>8 DEF LoadFails, Spoil, Typed, ControlType
<1>9. CASE LogStep(u)
  <2>1. /\ msgs'[u] = msgs[u] /\ at[u] \in Past
        /\ store' = store \/ \E off \in Nat : off >= Len(store) /\ Extends(store', msgs[u], off)
    BY <1>9, LogSteps DEF LogWrites, Past
  <2>2. Len(store') <= Len(msgs[u])
    <3>1. CASE store' = store
      BY <1>4, <2>1, <3>1
    <3>2. ASSUME NEW off \in Nat, off >= Len(store), Extends(store', msgs[u], off)
          PROVE  Len(store') <= Len(msgs[u])
      <4>1. Len(store') = Len(store) + (IF off < Len(msgs[u]) THEN Len(msgs[u]) - off ELSE 0)
        BY <3>2 DEF Extends
      <4>2. Len(store) <= Len(msgs[u])
        BY <1>4, <2>1
      <4> QED BY <1>5, <3>2, <4>1, <4>2
    <3> QED BY <2>1, <3>1, <3>2
  <2>3. persisted'[u] = persisted[u] \/ persisted'[u] = Len(store')
    BY <1>9, LogPersisted
  <2> QED BY <1>4, <2>1, <2>2, <2>3
<1>10. CASE NextRound(u)
    BY <1>1, <1>4, <1>10, NextRoundIs DEF NextRound, Past
<1>11. CASE UNCHANGED <<store, persisted, msgs>> /\ at[u] \in Past
    BY <1>4, <1>11
<1>12. CASE Save(u) \/ FullSave(u)
    BY <1>1, <1>12, SaveSteps, NoFullSave DEF Returned, Past
<1>13. ASSUME NEW kind \in Kinds, Says(u, kind), UNCHANGED <<store, persisted>>, at[u] \in Past
       PROVE  Len(store') <= Len(msgs'[u]) /\ persisted'[u] <= Len(msgs'[u])
  <2>1. Len(msgs'[u]) = Len(msgs[u]) + 1
    BY <1>13, SaysType DEF Typed
  <2> QED BY <1>4, <1>5, <1>13, <2>1
<1>14. {"round", "tools", "emit"} \subseteq Past
    BY DEF Past
<1> QED BY <1>1, <1>2, <1>5, <1>6, <1>7, <1>8, <1>9, <1>10, <1>11, <1>12, <1>13, <1>14, TurnSteps

LEMMA WholeWrite ==
    ASSUME Typed, NEW u \in Turns, PrefixAt(u), Extends(store', msgs[u], Len(store))
    PROVE  /\ Len(store') = Len(msgs[u]) /\ DOMAIN store' = 1 .. Len(store')
           /\ \A i \in 1 .. Len(store') : store'[i] = msgs[u][i]
<1>1. /\ Len(store) \in Nat /\ Len(msgs[u]) \in Nat /\ DOMAIN store = 1 .. Len(store)
      /\ Len(store) <= Len(msgs[u]) /\ \A i \in DOMAIN store : store[i] = msgs[u][i]
    BY Lengths DEF Typed, PrefixAt
<1>2. /\ store' \in Seq(Messages)
      /\ Len(store') = Len(store) + (IF Len(store) < Len(msgs[u]) THEN Len(msgs[u]) - Len(store) ELSE 0)
      /\ \A j \in 1 .. Len(store) : store'[j] = store[j]
      /\ \A j \in 1 .. Len(store') : j > Len(store) => store'[j] = msgs[u][j - Len(store) + Len(store)]
    BY DEF Extends
<1>3. Len(store') = Len(msgs[u])
    BY <1>1, <1>2
<1>4. ASSUME NEW i \in 1 .. Len(store') PROVE store'[i] = msgs[u][i]
  <2>1. i \in 1 .. Len(store) \/ (i > Len(store) /\ i - Len(store) + Len(store) = i)
    BY <1>1, <1>3
  <2> QED BY <1>1, <1>2, <2>1
<1> QED BY <1>2, <1>3, <1>4

\* A turn that writes to the log has then stored all it has.
LEMMA LogWhole ==
    ASSUME Typed, NEW u \in Turns, LogStep(u), PrefixAt(u)
    PROVE  \/ UNCHANGED store
           \/ /\ Len(store') = Len(msgs[u]) /\ DOMAIN store' = 1 .. Len(store')
              /\ \A i \in 1 .. Len(store') : store'[i] = msgs[u][i]
<1>1. UNCHANGED store \/ LogWrites(u)
    BY LogSteps
<1>2. ASSUME LogWrites(u) PROVE Extends(store', msgs[u], Len(store))
  <2>1. PICK off \in Nat : /\ off >= Len(store) /\ Extends(store', msgs[u], off)
                           /\ off = Len(store) \/ (at[u] = "persist" /\ persisted[u] > Len(store))
    BY <1>2 DEF LogWrites
  <2>2. at[u] = "persist" => persisted[u] <= Len(store)
    BY DEF PrefixAt
  <2>3. persisted[u] \in Nat /\ Len(store) \in Nat
    BY Lengths DEF Typed, ControlType
  <2>4. off = Len(store)
    BY <2>1, <2>2, <2>3
  <2> QED BY <2>1, <2>4
<1> QED BY <1>1, <1>2, WholeWrite

LEMMA PrefixStep ==
    ASSUME Typed, HandsInv, mode = "log", Next, NEW u \in Turns, LogAt(u),
           at'[u] \in Past, spoilt'[u] \cap LogExcuses = {}
    PROVE  /\ PrefixAt(u)' /\ TurnStep(u) /\ ~PersistPanics(u) /\ at[u] \in Past \cup {"load"}
           /\ at[u] \in Past => PrefixAt(u)
<1>1. /\ Len(store) \in Nat /\ Len(msgs[u]) \in Nat /\ persisted[u] \in Nat /\ said[u] \in Nat
      /\ DOMAIN store = 1 .. Len(store) /\ at \in [Turns -> Labels] /\ Past \cap Over = {}
      /\ DOMAIN store' = 1 .. Len(store') /\ Len(store') \in Nat
  <2>1. store' \in Seq(Messages)
    BY TypedStep DEF Typed, SeqType
  <2> QED BY <2>1, Lengths, SaidType DEF Typed, ControlType, Past, Over
<1>2. TurnStep(u) /\ ~PersistPanics(u) /\ at[u] \in Past \cup {"load"}
  <2>1. at[u] \in Past \cup {"load"} /\ (Expires \/ (TurnStep(u) /\ ~PersistPanics(u)))
    BY AloneOnItsWay DEF LogExcuses
  <2>2. ~Expires
    BY <1>1 DEF Expires, Past, LogExcuses
  <2> QED BY <2>1, <2>2
<1>3. spoilt[u] \cap LogExcuses = {} /\ spoilt[u] \ {"append"} \subseteq spoilt'[u]
  <2>1. spoilt[u] \ {"append"} \subseteq spoilt'[u]
    BY SpoiltGrows DEF Typed
  <2> QED BY <2>1 DEF LogExcuses
<1>4. at[u] \in Past => PrefixAt(u)
    BY <1>3 DEF LogAt
<1>5. CASE Load(u)
  <2>1. /\ History = store /\ store' = store /\ Len(msgs'[u]) = Len(store) + Len(msgs[u])
        /\ \A i \in 1 .. Len(store) : msgs'[u][i] = store[i]
        /\ persisted'[u] = Len(msgs'[u]) /\ at'[u] = "seed"
    BY <1>5, LoadIs DEF LogExcuses
  <2>2. Len(store') <= Len(msgs'[u])
    BY <1>1, <2>1
  <2>3. PrefixAt(u)'
    BY <1>1, <2>1, <2>2 DEF PrefixAt
  <2> QED BY <1>2, <1>4, <2>3
<1>6. CASE LoadFails(u) \/ PreSeedFails(u)
  <2>1. "load" \in spoilt'[u] \/ "seed" \in spoilt'[u]
    BY <1>6 DEF LoadFails, PreSeedFails, Spoil, Typed, ControlType
  <2> QED BY <2>1 DEF LogExcuses
<1>7. CASE PreSeedLog(u)
  <2>1. at[u] = "seed" /\ at[u] \in Past /\ at'[u] = "round" /\ UNCHANGED msgs
    BY <1>1, <1>7 DEF PreSeedLog, Past, Goes
  <2>2. PrefixAt(u) /\ persisted[u] = Len(msgs[u]) /\ said[u] = 1 /\ said[u] <= Len(msgs[u])
    BY <1>3, <1>4, <2>1 DEF Typed, SaidInv, SaidAt, HandsInv, MsgsAt, LogExcuses
  <2>3. Seeds(u)
    BY <1>1, <2>2 DEF Seeds
  <2>4. store' = LogAppend(0, msgs[u])
        /\ persisted'[u] = IF Len(store') > persisted[u] THEN Len(store') ELSE persisted[u]
    BY <1>7, <2>3 DEF PreSeedLog, NewTotal, Typed, ControlType
  <2>5. Extends(store', msgs[u], Len(store))
    BY <2>4, SeedWrites DEF Typed
  <2>6. Len(store') = Len(msgs[u]) /\ \A i \in 1 .. Len(store') : store'[i] = msgs[u][i]
    BY <2>2, <2>5, WholeWrite
  <2>7. persisted'[u] = Len(store')
    BY <1>1, <2>2, <2>4, <2>6
  <2>8. PrefixAt(u)'
    BY <1>1, <2>1, <2>6, <2>7 DEF PrefixAt
  <2> QED BY <1>2, <1>4, <2>8
<1>8. CASE PersistMessages(u)
  <2>1. at[u] = "persist" /\ at[u] \in Past /\ at'[u] # "seed" /\ UNCHANGED msgs
    BY <1>1, <1>8 DEF PersistMessages, Persisted, Past, Goes
  <2>2. PrefixAt(u) /\ persisted[u] <= Len(store) /\ Len(store) <= Len(msgs[u])
    BY <1>4, <2>1 DEF PrefixAt
  <2>3. CASE persisted[u] < Len(msgs[u])
    <3>1. store' = LogAppend(persisted[u], Unsaved(u)) /\ persisted'[u] = Len(store')
      BY <1>8, <2>3 DEF PersistMessages, NewTotal, Typed, ControlType
    <3>2. Extends(store', msgs[u], IF persisted[u] > Len(store) THEN persisted[u] ELSE Len(store))
      BY <1>1, <2>3, <3>1, PersistWrites DEF Typed
    <3>3. Extends(store', msgs[u], Len(store))
      <4>1. ~(persisted[u] > Len(store))
        BY <1>1, <2>2
      <4> QED BY <3>2, <4>1
    <3>4. Len(store') = Len(msgs[u]) /\ \A i \in 1 .. Len(store') : store'[i] = msgs[u][i]
      BY <2>2, <3>3, WholeWrite
    <3>5. PrefixAt(u)'
      BY <1>1, <2>1, <3>1, <3>4 DEF PrefixAt
    <3> QED BY <1>2, <1>4, <3>5
  <2>4. CASE ~(persisted[u] < Len(msgs[u]))
    <3>1. UNCHANGED <<store, persisted>>
      BY <1>8, <2>4 DEF PersistMessages
    <3>2. Len(store) = Len(msgs[u])
      BY <1>1, <2>2, <2>4
    <3>3. PrefixAt(u)'
      BY <1>1, <2>1, <2>2, <3>1, <3>2 DEF PrefixAt
    <3> QED BY <1>2, <1>4, <3>3
  <2> QED BY <2>3, <2>4
<1>9. CASE PersistFails(u)
  <2>1. /\ at[u] = "persist" /\ at[u] \in Past /\ at'[u] # "seed" /\ UNCHANGED <<msgs, persisted>>
        /\ "append" \in spoilt'[u]
    BY <1>1, <1>9 DEF PersistFails, Persisted, Past, Goes, Spoil, Typed, ControlType
  <2>2. PrefixAt(u) /\ persisted[u] <= Len(store) /\ Len(store) <= Len(msgs[u])
    BY <1>4, <2>1 DEF PrefixAt
  <2>3. \/ UNCHANGED store
        \/ Len(store') = Len(msgs[u]) /\ \A i \in 1 .. Len(store') : store'[i] = msgs[u][i]
    BY <1>9, <2>2, LogWhole DEF LogStep
  <2>4. persisted[u] <= Len(store') /\ Len(store') <= Len(msgs[u])
    BY <1>1, <2>2, <2>3
  <2>5. \A i \in DOMAIN store' : store'[i] = msgs[u][i]
    BY <1>1, <2>2, <2>3 DEF PrefixAt
  <2>6. PrefixAt(u)'
    BY <2>1, <2>4, <2>5 DEF PrefixAt
  <2> QED BY <1>2, <1>4, <2>6
<1>10. CASE NextRound(u)
  <2>1. at[u] = "next" /\ at[u] \in Past /\ at'[u] # "seed" /\ UNCHANGED <<store, msgs, persisted, spoilt>>
    BY <1>1, <1>10, NextRoundIs DEF NextRound, Past, Goes, LogExcuses
  <2>2. PrefixAt(u)'
    BY <1>4, <2>1 DEF PrefixAt
  <2> QED BY <1>2, <1>4, <2>2
<1>11. CASE Save(u) \/ FullSave(u)
    BY <1>11, SaveSteps, NoFullSave DEF Returned, Past
<1>12. CASE /\ at[u] \in {"round", "tools"} /\ at'[u] \in {"tools", "persist", "failed"}
            /\ UNCHANGED <<store, persisted, spoilt>>
            /\ (\E kind \in Kinds : Says(u, kind)) \/ UNCHANGED <<msgs, said>>
  <2>1. at[u] \in Past /\ at'[u] \in {"tools", "persist"} /\ at[u] # "seed"
    BY <1>12 DEF Past
  <2>2. PrefixAt(u) /\ persisted[u] <= Len(store) /\ Len(store) <= Len(msgs[u])
    BY <1>4, <2>1 DEF PrefixAt
  <2>3. Len(msgs'[u]) >= Len(msgs[u]) /\ \A i \in 1 .. Len(msgs[u]) : msgs'[u][i] = msgs[u][i]
    <3>1. ASSUME NEW kind \in Kinds, Says(u, kind)
          PROVE  Len(msgs'[u]) >= Len(msgs[u]) /\ \A i \in 1 .. Len(msgs[u]) : msgs'[u][i] = msgs[u][i]
      <4>1. Len(msgs'[u]) = Len(msgs[u]) + 1 /\ \A i \in 1 .. Len(msgs[u]) : msgs'[u][i] = msgs[u][i]
        BY <3>1, SaysType DEF Typed
      <4> QED BY <1>1, <4>1
    <3> QED BY <1>1, <1>12, <3>1
  <2>4. Len(msgs'[u]) \in Nat
    BY TypedStep, Lengths DEF Typed
  <2>5. Len(store) <= Len(msgs'[u]) /\ \A i \in 1 .. Len(store) : store[i] = msgs'[u][i]
    <3>1. \A i \in 1 .. Len(store) : i \in 1 .. Len(msgs[u])
      BY <1>1, <2>2
    <3>2. \A i \in 1 .. Len(store) : store[i] = msgs[u][i]
      BY <1>1, <2>2 DEF PrefixAt
    <3>3. Len(store) <= Len(msgs'[u])
      BY <1>1, <2>2, <2>3, <2>4
    <3> QED BY <2>3, <3>1, <3>2, <3>3
  <2>6. PrefixAt(u)'
    BY <1>1, <1>12, <2>1, <2>2, <2>5 DEF PrefixAt
  <2> QED BY <1>2, <1>4, <2>6
<1>13. CASE UNCHANGED <<store, then, persisted, msgs, said>> /\ at[u] = "emit" /\ at'[u] = "save"
  <2>1. at[u] \in Past
    BY <1>13 DEF Past
  <2>2. "append" \in spoilt[u] => "append" \in spoilt'[u]
    BY <1>2, <1>13 DEF TurnStep, Load, LoadFails, PreSeedLog, PreSeedFails, RoundFails, ModelAnswers, ModelCalls,
            ExecuteToolCalls, PersistMessages, PersistFails, PersistPanics, NextRound, Emit, Save, FullSave,
            SaveFails, Spoil, Typed, ControlType
  <2>3. PrefixAt(u)'
    BY <1>4, <1>13, <2>1, <2>2 DEF PrefixAt
  <2> QED BY <1>2, <1>4, <2>3
<1>14. ~(at'[u] \in Over)
    BY <1>1
<1>15. CASE LogStep(u)
    BY <1>6, <1>7, <1>8, <1>9, <1>15 DEF LogStep
<1> QED BY <1>2, <1>5, <1>6, <1>10, <1>11, <1>12, <1>13, <1>14, <1>15, TurnSteps

\* What a step appends is not of a turn that is over.
LEMMA NoneAppended ==
    ASSUME Typed, HandsInv, mode = "log", \A t \in Turns : PlaceAt(t), Next, ~Expires,
           NEW u \in Turns, at[u] \in Over, "expired" \notin spoilt[u],
           NEW j \in 1 .. Len(store'), store'[j].of = u
    PROVE  j \in 1 .. Len(store)
<1>1. Len(store) \in Nat /\ Len(store') \in Nat /\ Len(store) <= Len(store') /\ j \in Nat
    BY StoreKept, NoFullSave, Lengths DEF Typed
<1>2. CASE UNCHANGED store
    BY <1>2
<1>3. ASSUME NEW t \in Turns, LogStep(t), LogWrites(t) PROVE j \in 1 .. Len(store)
  <2>1. PICK off \in Nat : off >= Len(store) /\ Extends(store', msgs[t], off)
    BY <1>3 DEF LogWrites
  <2>2. /\ Len(msgs[t]) \in Nat /\ said[t] \in Nat /\ DOMAIN msgs[t] = 1 .. Len(msgs[t])
        /\ MsgsAt(t) /\ PlaceAt(t) /\ at[t] \in {"seed", "persist"}
    BY <1>3, Lengths, SaidType, LogSteps DEF Typed, HandsInv
  <2>3. t # u
    BY <2>2 DEF Over
  <2>4. SUFFICES ASSUME j > Len(store) PROVE FALSE
    BY <1>1
  <2> DEFINE i == j - Len(store) + off
  <2>5. i \in 1 .. Len(msgs[t]) /\ store'[j] = msgs[t][i]
    BY <2>1, <2>4 DEF Extends
  <2>6. off \in Nat /\ off >= Len(store)
    BY <2>1, Zenon
  <2>7. i > Len(store)
    BY <1>1, <2>4, <2>6
  <2> HIDE DEF i
  <2>8. ~(i > Len(msgs[t]) - said[t])
    BY <2>2, <2>3, <2>5, MsgsSplit
  <2>9. i <= Len(msgs[t]) - said[t]
    BY <2>2, <2>5, <2>8
  <2>10. i <= Len(store) \/ "expired" \in spoilt[msgs[t][i].of]
    BY <2>2, <2>5, <2>9 DEF PlaceAt
  <2> QED BY <1>1, <2>5, <2>7, <2>10
<1>4. CASE Crash \/ \E t \in Turns : PersistPanics(t)
    BY <1>2, <1>4 DEF Crash, PersistPanics
<1>5. ASSUME NEW t \in Turns, QuietStep(t) \/ Save(t) PROVE UNCHANGED store
    BY <1>5, QuietSteps, SaveSteps
<1>6. ASSUME NEW t \in Turns, LogStep(t) PROVE UNCHANGED store \/ LogWrites(t)
    BY <1>6, LogSteps
<1> QED BY <1>2, <1>3, <1>4, <1>5, <1>6, StepKinds, NoFullSave

\* A log that is all the turn has, with results after its calls, has whole rounds.
LEMMA RoundsWhole ==
    ASSUME Typed, HandsInv, Next, NEW t \in Turns, Followed(t)', Len(store') = Len(msgs'[t]),
           \A i \in 1 .. Len(store') : store'[i] = msgs'[t][i]
    PROVE  RoundsAt(t)'
<1>1. /\ Len(msgs'[t]) \in Nat /\ said'[t] \in Nat
      /\ DOMAIN store' = 1 .. Len(store') /\ DOMAIN msgs'[t] = 1 .. Len(msgs'[t])
  <2>1. store' \in Seq(Messages) /\ msgs'[t] \in Seq(Messages)
    BY TypedStep DEF Typed, SeqType
  <2> QED BY <2>1, SaidGrows
<1>2. ASSUME NEW i \in 1 .. Len(msgs'[t])
      PROVE  IF i > Len(msgs'[t]) - said'[t]
             THEN msgs'[t][i].of = t /\ msgs'[t][i].n = said'[t] - Len(msgs'[t]) + i
             ELSE msgs'[t][i].of # t
  <2>1. MsgsAt(t)'
    BY MsgsStep
  <2> QED BY <1>1, <2>1 DEF MsgsAt
<1>3. ASSUME NEW i \in 1 .. Len(store'), store'[i].of = t, store'[i].kind = "calls"
      PROVE  \E j \in 1 .. Len(store') : store'[j].of = t /\ store'[j].n = store'[i].n + 1
  <2>1. i \in 1 .. Len(msgs'[t]) /\ i < Len(msgs'[t]) /\ msgs'[t][i].of = t
    BY <1>3 DEF Followed
  <2>2. i \in Nat /\ i + 1 \in 1 .. Len(msgs'[t])
    BY <1>1, <2>1
  <2>3. i > Len(msgs'[t]) - said'[t] /\ msgs'[t][i].n = said'[t] - Len(msgs'[t]) + i
    BY <1>2, <2>1
  <2>4. i + 1 > Len(msgs'[t]) - said'[t]
    BY <1>1, <2>2, <2>3
  <2>5. msgs'[t][i + 1].of = t /\ msgs'[t][i + 1].n = said'[t] - Len(msgs'[t]) + (i + 1)
    BY <1>2, <2>2, <2>4
  <2>6. said'[t] - Len(msgs'[t]) + (i + 1) = said'[t] - Len(msgs'[t]) + i + 1
    BY <1>1, <2>2
  <2>7. msgs'[t][i + 1].n = msgs'[t][i].n + 1
    BY <2>3, <2>5, <2>6, Zenon
  <2> QED BY <1>3, <2>1, <2>2, <2>5, <2>7
<1> QED BY <1>1, <1>3 DEF RoundsAt

LEMMA ThenStays ==
    ASSUME Typed, NEW u \in Turns, TurnStep(u), ~PersistPanics(u), then'[u] \in {"next", "emit"}
    PROVE  then[u] \in {"next", "emit"}
<1>1. CASE at[u] \in {"round", "tools"}
    BY <1>1 DEF Typed, SaidInv, SaidAt
<1>2. CASE UNCHANGED then
    BY <1>2
<1>3. UNCHANGED then \/ at[u] \in {"round", "tools"}
    BY DEF TurnStep, Load, LoadFails, PreSeedLog, PreSeedFails, RoundFails, ModelAnswers, ModelCalls,
           ExecuteToolCalls, PersistMessages, PersistFails, PersistPanics, NextRound, Emit, Save, FullSave, SaveFails
<1> QED BY <1>1, <1>2, <1>3

LEMMA RoundsStep ==
    ASSUME Typed, HandsInv, mode = "log", \A t \in Turns : PlaceAt(t), Next, NEW u \in Turns,
           CallsAt(u), LogAt(u), at'[u] \in Past \cup {"lost"}, then'[u] \in {"next", "emit"},
           spoilt'[u] \cap LogExcuses = {}
    PROVE  RoundsAt(u)'
<1>1. /\ Len(store) \in Nat /\ DOMAIN store = 1 .. Len(store) /\ at \in [Turns -> Labels]
      /\ DOMAIN store' = 1 .. Len(store') /\ Len(store') \in Nat
  <2>1. store' \in Seq(Messages)
    BY TypedStep DEF Typed, SeqType
  <2> QED BY <2>1, Lengths DEF Typed, ControlType
<1>2. spoilt[u] \cap LogExcuses = {}
  <2>1. spoilt[u] \ {"append"} \subseteq spoilt'[u]
    BY SpoiltGrows DEF Typed
  <2> QED BY <2>1 DEF LogExcuses
<1>3. ASSUME UNCHANGED store, at[u] = "load" \/ (at[u] \in Past \cup {"lost"} /\ then[u] \in {"next", "emit"})
      PROVE  RoundsAt(u)'
  <2>1. RoundsAt(u)
    BY <1>2, <1>3, NotYetStored DEF LogAt, RoundsAt
  <2> QED BY <1>3, <2>1 DEF RoundsAt
<1>4. CASE at'[u] \in Past
  <2>1. TurnStep(u) /\ ~PersistPanics(u) /\ at[u] \in Past \cup {"load"} /\ (at[u] \in Past => PrefixAt(u))
    BY <1>4, PrefixStep
  <2>2. then[u] \in {"next", "emit"}
    BY <2>1, ThenStays
  <2>3. CASE UNCHANGED store
    BY <1>3, <2>1, <2>2, <2>3
  <2>4. CASE LogStep(u) /\ store' # store
    <3>1. at[u] \in Past /\ at'[u] # "tools" /\ UNCHANGED msgs
      BY <2>4, LogSteps DEF Past
    <3>2. /\ Len(store') = Len(msgs'[u]) /\ \A i \in 1 .. Len(store') : store'[i] = msgs'[u][i]
      BY <2>1, <2>4, <3>1, LogWhole
    <3>3. CallsAt(u)' /\ MsgsAt(u)' /\ Typed'
      BY CallsStep, MsgsStep, TypedStep
    <3>4. DOMAIN msgs'[u] = 1 .. Len(msgs'[u])
      BY <3>3, Lengths DEF Typed
    <3>5. Followed(u)'
      BY <1>4, <3>1, <3>3, <3>4 DEF CallsAt, Followed
    <3> QED BY <3>2, <3>5, RoundsWhole
  <2>5. LogStep(u) \/ UNCHANGED store
    BY <2>1, TurnSteps, NextRoundIs, LoadIs, SaveSteps, NoFullSave DEF LoadFails
  <2> QED BY <2>3, <2>4, <2>5
<1>5. CASE at'[u] = "lost" /\ at[u] # "lost"
  <2>1. Crash \/ \E t \in Turns : PersistPanics(t)
    <3>1. ASSUME NEW t \in Turns, QuietStep(t) \/ LogStep(t) \/ Save(t) \/ FullSave(t), ~PersistPanics(t)
          PROVE  at'[u] # "lost" \/ at[u] = "lost"
      <4>1. Others(t)
        BY <3>1, IsTurnStep, OthersStay DEF Typed
      <4>2. CASE TurnStep(t)
        BY <3>1, <4>1, <4>2, LabelsMove DEF Typed, Others, Past
      <4>3. CASE Send(t) \/ \E v \in Turns : Resume(t, v)
        BY <1>1, <4>1, <4>3 DEF Send, Resume, Starts, Goes, Others
      <4> QED BY <3>1, <4>2, <4>3, IsTurnStep
    <3>2. Expires => at' = at
      BY DEF Expires
    <3> QED BY <1>5, <3>1, <3>2, StepKinds
  <2>2. UNCHANGED <<store, then>> /\ at[u] \notin Over
    BY <1>5, <2>1, WorldStep DEF Typed, Crash, PersistPanics
  <2>3. at[u] \in Past \cup {"load"}
    BY <1>1, <2>2 DEF Labels
  <2> QED BY <1>3, <2>2, <2>3
<1>6. CASE at'[u] = "lost" /\ at[u] = "lost"
  <2>1. ~Expires /\ "expired" \notin spoilt[u]
    BY <1>2, <1>6 DEF Expires, LogExcuses
  <2>2. then'[u] = then[u]
    <3>1. ASSUME NEW t \in Turns, QuietStep(t) \/ LogStep(t) \/ Save(t) \/ FullSave(t), ~PersistPanics(t)
          PROVE  then'[u] = then[u]
      <4>1. Others(t)
        BY <3>1, IsTurnStep, OthersStay DEF Typed
      <4>2. TurnStep(t) => t # u
        BY <1>6, <3>1, LabelsMove DEF Typed, Past
      <4>3. Send(t) \/ (\E v \in Turns : Resume(t, v)) => t # u
        BY <1>6 DEF Send, Resume, Starts
      <4> QED BY <3>1, <4>1, <4>2, <4>3, IsTurnStep DEF Others
    <3>2. Crash \/ (\E t \in Turns : PersistPanics(t)) => then' = then
      BY DEF Crash, PersistPanics
    <3> QED BY <2>1, <3>1, <3>2, StepKinds
  <2>3. RoundsAt(u)
    BY <1>2, <1>6, <2>2 DEF LogAt
  <2>4. Len(store) <= Len(store') /\ \A j \in 1 .. Len(store) : store'[j] = store[j]
    BY <2>1, StoreKept, NoFullSave
  <2>5. \A j \in 1 .. Len(store') : store'[j].of = u => j \in 1 .. Len(store)
    BY <1>6, <2>1, NoneAppended DEF Over
  <2>6. \A j \in 1 .. Len(store) : j \in 1 .. Len(store')
    BY <1>1, <2>4
  <2> QED BY <1>1, <2>3, <2>4, <2>5, <2>6 DEF RoundsAt
<1> QED BY <1>4, <1>5, <1>6

LEMMA LogInvStep == ASSUME Typed, HandsInv, OrderInv, LogInv, Next PROVE LogInv'
<1>1. UNCHANGED mode
    BY ConfigStays
<1>2. SUFFICES ASSUME mode = "log", NEW u \in Turns PROVE CallsAt(u)' /\ RangeAt(u)' /\ LogAt(u)'
    BY <1>1 DEF LogInv
<1>3. CallsAt(u) /\ RangeAt(u) /\ LogAt(u) /\ \A t \in Turns : PlaceAt(t)
    BY <1>2 DEF LogInv, OrderInv
<1>4. CallsAt(u)' /\ RangeAt(u)'
    BY <1>2, <1>3, CallsStep, RangeStep
<1>5. LogAt(u)'
    BY <1>2, <1>3, PrefixStep, RoundsStep DEF LogAt
<1> QED BY <1>4, <1>5

-----------------------------------------------------------------------------
(* What has returned is stored.                                            *)

LEMMA HoldsGrows ==
    ASSUME NEW p \in Seq(Messages), NEW q \in Seq(Messages), Len(p) <= Len(q),
           \A i \in 1 .. Len(p) : q[i] = p[i], NEW t, NEW k, Holds(p, t, k)
    PROVE  Holds(q, t, k)
<1>1. DOMAIN p = 1 .. Len(p) /\ DOMAIN q = 1 .. Len(q) /\ Len(p) \in Nat /\ Len(q) \in Nat
    BY DomainIs
<1>2. \A i \in DOMAIN p : i \in DOMAIN q /\ q[i] = p[i]
    BY <1>1
<1> QED BY <1>2 DEF Holds

LEMMA HoldsFirst ==
    ASSUME NEW p \in Seq(Messages), NEW q \in Seq(Messages), NEW t, NEW k, Holds(p, t, k)
    PROVE  Holds(p \o q, t, k)
<1>1. p \o q \in Seq(Messages) /\ Len(p \o q) = Len(p) + Len(q) /\ \A i \in 1 .. Len(p) : (p \o q)[i] = p[i]
    BY ConcatIs
<1>2. Len(p) \in Nat /\ Len(q) \in Nat
    OBVIOUS
<1>3. Len(p) <= Len(p \o q)
    BY <1>1, <1>2
<1> QED BY <1>1, <1>3, HoldsGrows

LEMMA HoldsSecond ==
    ASSUME NEW p \in Seq(Messages), NEW q \in Seq(Messages), NEW t, NEW k, Holds(q, t, k)
    PROVE  Holds(p \o q, t, k)
<1> DEFINE r == p \o q
<1>1. /\ r \in Seq(Messages) /\ Len(r) = Len(p) + Len(q)
      /\ \A i \in 1 .. Len(r) : i > Len(p) => r[i] = q[i - Len(p)]
    BY ConcatIs
<1>2. Len(p) \in Nat /\ Len(q) \in Nat /\ DOMAIN q = 1 .. Len(q) /\ DOMAIN r = 1 .. Len(r)
    BY <1>1
<1> HIDE DEF r
<1>3. ASSUME NEW i \in 1 .. Len(q) PROVE Len(p) + i \in DOMAIN r /\ r[Len(p) + i] = q[i]
  <2>1. Len(p) + i \in 1 .. Len(r) /\ Len(p) + i > Len(p) /\ Len(p) + i - Len(p) = i
    BY <1>1, <1>2
  <2> QED BY <1>1, <1>2, <2>1
<1>4. Holds(r, t, k)
    BY SMTT(40), <1>2, <1>3 DEF Holds
<1> QED BY <1>4 DEF r

LEMMA NewHolds ==
    ASSUME Typed, NEW u \in Turns, NewAt(u), at[u] \in {"save", "write"},
           spoilt[u] \cap {"load", "compact", "cancel"} = {}
    PROVE  Holds(new[u], u, said[u])
<1>1. DOMAIN new[u] = 1 .. Len(new[u]) /\ Len(new[u]) = said[u]
    BY Lengths DEF Typed, NewAt
<1>2. \A i \in DOMAIN new[u] : new[u][i].of = u /\ new[u][i].n = i
    BY DEF NewAt
<1> QED BY <1>1, <1>2 DEF Holds

LEMMA LogHolds ==
    ASSUME Typed, NEW u \in Turns, MsgsAt(u), PrefixAt(u), Len(store) = Len(msgs[u]), said[u] <= Len(msgs[u])
    PROVE  Holds(store, u, said[u])
<1>1. Len(msgs[u]) \in Nat /\ said[u] \in Nat /\ DOMAIN store = 1 .. Len(store)
    BY Lengths, SaidType DEF Typed
<1>2. \A i \in 1 .. Len(store) : store[i] = msgs[u][i]
    BY <1>1 DEF PrefixAt
<1>3. ASSUME NEW n \in 1 .. said[u] PROVE \E i \in 1 .. Len(store) : store[i].of = u /\ store[i].n = n
  <2> DEFINE i == Len(msgs[u]) - said[u] + n
  <2>1. i \in 1 .. Len(msgs[u]) /\ i > Len(msgs[u]) - said[u] /\ said[u] - Len(msgs[u]) + i = n
    BY <1>1
  <2> HIDE DEF i
  <2>2. msgs[u][i].of = u /\ msgs[u][i].n = n
    BY <2>1, MsgsSplit
  <2> QED BY <1>2, <2>1, <2>2
<1> QED BY <1>1, <1>3 DEF Holds

LEMMA ExcusesAre ==
    /\ mode = "log" => Excuses = LogExcuses \cup {"append"}
    /\ mode = "append" => Excuses = {"load", "compact", "cancel", "save", "expired"}
    /\ mode = "bulk" => Excuses = {"overlap", "load", "compact", "cancel", "save", "expired"}
BY DEF Excuses, LogExcuses

\* Nothing changes for a turn that has returned but what else goes wrong.
LEMMA ReturnedRests ==
    ASSUME Typed, Next, NEW u \in Turns, at[u] \in Returned
    PROVE  said'[u] = said[u] /\ spoilt[u] \subseteq spoilt'[u]
<1>1. at[u] \in {"suspended", "done"} /\ spoilt \in [Turns -> SUBSET Excusable]
    BY DEF Returned, Typed, ControlType
<1>2. CASE Crash \/ Expires \/ \E t \in Turns : PersistPanics(t)
    BY <1>1, <1>2 DEF Crash, Expires, PersistPanics
<1>3. ASSUME NEW t \in Turns, QuietStep(t) \/ LogStep(t) \/ Save(t) \/ FullSave(t), ~PersistPanics(t)
      PROVE  said'[u] = said[u] /\ spoilt[u] \subseteq spoilt'[u]
  <2>1. Others(t)
    BY <1>3, IsTurnStep, OthersStay DEF Typed
  <2>2. u # t
    BY <1>1, <1>3 DEF QuietStep, LogStep, Save, FullSave, Send, Load, LoadFails, RoundFails, ModelAnswers,
            ModelCalls, ExecuteToolCalls, NextRound, Emit, SaveFails, Resume, Starts, PreSeedLog, PreSeedFails,
            PersistMessages, PersistFails
  <2>3. said'[u] = said[u]
    BY <2>1, <2>2 DEF Others
  <2>4. CASE PersistMessages(t)
    BY <1>1, <2>2, <2>3, <2>4 DEF PersistMessages
  <2>5. CASE Send(t) \/ \E v \in Turns : Resume(t, v)
    BY <1>1, <2>3, <2>5 DEF Send, Resume, Starts
  <2>6. CASE Load(t) \/ LoadFails(t) \/ PreSeedLog(t) \/ PreSeedFails(t) \/ PersistFails(t)
    BY <1>1, <2>3, <2>6 DEF Load, LoadFails, PreSeedLog, PreSeedFails, PersistFails, Spoil
  <2>7. CASE NextRound(t) \/ Emit(t) \/ SaveFails(t)
    BY <1>1, <2>3, <2>7 DEF NextRound, Emit, SaveFails, Spoil
  <2>8. CASE RoundFails(t) \/ ModelAnswers(t) \/ ModelCalls(t) \/ ExecuteToolCalls(t) \/ Save(t) \/ FullSave(t)
    BY <2>3, <2>8 DEF RoundFails, ModelAnswers, ModelCalls, ExecuteToolCalls, Save, FullSave
  <2> QED BY <1>3, <2>4, <2>5, <2>6, <2>7, <2>8 DEF QuietStep, LogStep
<1> QED BY <1>2, <1>3, StepKinds

LEMMA ReturnSteps ==
    ASSUME Typed, Next, NEW u \in Turns, at[u] \notin Returned, at'[u] \in Returned
    PROVE  (Save(u) \/ FullSave(u) \/ SaveFails(u)) /\ ~PersistPanics(u)
<1>1. at \in [Turns -> Labels]
    BY DEF Typed, ControlType
<1>2. CASE Crash \/ Expires \/ \E t \in Turns : PersistPanics(t)
    BY <1>2, WorldStep DEF Typed, Returned
<1>3. ASSUME NEW t \in Turns, QuietStep(t) \/ LogStep(t) \/ Save(t) \/ FullSave(t), ~PersistPanics(t)
      PROVE  (Save(u) \/ FullSave(u) \/ SaveFails(u)) /\ ~PersistPanics(u)
  <2>1. Others(t)
    BY <1>3, IsTurnStep, OthersStay DEF Typed
  <2>2. u = t
    BY <2>1 DEF Others, Returned
  <2>3. CASE LogStep(t)
    BY <2>2, <2>3, LogSteps DEF Returned
  <2>4. CASE QuietStep(t)
    <3>1. SaveFails(t)
      BY <1>1, <2>2, <2>4 DEF QuietStep, Send, Load, LoadFails, RoundFails, ModelAnswers, ModelCalls,
            ExecuteToolCalls, NextRound, Emit, Resume, Starts, Goes, Returned
    <3> QED BY <1>3, <2>2, <3>1
  <2> QED BY <1>3, <2>2, <2>3, <2>4
<1> QED BY <1>2, <1>3, StepKinds

LEMMA Returns ==
    ASSUME Typed, HandsInv, LogInv, Next, NEW u \in Turns, at[u] \notin Returned, at'[u] \in Returned,
           spoilt'[u] \cap Excuses = {}
    PROVE  Holds(store', u, said'[u]) /\ at[u] \in {"save", "write"}
<1>1. /\ mode \in {"log", "append", "bulk"} /\ spoilt \in [Turns -> SUBSET Excusable] /\ said[u] \in Nat
      /\ store \in Seq(Messages) /\ snapshot[u] \in Seq(Messages) /\ new[u] \in Seq(Messages)
    BY PersistenceAssumption, SaidType DEF Typed, ControlType, SeqType
<1>2. Save(u) \/ FullSave(u) \/ SaveFails(u)
    BY ReturnSteps
<1>3. at[u] \in {"save", "write"} /\ UNCHANGED said
    BY <1>2 DEF Save, FullSave, SaveFails
<1>4. CASE SaveFails(u)
  <2>1. mode # "log" /\ "save" \in spoilt'[u]
    BY <1>1, <1>4 DEF SaveFails, Spoil
  <2> QED BY <1>1, <2>1, ExcusesAre
<1>5. CASE Save(u) \/ FullSave(u)
  <2>1. UNCHANGED spoilt
    BY <1>5 DEF Save, FullSave
  <2>2. CASE mode = "log"
    <3>1. UNCHANGED store /\ at[u] = "save" /\ at[u] \in Past
      BY <1>5, <2>2, SaveSteps, NoFullSave DEF Past
    <3>2. spoilt[u] \cap LogExcuses = {} /\ "append" \notin spoilt[u]
      BY <2>1, <2>2, ExcusesAre
    <3>3. PrefixAt(u) /\ Len(store) = Len(msgs[u])
      BY <2>2, <3>1, <3>2 DEF LogInv, LogAt, PrefixAt
    <3>4. MsgsAt(u) /\ said[u] <= Len(msgs[u])
      BY <3>2 DEF HandsInv, MsgsAt, LogExcuses
    <3>5. Holds(store, u, said[u])
      BY <3>3, <3>4, LogHolds
    <3> QED BY <1>3, <3>1, <3>5
  <2>3. CASE mode # "log"
    <3>1. spoilt[u] \cap {"load", "compact", "cancel"} = {}
      BY <1>1, <2>1, <2>3, ExcusesAre
    <3>2. Holds(new[u], u, said[u])
      BY <1>3, <3>1, NewHolds DEF HandsInv
    <3>3. CASE new[u] = <<>> /\ UNCHANGED store
      <4>1. DOMAIN new[u] = {}
        BY <3>3
      <4>2. \A n \in 1 .. said[u] : FALSE
        BY <3>2, <4>1 DEF Holds
      <4>3. Holds(store', u, said[u])
        BY <4>2 DEF Holds
      <4> QED BY <1>3, <4>3
    <3>4. CASE store' = store \o new[u]
      BY <1>1, <1>3, <3>2, <3>4, HoldsSecond
    <3>5. CASE store' = snapshot[u] \o new[u]
      BY <1>1, <1>3, <3>2, <3>5, HoldsSecond
    <3>6. \/ new[u] = <<>> /\ UNCHANGED store
          \/ store' = store \o new[u]
          \/ store' = snapshot[u] \o new[u]
      BY <1>5, <2>3, SaveSteps, FullSaveSteps DEF Returned
    <3> QED BY <3>3, <3>4, <3>5, <3>6
  <2> QED BY <2>2, <2>3
<1> QED BY <1>2, <1>4, <1>5

LEMMA StoredStep == ASSUME Typed, HandsInv, LogInv, StoredInv, Next PROVE StoredInv'
<1>1. UNCHANGED mode /\ Excuses' = Excuses
    BY ConfigStays DEF Excuses
<1>2. SUFFICES ASSUME NEW u \in Turns, at'[u] \in Returned, spoilt'[u] \cap Excuses = {}
               PROVE  /\ Holds(store', u, said'[u])
                      /\ mode = "bulk" =>
                            \A t \in Turns : at'[t] = "write" => Holds(snapshot'[t], u, said'[u])
    BY <1>1 DEF StoredInv, Holds
<1>3. /\ mode \in {"log", "append", "bulk"} /\ store \in Seq(Messages) /\ store' \in Seq(Messages)
      /\ snapshot \in [Turns -> Seq(Messages)] /\ new \in [Turns -> Seq(Messages)]
    BY PersistenceAssumption, TypedStep DEF Typed, ControlType, SeqType
<1>4. CASE at[u] \in Returned
  <2>1. said'[u] = said[u] /\ spoilt[u] \subseteq spoilt'[u]
    BY <1>4, ReturnedRests
  <2>2. /\ Holds(store, u, said[u])
        /\ mode = "bulk" => \A t \in Turns : at[t] = "write" => Holds(snapshot[t], u, said[u])
    BY <1>2, <1>4, <2>1 DEF StoredInv
  <2>3. ~Expires
    <3>1. Expires => "expired" \in spoilt'[u]
      BY <1>4 DEF Expires, Returned
    <3>2. "expired" \in Excuses
      BY <1>3, ExcusesAre DEF LogExcuses
    <3> QED BY <1>2, <3>1, <3>2
  <2>4. Holds(store', u, said[u])
    <3>1. CASE \A t \in Turns : ~FullSave(t)
      <4>1. Len(store) <= Len(store') /\ \A j \in 1 .. Len(store) : store'[j] = store[j]
        BY <2>3, <3>1, StoreKept
      <4> QED BY <1>3, <2>2, <4>1, HoldsGrows
    <3>2. ASSUME NEW t \in Turns, FullSave(t) PROVE Holds(store', u, said[u])
      <4>1. at[t] = "write" /\ store' = snapshot[t] \o new[t] /\ mode = "bulk"
        BY <3>2, FullSaveSteps DEF HandsInv, WriteInv
      <4>2. Holds(snapshot[t], u, said[u]) /\ snapshot[t] \in Seq(Messages) /\ new[t] \in Seq(Messages)
        BY <1>3, <2>2, <4>1
      <4> QED BY <4>1, <4>2, HoldsFirst
    <3> QED BY <3>1, <3>2
  <2>5. ASSUME NEW t \in Turns, at'[t] = "write", mode = "bulk" PROVE Holds(snapshot'[t], u, said[u])
    <3>1. CASE at[t] # "write"
      BY <2>2, <2>5, <3>1, EntersWrite
    <3>2. CASE at[t] = "write"
      BY <2>2, <2>5, <3>2, SnapshotSources
    <3> QED BY <3>1, <3>2
  <2> QED BY <2>1, <2>4, <2>5
<1>5. CASE at[u] \notin Returned
  <2>1. Holds(store', u, said'[u]) /\ at[u] \in {"save", "write"}
    BY <1>2, <1>5, Returns
  <2>2. ASSUME NEW t \in Turns, at'[t] = "write", mode = "bulk" PROVE FALSE
    <3>1. at[t] \in {"save", "write"}
      BY <2>2, EntersWrite, SaveSteps
    <3>2. t # u
      BY <1>2, <2>2 DEF Returned
    <3>3. "overlap" \in spoilt[u]
      BY <2>1, <3>1, <3>2 DEF Typed, OverlapInv, Active, Over
    <3>4. "overlap" \in spoilt'[u]
      BY <3>3, SpoiltGrows DEF Typed
    <3> QED BY <1>2, <2>2, <3>4, ExcusesAre
  <2> QED BY <2>1, <2>2
<1> QED BY <1>4, <1>5

KeptInv == LogInv /\ StoredInv /\ PanicsExplained

LEMMA PanicStep == ASSUME Typed, LogInv, PanicsExplained, Next PROVE PanicsExplained'
<1>1. SUFFICES ASSUME NEW u \in Turns, at'[u] = "panic"
               PROVE  spoilt'[u] \cap {"overlap", "window", "load", "compact"} # {}
    BY DEF PanicsExplained
<1>2. spoilt[u] \ {"append"} \subseteq spoilt'[u] /\ at \in [Turns -> Labels]
    BY SpoiltGrows DEF Typed, ControlType
<1>3. CASE at[u] = "panic"
    BY <1>2, <1>3 DEF PanicsExplained
<1>4. CASE at[u] # "panic"
  <2>1. PersistPanics(u)
    <3>1. ASSUME NEW t \in Turns, QuietStep(t) \/ LogStep(t) \/ Save(t) \/ FullSave(t), ~PersistPanics(t)
          PROVE  FALSE
      <4>1. Others(t)
        BY <3>1, IsTurnStep, OthersStay DEF Typed
      <4>2. CASE TurnStep(t)
        BY <1>1, <1>4, <3>1, <4>1, <4>2, LabelsMove DEF Typed, Others, Past
      <4>3. CASE Send(t) \/ \E v \in Turns : Resume(t, v)
        BY <1>1, <1>2, <1>4, <4>1, <4>3 DEF Send, Resume, Starts, Goes, Others
      <4> QED BY <3>1, <4>2, <4>3, IsTurnStep
    <3>2. Crash \/ Expires => at'[u] # "panic"
      BY <1>2, <1>4 DEF Crash, Expires
    <3>3. ASSUME NEW t \in Turns, PersistPanics(t) PROVE t = u
      BY <1>1, <1>2, <1>4, <3>3 DEF PersistPanics
    <3> QED BY <1>1, <3>1, <3>2, <3>3, StepKinds
  <2>2. /\ mode = "log" /\ at[u] = "persist" /\ at[u] \in Past /\ persisted[u] > Len(msgs[u])
        /\ persisted[u] \in Nat /\ Len(msgs[u]) \in Nat
    BY <2>1, Lengths DEF PersistPanics, Past, Typed, ControlType
  <2>3. ~(persisted[u] <= Len(msgs[u]))
    BY <2>2
  <2>4. spoilt[u] \cap {"overlap", "window", "load", "compact"} # {}
    BY <2>2, <2>3 DEF LogInv, RangeAt
  <2> QED BY <1>2, <2>4
<1> QED BY <1>3, <1>4

LEMMA KeptInit == Init => KeptInv
<1> SUFFICES ASSUME Init PROVE KeptInv
  OBVIOUS
<1>1. store = <<>> /\ \A t \in Turns : at[t] = "idle"
    BY DEF Init
<1> QED BY <1>1 DEF KeptInv, LogInv, CallsAt, RangeAt, LogAt, Past, StoredInv, Returned, PanicsExplained

LEMMA Kept == Spec => []KeptInv
<1>1. Typed /\ HandsInv /\ OrderInv /\ KeptInv /\ [Next]_vars => KeptInv'
  <2> SUFFICES ASSUME Typed, HandsInv, OrderInv, KeptInv, [Next]_vars PROVE KeptInv'
    OBVIOUS
  <2>1. CASE Next
    BY <2>1, LogInvStep, StoredStep, PanicStep DEF KeptInv
  <2>2. CASE UNCHANGED vars
    <3>1. UNCHANGED <<mode, store, at, then, msgs, persisted, said, snapshot, spoilt>>
      BY <2>2 DEF vars, config
    <3>2. ASSUME NEW t \in Turns, CallsAt(t), RangeAt(t), LogAt(t) PROVE CallsAt(t)' /\ RangeAt(t)' /\ LogAt(t)'
      BY <3>1, <3>2 DEF CallsAt, RangeAt, LogAt, PrefixAt, RoundsAt
    <3>3. LogInv'
      BY <3>1, <3>2 DEF KeptInv, LogInv
    <3>4. StoredInv'
      <4>1. Excuses' = Excuses
        BY <3>1 DEF Excuses
      <4> QED BY <3>1, <4>1 DEF KeptInv, StoredInv
    <3>5. PanicsExplained'
      BY <3>1 DEF KeptInv, PanicsExplained
    <3> QED BY <3>3, <3>4, <3>5 DEF KeptInv
  <2> QED BY <2>1, <2>2
<1> QED BY <1>1, KeptInit, Hands, Order, PTL DEF Spec

\* A turn has only messages up to the last it said: what it holds is what is stored.
LEMMA StoredIs ==
    ASSUME Typed, KnownInv, NEW t \in Turns, Holds(store, t, said[t]) PROVE Stored(t) = 1 .. said[t]
<1>1. DOMAIN store = 1 .. Len(store) /\ said[t] \in Nat
    BY Lengths, SaidType DEF Typed
<1>2. ASSUME NEW i \in DOMAIN store, store[i].of = t PROVE store[i].n \in 1 .. said[t]
  <2>1. store[i].n \in Nat /\ store[i].n >= 1 /\ store[i].n <= said[t]
    BY <1>1, <1>2, Lengths, MessageFields DEF Typed, KnownInv, Known
  <2> QED BY <1>1, <2>1
<1>3. \A n \in 1 .. said[t] : \E i \in DOMAIN store : store[i].of = t /\ store[i].n = n
    BY DEF Holds
<1> HIDE DEF Typed
<1>4. \A n \in Stored(t) : n \in 1 .. said[t]
    BY <1>2 DEF Stored
<1>5. \A n \in 1 .. said[t] : n \in Stored(t)
    BY <1>3 DEF Stored
<1> QED BY <1>4, <1>5, Zenon

\* A turn that has returned is stored whole: with a MessageLog by the tool loop's
\* write-through, otherwise by the one step of the save stage that ends it
\* (stages_provider.go persistMessages, stages_save.go).  What can go wrong for
\* that mode and excuses the turn is in Excuses; other turns and crashes do not.
THEOREM ReturnedTurnsAreStored == Spec => []ReturnedIsStored
<1>1. Typed /\ HandsInv /\ KeptInv => ReturnedIsStored
    BY StoredIs DEF HandsInv, KeptInv, StoredInv, ReturnedIsStored, Returned
<1> QED BY <1>1, Hands, Kept, PTL

\* The message log is sound: what a turn has said is in it before the model is
\* called again, a crash leaves whole rounds, and the slice that persistMessages
\* takes is in range unless the context was cut or another turn stored in
\* between (stages_provider.go preSeedLog, persistMessages; options.go WithMessageLog).
THEOREM TheLogIsWhole == Spec => []LogIsWhole
<1>1. Typed /\ HandsInv /\ KeptInv => RoundsAreLogged
  <2> SUFFICES ASSUME Typed, HandsInv, KeptInv, NEW t \in Turns, mode = "log", at[t] = "round",
                      spoilt[t] \cap Excuses = {}
               PROVE  Stored(t) = 1 .. said[t]
    BY DEF RoundsAreLogged
  <2>1. spoilt[t] \cap LogExcuses = {} /\ "append" \notin spoilt[t] /\ at[t] \in Past
    BY ExcusesAre DEF Past
  <2>2. PrefixAt(t) /\ Len(store) = Len(msgs[t])
    BY <2>1 DEF KeptInv, LogInv, LogAt, PrefixAt
  <2>3. MsgsAt(t) /\ said[t] <= Len(msgs[t])
    BY <2>1 DEF HandsInv, MsgsAt, LogExcuses
  <2>4. Holds(store, t, said[t])
    BY <2>2, <2>3, LogHolds
  <2> QED BY <2>4, StoredIs DEF HandsInv
<1>2. KeptInv => CrashLeavesWholeRounds
  <2> SUFFICES ASSUME KeptInv, NEW t \in Turns, mode = "log", at[t] = "lost", then[t] \in {"next", "emit"},
                      spoilt[t] \cap (Excuses \ {"append"}) = {}
               PROVE  RoundsAt(t)
    BY DEF CrashLeavesWholeRounds, RoundsAt
  <2>1. spoilt[t] \cap LogExcuses = {}
    BY ExcusesAre DEF LogExcuses
  <2> QED BY <2>1 DEF KeptInv, LogInv, LogAt
<1>3. Typed /\ HandsInv /\ KeptInv => LogIsWhole
    BY <1>1, <1>2, TypeParts DEF LogIsWhole, KeptInv, Typed
<1> QED BY <1>3, Hands, Kept, PTL
=============================================================================
