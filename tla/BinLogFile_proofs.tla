------------------------- MODULE BinLogFile_proofs -------------------------
(***************************************************************************)
(* What a replay of the binary log hands out, for every number and size of *)
(* files, every set of payloads, any number of records, rotations that     *)
(* stop half-way and deaths of the process in the middle of a record.  The *)
(* invariant has these parts:                                              *)
(*   Types      types;                                                     *)
(*   Log        every file is its complete records, laid out one behind    *)
(*              the other (Places), and after a torn one anything; and the *)
(*              records are in the order of their times, from the oldest   *)
(*              file to file 0 (Sorted), which the search relies on;       *)
(*   Waiting    nothing has been read while records are written;           *)
(*   Moving     ShiftFiles never renames a file onto one that exists;      *)
(*   Reader     the file the reader has open exists;                       *)
(*   Handed     what has been handed out is what is wanted of the records  *)
(*              before the reader's place, or a torn record was passed and *)
(*              what is wanted before it has been handed out.              *)
(* BeforeTear, Since, Begins and the search are folds: each is followed    *)
(* step by step by a function (a history, a chain) that the fold is shown  *)
(* to end with.                                                            *)
(***************************************************************************)
EXTENDS BinLogFile, FiniteSetTheorems, FunctionTheorems, SequenceTheorems, TLAPS

-----------------------------------------------------------------------------
(* Induction and folds.                                                    *)

\* Induction over the natural numbers, stated of a set.
LEMMA NatInd ==
    ASSUME NEW S, 0 \in S, \A n \in Nat : n \in S => n + 1 \in S
    PROVE Nat \subseteq S
<1> SUFFICES ASSUME NEW m \in Nat, m \notin S PROVE FALSE
    OBVIOUS
<1> DEFINE T == {i \in 0..m : i \notin S}
<1> DEFINE f == [i \in T |-> i - 1]
<1>1. IsFiniteSet(T) /\ m \in T
  <2>1. IsFiniteSet(0..m) BY FS_Interval
  <2>2. T \subseteq 0..m OBVIOUS
  <2> QED BY <2>1, <2>2, FS_Subset
<1>2. \A i \in T : i - 1 \in T \ {m}
  <2> TAKE i \in T
  <2>1. i \in Nat /\ i # 0 /\ i <= m OBVIOUS
  <2>2. i - 1 \in Nat /\ i - 1 + 1 = i /\ i - 1 < m BY <2>1
  <2>3. i - 1 \notin S BY <2>2
  <2> QED BY <2>2, <2>3
<1>3. f \in Injection(T, T \ {m})
  <2>1. f \in [T -> T \ {m}] BY <1>2
  <2>2. \A i, j \in T : f[i] = f[j] => i = j OBVIOUS
  <2> QED BY <2>1, <2>2 DEF Injection, IsInjective
<1>4. IsFiniteSet(T \ {m}) /\ Cardinality(T \ {m}) = Cardinality(T) - 1
  BY <1>1, FS_RemoveElement
<1>5. Cardinality(T) <= Cardinality(T \ {m})
  <2> HIDE DEF f, T
  <2> QED BY <1>3, <1>4, FS_Injection DEF ExistsInjection
<1>6. Cardinality(T) \in Nat BY <1>1, FS_CardinalityType
<1> HIDE DEF T
<1> QED BY <1>4, <1>5, <1>6

\* What Max of a non-empty set of positions is.
LEMMA MaxPosition ==
    ASSUME NEW m \in Nat, NEW s \in SUBSET (1..m), s # {}
    PROVE  Max(s) \in s /\ \A y \in s : y <= Max(s)
<1> DEFINE P(n) == \A t \in SUBSET (1..n) : t # {} => \E x \in t : \A y \in t : x >= y
<1> DEFINE S == {n \in Nat : P(n)}
<1>1. P(0)
  <2>1. 1..0 = {}
    OBVIOUS
  <2> QED BY <2>1, Zenon
<1>2. ASSUME NEW n \in Nat, P(n) PROVE P(n + 1)
  <2> SUFFICES ASSUME NEW t \in SUBSET (1..(n + 1)), t # {} PROVE \E x \in t : \A y \in t : x >= y
    OBVIOUS
  <2>1. CASE n + 1 \in t
    BY <2>1
  <2>2. CASE n + 1 \notin t
    <3>1. t \in SUBSET (1..n) BY <2>2
    <3> QED BY <1>2, <3>1
  <2> QED BY <2>1, <2>2
<1>3. P(m)
  <2> HIDE DEF P
  <2>1. 0 \in S /\ \A n \in Nat : n \in S => n + 1 \in S
    BY <1>1, <1>2
  <2>2. Nat \subseteq S
    <3> HIDE DEF S
    <3> QED BY <2>1, NatInd
  <2> QED BY <2>2
<1>4. PICK x \in s : \A y \in s : x >= y
    BY <1>3
<1>5. Max(s) \in s /\ \A y \in s : Max(s) >= y
    BY <1>4, Zenon DEF Max
<1> QED BY <1>5

\* h[s] is the fold of G over the positions in s, from the first to the last.
IsFold(h, N, b, G) ==
    \A s \in SUBSET (1..N) : h[s] = IF s = {} THEN b ELSE G[<<Max(s), h[s \ {Max(s)}]>>]

\* A fold over the positions 1 .. N exists: the recursive definition has a solution.
LEMMA FoldExists ==
    ASSUME NEW N \in Nat, NEW V, NEW b \in V, NEW G \in [(1..N) \X V -> V]
    PROVE  \E h \in [SUBSET (1..N) -> V] : IsFold(h, N, b, G)
<1> DEFINE Solves(h, m) == \A s \in SUBSET (1..m) :
               h[s] = IF s = {} THEN b ELSE G[<<Max(s), h[s \ {Max(s)}]>>]
<1> DEFINE P(m) == m <= N => \E h \in [SUBSET (1..m) -> V] : Solves(h, m)
<1> DEFINE S == {m \in Nat : P(m)}
<1>1. P(0)
  <2> DEFINE h == [s \in SUBSET (1..0) |-> b]
  <2>1. \A s \in SUBSET (1..0) : s = {} OBVIOUS
  <2>2. h \in [SUBSET (1..0) -> V] /\ Solves(h, 0) BY <2>1
  <2> QED BY <2>2
<1>2. ASSUME NEW n \in Nat, P(n) PROVE P(n + 1)
  <2> SUFFICES ASSUME n + 1 <= N
               PROVE  \E h \in [SUBSET (1..(n + 1)) -> V] : Solves(h, n + 1)
    OBVIOUS
  <2>1. PICK g \in [SUBSET (1..n) -> V] : Solves(g, n)
    <3>1. n <= N
      OBVIOUS
    <3> HIDE DEF Solves
    <3> QED BY <1>2, <3>1
  <2> DEFINE h == [s \in SUBSET (1..(n + 1)) |->
                      IF n + 1 \in s THEN G[<<n + 1, g[s \ {n + 1}]>>] ELSE g[s]]
  <2>2. \A s \in SUBSET (1..(n + 1)) : s \ {n + 1} \in SUBSET (1..n)
                                       /\ (n + 1 \notin s => s \in SUBSET (1..n))
    OBVIOUS
  <2>3. n + 1 \in 1..N
    OBVIOUS
  <2>4. h \in [SUBSET (1..(n + 1)) -> V]
    BY <2>2, <2>3
  <2>5. ASSUME NEW s \in SUBSET (1..(n + 1))
        PROVE  h[s] = IF s = {} THEN b ELSE G[<<Max(s), h[s \ {Max(s)}]>>]
    <3>1. CASE n + 1 \in s
      <4>1. Max(s) \in s /\ \A y \in s : y <= Max(s)
        <5>1. n + 1 \in Nat /\ s # {}
          BY <3>1
        <5> QED BY <5>1, MaxPosition
      <4>2. Max(s) = n + 1
        <5> HIDE DEF h
        <5>1. Max(s) \in 1..(n + 1)
          BY <4>1, Zenon
        <5>2. n + 1 <= Max(s)
          BY <3>1, <4>1, Zenon
        <5> QED BY <5>1, <5>2
      <4>3. h[s \ {n + 1}] = g[s \ {n + 1}]
        <5>1. s \ {n + 1} \in SUBSET (1..(n + 1)) /\ n + 1 \notin s \ {n + 1}
          OBVIOUS
        <5> QED BY <5>1
      <4>4. h[s] = G[<<n + 1, g[s \ {n + 1}]>>]
        BY <3>1
      <4> HIDE DEF h
      <4> QED BY <3>1, <4>2, <4>3, <4>4
    <3>2. CASE n + 1 \notin s
      <4>1. s \in SUBSET (1..n)
        BY <2>2, <3>2
      <4>2. h[s] = g[s]
        BY <3>2
      <4>3. CASE s = {}
        BY <2>1, <4>1, <4>2, <4>3
      <4>4. CASE s # {}
        <5>1. s \ {Max(s)} \in SUBSET (1..n) /\ n + 1 \notin s \ {Max(s)}
          BY <4>1, <3>2
        <5>2. h[s \ {Max(s)}] = g[s \ {Max(s)}]
          BY <5>1
        <5> HIDE DEF h
        <5> QED BY <2>1, <4>1, <4>2, <4>4, <5>2
      <4> QED BY <4>3, <4>4
    <3> QED BY <3>1, <3>2
  <2> HIDE DEF h
  <2> QED BY <2>4, <2>5
<1>3. P(N)
  <2> HIDE DEF P
  <2>1. 0 \in S /\ \A n \in Nat : n \in S => n + 1 \in S
    BY <1>1, <1>2
  <2>2. Nat \subseteq S
    <3> HIDE DEF S
    <3> QED BY <2>1, NatInd
  <2> QED BY <2>2
<1>4. PICK h \in [SUBSET (1..N) -> V] : Solves(h, N)
  <2>1. N <= N
    OBVIOUS
  <2> HIDE DEF Solves
  <2> QED BY <1>3, <2>1, Zenon
<1> QED BY <1>4 DEF IsFold

\* The same for the numbers up to N.
LEMMA BoundedInd ==
    ASSUME NEW N \in Nat, NEW S, 0 \in S, \A n \in 0..(N - 1) : n \in S => n + 1 \in S
    PROVE  \A n \in 0..N : n \in S
<1> DEFINE T == {n \in Nat : n <= N => n \in S}
<1>1. 0 \in T
    OBVIOUS
<1>2. ASSUME NEW n \in Nat, n \in T PROVE n + 1 \in T
  <2> SUFFICES ASSUME n + 1 <= N PROVE n + 1 \in S
    OBVIOUS
  <2>1. n \in 0..(N - 1) /\ n <= N
    OBVIOUS
  <2>2. n \in S
    BY <1>2, <2>1
  <2> QED BY <2>1, <2>2
<1>3. Nat \subseteq T
  <2> HIDE DEF T
  <2> QED BY <1>1, <1>2, NatInd
<1> TAKE n \in 0..N
<1>4. n \in Nat /\ n <= N
    OBVIOUS
<1> QED BY <1>3, <1>4

\* The prefixes of the positions, which are what a fold goes through.
LEMMA FoldPrefix ==
    ASSUME NEW N \in Nat, NEW i \in 1..N
    PROVE  /\ 1..i \in SUBSET (1..N) /\ 1..i # {}
           /\ Max(1..i) = i
           /\ (1..i) \ {Max(1..i)} = 1..(i - 1)
<1>1. 1..i \in SUBSET (1..N) /\ i \in 1..i /\ i \in Nat
    OBVIOUS
<1>2. Max(1..i) \in 1..i /\ \A y \in 1..i : y <= Max(1..i)
    BY <1>1, MaxPosition
<1>3. Max(1..i) = i
  <2>1. i <= Max(1..i)
    BY <1>1, <1>2, Zenon
  <2> QED BY <1>2, <2>1
<1>4. (1..i) \ {i} = 1..(i - 1)
    OBVIOUS
<1> QED BY <1>1, <1>3, <1>4, Zenon

-----------------------------------------------------------------------------
(* The records of a time or later, record by record.                       *)

\* A record: its time and its payload.
Recs == [time : Nat, data : Seq(Nat)]

\* What Since has after each record.
SinceChain(g, t, s) ==
    /\ g[0] = <<>>
    /\ \A i \in 1..Len(s) : g[i] = IF s[i].time >= t THEN Append(g[i - 1], s[i]) ELSE g[i - 1]

\* Since goes through the records one after the other.
LEMMA SinceSteps ==
    ASSUME NEW t \in Int, NEW s \in Seq(Recs)
    PROVE  \E g : SinceChain(g, t, s) /\ Since(t, s) = g[Len(s)]
<1> DEFINE N == Len(s)
<1> DEFINE V == Seq(Recs)
<1>1. N \in Nat /\ DOMAIN s = 1..N /\ \A i \in 1..N : s[i] \in Recs
    OBVIOUS
<1> HIDE DEF N
<1> DEFINE Pick(i, a) == IF s[i].time >= t THEN Append(a, s[i]) ELSE a
<1> DEFINE G == [p \in (1..N) \X V |-> Pick(p[1], p[2])]
<1> DEFINE Step(f, S) == IF S = {} THEN <<>> ELSE Pick(Max(S), f[S \ {Max(S)}])
<1> DEFINE h == CHOOSE f : f = [S \in SUBSET DOMAIN s |-> Step(f, S)]
<1>2. \A i \in 1..N, a \in V : Pick(i, a) \in V
    BY <1>1
<1>3. Since(t, s) = h[1..N]
    BY <1>1 DEF Since, FoldLeft, MapThenFoldSet
<1> HIDE DEF Pick, V
<1>4. G \in [(1..N) \X V -> V]
    BY <1>2
<1>5. PICK f \in [SUBSET (1..N) -> V] : IsFold(f, N, <<>>, G)
  <2>1. <<>> \in V
    BY DEF V
  <2> HIDE DEF G
  <2> QED BY <1>1, <1>4, <2>1, FoldExists
<1>6. \A S \in SUBSET (1..N) : f[S] = Step(f, S)
  <2> TAKE S \in SUBSET (1..N)
  <2>1. CASE S = {}
    BY <1>5, <2>1 DEF IsFold
  <2>2. CASE S # {}
    <3>1. Max(S) \in 1..N
      BY <1>1, <2>2, MaxPosition
    <3>2. f[S \ {Max(S)}] \in V
      OBVIOUS
    <3>3. f[S] = G[<<Max(S), f[S \ {Max(S)}]>>]
      BY <1>5, <2>2, Zenon DEF IsFold
    <3> QED BY <2>2, <3>1, <3>2, <3>3
  <2> QED BY <2>1, <2>2
<1> HIDE DEF Step
<1>7. f = [S \in SUBSET DOMAIN s |-> Step(f, S)]
    BY <1>1, <1>6
<1>8. h = [S \in SUBSET (1..N) |-> Step(h, S)]
    BY <1>1, <1>7, Zenon
<1> HIDE DEF h
<1> DEFINE g == [i \in 0..N |-> h[1..i]]
<1>9. g[0] = <<>>
  <2>1. 1..0 = {} /\ {} \in SUBSET (1..N) /\ 0 \in 0..N
    BY <1>1
  <2>2. h[{}] = Step(h, {})
    BY <1>8, <2>1
  <2> QED BY <2>1, <2>2 DEF Step
<1>10. ASSUME NEW i \in 1..N PROVE g[i] = Pick(i, g[i - 1])
  <2>1. h[1..i] = Step(h, 1..i)
    BY <1>1, <1>8, FoldPrefix
  <2>2. Step(h, 1..i) = Pick(i, h[1..(i - 1)])
    BY <1>1, FoldPrefix, Zenon DEF Step
  <2>3. i \in 0..N /\ i - 1 \in 0..N
    BY <1>1
  <2> QED BY <2>1, <2>2, <2>3
<1>11. g[N] = h[1..N]
    BY <1>1
<1> HIDE DEF g
<1>12. SinceChain(g, t, s)
    BY <1>9, <1>10 DEF SinceChain, Pick, N
<1> QED BY <1>3, <1>11, <1>12 DEF N

\* What Since keeps are records.
LEMMA SinceChainType ==
    ASSUME NEW t \in Int, NEW s \in Seq(Recs), NEW g, SinceChain(g, t, s)
    PROVE  \A i \in 0..Len(s) : g[i] \in Seq(Recs)
<1> DEFINE S == {i \in 0..Len(s) : g[i] \in Seq(Recs)}
<1>1. 0 \in S
  <2>1. g[0] = <<>> /\ 0 \in 0..Len(s)
    BY DEF SinceChain
  <2>2. g[0] \in Seq(Recs)
    BY <2>1
  <2> QED BY <2>1, <2>2
<1>2. ASSUME NEW n \in 0..(Len(s) - 1), n \in S PROVE n + 1 \in S
  <2>1. n + 1 \in 1..Len(s) /\ (n + 1) - 1 = n /\ n + 1 \in 0..Len(s)
    OBVIOUS
  <2>2. g[n + 1] = IF s[n + 1].time >= t THEN Append(g[n], s[n + 1]) ELSE g[n]
    BY <2>1 DEF SinceChain
  <2>3. g[n] \in Seq(Recs) /\ s[n + 1] \in Recs
    BY <1>2, <2>1
  <2>4. Append(g[n], s[n + 1]) \in Seq(Recs)
    BY <2>3
  <2>5. g[n + 1] \in Seq(Recs)
    BY <2>2, <2>3, <2>4, Zenon
  <2> QED BY <2>1, <2>5
<1> HIDE DEF S
<1>3. \A n \in 0..Len(s) : n \in S
  <2>1. Len(s) \in Nat
    OBVIOUS
  <2> QED BY <1>1, <1>2, <2>1, BoundedInd
<1> QED BY <1>3 DEF S

\* Chains over sequences with a common beginning agree on it.
LEMMA SinceSame ==
    ASSUME NEW t \in Int, NEW s \in Seq(Recs), NEW r \in Seq(Recs), NEW g, NEW k,
           SinceChain(g, t, s), SinceChain(k, t, r),
           Len(s) <= Len(r), \A i \in 1..Len(s) : s[i] = r[i]
    PROVE  \A i \in 0..Len(s) : g[i] = k[i]
<1> DEFINE S == {i \in 0..Len(s) : g[i] = k[i]}
<1>1. 0 \in S
    BY DEF SinceChain
<1>2. ASSUME NEW n \in 0..(Len(s) - 1), n \in S PROVE n + 1 \in S
  <2>1. n + 1 \in 1..Len(s) /\ (n + 1) - 1 = n /\ n + 1 \in 0..Len(s) /\ n + 1 \in 1..Len(r)
    OBVIOUS
  <2>2. g[n + 1] = IF s[n + 1].time >= t THEN Append(g[n], s[n + 1]) ELSE g[n]
    BY <2>1 DEF SinceChain
  <2>3. k[n + 1] = IF r[n + 1].time >= t THEN Append(k[n], r[n + 1]) ELSE k[n]
    BY <2>1 DEF SinceChain
  <2>4. g[n] = k[n] /\ s[n + 1] = r[n + 1]
    BY <1>2, <2>1
  <2> QED BY <2>1, <2>2, <2>3, <2>4
<1> HIDE DEF S
<1>3. \A n \in 0..Len(s) : n \in S
  <2>1. Len(s) \in Nat
    OBVIOUS
  <2> QED BY <1>1, <1>2, <2>1, BoundedInd
<1> QED BY <1>3 DEF S

\* Since of no record, of records, and of one more record.
LEMMA SinceEmpty ==
    ASSUME NEW t \in Int
    PROVE  Since(t, <<>>) = <<>>
<1>1. <<>> \in Seq(Recs) /\ Len(<<>>) = 0
    OBVIOUS
<1>2. PICK g : SinceChain(g, t, <<>>) /\ Since(t, <<>>) = g[Len(<<>>)]
    BY <1>1, SinceSteps
<1> QED BY <1>1, <1>2 DEF SinceChain

\* The records of a time or later are records.
LEMMA SinceType ==
    ASSUME NEW t \in Int, NEW s \in Seq(Recs)
    PROVE  Since(t, s) \in Seq(Recs)
<1>1. PICK g : SinceChain(g, t, s) /\ Since(t, s) = g[Len(s)]
    BY SinceSteps
<1>2. Len(s) \in 0..Len(s)
    OBVIOUS
<1> QED BY <1>1, <1>2, SinceChainType

\* One more record of that time or later is one more at the end.
LEMMA SinceAppend ==
    ASSUME NEW t \in Int, NEW s \in Seq(Recs), NEW r \in Recs, r.time >= t
    PROVE  Since(t, Append(s, r)) = Append(Since(t, s), r)
<1> DEFINE a == Append(s, r)
<1>1. a \in Seq(Recs) /\ Len(a) = Len(s) + 1 /\ a[Len(s) + 1] = r /\ \A i \in 1..Len(s) : s[i] = a[i]
    OBVIOUS
<1> HIDE DEF a
<1>2. PICK g : SinceChain(g, t, s) /\ Since(t, s) = g[Len(s)]
    BY SinceSteps
<1>3. PICK k : SinceChain(k, t, a) /\ Since(t, a) = k[Len(a)]
    BY <1>1, SinceSteps
<1>4. g[Len(s)] = k[Len(s)]
  <2>1. Len(s) <= Len(a) /\ Len(s) \in 0..Len(s)
    BY <1>1
  <2> QED BY <1>1, <1>2, <1>3, <2>1, SinceSame
<1>5. k[Len(s) + 1] = Append(k[Len(s)], r)
  <2>1. Len(s) + 1 \in 1..Len(a) /\ (Len(s) + 1) - 1 = Len(s)
    BY <1>1
  <2> QED BY <1>1, <1>3, <2>1 DEF SinceChain
<1> QED BY <1>1, <1>2, <1>3, <1>4, <1>5 DEF a

\* Records before the time are left out.
LEMMA SinceNone ==
    ASSUME NEW t \in Int, NEW s \in Seq(Recs), \A i \in 1..Len(s) : s[i].time < t
    PROVE  Since(t, s) = <<>>
<1>1. PICK g : SinceChain(g, t, s) /\ Since(t, s) = g[Len(s)]
    BY SinceSteps
<1> DEFINE S == {i \in 0..Len(s) : g[i] = <<>>}
<1>2. 0 \in S
    BY <1>1 DEF SinceChain
<1>3. ASSUME NEW n \in 0..(Len(s) - 1), n \in S PROVE n + 1 \in S
  <2>1. n + 1 \in 1..Len(s) /\ (n + 1) - 1 = n /\ n + 1 \in 0..Len(s)
    OBVIOUS
  <2>2. g[n + 1] = IF s[n + 1].time >= t THEN Append(g[n], s[n + 1]) ELSE g[n]
    BY <1>1, <2>1 DEF SinceChain
  <2>3. g[n] = <<>> /\ s[n + 1].time < t /\ s[n + 1] \in Recs
    BY <1>3, <2>1
  <2>4. s[n + 1].time \in Nat
    BY <2>3 DEF Recs
  <2>5. ~(s[n + 1].time >= t)
    BY <2>3, <2>4
  <2> QED BY <2>1, <2>2, <2>3, <2>5
<1> HIDE DEF S
<1>4. \A n \in 0..Len(s) : n \in S
  <2>1. Len(s) \in Nat
    OBVIOUS
  <2> QED BY <1>2, <1>3, <2>1, BoundedInd
<1>5. Len(s) \in 0..Len(s)
    OBVIOUS
<1> QED BY <1>1, <1>4, <1>5 DEF S

-----------------------------------------------------------------------------
(* The complete records of the files, file by file.                        *)

\* Records, and whether a torn one follows them.
Hist == [recs : Seq(Recs), tear : BOOLEAN]

\* older of BeforeTear, of any files.
NextHist(a, wh, to, j) == IF a.tear THEN a ELSE [recs |-> a.recs \o wh[j], tear |-> to[j]]

\* What BeforeTear has after each file, the oldest first.
IsHistory(g, wh, to) ==
    /\ g[0] = [recs |-> <<>>, tear |-> FALSE]
    /\ \A j \in 1..MaxLogNum : g[j] = NextHist(g[j - 1], wh, to, MaxLogNum - j)

\* The number of files, and the files by age.
LEMMA FileCount ==
    /\ MaxLogNum \in Nat /\ MaxLogNum > 1
    /\ \A i \in Files : i \in Nat /\ i < MaxLogNum
    /\ \A j \in 1..MaxLogNum : MaxLogNum - j \in Files
    /\ \A i \in Files : MaxLogNum - i \in 1..MaxLogNum /\ MaxLogNum - (MaxLogNum - i) = i
BY BinLogFileAssumption DEF Files

\* One file more is again records and whether one is torn.
LEMMA NextHistType ==
    ASSUME NEW wh \in [Files -> Seq(Recs)], NEW to \in [Files -> BOOLEAN], NEW a \in Hist, NEW j \in Files
    PROVE  NextHist(a, wh, to, j) \in Hist
<1>1. wh[j] \in Seq(Recs) /\ to[j] \in BOOLEAN
    OBVIOUS
<1>2. a.recs \in Seq(Recs)
    BY DEF Hist
<1>3. a.recs \o wh[j] \in Seq(Recs)
    BY <1>1, <1>2
<1> QED BY <1>1, <1>3 DEF Hist, NextHist

\* A history without a torn record, and one of the records s.
NotTorn(a) == a.tear = FALSE
HasRecs(a, s) == a.recs = s

\* One file more adds its records.
LEMMA NextHistRecs ==
    ASSUME NEW a, NEW wh, NEW to, NEW j, NEW s, HasRecs(a, s), NotTorn(a)
    PROVE  HasRecs(NextHist(a, wh, to, j), s \o wh[j])
BY DEF NextHist, HasRecs, NotTorn

\* BeforeTear goes through the files one after the other.
LEMMA HistorySteps ==
    ASSUME whole \in [Files -> Seq(Recs)], torn \in [Files -> BOOLEAN]
    PROVE  \E g : IsHistory(g, whole, torn) /\ BeforeTear = g[MaxLogNum]
<1> DEFINE N == MaxLogNum
<1> DEFINE b == [recs |-> <<>>, tear |-> FALSE]
<1>1. N \in Nat /\ \A j \in 1..N : N - j \in Files
    BY FileCount
<1> DEFINE Pick(i, a) == NextHist(a, whole, torn, N - i)
<1> DEFINE G == [p \in (1..N) \X Hist |-> Pick(p[1], p[2])]
<1> DEFINE Step(f, S) == IF S = {} THEN b ELSE Pick(Max(S), f[S \ {Max(S)}])
<1> DEFINE D == [j \in 1..N |-> j]
<1> DEFINE Raw(f, S) == IF S = {} THEN b ELSE older(f[S \ {Max(S)}], N - D[Max(S)])
<1> DEFINE h == CHOOSE f : f = [S \in SUBSET DOMAIN D |-> Raw(f, S)]
<1>2. \A i \in 1..N, a \in Hist : Pick(i, a) \in Hist
  <2> TAKE i \in 1..N, a \in Hist
  <2> QED BY <1>1, NextHistType
<1>3. DOMAIN D = 1..N /\ \A j \in 1..N : D[j] = j
    OBVIOUS
<1>4. BeforeTear = h[1..N]
    BY <1>3, Zenon DEF BeforeTear, FoldLeft, MapThenFoldSet
<1>5. \A i, a : older(a, N - i) = Pick(i, a)
    BY DEF older, NextHist
<1> HIDE DEF Pick, D
<1>6. G \in [(1..N) \X Hist -> Hist]
    BY <1>2
<1>7. PICK f \in [SUBSET (1..N) -> Hist] : IsFold(f, N, b, G)
  <2>1. b \in Hist
    BY DEF Hist
  <2> HIDE DEF G, b
  <2> QED BY <1>1, <1>6, <2>1, FoldExists
<1> HIDE DEF b
<1>8. \A S \in SUBSET (1..N) : f[S] = Step(f, S)
  <2> TAKE S \in SUBSET (1..N)
  <2>1. CASE S = {}
    BY <1>7, <2>1 DEF IsFold
  <2>2. CASE S # {}
    <3>1. Max(S) \in 1..N
      BY <1>1, <2>2, MaxPosition
    <3>2. f[S \ {Max(S)}] \in Hist
      OBVIOUS
    <3>3. f[S] = G[<<Max(S), f[S \ {Max(S)}]>>]
      BY <1>7, <2>2, Zenon DEF IsFold
    <3> QED BY <2>2, <3>1, <3>2, <3>3
  <2> QED BY <2>1, <2>2
<1>9. \A F : \A S \in SUBSET (1..N) : Raw(F, S) = Step(F, S)
  <2> TAKE F
  <2> TAKE S \in SUBSET (1..N)
  <2>1. CASE S = {}
    BY <2>1
  <2>2. CASE S # {}
    <3>1. Max(S) \in 1..N
      BY <1>1, <2>2, MaxPosition
    <3>2. D[Max(S)] = Max(S)
      BY <1>3, <3>1
    <3> QED BY <1>5, <2>2, <3>2, Zenon
  <2> QED BY <2>1, <2>2
<1> HIDE DEF Step, Raw
<1>10. f = [S \in SUBSET DOMAIN D |-> Raw(f, S)]
    BY <1>3, <1>8, <1>9
<1>11. h = [S \in SUBSET (1..N) |-> Raw(h, S)]
    BY <1>3, <1>10, Zenon
<1> HIDE DEF h
<1> DEFINE g == [i \in 0..N |-> h[1..i]]
<1>12. g[0] = b
  <2>1. 1..0 = {} /\ {} \in SUBSET (1..N) /\ 0 \in 0..N
    BY <1>1
  <2>2. h[{}] = Raw(h, {})
    BY <1>11, <2>1
  <2> QED BY <2>1, <2>2 DEF Raw
<1>13. ASSUME NEW i \in 1..N PROVE g[i] = Pick(i, g[i - 1])
  <2>1. h[1..i] = Raw(h, 1..i)
    BY <1>1, <1>11, FoldPrefix
  <2>2. Raw(h, 1..i) = Step(h, 1..i)
    BY <1>1, <1>9, FoldPrefix
  <2>3. Step(h, 1..i) = Pick(i, h[1..(i - 1)])
    BY <1>1, FoldPrefix, Zenon DEF Step
  <2>4. i \in 0..N /\ i - 1 \in 0..N
    BY <1>1
  <2> QED BY <2>1, <2>2, <2>3, <2>4
<1>14. g[N] = h[1..N]
    BY <1>1
<1> HIDE DEF g
<1>15. IsHistory(g, whole, torn)
    BY <1>12, <1>13 DEF IsHistory, Pick, b
<1> QED BY <1>4, <1>14, <1>15

\* A history is records and whether one is torn, after each file.
LEMMA HistoryType ==
    ASSUME NEW wh \in [Files -> Seq(Recs)], NEW to \in [Files -> BOOLEAN], NEW g, IsHistory(g, wh, to)
    PROVE  \A j \in 0..MaxLogNum : g[j] \in Hist
<1> DEFINE S == {j \in 0..MaxLogNum : g[j] \in Hist}
<1>1. 0 \in S
  <2>1. 0 \in 0..MaxLogNum
    BY FileCount
  <2>2. [recs |-> <<>>, tear |-> FALSE] \in Hist
    BY DEF Hist
  <2> QED BY <2>1, <2>2 DEF IsHistory
<1>2. ASSUME NEW n \in 0..(MaxLogNum - 1), n \in S PROVE n + 1 \in S
  <2>1. n + 1 \in 1..MaxLogNum /\ (n + 1) - 1 = n /\ n + 1 \in 0..MaxLogNum
    BY FileCount
  <2>2. g[n + 1] = NextHist(g[n], wh, to, MaxLogNum - (n + 1))
    BY <2>1 DEF IsHistory
  <2>3. MaxLogNum - (n + 1) \in Files
    BY <2>1, FileCount
  <2>4. g[n] \in Hist
    BY <1>2
  <2>5. g[n + 1] \in Hist
    BY <2>2, <2>3, <2>4, NextHistType
  <2> QED BY <2>1, <2>5
<1> HIDE DEF S
<1>3. \A n \in 0..MaxLogNum : n \in S
    BY <1>1, <1>2, BoundedInd, FileCount
<1> QED BY <1>3 DEF S

\* The first torn record ends a history.
LEMMA HistoryTear ==
    ASSUME NEW wh, NEW to, NEW g, IsHistory(g, wh, to), NEW j \in 0..MaxLogNum, g[j].tear
    PROVE  g[MaxLogNum] = g[j]
<1> DEFINE S == {i \in 0..MaxLogNum : i >= j => g[i] = g[j]}
<1>1. 0 \in S
    BY FileCount
<1>2. ASSUME NEW n \in 0..(MaxLogNum - 1), n \in S PROVE n + 1 \in S
  <2>1. n + 1 \in 1..MaxLogNum /\ (n + 1) - 1 = n /\ n + 1 \in 0..MaxLogNum
    BY FileCount
  <2>2. g[n + 1] = NextHist(g[n], wh, to, MaxLogNum - (n + 1))
    BY <2>1 DEF IsHistory
  <2>3. n \in Nat /\ j \in Nat /\ (n + 1 >= j => n >= j \/ n + 1 = j)
    BY FileCount
  <2>4. n >= j => g[n + 1] = g[j]
    BY <1>2, <2>2 DEF NextHist
  <2> QED BY <2>1, <2>3, <2>4
<1> HIDE DEF S
<1>3. \A n \in 0..MaxLogNum : n \in S
    BY <1>1, <1>2, BoundedInd, FileCount
<1>4. MaxLogNum \in 0..MaxLogNum /\ MaxLogNum >= j
    BY FileCount
<1> QED BY <1>3, <1>4 DEF S

\* No file between the ath and the bth oldest has a record.
NoRecords(wh, to, a, b) == \A j \in (a + 1)..b : wh[MaxLogNum - j] = <<>> /\ ~to[MaxLogNum - j]

\* Files without records do not matter to a history.
LEMMA HistorySkip ==
    ASSUME NEW wh \in [Files -> Seq(Recs)], NEW to \in [Files -> BOOLEAN], NEW g, IsHistory(g, wh, to),
           NEW a \in 0..MaxLogNum, NEW b \in 0..MaxLogNum, a <= b, NotTorn(g[a]),
           NoRecords(wh, to, a, b)
    PROVE  g[b] = g[a]
<1> DEFINE S == {i \in 0..MaxLogNum : i >= a /\ i <= b => g[i] = g[a]}
<1>1. 0 \in S
    BY FileCount
<1>2. ASSUME NEW n \in 0..(MaxLogNum - 1), n \in S PROVE n + 1 \in S
  <2>1. n + 1 \in 1..MaxLogNum /\ (n + 1) - 1 = n /\ n + 1 \in 0..MaxLogNum
    BY FileCount
  <2>2. g[n + 1] = NextHist(g[n], wh, to, MaxLogNum - (n + 1))
    BY <2>1 DEF IsHistory
  <2>3. n \in Nat /\ a \in Nat /\ b \in Nat /\ (n + 1 >= a => n >= a \/ n + 1 = a)
    BY FileCount
  <2>4. CASE n >= a /\ n + 1 <= b
    <3>1. n <= b /\ n + 1 \in (a + 1)..b
      BY <2>3, <2>4
    <3>2. g[n] = g[a]
      BY <1>2, <2>4, <3>1
    <3>3. wh[MaxLogNum - (n + 1)] = <<>> /\ ~to[MaxLogNum - (n + 1)] /\ to[MaxLogNum - (n + 1)] \in BOOLEAN
      BY <2>1, <3>1, FileCount DEF NoRecords
    <3>4. g[a] \in Hist
      BY HistoryType
    <3>5. g[a].recs \o <<>> = g[a].recs /\ g[a].tear = FALSE /\ g[a] = [recs |-> g[a].recs, tear |-> g[a].tear]
      BY <3>4 DEF Hist, NotTorn
    <3>6. g[n + 1] = [recs |-> g[a].recs, tear |-> FALSE]
      BY <2>2, <3>2, <3>3, <3>5 DEF NextHist
    <3>7. g[n + 1] = g[a]
      BY <3>5, <3>6
    <3> QED BY <2>1, <3>7
  <2> QED BY <2>1, <2>3, <2>4
<1> HIDE DEF S
<1>3. \A n \in 0..MaxLogNum : n \in S
    BY <1>1, <1>2, BoundedInd, FileCount
<1>4. b \in 0..MaxLogNum /\ b >= a /\ b <= b
    OBVIOUS
<1> QED BY <1>3, <1>4 DEF S

\* r is a record of one of the files from file i on.
RecordFrom(r, wh, i) == \E k \in Files : k >= i /\ \E y \in 1..Len(wh[k]) : r = wh[k][y]

\* A history has only records of the files it went through.
LEMMA HistoryFrom ==
    ASSUME NEW wh \in [Files -> Seq(Recs)], NEW to \in [Files -> BOOLEAN], NEW g, IsHistory(g, wh, to)
    PROVE  \A j \in 0..MaxLogNum : \A x \in 1..Len(g[j].recs) : RecordFrom(g[j].recs[x], wh, MaxLogNum - j)
<1> DEFINE Q(j) == \A x \in 1..Len(g[j].recs) : RecordFrom(g[j].recs[x], wh, MaxLogNum - j)
<1> DEFINE S == {j \in 0..MaxLogNum : Q(j)}
<1>1. 0 \in S
  <2>1. 0 \in 0..MaxLogNum
    BY FileCount
  <2>2. g[0].recs = <<>>
    BY DEF IsHistory
  <2> QED BY <2>1, <2>2
<1>2. ASSUME NEW n \in 0..(MaxLogNum - 1), n \in S PROVE n + 1 \in S
  <2>1. n + 1 \in 1..MaxLogNum /\ (n + 1) - 1 = n /\ n + 1 \in 0..MaxLogNum /\ n \in 0..MaxLogNum
    BY FileCount
  <2> DEFINE f == MaxLogNum - (n + 1)
  <2>2. g[n + 1] = NextHist(g[n], wh, to, f)
    BY <2>1 DEF IsHistory
  <2>3. f \in Files /\ f >= f /\ MaxLogNum - n >= f /\ f \in Nat /\ MaxLogNum - n \in Nat
    <3>1. f \in Files
      BY <2>1, FileCount
    <3>2. n \in Nat /\ n <= MaxLogNum /\ MaxLogNum \in Nat /\ f \in Nat
      BY <2>1, <3>1, FileCount
    <3> QED BY <3>1, <3>2
  <2> HIDE DEF f
  <2>4. \A r : RecordFrom(r, wh, MaxLogNum - n) => RecordFrom(r, wh, f)
    <3>1. \A k \in Files : k >= MaxLogNum - n => k >= f
      BY <2>3, FileCount
    <3> QED BY <3>1 DEF RecordFrom
  <2>5. Q(n)
    BY <1>2
  <2>6. g[n] \in Hist
    BY <2>1, HistoryType
  <2>9. ~g[n].tear => g[n + 1].recs = g[n].recs \o wh[f]
    <3> DEFINE s == g[n].recs
    <3>1. HasRecs(g[n], s) /\ (~g[n].tear => NotTorn(g[n]))
      BY <2>6 DEF Hist, HasRecs, NotTorn
    <3> HIDE DEF s
    <3>2. NotTorn(g[n]) => HasRecs(g[n + 1], s \o wh[f])
      BY <3>1, <2>2, NextHistRecs, Zenon
    <3> QED BY <3>1, <3>2 DEF HasRecs, s
  <2>7. ASSUME NEW x \in 1..Len(g[n + 1].recs) PROVE RecordFrom(g[n + 1].recs[x], wh, f)
    <3>1. CASE g[n].tear
      <4>1. g[n + 1] = g[n]
        BY <2>2, <3>1 DEF NextHist
      <4>2. RecordFrom(g[n].recs[x], wh, MaxLogNum - n)
        BY <2>5, <2>7, <4>1
      <4> QED BY <2>4, <4>1, <4>2
    <3>2. CASE ~g[n].tear
      <4>1. g[n + 1].recs = g[n].recs \o wh[f]
        BY <2>9, <3>2
      <4> DEFINE p == g[n].recs
      <4> DEFINE q == wh[f]
      <4>2. p \in Seq(Recs) /\ q \in Seq(Recs)
        BY <2>3, <2>6 DEF Hist
      <4>3. RecordFrom(p[x], wh, MaxLogNum - n) \/ x \notin 1..Len(p)
        BY <2>5
      <4>4. \A y \in 1..Len(q) : RecordFrom(q[y], wh, f)
        BY <2>3 DEF RecordFrom
      <4> HIDE DEF p, q
      <4>5. g[n + 1].recs = p \o q /\ x \in 1..Len(p \o q)
        BY <4>1, <2>7 DEF p, q
      <4>6. CASE x \in 1..Len(p)
        <5>1. (p \o q)[x] = p[x]
          BY <4>2, <4>6
        <5> QED BY <2>4, <4>3, <4>5, <4>6, <5>1
      <4>7. CASE x \notin 1..Len(p)
        <5>1. x - Len(p) \in 1..Len(q) /\ (p \o q)[x] = q[x - Len(p)]
          BY <4>2, <4>5, <4>7
        <5> QED BY <4>4, <4>5, <5>1
      <4> QED BY <4>6, <4>7
    <3> QED BY <3>1, <3>2
  <2>8. Q(n + 1)
    BY <2>7 DEF f
  <2> QED BY <2>1, <2>8
<1>3. \A n \in 0..MaxLogNum : n \in S
  <2> HIDE DEF S
  <2> QED BY <1>1, <1>2, BoundedInd, FileCount
<1> QED BY <1>3

-----------------------------------------------------------------------------
(* Where the records are in a file.                                        *)

\* Record r is in w between the places p and q.
RecordAt(w, r, p, q) ==
    /\ q = p + 2 + Len(r.data) /\ q <= Len(w)
    /\ w[p + 1] = r.time /\ w[p + 2] = Len(r.data)
    /\ \A x \in 1..Len(r.data) : w[p + 2 + x] = r.data[x]

\* Record m of recs is in w between P[m - 1] and P[m].
Places(P, w, recs) ==
    /\ P \in [0..Len(recs) -> Nat] /\ P[0] = 0 /\ P[Len(recs)] <= Len(w)
    /\ \A m \in 1..Len(recs) : RecordAt(w, recs[m], P[m - 1], P[m])

\* The places of records increase.
LEMMA PlacesGrow ==
    ASSUME NEW w \in Seq(Nat), NEW recs \in Seq(Recs), NEW P, Places(P, w, recs)
    PROVE  \A m, n \in 0..Len(recs) : m < n => P[m] < P[n]
<1> DEFINE L == Len(recs)
<1>1. L \in Nat /\ \A m \in 1..L : recs[m] \in Recs
    OBVIOUS
<1>2. \A m \in 1..L : P[m] = P[m - 1] + 2 + Len(recs[m].data) /\ Len(recs[m].data) \in Nat
  <2> TAKE m \in 1..L
  <2>1. P[m] = P[m - 1] + 2 + Len(recs[m].data)
    BY DEF Places, RecordAt
  <2>2. recs[m].data \in Seq(Nat)
    BY <1>1 DEF Recs
  <2> QED BY <2>1, <2>2
<1>3. \A m \in 0..L : P[m] \in Nat
    BY DEF Places
<1> HIDE DEF L
<1> SUFFICES ASSUME NEW m \in 0..L PROVE \A n \in 0..L : m < n => P[m] < P[n]
    BY DEF L
<1> DEFINE S == {n \in 0..L : m < n => P[m] < P[n]}
<1>4. 0 \in S
    BY <1>1
<1>5. ASSUME NEW n \in 0..(L - 1), n \in S PROVE n + 1 \in S
  <2>1. n + 1 \in 1..L /\ (n + 1) - 1 = n /\ n + 1 \in 0..L /\ n \in 0..L
    BY <1>1
  <2>2. P[n] < P[n + 1]
    <3> DEFINE d == Len(recs[n + 1].data)
    <3>1. P[n + 1] = P[n] + 2 + d /\ d \in Nat
      BY <1>2, <2>1
    <3>2. P[n] \in Nat
      BY <1>3, <2>1
    <3> HIDE DEF d
    <3> QED BY <3>1, <3>2
  <2>3. P[n] \in Nat /\ P[n + 1] \in Nat /\ P[m] \in Nat
    BY <1>3, <2>1
  <2>4. m < n + 1 => m = n \/ m < n
    BY <1>1
  <2>5. m < n => P[m] < P[n]
    BY <1>5
  <2>6. m < n + 1 => P[m] < P[n + 1]
    BY <2>2, <2>3, <2>4, <2>5
  <2> QED BY <2>1, <2>6
<1> HIDE DEF S
<1>6. \A n \in 0..L : n \in S
    BY <1>1, <1>4, <1>5, BoundedInd
<1> QED BY <1>6 DEF S

-----------------------------------------------------------------------------
(* Begins, word by word.                                                   *)

\* What Begins has after each word.
BeginsChain(b, w) ==
    /\ b[0] = [at |-> {}, next |-> 0]
    /\ \A i \in 1..Len(w) : b[i] = skip(w, b[i - 1], i - 1)

\* Begins goes through the words one after the other.
LEMMA BeginsSteps ==
    ASSUME NEW w \in Seq(Nat)
    PROVE  \E b : BeginsChain(b, w) /\ Begins(w) = b[Len(w)].at
<1> DEFINE N == Len(w)
<1> DEFINE c == [at |-> {}, next |-> 0]
<1> DEFINE T == {0} \cup {x + 2 + w[x + 2] : x \in 0..N}
<1> DEFINE V == [at : SUBSET Int, next : T]
<1>1. N \in Nat
    OBVIOUS
<1> DEFINE Pick(i, a) == skip(w, a, i - 1)
<1> DEFINE G == [p \in (1..N) \X V |-> Pick(p[1], p[2])]
<1> DEFINE Step(f, S) == IF S = {} THEN c ELSE Pick(Max(S), f[S \ {Max(S)}])
<1> DEFINE D == [i \in 1..N |-> i]
<1> DEFINE Raw(f, S) == IF S = {} THEN c ELSE skip(w, f[S \ {Max(S)}], D[Max(S)] - 1)
<1> DEFINE h == CHOOSE f : f = [S \in SUBSET DOMAIN D |-> Raw(f, S)]
<1> HIDE DEF N
<1>2. \A i \in 1..N, a \in V : Pick(i, a) \in V
  <2> TAKE i \in 1..N, a \in V
  <2>1. i - 1 \in 0..N /\ i - 1 \in Int
    BY <1>1
  <2> DEFINE x == i - 1
  <2>2. x + 2 + w[x + 2] \in T
    BY <2>1
  <2> HIDE DEF T, x
  <2>3. [at |-> a.at \cup {x}, next |-> x + 2 + w[x + 2]] \in V
    BY <2>1, <2>2 DEF x
  <2> QED BY <2>3 DEF skip, x
<1>3. DOMAIN D = 1..N /\ \A j \in 1..N : D[j] = j
    OBVIOUS
<1>4. Begins(w) = h[1..N].at
    BY <1>3, Zenon DEF Begins, FoldLeft, MapThenFoldSet, N
<1>5. c \in V
    OBVIOUS
<1> HIDE DEF Pick, D, c, V
<1>6. G \in [(1..N) \X V -> V]
    BY <1>2
<1>7. PICK f \in [SUBSET (1..N) -> V] : IsFold(f, N, c, G)
  <2> HIDE DEF G
  <2> QED BY <1>1, <1>5, <1>6, FoldExists
<1>8. \A S \in SUBSET (1..N) : f[S] = Step(f, S)
  <2> TAKE S \in SUBSET (1..N)
  <2>1. CASE S = {}
    BY <1>7, <2>1 DEF IsFold
  <2>2. CASE S # {}
    <3>1. Max(S) \in 1..N
      BY <1>1, <2>2, MaxPosition
    <3>2. f[S \ {Max(S)}] \in V
      OBVIOUS
    <3>3. f[S] = G[<<Max(S), f[S \ {Max(S)}]>>]
      BY <1>7, <2>2, Zenon DEF IsFold
    <3> QED BY <2>2, <3>1, <3>2, <3>3
  <2> QED BY <2>1, <2>2
<1>9. \A F : \A S \in SUBSET (1..N) : Raw(F, S) = Step(F, S)
  <2> TAKE F
  <2> TAKE S \in SUBSET (1..N)
  <2>1. CASE S = {}
    BY <2>1
  <2>2. CASE S # {}
    <3>1. Max(S) \in 1..N
      BY <1>1, <2>2, MaxPosition
    <3>2. D[Max(S)] = Max(S)
      BY <1>3, <3>1
    <3> QED BY <2>2, <3>2, Zenon DEF Pick
  <2> QED BY <2>1, <2>2
<1> HIDE DEF Step, Raw
<1>10. f = [S \in SUBSET DOMAIN D |-> Raw(f, S)]
    BY <1>3, <1>8, <1>9
<1>11. h = [S \in SUBSET (1..N) |-> Raw(h, S)]
    BY <1>3, <1>10, Zenon
<1> HIDE DEF h
<1> DEFINE g == [i \in 0..N |-> h[1..i]]
<1>12. g[0] = c
  <2>1. 1..0 = {} /\ {} \in SUBSET (1..N) /\ 0 \in 0..N
    BY <1>1
  <2>2. h[{}] = Raw(h, {})
    BY <1>11, <2>1
  <2> QED BY <2>1, <2>2 DEF Raw
<1>13. ASSUME NEW i \in 1..N PROVE g[i] = Pick(i, g[i - 1])
  <2>1. h[1..i] = Raw(h, 1..i)
    BY <1>1, <1>11, FoldPrefix
  <2>2. Raw(h, 1..i) = Step(h, 1..i)
    BY <1>1, <1>9, FoldPrefix
  <2>3. Step(h, 1..i) = Pick(i, h[1..(i - 1)])
    BY <1>1, FoldPrefix, Zenon DEF Step
  <2>4. i \in 0..N /\ i - 1 \in 0..N
    BY <1>1
  <2> QED BY <2>1, <2>2, <2>3, <2>4
<1>14. g[N] = h[1..N]
    BY <1>1
<1> HIDE DEF g
<1>15. BeginsChain(g, w)
    BY <1>12, <1>13 DEF BeginsChain, Pick, c, N
<1>16. Begins(w) = g[N].at
    BY <1>4, <1>14
<1> QED BY <1>15, <1>16 DEF N

\* Before word i, m of the records have begun.
BegunAt(b, P, i, m) ==
    /\ b.next = P[m] /\ b.at = {P[x] : x \in 0..(m - 1)}
    /\ i <= P[m] /\ (m > 0 => P[m - 1] < i)

\* In a file that ends with a record, Begins finds the places of the records.
LEMMA BeginsAre ==
    ASSUME NEW w \in Seq(Nat), NEW recs \in Seq(Recs), NEW P, Places(P, w, recs),
           P[Len(recs)] = Len(w)
    PROVE  Begins(w) = {P[x] : x \in 0..(Len(recs) - 1)}
<1> DEFINE N == Len(w)
<1> DEFINE L == Len(recs)
<1>1. PICK b : BeginsChain(b, w) /\ Begins(w) = b[Len(w)].at
    BY BeginsSteps
<1>2. N \in Nat /\ L \in Nat /\ \A m \in 0..L : P[m] \in Nat
  <2>1. N \in Nat /\ L \in Nat
    OBVIOUS
  <2>2. P \in [0..L -> Nat]
    BY DEF Places
  <2> HIDE DEF L
  <2> QED BY <2>1, <2>2
<1>3. P[0] = 0 /\ P[L] = N
    BY DEF Places
<1>4. \A m, n \in 0..L : m < n => P[m] < P[n]
    BY PlacesGrow
<1>5. \A m \in 1..L : P[m] = P[m - 1] + 2 + w[P[m - 1] + 2]
    BY DEF Places, RecordAt
<1> HIDE DEF N, L
<1> DEFINE S == {i \in 0..N : \E m \in 0..L : BegunAt(b[i], P, i, m)}
<1>6. 0 \in S
  <2>1. b[0] = [at |-> {}, next |-> 0]
    BY <1>1 DEF BeginsChain
  <2>2. 0 \in 0..N /\ 0 \in 0..L /\ {P[x] : x \in 0..(0 - 1)} = {}
    BY <1>2
  <2>3. BegunAt(b[0], P, 0, 0)
    BY <1>3, <2>1, <2>2 DEF BegunAt
  <2> QED BY <2>2, <2>3
<1>7. ASSUME NEW n \in 0..(N - 1), n \in S PROVE n + 1 \in S
  <2>1. n + 1 \in 1..N /\ (n + 1) - 1 = n /\ n + 1 \in 0..N /\ n \in Nat /\ n < N
    BY <1>2
  <2>2. b[n + 1] = skip(w, b[n], n)
    BY <1>1, <2>1 DEF BeginsChain, N
  <2>3. PICK m \in 0..L : BegunAt(b[n], P, n, m)
    BY <1>7
  <2>4. P[m] \in Nat /\ m \in Nat
    BY <1>2
  <2>5. CASE n = P[m]
    <3>1. m # L
      BY <1>3, <2>1, <2>5
    <3>2. m + 1 \in 0..L /\ m + 1 \in 1..L /\ (m + 1) - 1 = m /\ m < m + 1
      BY <1>2, <3>1
    <3>3. b[n + 1] = [at |-> b[n].at \cup {n}, next |-> n + 2 + w[n + 2]]
      BY <2>2, <2>3, <2>5 DEF skip, BegunAt
    <3>4. b[n + 1].next = P[m + 1]
      <4>1. P[m + 1] = P[m] + 2 + w[P[m] + 2]
        BY <1>5, <3>2
      <4> QED BY <3>3, <4>1, <2>5
    <3>5. b[n + 1].at = {P[x] : x \in 0..((m + 1) - 1)}
      <4>1. b[n].at = {P[x] : x \in 0..(m - 1)}
        BY <2>3 DEF BegunAt
      <4>2. 0..((m + 1) - 1) = (0..(m - 1)) \cup {m}
        BY <2>4
      <4>3. b[n + 1].at = b[n].at \cup {P[m]}
        BY <3>3, <2>5
      <4> QED BY <4>1, <4>2, <4>3
    <3>6. n + 1 <= P[m + 1] /\ P[(m + 1) - 1] < n + 1
      <4>1. P[m] < P[m + 1] /\ P[m + 1] \in Nat
        BY <1>2, <1>4, <3>2
      <4> QED BY <2>4, <2>5, <3>2, <4>1
    <3>7. BegunAt(b[n + 1], P, n + 1, m + 1)
      BY <3>4, <3>5, <3>6 DEF BegunAt
    <3> QED BY <2>1, <3>2, <3>7
  <2>6. CASE n # P[m]
    <3>1. b[n + 1] = b[n]
      BY <2>2, <2>3, <2>6 DEF skip, BegunAt
    <3>2. n + 1 <= P[m]
      BY <2>1, <2>3, <2>4, <2>6 DEF BegunAt
    <3>3. m > 0 => P[m - 1] < n + 1
      <4>1. m > 0 => P[m - 1] < n /\ P[m - 1] \in Nat
        BY <1>2, <2>3 DEF BegunAt
      <4> QED BY <2>1, <4>1
    <3>4. BegunAt(b[n + 1], P, n + 1, m)
      BY <2>3, <3>1, <3>2, <3>3 DEF BegunAt
    <3> QED BY <2>1, <3>4
  <2> QED BY <2>5, <2>6
<1> HIDE DEF S
<1>8. \A n \in 0..N : n \in S
    BY <1>2, <1>6, <1>7, BoundedInd
<1>9. PICK m \in 0..L : BegunAt(b[N], P, N, m)
  <2>1. N \in 0..N
    BY <1>2
  <2> QED BY <1>8, <2>1 DEF S
<1>10. m = L
  <2>1. CASE m < L
    <3>1. P[m] < N /\ N <= P[m] /\ P[m] \in Nat
      BY <1>2, <1>3, <1>4, <1>9, <2>1 DEF BegunAt
    <3> QED BY <1>2, <3>1
  <2> QED BY <1>2, <2>1
<1> QED BY <1>1, <1>9, <1>10 DEF BegunAt, N, L

-----------------------------------------------------------------------------
(* Files and their records.                                                *)

\* The words of a file are its complete records and, after a torn one, others.
Laid(P, w, recs, t) == Places(P, w, recs) /\ (~t => P[Len(recs)] = Len(w))

\* The words of a file that exists.
WordsShape(w, recs, t) == w \in Seq(Nat) /\ \E P : Laid(P, w, recs, t)

\* A file, which need not exist.
FileShape(f, recs, t) ==
    IF f = None THEN recs = <<>> /\ t = FALSE ELSE WordsShape(f, recs, t)

\* Where the words of two sequences are in their concatenation.
LEMMA Concat ==
    ASSUME NEW a \in Seq(Nat), NEW x \in Seq(Nat)
    PROVE  /\ a \o x \in Seq(Nat) /\ Len(a \o x) = Len(a) + Len(x)
           /\ \A j \in 1..Len(a) : (a \o x)[j] = a[j]
           /\ \A j \in 1..Len(x) : (a \o x)[Len(a) + j] = x[j]
<1>1. Len(a) \in Nat /\ Len(x) \in Nat
    OBVIOUS
<1>2. a \o x \in Seq(Nat) /\ Len(a \o x) = Len(a) + Len(x)
    OBVIOUS
<1>3. ASSUME NEW j \in 1..Len(a) PROVE (a \o x)[j] = a[j]
    OBVIOUS
<1>4. ASSUME NEW j \in 1..Len(x) PROVE (a \o x)[Len(a) + j] = x[j]
  <2>1. Len(a) + j \in 1..(Len(a) + Len(x)) /\ ~(Len(a) + j <= Len(a)) /\ Len(a) + j - Len(a) = j
    BY <1>1
  <2> QED BY <2>1
<1> QED BY <1>2, <1>3, <1>4

\* A record keeps its place when words are appended.
LEMMA RecordStays ==
    ASSUME NEW w \in Seq(Nat), NEW u \in Seq(Nat), NEW r \in Recs, NEW p \in Nat, NEW q \in Nat,
           RecordAt(w, r, p, q)
    PROVE  RecordAt(w \o u, r, p, q)
<1> DEFINE v == w \o u
<1> DEFINE e == r.data
<1> DEFINE d == Len(e)
<1>1. d \in Nat
    BY DEF Recs
<1>2. Len(v) = Len(w) + Len(u) /\ \A x \in 1..Len(w) : v[x] = w[x]
    BY Concat
<1>3. q = p + 2 + d /\ q <= Len(w) /\ w[p + 1] = r.time /\ w[p + 2] = d
      /\ \A x \in 1..d : w[p + 2 + x] = e[x]
    BY DEF RecordAt
<1>4. Len(w) \in Nat /\ Len(u) \in Nat
    OBVIOUS
<1> HIDE DEF v, d, e
<1> DEFINE l == Len(w)
<1>5. q <= l + Len(u) /\ p + 1 \in 1..l /\ p + 2 \in 1..l /\ \A x \in 1..d : p + 2 + x \in 1..l
  <2>1. l \in Nat /\ q = p + 2 + d /\ q <= l
    BY <1>3, <1>4
  <2> HIDE DEF l
  <2> QED BY <1>1, <1>4, <2>1
<1>6. v[p + 1] = r.time /\ v[p + 2] = d
    BY <1>2, <1>3, <1>5
<1>7. \A x \in 1..d : v[p + 2 + x] = e[x]
    BY <1>2, <1>3, <1>5
<1>8. q = p + 2 + d /\ q <= Len(v)
    BY <1>2, <1>3, <1>5
<1> QED BY <1>6, <1>7, <1>8 DEF RecordAt, v, d, e

\* Words after the complete records do not move them.
LEMMA PlacesStay ==
    ASSUME NEW w \in Seq(Nat), NEW u \in Seq(Nat), NEW recs \in Seq(Recs), NEW P, Places(P, w, recs)
    PROVE  Places(P, w \o u, recs)
<1>1. P \in [0..Len(recs) -> Nat] /\ P[0] = 0 /\ P[Len(recs)] <= Len(w)
    BY DEF Places
<1>2. ASSUME NEW m \in 1..Len(recs) PROVE RecordAt(w \o u, recs[m], P[m - 1], P[m])
  <2>1. recs[m] \in Recs
    OBVIOUS
  <2>2. RecordAt(w, recs[m], P[m - 1], P[m])
    BY DEF Places
  <2>3. P[m] \in Nat /\ P[m - 1] \in Nat
    <3>1. Len(recs) \in Nat /\ m \in 0..Len(recs) /\ m - 1 \in 0..Len(recs)
      OBVIOUS
    <3> QED BY <1>1, <3>1
  <2> QED BY <2>1, <2>2, <2>3, RecordStays
<1>3. P[Len(recs)] <= Len(w \o u)
  <2>1. Len(w) \in Nat /\ Len(u) \in Nat /\ Len(w \o u) = Len(w) + Len(u) /\ Len(recs) \in 0..Len(recs)
    OBVIOUS
  <2>2. P[Len(recs)] \in Nat
    BY <1>1, <2>1
  <2> QED BY <1>1, <2>1, <2>2
<1> QED BY <1>1, <1>2, <1>3 DEF Places

\* More words are what follows a torn record.
LEMMA WordsTorn ==
    ASSUME NEW w, NEW recs \in Seq(Recs), NEW t, WordsShape(w, recs, t), NEW u \in Seq(Nat)
    PROVE  WordsShape(w \o u, recs, TRUE)
<1>1. w \in Seq(Nat)
    BY DEF WordsShape
<1>2. PICK P : Laid(P, w, recs, t)
    BY DEF WordsShape
<1>3. Laid(P, w \o u, recs, TRUE)
    BY <1>1, <1>2, PlacesStay DEF Laid
<1>4. w \o u \in Seq(Nat)
    BY <1>1
<1> QED BY <1>3, <1>4 DEF WordsShape

\* The words of a record, after the record before it.
LEMMA RecordPut ==
    ASSUME NEW w \in Seq(Nat), NEW r \in Recs
    PROVE  LET v == w \o (<<r.time, Len(r.data)>> \o r.data) IN
           /\ v \in Seq(Nat) /\ Len(v) = Len(w) + 2 + Len(r.data)
           /\ RecordAt(v, r, Len(w), Len(v))
<1> DEFINE d == r.data
<1> DEFINE u == <<r.time, Len(d)>> \o d
<1> DEFINE v == w \o u
<1>1. d \in Seq(Nat) /\ r.time \in Nat
    BY DEF Recs
<1> HIDE DEF d
<1>2. Len(w) \in Nat /\ Len(d) \in Nat
    BY <1>1
<1>3. u \in Seq(Nat) /\ Len(u) = 2 + Len(d) /\ u[1] = r.time /\ u[2] = Len(d)
      /\ \A x \in 1..Len(d) : u[2 + x] = d[x]
  <2> DEFINE a == <<r.time, Len(d)>>
  <2>1. a \in Seq(Nat) /\ Len(a) = 2 /\ a[1] = r.time /\ a[2] = Len(d)
    BY <1>1, <1>2
  <2> HIDE DEF a
  <2>2. a \o d \in Seq(Nat) /\ Len(a \o d) = 2 + Len(d)
        /\ \A x \in 1..Len(d) : (a \o d)[2 + x] = d[x]
    <3>1. a \o d \in Seq(Nat) /\ Len(a \o d) = Len(a) + Len(d)
          /\ \A x \in 1..Len(d) : (a \o d)[Len(a) + x] = d[x]
      BY <1>1, <2>1, Concat
    <3>2. Len(a) = 2
      BY <2>1
    <3> QED BY <3>1, <3>2, Zenon
  <2>3. (a \o d)[1] = a[1] /\ (a \o d)[2] = a[2]
    BY <1>1, <2>1, Concat
  <2> QED BY <2>1, <2>2, <2>3 DEF a
<1> HIDE DEF u
<1>4. v \in Seq(Nat) /\ Len(v) = Len(w) + Len(u) /\ \A x \in 1..Len(u) : v[Len(w) + x] = u[x]
    BY <1>3, Concat
<1> HIDE DEF v
<1> DEFINE p == Len(w)
<1> DEFINE n == Len(d)
<1>5. Len(v) = p + 2 + n /\ Len(v) <= Len(v)
    BY <1>2, <1>3, <1>4
<1>6. v[p + 1] = r.time /\ v[p + 2] = n
  <2>1. 1 \in 1..Len(u) /\ 2 \in 1..Len(u)
    BY <1>2, <1>3
  <2> QED BY <1>3, <1>4, <2>1
<1>7. \A x \in 1..n : v[p + 2 + x] = d[x]
  <2> HIDE DEF p
  <2> TAKE x \in 1..n
  <2>1. 2 + x \in 1..Len(u) /\ p \in Nat /\ p + (2 + x) = p + 2 + x
    BY <1>2, <1>3 DEF p
  <2>2. v[p + (2 + x)] = u[2 + x]
    BY <1>4, <2>1 DEF p
  <2> QED BY <1>3, <2>1, <2>2
<1>8. RecordAt(v, r, Len(w), Len(v))
    BY <1>5, <1>6, <1>7 DEF RecordAt, d
<1>9. v \in Seq(Nat) /\ Len(v) = Len(w) + 2 + Len(d)
    BY <1>4, <1>5
<1> QED BY <1>8, <1>9 DEF v, u, d

\* A record written behind complete records is one of them.
LEMMA WordsAppend ==
    ASSUME NEW w, NEW recs \in Seq(Recs), WordsShape(w, recs, FALSE), NEW r \in Recs
    PROVE  WordsShape(w \o (<<r.time, Len(r.data)>> \o r.data), Append(recs, r), FALSE)
<1> DEFINE u == <<r.time, Len(r.data)>> \o r.data
<1> DEFINE v == w \o u
<1> DEFINE all == Append(recs, r)
<1> DEFINE L == Len(recs)
<1>1. w \in Seq(Nat)
    BY DEF WordsShape
<1>2. PICK P : Laid(P, w, recs, FALSE)
    BY DEF WordsShape
<1>3. v \in Seq(Nat) /\ RecordAt(v, r, Len(w), Len(v))
    BY <1>1, RecordPut
<1>4. u \in Seq(Nat)
  <2>1. r.data \in Seq(Nat) /\ r.time \in Nat
    BY DEF Recs
  <2> QED BY <2>1
<1> HIDE DEF u
<1>5. Places(P, v, recs)
    BY <1>1, <1>2, <1>4, PlacesStay DEF Laid
<1>6. P \in [0..L -> Nat] /\ P[0] = 0 /\ P[L] = Len(w) /\ L \in Nat
    BY <1>2 DEF Laid, Places
<1>7. \A m \in 1..L : RecordAt(v, recs[m], P[m - 1], P[m])
    BY <1>5 DEF Places
<1>8. Len(all) = L + 1 /\ all[L + 1] = r /\ \A m \in 1..L : all[m] = recs[m]
    OBVIOUS
<1>9. Len(v) \in Nat
    BY <1>3
<1> HIDE DEF v, all, L
<1> DEFINE Q == [m \in 0..(L + 1) |-> IF m = L + 1 THEN Len(v) ELSE P[m]]
<1>10. Q \in [0..(L + 1) -> Nat] /\ Q[0] = 0 /\ Q[L + 1] = Len(v) /\ \A m \in 0..L : Q[m] = P[m]
    BY <1>6, <1>9
<1> HIDE DEF Q
<1>11. ASSUME NEW m \in 1..(L + 1) PROVE RecordAt(v, all[m], Q[m - 1], Q[m])
  <2>1. CASE m = L + 1
    <3>1. Q[m] = Len(v) /\ Q[m - 1] = Len(w) /\ all[m] = r
      <4>1. m - 1 = L /\ L \in 0..L
        BY <1>6, <2>1
      <4> QED BY <1>6, <1>8, <1>10, <2>1, <4>1
    <3> QED BY <1>3, <3>1 DEF v
  <2>2. CASE m # L + 1
    <3>1. m \in 1..L /\ m \in 0..L /\ m - 1 \in 0..L
      BY <1>6, <2>2
    <3>2. Q[m] = P[m] /\ Q[m - 1] = P[m - 1] /\ all[m] = recs[m]
      BY <1>8, <1>10, <3>1
    <3> QED BY <1>7, <3>1, <3>2
  <2> QED BY <2>1, <2>2
<1>12. Laid(Q, v, all, FALSE)
  <2>1. Len(v) <= Len(v)
    BY <1>9
  <2> QED BY <1>8, <1>10, <1>11, <2>1 DEF Laid, Places
<1> QED BY <1>3, <1>12 DEF WordsShape, v, all, u

\* The file that fopen creates is empty.
LEMMA NewFile == WordsShape(<<>>, <<>>, FALSE)
<1> DEFINE P == [m \in 0..0 |-> 0]
<1>1. Len(<<>>) = 0 /\ <<>> \in Seq(Nat)
    OBVIOUS
<1>2. P \in [0..0 -> Nat] /\ P[0] = 0
    OBVIOUS
<1> HIDE DEF P
<1>3. Places(P, <<>>, <<>>)
    BY <1>1, <1>2 DEF Places
<1>4. Laid(P, <<>>, <<>>, FALSE)
    BY <1>1, <1>2, <1>3 DEF Laid
<1> QED BY <1>1, <1>4 DEF WordsShape

\* What a file is opened with.
LEMMA OpenShape ==
    ASSUME NEW f, NEW recs, NEW t, FileShape(f, recs, t)
    PROVE  WordsShape(IF f = None THEN <<>> ELSE f, recs, t)
<1>1. CASE f = None
    BY <1>1, NewFile DEF FileShape
<1>2. CASE f # None
    BY <1>2 DEF FileShape
<1> QED BY <1>1, <1>2

\* Words are a file.
LEMMA ShapeOfWords ==
    ASSUME NEW w, NEW recs, NEW t, WordsShape(w, recs, t)
    PROVE  FileShape(w, recs, t)
BY BinLogFileAssumption DEF FileShape, WordsShape

-----------------------------------------------------------------------------
(* What writing and rotation keep.                                         *)

\* A record as WriteToBinLog takes it, at a time that has been.
Legal(r, t) == r.time \in 1..t /\ Len(r.data) \in 1..MaxItem

\* The records are in the order of their times, the oldest file first.
Sorted(wh) ==
    \A i, j \in Files : \A x \in 1..Len(wh[i]), y \in 1..Len(wh[j]) :
        (i > j \/ (i = j /\ x <= y)) => wh[i][x].time <= wh[j][y].time

\* Types of the files and of what is known of them.
LogTypes(ff, wh, to) ==
    /\ ff \in [Files -> Seq(Nat) \cup {None}]
    /\ wh \in [Files -> Seq(Recs)]
    /\ to \in [Files -> BOOLEAN]

\* Every file is laid out, of records that could be written by time t.
LogShape(ff, wh, to, t) ==
    \A i \in Files : /\ FileShape(ff[i], wh[i], to[i])
                     /\ \A x \in 1..Len(wh[i]) : Legal(wh[i][x], t)

\* What holds of the log whoever reads it.
Log(ff, wh, to, t) == LogTypes(ff, wh, to) /\ LogShape(ff, wh, to, t) /\ Sorted(wh)

\* Moving whole files keeps the order if it keeps the order of the files.
LEMMA SortedMove ==
    ASSUME NEW wh \in [Files -> Seq(Recs)], NEW mv \in [Files -> Seq(Recs)], Sorted(wh),
           NEW c \in [Files -> Files],
           \A i \in Files : mv[i] = <<>> \/ mv[i] = wh[c[i]],
           \A i, j \in Files : mv[i] # <<>> /\ mv[j] # <<>> /\ i > j => c[i] > c[j]
    PROVE  Sorted(mv)
<1> SUFFICES ASSUME NEW i \in Files, NEW j \in Files, NEW x \in 1..Len(mv[i]), NEW y \in 1..Len(mv[j]),
                    i > j \/ (i = j /\ x <= y)
             PROVE  mv[i][x].time <= mv[j][y].time
    BY DEF Sorted
<1>1. mv[i] # <<>> /\ mv[j] # <<>>
    OBVIOUS
<1>2. mv[i] = wh[c[i]] /\ mv[j] = wh[c[j]]
    BY <1>1
<1>3. c[i] > c[j] \/ (c[i] = c[j] /\ x <= y)
    BY <1>1
<1>4. c[i] \in Files /\ c[j] \in Files
    OBVIOUS
<1> QED BY <1>2, <1>3, <1>4 DEF Sorted

\* The clock goes on.
LEMMA LogTick ==
    ASSUME NEW ff, NEW wh, NEW to, NEW t \in Nat, Log(ff, wh, to, t)
    PROVE  Log(ff, wh, to, t + 1)
<1>1. \A r : Legal(r, t) => Legal(r, t + 1)
    BY DEF Legal
<1> QED BY <1>1 DEF Log, LogShape

\* File i becomes file i + 1, which does not exist.
LEMMA LogRename ==
    ASSUME NEW ff, NEW wh, NEW to, NEW t, Log(ff, wh, to, t),
           NEW i \in 0..(MaxLogNum - 2), ff[i + 1] = None
    PROVE  Log([ff EXCEPT ![i + 1] = ff[i], ![i] = None],
               [wh EXCEPT ![i + 1] = wh[i], ![i] = <<>>],
               [to EXCEPT ![i + 1] = to[i], ![i] = FALSE], t)
<1> DEFINE k == i + 1
<1> DEFINE f2 == [ff EXCEPT ![k] = ff[i], ![i] = None]
<1> DEFINE w2 == [wh EXCEPT ![k] = wh[i], ![i] = <<>>]
<1> DEFINE t2 == [to EXCEPT ![k] = to[i], ![i] = FALSE]
<1>1. i \in Files /\ k \in Files /\ i # k /\ i \in Nat /\ k = i + 1
    BY FileCount DEF Files
<1>2. LogTypes(ff, wh, to) /\ LogShape(ff, wh, to, t) /\ Sorted(wh)
    BY DEF Log
<1> HIDE DEF k
<1>3. f2 \in [Files -> Seq(Nat) \cup {None}]
    BY <1>1, <1>2 DEF LogTypes
<1>4. w2 \in [Files -> Seq(Recs)]
  <2>1. <<>> \in Seq(Recs) /\ wh[i] \in Seq(Recs) /\ wh \in [Files -> Seq(Recs)]
    BY <1>1, <1>2 DEF LogTypes
  <2> QED BY <1>1, <2>1
<1>5. t2 \in [Files -> BOOLEAN]
    BY <1>1, <1>2 DEF LogTypes
<1>6. /\ f2[i] = None /\ f2[k] = ff[i] /\ \A j \in Files : j # i /\ j # k => f2[j] = ff[j]
      /\ w2[i] = <<>> /\ w2[k] = wh[i] /\ \A j \in Files : j # i /\ j # k => w2[j] = wh[j]
      /\ t2[i] = FALSE /\ t2[k] = to[i] /\ \A j \in Files : j # i /\ j # k => t2[j] = to[j]
    BY <1>1, <1>2 DEF LogTypes
<1> HIDE DEF f2, w2, t2
<1>7. LogShape(f2, w2, t2, t)
  <2> SUFFICES ASSUME NEW j \in Files
               PROVE  FileShape(f2[j], w2[j], t2[j]) /\ \A x \in 1..Len(w2[j]) : Legal(w2[j][x], t)
    BY DEF LogShape
  <2>1. \A l \in Files : FileShape(ff[l], wh[l], to[l]) /\ \A x \in 1..Len(wh[l]) : Legal(wh[l][x], t)
    BY <1>2 DEF LogShape
  <2>2. CASE j = i
    <3>1. FileShape(None, <<>>, FALSE)
      BY DEF FileShape
    <3>2. Len(w2[j]) = 0
      BY <1>6, <2>2
    <3>3. \A x \in 1..Len(w2[j]) : Legal(w2[j][x], t)
      BY <3>2
    <3>4. f2[j] = None /\ w2[j] = <<>> /\ t2[j] = FALSE
      BY <1>6, <2>2
    <3> QED BY <3>1, <3>3, <3>4, Zenon
  <2>3. CASE j = k
    BY <1>1, <1>6, <2>1, <2>3
  <2>4. CASE j # i /\ j # k
    BY <1>6, <2>1, <2>4
  <2> QED BY <2>2, <2>3, <2>4
<1>8. Sorted(w2)
  <2> DEFINE c == [j \in Files |-> IF j = k THEN i ELSE j]
  <2>1. c \in [Files -> Files]
    BY <1>1
  <2>2. \A j \in Files : w2[j] = <<>> \/ w2[j] = wh[c[j]]
    BY <1>1, <1>6
  <2>3. \A j, l \in Files : w2[j] # <<>> /\ w2[l] # <<>> /\ j > l => c[j] > c[l]
    <3> SUFFICES ASSUME NEW j \in Files, NEW l \in Files, j # i, l # i, j > l PROVE c[j] > c[l]
      BY <1>6
    <3>1. j \in Nat /\ l \in Nat /\ c[j] = (IF j = k THEN i ELSE j) /\ c[l] = (IF l = k THEN i ELSE l)
      BY FileCount
    <3> QED BY <1>1, <3>1
  <2>4. wh \in [Files -> Seq(Recs)]
    BY <1>2 DEF LogTypes
  <2> HIDE DEF c
  <2> QED BY <1>2, <1>4, <2>1, <2>2, <2>3, <2>4, SortedMove
<1>9. Log(f2, w2, t2, t)
    BY <1>3, <1>4, <1>5, <1>7, <1>8 DEF Log, LogTypes
<1> QED BY <1>9 DEF f2, w2, t2, k

\* A file is removed.
LEMMA LogRemove ==
    ASSUME NEW ff, NEW wh, NEW to, NEW t, Log(ff, wh, to, t), NEW i \in Files
    PROVE  Log([ff EXCEPT ![i] = None], [wh EXCEPT ![i] = <<>>], [to EXCEPT ![i] = FALSE], t)
<1> DEFINE f2 == [ff EXCEPT ![i] = None]
<1> DEFINE w2 == [wh EXCEPT ![i] = <<>>]
<1> DEFINE t2 == [to EXCEPT ![i] = FALSE]
<1>2. LogTypes(ff, wh, to) /\ LogShape(ff, wh, to, t) /\ Sorted(wh)
    BY DEF Log
<1>3. f2 \in [Files -> Seq(Nat) \cup {None}]
    BY <1>2 DEF LogTypes
<1>4. w2 \in [Files -> Seq(Recs)]
  <2>1. <<>> \in Seq(Recs) /\ wh \in [Files -> Seq(Recs)]
    BY <1>2 DEF LogTypes
  <2> QED BY <2>1
<1>5. t2 \in [Files -> BOOLEAN]
    BY <1>2 DEF LogTypes
<1>6. /\ f2[i] = None /\ \A j \in Files : j # i => f2[j] = ff[j]
      /\ w2[i] = <<>> /\ \A j \in Files : j # i => w2[j] = wh[j]
      /\ t2[i] = FALSE /\ \A j \in Files : j # i => t2[j] = to[j]
    BY <1>2 DEF LogTypes
<1> HIDE DEF f2, w2, t2
<1>7. LogShape(f2, w2, t2, t)
  <2> SUFFICES ASSUME NEW j \in Files
               PROVE  FileShape(f2[j], w2[j], t2[j]) /\ \A x \in 1..Len(w2[j]) : Legal(w2[j][x], t)
    BY DEF LogShape
  <2>1. \A l \in Files : FileShape(ff[l], wh[l], to[l]) /\ \A x \in 1..Len(wh[l]) : Legal(wh[l][x], t)
    BY <1>2 DEF LogShape
  <2>2. CASE j = i
    <3>1. FileShape(None, <<>>, FALSE)
      BY DEF FileShape
    <3>2. Len(w2[j]) = 0
      BY <1>6, <2>2
    <3>3. \A x \in 1..Len(w2[j]) : Legal(w2[j][x], t)
      BY <3>2
    <3>4. f2[j] = None /\ w2[j] = <<>> /\ t2[j] = FALSE
      BY <1>6, <2>2
    <3> QED BY <3>1, <3>3, <3>4, Zenon
  <2>3. CASE j # i
    BY <1>6, <2>1, <2>3
  <2> QED BY <2>2, <2>3
<1>8. Sorted(w2)
  <2> DEFINE c == [j \in Files |-> j]
  <2>1. c \in [Files -> Files]
    OBVIOUS
  <2>2. \A j \in Files : w2[j] = <<>> \/ w2[j] = wh[c[j]]
    BY <1>6
  <2>3. \A j, l \in Files : w2[j] # <<>> /\ w2[l] # <<>> /\ j > l => c[j] > c[l]
    OBVIOUS
  <2>4. wh \in [Files -> Seq(Recs)]
    BY <1>2 DEF LogTypes
  <2> HIDE DEF c
  <2> QED BY <1>2, <1>4, <2>1, <2>2, <2>3, <2>4, SortedMove
<1>9. Log(f2, w2, t2, t)
    BY <1>3, <1>4, <1>5, <1>7, <1>8 DEF Log, LogTypes
<1> QED BY <1>9 DEF f2, w2, t2

\* Words are appended to file 0, and they tear its end or change nothing.
LEMMA LogTorn ==
    ASSUME NEW ff, NEW wh, NEW to, NEW t, Log(ff, wh, to, t), NEW w, NEW b \in BOOLEAN,
           WordsShape(w, wh[0], b)
    PROVE  Log([ff EXCEPT ![0] = w], wh, [to EXCEPT ![0] = b], t)
<1> DEFINE f2 == [ff EXCEPT ![0] = w]
<1> DEFINE t2 == [to EXCEPT ![0] = b]
<1>1. 0 \in Files
    BY FileCount DEF Files
<1>2. LogTypes(ff, wh, to) /\ LogShape(ff, wh, to, t) /\ Sorted(wh)
    BY DEF Log
<1>3. w \in Seq(Nat)
    BY DEF WordsShape
<1>4. f2 \in [Files -> Seq(Nat) \cup {None}] /\ t2 \in [Files -> BOOLEAN]
    BY <1>2, <1>3 DEF LogTypes
<1>5. /\ f2[0] = w /\ \A j \in Files : j # 0 => f2[j] = ff[j]
      /\ t2[0] = b /\ \A j \in Files : j # 0 => t2[j] = to[j]
    BY <1>1, <1>2 DEF LogTypes
<1> HIDE DEF f2, t2
<1>6. LogShape(f2, wh, t2, t)
  <2> SUFFICES ASSUME NEW j \in Files
               PROVE  FileShape(f2[j], wh[j], t2[j]) /\ \A x \in 1..Len(wh[j]) : Legal(wh[j][x], t)
    BY DEF LogShape
  <2>1. \A l \in Files : FileShape(ff[l], wh[l], to[l]) /\ \A x \in 1..Len(wh[l]) : Legal(wh[l][x], t)
    BY <1>2 DEF LogShape
  <2>2. FileShape(w, wh[0], b)
    BY ShapeOfWords
  <2>3. CASE j = 0
    BY <1>5, <2>1, <2>2, <2>3
  <2>4. CASE j # 0
    BY <1>5, <2>1, <2>4
  <2> QED BY <2>3, <2>4
<1>7. Log(f2, wh, t2, t)
    BY <1>2, <1>4, <1>6 DEF Log, LogTypes
<1> QED BY <1>7 DEF f2, t2

\* A record is appended to file 0, which is not torn.
LEMMA LogAppend ==
    ASSUME NEW ff, NEW wh, NEW to, NEW t, Log(ff, wh, to, t), NEW w, ~to[0],
           NEW r \in Recs, r.time = t, Legal(r, t), WordsShape(w, Append(wh[0], r), FALSE)
    PROVE  Log([ff EXCEPT ![0] = w], [wh EXCEPT ![0] = Append(wh[0], r)], to, t)
<1> DEFINE a == Append(wh[0], r)
<1> DEFINE f2 == [ff EXCEPT ![0] = w]
<1> DEFINE w2 == [wh EXCEPT ![0] = a]
<1>1. 0 \in Files
    BY FileCount DEF Files
<1>2. LogTypes(ff, wh, to) /\ LogShape(ff, wh, to, t) /\ Sorted(wh)
    BY DEF Log
<1>3. w \in Seq(Nat) /\ wh[0] \in Seq(Recs) /\ to[0] = FALSE
    BY <1>1, <1>2 DEF WordsShape, LogTypes
<1>4. a \in Seq(Recs) /\ Len(a) = Len(wh[0]) + 1 /\ a[Len(wh[0]) + 1] = r
      /\ \A x \in 1..Len(wh[0]) : a[x] = wh[0][x]
    BY <1>3
<1>5. FileShape(w, a, FALSE)
    BY ShapeOfWords
<1> HIDE DEF a
<1>6. f2 \in [Files -> Seq(Nat) \cup {None}] /\ w2 \in [Files -> Seq(Recs)]
    BY <1>2, <1>3, <1>4 DEF LogTypes
<1>7. /\ f2[0] = w /\ \A j \in Files : j # 0 => f2[j] = ff[j]
      /\ w2[0] = a /\ \A j \in Files : j # 0 => w2[j] = wh[j]
    BY <1>1, <1>2 DEF LogTypes
<1> HIDE DEF f2, w2
<1>8. Len(wh[0]) \in Nat
    BY <1>3
<1>9. \A l \in Files : FileShape(ff[l], wh[l], to[l]) /\ \A x \in 1..Len(wh[l]) : Legal(wh[l][x], t)
    BY <1>2 DEF LogShape
<1>10. LogShape(f2, w2, to, t)
  <2> SUFFICES ASSUME NEW j \in Files
               PROVE  FileShape(f2[j], w2[j], to[j]) /\ \A x \in 1..Len(w2[j]) : Legal(w2[j][x], t)
    BY DEF LogShape
  <2>1. CASE j = 0
    <3>1. \A x \in 1..Len(a) : Legal(a[x], t)
      <4> TAKE x \in 1..Len(a)
      <4>1. x \in 1..Len(wh[0]) \/ x = Len(wh[0]) + 1
        BY <1>4, <1>8
      <4> QED BY <1>1, <1>4, <1>9, <4>1
    <3> QED BY <1>3, <1>5, <1>7, <2>1, <3>1
  <2>2. CASE j # 0
    BY <1>7, <1>9, <2>2
  <2> QED BY <2>1, <2>2
<1>11. Sorted(w2)
  <2> SUFFICES ASSUME NEW i \in Files, NEW j \in Files, NEW x \in 1..Len(w2[i]), NEW y \in 1..Len(w2[j]),
                      i > j \/ (i = j /\ x <= y)
               PROVE  w2[i][x].time <= w2[j][y].time
    BY DEF Sorted
  <2> DEFINE old(l, z) == z \in 1..Len(wh[l]) /\ w2[l][z] = wh[l][z]
  <2> DEFINE new(l, z) == l = 0 /\ z = Len(wh[0]) + 1 /\ w2[l][z] = r
  <2>1. \A l \in Files : \A z \in 1..Len(w2[l]) : old(l, z) \/ new(l, z)
    <3> TAKE l \in Files
    <3> TAKE z \in 1..Len(w2[l])
    <3>1. CASE l = 0
      <4>1. z \in 1..Len(wh[0]) \/ z = Len(wh[0]) + 1
        BY <1>4, <1>7, <1>8, <3>1
      <4> QED BY <1>4, <1>7, <3>1, <4>1
    <3>2. CASE l # 0
      BY <1>7, <3>2
    <3> QED BY <3>1, <3>2
  <2>2. \A l \in Files : \A z \in 1..Len(wh[l]) : wh[l][z].time \in 1..t
    BY <1>9 DEF Legal
  <2>3. r.time = t /\ t \in Nat
    BY DEF Recs
  <2>4. (old(i, x) \/ new(i, x)) /\ (old(j, y) \/ new(j, y))
    BY <2>1
  <2>5. CASE old(i, x) /\ old(j, y)
    <3>1. wh[i][x].time <= wh[j][y].time
      BY <1>2, <2>5 DEF Sorted
    <3> QED BY <2>5, <3>1
  <2>6. CASE old(i, x) /\ new(j, y)
    <3>1. wh[i][x].time \in 1..t
      BY <2>2, <2>6
    <3> QED BY <2>3, <2>6, <3>1
  <2>7. CASE new(i, x) /\ old(j, y)
    <3>1. i = 0 /\ j \in Nat
      BY <2>7, FileCount
    <3>2. j = 0 /\ x <= y
      BY <3>1
    <3>3. x = Len(wh[0]) + 1 /\ y \in 1..Len(wh[0])
      BY <2>7, <3>2
    <3> QED BY <1>8, <3>2, <3>3
  <2>8. CASE new(i, x) /\ new(j, y)
    BY <2>3, <2>8
  <2> HIDE DEF old, new
  <2> QED BY <2>4, <2>5, <2>6, <2>7, <2>8
<1>12. Log(f2, w2, to, t)
    BY <1>2, <1>6, <1>10, <1>11 DEF Log, LogTypes
<1> QED BY <1>12 DEF f2, w2, a

-----------------------------------------------------------------------------
(* Where a reader is, and what it has handed out.                          *)

\* All records of the files after file i, and of file i after its first m, are of
\* time t or later.
Later(wh, t, i) == \A k \in Files : k < i => \A y \in 1..Len(wh[k]) : wh[k][y].time >= t
\* The same of what follows the first m records of file i.
Rest(wh, t, i, m) == Later(wh, t, i) /\ \A y \in 1..Len(wh[i]) : y > m => wh[i][y].time >= t

\* A torn record has been met; all before it has been handed out.
Lost(g, t, dl) == g[MaxLogNum].tear /\ IsPrefix(Since(t, g[MaxLogNum].recs), dl)

\* All has been handed out of the files from file i on.
Between(g, wh, t, i, dl) ==
    /\ i \in 0..MaxLogNum /\ g[MaxLogNum - i].tear = FALSE
    /\ dl = Since(t, g[MaxLogNum - i].recs) /\ Later(wh, t, i)

\* All has been handed out of the files before file i, and its first m records.
Inside(g, wh, t, i, m, dl) ==
    /\ i \in Files /\ m \in 0..Len(wh[i]) /\ g[MaxLogNum - (i + 1)].tear = FALSE
    /\ dl = Since(t, g[MaxLogNum - (i + 1)].recs \o SubSeq(wh[i], 1, m)) /\ Rest(wh, t, i, m)

\* The reader stands in the open file where it has handed out what lies before.
Stands(g, ff, wh, to, t, r, dl) ==
    \E P, m : /\ Inside(g, wh, t, r.i, m, dl)
              /\ ff[r.i] # None /\ Laid(P, ff[r.i], wh[r.i], to[r.i]) /\ r.pos = P[m]
              /\ r.eof => m = Len(wh[r.i]) /\ ~to[r.i]

\* The three states of a reader that goes on.
Reading(g, ff, wh, to, t, r, dl) ==
    \/ Lost(g, t, dl)
    \/ ~r.open /\ Between(g, wh, t, r.i, dl)
    \/ r.open /\ Stands(g, ff, wh, to, t, r, dl)

\* ReplayIsExact, of a history.
Ended(g, t, dl) ==
    IF g[MaxLogNum].tear THEN IsPrefix(Since(t, g[MaxLogNum].recs), dl)
                         ELSE dl = Since(t, g[MaxLogNum].recs)

\* The history after file i.
LEMMA HistoryFile ==
    ASSUME NEW wh \in [Files -> Seq(Recs)], NEW to \in [Files -> BOOLEAN], NEW g, IsHistory(g, wh, to),
           NEW i \in Files, g[MaxLogNum - (i + 1)].tear = FALSE
    PROVE  g[MaxLogNum - i].recs = g[MaxLogNum - (i + 1)].recs \o wh[i] /\ g[MaxLogNum - i].tear = to[i]
<1> DEFINE j == MaxLogNum - i
<1>1. j \in 1..MaxLogNum /\ MaxLogNum - j = i /\ j - 1 = MaxLogNum - (i + 1)
    BY FileCount DEF Files
<1> HIDE DEF j
<1>2. g[j] = NextHist(g[j - 1], wh, to, i)
    BY <1>1 DEF IsHistory
<1>3. g[j - 1].tear = FALSE
    BY <1>1
<1>4. g[j] = [recs |-> g[j - 1].recs \o wh[i], tear |-> to[i]]
    BY <1>2, <1>3 DEF NextHist
<1>5. g[j].recs = g[j - 1].recs \o wh[i] /\ g[j].tear = to[i]
    BY <1>4
<1> QED BY <1>1, <1>5 DEF j

\* A file that has been read to its end, without a torn record.
LEMMA FileDone ==
    ASSUME NEW wh \in [Files -> Seq(Recs)], NEW to \in [Files -> BOOLEAN], NEW g, IsHistory(g, wh, to),
           NEW t, NEW dl, NEW i \in Files, ~to[i], Inside(g, wh, t, i, Len(wh[i]), dl)
    PROVE  Between(g, wh, t, i, dl)
<1>1. SubSeq(wh[i], 1, Len(wh[i])) = wh[i]
    OBVIOUS
<1>2. g[MaxLogNum - i].recs = g[MaxLogNum - (i + 1)].recs \o wh[i] /\ g[MaxLogNum - i].tear = to[i]
    BY HistoryFile DEF Inside
<1>3. i \in 0..MaxLogNum /\ to[i] = FALSE
    BY FileCount
<1> QED BY <1>1, <1>2, <1>3 DEF Inside, Between, Rest

\* A file that has been read to its torn record.
LEMMA FileTorn ==
    ASSUME NEW wh \in [Files -> Seq(Recs)], NEW to \in [Files -> BOOLEAN], NEW g, IsHistory(g, wh, to),
           NEW t \in Int, NEW dl, NEW i \in Files, to[i], Inside(g, wh, t, i, Len(wh[i]), dl)
    PROVE  Lost(g, t, dl)
<1>1. SubSeq(wh[i], 1, Len(wh[i])) = wh[i]
    OBVIOUS
<1>2. g[MaxLogNum - i].recs = g[MaxLogNum - (i + 1)].recs \o wh[i] /\ g[MaxLogNum - i].tear = to[i]
    BY HistoryFile DEF Inside
<1>3. MaxLogNum - i \in 0..MaxLogNum
    BY FileCount DEF Files
<1>4. g[MaxLogNum] = g[MaxLogNum - i]
    BY <1>2, <1>3, HistoryTear
<1>5. dl = Since(t, g[MaxLogNum].recs)
    BY <1>1, <1>2, <1>4 DEF Inside
<1>6. g[MaxLogNum].recs \in Seq(Recs)
  <2>1. MaxLogNum \in 0..MaxLogNum
    BY FileCount
  <2>2. g[MaxLogNum] \in Hist
    BY <2>1, HistoryType
  <2> QED BY <2>2 DEF Hist
<1>7. dl \in Seq(Recs)
    BY <1>5, <1>6, SinceType
<1>8. IsPrefix(dl, dl)
    BY <1>7 DEF IsPrefix
<1> QED BY <1>2, <1>4, <1>5, <1>8 DEF Lost

\* Files that do not exist have no records.
LEMMA NoFile ==
    ASSUME NEW ff, NEW wh, NEW to, NEW t, Log(ff, wh, to, t), NEW i \in Files, ff[i] = None
    PROVE  wh[i] = <<>> /\ ~to[i]
BY DEF Log, LogShape, FileShape

\* The next file is opened at its beginning.
LEMMA FileOpened ==
    ASSUME NEW ff, NEW wh, NEW to, NEW n, Log(ff, wh, to, n), NEW g, IsHistory(g, wh, to),
           NEW t, NEW dl, NEW i \in 0..MaxLogNum, Between(g, wh, t, i, dl),
           NEW j \in Files, j < i, ff[j] # None, \A k \in Files : j < k /\ k < i => ff[k] = None
    PROVE  Inside(g, wh, t, j, 0, dl)
<1>1. wh \in [Files -> Seq(Recs)] /\ to \in [Files -> BOOLEAN]
    BY DEF Log, LogTypes
<1> DEFINE a == MaxLogNum - i
<1> DEFINE b == MaxLogNum - (j + 1)
<1>2. a \in 0..MaxLogNum /\ b \in 0..MaxLogNum /\ a <= b
    BY FileCount DEF Files
<1>3. \A l \in (a + 1)..b : wh[MaxLogNum - l] = <<>> /\ ~to[MaxLogNum - l]
  <2> TAKE l \in (a + 1)..b
  <2>1. MaxLogNum - l \in Files /\ j < MaxLogNum - l /\ MaxLogNum - l < i
    BY FileCount DEF Files
  <2> QED BY <2>1, NoFile
<1> HIDE DEF a, b
<1>4. g[a].tear = FALSE /\ dl = Since(t, g[a].recs) /\ Later(wh, t, i)
    BY DEF Between, a
<1>5. g[b] = g[a]
  <2>1. NotTorn(g[a]) /\ NoRecords(wh, to, a, b)
    BY <1>3, <1>4 DEF NotTorn, NoRecords
  <2> QED BY <1>1, <1>2, <2>1, HistorySkip, ZenonT(30)
<1>6. g[b].recs \o SubSeq(wh[j], 1, 0) = g[b].recs
  <2>1. g[b] \in Hist
    BY <1>1, <1>2, HistoryType
  <2>2. g[b].recs \in Seq(Recs) /\ SubSeq(wh[j], 1, 0) = <<>>
    BY <2>1 DEF Hist
  <2> QED BY <2>2
<1>7. 0 \in 0..Len(wh[j])
  <2>1. wh[j] \in Seq(Recs)
    BY <1>1
  <2> QED BY <2>1
<1>8. Rest(wh, t, j, 0)
  <2>1. \A k \in Files : k < j => k < i
    BY FileCount
  <2>2. \A y \in 1..Len(wh[j]) : wh[j][y].time >= t
    BY <1>4 DEF Later
  <2> QED BY <1>4, <2>1, <2>2 DEF Rest, Later
<1>9. g[b].tear = FALSE /\ dl = Since(t, g[b].recs \o SubSeq(wh[j], 1, 0))
    BY <1>4, <1>5, <1>6
<1> QED BY <1>7, <1>8, <1>9 DEF Inside, b

\* There is no next file.
LEMMA NoneLeft ==
    ASSUME NEW ff, NEW wh, NEW to, NEW n, Log(ff, wh, to, n), NEW g, IsHistory(g, wh, to),
           NEW t, NEW dl, NEW i \in 0..MaxLogNum, Between(g, wh, t, i, dl),
           \A k \in Files : k < i => ff[k] = None
    PROVE  Ended(g, t, dl)
<1>1. wh \in [Files -> Seq(Recs)] /\ to \in [Files -> BOOLEAN]
    BY DEF Log, LogTypes
<1> DEFINE a == MaxLogNum - i
<1>2. a \in 0..MaxLogNum /\ MaxLogNum \in 0..MaxLogNum /\ a <= MaxLogNum
    BY FileCount
<1>3. \A l \in (a + 1)..MaxLogNum : wh[MaxLogNum - l] = <<>> /\ ~to[MaxLogNum - l]
  <2> TAKE l \in (a + 1)..MaxLogNum
  <2>1. MaxLogNum - l \in Files /\ MaxLogNum - l < i
    BY FileCount DEF Files
  <2> QED BY <2>1, NoFile
<1> HIDE DEF a
<1>4. g[a].tear = FALSE /\ dl = Since(t, g[a].recs)
    BY DEF Between, a
<1>5. g[MaxLogNum] = g[a]
  <2>1. NotTorn(g[a]) /\ NoRecords(wh, to, a, MaxLogNum)
    BY <1>3, <1>4 DEF NotTorn, NoRecords
  <2> QED BY <1>1, <1>2, <2>1, HistorySkip
<1> QED BY <1>4, <1>5 DEF Ended

\* The first n elements and the next one are the first n + 1.
LEMMA AppendPiece ==
    ASSUME NEW X, NEW s \in Seq(X), NEW n \in Nat, n + 1 \in 1..Len(s)
    PROVE  Append(SubSeq(s, 1, n), s[n + 1]) = SubSeq(s, 1, n + 1)
<1> DEFINE a == Append(SubSeq(s, 1, n), s[n + 1])
<1> DEFINE c == SubSeq(s, 1, n + 1)
<1> DEFINE m == SubSeq(s, 1, n)
<1>1. Len(s) \in Nat /\ \A i \in 1..Len(s) : s[i] \in X
    OBVIOUS
<1>2. m \in Seq(X) /\ Len(m) = n /\ \A i \in 1..n : m[i] = s[i]
    BY <1>1
<1>3. c \in Seq(X) /\ Len(c) = n + 1 /\ \A i \in 1..(n + 1) : c[i] = s[i]
    BY <1>1
<1> HIDE DEF m, c
<1>4. a \in Seq(X) /\ Len(a) = n + 1 /\ a[n + 1] = s[n + 1] /\ \A i \in 1..n : a[i] = m[i]
    BY <1>1, <1>2 DEF m
<1> HIDE DEF a
<1>5. \A i \in 1..(n + 1) : a[i] = c[i]
    BY <1>2, <1>3, <1>4
<1>6. a = c
    BY <1>3, <1>4, <1>5, SeqEqual
<1> QED BY <1>6 DEF a, c

\* The next record of a file is handed out.
LEMMA RecordDone ==
    ASSUME NEW wh \in [Files -> Seq(Recs)], NEW to \in [Files -> BOOLEAN], NEW g, IsHistory(g, wh, to),
           NEW t \in Int, NEW dl, NEW i \in Files, NEW m \in Nat, m + 1 \in 1..Len(wh[i]),
           Inside(g, wh, t, i, m, dl)
    PROVE  Inside(g, wh, t, i, m + 1, Append(dl, wh[i][m + 1]))
<1> DEFINE b == MaxLogNum - (i + 1)
<1> DEFINE h == g[b].recs
<1> DEFINE s == wh[i]
<1> DEFINE r == s[m + 1]
<1>1. b \in 0..MaxLogNum
    BY FileCount DEF Files
<1>2. g[b] \in Hist
    BY <1>1, HistoryType
<1>3. h \in Seq(Recs) /\ s \in Seq(Recs)
    BY <1>2 DEF Hist
<1>4. g[b].tear = FALSE /\ dl = Since(t, h \o SubSeq(s, 1, m)) /\ Rest(wh, t, i, m)
    BY DEF Inside
<1>5. m + 1 \in 1..Len(s)
    OBVIOUS
<1> HIDE DEF h, s, b
<1>6. r \in Recs
    BY <1>3, <1>5
<1>7. r.time >= t
  <2>1. \A y \in 1..Len(s) : y > m => s[y].time >= t
    BY <1>4 DEF Rest, s
  <2>2. m + 1 > m
    OBVIOUS
  <2> QED BY <1>5, <2>1, <2>2
<1>8. SubSeq(s, 1, m) \in Seq(Recs)
    BY <1>3, <1>5
<1> DEFINE p == SubSeq(s, 1, m)
<1>9. SubSeq(s, 1, m + 1) = Append(p, r)
    BY <1>3, <1>5, AppendPiece
<1> HIDE DEF p, r
<1>10. h \o Append(p, r) = Append(h \o p, r) /\ h \o p \in Seq(Recs)
    BY <1>3, <1>6, <1>8 DEF p
<1>11. Since(t, Append(h \o p, r)) = Append(Since(t, h \o p), r)
    BY <1>6, <1>7, <1>10, SinceAppend
<1>12. Append(dl, r) = Since(t, h \o SubSeq(s, 1, m + 1))
    BY <1>4, <1>9, <1>10, <1>11 DEF p
<1>13. Rest(wh, t, i, m + 1)
  <2>1. \A y \in 1..Len(wh[i]) : y > m + 1 => y > m
    OBVIOUS
  <2> QED BY <1>4, <2>1 DEF Rest
<1>14. m + 1 \in 0..Len(s)
    BY <1>5
<1> QED BY <1>4, <1>12, <1>13, <1>14 DEF Inside, h, s, b, r

-----------------------------------------------------------------------------
(* The search for the first record of a time or later.                     *)

\* What Min of a non-empty set of numbers is.
LEMMA MinIs ==
    ASSUME NEW S \in SUBSET Nat, S # {}
    PROVE  Min(S) \in S /\ \A y \in S : Min(S) <= y
<1> DEFINE Least(T) == \E x \in T : \A y \in T : x <= y
<1> DEFINE Q(n) == \A T \in SUBSET Nat : (\E z \in T : z <= n) => Least(T)
<1> DEFINE U == {n \in Nat : Q(n)}
<1>1. Q(0)
  <2> SUFFICES ASSUME NEW T \in SUBSET Nat, NEW z \in T, z <= 0 PROVE Least(T)
    OBVIOUS
  <2>1. z = 0 /\ \A y \in T : z <= y
    OBVIOUS
  <2> QED BY <2>1
<1>2. ASSUME NEW n \in Nat, Q(n) PROVE Q(n + 1)
  <2> SUFFICES ASSUME NEW T \in SUBSET Nat, NEW z \in T, z <= n + 1 PROVE Least(T)
    OBVIOUS
  <2>1. CASE \E x \in T : x <= n
    <3> HIDE DEF Least
    <3> QED BY <1>2, <2>1
  <2>2. CASE ~(\E x \in T : x <= n)
    <3>1. \A y \in T : z <= y
      BY <2>2
    <3> QED BY <3>1
  <2> QED BY <2>1, <2>2
<1>3. Nat \subseteq U
  <2> HIDE DEF Q
  <2>1. 0 \in U /\ \A n \in Nat : n \in U => n + 1 \in U
    BY <1>1, <1>2
  <2> HIDE DEF U
  <2> QED BY <2>1, NatInd
<1>4. PICK z \in S : TRUE
    OBVIOUS
<1>5. Q(z)
  <2> HIDE DEF Q
  <2> QED BY <1>3
<1>6. Least(S)
  <2>1. z <= z
    OBVIOUS
  <2> HIDE DEF Least
  <2> QED BY <1>5, <2>1
<1>7. PICK x \in S : \A y \in S : x <= y
    BY <1>6
<1> QED BY <1>7, Zenon DEF Min

\* Records in the order of their times.
Growing(recs) == \A x, y \in 1..Len(recs) : x <= y => recs[x].time <= recs[y].time

\* The first m records are before t, and the others are not.
SplitAt(recs, t, m) ==
    \A y \in 1..Len(recs) : recs[y].time \in Nat /\ (y <= m => recs[y].time < t) /\ (y > m => recs[y].time >= t)

\* The records of a file, but its first, that are of time t or later.
AfterIn(w, t) == {b \in Begins(w) \ {0} : TimeAt(w, b) >= t}

\* The first word of a file that ends with a record.
LEMMA FirstRecord ==
    ASSUME NEW w \in Seq(Nat), NEW recs \in Seq(Recs), NEW P, Laid(P, w, recs, FALSE), w # <<>>
    PROVE  1 \in 1..Len(recs) /\ TimeAt(w, 0) = recs[1].time
<1>1. Len(recs) \in Nat /\ Len(w) \in Nat /\ Len(w) # 0
    OBVIOUS
<1>2. P[0] = 0 /\ P[Len(recs)] = Len(w)
    BY DEF Laid, Places
<1>3. Len(recs) # 0
    BY <1>1, <1>2
<1>4. 1 \in 1..Len(recs)
    BY <1>1, <1>3
<1>5. RecordAt(w, recs[1], P[1 - 1], P[1])
    BY <1>4 DEF Laid, Places
<1>6. w[P[1 - 1] + 1] = recs[1].time
    BY <1>5 DEF RecordAt
<1>7. 1 - 1 = 0
    OBVIOUS
<1> QED BY <1>2, <1>4, <1>6, <1>7 DEF TimeAt

\* What the search finds in a file that begins before t.
LEMMA FileSearch ==
    ASSUME NEW w \in Seq(Nat), NEW recs \in Seq(Recs), NEW P, Laid(P, w, recs, FALSE), w # <<>>,
           Growing(recs), NEW t \in Int, TimeAt(w, 0) < t
    PROVE  /\ AfterIn(w, t) = {} => SplitAt(recs, t, Len(recs))
           /\ AfterIn(w, t) # {} => \E m \in 0..Len(recs) : Min(AfterIn(w, t)) = P[m] /\ SplitAt(recs, t, m)
<1> DEFINE L == Len(recs)
<1> DEFINE A == AfterIn(w, t)
<1> DEFINE T(y) == recs[y].time
<1>1. L \in Nat /\ 1 \in 1..L /\ T(1) < t
  <2>1. L \in Nat
    OBVIOUS
  <2>2. 1 \in 1..Len(recs) /\ TimeAt(w, 0) = recs[1].time
    BY FirstRecord
  <2> QED BY <2>1, <2>2
<1>2. \A y \in 1..L : T(y) \in Nat
  <2> TAKE y \in 1..L
  <2>1. recs[y] \in Recs
    OBVIOUS
  <2> QED BY <2>1 DEF Recs
<1>3. \A x, y \in 1..L : x <= y => T(x) <= T(y)
    BY DEF Growing
<1>4. \A m, n \in 0..L : m < n => P[m] < P[n]
    BY PlacesGrow DEF Laid
<1>5. P[0] = 0 /\ \A m \in 0..L : P[m] \in Nat
    BY DEF Laid, Places
<1>6. Begins(w) = {P[x] : x \in 0..(L - 1)}
    BY BeginsAre DEF Laid
<1>7. ASSUME NEW x \in 0..(L - 1) PROVE TimeAt(w, P[x]) = T(x + 1)
  <2>1. x + 1 \in 1..L /\ (x + 1) - 1 = x
    BY <1>1
  <2>2. RecordAt(w, recs[x + 1], P[(x + 1) - 1], P[x + 1])
    BY <2>1 DEF Laid, Places
  <2> QED BY <2>1, <2>2 DEF RecordAt, TimeAt
<1>8. ASSUME NEW y \in 2..L, T(y) >= t PROVE P[y - 1] \in A
  <2>1. y - 1 \in 0..(L - 1) /\ (y - 1) + 1 = y /\ y - 1 \in 0..L /\ 0 \in 0..L /\ 0 < y - 1
    BY <1>1
  <2>2. P[y - 1] \in Begins(w)
    BY <1>6, <2>1
  <2>3. P[y - 1] # 0
    <3>1. P[0] < P[y - 1] /\ P[y - 1] \in Nat
      BY <1>4, <1>5, <2>1
    <3> QED BY <1>5, <3>1
  <2>4. TimeAt(w, P[y - 1]) >= t
    BY <1>7, <1>8, <2>1
  <2> QED BY <2>2, <2>3, <2>4 DEF AfterIn
<1>9. ASSUME NEW b \in A PROVE \E x \in 1..(L - 1) : b = P[x] /\ T(x + 1) >= t
  <2>1. b \in Begins(w) /\ b # 0 /\ TimeAt(w, b) >= t
    BY DEF AfterIn
  <2>2. PICK x \in 0..(L - 1) : b = P[x]
    BY <1>6, <2>1
  <2>3. x # 0
    BY <1>5, <2>1, <2>2
  <2>4. T(x + 1) >= t
    BY <1>7, <2>1, <2>2
  <2> QED BY <2>2, <2>3, <2>4
<1> HIDE DEF L, A, T
<1>10. CASE A = {}
  <2>1. ASSUME NEW y \in 1..L PROVE T(y) < t
    <3>1. y = 1 \/ y \in 2..L
      BY <1>1
    <3>2. CASE y = 1
      BY <1>1, <3>2
    <3>3. CASE y \in 2..L
      <4>1. ~(T(y) >= t)
        BY <1>8, <1>10, <3>3
      <4> QED BY <1>2, <4>1
    <3> QED BY <3>1, <3>2, <3>3
  <2>2. \A y \in 1..L : ~(y > L)
    BY <1>1
  <2> QED BY <1>2, <1>10, <2>1, <2>2 DEF SplitAt, L, T, A
<1>11. CASE A # {}
  <2>1. A \in SUBSET Nat
    <3>1. \A x \in 1..(L - 1) : P[x] \in Nat
      BY <1>1, <1>5
    <3> QED BY <1>9, <3>1
  <2>2. Min(A) \in A /\ \A y \in A : Min(A) <= y
    BY <1>11, <2>1, MinIs
  <2>3. PICK m \in 1..(L - 1) : Min(A) = P[m] /\ T(m + 1) >= t
    BY <1>9, <2>2
  <2>4. ASSUME NEW y \in 1..L PROVE /\ y <= m => T(y) < t
                                    /\ y > m => T(y) >= t
    <3>1. CASE y = 1
      <4>1. ~(y > m)
        BY <1>1, <3>1
      <4> QED BY <1>1, <3>1, <4>1
    <3>2. CASE y # 1 /\ y <= m
      <4>1. y \in 2..L /\ y - 1 \in 0..L /\ m \in 0..L /\ y - 1 < m /\ ~(y > m)
        BY <1>1, <3>2
      <4>2. P[y - 1] < P[m] /\ P[y - 1] \in Nat /\ P[m] \in Nat
        BY <1>4, <1>5, <4>1
      <4>3. P[y - 1] \notin A
        <5>1. P[y - 1] \in A => P[m] <= P[y - 1]
          BY <2>2, <2>3
        <5> QED BY <4>2, <5>1
      <4>4. ~(T(y) >= t)
        BY <1>8, <4>1, <4>3
      <4> QED BY <1>2, <4>1, <4>4
    <3>3. CASE y > m
      <4>1. m + 1 \in 1..L /\ m + 1 <= y /\ ~(y <= m)
        BY <1>1, <3>3
      <4>2. T(m + 1) <= T(y) /\ T(y) \in Nat /\ T(m + 1) \in Nat
        BY <1>2, <1>3, <4>1
      <4> QED BY <2>3, <4>1, <4>2
    <3>4. y <= m \/ y > m
      BY <1>1
    <3> QED BY <3>1, <3>2, <3>3, <3>4
  <2>5. m \in 0..L
    BY <1>1
  <2>6. SplitAt(recs, t, m)
    BY <1>2, <2>4 DEF SplitAt, L, T
  <2> QED BY <1>11, <2>3, <2>5, <2>6 DEF L, A
<1> QED BY <1>10, <1>11 DEF A

\* The search before its first file.
Before == [over |-> FALSE, rd |-> Closed]

\* The loop of SetReadRecordStartTime.
Found(t) == FoldLeft(LAMBDA s, i : search(t, s, i - 1), Before, [i \in 1..MaxLogNum |-> i])

\* What the search has after each file.
SearchChain(s, t) ==
    /\ s[0] = Before
    /\ \A i \in 1..MaxLogNum : s[i] = search(t, s[i - 1], i - 1)

\* search in terms of AfterIn.
LEMMA SearchIs ==
    ASSUME NEW t, NEW s, NEW i
    PROVE  search(t, s, i) =
             IF s.over \/ files[i] = None \/ TimeAt(files[i], 0) > t THEN s
             ELSE IF TimeAt(files[i], 0) = t THEN [s EXCEPT !.rd = Opened(i, 0)]
             ELSE [s EXCEPT !.over = TRUE,
                            !.rd = IF AfterIn(files[i], t) # {} THEN Opened(i, Min(AfterIn(files[i], t)))
                                   ELSE IF s.rd.open THEN s.rd
                                   ELSE [Closed EXCEPT !.i = i]]
BY Zenon DEF search, AfterIn

\* The search goes through the files one after the other.
LEMMA SearchSteps ==
    ASSUME NEW t
    PROVE  \E s : SearchChain(s, t) /\ Found(t) = s[MaxLogNum]
<1> DEFINE N == MaxLogNum
<1> DEFINE R == {Closed} \cup {Opened(i, 0) : i \in Files} \cup {[Closed EXCEPT !.i = i] : i \in Files}
                \cup {Opened(i, Min(AfterIn(files[i], t))) : i \in Files}
<1> DEFINE V == [over : BOOLEAN, rd : R]
<1> DEFINE Pick(i, a) == search(t, a, i - 1)
<1> DEFINE G == [p \in (1..N) \X V |-> Pick(p[1], p[2])]
<1> DEFINE Step(f, S) == IF S = {} THEN Before ELSE Pick(Max(S), f[S \ {Max(S)}])
<1> DEFINE D == [i \in 1..N |-> i]
<1> DEFINE Raw(f, S) == IF S = {} THEN Before ELSE search(t, f[S \ {Max(S)}], D[Max(S)] - 1)
<1> DEFINE h == CHOOSE f : f = [S \in SUBSET DOMAIN D |-> Raw(f, S)]
<1>1. N \in Nat /\ \A i \in 1..N : i - 1 \in Files
    BY FileCount DEF Files
<1>2. ASSUME NEW i \in 1..N, NEW a \in V PROVE Pick(i, a) \in V
  <2> DEFINE j == i - 1
  <2> DEFINE W == AfterIn(files[j], t)
  <2>1. j \in Files
    BY <1>1
  <2>2. Opened(j, 0) \in R /\ [Closed EXCEPT !.i = j] \in R /\ Opened(j, Min(W)) \in R
    BY <2>1
  <2> DEFINE X == IF W # {} THEN Opened(j, Min(W)) ELSE IF a.rd.open THEN a.rd ELSE [Closed EXCEPT !.i = j]
  <2>3. a.rd \in R
    <3> HIDE DEF R
    <3> QED OBVIOUS
  <2>4. X \in R
    <3> HIDE DEF R
    <3> QED BY <2>2, <2>3
  <2>5. Pick(i, a) = a \/ Pick(i, a) = [a EXCEPT !.rd = Opened(j, 0)]
        \/ Pick(i, a) = [a EXCEPT !.over = TRUE, !.rd = X]
    <3> HIDE DEF R
    <3> QED BY SearchIs, Zenon
  <2> HIDE DEF R, X, j, Pick
  <2>6. [a EXCEPT !.rd = Opened(j, 0)] \in V
    BY <2>2
  <2>7. [a EXCEPT !.over = TRUE, !.rd = X] \in V
    BY <2>4
  <2> QED BY <2>5, <2>6, <2>7, Zenon
<1>3. DOMAIN D = 1..N /\ \A j \in 1..N : D[j] = j
    OBVIOUS
<1>4. Found(t) = h[1..N]
    BY <1>3, Zenon DEF Found, FoldLeft, MapThenFoldSet
<1>5. Before \in V
    BY DEF Before
<1> HIDE DEF Pick, D, V
<1>6. G \in [(1..N) \X V -> V]
    BY <1>2
<1>7. PICK f \in [SUBSET (1..N) -> V] : IsFold(f, N, Before, G)
  <2> HIDE DEF G
  <2> QED BY <1>1, <1>5, <1>6, FoldExists
<1>8. \A S \in SUBSET (1..N) : f[S] = Step(f, S)
  <2> TAKE S \in SUBSET (1..N)
  <2>1. CASE S = {}
    BY <1>7, <2>1 DEF IsFold
  <2>2. CASE S # {}
    <3>1. Max(S) \in 1..N
      BY <1>1, <2>2, MaxPosition
    <3>2. f[S \ {Max(S)}] \in V
      OBVIOUS
    <3>3. f[S] = G[<<Max(S), f[S \ {Max(S)}]>>]
      BY <1>7, <2>2, Zenon DEF IsFold
    <3> QED BY <2>2, <3>1, <3>2, <3>3
  <2> QED BY <2>1, <2>2
<1>9. \A F : \A S \in SUBSET (1..N) : Raw(F, S) = Step(F, S)
  <2> TAKE F
  <2> TAKE S \in SUBSET (1..N)
  <2>1. CASE S = {}
    BY <2>1
  <2>2. CASE S # {}
    <3>1. Max(S) \in 1..N
      BY <1>1, <2>2, MaxPosition
    <3>2. D[Max(S)] = Max(S)
      BY <1>3, <3>1
    <3> QED BY <2>2, <3>2, Zenon DEF Pick
  <2> QED BY <2>1, <2>2
<1> HIDE DEF Step, Raw
<1>10. f = [S \in SUBSET DOMAIN D |-> Raw(f, S)]
    BY <1>3, <1>8, <1>9
<1>11. h = [S \in SUBSET (1..N) |-> Raw(h, S)]
    BY <1>3, <1>10, Zenon
<1> HIDE DEF h
<1> DEFINE g == [i \in 0..N |-> h[1..i]]
<1>12. g[0] = Before
  <2>1. 1..0 = {} /\ {} \in SUBSET (1..N) /\ 0 \in 0..N
    BY <1>1
  <2>2. h[{}] = Raw(h, {})
    BY <1>11, <2>1
  <2> QED BY <2>1, <2>2 DEF Raw
<1>13. ASSUME NEW i \in 1..N PROVE g[i] = Pick(i, g[i - 1])
  <2>1. h[1..i] = Raw(h, 1..i)
    BY <1>1, <1>11, FoldPrefix
  <2>2. Raw(h, 1..i) = Step(h, 1..i)
    BY <1>1, <1>9, FoldPrefix
  <2>3. Step(h, 1..i) = Pick(i, h[1..(i - 1)])
    BY <1>1, FoldPrefix, Zenon DEF Step
  <2>4. i \in 0..N /\ i - 1 \in 0..N
    BY <1>1
  <2> QED BY <2>1, <2>2, <2>3, <2>4
<1>14. g[N] = h[1..N]
    BY <1>1
<1> HIDE DEF g
<1>15. SearchChain(g, t)
    BY <1>12, <1>13 DEF SearchChain, Pick
<1> QED BY <1>4, <1>14, <1>15

\* Without a torn record no history is torn.
LEMMA HistoryWhole ==
    ASSUME NEW wh \in [Files -> Seq(Recs)], NEW to \in [Files -> BOOLEAN], NEW g, IsHistory(g, wh, to),
           \A i \in Files : ~to[i]
    PROVE  \A j \in 0..MaxLogNum : g[j].tear = FALSE
<1> DEFINE S == {j \in 0..MaxLogNum : g[j].tear = FALSE}
<1>1. 0 \in S
    BY FileCount DEF IsHistory
<1>2. ASSUME NEW n \in 0..(MaxLogNum - 1), n \in S PROVE n + 1 \in S
  <2>1. n + 1 \in 1..MaxLogNum /\ (n + 1) - 1 = n /\ n + 1 \in 0..MaxLogNum
    BY FileCount
  <2> DEFINE f == MaxLogNum - (n + 1)
  <2>2. f \in Files
    BY <2>1, FileCount
  <2>3. to[f] = FALSE
    BY <2>2
  <2>4. g[n + 1] = NextHist(g[n], wh, to, f)
    BY <2>1 DEF IsHistory
  <2> HIDE DEF f
  <2>5. g[n + 1] = [recs |-> g[n].recs \o wh[f], tear |-> to[f]]
    BY <1>2, <2>4 DEF NextHist
  <2>6. g[n + 1].tear = to[f]
    BY <2>5
  <2> QED BY <2>1, <2>3, <2>6
<1> HIDE DEF S
<1>3. \A n \in 0..MaxLogNum : n \in S
    BY <1>1, <1>2, BoundedInd, FileCount
<1> QED BY <1>3 DEF S

\* All records from file i on are before t.
Earlier(wh, t, i) == \A k \in Files : k >= i => \A y \in 1..Len(wh[k]) : wh[k][y].time < t

\* Nothing is wanted of the files from file i on.
LEMMA HistoryEarlier ==
    ASSUME NEW wh \in [Files -> Seq(Recs)], NEW to \in [Files -> BOOLEAN], NEW g, IsHistory(g, wh, to),
           NEW t \in Int, NEW i \in 0..MaxLogNum, Earlier(wh, t, i)
    PROVE  Since(t, g[MaxLogNum - i].recs) = <<>>
<1> DEFINE j == MaxLogNum - i
<1>1. j \in 0..MaxLogNum /\ MaxLogNum - j = i
    BY FileCount
<1> HIDE DEF j
<1>2. g[j] \in Hist
    BY <1>1, HistoryType
<1>3. g[j].recs \in Seq(Recs)
    BY <1>2 DEF Hist
<1>4. ASSUME NEW x \in 1..Len(g[j].recs) PROVE g[j].recs[x].time < t
  <2>1. RecordFrom(g[j].recs[x], wh, MaxLogNum - j)
    BY <1>1, HistoryFrom
  <2>2. RecordFrom(g[j].recs[x], wh, i)
    BY <1>1, <2>1
  <2> QED BY <2>2 DEF RecordFrom, Earlier
<1> DEFINE s == g[j].recs
<1> HIDE DEF s
<1>5. s \in Seq(Recs) /\ \A x \in 1..Len(s) : s[x].time < t
    BY <1>3, <1>4 DEF s
<1>6. Since(t, s) = <<>>
    BY <1>5, SinceNone
<1> QED BY <1>6 DEF s, j

\* Nothing is wanted of the files before file i and of its first m records.
LEMMA InsideEarlier ==
    ASSUME NEW wh \in [Files -> Seq(Recs)], NEW to \in [Files -> BOOLEAN], NEW g, IsHistory(g, wh, to),
           NEW t \in Int, NEW i \in Files, Earlier(wh, t, i + 1),
           NEW m \in 0..Len(wh[i]), \A y \in 1..Len(wh[i]) : y <= m => wh[i][y].time < t
    PROVE  Since(t, g[MaxLogNum - (i + 1)].recs \o SubSeq(wh[i], 1, m)) = <<>>
<1> DEFINE j == MaxLogNum - (i + 1)
<1>1. j \in 0..MaxLogNum /\ MaxLogNum - j = i + 1
    BY FileCount DEF Files
<1> HIDE DEF j
<1>2. g[j] \in Hist
    BY <1>1, HistoryType
<1> DEFINE h == g[j].recs
<1> DEFINE s == wh[i]
<1> DEFINE p == SubSeq(s, 1, m)
<1>3. h \in Seq(Recs) /\ s \in Seq(Recs)
    BY <1>2 DEF Hist
<1>4. ASSUME NEW x \in 1..Len(h) PROVE h[x].time < t
  <2>1. RecordFrom(h[x], wh, MaxLogNum - j)
    BY <1>1, HistoryFrom
  <2>2. RecordFrom(h[x], wh, i + 1)
    BY <1>1, <2>1
  <2> QED BY <2>2 DEF RecordFrom, Earlier
<1>5. m \in 0..Len(s) /\ \A y \in 1..Len(s) : y <= m => s[y].time < t
    OBVIOUS
<1> HIDE DEF h, s
<1>6. p \in Seq(Recs) /\ Len(p) = m /\ \A y \in 1..m : p[y] = s[y]
    BY <1>3, <1>5
<1>7. \A y \in 1..m : p[y].time < t
  <2> TAKE y \in 1..m
  <2>1. y \in 1..Len(s) /\ y <= m /\ p[y] = s[y]
    BY <1>3, <1>5, <1>6
  <2> QED BY <1>5, <2>1
<1> HIDE DEF p
<1>8. h \o p \in Seq(Recs)
    BY <1>3, <1>6
<1>9. ASSUME NEW x \in 1..Len(h \o p) PROVE (h \o p)[x].time < t
  <2>1. Len(h \o p) = Len(h) + Len(p) /\ Len(h) \in Nat /\ Len(p) \in Nat
    <3>1. p \in Seq(Recs)
      BY <1>6
    <3> QED BY <1>3, <3>1
  <2>2. CASE x \in 1..Len(h)
    <3>1. (h \o p)[x] = h[x]
      BY <1>3, <1>6, <2>2
    <3> QED BY <1>4, <2>2, <3>1
  <2>3. CASE x \notin 1..Len(h)
    <3>1. x - Len(h) \in 1..m
      BY <1>6, <2>1, <2>3
    <3>2. (h \o p)[x] = p[x - Len(h)]
      BY <1>3, <1>6, <2>1, <2>3
    <3> QED BY <1>7, <3>1, <3>2
  <2> QED BY <2>2, <2>3
<1>10. Since(t, h \o p) = <<>>
  <2> DEFINE a == h \o p
  <2> HIDE DEF a
  <2>1. a \in Seq(Recs) /\ \A x \in 1..Len(a) : a[x].time < t
    BY <1>8, <1>9 DEF a
  <2>2. Since(t, a) = <<>>
    BY <2>1, SinceNone
  <2> QED BY <2>2 DEF a
<1> QED BY <1>10 DEF h, s, p, j

-----------------------------------------------------------------------------

\* Types of the reader.
RdType == [open : BOOLEAN, i : Int, pos : Nat, eof : BOOLEAN]

\* The reader stands where it has handed out nothing because nothing is wanted.
SeekDone(g, t, r) ==
    /\ r \in RdType
    /\ \/ r.open = FALSE /\ Between(g, whole, t, r.i, <<>>)
       \/ /\ r.open = TRUE /\ r.i \in Files /\ files[r.i] # None
          /\ Stands(g, files, whole, torn, t, r, <<>>)

\* File j begins at t, and between it and file i there is none.
OpenAt(t, r, j, i) ==
    /\ j < i /\ r = Opened(j, 0) /\ files[j] # None /\ Rest(whole, t, j, 0)
    /\ 1 \in 1..Len(whole[j]) /\ whole[j][1].time = t
    /\ \A k \in Files : j < k /\ k < i => files[k] = None

\* Types of the search.
SeekType == [over : BOOLEAN, rd : RdType]

\* The search is over and right, or all it has passed is of time t or later.
SeekInv(g, t, s, i) ==
    \/ s.over = TRUE /\ SeekDone(g, t, s.rd)
    \/ /\ s.over = FALSE /\ Later(whole, t, i)
       /\ s.rd = Closed \/ \E j \in Files : OpenAt(t, s.rd, j, i)

\* No record is torn and no file is empty.
Clean == \A i \in Files : ~torn[i] /\ files[i] # <<>>

\* A file without torn records.
LEMMA CleanFile ==
    ASSUME Log(files, whole, torn, now), Clean, NEW i \in Files, files[i] # None
    PROVE  /\ files[i] \in Seq(Nat) /\ whole[i] \in Seq(Recs) /\ torn[i] = FALSE
           /\ \E P : Laid(P, files[i], whole[i], FALSE)
           /\ 1 \in 1..Len(whole[i]) /\ TimeAt(files[i], 0) = whole[i][1].time
<1>1. whole[i] \in Seq(Recs) /\ torn[i] = FALSE
    BY DEF Log, LogTypes, Clean
<1>2. WordsShape(files[i], whole[i], FALSE)
    BY <1>1 DEF Log, LogShape, FileShape
<1>3. PICK P : Laid(P, files[i], whole[i], FALSE)
    BY <1>2 DEF WordsShape
<1>4. files[i] \in Seq(Nat) /\ files[i] # <<>>
    BY <1>2 DEF WordsShape, Clean
<1>5. 1 \in 1..Len(whole[i]) /\ TimeAt(files[i], 0) = whole[i][1].time
    BY <1>1, <1>3, <1>4, FirstRecord
<1> QED BY <1>1, <1>3, <1>4, <1>5

\* The times of records are numbers.
LEMMA TimesAre ==
    ASSUME NEW wh \in [Files -> Seq(Recs)], NEW i \in Files, NEW y \in 1..Len(wh[i])
    PROVE  wh[i][y].time \in Nat
<1>1. wh[i] \in Seq(Recs)
    OBVIOUS
<1>2. wh[i][y] \in Recs
    BY <1>1
<1> QED BY <1>2 DEF Recs

\* If file i begins at t or later, so do all its records.
LEMMA LaterNext ==
    ASSUME Log(files, whole, torn, now), NEW t \in Int, NEW i \in Files, Later(whole, t, i),
           1 \in 1..Len(whole[i]) => whole[i][1].time >= t
    PROVE  Later(whole, t, i + 1) /\ Rest(whole, t, i, 0)
<1>1. whole \in [Files -> Seq(Recs)] /\ Sorted(whole)
    BY DEF Log, LogTypes
<1>2. ASSUME NEW y \in 1..Len(whole[i]) PROVE whole[i][y].time >= t
  <2>1. 1 \in 1..Len(whole[i]) /\ 1 <= y
    <3>1. whole[i] \in Seq(Recs)
      BY <1>1
    <3> QED BY <3>1
  <2>2. whole[i][1].time <= whole[i][y].time
    BY <1>1, <2>1 DEF Sorted
  <2>3. whole[i][1].time \in Nat /\ whole[i][y].time \in Nat
    BY <1>1, <2>1, TimesAre
  <2>4. whole[i][1].time >= t
    BY <2>1
  <2> DEFINE u == whole[i][1].time
  <2> DEFINE v == whole[i][y].time
  <2> HIDE DEF u, v
  <2>5. u \in Nat /\ v \in Nat /\ u <= v /\ u >= t
    BY <2>2, <2>3, <2>4 DEF u, v
  <2>6. v >= t
    BY <2>5
  <2> QED BY <2>6 DEF v
<1>3. \A k \in Files : k < i + 1 => k < i \/ k = i
    BY FileCount
<1> QED BY <1>2, <1>3 DEF Later, Rest

\* If file i begins before t, so do all older files.
LEMMA EarlierNext ==
    ASSUME Log(files, whole, torn, now), NEW t \in Int, NEW i \in Files,
           1 \in 1..Len(whole[i]), whole[i][1].time < t
    PROVE  Earlier(whole, t, i + 1)
<1>1. whole \in [Files -> Seq(Recs)] /\ Sorted(whole)
    BY DEF Log, LogTypes
<1> SUFFICES ASSUME NEW k \in Files, k >= i + 1, NEW y \in 1..Len(whole[k]) PROVE whole[k][y].time < t
    BY DEF Earlier
<1>2. k > i
    BY FileCount
<1>3. whole[k][y].time <= whole[i][1].time
    BY <1>1, <1>2 DEF Sorted
<1>4. whole[k][y].time \in Nat /\ whole[i][1].time \in Nat
    BY <1>1, TimesAre
<1> DEFINE u == whole[i][1].time
<1> DEFINE v == whole[k][y].time
<1> HIDE DEF u, v
<1>5. u \in Nat /\ v \in Nat /\ v <= u /\ u < t
    BY <1>3, <1>4 DEF u, v
<1>6. v < t
    BY <1>5
<1> QED BY <1>6 DEF v

\* A file that begins before t ends the search.
LEMMA SeekEnds ==
    ASSUME Log(files, whole, torn, now), Clean, NEW g, IsHistory(g, whole, torn), NEW t \in Int,
           NEW i \in Files, files[i] # None, Later(whole, t, i), TimeAt(files[i], 0) < t,
           NEW r, r = Closed \/ \E j \in Files : OpenAt(t, r, j, i)
    PROVE  SeekDone(g, t, IF AfterIn(files[i], t) # {} THEN Opened(i, Min(AfterIn(files[i], t)))
                          ELSE IF r.open THEN r ELSE [Closed EXCEPT !.i = i])
<1> DEFINE W == AfterIn(files[i], t)
<1> DEFINE recs == whole[i]
<1>1. whole \in [Files -> Seq(Recs)] /\ torn \in [Files -> BOOLEAN] /\ Sorted(whole)
    BY DEF Log, LogTypes
<1>2. files[i] \in Seq(Nat) /\ recs \in Seq(Recs) /\ torn[i] = FALSE
      /\ 1 \in 1..Len(recs) /\ TimeAt(files[i], 0) = recs[1].time
    BY CleanFile
<1>3. PICK P : Laid(P, files[i], recs, FALSE)
    BY CleanFile
<1>4. files[i] # <<>> /\ Growing(recs)
    BY <1>1 DEF Clean, Growing, Sorted
<1>5. Earlier(whole, t, i + 1)
    BY <1>2, EarlierNext
<1>6. \A j \in 0..MaxLogNum : g[j].tear = FALSE
    BY <1>1, HistoryWhole DEF Clean
<1>7. i + 1 \in 0..MaxLogNum /\ MaxLogNum - (i + 1) \in 0..MaxLogNum /\ i \in 0..MaxLogNum
      /\ MaxLogNum - i \in 0..MaxLogNum
    BY FileCount DEF Files
<1>8. W = {} => SplitAt(recs, t, Len(recs))
    BY <1>2, <1>3, <1>4, FileSearch
<1>9. W # {} => \E m \in 0..Len(recs) : Min(W) = P[m] /\ SplitAt(recs, t, m)
    BY <1>2, <1>3, <1>4, FileSearch
<1> HIDE DEF W
<1>10. CASE W # {}
  <2>1. PICK m \in 0..Len(recs) : Min(W) = P[m] /\ SplitAt(recs, t, m)
    BY <1>9, <1>10
  <2>2. P[m] \in Nat
    <3>1. P \in [0..Len(recs) -> Nat]
      BY <1>3 DEF Laid, Places
    <3> QED BY <3>1
  <2> DEFINE o == Opened(i, P[m])
  <2>3. o \in RdType /\ o.open = TRUE /\ o.i = i /\ o.pos = P[m] /\ o.eof = FALSE
    BY <2>2, FileCount DEF Opened, RdType
  <2>4. \A y \in 1..Len(whole[i]) : y <= m => whole[i][y].time < t
    BY <2>1 DEF SplitAt
  <2>5. Since(t, g[MaxLogNum - (i + 1)].recs \o SubSeq(whole[i], 1, m)) = <<>>
    BY <1>1, <1>5, <2>4, InsideEarlier
  <2>6. Rest(whole, t, i, m)
    BY <2>1 DEF SplitAt, Rest
  <2>7. Inside(g, whole, t, i, m, <<>>)
    BY <1>6, <1>7, <2>5, <2>6 DEF Inside
  <2> HIDE DEF o
  <2>8. Stands(g, files, whole, torn, t, o, <<>>)
    <3>1. Laid(P, files[i], whole[i], torn[i])
      BY <1>2, <1>3
    <3>2. /\ Inside(g, whole, t, o.i, m, <<>>)
          /\ files[o.i] # None /\ Laid(P, files[o.i], whole[o.i], torn[o.i]) /\ o.pos = P[m]
          /\ o.eof => m = Len(whole[o.i]) /\ ~torn[o.i]
      BY <2>3, <2>7, <3>1
    <3> QED BY <3>2 DEF Stands
  <2>9. SeekDone(g, t, o)
    BY <2>3, <2>8 DEF SeekDone
  <2> QED BY <1>10, <2>1, <2>9 DEF W, o
<1>11. CASE W = {}
  <2>1. Earlier(whole, t, i)
    <3>1. \A y \in 1..Len(whole[i]) : whole[i][y].time < t
      <4>1. \A y \in 1..Len(recs) : y <= Len(recs)
        BY <1>2
      <4> QED BY <1>8, <1>11, <4>1 DEF SplitAt
    <3>2. \A k \in Files : k >= i => k = i \/ k >= i + 1
      BY FileCount
    <3> QED BY <1>5, <3>1, <3>2 DEF Earlier
  <2>2. CASE r.open
    <3>1. PICK j \in Files : OpenAt(t, r, j, i)
      BY <2>2 DEF Closed
    <3>2. r = Opened(j, 0) /\ files[j] # None /\ Rest(whole, t, j, 0) /\ j < i
          /\ \A k \in Files : j < k /\ k < i => files[k] = None
      BY <3>1 DEF OpenAt
    <3>3. r \in RdType /\ r.open = TRUE /\ r.i = j /\ r.pos = 0 /\ r.eof = FALSE
      BY <3>2, FileCount DEF Opened, RdType
    <3>4. Earlier(whole, t, j + 1)
      <4> SUFFICES ASSUME NEW k \in Files, k >= j + 1, NEW y \in 1..Len(whole[k]) PROVE whole[k][y].time < t
        BY DEF Earlier
      <4>1. CASE k >= i
        BY <2>1, <4>1 DEF Earlier
      <4>2. CASE k < i
        <5>1. files[k] = None
          BY <3>2, <4>2, FileCount
        <5>2. whole[k] = <<>>
          BY <5>1, NoFile
        <5> QED BY <5>2
      <4>3. k >= i \/ k < i
        BY FileCount
      <4> QED BY <4>1, <4>2, <4>3
    <3>5. PICK Q : Laid(Q, files[j], whole[j], FALSE)
      BY <3>2, CleanFile
    <3>6. torn[j] = FALSE /\ 0 \in 0..Len(whole[j]) /\ Q[0] = 0
      <4>1. torn[j] = FALSE /\ whole[j] \in Seq(Recs)
        BY <3>2, CleanFile
      <4>2. Q[0] = 0
        BY <3>5 DEF Laid, Places
      <4> QED BY <4>1, <4>2
    <3>7. \A y \in 1..Len(whole[j]) : y <= 0 => whole[j][y].time < t
      OBVIOUS
    <3>8. Since(t, g[MaxLogNum - (j + 1)].recs \o SubSeq(whole[j], 1, 0)) = <<>>
      BY <1>1, <3>4, <3>6, <3>7, InsideEarlier
    <3>9. MaxLogNum - (j + 1) \in 0..MaxLogNum
      BY FileCount DEF Files
    <3>10. Inside(g, whole, t, j, 0, <<>>)
      BY <1>6, <3>2, <3>6, <3>8, <3>9 DEF Inside
    <3>11. Stands(g, files, whole, torn, t, r, <<>>)
      <4>1. /\ Inside(g, whole, t, r.i, 0, <<>>)
            /\ files[r.i] # None /\ Laid(Q, files[r.i], whole[r.i], torn[r.i]) /\ r.pos = Q[0]
            /\ r.eof => 0 = Len(whole[r.i]) /\ ~torn[r.i]
        BY <3>2, <3>3, <3>5, <3>6, <3>10
      <4> QED BY <4>1 DEF Stands
    <3>12. SeekDone(g, t, r)
      BY <3>2, <3>3, <3>11 DEF SeekDone
    <3> QED BY <1>11, <2>2, <3>12 DEF W
  <2>3. CASE ~r.open
    <3> DEFINE c == [Closed EXCEPT !.i = i]
    <3>1. c \in RdType /\ c.open = FALSE /\ c.i = i
      <4>1. i \in Int
        BY FileCount
      <4>2. c.open = FALSE /\ c.i = i /\ c.pos = 0 /\ c.eof = FALSE
        BY DEF Closed
      <4>3. Closed \in RdType
        BY FileCount DEF Closed, RdType
      <4>4. c \in RdType
        BY <4>1, <4>3 DEF RdType
      <4> HIDE DEF c
      <4> QED BY <4>2, <4>4
    <3>2. Since(t, g[MaxLogNum - i].recs) = <<>>
      BY <1>1, <1>7, <2>1, HistoryEarlier
    <3>3. Between(g, whole, t, i, <<>>)
      BY <1>6, <1>7, <3>2 DEF Between
    <3> HIDE DEF c
    <3>4. SeekDone(g, t, c)
      BY <3>1, <3>3 DEF SeekDone
    <3> QED BY <1>11, <2>3, <3>4 DEF W, c
  <2> QED BY <2>2, <2>3
<1> QED BY <1>10, <1>11

\* The search keeps its invariant from file to file.
LEMMA SeekStep ==
    ASSUME Log(files, whole, torn, now), Clean, NEW g, IsHistory(g, whole, torn), NEW t \in Int,
           NEW i \in Files, NEW s \in SeekType, SeekInv(g, t, s, i)
    PROVE  search(t, s, i) \in SeekType /\ SeekInv(g, t, search(t, s, i), i + 1)
<1> DEFINE n == search(t, s, i)
<1> DEFINE W == AfterIn(files[i], t)
<1> DEFINE X == IF W # {} THEN Opened(i, Min(W)) ELSE IF s.rd.open THEN s.rd ELSE [Closed EXCEPT !.i = i]
<1>1. n = IF s.over \/ files[i] = None \/ TimeAt(files[i], 0) > t THEN s
          ELSE IF TimeAt(files[i], 0) = t THEN [s EXCEPT !.rd = Opened(i, 0)]
          ELSE [s EXCEPT !.over = TRUE, !.rd = X]
    BY SearchIs, Zenon
<1> HIDE DEF n, X
<1>2. s.over \in BOOLEAN /\ s.rd \in RdType
    BY DEF SeekType
<1>3. CASE s.over
  <2>1. n = s
    BY <1>1, <1>3
  <2>2. s.over = TRUE /\ SeekDone(g, t, s.rd)
    BY <1>3 DEF SeekInv
  <2>3. SeekInv(g, t, n, i + 1)
    BY <2>1, <2>2 DEF SeekInv
  <2> QED BY <2>1, <2>3 DEF n
<1>4. ASSUME ~s.over PROVE n \in SeekType /\ SeekInv(g, t, n, i + 1)
  <2>1. s.over = FALSE /\ Later(whole, t, i) /\ (s.rd = Closed \/ \E j \in Files : OpenAt(t, s.rd, j, i))
    BY <1>2, <1>4 DEF SeekInv
  <2>2. i < i + 1
    BY FileCount
  <2>3. CASE files[i] = None
    <3>1. n = s
      BY <1>1, <2>3
    <3>2. whole[i] = <<>>
      BY <2>3, NoFile
    <3>3. Len(whole[i]) = 0
      BY <3>2
    <3>4. Later(whole, t, i + 1)
      BY <2>1, <3>3, LaterNext
    <3>5. ASSUME NEW j \in Files, OpenAt(t, s.rd, j, i) PROVE OpenAt(t, s.rd, j, i + 1)
      <4>1. j < i + 1 /\ \A k \in Files : k < i + 1 => k < i \/ k = i
        BY <3>5, FileCount DEF OpenAt
      <4> QED BY <2>3, <3>5, <4>1 DEF OpenAt
    <3>6. SeekInv(g, t, s, i + 1)
      BY <2>1, <3>4, <3>5 DEF SeekInv
    <3> QED BY <3>1, <3>6
  <2>4. CASE files[i] # None
    <3> DEFINE u == TimeAt(files[i], 0)
    <3>1. 1 \in 1..Len(whole[i]) /\ u = whole[i][1].time
      BY <2>4, CleanFile
    <3>2. whole \in [Files -> Seq(Recs)] /\ Sorted(whole)
      BY DEF Log, LogTypes
    <3>3. u \in Nat
      BY <3>1, <3>2, TimesAre
    <3> HIDE DEF u
    <3>4. CASE u > t
      <4>1. n = s
        BY <1>1, <3>4 DEF u
      <4>2. u >= t
        BY <3>3, <3>4
      <4>3. Later(whole, t, i + 1)
        BY <2>1, <3>1, <4>2, LaterNext
      <4>4. ASSUME NEW j \in Files, OpenAt(t, s.rd, j, i) PROVE FALSE
        <5>1. j < i /\ 1 \in 1..Len(whole[j]) /\ whole[j][1].time = t
          BY <4>4 DEF OpenAt
        <5>2. i > j
          BY <5>1, FileCount
        <5>3. whole[i][1].time <= whole[j][1].time
          BY <3>1, <3>2, <5>1, <5>2 DEF Sorted
        <5>4. u <= t
          BY <3>1, <5>1, <5>3
        <5> QED BY <3>3, <3>4, <5>4
      <4>5. SeekInv(g, t, s, i + 1)
        BY <2>1, <4>3, <4>4 DEF SeekInv
      <4> QED BY <4>1, <4>5
    <3>5. CASE u = t
      <4>1. n = [s EXCEPT !.rd = Opened(i, 0)]
        <5>1. ~(u > t)
          BY <3>3, <3>5
        <5> QED BY <1>1, <1>4, <2>4, <3>5, <5>1, Zenon DEF u
      <4>2. u >= t
        BY <3>3, <3>5
      <4>3. Later(whole, t, i + 1) /\ Rest(whole, t, i, 0)
        BY <2>1, <3>1, <4>2, LaterNext
      <4>4. Opened(i, 0) \in RdType
        BY FileCount DEF Opened, RdType
      <4>5. n.over = FALSE /\ n.rd = Opened(i, 0) /\ n \in SeekType
        BY <2>1, <4>1, <4>4 DEF SeekType
      <4>6. \A k \in Files : ~(i < k /\ k < i + 1)
        BY FileCount
      <4>7. OpenAt(t, n.rd, i, i + 1)
        BY <2>2, <2>4, <3>1, <3>5, <4>3, <4>5, <4>6 DEF OpenAt
      <4> QED BY <4>3, <4>5, <4>7 DEF SeekInv
    <3>6. CASE u < t
      <4>1. n = [s EXCEPT !.over = TRUE, !.rd = X]
        <5>1. ~(u > t) /\ u # t
          BY <3>3, <3>6
        <5> QED BY <1>1, <1>4, <2>4, <5>1, Zenon DEF u
      <4>2. SeekDone(g, t, X)
        BY <2>1, <2>4, <3>6, SeekEnds DEF X, u
      <4>3. X \in RdType
        BY <4>2 DEF SeekDone
      <4>4. n.over = TRUE /\ n.rd = X /\ n \in SeekType
        BY <4>1, <4>3 DEF SeekType
      <4> QED BY <4>2, <4>4 DEF SeekInv
    <3> QED BY <3>3, <3>4, <3>5, <3>6
  <2> QED BY <2>3, <2>4
<1> QED BY <1>3, <1>4 DEF n

\* SetReadRecordStartTime finds the first record of time t or later.
LEMMA Seeks ==
    ASSUME Log(files, whole, torn, now), Clean, NEW g, IsHistory(g, whole, torn), NEW t \in Int
    PROVE  SeekDone(g, t, Found(t).rd)
<1>1. whole \in [Files -> Seq(Recs)] /\ torn \in [Files -> BOOLEAN]
    BY DEF Log, LogTypes
<1>2. PICK c : SearchChain(c, t) /\ Found(t) = c[MaxLogNum]
    BY SearchSteps
<1> DEFINE S == {i \in 0..MaxLogNum : c[i] \in SeekType /\ SeekInv(g, t, c[i], i)}
<1>3. 0 \in S
  <2>1. c[0] = Before /\ 0 \in 0..MaxLogNum
    BY <1>2, FileCount DEF SearchChain
  <2>2. Closed \in RdType
    BY FileCount DEF Closed, RdType
  <2>3. Before \in SeekType /\ Before.over = FALSE /\ Before.rd = Closed
    BY <2>2 DEF Before, SeekType
  <2>4. Later(whole, t, 0)
    BY FileCount DEF Later
  <2> QED BY <2>1, <2>3, <2>4 DEF SeekInv
<1>4. ASSUME NEW n \in 0..(MaxLogNum - 1), n \in S PROVE n + 1 \in S
  <2>1. n + 1 \in 1..MaxLogNum /\ (n + 1) - 1 = n /\ n + 1 \in 0..MaxLogNum /\ n \in Files
    BY FileCount DEF Files
  <2>2. c[n + 1] = search(t, c[n], n)
    BY <1>2, <2>1 DEF SearchChain
  <2>3. search(t, c[n], n) \in SeekType /\ SeekInv(g, t, search(t, c[n], n), n + 1)
    BY <1>4, <2>1, SeekStep
  <2> QED BY <2>1, <2>2, <2>3
<1> HIDE DEF S
<1>5. \A n \in 0..MaxLogNum : n \in S
    BY <1>3, <1>4, BoundedInd, FileCount
<1>6. MaxLogNum \in 0..MaxLogNum /\ MaxLogNum - MaxLogNum = 0
    BY FileCount
<1> DEFINE s == c[MaxLogNum]
<1>7. s \in SeekType /\ SeekInv(g, t, s, MaxLogNum)
    BY <1>5, <1>6 DEF S
<1> HIDE DEF s
<1>8. CASE s.over = TRUE
    BY <1>2, <1>7, <1>8 DEF SeekInv, s
<1>9. CASE s.over = FALSE
  <2>1. Later(whole, t, MaxLogNum) /\ (s.rd = Closed \/ \E j \in Files : OpenAt(t, s.rd, j, MaxLogNum))
    BY <1>7, <1>9 DEF SeekInv
  <2>2. s.rd \in RdType
    BY <1>7 DEF SeekType
  <2>3. Between(g, whole, t, MaxLogNum, <<>>)
    <3>1. g[0] = [recs |-> <<>>, tear |-> FALSE]
      BY DEF IsHistory
    <3>2. Since(t, <<>>) = <<>>
      BY SinceEmpty
    <3> QED BY <1>6, <2>1, <3>1, <3>2 DEF Between
  <2>4. CASE s.rd = Closed
    <3>1. s.rd.open = FALSE /\ s.rd.i = MaxLogNum
      BY <2>4 DEF Closed
    <3> QED BY <1>2, <2>2, <2>3, <3>1 DEF SeekDone, s
  <2>5. ASSUME NEW j \in Files, OpenAt(t, s.rd, j, MaxLogNum) PROVE SeekDone(g, t, s.rd)
    <3>1. s.rd = Opened(j, 0) /\ files[j] # None /\ \A k \in Files : j < k /\ k < MaxLogNum => files[k] = None
      BY <2>5 DEF OpenAt
    <3>2. s.rd.open = TRUE /\ s.rd.i = j /\ s.rd.pos = 0 /\ s.rd.eof = FALSE
      BY <3>1 DEF Opened
    <3>3. j < MaxLogNum
      BY FileCount
    <3>4. Inside(g, whole, t, j, 0, <<>>)
      BY <1>6, <2>3, <3>1, <3>3, FileOpened
    <3>5. PICK Q : Laid(Q, files[j], whole[j], FALSE)
      BY <3>1, CleanFile
    <3>6. torn[j] = FALSE /\ Q[0] = 0
      <4>1. torn[j] = FALSE
        BY <3>1, CleanFile
      <4>2. Q[0] = 0
        BY <3>5 DEF Laid, Places
      <4> QED BY <4>1, <4>2
    <3>7. Stands(g, files, whole, torn, t, s.rd, <<>>)
      <4> DEFINE r == s.rd
      <4> HIDE DEF r
      <4>1. /\ Inside(g, whole, t, r.i, 0, <<>>)
            /\ files[r.i] # None /\ Laid(Q, files[r.i], whole[r.i], torn[r.i]) /\ r.pos = Q[0]
            /\ r.eof => 0 = Len(whole[r.i]) /\ ~torn[r.i]
        BY <3>1, <3>2, <3>4, <3>5, <3>6 DEF r
      <4>2. Stands(g, files, whole, torn, t, r, <<>>)
        BY <4>1 DEF Stands
      <4> QED BY <4>2 DEF r
    <3> QED BY <2>2, <3>1, <3>2, <3>7 DEF SeekDone
  <2> QED BY <1>2, <2>1, <2>4, <2>5 DEF s
<1>10. s.over \in BOOLEAN
    BY <1>7 DEF SeekType
<1> QED BY <1>8, <1>9, <1>10

-----------------------------------------------------------------------------
(* One call of ReadRecordFromBinLog.                                       *)

\* The next file to read is the one with the largest smaller number.
LEMMA NextFileIs ==
    ASSUME NEW i \in Int
    PROVE  \/ NextFile(i) = -1 /\ \A k \in Files : k < i => files[k] = None
           \/ /\ NextFile(i) \in Files /\ NextFile(i) < i /\ files[NextFile(i)] # None
              /\ \A k \in Files : NextFile(i) < k /\ k < i => files[k] = None
<1> DEFINE S == {j \in Files : j < i /\ files[j] # None}
<1>1. NextFile(i) = IF S = {} THEN -1 ELSE Max(S)
    BY DEF NextFile
<1>2. CASE S = {}
    BY <1>1, <1>2
<1>3. CASE S # {}
  <2> DEFINE c(j) == (MaxLogNum - 1) - j
  <2> DEFINE T == {c(j) : j \in S}
  <2>1. T \in SUBSET Nat /\ T # {}
    <3>1. \A j \in S : c(j) \in Nat
      BY FileCount
    <3> QED BY <1>3, <3>1
  <2>2. Min(T) \in T /\ \A y \in T : Min(T) <= y
    <3> HIDE DEF T
    <3> QED BY <2>1, MinIs
  <2>3. PICK x \in S : Min(T) = c(x)
    BY <2>2
  <2>4. \A y \in S : x >= y
    <3> TAKE y \in S
    <3>1. c(x) <= c(y)
      BY <2>2, <2>3
    <3>2. x \in Nat /\ y \in Nat /\ MaxLogNum \in Nat
      BY FileCount
    <3> QED BY <3>1, <3>2
  <2>5. Max(S) \in S /\ \A y \in S : Max(S) >= y
    <3> HIDE DEF S
    <3> QED BY <2>4, Zenon DEF Max
  <2> DEFINE n == Max(S)
  <2>6. NextFile(i) = n
    BY <1>1, <1>3
  <2>7. n \in Files /\ n < i /\ files[n] # None
    <3> HIDE DEF n
    <3>1. n \in S
      BY <2>5 DEF n
    <3> QED BY <3>1
  <2>8. ASSUME NEW k \in Files, n < k, k < i PROVE files[k] = None
    <3> HIDE DEF n
    <3>1. \A y \in S : n >= y
      BY <2>5 DEF n
    <3>2. k \in Nat /\ n \in Nat
      BY <2>7, FileCount
    <3>3. k \notin S
      BY <2>8, <3>1, <3>2
    <3> QED BY <2>8, <3>3
  <2> HIDE DEF n
  <2> QED BY <2>6, <2>7, <2>8
<1> QED BY <1>2, <1>3

\* What is a prefix stays one.
LEMMA PrefixAppend ==
    ASSUME NEW X, NEW a \in Seq(X), NEW d \in Seq(X), NEW r \in X, IsPrefix(a, d)
    PROVE  IsPrefix(a, Append(d, r))
<1> DEFINE e == Append(d, r)
<1> DEFINE n == Len(a)
<1>1. n \in Nat /\ Len(d) \in Nat /\ n <= Len(d)
    BY DEF IsPrefix
<1>2. e \in Seq(X) /\ Len(e) = Len(d) + 1 /\ \A i \in 1..Len(d) : e[i] = d[i]
    OBVIOUS
<1> HIDE DEF e, n
<1>3. n <= Len(e)
    BY <1>1, <1>2
<1> DEFINE p == SubSeq(d, 1, n)
<1> DEFINE q == SubSeq(e, 1, n)
<1>4. p \in Seq(X) /\ Len(p) = n /\ \A i \in 1..n : p[i] = d[i]
    BY <1>1
<1>5. q \in Seq(X) /\ Len(q) = n /\ \A i \in 1..n : q[i] = e[i]
    BY <1>1, <1>2
<1> HIDE DEF p, q
<1>6. \A i \in 1..n : i \in 1..Len(d)
    BY <1>1
<1>7. p = q
  <2>1. \A i \in 1..n : p[i] = q[i]
    BY <1>2, <1>4, <1>5, <1>6
  <2> QED BY <1>4, <1>5, <2>1, SeqEqual
<1>8. SubSeq(a, 1, n) = p
    BY DEF IsPrefix, n, p
<1>9. SubSeq(a, 1, n) = SubSeq(e, 1, n)
    BY <1>7, <1>8 DEF q
<1> QED BY <1>3, <1>9 DEF IsPrefix, n, e

\* What follows a torn record does not matter.
LEMMA LostAppend ==
    ASSUME NEW wh \in [Files -> Seq(Recs)], NEW to \in [Files -> BOOLEAN], NEW g, IsHistory(g, wh, to),
           NEW t \in Int, NEW dl \in Seq(Recs), NEW r \in Recs, Lost(g, t, dl)
    PROVE  Lost(g, t, Append(dl, r))
<1> DEFINE a == Since(t, g[MaxLogNum].recs)
<1>1. g[MaxLogNum].recs \in Seq(Recs)
  <2>1. MaxLogNum \in 0..MaxLogNum
    BY FileCount
  <2>2. g[MaxLogNum] \in Hist
    BY <2>1, HistoryType
  <2> QED BY <2>2 DEF Hist
<1>2. a \in Seq(Recs)
    BY <1>1, SinceType
<1>3. g[MaxLogNum].tear /\ IsPrefix(a, dl)
    BY DEF Lost
<1> HIDE DEF a
<1>4. IsPrefix(a, Append(dl, r))
    BY <1>2, <1>3, PrefixAppend
<1> QED BY <1>3, <1>4 DEF Lost, a

\* A piece of a file, word by word.
LEMMA Piece ==
    ASSUME NEW b \in Seq(Nat), NEW d \in Seq(Nat), NEW p \in Nat, p + Len(d) <= Len(b),
           \A j \in 1..Len(d) : b[p + j] = d[j]
    PROVE  SubSeq(b, p + 1, p + Len(d)) = d
<1> DEFINE n == Len(d)
<1> DEFINE k == p + 1
<1> DEFINE l == p + n
<1> DEFINE c == SubSeq(b, k, l)
<1>1. n \in Nat /\ Len(b) \in Nat /\ l <= Len(b)
    OBVIOUS
<1>2. \A j \in 1..n : b[p + j] = d[j]
    OBVIOUS
<1> HIDE DEF n
<1>3. k \in Int /\ l \in Int /\ (IF k <= l THEN l - k + 1 ELSE 0) = n /\ l - k + 1 = n
    BY <1>1
<1>4. \A j \in k..l : j \in 1..Len(b)
    BY <1>1
<1>5. \A j \in k..l : b[j] \in Nat
    BY <1>4
<1>6. \A j \in 1..n : k + j - 1 = p + j
    OBVIOUS
<1> HIDE DEF k, l
<1>7. /\ c \in Seq(Nat) /\ Len(c) = IF k <= l THEN l - k + 1 ELSE 0
      /\ \A j \in 1..(l - k + 1) : c[j] = b[k + j - 1]
    BY <1>3, <1>5, SubSeqProperties
<1> HIDE DEF c
<1>8. c \in Seq(Nat) /\ Len(c) = n
    BY <1>3, <1>7
<1>9. \A j \in 1..n : c[j] = d[j]
    BY <1>2, <1>3, <1>6, <1>7
<1>10. c = d
    BY <1>8, <1>9, SeqEqual DEF n
<1> QED BY <1>10 DEF c, k, l, n

\* The words of a record are read back as the record.
LEMMA RecordRead ==
    ASSUME NEW w \in Seq(Nat), NEW r \in Recs, NEW p \in Nat, NEW q \in Nat, RecordAt(w, r, p, q),
           Len(r.data) \in 1..MaxItem
    PROVE  /\ ~(p + 2 > Len(w)) /\ ~(w[p + 2] > MaxItem) /\ w[p + 2] # 0
           /\ p + 2 + w[p + 2] = q /\ ~(q > Len(w))
           /\ [time |-> w[p + 1], data |-> SubSeq(w, p + 3, q)] = r
<1> DEFINE d == r.data
<1>1. d \in Seq(Nat) /\ r.time \in Nat /\ r = [time |-> r.time, data |-> d]
    BY DEF Recs
<1>2. /\ q = p + 2 + Len(d) /\ q <= Len(w)
      /\ w[p + 1] = r.time /\ w[p + 2] = Len(d)
      /\ \A x \in 1..Len(d) : w[p + 2 + x] = d[x]
    BY DEF RecordAt
<1>3. Len(d) \in 1..MaxItem /\ MaxItem \in Nat /\ Len(w) \in Nat /\ Len(d) \in Nat
    BY <1>1, BinLogFileAssumption
<1> HIDE DEF d
<1>4. SubSeq(w, (p + 2) + 1, (p + 2) + Len(d)) = d
  <2> DEFINE o == p + 2
  <2>1. o \in Nat /\ o + Len(d) <= Len(w)
    BY <1>2, <1>3
  <2>2. \A x \in 1..Len(d) : w[o + x] = d[x]
    BY <1>2
  <2> HIDE DEF o
  <2>3. SubSeq(w, o + 1, o + Len(d)) = d
    BY <1>1, <2>1, <2>2, Piece
  <2> QED BY <2>3 DEF o
<1>5. SubSeq(w, p + 3, q) = d
  <2>1. (p + 2) + 1 = p + 3 /\ (p + 2) + Len(d) = q
    BY <1>2, <1>3
  <2> QED BY <1>4, <2>1
<1>6. ~(p + 2 > Len(w)) /\ ~(w[p + 2] > MaxItem) /\ w[p + 2] # 0
    BY <1>2, <1>3
<1>7. p + 2 + w[p + 2] = q /\ ~(q > Len(w))
    BY <1>2, <1>3
<1>8. [time |-> w[p + 1], data |-> SubSeq(w, p + 3, q)] = r
    BY <1>1, <1>2, <1>5
<1> QED BY <1>6, <1>7, <1>8

\* What the reader meets where it stands: a torn record, the end of the file, or
\* the next record.
LEMMA StandsReads ==
    ASSUME NEW ff, NEW wh, NEW to, NEW n, Log(ff, wh, to, n), NEW g, IsHistory(g, wh, to),
           NEW t \in Int, NEW dl, NEW r \in RdType, r.open = TRUE, r.eof = FALSE,
           Stands(g, ff, wh, to, t, r, dl)
    PROVE  LET w == ff[r.i]
               len == w[r.pos + 2]
               end == r.pos + 2 + len
               rec == [time |-> w[r.pos + 1], data |-> SubSeq(w, r.pos + 3, end)]
           IN  \/ Lost(g, t, dl)
               \/ /\ r.pos + 2 > Len(w)
                  /\ Stands(g, ff, wh, to, t, [r EXCEPT !.pos = Len(w), !.eof = TRUE], dl)
               \/ /\ ~(r.pos + 2 > Len(w)) /\ ~(len > MaxItem) /\ len # 0 /\ ~(end > Len(w))
                  /\ Stands(g, ff, wh, to, t, [r EXCEPT !.pos = end], Append(dl, rec))
<1> DEFINE i == r.i
<1> DEFINE w == ff[i]
<1> DEFINE len == w[r.pos + 2]
<1> DEFINE end == r.pos + 2 + len
<1> DEFINE rec == [time |-> w[r.pos + 1], data |-> SubSeq(w, r.pos + 3, end)]
<1>1. PICK P, m : /\ Inside(g, wh, t, i, m, dl)
                  /\ w # None /\ Laid(P, w, wh[i], to[i]) /\ r.pos = P[m]
    BY DEF Stands
<1>2. i \in Files /\ m \in 0..Len(wh[i])
    BY <1>1 DEF Inside
<1>3. wh \in [Files -> Seq(Recs)] /\ to \in [Files -> BOOLEAN] /\ ff \in [Files -> Seq(Nat) \cup {None}]
    BY DEF Log, LogTypes
<1>4. w \in Seq(Nat) /\ wh[i] \in Seq(Recs) /\ to[i] \in BOOLEAN
    BY <1>1, <1>2, <1>3
<1>5. Places(P, w, wh[i]) /\ (~to[i] => P[Len(wh[i])] = Len(w))
    BY <1>1 DEF Laid
<1>6. Len(w) \in Nat /\ Len(wh[i]) \in Nat
    BY <1>4
<1> HIDE DEF i, w
<1>7. CASE m = Len(wh[i]) /\ to[i]
  <2>1. Inside(g, wh, t, i, Len(wh[i]), dl) /\ to[i]
    BY <1>1, <1>7
  <2>2. Lost(g, t, dl)
    BY <1>2, <1>3, <2>1, FileTorn
  <2> QED BY <2>2
<1>8. CASE m = Len(wh[i]) /\ ~to[i]
  <2> DEFINE s == [r EXCEPT !.pos = Len(w), !.eof = TRUE]
  <2>1. r.pos = Len(w)
    BY <1>1, <1>5, <1>8
  <2>2. r.pos + 2 > Len(w)
    BY <1>6, <2>1
  <2>3. s.i = i /\ s.pos = Len(w) /\ s.eof = TRUE
    BY DEF RdType, i
  <2> HIDE DEF s
  <2>4. /\ Inside(g, wh, t, s.i, m, dl)
        /\ ff[s.i] # None /\ Laid(P, ff[s.i], wh[s.i], to[s.i]) /\ s.pos = P[m]
        /\ s.eof => m = Len(wh[s.i]) /\ ~to[s.i]
    BY <1>1, <1>8, <2>1, <2>3 DEF w
  <2>5. Stands(g, ff, wh, to, t, s, dl)
    BY <2>4 DEF Stands
  <2> QED BY <2>2, <2>5 DEF s, w, i
<1>9. CASE m # Len(wh[i])
  <2> DEFINE e == wh[i][m + 1]
  <2> DEFINE q == P[m + 1]
  <2> DEFINE s == [r EXCEPT !.pos = end]
  <2>1. m \in Nat /\ m + 1 \in 1..Len(wh[i]) /\ (m + 1) - 1 = m /\ m + 1 \in 0..Len(wh[i])
    BY <1>2, <1>6, <1>9
  <2>2. e \in Recs /\ q \in Nat /\ r.pos \in Nat
    <3>1. e \in Recs
      BY <1>4, <2>1
    <3>2. P \in [0..Len(wh[i]) -> Nat]
      BY <1>5 DEF Places
    <3>3. q \in Nat /\ P[m] \in Nat
      BY <1>2, <2>1, <3>2
    <3> QED BY <1>1, <3>1, <3>3
  <2>3. RecordAt(w, e, r.pos, q)
    BY <1>1, <1>5, <2>1 DEF Places
  <2>4. Len(e.data) \in 1..MaxItem
    BY <1>2, <2>1 DEF Log, LogShape, Legal
  <2> HIDE DEF e, q, len, end, s, rec
  <2>5. /\ ~(r.pos + 2 > Len(w)) /\ ~(w[r.pos + 2] > MaxItem) /\ w[r.pos + 2] # 0
        /\ r.pos + 2 + w[r.pos + 2] = q /\ ~(q > Len(w))
        /\ [time |-> w[r.pos + 1], data |-> SubSeq(w, r.pos + 3, q)] = e
    BY <1>4, <2>2, <2>3, <2>4, RecordRead
  <2>6. ~(r.pos + 2 > Len(w)) /\ ~(len > MaxItem) /\ len # 0 /\ end = q /\ ~(end > Len(w))
    BY <2>5 DEF len, end
  <2>7. rec = e
    BY <2>5, <2>6 DEF rec
  <2>8. s.i = i /\ s.pos = q /\ s.eof = FALSE
    BY <2>6 DEF s, RdType, i
  <2>9. Inside(g, wh, t, i, m + 1, Append(dl, e))
    BY <1>1, <1>2, <1>3, <2>1, RecordDone DEF e
  <2>10. /\ Inside(g, wh, t, s.i, m + 1, Append(dl, rec))
         /\ ff[s.i] # None /\ Laid(P, ff[s.i], wh[s.i], to[s.i]) /\ s.pos = P[m + 1]
         /\ s.eof => m + 1 = Len(wh[s.i]) /\ ~to[s.i]
    BY <1>1, <2>7, <2>8, <2>9 DEF w, q
  <2>11. Stands(g, ff, wh, to, t, s, Append(dl, rec))
    BY <2>10 DEF Stands
  <2> QED BY <2>6, <2>11 DEF s, w, i, len, end, rec
<1> QED BY <1>4, <1>7, <1>8, <1>9

-----------------------------------------------------------------------------
(* The invariant.                                                          *)

\* Types.
Types ==
    /\ now \in Nat /\ now > 0
    /\ ret \in Int /\ start \in Int /\ delivered \in Seq(Recs)
    /\ pc \in {"run", "remove", "shift", "read", "done"}

\* Nothing has been read while records are written.
Waiting == pc \in {"run", "remove", "shift"} => delivered = <<>> /\ ret = 1

\* ShiftFiles never renames a file onto one that exists.
Moving == pc = "shift" => idx \in 0..(MaxLogNum - 2) /\ files[idx + 1] = None

\* The reader's file exists.
Reader == pc = "read" => rd \in RdType /\ (rd.open => rd.i \in Files /\ files[rd.i] # None)

\* What has been handed out is what lies before the reader.
Handed ==
    \A g : IsHistory(g, whole, torn) =>
        /\ pc = "read" /\ ret > 0 => Reading(g, files, whole, torn, start, rd, delivered)
        /\ (pc = "read" /\ ~(ret > 0)) \/ pc = "done" => Ended(g, start, delivered)

\* The inductive invariant.
Inv == Types /\ Log(files, whole, torn, now) /\ Waiting /\ Moving /\ Reader /\ Handed

-----------------------------------------------------------------------------
(* Writing keeps it.                                                       *)

\* While records are written only the files matter.
LEMMA WriteKeeps ==
    ASSUME Inv, UNCHANGED readVars, pc \in {"run", "remove", "shift"}, pc' \in {"run", "remove", "shift"},
           now' \in Nat, now' > 0, Log(files, whole, torn, now)', Moving'
    PROVE  Inv'
<1>1. rd' = rd /\ start' = start /\ ret' = ret /\ delivered' = delivered
    BY DEF readVars
<1>2. Types' /\ Waiting'
    BY <1>1 DEF Inv, Types, Waiting
<1>3. Reader' /\ Handed'
    BY DEF Reader, Handed
<1> QED BY <1>2, <1>3 DEF Inv

\* An empty log satisfies the invariant.
LEMMA InitKeeps == Init => Inv
<1> SUFFICES ASSUME Init PROVE Inv
    OBVIOUS
<1>1. files = [i \in Files |-> None] /\ whole = [i \in Files |-> <<>>] /\ torn = [i \in Files |-> FALSE]
      /\ now = 1 /\ pc = "run" /\ start = -1 /\ ret = 1 /\ delivered = <<>>
    BY DEF Init
<1>2. Types /\ Waiting /\ Moving /\ Reader /\ Handed
    BY <1>1 DEF Types, Waiting, Moving, Reader, Handed
<1>3. LogTypes(files, whole, torn)
    BY <1>1 DEF LogTypes
<1>4. LogShape(files, whole, torn, now)
    BY <1>1 DEF LogShape, FileShape
<1>5. Sorted(whole)
    BY <1>1 DEF Sorted
<1> QED BY <1>2, <1>3, <1>4, <1>5 DEF Inv, Log

\* The clock of time() keeps it.
LEMMA TickKeeps == ASSUME Inv, Tick PROVE Inv'
<1>1. pc = "run" /\ now' = now + 1 /\ UNCHANGED <<files, pc, whole, torn>> /\ UNCHANGED readVars
    BY DEF Tick
<1>2. now \in Nat /\ now > 0 /\ Log(files, whole, torn, now)
    BY DEF Inv, Types
<1>3. Log(files, whole, torn, now + 1)
    BY <1>2, LogTick
<1>4. Log(files, whole, torn, now)'
    BY <1>1, <1>3
<1>5. Moving' /\ now' \in Nat /\ now' > 0
    BY <1>1, <1>2 DEF Moving
<1> QED BY <1>1, <1>4, <1>5, WriteKeeps

\* A record as it is written.
LEMMA WordsAre ==
    ASSUME Inv, NEW p \in Payloads
    PROVE  LET r == [time |-> now, data |-> p] IN
           /\ r \in Recs /\ r.time = now /\ r.data = p /\ Legal(r, now)
           /\ WordsOf(p) = <<r.time, Len(r.data)>> \o r.data
           /\ WordsOf(p) \in Seq(Nat) /\ Len(WordsOf(p)) \in Nat
<1> DEFINE r == [time |-> now, data |-> p]
<1>1. p \in Seq(Nat) /\ Len(p) \in 1..MaxItem /\ now \in Nat /\ now > 0
    BY BinLogFileAssumption DEF Inv, Types
<1>2. r \in Recs /\ r.time = now /\ r.data = p
    BY <1>1 DEF Recs
<1>3. Legal(r, now)
    BY <1>1, <1>2 DEF Legal
<1> HIDE DEF r
<1>4. WordsOf(p) = <<r.time, Len(r.data)>> \o r.data
    BY <1>2 DEF WordsOf
<1>5. <<now, Len(p)>> \in Seq(Nat)
    BY <1>1
<1>6. WordsOf(p) \in Seq(Nat)
    BY <1>1, <1>5 DEF WordsOf
<1>7. Len(WordsOf(p)) \in Nat
    BY <1>6
<1> QED BY <1>2, <1>3, <1>4, <1>6, <1>7 DEF r

\* What file 0 is opened with.
LEMMA OldShape == ASSUME Inv PROVE WordsShape(Old(0), whole[0], torn[0]) /\ whole[0] \in Seq(Recs) /\ torn[0] \in BOOLEAN
<1>1. 0 \in Files
    BY FileCount DEF Files
<1>2. FileShape(files[0], whole[0], torn[0])
    BY <1>1 DEF Inv, Log, LogShape
<1>3. WordsShape(IF files[0] = None THEN <<>> ELSE files[0], whole[0], torn[0])
    BY <1>2, OpenShape
<1>4. whole[0] \in Seq(Recs) /\ torn[0] \in BOOLEAN
    BY <1>1 DEF Inv, Log, LogTypes
<1> QED BY <1>3, <1>4 DEF Old

\* WriteToBinLog keeps it: the record goes behind complete ones, or behind a torn one.
LEMMA WriteRecordKeeps == ASSUME Inv, NEW p \in Payloads, WriteToBinLog(p) PROVE Inv'
<1> DEFINE r == [time |-> now, data |-> p]
<1> DEFINE w == Old(0) \o WordsOf(p)
<1>1. /\ pc = "run" /\ files' = [files EXCEPT ![0] = w]
      /\ whole' = IF torn[0] THEN whole ELSE [whole EXCEPT ![0] = Append(@, r)]
      /\ now' = now /\ torn' = torn /\ UNCHANGED readVars
    BY DEF WriteToBinLog
<1>2. pc' \in {"run", "remove"}
    BY DEF WriteToBinLog
<1>3. /\ r \in Recs /\ r.time = now /\ Legal(r, now)
      /\ WordsOf(p) = <<r.time, Len(r.data)>> \o r.data
      /\ WordsOf(p) \in Seq(Nat)
    BY WordsAre
<1>4. WordsShape(Old(0), whole[0], torn[0]) /\ whole[0] \in Seq(Recs) /\ torn[0] \in BOOLEAN
    BY OldShape
<1>5. Log(files, whole, torn, now) /\ now \in Nat /\ now > 0
    BY DEF Inv, Types
<1> HIDE DEF r, w
<1>6. CASE torn[0]
  <2>1. WordsShape(w, whole[0], TRUE)
    BY <1>3, <1>4, WordsTorn DEF w
  <2>2. Log([files EXCEPT ![0] = w], whole, [torn EXCEPT ![0] = TRUE], now)
    BY <1>5, <2>1, LogTorn
  <2>3. [torn EXCEPT ![0] = TRUE] = torn
    <3>1. 0 \in Files /\ torn \in [Files -> BOOLEAN]
      BY <1>5, FileCount DEF Log, LogTypes, Files
    <3> QED BY <1>6, <3>1
  <2>4. Log(files, whole, torn, now)'
    BY <1>1, <1>6, <2>2, <2>3
  <2> QED BY <1>1, <1>2, <1>5, <2>4, WriteKeeps DEF Moving
<1>7. CASE ~torn[0]
  <2>1. WordsShape(w, Append(whole[0], r), FALSE)
    <3>1. WordsShape(Old(0), whole[0], FALSE)
      BY <1>4, <1>7
    <3> QED BY <1>3, <1>4, <3>1, WordsAppend DEF w
  <2>2. Log([files EXCEPT ![0] = w], [whole EXCEPT ![0] = Append(whole[0], r)], torn, now)
    BY <1>3, <1>5, <1>7, <2>1, LogAppend
  <2>3. Log(files, whole, torn, now)'
    BY <1>1, <1>7, <2>2
  <2> QED BY <1>1, <1>2, <1>5, <2>3, WriteKeeps DEF Moving
<1> QED BY <1>6, <1>7

\* A death in WriteToBinLog keeps it: what is in the file is torn, or nothing is.
LEMMA DieKeeps == ASSUME Inv, NEW p \in Payloads, NEW n \in 0..(MaxItem + 1), DieInWrite(p, n) PROVE Inv'
<1> DEFINE u == SubSeq(WordsOf(p), 1, n)
<1> DEFINE w == Old(0) \o u
<1> DEFINE b == torn[0] \/ n > 0
<1>1. /\ pc = "run" /\ files' = [files EXCEPT ![0] = w] /\ torn' = [torn EXCEPT ![0] = b]
      /\ now' = now /\ whole' = whole /\ pc' = pc /\ UNCHANGED readVars /\ n < Len(WordsOf(p))
    BY DEF DieInWrite
<1>2. WordsOf(p) \in Seq(Nat) /\ Len(WordsOf(p)) \in Nat
    BY WordsAre
<1>3. WordsShape(Old(0), whole[0], torn[0]) /\ whole[0] \in Seq(Recs) /\ torn[0] \in BOOLEAN
    BY OldShape
<1>4. Log(files, whole, torn, now) /\ now \in Nat /\ now > 0
    BY DEF Inv, Types
<1>5. n \in Nat /\ b \in BOOLEAN
    BY <1>3, BinLogFileAssumption
<1>6. WordsShape(w, whole[0], b)
  <2>1. CASE n = 0
    <3>1. u = <<>> /\ b = torn[0]
      BY <1>2, <1>3, <2>1
    <3>2. Old(0) \in Seq(Nat)
      BY <1>3 DEF WordsShape
    <3> HIDE DEF u, b
    <3>3. Old(0) \o <<>> = Old(0)
      BY <3>2, ConcatEmptySeq
    <3>4. w = Old(0)
      BY <3>1, <3>3
    <3> HIDE DEF w
    <3> QED BY <1>3, <3>1, <3>4
  <2>2. CASE n # 0
    <3>1. b = TRUE
      BY <1>5, <2>2
    <3>2. u \in Seq(Nat)
      BY <1>1, <1>2, <1>5, <2>2
    <3> HIDE DEF b, u
    <3>3. WordsShape(w, whole[0], TRUE)
      BY <1>3, <3>2, WordsTorn
    <3> QED BY <3>1, <3>3
  <2> QED BY <2>1, <2>2
<1> HIDE DEF w, b, u
<1>7. Log([files EXCEPT ![0] = w], whole, [torn EXCEPT ![0] = b], now)
    BY <1>4, <1>5, <1>6, LogTorn
<1>8. Log(files, whole, torn, now)'
    BY <1>1, <1>7
<1> QED BY <1>1, <1>4, <1>8, WriteKeeps DEF Moving

\* The remove of ShiftFiles keeps it.
LEMMA RemoveKeeps == ASSUME Inv, RemoveLast PROVE Inv'
<1> DEFINE i == MaxLogNum - 1
<1>1. /\ pc = "remove" /\ pc' = "shift" /\ idx' = MaxLogNum - 2 /\ now' = now /\ UNCHANGED readVars
      /\ files' = [files EXCEPT ![i] = None] /\ whole' = [whole EXCEPT ![i] = <<>>]
      /\ torn' = [torn EXCEPT ![i] = FALSE]
    BY DEF RemoveLast
<1>2. Log(files, whole, torn, now) /\ now \in Nat /\ now > 0
    BY DEF Inv, Types
<1>3. i \in Files /\ MaxLogNum - 2 \in 0..(MaxLogNum - 2) /\ (MaxLogNum - 2) + 1 = i
    BY FileCount DEF Files
<1> HIDE DEF i
<1>4. Log([files EXCEPT ![i] = None], [whole EXCEPT ![i] = <<>>], [torn EXCEPT ![i] = FALSE], now)
    BY <1>2, <1>3, LogRemove
<1>5. Log(files, whole, torn, now)'
    BY <1>1, <1>4
<1>6. Moving'
  <2>1. files'[i] = None
    BY <1>1, <1>2, <1>3 DEF Log, LogTypes
  <2> QED BY <1>1, <1>3, <2>1 DEF Moving
<1> QED BY <1>1, <1>2, <1>5, <1>6, WriteKeeps

\* A rename of ShiftFiles keeps it: the file it writes over is gone.
LEMMA ShiftKeeps == ASSUME Inv, Shift PROVE Inv'
<1>1. /\ pc = "shift" /\ now' = now /\ UNCHANGED readVars
      /\ IF files[idx] = None THEN UNCHANGED <<files, whole, torn>> ELSE Rename(idx, idx + 1)
      /\ IF idx = 0 THEN pc' = "run" ELSE idx' = idx - 1 /\ pc' = pc
    BY DEF Shift
<1>2. Log(files, whole, torn, now) /\ now \in Nat /\ now > 0
    BY DEF Inv, Types
<1>3. idx \in 0..(MaxLogNum - 2) /\ files[idx + 1] = None
    BY <1>1 DEF Inv, Moving
<1>4. idx \in Files /\ idx + 1 \in Files /\ idx \in Nat
    BY <1>3, FileCount DEF Files
<1>5. Log(files, whole, torn, now)' /\ files'[idx] = None
  <2>1. CASE files[idx] = None
    BY <1>1, <1>2, <2>1
  <2>2. CASE files[idx] # None
    <3>1. /\ files' = [files EXCEPT ![idx + 1] = files[idx], ![idx] = None]
          /\ whole' = [whole EXCEPT ![idx + 1] = whole[idx], ![idx] = <<>>]
          /\ torn' = [torn EXCEPT ![idx + 1] = torn[idx], ![idx] = FALSE]
      BY <1>1, <2>2 DEF Rename
    <3>2. Log([files EXCEPT ![idx + 1] = files[idx], ![idx] = None],
              [whole EXCEPT ![idx + 1] = whole[idx], ![idx] = <<>>],
              [torn EXCEPT ![idx + 1] = torn[idx], ![idx] = FALSE], now)
      BY <1>2, <1>3, LogRename
    <3>3. Log(files, whole, torn, now)'
      BY <1>1, <3>1, <3>2
    <3>4. files'[idx] = None
      BY <1>2, <1>4, <3>1 DEF Log, LogTypes
    <3> QED BY <3>3, <3>4
  <2> QED BY <2>1, <2>2
<1>6. CASE idx = 0
  <2>1. pc' = "run"
    BY <1>1, <1>6
  <2> QED BY <1>1, <1>2, <1>5, <2>1, WriteKeeps DEF Moving
<1>7. CASE idx # 0
  <2>1. idx' = idx - 1 /\ pc' = "shift"
    BY <1>1, <1>7
  <2>2. idx - 1 \in 0..(MaxLogNum - 2) /\ (idx - 1) + 1 = idx
    BY <1>3, <1>7, FileCount
  <2>3. Moving'
    BY <1>5, <2>1, <2>2 DEF Moving
  <2> QED BY <1>1, <1>2, <1>5, <2>1, <2>3, WriteKeeps
<1> QED BY <1>6, <1>7

\* A ShiftFiles that stops half-way keeps it.
LEMMA EndsKeeps == ASSUME Inv, ShiftEnds PROVE Inv'
<1>1. /\ pc \in {"remove", "shift"} /\ pc' = "run" /\ UNCHANGED readVars
      /\ files' = files /\ whole' = whole /\ torn' = torn /\ now' = now
    BY DEF ShiftEnds, writeVars
<1>2. Log(files, whole, torn, now) /\ now \in Nat /\ now > 0
    BY DEF Inv, Types
<1>3. Log(files, whole, torn, now)'
    BY <1>1, <1>2
<1> QED BY <1>1, <1>2, <1>3, WriteKeeps DEF Moving

-----------------------------------------------------------------------------
(* Reading keeps it.                                                       *)

\* While records are read the files do not change.
LEMMA ReadKeeps ==
    ASSUME Inv, UNCHANGED writeVars, pc' \in {"read", "done"}, start' \in Int, ret' \in Int,
           delivered' \in Seq(Recs), Reader', Handed'
    PROVE  Inv'
<1>1. files' = files /\ whole' = whole /\ torn' = torn /\ now' = now
    BY DEF writeVars
<1>2. Log(files, whole, torn, now)' /\ Types' /\ Waiting' /\ Moving'
  <2>1. Log(files, whole, torn, now)'
    BY <1>1 DEF Inv
  <2>2. Types'
    BY <1>1 DEF Inv, Types
  <2>3. Waiting' /\ Moving'
    BY DEF Waiting, Moving
  <2> QED BY <2>1, <2>2, <2>3
<1> QED BY <1>2 DEF Inv

\* After a torn record it does not matter where the reader is.
LEMMA LostEnds == ASSUME NEW g, NEW t, NEW dl, Lost(g, t, dl) PROVE Ended(g, t, dl)
BY DEF Lost, Ended

\* Before the oldest file nothing has been handed out.
LEMMA ReadStarts ==
    ASSUME Log(files, whole, torn, now), NEW g, IsHistory(g, whole, torn)
    PROVE  Between(g, whole, -1, MaxLogNum, <<>>)
<1>1. whole \in [Files -> Seq(Recs)]
    BY DEF Log, LogTypes
<1>2. g[0] = [recs |-> <<>>, tear |-> FALSE] /\ MaxLogNum - MaxLogNum = 0 /\ MaxLogNum \in 0..MaxLogNum
    BY FileCount DEF IsHistory
<1>3. Since(-1, <<>>) = <<>>
    BY SinceEmpty
<1>4. g[0].recs = <<>> /\ g[0].tear = FALSE
    BY <1>2
<1>5. Later(whole, -1, MaxLogNum)
  <2> SUFFICES ASSUME NEW k \in Files, NEW y \in 1..Len(whole[k]) PROVE whole[k][y].time >= -1
    BY DEF Later
  <2>1. whole[k][y].time \in Nat
    BY <1>1, TimesAre
  <2> QED BY <2>1
<1> QED BY <1>2, <1>3, <1>4, <1>5 DEF Between

\* SetReadRecordStartTime(-1) keeps it.
LEMMA ReadAllKeeps == ASSUME Inv, ReadAll PROVE Inv'
<1>1. /\ pc = "run" /\ pc' = "read" /\ start' = -1 /\ rd' = Closed /\ UNCHANGED writeVars
      /\ ret' = ret /\ delivered' = delivered
    BY DEF ReadAll
<1>2. delivered' = <<>> /\ ret' = 1 /\ ret' > 0
    BY <1>1 DEF Inv, Waiting
<1>3. files' = files /\ whole' = whole /\ torn' = torn /\ Log(files, whole, torn, now)
    BY <1>1 DEF writeVars, Inv
<1>4. Closed \in RdType /\ Closed.open = FALSE /\ Closed.i = MaxLogNum
    BY FileCount DEF Closed, RdType
<1>5. Reader'
    BY <1>1, <1>4 DEF Reader
<1>6. ASSUME NEW g, IsHistory(g, whole', torn')
      PROVE  Reading(g, files', whole', torn', start', rd', delivered')
  <2>1. IsHistory(g, whole, torn)
    BY <1>3, <1>6
  <2>2. Between(g, whole, -1, MaxLogNum, <<>>)
    BY <1>3, <2>1, ReadStarts
  <2> QED BY <1>1, <1>2, <1>3, <1>4, <2>2 DEF Reading
<1>7. Handed'
    BY <1>1, <1>2, <1>6 DEF Handed
<1> QED BY <1>1, <1>2, <1>5, <1>7, ReadKeeps

\* SetReadRecordStartTime keeps it: the search ends where nothing wanted lies before.
LEMMA SeekKeeps == ASSUME Inv, NEW t \in Int, SetReadRecordStartTime(t) PROVE Inv'
<1>1. /\ pc = "run" /\ pc' = "read" /\ start' = t /\ UNCHANGED writeVars
      /\ ret' = ret /\ delivered' = delivered
    BY Zenon DEF SetReadRecordStartTime
<1>2. Clean
    BY Zenon DEF SetReadRecordStartTime, Clean
<1>3. rd' = Found(t).rd
    BY Zenon DEF SetReadRecordStartTime, Found, Before
<1>4. delivered' = <<>> /\ ret' = 1 /\ ret' > 0
    BY <1>1 DEF Inv, Waiting
<1>5. files' = files /\ whole' = whole /\ torn' = torn /\ Log(files, whole, torn, now)
    BY <1>1 DEF writeVars, Inv
<1>6. ASSUME NEW g, IsHistory(g, whole, torn) PROVE SeekDone(g, t, rd')
  <2>1. SeekDone(g, t, Found(t).rd)
    BY <1>2, <1>5, <1>6, Seeks
  <2> QED BY <1>3, <2>1
<1>7. PICK h : IsHistory(h, whole, torn)
  <2>1. whole \in [Files -> Seq(Recs)] /\ torn \in [Files -> BOOLEAN]
    BY <1>5 DEF Log, LogTypes
  <2> QED BY <2>1, HistorySteps
<1>8. Reader'
  <2>1. SeekDone(h, t, rd')
    BY <1>6, <1>7
  <2> QED BY <1>5, <2>1 DEF SeekDone, Reader
<1>9. ASSUME NEW g, IsHistory(g, whole', torn')
      PROVE  Reading(g, files', whole', torn', start', rd', delivered')
  <2>1. SeekDone(g, t, rd')
    BY <1>5, <1>6, <1>9
  <2> QED BY <1>1, <1>4, <1>5, <2>1 DEF SeekDone, Reading
<1>10. Handed'
    BY <1>1, <1>4, <1>9 DEF Handed
<1> QED BY <1>1, <1>4, <1>8, <1>10, ReadKeeps

\* Where the reader is when it asks for the next file.
LEMMA AtFileEnd ==
    ASSUME Inv, NextReadFile, NEW g, IsHistory(g, whole, torn), ~Lost(g, start, delivered)
    PROVE  Between(g, whole, start, rd.i, delivered)
<1>1. pc = "read" /\ ret > 0 /\ (~rd.open \/ rd.eof)
    BY DEF NextReadFile
<1>2. Reading(g, files, whole, torn, start, rd, delivered)
    BY <1>1 DEF Inv, Handed
<1>3. CASE ~rd.open
    BY <1>2, <1>3 DEF Reading
<1>4. CASE rd.open
  <2>1. Stands(g, files, whole, torn, start, rd, delivered) /\ rd.eof
    BY <1>1, <1>2, <1>4 DEF Reading
  <2>2. PICK P, m : /\ Inside(g, whole, start, rd.i, m, delivered)
                    /\ m = Len(whole[rd.i]) /\ ~torn[rd.i]
    BY <2>1 DEF Stands
  <2>3. rd.i \in Files /\ Inside(g, whole, start, rd.i, Len(whole[rd.i]), delivered)
    BY <2>2 DEF Inside
  <2>4. whole \in [Files -> Seq(Recs)] /\ torn \in [Files -> BOOLEAN]
    BY DEF Inv, Log, LogTypes
  <2> QED BY <2>2, <2>3, <2>4, FileDone
<1> QED BY <1>3, <1>4

\* The way to the next file in ReadRecordFromBinLog keeps it.
LEMMA NextReadFileKeeps == ASSUME Inv, NextReadFile PROVE Inv'
<1> DEFINE i == NextFile(rd.i)
<1>1. /\ pc = "read" /\ ret > 0 /\ pc' = pc /\ UNCHANGED writeVars
      /\ start' = start /\ delivered' = delivered
      /\ rd' = IF i >= 0 THEN Opened(i, 0) ELSE [Closed EXCEPT !.i = i]
      /\ ret' = IF i >= 0 THEN ret ELSE -1
    BY DEF NextReadFile
<1>2. files' = files /\ whole' = whole /\ torn' = torn /\ Log(files, whole, torn, now)
    BY <1>1 DEF writeVars, Inv
<1>3. rd \in RdType /\ rd.i \in Int /\ start \in Int /\ ret \in Int /\ delivered \in Seq(Recs)
  <2>1. rd \in RdType
    BY <1>1 DEF Inv, Reader
  <2> QED BY <2>1 DEF Inv, Types, RdType
<1>4. \/ i = -1 /\ \A k \in Files : k < rd.i => files[k] = None
      \/ /\ i \in Files /\ i < rd.i /\ files[i] # None
         /\ \A k \in Files : i < k /\ k < rd.i => files[k] = None
    BY <1>3, NextFileIs
<1> HIDE DEF i
<1>5. CASE i = -1 /\ \A k \in Files : k < rd.i => files[k] = None
  <2>1. rd' = [Closed EXCEPT !.i = i] /\ ret' = -1 /\ ~(ret' > 0) /\ ret' \in Int
    BY <1>1, <1>5
  <2>2. Reader'
    <3> DEFINE c == [Closed EXCEPT !.i = i]
    <3>1. Closed \in RdType
      BY FileCount DEF Closed, RdType
    <3>2. i \in Int
      BY <1>5
    <3>3. c \in RdType
      BY <3>1, <3>2 DEF RdType
    <3>4. c.open = FALSE
      BY DEF Closed
    <3> HIDE DEF c
    <3>5. rd' = c
      BY <2>1 DEF c
    <3> QED BY <3>3, <3>4, <3>5 DEF Reader
  <2>3. ASSUME NEW g, IsHistory(g, whole', torn') PROVE Ended(g, start', delivered')
    <3>1. IsHistory(g, whole, torn)
      BY <1>2, <2>3
    <3>2. CASE Lost(g, start, delivered)
      BY <1>1, <3>2, LostEnds
    <3>3. CASE ~Lost(g, start, delivered)
      <4>1. Between(g, whole, start, rd.i, delivered)
        BY <3>1, <3>3, AtFileEnd
      <4>2. rd.i \in 0..MaxLogNum
        BY <4>1 DEF Between
      <4>3. Ended(g, start, delivered)
        BY <1>2, <1>5, <3>1, <4>1, <4>2, NoneLeft
      <4> QED BY <1>1, <4>3
    <3> QED BY <3>2, <3>3
  <2>4. Handed'
    BY <1>1, <2>1, <2>3 DEF Handed
  <2> QED BY <1>1, <1>3, <2>1, <2>2, <2>4, ReadKeeps
<1>6. CASE /\ i \in Files /\ i < rd.i /\ files[i] # None
           /\ \A k \in Files : i < k /\ k < rd.i => files[k] = None
  <2>1. i >= 0
    BY <1>6, FileCount
  <2>2. rd' = Opened(i, 0) /\ ret' = ret
    BY <1>1, <2>1
  <2>3. Opened(i, 0) \in RdType /\ Opened(i, 0).open = TRUE /\ Opened(i, 0).i = i
        /\ Opened(i, 0).pos = 0 /\ Opened(i, 0).eof = FALSE
    BY <1>6, FileCount DEF Opened, RdType
  <2>4. Reader'
    BY <1>2, <1>6, <2>2, <2>3 DEF Reader
  <2>5. ASSUME NEW g, IsHistory(g, whole', torn')
        PROVE  Reading(g, files', whole', torn', start', rd', delivered')
    <3>1. IsHistory(g, whole, torn)
      BY <1>2, <2>5
    <3>2. CASE Lost(g, start, delivered)
      BY <1>1, <3>2 DEF Reading
    <3>3. CASE ~Lost(g, start, delivered)
      <4>1. Between(g, whole, start, rd.i, delivered)
        BY <3>1, <3>3, AtFileEnd
      <4>2. rd.i \in 0..MaxLogNum
        BY <4>1 DEF Between
      <4>3. Inside(g, whole, start, i, 0, delivered)
        BY <1>2, <1>6, <3>1, <4>1, <4>2, FileOpened
      <4>4. FileShape(files[i], whole[i], torn[i])
        BY <1>2, <1>6 DEF Log, LogShape
      <4>5. PICK P : Laid(P, files[i], whole[i], torn[i])
        BY <1>6, <4>4 DEF FileShape, WordsShape
      <4>6. P[0] = 0
        BY <4>5 DEF Laid, Places
      <4>7. /\ Inside(g, whole, start, rd'.i, 0, delivered)
            /\ files[rd'.i] # None /\ Laid(P, files[rd'.i], whole[rd'.i], torn[rd'.i]) /\ rd'.pos = P[0]
            /\ rd'.eof => 0 = Len(whole[rd'.i]) /\ ~torn[rd'.i]
        BY <1>6, <2>2, <2>3, <4>3, <4>5, <4>6
      <4>8. Stands(g, files, whole, torn, start, rd', delivered)
        BY <4>7 DEF Stands
      <4> QED BY <1>1, <1>2, <2>2, <2>3, <4>8 DEF Reading
    <3> QED BY <3>2, <3>3
  <2>6. Handed'
    BY <1>1, <2>2, <2>5 DEF Handed
  <2> QED BY <1>1, <1>3, <2>2, <2>4, <2>6, ReadKeeps
<1> QED BY <1>4, <1>5, <1>6

\* The four ways a call that reads from the open file ends.
ReadsNothing(w, r) == r.pos + 2 > Len(w)
ReadsTooLong(w, r) == ~ReadsNothing(w, r) /\ w[r.pos + 2] > MaxItem
ReadsShort(w, r) ==
    /\ ~ReadsNothing(w, r) /\ ~ReadsTooLong(w, r)
    /\ w[r.pos + 2] = 0 \/ r.pos + 2 + w[r.pos + 2] > Len(w)
ReadsRecord(w, r) ==
    /\ ~ReadsNothing(w, r) /\ ~ReadsTooLong(w, r)
    /\ w[r.pos + 2] # 0 /\ ~(r.pos + 2 + w[r.pos + 2] > Len(w))

\* The record that is read, and the place after it.
NextPlace(w, r) == r.pos + 2 + w[r.pos + 2]
NextRecord(w, r) == [time |-> w[r.pos + 1], data |-> SubSeq(w, r.pos + 3, NextPlace(w, r))]

\* The words of a record that is read are a record.
LEMMA RecordIs ==
    ASSUME NEW w \in Seq(Nat), NEW r \in RdType, ReadsRecord(w, r)
    PROVE  NextRecord(w, r) \in Recs /\ NextPlace(w, r) \in Nat
<1> DEFINE p == r.pos
<1> DEFINE l == w[p + 2]
<1> DEFINE d == SubSeq(w, p + 3, NextPlace(w, r))
<1>1. p \in Nat /\ Len(w) \in Nat
    BY DEF RdType
<1>2. ~(p + 2 > Len(w)) /\ l # 0 /\ ~(p + 2 + l > Len(w))
    BY DEF ReadsRecord, ReadsNothing
<1>3. NextPlace(w, r) = p + 2 + l
    BY DEF NextPlace
<1> HIDE DEF p, l
<1>4. p + 1 \in 1..Len(w) /\ p + 2 \in 1..Len(w)
    BY <1>1, <1>2
<1>5. w[p + 1] \in Nat /\ l \in Nat
    BY <1>4 DEF l
<1>6. NextPlace(w, r) \in Nat /\ p + 3 \in Nat \ {0} /\ NextPlace(w, r) <= Len(w)
    BY <1>1, <1>2, <1>3, <1>5
<1>7. d \in Seq(Nat)
  <2> DEFINE e == NextPlace(w, r)
  <2> HIDE DEF e
  <2>1. e \in Nat /\ e <= Len(w)
    BY <1>6 DEF e
  <2>2. \A j \in (p + 3)..e : w[j] \in Nat
    BY <1>1, <2>1
  <2>3. SubSeq(w, p + 3, e) \in Seq(Nat)
    BY <1>1, <1>6, <2>1, <2>2
  <2> QED BY <2>3 DEF e
<1> HIDE DEF d
<1>8. NextRecord(w, r) = [time |-> w[p + 1], data |-> d]
    BY DEF NextRecord, p, d
<1> QED BY <1>5, <1>6, <1>7, <1>8 DEF Recs

\* ReadRecord by these cases.
LEMMA ReadRecordIs ==
    ASSUME ReadRecord
    PROVE  LET w == files[rd.i] IN
           /\ pc = "read" /\ ret > 0 /\ rd.open /\ ~rd.eof /\ pc' = pc /\ start' = start
           /\ UNCHANGED writeVars
           /\ \/ /\ ReadsNothing(w, rd) /\ rd' = [rd EXCEPT !.pos = Len(w), !.eof = TRUE]
                 /\ ret' = ret /\ delivered' = delivered
              \/ /\ ReadsTooLong(w, rd) /\ rd' = [rd EXCEPT !.open = FALSE]
                 /\ ret' = -3 /\ delivered' = delivered
              \/ /\ ReadsShort(w, rd)
                 /\ rd' = [rd EXCEPT !.pos = IF w[rd.pos + 2] = 0 THEN NextPlace(w, rd) ELSE Len(w),
                                     !.eof = w[rd.pos + 2] # 0]
                 /\ ret' = 0 /\ delivered' = delivered
              \/ /\ ReadsRecord(w, rd) /\ rd' = [rd EXCEPT !.pos = NextPlace(w, rd)]
                 /\ ret' = 1 /\ delivered' = Append(delivered, NextRecord(w, rd))
BY Zenon DEF ReadRecord, ReadsNothing, ReadsTooLong, ReadsShort, ReadsRecord, NextPlace, NextRecord

\* What lies before the reader's place decides which case it can be.
LEMMA ReadingReads ==
    ASSUME Inv, ReadRecord, NEW g, IsHistory(g, whole, torn), ~Lost(g, start, delivered)
    PROVE  LET w == files[rd.i] IN
           \/ /\ ReadsNothing(w, rd)
              /\ Stands(g, files, whole, torn, start, [rd EXCEPT !.pos = Len(w), !.eof = TRUE], delivered)
           \/ /\ ReadsRecord(w, rd)
              /\ Stands(g, files, whole, torn, start, [rd EXCEPT !.pos = NextPlace(w, rd)],
                        Append(delivered, NextRecord(w, rd)))
<1>1. pc = "read" /\ ret > 0 /\ rd.open /\ ~rd.eof
    BY DEF ReadRecord
<1>2. rd \in RdType /\ start \in Int /\ Log(files, whole, torn, now)
    BY <1>1 DEF Inv, Reader, Types
<1>3. rd.open = TRUE /\ rd.eof = FALSE
    BY <1>1, <1>2 DEF RdType
<1>4. Reading(g, files, whole, torn, start, rd, delivered)
    BY <1>1 DEF Inv, Handed
<1>5. Stands(g, files, whole, torn, start, rd, delivered)
    BY <1>3, <1>4 DEF Reading
<1> DEFINE w == files[rd.i]
<1> DEFINE len == w[rd.pos + 2]
<1> DEFINE end == rd.pos + 2 + len
<1> DEFINE rec == [time |-> w[rd.pos + 1], data |-> SubSeq(w, rd.pos + 3, end)]
<1>6. \/ /\ rd.pos + 2 > Len(w)
         /\ Stands(g, files, whole, torn, start, [rd EXCEPT !.pos = Len(w), !.eof = TRUE], delivered)
      \/ /\ ~(rd.pos + 2 > Len(w)) /\ ~(len > MaxItem) /\ len # 0 /\ ~(end > Len(w))
         /\ Stands(g, files, whole, torn, start, [rd EXCEPT !.pos = end], Append(delivered, rec))
    BY <1>2, <1>3, <1>5, StandsReads
<1> QED BY <1>6, Zenon DEF ReadsNothing, ReadsTooLong, ReadsRecord, NextPlace, NextRecord

\* A read of ReadRecordFromBinLog keeps it.
LEMMA ReadRecordKeeps == ASSUME Inv, ReadRecord PROVE Inv'
<1> DEFINE w == files[rd.i]
<1>1. /\ pc = "read" /\ ret > 0 /\ rd.open /\ ~rd.eof /\ pc' = pc /\ start' = start
      /\ UNCHANGED writeVars
    BY ReadRecordIs
<1>2. \/ /\ ReadsNothing(w, rd) /\ rd' = [rd EXCEPT !.pos = Len(w), !.eof = TRUE]
         /\ ret' = ret /\ delivered' = delivered
      \/ /\ ReadsTooLong(w, rd) /\ rd' = [rd EXCEPT !.open = FALSE]
         /\ ret' = -3 /\ delivered' = delivered
      \/ /\ ReadsShort(w, rd)
         /\ rd' = [rd EXCEPT !.pos = IF w[rd.pos + 2] = 0 THEN NextPlace(w, rd) ELSE Len(w),
                             !.eof = w[rd.pos + 2] # 0]
         /\ ret' = 0 /\ delivered' = delivered
      \/ /\ ReadsRecord(w, rd) /\ rd' = [rd EXCEPT !.pos = NextPlace(w, rd)]
         /\ ret' = 1 /\ delivered' = Append(delivered, NextRecord(w, rd))
    BY ReadRecordIs
<1>3. files' = files /\ whole' = whole /\ torn' = torn /\ Log(files, whole, torn, now)
    BY <1>1 DEF writeVars, Inv
<1>4. rd \in RdType /\ rd.i \in Files /\ w # None /\ start \in Int /\ ret \in Int
      /\ delivered \in Seq(Recs)
    BY <1>1 DEF Inv, Types, Reader
<1>5. whole \in [Files -> Seq(Recs)] /\ torn \in [Files -> BOOLEAN] /\ w \in Seq(Nat)
    BY <1>3, <1>4 DEF Log, LogTypes
<1>6. Len(w) \in Nat
    BY <1>5
<1>7. ASSUME NEW g, IsHistory(g, whole', torn') PROVE IsHistory(g, whole, torn)
    BY <1>3, <1>7
<1> HIDE DEF w
<1>8. CASE /\ ReadsNothing(w, rd) /\ rd' = [rd EXCEPT !.pos = Len(w), !.eof = TRUE]
           /\ ret' = ret /\ delivered' = delivered
  <2>1. rd' \in RdType /\ rd'.open = rd.open /\ rd'.i = rd.i
    BY <1>4, <1>6, <1>8 DEF RdType
  <2>2. Reader'
    BY <1>3, <1>4, <2>1 DEF Reader, w
  <2>3. ~ReadsRecord(w, rd)
    BY <1>8 DEF ReadsRecord
  <2>4. ASSUME NEW g, IsHistory(g, whole', torn')
        PROVE  Reading(g, files', whole', torn', start', rd', delivered')
    <3>1. CASE Lost(g, start, delivered)
      BY <1>1, <1>8, <3>1 DEF Reading
    <3>2. CASE ~Lost(g, start, delivered)
      <4>1. Stands(g, files, whole, torn, start, [rd EXCEPT !.pos = Len(w), !.eof = TRUE], delivered)
        BY <1>7, <2>3, <2>4, <3>2, ReadingReads DEF w
      <4>2. Stands(g, files', whole', torn', start', rd', delivered')
        BY <1>1, <1>3, <1>8, <4>1
      <4> QED BY <1>1, <2>1, <4>2 DEF Reading
    <3> QED BY <3>1, <3>2
  <2>5. Handed'
    BY <1>1, <1>8, <2>4 DEF Handed
  <2> QED BY <1>1, <1>4, <1>8, <2>2, <2>5, ReadKeeps
<1>9. CASE /\ ReadsRecord(w, rd) /\ rd' = [rd EXCEPT !.pos = NextPlace(w, rd)]
           /\ ret' = 1 /\ delivered' = Append(delivered, NextRecord(w, rd))
  <2>1. NextRecord(w, rd) \in Recs /\ NextPlace(w, rd) \in Nat
    BY <1>4, <1>5, <1>9, RecordIs
  <2>2. rd' \in RdType /\ rd'.open = rd.open /\ rd'.i = rd.i
    BY <1>4, <1>9, <2>1 DEF RdType
  <2>3. Reader'
    BY <1>3, <1>4, <2>2 DEF Reader, w
  <2>4. delivered' \in Seq(Recs) /\ ret' \in Int
    BY <1>4, <1>9, <2>1
  <2>5. ~ReadsNothing(w, rd)
    BY <1>9 DEF ReadsRecord
  <2>6. ASSUME NEW g, IsHistory(g, whole', torn')
        PROVE  Reading(g, files', whole', torn', start', rd', delivered')
    <3>1. CASE Lost(g, start, delivered)
      <4>1. Lost(g, start, Append(delivered, NextRecord(w, rd)))
        BY <1>4, <1>5, <1>7, <2>1, <2>6, <3>1, LostAppend
      <4> QED BY <1>1, <1>9, <4>1 DEF Reading
    <3>2. CASE ~Lost(g, start, delivered)
      <4>1. Stands(g, files, whole, torn, start, [rd EXCEPT !.pos = NextPlace(w, rd)],
                   Append(delivered, NextRecord(w, rd)))
        BY <1>7, <2>5, <2>6, <3>2, ReadingReads DEF w
      <4>2. Stands(g, files', whole', torn', start', rd', delivered')
        BY <1>1, <1>3, <1>9, <4>1
      <4> QED BY <1>1, <2>2, <4>2 DEF Reading
    <3> QED BY <3>1, <3>2
  <2>7. Handed'
    BY <1>1, <1>9, <2>6 DEF Handed
  <2> QED BY <1>1, <1>4, <2>3, <2>4, <2>7, ReadKeeps
<1>10. ASSUME ~ReadsNothing(w, rd), ~ReadsRecord(w, rd), delivered' = delivered,
              ret' \in Int, ~(ret' > 0), Reader'
       PROVE  Inv'
  <2>1. ASSUME NEW g, IsHistory(g, whole', torn') PROVE Ended(g, start', delivered')
    <3>1. Lost(g, start, delivered)
      BY <1>7, <1>10, <2>1, ReadingReads DEF w
    <3> QED BY <1>1, <1>10, <3>1, LostEnds
  <2>2. Handed'
    BY <1>1, <1>10, <2>1 DEF Handed
  <2> QED BY <1>1, <1>4, <1>10, <2>2, ReadKeeps
<1>11. CASE /\ ReadsTooLong(w, rd) /\ rd' = [rd EXCEPT !.open = FALSE]
            /\ ret' = -3 /\ delivered' = delivered
  <2>1. rd' \in RdType /\ rd'.open = FALSE
    BY <1>4, <1>11 DEF RdType
  <2>2. ~ReadsNothing(w, rd) /\ ~ReadsRecord(w, rd)
    BY <1>11 DEF ReadsTooLong, ReadsRecord
  <2>3. Reader' /\ ret' \in Int /\ ~(ret' > 0)
    BY <1>11, <2>1 DEF Reader
  <2> QED BY <1>10, <1>11, <2>2, <2>3
<1>12. CASE /\ ReadsShort(w, rd)
            /\ rd' = [rd EXCEPT !.pos = IF w[rd.pos + 2] = 0 THEN NextPlace(w, rd) ELSE Len(w),
                                !.eof = w[rd.pos + 2] # 0]
            /\ ret' = 0 /\ delivered' = delivered
  <2> DEFINE p == IF w[rd.pos + 2] = 0 THEN NextPlace(w, rd) ELSE Len(w)
  <2> DEFINE e == w[rd.pos + 2] # 0
  <2>1. p \in Nat /\ e \in BOOLEAN
    <3>1. rd.pos \in Nat
      BY <1>4 DEF RdType
    <3> QED BY <1>6, <3>1 DEF NextPlace
  <2>2. rd' = [rd EXCEPT !.pos = p, !.eof = e]
    BY <1>12
  <2> HIDE DEF p, e
  <2>3. rd' \in RdType /\ rd'.open = rd.open /\ rd'.i = rd.i
    BY <1>4, <2>1, <2>2 DEF RdType
  <2>4. ~ReadsNothing(w, rd) /\ ~ReadsRecord(w, rd)
    BY <1>12 DEF ReadsShort, ReadsRecord
  <2>5. Reader'
    BY <1>3, <1>4, <2>3 DEF Reader, w
  <2>6. ret' \in Int /\ ~(ret' > 0) /\ delivered' = delivered
    BY <1>12
  <2> QED BY <1>10, <2>4, <2>5, <2>6
<1> QED BY <1>2, <1>8, <1>9, <1>11, <1>12

\* The end of the loop of StartUp keeps it.
LEMMA ReadEndsKeeps == ASSUME Inv, ReadEnds PROVE Inv'
<1>1. /\ pc = "read" /\ ret <= 0 /\ pc' = "done" /\ UNCHANGED writeVars
      /\ rd' = rd /\ start' = start /\ ret' = ret /\ delivered' = delivered
    BY DEF ReadEnds, readVars
<1>2. files' = files /\ whole' = whole /\ torn' = torn
    BY <1>1 DEF writeVars
<1>3. start \in Int /\ ret \in Int /\ delivered \in Seq(Recs) /\ ~(ret > 0)
    BY <1>1 DEF Inv, Types
<1>4. Handed'
  <2>1. ASSUME NEW g, IsHistory(g, whole', torn') PROVE Ended(g, start', delivered')
    <3>1. IsHistory(g, whole, torn)
      BY <1>2, <2>1
    <3>2. Ended(g, start, delivered)
      BY <1>1, <1>3, <3>1 DEF Inv, Handed
    <3> QED BY <1>1, <3>2
  <2> QED BY <1>1, <2>1 DEF Handed
<1> QED BY <1>1, <1>3, <1>4, ReadKeeps DEF Reader

\* So does a step that changes nothing.
LEMMA StutterKeeps == ASSUME Inv, UNCHANGED vars PROVE Inv'
<1>1. /\ files' = files /\ now' = now /\ pc' = pc /\ idx' = idx /\ rd' = rd /\ start' = start
      /\ ret' = ret /\ delivered' = delivered /\ whole' = whole /\ torn' = torn
    BY DEF vars
<1> QED BY <1>1 DEF Inv, Types, Waiting, Moving, Reader, Handed

\* Every step keeps the invariant.
LEMMA NextKeeps == Inv /\ [Next]_vars => Inv'
<1> SUFFICES ASSUME Inv, [Next]_vars PROVE Inv'
    OBVIOUS
<1>1. CASE Tick
    BY <1>1, TickKeeps
<1>2. CASE \E p \in Payloads : WriteToBinLog(p) \/ \E n \in 0..(MaxItem + 1) : DieInWrite(p, n)
    BY <1>2, WriteRecordKeeps, DieKeeps
<1>3. CASE RemoveLast
    BY <1>3, RemoveKeeps
<1>4. CASE Shift
    BY <1>4, ShiftKeeps
<1>5. CASE ShiftEnds
    BY <1>5, EndsKeeps
<1>6. CASE ReadAll
    BY <1>6, ReadAllKeeps
<1>7. CASE \E t \in 1..MaxTime : SetReadRecordStartTime(t)
  <2>1. \A t \in 1..MaxTime : t \in Int
    BY BinLogFileAssumption
  <2> QED BY <1>7, <2>1, SeekKeeps
<1>8. CASE NextReadFile
    BY <1>8, NextReadFileKeeps
<1>9. CASE ReadRecord
    BY <1>9, ReadRecordKeeps
<1>10. CASE ReadEnds
    BY <1>10, ReadEndsKeeps
<1>11. CASE Done
    BY <1>11, StutterKeeps DEF Done
<1>12. CASE UNCHANGED vars
    BY <1>12, StutterKeeps
<1> QED BY <1>1, <1>2, <1>3, <1>4, <1>5, <1>6, <1>7, <1>8, <1>9, <1>10, <1>11, <1>12 DEF Next

\* The invariant holds in every reachable state.
THEOREM Invariance == Spec => []Inv
BY InitKeeps, NextKeeps, PTL DEF Spec

\* What the invariant says of a replay that has ended.
LEMMA InvReplays == Inv => ReplayIsExact
<1> SUFFICES ASSUME Inv, pc = "done"
             PROVE  LET B == BeforeTear
                        wanted == Since(start, B.recs)
                    IN  IF B.tear THEN IsPrefix(wanted, delivered) ELSE delivered = wanted
    BY DEF ReplayIsExact
<1>1. whole \in [Files -> Seq(Recs)] /\ torn \in [Files -> BOOLEAN]
    BY DEF Inv, Log, LogTypes
<1>2. PICK g : IsHistory(g, whole, torn) /\ BeforeTear = g[MaxLogNum]
    BY <1>1, HistorySteps
<1>3. Ended(g, start, delivered)
    BY <1>2 DEF Inv, Handed
<1> QED BY <1>2, <1>3, Zenon DEF Ended

\* Every replay hands out exactly the records before the first torn one.
THEOREM ReplayCorrect == Spec => []ReplayIsExact
BY Invariance, InvReplays, PTL

-----------------------------------------------------------------------------
(* What becomes of the words of a file.                                    *)

\* The words u are the beginning of file j.
Holds(ff, u, j) == j \in Files /\ ff[j] # None /\ IsPrefix(u, ff[j])

\* Words are a prefix of themselves, and of themselves with others behind them.
LEMMA PrefixConcat ==
    ASSUME NEW a \in Seq(Nat), NEW x \in Seq(Nat)
    PROVE  IsPrefix(a, a) /\ IsPrefix(a, a \o x)
<1> DEFINE c == a \o x
<1> DEFINE n == Len(a)
<1>1. c \in Seq(Nat) /\ Len(c) = n + Len(x) /\ n \in Nat /\ Len(x) \in Nat /\ \A i \in 1..n : c[i] = a[i]
    BY Concat
<1> HIDE DEF c
<1> DEFINE q == SubSeq(c, 1, n)
<1>2. q \in Seq(Nat) /\ Len(q) = n /\ \A i \in 1..n : q[i] = c[i]
  <2>1. n <= Len(c)
    BY <1>1
  <2> QED BY <1>1, <2>1
<1> HIDE DEF q
<1>3. \A i \in 1..n : q[i] = a[i]
    BY <1>1, <1>2
<1>4. q = a
    BY <1>2, <1>3, SeqEqual
<1>5. SubSeq(a, 1, n) = a
    OBVIOUS
<1>6. n <= Len(c) /\ n <= n
    BY <1>1
<1> QED BY <1>4, <1>5, <1>6 DEF IsPrefix, q, c

\* Words put behind file 0 keep it and the others.
LEMMA AppendHolds ==
    ASSUME NEW x \in Seq(Nat), files \in [Files -> Seq(Nat) \cup {None}],
           files' = [files EXCEPT ![0] = Old(0) \o x], NEW i \in Files, files[i] # None
    PROVE  Holds(files', files[i], i)
<1>1. 0 \in Files /\ files[i] \in Seq(Nat)
    BY FileCount DEF Files
<1>2. CASE i = 0
  <2>1. files'[i] = files[i] \o x
    BY <1>1, <1>2 DEF Old
  <2>2. IsPrefix(files[i], files[i] \o x) /\ files[i] \o x \in Seq(Nat)
    BY <1>1, PrefixConcat, Concat
  <2>3. files[i] \o x # None
    BY <2>2, BinLogFileAssumption
  <2> QED BY <2>1, <2>2, <2>3 DEF Holds
<1>3. CASE i # 0
  <2>1. files'[i] = files[i]
    BY <1>1, <1>3
  <2>2. IsPrefix(files[i], files[i])
    BY <1>1, PrefixConcat
  <2> QED BY <2>1, <2>2 DEF Holds
<1> QED BY <1>2, <1>3

\* Files that do not change keep their words.
LEMMA SameHolds ==
    ASSUME files \in [Files -> Seq(Nat) \cup {None}], NEW i \in Files, files[i] # None,
           files'[i] = files[i]
    PROVE  Holds(files', files[i], i)
<1>1. files[i] \in Seq(Nat)
    OBVIOUS
<1>2. IsPrefix(files[i], files[i])
    BY <1>1, PrefixConcat
<1> QED BY <1>2 DEF Holds

\* One step keeps the words of every file but the last one in ShiftFiles.
LEMMA StepHolds ==
    ASSUME Inv, [Next]_vars, NEW i \in Files, files[i] # None, ~(pc = "remove" /\ i = MaxLogNum - 1)
    PROVE  Holds(files', files[i], i) \/ Holds(files', files[i], i + 1)
<1>1. files \in [Files -> Seq(Nat) \cup {None}]
    BY DEF Inv, Log, LogTypes
<1>2. CASE files' = files
    BY <1>1, <1>2, SameHolds
<1>3. ASSUME NEW p \in Payloads, WriteToBinLog(p) PROVE Holds(files', files[i], i)
  <2>1. files' = [files EXCEPT ![0] = Old(0) \o WordsOf(p)]
    BY <1>3 DEF WriteToBinLog
  <2>2. WordsOf(p) \in Seq(Nat)
    BY WordsAre
  <2> QED BY <1>1, <2>1, <2>2, AppendHolds
<1>4. ASSUME NEW p \in Payloads, NEW n \in 0..(MaxItem + 1), DieInWrite(p, n) PROVE Holds(files', files[i], i)
  <2> DEFINE x == SubSeq(WordsOf(p), 1, n)
  <2>1. files' = [files EXCEPT ![0] = Old(0) \o x] /\ n < Len(WordsOf(p))
    BY <1>4 DEF DieInWrite
  <2>2. WordsOf(p) \in Seq(Nat) /\ Len(WordsOf(p)) \in Nat
    BY WordsAre
  <2>3. n \in Nat
    BY BinLogFileAssumption
  <2>4. x \in Seq(Nat)
    BY <2>1, <2>2, <2>3
  <2> HIDE DEF x
  <2> QED BY <1>1, <2>1, <2>4, AppendHolds
<1>5. CASE RemoveLast
  <2>1. files' = [files EXCEPT ![MaxLogNum - 1] = None] /\ i # MaxLogNum - 1
    BY <1>5 DEF RemoveLast
  <2>2. files'[i] = files[i]
    BY <1>1, <2>1
  <2> QED BY <1>1, <2>2, SameHolds
<1>6. CASE Shift /\ files[idx] # None
  <2>1. files' = [files EXCEPT ![idx + 1] = files[idx], ![idx] = None]
    BY <1>6 DEF Shift, Rename
  <2>2. idx \in 0..(MaxLogNum - 2) /\ files[idx + 1] = None
    BY <1>6 DEF Inv, Moving, Shift
  <2>3. idx \in Files /\ idx + 1 \in Files /\ idx # idx + 1
    BY <2>2, FileCount DEF Files
  <2>4. CASE i = idx
    <3>1. files'[i + 1] = files[i]
      BY <1>1, <2>1, <2>3, <2>4
    <3>2. IsPrefix(files[i], files[i])
      <4>1. files[i] \in Seq(Nat)
        BY <1>1
      <4> QED BY <4>1, PrefixConcat
    <3> QED BY <2>3, <2>4, <3>1, <3>2 DEF Holds
  <2>5. CASE i # idx
    <3>1. i # idx + 1
      BY <2>2
    <3>2. files'[i] = files[i]
      BY <1>1, <2>1, <2>5, <3>1
    <3> QED BY <1>1, <3>2, SameHolds
  <2> QED BY <2>4, <2>5
<1>7. CASE Shift /\ files[idx] = None
    BY <1>2, <1>7 DEF Shift
<1>8. CASE Tick \/ ShiftEnds \/ ReadAll \/ NextReadFile \/ ReadRecord \/ ReadEnds \/ Done
  <2>1. files' = files
    BY <1>8 DEF Tick, ShiftEnds, ReadAll, NextReadFile, ReadRecord, ReadEnds, Done, writeVars, vars
  <2> QED BY <1>2, <2>1
<1>9. CASE \E t \in 1..MaxTime : SetReadRecordStartTime(t)
  <2>1. PICK t \in 1..MaxTime : SetReadRecordStartTime(t)
    BY <1>9
  <2>2. UNCHANGED writeVars
    BY <2>1, Zenon DEF SetReadRecordStartTime
  <2>3. files' = files
    BY <2>2 DEF writeVars
  <2> QED BY <1>2, <2>3
<1>10. CASE UNCHANGED vars
    BY <1>2, <1>10 DEF vars
<1> QED BY <1>3, <1>4, <1>5, <1>6, <1>7, <1>8, <1>9, <1>10 DEF Next

\* Rotation removes the last file and loses no other, however often it was cut short.
THEOREM RotationCorrect == Spec => OnlyTheLastFileGoes
<1> DEFINE Kept ==
      \A i \in Files :
          files[i] # None /\ ~(pc = "remove" /\ i = MaxLogNum - 1) =>
              \E j \in Files \cap {i, i + 1} : files'[j] # None /\ IsPrefix(files[i], files'[j])
<1>1. Inv /\ [Next]_vars => [Kept]_vars
  <2> SUFFICES ASSUME Inv, [Next]_vars PROVE Kept
    OBVIOUS
  <2> SUFFICES ASSUME NEW i \in Files, files[i] # None, ~(pc = "remove" /\ i = MaxLogNum - 1)
               PROVE  \E j \in Files \cap {i, i + 1} : files'[j] # None /\ IsPrefix(files[i], files'[j])
    OBVIOUS
  <2>1. Holds(files', files[i], i) \/ Holds(files', files[i], i + 1)
    BY StepHolds
  <2> QED BY <2>1 DEF Holds
<1> HIDE DEF Kept
<1>2. Spec => [][Kept]_vars
    BY <1>1, Invariance, PTL DEF Spec
<1> QED BY <1>2 DEF OnlyTheLastFileGoes, Kept
=============================================================================
